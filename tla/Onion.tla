------------------------------- MODULE Onion -------------------------------
(***************************************************************************)
(* The way of a message: send_message picks relays and wraps the text in   *)
(* one encrypted layer per hop (messanger.cc:75-131, util.cc:172-214), and *)
(* every listener that is addressed peels one layer and passes the rest on *)
(* (listen.cc:82-135).                                                     *)
(*                                                                         *)
(* A packet is the list of its layers, the outermost first.  A layer is    *)
(* the plain header of a file, from and to, and the key its body, that is  *)
(* the rest of the packet, is encrypted for; the innermost plaintext is    *)
(* the text with its own header.                                           *)
(*                                                                         *)
(* send_file writes the type and the size of a file and then the file      *)
(* itself (tcp_client.cc:96-131).  Of a frame that is cut in between, when *)
(* its sender ends or loses its socket, the receiver reads the size and    *)
(* then 0 bytes, for ever (tcp_client.cc:162-177).  Cut before its size it *)
(* is nothing.                                                             *)
(*                                                                         *)
(* A TCP_Client closes its descriptor in close() and once more in its      *)
(* destructor (tcp_client.cc:33-35 and 188-194).  Between the two, the     *)
(* other thread of the messenger may be given the same descriptor, and     *)
(* loses it to the second close.                                           *)
(***************************************************************************)
EXTENDS Integers, SequencesExt

CONSTANTS
    Name,       \* the user ids
    Addr,       \* IPv4 addresses
    NoAddr,     \* the empty address operator[] inserts for a missing id
    NoFile,     \* the empty path a failed encryption ends in
    Home,       \* Home[n]: where n's messenger listens
    Content,    \* texts
    Keys,       \* Keys[n]: whose public keys are on n's keyring
    Views,      \* the user lists a messenger may receive from the server
    Script,     \* the messages the users may send, each once
    MaxRelays,  \* 3 in util.cc:213
    MaxStops,   \* bound: messengers that end in one behaviour
    MaxLists    \* bound: lists received in one behaviour

List   == UNION {[D -> Addr \cup {NoAddr}] : D \in SUBSET Name}
Text   == [from : Name, to : Name, content : Content]
Header == [from : Name, to : Name]
Layer  == [from : Name, to : Name, key : Name]
Packet == [layers : Seq(Layer), text : Text]

ASSUME OnionAssumption ==
    /\ IsFiniteSet(Name)
    /\ NoAddr \notin Addr
    /\ NoFile \notin Packet
    /\ Home \in [Name -> Addr]
    /\ \A m, n \in Name : Home[m] = Home[n] => m = n
    /\ Keys \in [Name -> SUBSET Name]
    /\ Views \subseteq List
    /\ Script \subseteq Text
    /\ \A m \in Script : m.from # m.to     \* ui.cc:299 does not list oneself
    /\ MaxRelays \in Nat /\ MaxStops \in Nat /\ MaxLists \in Nat

VARIABLES
    up,      \* up[n]: n's messenger runs
    list,    \* list[n]: Messanger::node_list, shared by UI and listener
    out,     \* out[n]: the send_message n's UI thread is in
    inq,     \* inq[a]: connections a's listener has not served
    lst,     \* lst[n]: whether n's listener serves, is in send_file, has a
             \* closed TCP_Client yet to destroy, or hangs for ever
    half,    \* the frames of which the size is written, and not all the rest
    torn,    \* the messengers that cut a frame or closed a file in use:
             \* history, for a property only
    files,   \* files[n]: what n's listener has received and decrypted
    chat,    \* chat[n]: the texts n's UI has been given
    sent,    \* the messages of Script that were sent
    thin,    \* those of them sent when the list had fewer than two others:
             \* history, for a property only
    stops, lists  \* for the bounds only

vars == <<up, list, out, inq, lst, half, torn, files, chat, sent, thin, stops, lists>>

\* Nothing to send; the payload is being written; the TCP_Client closed and not
\* destroyed; a loop that never ends: NoFile is announced with a size of
\* 2^64 - 1 (tcp_client.cc:103) and no byte of it follows, or a file is read
\* that the other thread has closed, before there is a connection (NoAddr) or
\* after; the locals of send_message, where temp_from is the last hop wrapped.
Idle       == [at |-> "idle"]
Writing(a) == [at |-> "writing", addr |-> a]
Closing    == [at |-> "closing"]
Spins(a)   == [at |-> "spins", addr |-> a]
Sending    == [at : {"sending"}, route : Seq(Name), temp_from : Name,
               next : Name, file : Packet \cup {NoFile}]

\* A frame in the making: by which thread, to which listener.
Frame(n, thread, a, p) == [by |-> n, thread |-> thread, to |-> a, file |-> p]
Half == [by : Name, thread : {"ui", "listener"}, to : Addr, file : Packet]

\* Both files of a received packet stay in /tmp: its plain header, and what
\* was in its body.  of is the message it carries, for the properties only.
Decrypted == [outer : Header, inner : Header \cup Text, of : Text]

TypeOK ==
    /\ up \in [Name -> BOOLEAN]
    /\ list \in [Name -> List]
    /\ out \in [Name -> {Idle, Closing} \cup {Writing(a) : a \in Addr}
                      \cup {Spins(a) : a \in Addr \cup {NoAddr}} \cup Sending]
    /\ inq \in [Addr -> Seq(Packet \cup {NoFile})]
    /\ lst \in [Name -> {"serves", "writing", "closing", "wedged"}]
    /\ half \subseteq Half
    /\ torn \subseteq Name
    /\ files \in [Name -> SUBSET Decrypted]
    /\ chat \in [Name -> Seq(Text)]
    /\ sent \subseteq Script
    /\ thin \subseteq sent
    /\ stops \in 0 .. MaxStops
    /\ lists \in 0 .. MaxLists

Init ==
    /\ up = [n \in Name |-> TRUE]
    /\ list \in [Name -> Views]
    /\ out = [n \in Name |-> Idle]
    /\ inq = [a \in Addr |-> <<>>]
    /\ lst = [n \in Name |-> "serves"]
    /\ half = {}
    /\ torn = {}
    /\ files = [n \in Name |-> {}]
    /\ chat = [n \in Name |-> <<>>]
    /\ sent = {}
    /\ thin = {}
    /\ stops = 0
    /\ lists = 0

-----------------------------------------------------------------------------
(* Choosing the way and wrapping one layer.                                *)

Smaller(i, j) == IF i < j THEN i ELSE j

\* For a mutant: a relay too few.
generate_path_short(nodelist, from, to) ==
    LET others == nodelist \ {from, to}
        count  == Smaller(Cardinality(others), MaxRelays - 1)
    IN {<<from>> \o r \o <<to>> :
           r \in {s \in [1 .. count -> others] : IsInjective(s)}}

\* generate_path: up to MaxRelays others, in any order, between from and to.
generate_path(nodelist, from, to) ==
    LET others == nodelist \ {from, to}
        count  == Smaller(Cardinality(others), MaxRelays)
    IN {<<from>> \o r \o <<to>> :
           r \in {s \in [1 .. count -> others] : IsInjective(s)}}

\* For mutants: temp_file is cleared in every round; a failed round still makes
\* a layer, of nothing.
Wrap_clears(p, keys, from, to) ==
    IF p = NoFile \/ to \notin keys THEN NoFile
    ELSE [p EXCEPT !.layers = <<[from |-> from, to |-> to, key |-> to]>> \o @]
Wrap_empty(p, keys, from, to) ==
    IF p = NoFile THEN NoFile
    ELSE [p EXCEPT !.layers = <<[from |-> from, to |-> to,
                                 key |-> IF to \in keys THEN to ELSE NoFile]>> \o @]

\* One round of the loop of send_message: encrypt what there is for `to', put
\* the header on it.  Without the key encrypt_file fails, its result is not
\* looked at, and temp_file is the ciphertext of the round before, or none.
Wrap(p, keys, from, to) ==
    IF p = NoFile THEN NoFile
    ELSE IF to \in keys
    THEN [p EXCEPT !.layers = <<[from |-> from, to |-> to, key |-> to]>> \o @]
    ELSE IF p.layers = <<>> THEN NoFile
    ELSE [p EXCEPT !.layers[1] = [from |-> from, to |-> to, key |-> @.key]]

-----------------------------------------------------------------------------
(* Looking up an address and connecting.                                   *)

\* node_list[id] inserts an empty address for an id that is not there.
Lookup(l, id) == IF id \in DOMAIN l THEN l[id] ELSE NoAddr
WithPhantom(l, id) ==
    [x \in DOMAIN l \cup {id} |-> IF x \in DOMAIN l THEN l[x] ELSE NoAddr]

Reachable(a) == \E n \in Name : Home[n] = a /\ up[n]

-----------------------------------------------------------------------------
(* Frames that are cut.                                                    *)

HalfOf(n, threads) == {h \in half : h.by = n /\ h.thread \in threads}

\* What the listeners find when the rest of these frames never comes.
Cut(H) ==
    [a \in Addr |-> [i \in 1 .. Len(inq[a]) |->
        IF \E h \in H : h.to = a /\ h.file = inq[a][i] THEN NoFile ELSE inq[a][i]]]

\* A thread of n is at the payload of a frame and loses its file or its socket.
Tear(n, thread) ==
    LET H == HalfOf(n, {thread})
    IN /\ inq' = Cut(H)
       /\ half' = half \ H
       /\ torn' = torn \cup {n}

-----------------------------------------------------------------------------
(* The UI thread in send_message.                                          *)

\* A list with fewer than two others than sender and recipient.
Noted(n, m) ==
    IF Cardinality(DOMAIN list[n] \ {n, m.to}) < 2 THEN {m} ELSE {}

\* For a mutant: the text is addressed to str_next.
Compose_next(n) ==
    /\ up[n] /\ out[n] = Idle
    /\ \E m \in Script \ sent :
          /\ m.from = n
          /\ m.to \in DOMAIN list[n]
          /\ \E route \in generate_path(DOMAIN list[n], n, m.to) :
                out' = [out EXCEPT ![n] =
                          [at |-> "sending", route |-> route,
                           temp_from |-> Last(route), next |-> route[2],
                           file |-> [layers |-> <<>>,
                                     text |-> [m EXCEPT !.to = route[2]]]]]
          /\ sent' = sent \cup {m}
          /\ thin' = thin \cup Noted(n, m)
    /\ UNCHANGED <<up, list, inq, lst, half, torn, files, chat, stops, lists>>

\* The path is made of the list as it is; the text goes into a file.
Compose(n) ==
    /\ up[n] /\ out[n] = Idle
    /\ \E m \in Script \ sent :
          /\ m.from = n
          /\ m.to \in DOMAIN list[n]
          /\ \E route \in generate_path(DOMAIN list[n], n, m.to) :
                out' = [out EXCEPT ![n] =
                          [at |-> "sending", route |-> route,
                           temp_from |-> Last(route), next |-> route[2],
                           file |-> [layers |-> <<>>,
                                     text |-> [m EXCEPT !.from = route[1],
                                                        !.to = Last(route)]]]]
          /\ sent' = sent \cup {m}
          /\ thin' = thin \cup Noted(n, m)
    /\ UNCHANGED <<up, list, inq, lst, half, torn, files, chat, stops, lists>>

\* For a mutant: temp_from is moved before temp_to takes its value.
Encapsulate_swapped(n) ==
    /\ up[n] /\ out[n].at = "sending" /\ out[n].route # <<>>
    /\ LET o    == out[n]
           from == Last(o.route)
       IN out' = [out EXCEPT ![n] =
                    [o EXCEPT !.route = Front(o.route),
                              !.temp_from = from,
                              !.file = Wrap(@, Keys[n], from, from)]]
    /\ UNCHANGED <<up, list, inq, lst, half, torn, files, chat, sent, thin, stops, lists>>

\* A round of the loop, from the end of the route to its beginning: the
\* recipient's layer comes twice, the innermost from itself to itself.
Encapsulate(n) ==
    /\ up[n] /\ out[n].at = "sending" /\ out[n].route # <<>>
    /\ LET o    == out[n]
           from == Last(o.route)
       IN out' = [out EXCEPT ![n] =
                    [o EXCEPT !.route = Front(o.route),
                              !.temp_from = from,
                              !.file = Wrap(@, Keys[n], from, o.temp_from)]]
    /\ UNCHANGED <<up, list, inq, lst, half, torn, files, chat, sent, thin, stops, lists>>

\* For a mutant: a loop that tries again does not see that it succeeded.
Transmit_again(n) ==
    /\ up[n] /\ out[n].at = "sending" /\ out[n].route = <<>>
    /\ LET a == Lookup(list[n], out[n].next)
       IN IF Reachable(a) /\ Len(inq[a]) < 2
          THEN inq' = [inq EXCEPT ![a] = Append(@, out[n].file)]
          ELSE UNCHANGED inq
    /\ UNCHANGED <<up, list, out, lst, half, torn, files, chat, sent, thin, stops, lists>>

\* Behind the loop: the first hop is looked up in the list as it is now, and
\* gets the type and the size.
Transmit(n) ==
    /\ up[n] /\ out[n].at = "sending" /\ out[n].route = <<>>
    /\ list' = [list EXCEPT ![n] = WithPhantom(@, out[n].next)]
    /\ LET a == Lookup(list[n], out[n].next)
       IN IF Reachable(a)
          THEN /\ inq' = [inq EXCEPT ![a] = Append(@, out[n].file)]
               /\ out' = [out EXCEPT ![n] =
                            IF @.file = NoFile THEN Spins(a) ELSE Writing(a)]
               /\ half' = IF out[n].file = NoFile THEN half
                          ELSE half \cup {Frame(n, "ui", a, out[n].file)}
          ELSE /\ out' = [out EXCEPT ![n] = Idle]
               /\ UNCHANGED <<inq, half>>
    /\ UNCHANGED <<up, lst, torn, files, chat, sent, thin, stops, lists>>

\* The payload is written, and the TCP_Client closed.
FinishUI(n) ==
    /\ up[n] /\ out[n].at = "writing"
    /\ out' = [out EXCEPT ![n] = Closing]
    /\ half' = half \ HalfOf(n, {"ui"})
    /\ UNCHANGED <<up, list, inq, lst, torn, files, chat, sent, thin, stops, lists>>

-----------------------------------------------------------------------------
(* The listener.                                                           *)

Serves(n) == up[n] /\ lst[n] = "serves" /\ inq[Home[n]] # <<>>

Served(n) == [inq EXCEPT ![Home[n]] = Tail(@)]

\* The server's list replaces the messenger's.
NewList(n) ==
    /\ up[n] /\ lst[n] = "serves"
    /\ lists < MaxLists
    /\ list' \in {[list EXCEPT ![n] = v] : v \in Views}
    /\ lists' = lists + 1
    /\ UNCHANGED <<up, out, inq, lst, half, torn, files, chat, sent, thin, stops>>

\* recv never returns: the file is announced and never comes.
ReceiveNothing(n) ==
    /\ Serves(n)
    /\ Head(inq[Home[n]]) = NoFile
    /\ lst' = [lst EXCEPT ![n] = "wedged"]
    /\ inq' = Served(n)
    /\ UNCHANGED <<up, list, out, half, torn, files, chat, sent, thin, stops, lists>>

\* The file is for me, is encrypted, and I can decrypt it.
Opens(n, p) == /\ p.layers # <<>>
               /\ Head(p.layers).to = n
               /\ Head(p.layers).key = n

Peel(p) == [p EXCEPT !.layers = Tail(@)]

HeaderOf(l) == [from |-> l.from, to |-> l.to]

\* What deserialize finds in the decrypted file.
Inner(p) == IF Peel(p).layers = <<>> THEN p.text
            ELSE HeaderOf(Head(Peel(p).layers))

\* recv has read to the end of the payload.
Arrived(n) ==
    /\ Serves(n)
    /\ Head(inq[Home[n]]) # NoFile
    /\ \A h \in half : ~(h.to = Home[n] /\ h.file = Head(inq[Home[n]]))

Received(n) == Arrived(n) /\ UNCHANGED <<up, out, torn, sent, thin, stops, lists>>

Keep(n, p) ==
    files' = [files EXCEPT ![n] = @ \cup
                 {[outer |-> HeaderOf(Head(p.layers)), inner |-> Inner(p),
                   of |-> p.text]}]

\* Not for me, not an encrypted file, or not for my key: the next, please.
Discard(n) ==
    /\ Received(n)
    /\ ~Opens(n, Head(inq[Home[n]]))
    /\ inq' = Served(n)
    /\ UNCHANGED <<list, lst, half, files, chat>>

\* For a mutant: the file that came goes on instead of the one within.
Forward_same(n) ==
    /\ Received(n)
    /\ LET p == Head(inq[Home[n]])
           a == Lookup(list[n], Inner(p).to)
       IN /\ Opens(n, p) /\ Inner(p).from = n
          /\ Keep(n, p)
          /\ list' = [list EXCEPT ![n] = WithPhantom(@, Inner(p).to)]
          /\ inq' = IF Reachable(a) THEN [Served(n) EXCEPT ![a] = Append(@, p)]
                    ELSE Served(n)
          /\ half' = IF Reachable(a) THEN half \cup {Frame(n, "listener", a, p)}
                     ELSE half
          /\ lst' = [lst EXCEPT ![n] = IF Reachable(a) THEN "writing" ELSE @]
    /\ UNCHANGED chat

\* The file within is from me: it goes to its recipient, if that one listens.
Forward(n) ==
    /\ Received(n)
    /\ LET p == Head(inq[Home[n]])
           a == Lookup(list[n], Inner(p).to)
       IN /\ Opens(n, p) /\ Inner(p).from = n
          /\ Keep(n, p)
          /\ list' = [list EXCEPT ![n] = WithPhantom(@, Inner(p).to)]
          /\ inq' = IF Reachable(a)
                    THEN [Served(n) EXCEPT ![a] = Append(@, Peel(p))]
                    ELSE Served(n)
          /\ half' = IF Reachable(a)
                     THEN half \cup {Frame(n, "listener", a, Peel(p))} ELSE half
          /\ lst' = [lst EXCEPT ![n] = IF Reachable(a) THEN "writing" ELSE @]
    /\ UNCHANGED chat

\* Its payload is written, and the TCP_Client closed.
FinishListener(n) ==
    /\ up[n] /\ lst[n] = "writing"
    /\ lst' = [lst EXCEPT ![n] = "closing"]
    /\ half' = half \ HalfOf(n, {"listener"})
    /\ UNCHANGED <<up, list, out, inq, torn, files, chat, sent, thin, stops, lists>>

\* The file within is from another: if it is a text for me it is shown.
Show(n) ==
    /\ Received(n)
    /\ LET p == Head(inq[Home[n]])
       IN /\ Opens(n, p) /\ Inner(p).from # n
          /\ Keep(n, p)
          /\ chat' = IF Inner(p).to = n /\ Peel(p).layers = <<>>
                     THEN [chat EXCEPT ![n] = Append(@, p.text)] ELSE chat
    /\ inq' = Served(n)
    /\ UNCHANGED <<list, lst, half>>

-----------------------------------------------------------------------------
(* The second close of a TCP_Client.                                       *)

\* The UI thread's: it hits nothing, or what the listener has opened since.  A
\* connection it has accepted reads nothing more, even if that would be for
\* ever; a file that it reads never ends (message_wrapper.cc, while(!is.eof()));
\* a frame it is sending is cut, and goes on for ever if its file is closed.
DestroyUI(n) ==
    /\ up[n] /\ out[n] = Closing
    /\ out' = [out EXCEPT ![n] = Idle]
    /\ \/ UNCHANGED <<inq, lst, half, torn>>
       \/ /\ Serves(n)
          /\ inq' = Served(n)
          /\ UNCHANGED <<lst, half, torn>>
       \/ /\ lst[n] = "wedged"
          /\ lst' = [lst EXCEPT ![n] = "serves"]
          /\ UNCHANGED <<inq, half, torn>>
       \/ /\ Arrived(n)
          /\ inq' = Served(n)
          /\ lst' = [lst EXCEPT ![n] = "wedged"]
          /\ torn' = torn \cup {n}
          /\ UNCHANGED half
       \/ /\ lst[n] = "writing"
          /\ \E l \in {"closing", "wedged"} : lst' = [lst EXCEPT ![n] = l]
          /\ Tear(n, "listener")
    /\ UNCHANGED <<up, list, files, chat, sent, thin, stops, lists>>

\* The listener's: it hits nothing, or what the UI thread has opened since.  Its
\* message is lost, or cut if its size was written, and the UI thread reads a
\* closed file for ever; a socket that is closed ends a send_file.
DestroyListener(n) ==
    /\ up[n] /\ lst[n] = "closing"
    /\ lst' = [lst EXCEPT ![n] = "serves"]
    /\ \/ UNCHANGED <<out, inq, half, torn>>
       \/ /\ out[n].at = "sending" \/ \E a \in Addr : out[n] = Spins(a)
          /\ out' = [out EXCEPT ![n] = Closing]
          /\ UNCHANGED <<inq, half, torn>>
       \/ /\ out[n].at = "sending"
          /\ out' = [out EXCEPT ![n] = Spins(NoAddr)]
          /\ torn' = torn \cup {n}
          /\ UNCHANGED <<inq, half>>
       \/ /\ out[n].at = "writing"
          /\ \E o \in {Closing, Spins(out[n].addr)} : out' = [out EXCEPT ![n] = o]
          /\ Tear(n, "ui")
    /\ UNCHANGED <<up, list, files, chat, sent, thin, stops, lists>>

UIThread(n) == Encapsulate(n) \/ Transmit(n) \/ FinishUI(n) \/ DestroyUI(n)

Listener(n) == \/ ReceiveNothing(n) \/ Discard(n) \/ Forward(n) \/ Show(n)
               \/ FinishListener(n) \/ DestroyListener(n)

-----------------------------------------------------------------------------
(* The process.                                                            *)

\* It is killed (main.cc:51) or a write to a connection that is gone ends it
\* (SIGPIPE).  The frames it was sending are cut, what it was sent is lost; a
\* sender that spins on it may see that, or not if the listener had read all
\* there was.
Stop(n) ==
    /\ up[n]
    /\ stops < MaxStops
    /\ stops' = stops + 1
    /\ up' = [up EXCEPT ![n] = FALSE]
    /\ \E freed \in SUBSET {k \in Name : out[k] = Spins(Home[n])} :
          out' = [k \in Name |-> IF k = n THEN Idle
                                ELSE IF k \in freed THEN Closing ELSE out[k]]
    /\ LET H == HalfOf(n, {"ui", "listener"})
       IN /\ inq' = [Cut(H) EXCEPT ![Home[n]] = <<>>]
          /\ half' = half \ H
          /\ torn' = torn \cup {h.by : h \in H}
    /\ list' = [list EXCEPT ![n] = <<>>]
    /\ lst' = [lst EXCEPT ![n] = "serves"]
    /\ chat' = [chat EXCEPT ![n] = <<>>]
    /\ UNCHANGED <<files, sent, thin, lists>>

\* The new process has no list yet.
Restart(n) ==
    /\ ~up[n]
    /\ up' = [up EXCEPT ![n] = TRUE]
    /\ UNCHANGED <<list, out, inq, lst, half, torn, files, chat, sent, thin, stops, lists>>

Next == \E n \in Name : \/ Compose(n) \/ UIThread(n)
                        \/ NewList(n) \/ Listener(n)
                        \/ Stop(n) \/ Restart(n)

Spec == Init /\ [][Next]_vars

\* The threads take their steps; nothing obliges a user to send or to leave.
Fairness == \A n \in Name : /\ WF_vars(UIThread(n))
                            /\ WF_vars(Listener(n))

FairSpec == Spec /\ Fairness

-----------------------------------------------------------------------------
(* Safety.                                                                 *)

\* The packets on their way: being made, or in a queue.
Waiting == (UNION {ToSet(inq[a]) : a \in Addr}) \ {NoFile}
Making  == {n \in Name : out[n].at = "sending" /\ out[n].file # NoFile}

\* The text of a message comes out of its layers, in a file or on a screen,
\* only at the recipient its sender meant, and never altered, whatever keys,
\* lists and routes were used (listen.cc:105-134, messanger.cc:90-121).
OnlyTheRecipient ==
    \A n \in Name :
        /\ \A f \in files[n] : f.inner \in Text => f.inner \in sent /\ f.inner.to = n
        /\ \A m \in ToSet(chat[n]) : m \in sent /\ m.to = n

\* When the list had two others or more, no relay can tell who writes to whom:
\* of the headers it gets to see of a message, the outer one does not name the
\* sender if the inner one names the recipient (util.cc:199-203).
Unlinkable ==
    \A n \in Name : \A f \in files[n] :
        n \notin {f.of.from, f.of.to} /\ MaxRelays >= 2 /\ f.of \notin thin
        => ~(f.outer.from = f.of.from /\ f.inner.to = f.of.to)

\* A message is never in two places, and is shown at most once, although the
\* recipient forwards it to itself (messanger.cc:107-121, listen.cc:113-134).
AtMostOnce ==
    \A m \in Script :
        LET Is(p) == p # NoFile /\ p.text = m
        IN Cardinality({n \in Making : Is(out[n].file)})
           + Cardinality({x \in Addr \X (1 .. Cardinality(Script) + 1) :
                             x[2] \in DOMAIN inq[x[1]] /\ Is(inq[x[1]][x[2]])})
           + Cardinality({i \in DOMAIN chat[m.to] : chat[m.to][i] = m}) <= 1

\* The layers of a finished packet whose sender has every key lead from hop to
\* hop to the recipient, who comes twice: each is sealed for the hop it is
\* for, and from the one before (messanger.cc:97-121).
Chained ==
    \A p \in Waiting \cup {out[n].file : n \in {k \in Making : out[k].route = <<>>}} :
        Keys[p.text.from] = Name =>
        LET l == p.layers
        IN /\ l # <<>>
           /\ \A i \in DOMAIN l : l[i].key = l[i].to
           /\ \A i \in 1 .. Len(l) - 1 : l[i + 1].from = l[i].to
           /\ Last(l) = [from |-> p.text.to, to |-> p.text.to, key |-> p.text.to]

\* A messenger's UI hangs in send_message only if it had not the recipient's
\* own key, or its other thread closed a file or a socket in use; a listener
\* only if somebody's UI had not, or somebody's frame was cut or file closed.
\* The key of a relay that is missing costs no more than the message, whoever
\* passes on what was made without it (messanger.cc:113, tcp_client.cc:96-131
\* and 162-177).
HangsForAReason ==
    \A n \in Name :
        /\ out[n].at = "spins" =>
              n \in torn \/ \E m \in sent : m.from = n /\ m.to \notin Keys[n]
        /\ lst[n] = "wedged" =>
              torn # {} \/ \E m \in sent : m.to \notin Keys[m.from]

-----------------------------------------------------------------------------
(* Liveness.                                                               *)

\* No message goes round for ever: in the end every queue is empty, but for
\* those behind a listener that hangs (listen.cc:113-124: a listener that
\* finds itself in the header sends the file to itself).
Drains == <>[](\A n \in Name : inq[Home[n]] = <<>> \/ lst[n] = "wedged")

\* What a message needs: everyone up and listening, no messenger destroying a
\* TCP_Client of one thread while the other is at work, the sender's keyring
\* complete, and whoever is on some list, but for the sender, on every list
\* at the right address, the recipient on its own list too.
Calm(m) ==
    /\ Keys[m.from] = Name
    /\ \A n \in Name : /\ up[n] /\ lst[n] # "wedged"
                       /\ ~(out[n] = Closing
                              /\ (inq[Home[n]] # <<>> \/ lst[n] = "writing"))
                       /\ ~(lst[n] = "closing" /\ out[n].at \in {"sending", "writing"})
    /\ \A n, k \in Name : \A x \in DOMAIN list[k] \ {m.from} :
          Lookup(list[n], x) = Home[x]

\* Then it arrives (messanger.cc:75-131, listen.cc:82-135).
Delivered ==
    \A m \in Script :
        []Calm(m) => (m \in sent ~> m \in ToSet(chat[m.to]))
=============================================================================
