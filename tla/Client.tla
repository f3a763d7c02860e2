------------------------------- MODULE Client -------------------------------
(***************************************************************************)
(* The machines the server deals with, and the wire to them.  On each      *)
(* address runs at most one messenger process: after login it starts two   *)
(* threads (src/client/main.cc:43-44), liste_loop, which binds TCP 9099    *)
(* and serves one connection at a time, and adver_loop, which broadcasts   *)
(* the user's id over UDP every five seconds.  The threads start in either *)
(* order: an advertisement may leave before the listener listens.          *)
(*                                                                         *)
(* A TCP connection joins inbox[a] when its frame is complete: liste_loop  *)
(* serves one connection at a time and does nothing with an earlier one    *)
(* but wait in recv.                                                       *)
(***************************************************************************)
EXTENDS NodeManage

CONSTANTS
    Name,       \* the user ids people log in with
    NoName,     \* nobody
    Addr,       \* IPv4 addresses
    NoAddr,     \* no peer
    Health,     \* the health server processes
    Broadcast,  \* the broadcast listener process
    Backlog,    \* length of the accept queue (10 in tcp_server.cc:53)
    UdpBuffer,  \* advertisements the server's socket buffer holds
    MaxStarts   \* bound: messengers started in one behaviour

ASSUME ClientAssumption ==
    /\ NoName \notin Name
    /\ NoAddr \notin Addr
    /\ Broadcast \notin Health
    /\ Backlog \in Nat \ {0}
    /\ UdpBuffer \in Nat \ {0}
    /\ MaxStarts \in Nat

VARIABLES
    user,     \* user[a]: who is logged in on a, NoName if no messenger runs
    phase,    \* phase[a]: the messenger's listener
    inbox,    \* inbox[a]: connections a's listener has not served yet
    nodes,    \* nodes[a]: the messenger's node_list, a map from id to address
    adverts,  \* UDP advertisements on their way to the server
    link,     \* link[p]: the TCP connection server process p has open
    starts    \* messengers started so far (for the bound only)

clientVars == <<user, phase, inbox, nodes, adverts, link, starts>>

Entry == [github_id : Name, ip_addr : Addr]
Proc  == Health \cup {Broadcast}

\* The frames the server sends: the user list, and a health check.  A check
\* whose connection the health server has closed in the meantime is late.
ListFrame(S) == [kind |-> "list", nodes |-> S]
Ping(h)      == [kind |-> "ping", by |-> h]
LatePing     == [kind |-> "late"]
Frame == [kind : {"list"}, nodes : SUBSET Entry]
         \cup [kind : {"ping"}, by : Health] \cup {LatePing}

\* open: connected; sent: the frame is written; broken: the peer died;
\* partial: the peer died within its answer; pong: answered, in the name pong.
Link == [state : {"none", "open", "sent", "broken", "partial", "pong"},
         peer  : Addr \cup {NoAddr},
         pong  : Name \cup {NoName}]
NoLink == [state |-> "none", peer |-> NoAddr, pong |-> NoName]

ClientTypeOK ==
    /\ user \in [Addr -> Name \cup {NoName}]
    /\ phase \in [Addr -> {"off", "started", "listening"}]
    /\ inbox \in [Addr -> Seq(Frame)]
    /\ nodes \in [Addr -> SUBSET Entry]
    /\ adverts \subseteq Entry
    /\ link \in [Proc -> Link]
    /\ starts \in 0 .. MaxStarts
    /\ \A a \in Addr : user[a] = NoName <=> phase[a] = "off"

ClientInit ==
    /\ user = [a \in Addr |-> NoName]
    /\ phase = [a \in Addr |-> "off"]
    /\ inbox = [a \in Addr |-> <<>>]
    /\ nodes = [a \in Addr |-> {}]
    /\ adverts = {}
    /\ link = [p \in Proc |-> NoLink]
    /\ starts = 0

-----------------------------------------------------------------------------
(* TCP as the server processes use it (src/common/tcp_client.cc).          *)

CanConnect(a) == phase[a] = "listening" /\ Len(inbox[a]) < Backlog

Connect(p, a) == link' = [link EXCEPT ![p] = [NoLink EXCEPT !.state = "open",
                                                             !.peer = a]]

Deliver(a, f) == inbox' = [inbox EXCEPT ![a] = Append(@, f)]

\* For a mutant: the connection of a settled check is not closed.
ClosePing_leaks(h) == UNCHANGED inbox

\* Closing a connection leaves its unanswered check in the peer's queue.
ClosePing(h) ==
    inbox' = [a \in Addr |-> ReplaceAll(inbox[a], Ping(h), LatePing)]

-----------------------------------------------------------------------------
(* The messenger process.                                                  *)

\* g logs in on a; main starts both threads.
Start(a, g) ==
    /\ phase[a] = "off"
    /\ starts < MaxStarts
    /\ user' = [user EXCEPT ![a] = g]
    /\ phase' = [phase EXCEPT ![a] = "started"]
    /\ starts' = starts + 1
    /\ UNCHANGED <<inbox, nodes, adverts, link>>

\* liste_loop: bind and listen.
Listen(a) ==
    /\ phase[a] = "started"
    /\ phase' = [phase EXCEPT ![a] = "listening"]
    /\ UNCHANGED <<user, inbox, nodes, adverts, link, starts>>

\* One round of adver_loop.
Advertise(a) ==
    /\ phase[a] # "off"
    /\ Cardinality(adverts) < UdpBuffer
    /\ adverts' = adverts \cup {Node(user[a], a)}
    /\ UNCHANGED <<user, phase, inbox, nodes, link, starts>>

\* UDP loses a datagram (or the buffer had no room for it).
Lose ==
    /\ \E m \in adverts : adverts' = adverts \ {m}
    /\ UNCHANGED <<user, phase, inbox, nodes, link, starts>>

\* The process on a ends (the user quits, a signal, a crash) while it was
\* answering the processes of cut: every connection to it is reset.
Ends(a, cut) ==
    /\ user' = [user EXCEPT ![a] = NoName]
    /\ phase' = [phase EXCEPT ![a] = "off"]
    /\ inbox' = [inbox EXCEPT ![a] = <<>>]
    /\ nodes' = [nodes EXCEPT ![a] = {}]
    /\ link' = [p \in Proc |->
                  IF link[p].peer = a /\ link[p].state \in {"open", "sent"}
                  THEN [link[p] EXCEPT
                          !.state = IF p \in cut THEN "partial" ELSE "broken"]
                  ELSE link[p]]
    /\ UNCHANGED <<adverts, starts>>

Stop(a) == phase[a] # "off" /\ Ends(a, {})

-----------------------------------------------------------------------------
(* liste_loop: the connection at the head of the queue.                    *)

Serves(a, kind) == inbox[a] # <<>> /\ Head(inbox[a]).kind = kind

Served(a) == inbox' = [inbox EXCEPT ![a] = Tail(@)]

\* For a mutant: inserts without clear.
ListenerList_merges(a) ==
    /\ Serves(a, "list")
    /\ nodes' = [nodes EXCEPT ![a] = @ \cup Head(inbox[a]).nodes]
    /\ Served(a)
    /\ UNCHANGED <<user, phase, adverts, link, starts>>

\* The list replaces the map (clear, then insert; the first of an id wins,
\* and the server never sends two of one id).
ListenerList(a) ==
    /\ Serves(a, "list")
    /\ nodes' = [nodes EXCEPT ![a] = Head(inbox[a]).nodes]
    /\ Served(a)
    /\ UNCHANGED <<user, phase, adverts, link, starts>>

\* The answer is a hash of the listener's id and the key of this check, so
\* it proves who answered and to which check: it is that id on that link.
ListenerPing(a) ==
    /\ Serves(a, "ping")
    /\ link' = [link EXCEPT ![Head(inbox[a]).by].state = "pong",
                            ![Head(inbox[a]).by].pong = user[a]]
    /\ Served(a)
    /\ UNCHANGED <<user, phase, nodes, adverts, starts>>

\* The process ends between the writes of its answer.
ListenerPingCut(a) == Serves(a, "ping") /\ Ends(a, {Head(inbox[a]).by})

\* Answering a connection the peer has closed: the first write is accepted,
\* a later one fails or, once the reset is in, raises SIGPIPE.
ListenerLate(a) ==
    /\ Serves(a, "late")
    /\ \/ Served(a) /\ UNCHANGED <<user, phase, nodes, adverts, link, starts>>
       \/ Ends(a, {})

Listener(a) == \/ ListenerList(a)
               \/ ListenerPing(a)
               \/ ListenerPingCut(a)
               \/ ListenerLate(a)

ClientNext == \/ \E a \in Addr : \/ \E g \in Name : Start(a, g)
                                 \/ Listen(a)
                                 \/ Advertise(a)
                                 \/ Stop(a)
                                 \/ Listener(a)
              \/ Lose
=============================================================================
