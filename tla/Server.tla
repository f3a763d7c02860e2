------------------------------- MODULE Server -------------------------------
(***************************************************************************)
(* The server program: three processes (src/server/main.cc) that share     *)
(* nothing but the REST interface of one of them.                          *)
(*   REST       keeps the directory and serves one request at a time, so   *)
(*              a request is one step (rest_server.cc, node_manage.cc);    *)
(*   Broadcast  turns an advertisement into a POST and answers it with the *)
(*              list, over a new connection (broadcast_server.cc);         *)
(*   Health     sweeps a copy of the list and deletes the users that do    *)
(*              not answer (health_server.cc).  Health is a set: a server  *)
(*              started twice has several of them on one directory.        *)
(***************************************************************************)
EXTENDS Client

CONSTANTS
    ValidName,  \* the ids rest_server.cc:83 accepts
    Trim        \* Trim[g]: g without trailing white space

ASSUME ServerAssumption == Trim \in [Name -> Name] /\ ValidName \subseteq Name

VARIABLES
    rest,       \* the REST server accepts connections
    node_list,  \* NodeManage::node_list
    bpc,        \* where the broadcast listener is
    badvert,    \* github_id and ip_addr of the advertisement it serves
    bcontent,   \* the list it has read and is about to send
    hpc,        \* hpc[h]: where the health server is
    hnodes,     \* hnodes[h]: the copy of the list it sweeps
    hidx        \* hidx[h]: the node it checks

restVars   == <<rest, node_list>>
bVars      == <<bpc, badvert, bcontent>>
hVars      == <<hpc, hnodes, hidx>>
serverVars == <<restVars, bVars, hVars>>
vars       == <<clientVars, serverVars>>

NoAdvert == [github_id |-> NoName, ip_addr |-> NoAddr]

TypeOK ==
    /\ ClientTypeOK
    /\ rest \in BOOLEAN
    /\ node_list \in Seq(Entry)
    /\ bpc \in {"recv", "post", "get", "connect", "send", "dead"}
    /\ badvert \in Entry \cup {NoAdvert}
    /\ (bpc \in {"post", "get", "connect", "send"}) => badvert \in Entry
    /\ bcontent \subseteq Entry
    /\ hpc \in [Health -> {"get", "connect", "send", "recv", "expel",
                           "dead", "stuck"}]
    /\ hnodes \in [Health -> Seq(Entry)]
    /\ hidx \in [Health -> Nat]
    /\ \A h \in Health : hpc[h] \in {"connect", "send", "recv", "expel"}
                            => hidx[h] \in 1 .. Len(hnodes[h])

Init ==
    /\ ClientInit
    /\ rest = FALSE
    /\ node_list = <<>>
    /\ bpc = "recv"
    /\ badvert = NoAdvert
    /\ bcontent = {}
    /\ hpc = [h \in Health |-> "get"]
    /\ hnodes = [h \in Health |-> <<>>]
    /\ hidx = [h \in Health |-> 0]

-----------------------------------------------------------------------------
(* The REST server.  Before it listens, every request fails.               *)

RestListen ==
    /\ ~rest
    /\ rest' = TRUE
    /\ UNCHANGED <<node_list, bVars, hVars, clientVars>>

GetNodes == IF rest THEN node_list ELSE <<>>

AddNode(e) ==
    node_list' = IF rest /\ e.github_id \in ValidName
                 THEN add_user(node_list, e.github_id, e.ip_addr)
                 ELSE node_list

DeleteNode(g) ==
    node_list' = IF rest /\ g \in ValidName
                 THEN delete_user(node_list, g) ELSE node_list

-----------------------------------------------------------------------------
(* The broadcast listener.                                                 *)

BRecv(m) ==
    /\ bpc = "recv"
    /\ m \in adverts
    /\ adverts' = adverts \ {m}
    /\ badvert' = Node(Trim[m.github_id], m.ip_addr)
    /\ bpc' = "post"
    /\ UNCHANGED <<bcontent, restVars, hVars,
                   user, phase, inbox, nodes, link, starts>>

\* The result of add_node is ignored.
BPost ==
    /\ bpc = "post"
    /\ AddNode(badvert)
    /\ bpc' = "get"
    /\ UNCHANGED <<badvert, bcontent, rest, hVars, clientVars>>

\* An empty answer, from a failed request or an empty list, is not sent.
BGet ==
    /\ bpc = "get"
    /\ bcontent' = Entries(GetNodes)
    /\ IF GetNodes = <<>>
       THEN bpc' = "recv" /\ badvert' = NoAdvert
       ELSE bpc' = "connect" /\ UNCHANGED badvert
    /\ UNCHANGED <<restVars, hVars, clientVars>>

\* The result of connect is ignored too.
BConnect ==
    /\ bpc = "connect"
    /\ \/ CanConnect(badvert.ip_addr) /\ Connect(Broadcast, badvert.ip_addr)
       \/ ~CanConnect(badvert.ip_addr) /\ UNCHANGED link
    /\ bpc' = "send"
    /\ UNCHANGED <<badvert, bcontent, restVars, hVars,
                   user, phase, inbox, nodes, adverts, starts>>

BDone ==
    /\ link' = [link EXCEPT ![Broadcast] = NoLink]
    /\ badvert' = NoAdvert
    /\ bcontent' = {}
    /\ UNCHANGED <<restVars, hVars, user, phase, nodes, adverts, starts>>

BSend ==
    /\ bpc = "send"
    /\ link[Broadcast].state = "open"
    /\ Deliver(badvert.ip_addr, ListFrame(bcontent))
    /\ bpc' = "recv"
    /\ BDone

\* Writing to a socket that never connected raises SIGPIPE and ends the
\* process; to one whose peer has died meanwhile it may.
BSendFails ==
    /\ bpc = "send"
    /\ \/ link[Broadcast].state \in {"none", "broken"} /\ bpc' = "dead"
       \/ link[Broadcast].state = "broken" /\ bpc' = "recv"
    /\ BDone
    /\ UNCHANGED inbox

BroadcastNext == \/ \E m \in adverts : BRecv(m)
                 \/ BPost \/ BGet \/ BConnect \/ BSend \/ BSendFails

-----------------------------------------------------------------------------
(* The health server.                                                      *)

Checked(h) == hnodes[h][hidx[h]]

\* After a three minute sleep.
HGet(h) ==
    /\ hpc[h] = "get"
    /\ GetNodes # <<>>
    /\ hnodes' = [hnodes EXCEPT ![h] = GetNodes]
    /\ hidx' = [hidx EXCEPT ![h] = 1]
    /\ hpc' = [hpc EXCEPT ![h] = "connect"]
    /\ UNCHANGED <<restVars, bVars, clientVars>>

\* connect gives up after three seconds.
HConnect(h) ==
    /\ hpc[h] = "connect"
    /\ \/ /\ CanConnect(Checked(h).ip_addr)
          /\ Connect(h, Checked(h).ip_addr)
          /\ hpc' = [hpc EXCEPT ![h] = "send"]
       \/ /\ ~CanConnect(Checked(h).ip_addr)
          /\ hpc' = [hpc EXCEPT ![h] = "expel"]
          /\ UNCHANGED link
    /\ UNCHANGED <<hnodes, hidx, restVars, bVars,
                   user, phase, inbox, nodes, adverts, starts>>

HSend(h) ==
    /\ hpc[h] = "send"
    /\ link[h].state = "open"
    /\ Deliver(Checked(h).ip_addr, Ping(h))
    /\ link' = [link EXCEPT ![h].state = "sent"]
    /\ hpc' = [hpc EXCEPT ![h] = "recv"]
    /\ UNCHANGED <<hnodes, hidx, restVars, bVars,
                   user, phase, nodes, adverts, starts>>

\* The peer died after connect: SIGPIPE, or an error that recv reports again.
HSendFails(h) ==
    /\ hpc[h] = "send"
    /\ link[h].state = "broken"
    /\ \/ /\ hpc' = [hpc EXCEPT ![h] = "dead"]
          /\ link' = [link EXCEPT ![h] = NoLink]
       \/ /\ hpc' = [hpc EXCEPT ![h] = "recv"]
          /\ UNCHANGED link
    /\ UNCHANGED <<hnodes, hidx, restVars, bVars,
                   user, phase, inbox, nodes, adverts, starts>>

\* For a mutant: i <= nodes_size().
NextNode_overruns(h) ==
    /\ link' = [link EXCEPT ![h] = NoLink]
    /\ ClosePing(h)
    /\ IF hidx[h] <= Len(hnodes[h])
       THEN /\ hidx' = [hidx EXCEPT ![h] = @ + 1]
            /\ hpc' = [hpc EXCEPT ![h] = "connect"]
            /\ UNCHANGED hnodes
       ELSE /\ hidx' = [hidx EXCEPT ![h] = 0]
            /\ hpc' = [hpc EXCEPT ![h] = "get"]
            /\ hnodes' = [hnodes EXCEPT ![h] = <<>>]
    /\ UNCHANGED <<rest, bVars, user, phase, nodes, adverts, starts>>

\* The socket is closed and the loop goes on with the next node of the copy.
NextNode(h) ==
    /\ link' = [link EXCEPT ![h] = NoLink]
    /\ ClosePing(h)
    /\ IF hidx[h] < Len(hnodes[h])
       THEN /\ hidx' = [hidx EXCEPT ![h] = @ + 1]
            /\ hpc' = [hpc EXCEPT ![h] = "connect"]
            /\ UNCHANGED hnodes
       ELSE /\ hidx' = [hidx EXCEPT ![h] = 0]
            /\ hpc' = [hpc EXCEPT ![h] = "get"]
            /\ hnodes' = [hnodes EXCEPT ![h] = <<>>]
    /\ UNCHANGED <<rest, bVars, user, phase, nodes, adverts, starts>>

\* The answer must carry the hash of the id that is registered.
HPongOK(h) ==
    /\ hpc[h] = "recv"
    /\ link[h].state = "pong"
    /\ link[h].pong = Checked(h).github_id
    /\ NextNode(h)
    /\ UNCHANGED node_list

HPongFails(h) ==
    /\ hpc[h] = "recv"
    /\ \/ link[h].state = "pong" /\ link[h].pong # Checked(h).github_id
       \/ link[h].state = "broken"
       \/ link[h].state = "sent"        \* three seconds without an answer
    /\ hpc' = [hpc EXCEPT ![h] = "expel"]
    /\ UNCHANGED <<hnodes, hidx, restVars, bVars, clientVars>>

\* An answer cut off by the end of the stream: TCP_Client::recv reads 0
\* bytes for ever.
HPongCut(h) ==
    /\ hpc[h] = "recv"
    /\ link[h].state = "partial"
    /\ hpc' = [hpc EXCEPT ![h] = "stuck"]
    /\ UNCHANGED <<hnodes, hidx, restVars, bVars, clientVars>>

HExpel(h) ==
    /\ hpc[h] = "expel"
    /\ DeleteNode(Checked(h).github_id)
    /\ NextNode(h)

HealthNext(h) == \/ HGet(h) \/ HConnect(h) \/ HSend(h) \/ HSendFails(h)
                 \/ HPongOK(h) \/ HPongFails(h) \/ HPongCut(h) \/ HExpel(h)

Next == \/ ClientNext /\ UNCHANGED serverVars
        \/ RestListen
        \/ BroadcastNext
        \/ \E h \in Health : HealthNext(h)

Spec == Init /\ [][Next]_vars

-----------------------------------------------------------------------------
(* Safety.                                                                 *)

\* No copy of the directory, wherever it has travelled to, gives an id two
\* addresses: the list itself, the copies being swept, the list about to be
\* sent, those in the queues and the messengers' own (listen.cc:54-57 inserts
\* into a map, which would silently drop the second address).
OneAddressPerId ==
    LET Copies == {bcontent} \cup {nodes[a] : a \in Addr}
                  \cup {f.nodes : f \in {g \in UNION {ToSet(inbox[a]) : a \in Addr} :
                                            g.kind = "list"}}
    IN /\ UniqueIds(node_list)
       /\ \A h \in Health : UniqueIds(hnodes[h])
       /\ \A S \in Copies : \A d, e \in S : d.github_id = e.github_id => d = e

Sweeps(h) == hpc[h] \in {"connect", "send", "recv", "expel"}

\* A single health server deletes by id, from a copy it took before the
\* checks, while the broadcast listener goes on registering users: the nodes
\* of the copy it has not settled yet are still registered, at the same
\* address, so that the user it deletes is the one whose check failed
\* (health_server.cc:20-22 and 84-87).
SweepSound ==
    \A h \in Health : Sweeps(h) =>
        \A j \in hidx[h] .. Len(hnodes[h]) : hnodes[h][j] \in Entries(node_list)

\* An answer settles the check it was sent for: the ping the listener would
\* answer is the one the health server waits for, on the address it checks,
\* and no listener holds two of them (health_server.cc:65-88).
AnswersThisCheck ==
    \A a \in Addr : \A i \in DOMAIN inbox[a] : inbox[a][i].kind = "ping" =>
        LET h == inbox[a][i].by
        IN /\ hpc[h] \in {"recv", "expel"}
           /\ link[h].state = "sent"
           /\ Checked(h).ip_addr = a
           /\ \A j \in DOMAIN inbox[a] : inbox[a][j] = inbox[a][i] => i = j

\* Whoever leaves the directory leaves it by a deletion of that id after a
\* failed check, however many health servers run (rest_server.cc:145-149).
LeavesByFailedCheck ==
    [][\A e \in Entries(node_list) \ Entries(node_list') :
          \E h \in Health : /\ hpc[h] = "expel"
                            /\ Checked(h).github_id = e.github_id]_vars

\* With one health server the directory is the abstract one: the user that
\* leaves is the suspect, at the address that was checked.
Suspected == {h \in Health : hpc[h] = "expel"}

Suspect == IF Suspected = {} THEN NoAdvert
           ELSE Checked(CHOOSE h \in Suspected : TRUE)

Dir == INSTANCE Directory WITH
          dir <- Entries(node_list), suspect <- Suspect, NoEntry <- NoAdvert

DirSpec == Dir!Spec

-----------------------------------------------------------------------------
(* Liveness.  The processes take their steps; nothing obliges a user to log *)
(* in or to leave.  The network may lose datagrams, or the listener be busy *)
(* when they come, but a datagram that is sent again and again is received *)
(* again and again.                                                        *)

OfClient(A) == A /\ UNCHANGED serverVars

FairLink(m) ==
    []<>(m \in adverts /\ bpc # "dead") => []<><<BRecv(m)>>_vars

Fairness ==
    /\ WF_vars(RestListen)
    /\ \A a \in Addr : /\ WF_vars(OfClient(Listen(a)))
                        /\ SF_vars(OfClient(Advertise(a)))
                        /\ WF_vars(OfClient(Listener(a)))
    /\ \A m \in Entry : FairLink(m)
    /\ WF_vars(BPost \/ BGet \/ BConnect \/ BSend \/ BSendFails)
    /\ \A h \in Health : WF_vars(HealthNext(h))

FairSpec == Spec /\ Fairness

HealthDown == \E h \in Health : hpc[h] \in {"dead", "stuck"}

Up(g, a) == user[a] = g /\ phase[a] = "listening"

\* A user who is gone from its address for good is gone from the directory
\* for good, unless a dying peer took the health server with it
\* (health_server.cc:84-87).
StaleLeaves ==
    \A e \in Entry :
        <>[]~Up(e.github_id, e.ip_addr) =>
            <>[](e \notin Entries(node_list)) \/ <>HealthDown

\* A user who stays, and is nowhere else, is listed at its address again and
\* again, whatever address the directory held before (node_manage.cc:18
\* never updates one: the health server must delete it first).
LiveIsListed ==
    \A g \in ValidName, a \in Addr :
        <>[](Up(g, a) /\ \A b \in Addr \ {a} : user[b] # g) =>
            []<>(Node(g, a) \in Entries(node_list)) \/ <>(HealthDown \/ bpc = "dead")

\* Once the directory no longer changes, a messenger that stays up ends with
\* exactly the directory, unless the broadcast listener has died or the
\* directory is empty: an empty list is never sent (broadcast_server.cc:23).
ListsConverge ==
    \A a \in Addr :
        <>[][node_list' = node_list]_vars /\ <>[](phase[a] = "listening") =>
            \/ <>[](nodes[a] = Entries(node_list))
            \/ <>(bpc = "dead") \/ <>[](node_list = <<>>)
=============================================================================
