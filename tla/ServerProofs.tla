---------------------------- MODULE ServerProofs ----------------------------
(***************************************************************************)
(* What is proved about the server, for any number of users, addresses,    *)
(* health servers and queued connections.                                  *)
(***************************************************************************)
EXTENDS Server, NodeManageProofs

\* The frames the server writes, and the late form of a check, are frames.
LEMMA FrameTypes ==
    /\ \A S \in SUBSET Entry : ListFrame(S) \in Frame
    /\ \A h \in Health : Ping(h) \in Frame
    /\ LatePing \in Frame
  BY DEF Frame, ListFrame, Ping, LatePing

\* A frame is one of the three: its kind tells which.
LEMMA FrameKinds ==
    ASSUME NEW f \in Frame
    PROVE  /\ f.kind = "list" => f.nodes \in SUBSET Entry
           /\ f.kind = "ping" => f.by \in Health /\ f = Ping(f.by)
           /\ f.kind \in {"list", "ping", "late"}
  <1>1. CASE f \in [kind : {"list"}, nodes : SUBSET Entry]
    BY <1>1
  <1>2. CASE f \in [kind : {"ping"}, by : Health]
    BY <1>2 DEF Ping
  <1>3. CASE f = LatePing
    BY <1>3 DEF LatePing
  <1>4. QED
    BY <1>1, <1>2, <1>3 DEF Frame

\* A connection that changes its state, and its answer, is a connection.
LEMMA LinkTypes ==
    ASSUME NEW l \in Link, NEW st \in {"none", "open", "sent", "broken",
                                       "partial", "pong"}
    PROVE  /\ [l EXCEPT !.state = st] \in Link
           /\ \A g \in Name \cup {NoName} :
                 [l EXCEPT !.state = st, !.pong = g] \in Link
  BY DEF Link

\* No connection, and one that has just been opened, are connections.
LEMMA NewLink ==
    /\ NoLink \in Link
    /\ \A a \in Addr : [NoLink EXCEPT !.state = "open", !.peer = a] \in Link
  BY DEF Link, NoLink

\* So the table of connections keeps its type when one of them changes.
LEMMA SetLink ==
    ASSUME link \in [Proc -> Link], NEW p \in Proc, NEW l \in Link,
           link' = [link EXCEPT ![p] = l]
    PROVE  link' \in [Proc -> Link]
  OBVIOUS

\* A queue stays a sequence of frames when one is added, served or made late.
LEMMA QueueTypes ==
    ASSUME NEW s \in Seq(Frame)
    PROVE  /\ \A f \in Frame : Append(s, f) \in Seq(Frame)
           /\ s # <<>> => Tail(s) \in Seq(Frame) /\ Head(s) \in Frame
           /\ \A h \in Health : ReplaceAll(s, Ping(h), LatePing) \in Seq(Frame)
  <1>1. \A f \in Frame : Append(s, f) \in Seq(Frame)
    BY AppendProperties
  <1>2. s # <<>> => Tail(s) \in Seq(Frame) /\ Head(s) \in Frame
    BY HeadTailProperties
  <1>3. ASSUME NEW h \in Health
        PROVE  ReplaceAll(s, Ping(h), LatePing) \in Seq(Frame)
    <2>1. Len(s) \in Nat /\ \A i \in 1 .. Len(s) : s[i] \in Frame
      BY LenProperties, ElementOfSeq
    <2>2. ReplaceAll(s, Ping(h), LatePing) \in [1 .. Len(s) -> Frame]
      BY <2>1, FrameTypes DEF ReplaceAll
    <2>3. QED
      BY <2>1, <2>2, SeqDef
  <1>4. QED
    BY <1>1, <1>2, <1>3

-----------------------------------------------------------------------------
\* The steps of the messengers keep the type invariant.
LEMMA ClientTypes ==
    ASSUME TypeOK, ClientNext, UNCHANGED serverVars
    PROVE  TypeOK'
  <1> USE ClientAssumption, FrameTypes
      DEF TypeOK, ClientTypeOK, serverVars, restVars, bVars, hVars, Proc
  <1>1. ASSUME NEW a \in Addr, NEW g \in Name, Start(a, g)
        PROVE  TypeOK'
    BY <1>1 DEF Start
  <1>2. ASSUME NEW a \in Addr, Listen(a)
        PROVE  TypeOK'
    BY <1>2 DEF Listen
  <1>3. ASSUME NEW a \in Addr, Advertise(a)
        PROVE  TypeOK'
    <2>1. Node(user[a], a) \in Entry
      BY <1>3 DEF Advertise, Node, Entry
    <2>2. QED
      BY <1>3, <2>1 DEF Advertise
  <1>4. ASSUME Lose
        PROVE  TypeOK'
    BY <1>4 DEF Lose
  <1>5. ASSUME NEW a \in Addr, NEW cut, Ends(a, cut)
        PROVE  TypeOK'
    <2>1. link' \in [Proc -> Link]
      <3>1. ASSUME NEW p \in Proc
            PROVE  link'[p] \in Link
        <4>1. CASE link[p].peer = a /\ link[p].state \in {"open", "sent"}
          BY <1>5, <4>1, LinkTypes DEF Ends
        <4>2. CASE ~(link[p].peer = a /\ link[p].state \in {"open", "sent"})
          BY <1>5, <4>2 DEF Ends
        <4>3. QED
          BY <4>1, <4>2
      <3>2. QED
        BY <1>5, <3>1 DEF Ends
    <2>2. inbox' \in [Addr -> Seq(Frame)]
      BY <1>5, EmptySeq DEF Ends
    <2>3. QED
      BY <1>5, <2>1, <2>2 DEF Ends
  <1>6. ASSUME NEW a \in Addr, inbox[a] # <<>>, Served(a)
        PROVE  inbox' \in [Addr -> Seq(Frame)]
    BY <1>6, QueueTypes DEF Served
  <1>7. ASSUME NEW a \in Addr, ListenerList(a)
        PROVE  TypeOK'
    <2>1. Head(inbox[a]).nodes \in SUBSET Entry
      BY <1>7, QueueTypes, FrameKinds DEF ListenerList, Serves
    <2>2. QED
      BY <1>6, <1>7, <2>1 DEF ListenerList, Serves
  <1>8. ASSUME NEW a \in Addr, ListenerPing(a)
        PROVE  TypeOK'
    <2>1. Head(inbox[a]).by \in Health
      BY <1>8, QueueTypes, FrameKinds DEF ListenerPing, Serves
    <2>2. link' \in [Proc -> Link]
      <3> DEFINE h == Head(inbox[a]).by
      <3>1. /\ h \in Proc
            /\ link' = [link EXCEPT ![h] = [link[h] EXCEPT !.state = "pong",
                                                          !.pong = user[a]]]
        BY <1>8, <2>1 DEF ListenerPing
      <3>2. [link[h] EXCEPT !.state = "pong", !.pong = user[a]] \in Link
        BY <3>1, LinkTypes
      <3> HIDE DEF h
      <3>3. QED
        BY <3>1, <3>2
    <2>3. QED
      BY <1>6, <1>8, <2>2 DEF ListenerPing, Serves
  <1>9. ASSUME NEW a \in Addr, ListenerLate(a)
        PROVE  TypeOK'
    BY <1>5, <1>6, <1>9 DEF ListenerLate, Serves
  <1>10. QED
    BY <1>1, <1>2, <1>3, <1>4, <1>5, <1>7, <1>8, <1>9
       DEF ClientNext, Stop, Listener, ListenerPingCut

-----------------------------------------------------------------------------
\* The list always gives an id one place, and so does every copy a health
\* server has of it.
UniqueInv ==
    /\ UniqueIds(node_list)
    /\ \A h \in Health : UniqueIds(hnodes[h])

\* A request leaves a list without two nodes of one id, whatever the state of
\* the REST server.
LEMMA Requests ==
    ASSUME TypeOK, UniqueInv
    PROVE  /\ \A e \in Entry : AddNode(e) =>
                node_list' \in Seq(Entry) /\ UniqueIds(node_list')
           /\ \A g \in Name : DeleteNode(g) =>
                node_list' \in Seq(Entry) /\ UniqueIds(node_list')
           /\ GetNodes \in Seq(Entry) /\ UniqueIds(GetNodes)
           /\ Entries(GetNodes) \subseteq Entries(node_list)
  <1> USE DEF TypeOK, UniqueInv
  <1>1. ASSUME NEW e \in Entry, AddNode(e)
        PROVE  node_list' \in Seq(Entry) /\ UniqueIds(node_list')
    <2>1. Node(e.github_id, e.ip_addr) \in Entry
      BY DEF Node, Entry
    <2>2. QED
      BY <1>1, <2>1, AddUser DEF AddNode
  <1>2. ASSUME NEW g \in Name, DeleteNode(g)
        PROVE  node_list' \in Seq(Entry) /\ UniqueIds(node_list')
    BY <1>2, DeleteUser DEF DeleteNode
  <1>3. /\ GetNodes \in Seq(Entry) /\ UniqueIds(GetNodes)
        /\ Entries(GetNodes) \subseteq Entries(node_list)
    <2>1. <<>> \in Seq(Entry) /\ DOMAIN <<>> = {}
      BY EmptySeq
    <2>2. QED
      BY <2>1 DEF GetNodes, UniqueIds, Entries, ToSet
  <1>4. QED
    BY <1>1, <1>2, <1>3

\* The steps of the broadcast listener keep both.
LEMMA BroadcastTypes ==
    ASSUME TypeOK, UniqueInv, BroadcastNext
    PROVE  TypeOK' /\ UniqueInv'
  <1> USE ClientAssumption, ServerAssumption, FrameTypes
      DEF TypeOK, ClientTypeOK, clientVars, restVars, bVars, hVars, Proc
  <1>1. ASSUME NEW m \in adverts, BRecv(m)
        PROVE  TypeOK' /\ UniqueInv'
    <2>1. Node(Trim[m.github_id], m.ip_addr) \in Entry
      BY DEF Node, Entry
    <2>2. QED
      BY <1>1, <2>1 DEF BRecv, UniqueInv
  <1>2. ASSUME BPost
        PROVE  TypeOK' /\ UniqueInv'
    <2>1. node_list' \in Seq(Entry) /\ UniqueIds(node_list')
      BY <1>2, Requests DEF BPost
    <2>2. QED
      BY <1>2, <2>1 DEF BPost, UniqueInv
  <1>3. ASSUME BGet
        PROVE  TypeOK' /\ UniqueInv'
    <2>1. Entries(GetNodes) \subseteq Entry
      BY Requests, LenProperties, ElementOfSeq DEF Entries, ToSet
    <2>2. QED
      BY <1>3, <2>1 DEF BGet, UniqueInv
  <1>4. ASSUME BConnect
        PROVE  TypeOK' /\ UniqueInv'
    <2>1. badvert.ip_addr \in Addr
      BY <1>4 DEF BConnect, Entry
    <2>2. link' \in [Proc -> Link]
      <3>1. [NoLink EXCEPT !.state = "open", !.peer = badvert.ip_addr] \in Link
        BY <2>1, NewLink
      <3>2. QED
        BY <1>4, <3>1, SetLink DEF BConnect, Connect
    <2>3. QED
      BY <1>4, <2>2 DEF BConnect, UniqueInv
  <1>5. ASSUME BDone
        PROVE  link' \in [Proc -> Link]
    BY <1>5, NewLink, SetLink DEF BDone
  <1>6. ASSUME BSend
        PROVE  TypeOK' /\ UniqueInv'
    <2>1. badvert.ip_addr \in Addr /\ ListFrame(bcontent) \in Frame
      BY <1>6 DEF BSend, Entry
    <2>2. inbox' \in [Addr -> Seq(Frame)]
      BY <1>6, <2>1, QueueTypes DEF BSend, Deliver
    <2>3. QED
      BY <1>5, <1>6, <2>2 DEF BSend, BDone, UniqueInv
  <1>7. ASSUME BSendFails
        PROVE  TypeOK' /\ UniqueInv'
    BY <1>5, <1>7 DEF BSendFails, BDone, UniqueInv
  <1>8. QED
    BY <1>1, <1>2, <1>3, <1>4, <1>6, <1>7 DEF BroadcastNext

\* The node a health server checks is an entry of its copy.
LEMMA CheckedType ==
    ASSUME TypeOK, NEW h \in Health, Sweeps(h)
    PROVE  /\ hidx[h] \in 1 .. Len(hnodes[h])
           /\ Len(hnodes[h]) \in Nat
           /\ Checked(h) \in Entry
           /\ Checked(h).github_id \in Name /\ Checked(h).ip_addr \in Addr
  <1>1. hidx[h] \in 1 .. Len(hnodes[h]) /\ hnodes[h] \in Seq(Entry)
    BY DEF TypeOK, Sweeps
  <1>2. Checked(h) \in Entry /\ Len(hnodes[h]) \in Nat
    BY <1>1, ElementOfSeq, LenProperties DEF Checked
  <1>3. QED
    BY <1>1, <1>2 DEF Entry

\* The steps of a health server keep both.
LEMMA HealthTypes ==
    ASSUME TypeOK, UniqueInv, NEW h \in Health, HealthNext(h)
    PROVE  TypeOK' /\ UniqueInv'
  <1> USE ClientAssumption, FrameTypes
      DEF TypeOK, ClientTypeOK, clientVars, restVars, bVars, hVars, Proc
  <1>1. ASSUME HGet(h)
        PROVE  TypeOK' /\ UniqueInv'
    <2>1. GetNodes \in Seq(Entry) /\ UniqueIds(GetNodes)
      BY Requests
    <2>2. 1 \in 1 .. Len(GetNodes)
      BY <1>1, <2>1, EmptySeq DEF HGet
    <2>3. QED
      BY <1>1, <2>1, <2>2 DEF HGet, UniqueInv
  <1>2. ASSUME HConnect(h)
        PROVE  TypeOK' /\ UniqueInv'
    <2>1. Checked(h).ip_addr \in Addr /\ hidx[h] \in 1 .. Len(hnodes[h])
      BY <1>2, CheckedType DEF HConnect, Sweeps
    <2>2. link' \in [Proc -> Link]
      <3>1. [NoLink EXCEPT !.state = "open", !.peer = Checked(h).ip_addr] \in Link
        BY <2>1, NewLink
      <3>2. QED
        BY <1>2, <3>1, SetLink DEF HConnect, Connect
    <2>3. QED
      BY <1>2, <2>1, <2>2 DEF HConnect, UniqueInv
  <1>3. ASSUME HSend(h)
        PROVE  TypeOK' /\ UniqueInv'
    <2>1. Checked(h).ip_addr \in Addr /\ hidx[h] \in 1 .. Len(hnodes[h])
      BY <1>3, CheckedType DEF HSend, Sweeps
    <2>2. inbox' \in [Addr -> Seq(Frame)]
      BY <1>3, <2>1, QueueTypes DEF HSend, Deliver
    <2>3. link' \in [Proc -> Link]
      <3>1. [link[h] EXCEPT !.state = "sent"] \in Link
        BY LinkTypes
      <3>2. link' = [link EXCEPT ![h] = [link[h] EXCEPT !.state = "sent"]]
        BY <1>3 DEF HSend
      <3>3. QED
        BY <3>1, <3>2, SetLink
    <2>4. QED
      BY <1>3, <2>1, <2>2, <2>3 DEF HSend, UniqueInv
  <1>4. ASSUME HSendFails(h)
        PROVE  TypeOK' /\ UniqueInv'
    <2>1. link' \in [Proc -> Link]
      <3>1. NoLink \in Link
        BY NewLink
      <3>2. QED
        BY <1>4, <3>1, SetLink DEF HSendFails
    <2>2. QED
      BY <1>4, <2>1 DEF HSendFails, UniqueInv
  <1>5. ASSUME HPongFails(h)
        PROVE  TypeOK' /\ UniqueInv'
    BY <1>5 DEF HPongFails, UniqueInv
  <1>6. ASSUME HPongCut(h)
        PROVE  TypeOK' /\ UniqueInv'
    BY <1>6 DEF HPongCut, UniqueInv
  <1>7. ASSUME Sweeps(h), NextNode(h),
               node_list' \in Seq(Entry), UniqueIds(node_list')
        PROVE  TypeOK' /\ UniqueInv'
    <2>1. hidx[h] \in 1 .. Len(hnodes[h]) /\ Len(hnodes[h]) \in Nat
      BY <1>7, CheckedType
    <2>2. link' \in [Proc -> Link]
      BY <1>7, NewLink, SetLink DEF NextNode
    <2>3. inbox' \in [Addr -> Seq(Frame)]
      BY <1>7, QueueTypes DEF NextNode, ClosePing
    <2>4. UniqueIds(<<>>) /\ <<>> \in Seq(Entry)
      BY EmptySeq DEF UniqueIds
    <2>5. /\ hpc' \in [Health -> {"get", "connect", "send", "recv", "expel",
                                  "dead", "stuck"}]
          /\ hnodes' \in [Health -> Seq(Entry)]
          /\ hidx' \in [Health -> Nat]
          /\ \A k \in Health : UniqueIds(hnodes'[k])
      <3>1. CASE hidx[h] < Len(hnodes[h])
        <4>1. /\ hidx' = [hidx EXCEPT ![h] = hidx[h] + 1]
              /\ hpc' = [hpc EXCEPT ![h] = "connect"]
              /\ hnodes' = hnodes
          BY <1>7, <3>1 DEF NextNode
        <4>2. hidx[h] + 1 \in Nat
          BY <2>1
        <4>3. QED
          BY <4>1, <4>2 DEF UniqueInv
      <3>2. CASE ~(hidx[h] < Len(hnodes[h]))
        <4>1. /\ hidx' = [hidx EXCEPT ![h] = 0]
              /\ hpc' = [hpc EXCEPT ![h] = "get"]
              /\ hnodes' = [hnodes EXCEPT ![h] = <<>>]
          BY <1>7, <3>2 DEF NextNode
        <4>2. \A k \in Health : hnodes'[k] = IF k = h THEN <<>> ELSE hnodes[k]
          BY <4>1
        <4>3. QED
          BY <2>4, <4>1, <4>2 DEF UniqueInv
      <3>3. QED
        BY <3>1, <3>2
    <2>6. ASSUME NEW k \in Health,
                 hpc'[k] \in {"connect", "send", "recv", "expel"}
          PROVE  hidx'[k] \in 1 .. Len(hnodes'[k])
      <3>1. CASE k # h
        BY <1>7, <2>6, <3>1 DEF NextNode
      <3>2. CASE k = h /\ hidx[h] < Len(hnodes[h])
        BY <1>7, <2>1, <3>2 DEF NextNode
      <3>3. CASE k = h /\ ~(hidx[h] < Len(hnodes[h]))
        BY <1>7, <2>6, <3>3 DEF NextNode
      <3>4. QED
        BY <3>1, <3>2, <3>3
    <2>7. QED
      BY <1>7, <2>2, <2>3, <2>5, <2>6 DEF NextNode, UniqueInv
  <1>8. ASSUME HPongOK(h)
        PROVE  TypeOK' /\ UniqueInv'
    BY <1>7, <1>8 DEF HPongOK, Sweeps, UniqueInv
  <1>9. ASSUME HExpel(h)
        PROVE  TypeOK' /\ UniqueInv'
    <2>1. Checked(h).github_id \in Name
      BY <1>9, CheckedType DEF HExpel, Sweeps
    <2>2. node_list' \in Seq(Entry) /\ UniqueIds(node_list')
      BY <1>9, <2>1, Requests DEF HExpel
    <2>3. QED
      BY <1>7, <1>9, <2>2 DEF HExpel, Sweeps
  <1>10. QED
    BY <1>1, <1>2, <1>3, <1>4, <1>5, <1>6, <1>8, <1>9 DEF HealthNext

\* Every step keeps the types and the uniqueness of ids.
LEMMA StepTypes ==
    ASSUME TypeOK, UniqueInv, [Next]_vars
    PROVE  TypeOK' /\ UniqueInv'
  <1>1. CASE ClientNext /\ UNCHANGED serverVars
    BY <1>1, ClientTypes DEF UniqueInv, serverVars, restVars, hVars
  <1>2. CASE RestListen
    BY <1>2 DEF RestListen, TypeOK, ClientTypeOK, UniqueInv, bVars, hVars,
                clientVars, Proc
  <1>3. CASE BroadcastNext
    BY <1>3, BroadcastTypes
  <1>4. CASE \E h \in Health : HealthNext(h)
    BY <1>4, HealthTypes
  <1>5. CASE UNCHANGED vars
    BY <1>5 DEF TypeOK, ClientTypeOK, UniqueInv, vars, clientVars, serverVars,
                restVars, bVars, hVars, Proc
  <1>6. QED
    BY <1>1, <1>2, <1>3, <1>4, <1>5 DEF Next

\* The initial state satisfies both.
LEMMA InitTypes == Init => TypeOK /\ UniqueInv
  <1> SUFFICES ASSUME Init
               PROVE  TypeOK /\ UniqueInv
    OBVIOUS
  <1>1. /\ <<>> \in Seq(Entry) /\ <<>> \in Seq(Frame)
        /\ UniqueIds(<<>>)
    BY EmptySeq DEF UniqueIds
  <1>2. NoLink \in Link
    BY NewLink
  <1>3. ClientTypeOK
    BY <1>1, <1>2, ClientAssumption DEF Init, ClientInit, ClientTypeOK
  <1>4. QED
    BY <1>1, <1>3 DEF Init, TypeOK, UniqueInv

\* The types of the whole system are an invariant, and no id is ever listed
\* twice (node_manage.cc:18).
THEOREM TypeCorrect == Spec => [](TypeOK /\ UniqueInv)
  <1>1. TypeOK /\ UniqueInv /\ [Next]_vars => (TypeOK /\ UniqueInv)'
    BY StepTypes
  <1>2. QED
    BY <1>1, InitTypes, PTL DEF Spec

-----------------------------------------------------------------------------
(* One health server.                                                      *)

OneHealth == \A h, k \in Health : h = k

\* A deletion takes the nodes of that id, or nothing.
LEMMA DeleteEffect ==
    ASSUME TypeOK, UniqueInv, NEW g, DeleteNode(g)
    PROVE  /\ {e \in Entries(node_list) : e.github_id # g}
                 \subseteq Entries(node_list')
           /\ Entries(node_list') \subseteq Entries(node_list)
           /\ rest /\ g \in ValidName =>
                Entries(node_list') = {e \in Entries(node_list) : e.github_id # g}
  BY DeleteUser DEF DeleteNode, TypeOK, UniqueInv

\* A registration takes nothing, and adds at most the entry it is about.
LEMMA AddEffect ==
    ASSUME TypeOK, UniqueInv, NEW e \in Entry, AddNode(e)
    PROVE  \/ Entries(node_list') = Entries(node_list)
           \/ /\ rest /\ e.github_id \in ValidName
              /\ \A d \in Entries(node_list) : d.github_id # e.github_id
              /\ Entries(node_list') = Entries(node_list) \cup {e}
  <1>1. Node(e.github_id, e.ip_addr) = e
    BY DEF Node, Entry
  <1>2. node_list \in Seq(Entry) /\ UniqueIds(node_list)
    BY DEF TypeOK, UniqueInv
  <1>3. Entries(add_user(node_list, e.github_id, e.ip_addr)) =
          IF \E d \in Entries(node_list) : d.github_id = e.github_id
          THEN Entries(node_list) ELSE Entries(node_list) \cup {e}
    <2> DEFINE g == e.github_id
               ip == e.ip_addr
    <2>1. Node(g, ip) \in Entry
      BY <1>1
    <2> HIDE DEF g, ip
    <2>2. Entries(add_user(node_list, g, ip)) =
            IF \E d \in Entries(node_list) : d.github_id = g
            THEN Entries(node_list) ELSE Entries(node_list) \cup {Node(g, ip)}
      BY <1>2, <2>1, AddUser
    <2>3. QED
      BY <1>1, <2>2 DEF g, ip
  <1>4. CASE rest /\ e.github_id \in ValidName
    BY <1>3, <1>4 DEF AddNode
  <1>5. CASE ~(rest /\ e.github_id \in ValidName)
    BY <1>5 DEF AddNode
  <1>6. QED
    BY <1>4, <1>5

\* A step of anybody but a health server leaves the sweeps alone and takes
\* no entry from the directory.
LEMMA OthersOnlyAdd ==
    ASSUME TypeOK, UniqueInv,
           \/ ClientNext /\ UNCHANGED serverVars
           \/ RestListen
           \/ BroadcastNext
           \/ UNCHANGED vars
    PROVE  /\ UNCHANGED hVars
           /\ Entries(node_list) \subseteq Entries(node_list')
  <1>1. CASE BPost
    <2>1. badvert \in Entry /\ AddNode(badvert) /\ UNCHANGED hVars
      BY <1>1 DEF BPost, TypeOK
    <2>2. \/ Entries(node_list') = Entries(node_list)
          \/ Entries(node_list') = Entries(node_list) \cup {badvert}
      BY <2>1, AddEffect
    <2>3. QED
      BY <2>1, <2>2
  <1>2. CASE BroadcastNext /\ ~BPost
    BY <1>2 DEF BroadcastNext, BRecv, BGet, BConnect, BSend, BSendFails, BDone,
                restVars
  <1>3. CASE RestListen
    BY <1>3 DEF RestListen
  <1>4. CASE UNCHANGED serverVars \/ UNCHANGED vars
    BY <1>4 DEF serverVars, restVars, vars
  <1>5. QED
    BY <1>1, <1>2, <1>3, <1>4

\* SweepSound is inductive together with the types and the uniqueness of ids:
\* the health server deletes the id of the node it has just checked, no later
\* node of its copy has that id, and nobody else deletes.
LEMMA SweepStep ==
    ASSUME OneHealth, TypeOK, UniqueInv, SweepSound, [Next]_vars
    PROVE  SweepSound'
  <1>1. CASE \/ ClientNext /\ UNCHANGED serverVars
             \/ RestListen
             \/ BroadcastNext
             \/ UNCHANGED vars
    <2>1. UNCHANGED hVars /\ Entries(node_list) \subseteq Entries(node_list')
      BY <1>1, OthersOnlyAdd
    <2>2. QED
      BY <2>1 DEF SweepSound, Sweeps, hVars
  <1>2. ASSUME NEW h \in Health, HealthNext(h)
        PROVE  SweepSound'
    <2> SUFFICES ASSUME Sweeps(h)', NEW j \in (hidx[h] .. Len(hnodes[h]))'
                 PROVE  (hnodes[h][j] \in Entries(node_list))'
      BY DEF SweepSound, OneHealth
    <2>1. CASE HGet(h)
      <3>1. GetNodes \in Seq(Entry) /\ Entries(GetNodes) \subseteq Entries(node_list)
        BY Requests
      <3>2. hnodes'[h] = GetNodes /\ hidx'[h] = 1 /\ node_list' = node_list
        BY <2>1 DEF HGet, TypeOK, restVars
      <3>3. GetNodes[j] \in Entries(GetNodes)
        BY <3>1, <3>2, LenProperties DEF Entries, ToSet
      <3>4. QED
        BY <3>1, <3>2, <3>3
    <2>2. CASE HConnect(h) \/ HSend(h) \/ HSendFails(h)
               \/ HPongFails(h) \/ HPongCut(h)
      <3>1. Sweeps(h) /\ UNCHANGED <<hnodes, hidx, node_list>>
        BY <2>2 DEF HConnect, HSend, HSendFails, HPongFails, HPongCut, Sweeps,
                    restVars
      <3>2. QED
        BY <3>1 DEF SweepSound
    <2>3. ASSUME Sweeps(h), NextNode(h)
          PROVE  /\ hidx[h] < Len(hnodes[h])
                 /\ hnodes' = hnodes /\ hidx'[h] = hidx[h] + 1
      BY <2>3 DEF NextNode, Sweeps, TypeOK
    <2>4. CASE HPongOK(h)
      <3>1. Sweeps(h) /\ NextNode(h) /\ node_list' = node_list
        BY <2>4 DEF HPongOK, Sweeps
      <3>2. j \in hidx[h] .. Len(hnodes[h])
        BY <2>3, <3>1, CheckedType
      <3>3. QED
        BY <2>3, <3>1, <3>2 DEF SweepSound
    <2>5. CASE HExpel(h)
      <3>1. Sweeps(h) /\ NextNode(h) /\ DeleteNode(Checked(h).github_id)
        BY <2>5 DEF HExpel, Sweeps
      <3>2. /\ hidx[h] \in 1 .. Len(hnodes[h]) /\ Len(hnodes[h]) \in Nat
            /\ j \in hidx[h] + 1 .. Len(hnodes[h])
        BY <2>3, <3>1, CheckedType
      <3>3. hnodes[h][j] \in Entries(node_list)
        BY <3>1, <3>2 DEF SweepSound
      <3>4. hnodes[h][j].github_id # Checked(h).github_id
        <4>1. DOMAIN hnodes[h] = 1 .. Len(hnodes[h]) /\ UniqueIds(hnodes[h])
          BY LenProperties DEF TypeOK, UniqueInv
        <4>2. QED
          BY <3>2, <4>1 DEF UniqueIds, Checked
      <3>5. hnodes[h][j] \in Entries(node_list')
        BY <3>1, <3>3, <3>4, DeleteEffect
      <3>6. QED
        BY <2>3, <3>1, <3>5
    <2>6. QED
      BY <1>2, <2>1, <2>2, <2>4, <2>5 DEF HealthNext
  <1>3. QED
    BY <1>1, <1>2 DEF Next

\* With one health server, every node it has not settled yet is registered as
\* its copy says (health_server.cc:20-22 and 84-87).
THEOREM SweepIsSound ==
    ASSUME OneHealth
    PROVE  Spec => []SweepSound
  <1>1. Init => SweepSound
    BY DEF Init, SweepSound, Sweeps
  <1>2. TypeOK /\ UniqueInv /\ SweepSound /\ [Next]_vars => SweepSound'
    BY SweepStep
  <1>3. QED
    BY <1>1, <1>2, TypeCorrect, PTL DEF Spec

\* However many health servers there are, an entry leaves only when one of
\* them deletes its id after a failed check.
THEOREM LeavesOnlyByFailedCheck == Spec => LeavesByFailedCheck
  <1> DEFINE A == \A e \in Entries(node_list) \ Entries(node_list') :
                     \E h \in Health : /\ hpc[h] = "expel"
                                       /\ Checked(h).github_id = e.github_id
  <1>1. ASSUME TypeOK, UniqueInv, [Next]_vars
        PROVE  A
    <2>1. CASE \/ ClientNext /\ UNCHANGED serverVars
               \/ RestListen
               \/ BroadcastNext
               \/ UNCHANGED vars
      BY <1>1, <2>1, OthersOnlyAdd
    <2>2. ASSUME NEW h \in Health, HealthNext(h)
          PROVE  A
      <3>1. CASE HExpel(h)
        BY <1>1, <3>1, DeleteEffect DEF HExpel
      <3>2. CASE ~HExpel(h)
        <4>1. node_list' = node_list
          BY <2>2, <3>2 DEF HealthNext, HGet, HConnect, HSend, HSendFails,
                            HPongOK, HPongFails, HPongCut, restVars
        <4>2. QED
          BY <4>1
      <3>3. QED
        BY <3>1, <3>2
    <2>3. QED
      BY <1>1, <2>1, <2>2 DEF Next
  <1>2. TypeOK /\ UniqueInv /\ [Next]_vars => [A]_vars
    BY <1>1
  <1>3. QED
    BY <1>2, TypeCorrect, PTL DEF Spec, LeavesByFailedCheck

-----------------------------------------------------------------------------
(* The directory implements its specification.                             *)

\* Only a REST server that is up has users, and only ids it accepts.
ListedInv == \A e \in Entries(node_list) : rest /\ e.github_id \in ValidName

LEMMA ListedStep ==
    ASSUME TypeOK, UniqueInv, ListedInv, [Next]_vars
    PROVE  ListedInv'
  <1>1. CASE BPost
    <2>1. badvert \in Entry /\ AddNode(badvert) /\ rest' = rest
      BY <1>1 DEF BPost, TypeOK
    <2>2. \/ Entries(node_list') = Entries(node_list)
          \/ /\ rest /\ badvert.github_id \in ValidName
             /\ Entries(node_list') = Entries(node_list) \cup {badvert}
      BY <2>1, AddEffect
    <2>3. QED
      BY <2>1, <2>2 DEF ListedInv
  <1>2. ASSUME NEW h \in Health, HExpel(h)
        PROVE  ListedInv'
    <2>1. rest' = rest /\ Entries(node_list') \subseteq Entries(node_list)
      BY <1>2, DeleteEffect DEF HExpel, NextNode
    <2>2. QED
      BY <2>1 DEF ListedInv
  <1>3. CASE ~BPost /\ ~\E h \in Health : HExpel(h)
    <2>1. node_list' = node_list /\ (rest => rest')
      BY <1>3 DEF Next, vars, serverVars, restVars, RestListen,
                  BroadcastNext, BRecv, BGet, BConnect, BSend, BSendFails, BDone,
                  HealthNext, HGet, HConnect, HSend, HSendFails, HPongOK,
                  HPongFails, HPongCut, NextNode
    <2>2. QED
      BY <2>1 DEF ListedInv
  <1>4. QED
    BY <1>1, <1>2, <1>3

\* With one health server, the suspect is the node it checks.
LEMMA TheSuspect ==
    ASSUME OneHealth
    PROVE  \A h \in Health : Suspect = IF hpc[h] = "expel"
                                    THEN Checked(h) ELSE NoAdvert
  <1>1. ASSUME NEW h \in Health, hpc[h] = "expel"
        PROVE  Suspect = Checked(h)
    <2>1. h \in Suspected
      BY <1>1 DEF Suspected
    <2>2. (CHOOSE k \in Suspected : TRUE) \in Suspected
      BY <2>1
    <2>3. (CHOOSE k \in Suspected : TRUE) = h
      BY <2>2 DEF OneHealth, Suspected
    <2>4. QED
      BY <2>1, <2>3 DEF Suspect
  <1>2. ASSUME NEW h \in Health, hpc[h] # "expel"
        PROVE  Suspect = NoAdvert
    BY <1>2 DEF Suspect, Suspected, OneHealth
  <1>3. QED
    BY <1>1, <1>2

\* No step of the others changes the suspect.
LEMMA SuspectKept ==
    ASSUME UNCHANGED hVars
    PROVE  Suspect' = Suspect
  <1>1. Suspected' = Suspected
    BY DEF Suspected, hVars
  <1>2. \A h : Checked(h)' = Checked(h)
    BY DEF Checked, hVars
  <1>3. QED
    BY <1>1, <1>2 DEF Suspect

\* Every step is a step of Directory, or one it does not see.
LEMMA DirStep ==
    ASSUME OneHealth, TypeOK, UniqueInv, ListedInv, SweepSound, [Next]_vars
    PROVE  [Dir!Next]_(Dir!vars)
  <1> DEFINE D == Entries(node_list)
  <1>1. CASE BPost
    <2>1. badvert \in Entry /\ AddNode(badvert) /\ UNCHANGED hVars
      BY <1>1 DEF BPost, TypeOK
    <2>2. Suspect' = Suspect
      BY <2>1, SuspectKept
    <2>3. \/ Entries(node_list') = D
          \/ /\ \A d \in D : d.github_id # badvert.github_id
             /\ Entries(node_list') = D \cup {badvert}
      BY <2>1, AddEffect
    <2>4. CASE Entries(node_list') = D
      BY <2>2, <2>4 DEF Dir!vars, Entries
    <2>5. CASE /\ \A d \in D : d.github_id # badvert.github_id
               /\ Entries(node_list') = D \cup {badvert}
      <3>1. Dir!Register(badvert)
        BY <2>2, <2>5 DEF Dir!Register, Entries
      <3>2. QED
        BY <2>1, <3>1 DEF Dir!Next, Dir!Entry, Entry
    <2>6. QED
      BY <2>3, <2>4, <2>5
  <1>2. CASE \/ ClientNext /\ UNCHANGED serverVars
             \/ RestListen
             \/ BroadcastNext /\ ~BPost
             \/ UNCHANGED vars
    <2>1. UNCHANGED hVars /\ node_list' = node_list
      BY <1>2 DEF vars, serverVars, restVars, RestListen, BroadcastNext,
                  BRecv, BGet, BConnect, BSend, BSendFails, BDone
    <2>2. QED
      BY <2>1, SuspectKept DEF Dir!vars
  <1>3. ASSUME NEW h \in Health, HealthNext(h)
        PROVE  [Dir!Next]_(Dir!vars)
    <2>1. Suspect = IF hpc[h] = "expel" THEN Checked(h) ELSE NoAdvert
      BY TheSuspect
    <2>2. (Suspect = IF hpc[h] = "expel" THEN Checked(h) ELSE NoAdvert)'
      <3>1. ASSUME hpc'[h] = "expel"
            PROVE  Suspect' = Checked(h)'
        <4>1. h \in Suspected'
          BY <3>1 DEF Suspected
        <4>2. (CHOOSE k \in Suspected' : TRUE) \in Suspected'
          BY <4>1
        <4>3. (CHOOSE k \in Suspected' : TRUE) = h
          BY <4>2 DEF OneHealth, Suspected
        <4>4. QED
          BY <4>1, <4>3 DEF Suspect, Checked
      <3>2. ASSUME hpc'[h] # "expel"
            PROVE  Suspect' = NoAdvert
        BY <3>2 DEF Suspect, Suspected, OneHealth
      <3>3. QED
        BY <3>1, <3>2
    <2>3. CASE hpc[h] # "expel" /\ hpc'[h] # "expel"
      <3>1. node_list' = node_list
        BY <1>3, <2>3 DEF HealthNext, HGet, HConnect, HSend, HSendFails,
                          HPongOK, HPongFails, HPongCut, HExpel, restVars
      <3>2. QED
        BY <2>1, <2>2, <2>3, <3>1 DEF Dir!vars
    <2>4. CASE hpc[h] # "expel" /\ hpc'[h] = "expel"
      <3>1. Sweeps(h) /\ UNCHANGED <<hnodes, hidx, node_list>>
        BY <1>3, <2>4 DEF HealthNext, HGet, HConnect, HSend, HSendFails,
                          HPongOK, HPongFails, HPongCut, HExpel, restVars,
                          NextNode, Sweeps, TypeOK
      <3>2. Checked(h)' = Checked(h)
        BY <3>1 DEF Checked
      <3>3. Checked(h) \in Entry /\ Checked(h) \in D
        BY <3>1, CheckedType DEF SweepSound, Checked
      <3>4. Dir!Suspect(Checked(h))
        BY <2>1, <2>2, <2>4, <3>1, <3>2, <3>3 DEF Dir!Suspect
      <3>5. QED
        BY <3>3, <3>4 DEF Dir!Next, Dir!Entry, Entry
    <2>5. CASE hpc[h] = "expel"
      <3>1. /\ Sweeps(h) /\ NextNode(h) /\ DeleteNode(Checked(h).github_id)
        BY <1>3, <2>5 DEF HealthNext, HGet, HConnect, HSend, HSendFails,
                          HPongOK, HPongFails, HPongCut, HExpel, Sweeps
      <3>2. Checked(h) \in D
        BY <3>1, CheckedType DEF SweepSound, Checked
      <3>3. Entries(node_list') = {e \in D : e.github_id # Checked(h).github_id}
        BY <3>1, <3>2, DeleteEffect DEF ListedInv
      <3>4. \A e \in D : e.github_id = Checked(h).github_id => e = Checked(h)
        BY <3>2 DEF UniqueInv, UniqueIds, Entries, ToSet
      <3>5. Entries(node_list') = D \ {Checked(h)}
        BY <3>3, <3>4
      <3>6. hpc'[h] # "expel"
        BY <3>1 DEF NextNode, TypeOK
      <3>7. Dir!Expel
        BY <2>1, <2>2, <2>5, <3>2, <3>5, <3>6 DEF Dir!Expel
      <3>8. QED
        BY <3>7 DEF Dir!Next
    <2>6. QED
      BY <2>3, <2>4, <2>5
  <1>4. QED
    BY <1>1, <1>2, <1>3 DEF Next

\* With one health server, the server's directory is the abstract one: an id
\* has one address, and the entry that leaves is the suspect that failed.
THEOREM ImplementsDirectory ==
    ASSUME OneHealth
    PROVE  Spec => DirSpec
  <1>1. Init => Dir!Init
    <2>1. ASSUME Init
          PROVE  Entries(node_list) = {} /\ Suspect = NoAdvert
      BY <2>1, EmptySeq DEF Init, Entries, ToSet, Suspect, Suspected
    <2>2. QED
      BY <2>1 DEF Dir!Init
  <1>2. Init => ListedInv
    BY EmptySeq DEF Init, ListedInv, Entries, ToSet
  <1>3. TypeOK /\ UniqueInv /\ ListedInv /\ [Next]_vars => ListedInv'
    BY ListedStep
  <1>4. TypeOK /\ UniqueInv /\ ListedInv /\ SweepSound /\ [Next]_vars
          => [Dir!Next]_(Dir!vars)
    BY DirStep
  <1>5. QED
    BY <1>1, <1>2, <1>3, <1>4, TypeCorrect, SweepIsSound, PTL
       DEF Spec, DirSpec, Dir!Spec
-----------------------------------------------------------------------------
(* One address per id, in every copy of the list.                          *)

\* A set of entries gives an id one address.
OneAddress(S) == \A d, e \in S : d.github_id = e.github_id => d = e

\* What is on its way to the messengers, and what they hold, gives an id one
\* address.  OneAddressPerId, of which it is the rest, is inductive with it:
\* every copy is made of another one.
CopiesInv ==
    /\ OneAddress(bcontent)
    /\ \A a \in Addr : OneAddress(nodes[a])
    /\ \A a \in Addr : \A f \in ToSet(inbox[a]) :
          f.kind = "list" => OneAddress(f.nodes)

\* A list that has no id twice gives every id one address.
LEMMA UniqueIsOneAddress ==
    ASSUME NEW s, UniqueIds(s)
    PROVE  OneAddress(Entries(s))
  BY DEF UniqueIds, OneAddress, Entries, ToSet

\* The frames of a queue that is served, that gets a frame, or whose checks
\* become late.
LEMMA QueueFrames ==
    ASSUME NEW s \in Seq(Frame)
    PROVE  /\ s # <<>> => Head(s) \in ToSet(s) /\ ToSet(Tail(s)) \subseteq ToSet(s)
           /\ \A f \in Frame : ToSet(Append(s, f)) \subseteq ToSet(s) \cup {f}
           /\ \A h \in Health :
                 ToSet(ReplaceAll(s, Ping(h), LatePing)) \subseteq ToSet(s) \cup {LatePing}
           /\ ToSet(<<>>) = {}
  <1>1. Len(s) \in Nat /\ DOMAIN s = 1 .. Len(s)
    BY LenProperties
  <1>2. ASSUME s # <<>>
        PROVE  Head(s) \in ToSet(s) /\ ToSet(Tail(s)) \subseteq ToSet(s)
    <2>1. Tail(s) \in Seq(Frame) /\ Len(Tail(s)) = Len(s) - 1 /\ Len(s) > 0
      BY <1>1, <1>2, HeadTailProperties, EmptySeq
    <2>2. /\ DOMAIN Tail(s) = 1 .. Len(s) - 1
          /\ \A i \in 1 .. Len(s) - 1 : Tail(s)[i] = s[i + 1]
      BY <1>2, <2>1, HeadTailProperties, LenProperties
    <2>3. Head(s) = s[1]
      BY <1>2
    <2>4. QED
      BY <1>1, <2>1, <2>2, <2>3 DEF ToSet
  <1>3. ASSUME NEW f \in Frame
        PROVE  ToSet(Append(s, f)) \subseteq ToSet(s) \cup {f}
    <2>1. /\ Append(s, f) \in Seq(Frame)
          /\ Len(Append(s, f)) = Len(s) + 1
          /\ \A i \in 1 .. Len(s) : Append(s, f)[i] = s[i]
          /\ Append(s, f)[Len(s) + 1] = f
      BY AppendProperties
    <2>2. DOMAIN Append(s, f) = 1 .. Len(s) + 1
      BY <2>1, LenProperties
    <2>3. QED
      BY <1>1, <2>1, <2>2 DEF ToSet
  <1>4. ASSUME NEW h \in Health
        PROVE  ToSet(ReplaceAll(s, Ping(h), LatePing)) \subseteq ToSet(s) \cup {LatePing}
    BY <1>1 DEF ToSet, ReplaceAll
  <1>5. ToSet(<<>>) = {}
    BY DEF ToSet
  <1>6. QED
    BY <1>2, <1>3, <1>4, <1>5

\* A step that adds to the queues, to the messengers' maps and to the listener's
\* list nothing that gives an id two addresses keeps CopiesInv.
LEMMA CopiesKept ==
    ASSUME CopiesInv,
           OneAddress(bcontent'),
           \A a \in Addr : nodes'[a] = nodes[a] \/ OneAddress(nodes'[a]),
           \A a \in Addr : \A f \in ToSet(inbox'[a]) \ ToSet(inbox[a]) :
              f.kind = "list" => OneAddress(f.nodes)
    PROVE  CopiesInv'
  <1>1. \A a \in Addr : OneAddress(nodes'[a])
    BY DEF CopiesInv
  <1>2. \A a \in Addr : \A f \in ToSet(inbox'[a]) :
           f.kind = "list" => OneAddress(f.nodes)
    BY DEF CopiesInv
  <1>3. QED
    BY <1>1, <1>2 DEF CopiesInv, OneAddress

\* Every step makes copies of copies only.
LEMMA CopiesStep ==
    ASSUME TypeOK, UniqueInv, CopiesInv, [Next]_vars
    PROVE  CopiesInv'
  <1>1. OneAddress({}) /\ OneAddress(bcontent)
    BY DEF OneAddress, CopiesInv
  <1>2. \A a \in Addr : inbox[a] \in Seq(Frame)
    BY DEF TypeOK, ClientTypeOK
  <1>3. CASE UNCHANGED <<bcontent, nodes, inbox>>
    BY <1>1, <1>3, CopiesKept
  <1>4. ASSUME NEW a \in Addr, NEW cut, Ends(a, cut), UNCHANGED serverVars
        PROVE  CopiesInv'
    <2>1. \A b \in Addr : /\ nodes'[b] = nodes[b] \/ nodes'[b] = {}
                          /\ inbox'[b] = inbox[b] \/ inbox'[b] = <<>>
      BY <1>4 DEF Ends, TypeOK, ClientTypeOK
    <2>2. \A b \in Addr : ToSet(inbox'[b]) \subseteq ToSet(inbox[b])
      BY <2>1, QueueFrames, <1>2
    <2>3. QED
      BY <1>1, <1>4, <2>1, <2>2, CopiesKept DEF serverVars, bVars
  <1>5. ASSUME NEW a \in Addr, inbox[a] # <<>>, Served(a)
        PROVE  \A b \in Addr : ToSet(inbox'[b]) \subseteq ToSet(inbox[b])
    BY <1>2, <1>5, QueueFrames DEF Served, TypeOK, ClientTypeOK
  <1>6. ASSUME NEW a \in Addr, ListenerList(a), UNCHANGED serverVars
        PROVE  CopiesInv'
    <2>1. inbox[a] # <<>> /\ Head(inbox[a]).kind = "list" /\ Served(a)
      BY <1>6 DEF ListenerList, Serves
    <2>2. OneAddress(Head(inbox[a]).nodes)
      BY <1>2, <2>1, QueueFrames DEF CopiesInv
    <2>3. \A b \in Addr : nodes'[b] = nodes[b] \/ OneAddress(nodes'[b])
      BY <1>6, <2>2 DEF ListenerList, TypeOK, ClientTypeOK
    <2>4. QED
      BY <1>1, <1>5, <1>6, <2>1, <2>3, CopiesKept DEF serverVars, bVars
  <1>7. ASSUME NEW a \in Addr, inbox[a] # <<>>, Served(a), nodes' = nodes,
               UNCHANGED serverVars
        PROVE  CopiesInv'
    BY <1>1, <1>5, <1>7, CopiesKept DEF serverVars, bVars
  <1>8. CASE ClientNext /\ UNCHANGED serverVars
    <2>1. ASSUME NEW a \in Addr, NEW g \in Name, Start(a, g)
          PROVE  CopiesInv'
      BY <1>3, <1>8, <2>1 DEF Start, serverVars, bVars
    <2>2. ASSUME NEW a \in Addr, Listen(a) \/ Advertise(a)
          PROVE  CopiesInv'
      BY <1>3, <1>8, <2>2 DEF Listen, Advertise, serverVars, bVars
    <2>3. CASE Lose
      BY <1>3, <1>8, <2>3 DEF Lose, serverVars, bVars
    <2>4. ASSUME NEW a \in Addr, Stop(a) \/ Listener(a)
          PROVE  CopiesInv'
      BY <1>4, <1>6, <1>7, <1>8, <2>4
         DEF Stop, Listener, ListenerPing, ListenerPingCut, ListenerLate, Serves
    <2>5. QED
      BY <1>8, <2>1, <2>2, <2>3, <2>4 DEF ClientNext
  <1>9. CASE RestListen
    BY <1>3, <1>9 DEF RestListen, bVars, clientVars
  <1>10. CASE BroadcastNext
    <2>1. ASSUME NEW m \in adverts, BRecv(m)
          PROVE  CopiesInv'
      BY <1>3, <2>1 DEF BRecv
    <2>2. CASE BPost \/ BConnect
      BY <1>3, <2>2 DEF BPost, BConnect, clientVars
    <2>3. CASE BGet
      <3>1. UniqueIds(GetNodes)
        BY Requests
      <3>2. OneAddress(bcontent') /\ UNCHANGED <<nodes, inbox>>
        BY <2>3, <3>1, UniqueIsOneAddress DEF BGet, clientVars
      <3>3. QED
        BY <3>2, CopiesKept
    <2>4. CASE BSend
      <3>1. bcontent' = {} /\ nodes' = nodes
        BY <2>4 DEF BSend, BDone
      <3>2. ListFrame(bcontent) \in Frame /\ ListFrame(bcontent).nodes = bcontent
        BY FrameTypes DEF ListFrame, TypeOK
      <3>3. \A a \in Addr : ToSet(inbox'[a])
                               \subseteq ToSet(inbox[a]) \cup {ListFrame(bcontent)}
        BY <1>2, <2>4, <3>2, QueueFrames DEF BSend, Deliver, TypeOK, ClientTypeOK
      <3>4. QED
        BY <1>1, <3>1, <3>2, <3>3, CopiesKept
    <2>5. CASE BSendFails
      <3>1. bcontent' = {} /\ UNCHANGED <<nodes, inbox>>
        BY <2>5 DEF BSendFails, BDone
      <3>2. QED
        BY <1>1, <3>1, CopiesKept
    <2>6. QED
      BY <1>10, <2>1, <2>2, <2>3, <2>4, <2>5 DEF BroadcastNext
  <1>11. ASSUME NEW h \in Health, HealthNext(h)
         PROVE  CopiesInv'
    <2>1. CASE HGet(h) \/ HConnect(h) \/ HSendFails(h) \/ HPongFails(h) \/ HPongCut(h)
      BY <1>3, <2>1 DEF HGet, HConnect, HSendFails, HPongFails, HPongCut, bVars,
                        clientVars
    <2>2. CASE HSend(h)
      <3>1. UNCHANGED <<bcontent, nodes>>
        BY <2>2 DEF HSend, bVars
      <3>2. Ping(h) \in Frame /\ Ping(h).kind # "list"
        BY FrameTypes DEF Ping
      <3>3. \A a \in Addr : ToSet(inbox'[a]) \subseteq ToSet(inbox[a]) \cup {Ping(h)}
        BY <1>2, <2>2, <3>2, QueueFrames DEF HSend, Deliver, TypeOK, ClientTypeOK
      <3>4. QED
        BY <1>1, <3>1, <3>2, <3>3, CopiesKept
    <2>3. ASSUME NextNode(h)
          PROVE  CopiesInv'
      <3>1. UNCHANGED <<bcontent, nodes>>
        BY <2>3 DEF NextNode, bVars
      <3>2. LatePing.kind # "list"
        BY DEF LatePing
      <3>3. \A a \in Addr : ToSet(inbox'[a]) \subseteq ToSet(inbox[a]) \cup {LatePing}
        BY <1>2, <2>3, QueueFrames DEF NextNode, ClosePing
      <3>4. QED
        BY <1>1, <3>1, <3>2, <3>3, CopiesKept
    <2>4. QED
      BY <1>11, <2>1, <2>2, <2>3 DEF HealthNext, HPongOK, HExpel
  <1>12. CASE UNCHANGED vars
    BY <1>3, <1>12 DEF vars, clientVars, serverVars, bVars
  <1>13. QED
    BY <1>8, <1>9, <1>10, <1>11, <1>12 DEF Next

\* No copy of the directory gives an id two addresses, however many health
\* servers run and whichever copies are delivered when (listen.cc:54-57).
THEOREM OneAddressEverywhere == Spec => []OneAddressPerId
  <1>1. Init => CopiesInv
    <2>1. ASSUME Init
          PROVE  CopiesInv
      <3>1. ToSet(<<>>) = {}
        BY DEF ToSet
      <3>2. QED
        BY <2>1, <3>1 DEF Init, ClientInit, CopiesInv, OneAddress
    <2>2. QED
      BY <2>1
  <1>2. TypeOK /\ UniqueInv /\ CopiesInv /\ [Next]_vars => CopiesInv'
    BY CopiesStep
  <1>3. UniqueInv /\ CopiesInv => OneAddressPerId
    BY DEF UniqueInv, CopiesInv, OneAddress, OneAddressPerId
  <1>4. QED
    BY <1>1, <1>2, <1>3, TypeCorrect, PTL DEF Spec

-----------------------------------------------------------------------------
(* Whose answer an answer is.                                              *)

\* The health servers whose checks are in a queue; none is there twice.
PingsIn(s) == {h \in Health : Ping(h) \in ToSet(s)}
OncePerPing(s) ==
    \A i, j \in DOMAIN s : s[i].kind = "ping" /\ s[i] = s[j] => i = j

\* A connection is open, or carries a check, only to the address that is being
\* checked, and a check in a queue is that of such a connection.
CheckInv ==
    /\ \A h \in Health :
          /\ link[h].state = "open" =>
                hpc[h] = "send" /\ link[h].peer = Checked(h).ip_addr
          /\ link[h].state = "sent" =>
                hpc[h] \in {"recv", "expel"} /\ link[h].peer = Checked(h).ip_addr
    /\ \A a \in Addr :
          /\ OncePerPing(inbox[a])
          /\ \A h \in PingsIn(inbox[a]) :
                link[h].state = "sent" /\ link[h].peer = a

\* The checks in a queue that is served, that gets a frame, or from which a
\* health server has withdrawn.
LEMMA QueuePings ==
    ASSUME NEW s \in Seq(Frame), OncePerPing(s)
    PROVE  /\ s # <<>> =>
                /\ OncePerPing(Tail(s))
                /\ \A h \in Health : Head(s) = Ping(h) => h \notin PingsIn(Tail(s))
           /\ \A S \in SUBSET Entry : OncePerPing(Append(s, ListFrame(S)))
           /\ \A h \in Health :
                /\ h \notin PingsIn(s) => OncePerPing(Append(s, Ping(h)))
                /\ OncePerPing(ReplaceAll(s, Ping(h), LatePing))
                /\ h \notin PingsIn(ReplaceAll(s, Ping(h), LatePing))
           /\ OncePerPing(<<>>)
  <1>1. Len(s) \in Nat /\ DOMAIN s = 1 .. Len(s)
    BY LenProperties
  <1>2. ASSUME s # <<>>
        PROVE  /\ OncePerPing(Tail(s))
               /\ \A h \in Health : Head(s) = Ping(h) => h \notin PingsIn(Tail(s))
    <2>1. Tail(s) \in Seq(Frame) /\ Len(Tail(s)) = Len(s) - 1 /\ Len(s) > 0
      BY <1>1, <1>2, HeadTailProperties, EmptySeq
    <2>2. /\ DOMAIN Tail(s) = 1 .. Len(s) - 1
          /\ \A i \in 1 .. Len(s) - 1 : Tail(s)[i] = s[i + 1]
      BY <1>2, <2>1, HeadTailProperties, LenProperties
    <2>3. Head(s) = s[1]
      BY <1>2
    <2>4. OncePerPing(Tail(s))
      BY <1>1, <2>1, <2>2 DEF OncePerPing
    <2>5. ASSUME NEW h \in Health, Head(s) = Ping(h), Ping(h) \in ToSet(Tail(s))
          PROVE  FALSE
      <3>1. PICK i \in 1 .. Len(s) - 1 : s[i + 1] = Ping(h)
        BY <2>2, <2>5 DEF ToSet
      <3>2. s[1] = s[i + 1] /\ s[1].kind = "ping" /\ i + 1 \in 1 .. Len(s) /\ 1 \in 1 .. Len(s)
        BY <1>1, <2>1, <2>3, <2>5, <3>1 DEF Ping
      <3>3. 1 = i + 1
        BY <1>1, <3>2 DEF OncePerPing
      <3>4. QED
        BY <3>1, <3>3
    <2>6. QED
      BY <2>4, <2>5 DEF PingsIn
  <1>3. ASSUME NEW f \in Frame, f.kind = "ping" => f \notin ToSet(s)
        PROVE  OncePerPing(Append(s, f))
    <2>1. /\ Append(s, f) \in Seq(Frame)
          /\ Len(Append(s, f)) = Len(s) + 1
          /\ \A i \in 1 .. Len(s) : Append(s, f)[i] = s[i]
          /\ Append(s, f)[Len(s) + 1] = f
      BY AppendProperties
    <2>2. DOMAIN Append(s, f) = 1 .. Len(s) + 1
      BY <2>1, LenProperties
    <2>3. \A i \in 1 .. Len(s) : s[i] \in ToSet(s)
      BY <1>1 DEF ToSet
    <2> DEFINE t == Append(s, f)
    <2> HIDE DEF t
    <2>4. ASSUME NEW i \in DOMAIN t, NEW j \in DOMAIN t,
                 t[i].kind = "ping", t[i] = t[j]
          PROVE  i = j
      <3>1. CASE i \in 1 .. Len(s) /\ j \in 1 .. Len(s)
        BY <1>1, <2>1, <2>4, <3>1 DEF OncePerPing, t
      <3>2. CASE i = Len(s) + 1 /\ j \in 1 .. Len(s)
        BY <1>3, <2>1, <2>3, <2>4, <3>2 DEF t
      <3>3. CASE j = Len(s) + 1 /\ i \in 1 .. Len(s)
        BY <1>3, <2>1, <2>3, <2>4, <3>3 DEF t
      <3>4. QED
        BY <1>1, <2>2, <2>4, <3>1, <3>2, <3>3 DEF t
    <2>5. QED
      BY <2>4 DEF OncePerPing, t
  <1>4. \A S \in SUBSET Entry : OncePerPing(Append(s, ListFrame(S)))
    BY <1>3, FrameTypes DEF ListFrame
  <1>5. ASSUME NEW h \in Health
        PROVE  /\ h \notin PingsIn(s) => OncePerPing(Append(s, Ping(h)))
               /\ OncePerPing(ReplaceAll(s, Ping(h), LatePing))
               /\ h \notin PingsIn(ReplaceAll(s, Ping(h), LatePing))
    <2>1. h \notin PingsIn(s) => OncePerPing(Append(s, Ping(h)))
      BY <1>3, FrameTypes DEF PingsIn
    <2>2. LatePing.kind # "ping" /\ LatePing # Ping(h)
      BY DEF LatePing, Ping
    <2> DEFINE t == ReplaceAll(s, Ping(h), LatePing)
    <2>3. /\ DOMAIN t = 1 .. Len(s)
          /\ \A i \in 1 .. Len(s) : t[i] = IF s[i] = Ping(h) THEN LatePing ELSE s[i]
      BY DEF ReplaceAll
    <2> HIDE DEF t
    <2>4. OncePerPing(t)
      BY <1>1, <2>2, <2>3 DEF OncePerPing
    <2>5. Ping(h) \notin ToSet(t)
      BY <2>2, <2>3 DEF ToSet
    <2>6. QED
      BY <2>1, <2>4, <2>5 DEF PingsIn, t
  <1>6. OncePerPing(<<>>)
    BY DEF OncePerPing
  <1>7. QED
    BY <1>2, <1>4, <1>5, <1>6

\* The checks of other queues and of other health servers stay where they are.
LEMMA PingsKept ==
    ASSUME NEW s, NEW t, NEW S, ToSet(t) \subseteq ToSet(s) \cup S
    PROVE  PingsIn(t) \subseteq PingsIn(s) \cup {h \in Health : Ping(h) \in S}
  BY DEF PingsIn

\* A step of one health server, or of none, keeps CheckInv if what it does to
\* its own connection, and its own checks in the queues, fits.
LEMMA ChecksKept ==
    ASSUME CheckInv,
           NEW H \in SUBSET Health,
           \A h \in Health \ H : /\ link'[h] = link[h] /\ hpc'[h] = hpc[h]
                                 /\ Checked(h)' = Checked(h),
           \A h \in H : /\ link'[h].state = "open" =>
                              hpc'[h] = "send" /\ link'[h].peer = Checked(h)'.ip_addr
                        /\ link'[h].state = "sent" =>
                              /\ hpc'[h] \in {"recv", "expel"}
                              /\ link'[h].peer = Checked(h)'.ip_addr,
           \A a \in Addr :
              /\ OncePerPing(inbox'[a])
              /\ PingsIn(inbox'[a]) \subseteq PingsIn(inbox[a]) \cup H
              /\ \A h \in H : h \in PingsIn(inbox'[a]) =>
                    link'[h].state = "sent" /\ link'[h].peer = a
    PROVE  CheckInv'
  <1>1. \A h \in Health :
          /\ (link[h].state = "open" =>
                hpc[h] = "send" /\ link[h].peer = Checked(h).ip_addr)'
          /\ (link[h].state = "sent" =>
                hpc[h] \in {"recv", "expel"} /\ link[h].peer = Checked(h).ip_addr)'
    BY DEF CheckInv
  <1>2. \A a \in Addr : \A h \in PingsIn(inbox'[a]) :
           link'[h].state = "sent" /\ link'[h].peer = a
    BY DEF CheckInv, PingsIn
  <1>3. QED
    BY <1>1, <1>2 DEF CheckInv

\* The steps of the messengers: one that ends resets its connections, one that
\* answers a check takes it out of its queue.
LEMMA ClientChecks ==
    ASSUME TypeOK, CheckInv, ClientNext, UNCHANGED serverVars
    PROVE  CheckInv'
  <1> USE DEF TypeOK, ClientTypeOK
  <1>1. /\ UNCHANGED <<hpc, hnodes, hidx>>
        /\ \A h : Checked(h)' = Checked(h)
    BY DEF serverVars, hVars, Checked
  <1>2. \A a \in Addr : inbox[a] \in Seq(Frame) /\ OncePerPing(inbox[a])
    BY DEF CheckInv
  <1>3. ASSUME link' = link,
               \A a \in Addr : /\ OncePerPing(inbox'[a])
                               /\ PingsIn(inbox'[a]) \subseteq PingsIn(inbox[a])
        PROVE  CheckInv'
    <2>1. {} \in SUBSET Health
      OBVIOUS
    <2>2. QED
      BY <1>1, <1>3, <2>1, ChecksKept
  <1>4. ASSUME NEW a \in Addr, NEW cut, Ends(a, cut)
        PROVE  CheckInv'
    <2> DEFINE H == {h \in Health : link[h].peer = a
                                    /\ link[h].state \in {"open", "sent"}}
    <2>1. \A h \in Health \ H : link'[h] = link[h]
      BY <1>4 DEF Ends, Proc
    <2>2. ASSUME NEW h \in H
          PROVE  link'[h].state \in {"broken", "partial"}
      <3>1. link'[h] = [link[h] EXCEPT !.state = IF h \in cut THEN "partial"
                                                              ELSE "broken"]
        BY <1>4, <2>2 DEF Ends, Proc
      <3>2. link[h] \in Link
        BY <2>2 DEF Proc
      <3>3. QED
        BY <3>1, <3>2 DEF Link
    <2>3. ASSUME NEW b \in Addr
          PROVE  /\ OncePerPing(inbox'[b])
                 /\ PingsIn(inbox'[b]) \subseteq PingsIn(inbox[b])
                 /\ \A h \in H : h \notin PingsIn(inbox'[b])
      <3>1. CASE b = a
        <4>1. inbox'[b] = <<>> /\ ToSet(<<>>) = {}
          BY <1>4, <3>1 DEF Ends, ToSet
        <4>2. OncePerPing(<<>>) /\ PingsIn(<<>>) = {}
          BY <4>1 DEF OncePerPing, PingsIn
        <4>3. QED
          BY <4>1, <4>2
      <3>2. CASE b # a
        <4>1. inbox'[b] = inbox[b]
          BY <1>4, <3>2 DEF Ends
        <4>2. \A h \in PingsIn(inbox[b]) : link[h].peer = b
          BY DEF CheckInv
        <4>3. QED
          BY <1>2, <3>2, <4>1, <4>2
      <3>3. QED
        BY <3>1, <3>2
    <2>4. H \in SUBSET Health
      OBVIOUS
    <2>5. \A h \in H : link'[h].state # "open" /\ link'[h].state # "sent"
      BY <2>2
    <2> HIDE DEF H
    <2>6. QED
      BY <1>1, <2>1, <2>3, <2>4, <2>5, ChecksKept
  <1>5. ASSUME NEW a \in Addr, inbox[a] # <<>>, Served(a)
        PROVE  \A b \in Addr : /\ OncePerPing(inbox'[b])
                               /\ PingsIn(inbox'[b]) \subseteq PingsIn(inbox[b])
    <2>1. OncePerPing(Tail(inbox[a])) /\ PingsIn(Tail(inbox[a])) \subseteq PingsIn(inbox[a])
      BY <1>2, <1>5, QueuePings, QueueFrames DEF PingsIn
    <2>2. \A b \in Addr : inbox'[b] = IF b = a THEN Tail(inbox[a]) ELSE inbox[b]
      BY <1>5 DEF Served
    <2>3. QED
      BY <1>2, <2>1, <2>2
  <1>6. ASSUME NEW a \in Addr, ListenerPing(a)
        PROVE  CheckInv'
    <2> DEFINE p == Head(inbox[a]).by
    <2>1. inbox[a] # <<>> /\ Served(a) /\ Head(inbox[a]) \in Frame
          /\ Head(inbox[a]).kind = "ping"
      BY <1>2, <1>6, QueueTypes DEF ListenerPing, Serves
    <2>2. p \in Health /\ Head(inbox[a]) = Ping(p)
      BY <2>1, FrameKinds
    <2>3. p \in PingsIn(inbox[a])
      BY <1>2, <2>1, <2>2, QueueFrames DEF PingsIn
    <2>4. \A b \in Addr : p \notin PingsIn(inbox'[b])
      <3>1. p \notin PingsIn(inbox'[a])
        BY <1>2, <2>1, <2>2, QueuePings DEF Served
      <3>2. ASSUME NEW b \in Addr \ {a}
            PROVE  p \notin PingsIn(inbox'[b])
        <4>1. inbox'[b] = inbox[b]
          BY <2>1 DEF Served
        <4>2. link[p].peer = a
          BY <2>3 DEF CheckInv
        <4>3. p \in PingsIn(inbox[b]) => link[p].peer = b
          BY DEF CheckInv
        <4>4. QED
          BY <4>1, <4>2, <4>3
      <3>3. QED
        BY <3>1, <3>2
    <2>5. /\ \A h \in Health \ {p} : link'[h] = link[h]
          /\ link'[p].state = "pong"
      <3>1. link' = [link EXCEPT ![p] = [link[p] EXCEPT !.state = "pong",
                                                       !.pong = user[a]]]
        BY <1>6 DEF ListenerPing
      <3>2. link[p] \in Link /\ p \in Proc
        BY <2>2 DEF Proc
      <3>3. QED
        BY <3>1, <3>2 DEF Link, Proc
    <2> HIDE DEF p
    <2> DEFINE H == {p}
    <2>6. H \in SUBSET Health
      BY <2>2
    <2>7. \A h \in H : /\ link'[h].state # "open" /\ link'[h].state # "sent"
                       /\ \A b \in Addr : h \notin PingsIn(inbox'[b])
      BY <2>4, <2>5
    <2>8. \A h \in Health \ H : link'[h] = link[h]
      BY <2>5
    <2>9. \A b \in Addr : /\ OncePerPing(inbox'[b])
                         /\ PingsIn(inbox'[b]) \subseteq PingsIn(inbox[b]) \cup H
      BY <1>5, <2>1
    <2> HIDE DEF H
    <2>10. QED
      BY <1>1, <2>6, <2>7, <2>8, <2>9, ChecksKept
  <1>7. ASSUME UNCHANGED <<link, inbox>>
        PROVE  CheckInv'
    BY <1>2, <1>3, <1>7
  <1>8. ASSUME NEW a \in Addr, Stop(a) \/ Listener(a)
        PROVE  CheckInv'
    BY <1>3, <1>4, <1>5, <1>6, <1>8
       DEF Stop, Listener, ListenerList, ListenerPingCut, ListenerLate, Serves
  <1>9. QED
    BY <1>7, <1>8 DEF ClientNext, Start, Listen, Advertise, Lose

\* The steps of the broadcast listener: it has a connection of its own, and puts
\* no check in a queue.
LEMMA BroadcastChecks ==
    ASSUME TypeOK, CheckInv, BroadcastNext
    PROVE  CheckInv'
  <1> USE DEF TypeOK, ClientTypeOK
  <1>1. UNCHANGED hVars /\ \A h \in Health : link'[h] = link[h]
    BY ClientAssumption
       DEF BroadcastNext, BRecv, BPost, BGet, BConnect, Connect, BSend,
           BSendFails, BDone, clientVars, Proc
  <1>2. \A h : Checked(h)' = Checked(h)
    BY <1>1 DEF hVars, Checked
  <1>3. \A a \in Addr : inbox[a] \in Seq(Frame) /\ OncePerPing(inbox[a])
    BY DEF CheckInv
  <1>4. ASSUME NEW a \in Addr
        PROVE  /\ OncePerPing(inbox'[a])
               /\ PingsIn(inbox'[a]) \subseteq PingsIn(inbox[a])
    <2>1. CASE BSend
      <3>1. ListFrame(bcontent) \in Frame /\ \A h : ListFrame(bcontent) # Ping(h)
        BY FrameTypes DEF ListFrame, Ping
      <3>2. inbox'[a] \in {inbox[a], Append(inbox[a], ListFrame(bcontent))}
        BY <2>1 DEF BSend, Deliver
      <3>3. OncePerPing(Append(inbox[a], ListFrame(bcontent)))
        BY <1>3, QueuePings
      <3>4. ToSet(Append(inbox[a], ListFrame(bcontent)))
               \subseteq ToSet(inbox[a]) \cup {ListFrame(bcontent)}
        BY <1>3, <3>1, QueueFrames
      <3>5. PingsIn(Append(inbox[a], ListFrame(bcontent))) \subseteq PingsIn(inbox[a])
        BY <3>1, <3>4 DEF PingsIn
      <3>6. QED
        BY <1>3, <3>2, <3>3, <3>5
    <2>2. CASE ~BSend
      BY <1>3, <2>2 DEF BroadcastNext, BRecv, BPost, BGet, BConnect, BSendFails,
                        clientVars
    <2>3. QED
      BY <2>1, <2>2
  <1>5. {} \in SUBSET Health
    OBVIOUS
  <1>6. QED
    BY <1>1, <1>2, <1>4, <1>5, ChecksKept DEF hVars

\* The steps of a health server: it opens a connection to the address it checks,
\* has one check out at a time, and withdraws it when it goes on.
LEMMA HealthChecks ==
    ASSUME TypeOK, CheckInv, NEW h \in Health, HealthNext(h)
    PROVE  CheckInv'
  <1> USE DEF TypeOK, ClientTypeOK
  <1>1. /\ \A k \in Health \ {h} : /\ link'[k] = link[k] /\ hpc'[k] = hpc[k]
                                   /\ Checked(k)' = Checked(k)
        /\ {h} \in SUBSET Health
    BY DEF HealthNext, HGet, HConnect, HSend, HSendFails, HPongOK, HPongFails,
           HPongCut, HExpel, NextNode, Connect, clientVars, Checked, Proc
  <1>2. \A a \in Addr : inbox[a] \in Seq(Frame) /\ OncePerPing(inbox[a])
    BY DEF CheckInv
  <1>12. ASSUME link'[h].state = "open" =>
                   hpc'[h] = "send" /\ link'[h].peer = Checked(h)'.ip_addr,
                link'[h].state = "sent" =>
                   /\ hpc'[h] \in {"recv", "expel"}
                   /\ link'[h].peer = Checked(h)'.ip_addr,
                \A a \in Addr :
                   /\ OncePerPing(inbox'[a])
                   /\ PingsIn(inbox'[a]) \subseteq PingsIn(inbox[a]) \cup {h}
                   /\ h \in PingsIn(inbox'[a]) =>
                         link'[h].state = "sent" /\ link'[h].peer = a
         PROVE  CheckInv'
    <2> DEFINE H == {h}
    <2>1. /\ H \in SUBSET Health
          /\ \A k \in Health \ H : /\ link'[k] = link[k] /\ hpc'[k] = hpc[k]
                                   /\ Checked(k)' = Checked(k)
          /\ \A k \in H : k = h
      BY <1>1
    <2>2. \A a \in Addr : /\ OncePerPing(inbox'[a])
                          /\ PingsIn(inbox'[a]) \subseteq PingsIn(inbox[a]) \cup H
      BY <1>12
    <2> HIDE DEF H
    <2>3. \A k \in H : /\ link'[k].state = "open" =>
                             hpc'[k] = "send" /\ link'[k].peer = Checked(k)'.ip_addr
                       /\ link'[k].state = "sent" =>
                             /\ hpc'[k] \in {"recv", "expel"}
                             /\ link'[k].peer = Checked(k)'.ip_addr
      <3>1. \A k \in H : k = h
        BY <2>1
      <3>2. QED
        BY <1>12, <3>1
    <2>4. \A a \in Addr : \A k \in H : k \in PingsIn(inbox'[a]) =>
             link'[k].state = "sent" /\ link'[k].peer = a
      <3>1. \A k \in H : k = h
        BY <2>1
      <3>2. QED
        BY <1>12, <3>1
    <2>5. QED
      BY <2>1, <2>2, <2>3, <2>4, ChecksKept
  <1>3. ASSUME UNCHANGED inbox, link[h].state # "sent",
               link'[h].state \in {"open", "sent"} =>
                  /\ link'[h].state = "open" /\ hpc'[h] = "send"
                  /\ link'[h].peer = Checked(h)'.ip_addr
        PROVE  CheckInv'
    <2>1. \A a \in Addr : h \notin PingsIn(inbox[a])
      BY <1>3 DEF CheckInv
    <2>2. QED
      BY <1>2, <1>3, <1>12, <2>1
  <1>4. CASE HGet(h)
    <2>1. UNCHANGED <<inbox, link>> /\ hpc[h] = "get"
      BY <1>4 DEF HGet, clientVars
    <2>2. link[h].state \notin {"open", "sent"}
      BY <2>1 DEF CheckInv
    <2>3. QED
      BY <1>3, <2>1, <2>2
  <1>5. CASE HConnect(h)
    <2>1. UNCHANGED inbox /\ hpc[h] = "connect" /\ Checked(h)' = Checked(h)
      BY <1>5 DEF HConnect, Checked
    <2>2. link[h].state \notin {"open", "sent"}
      BY <2>1 DEF CheckInv
    <2>3. \/ link' = link
          \/ /\ link'[h].state = "open" /\ link'[h].peer = Checked(h).ip_addr
             /\ hpc'[h] = "send"
      <3>1. CASE Connect(h, Checked(h).ip_addr) /\ hpc' = [hpc EXCEPT ![h] = "send"]
        BY <3>1 DEF Connect, NoLink, Proc
      <3>2. CASE UNCHANGED link
        BY <3>2
      <3>3. QED
        BY <1>5, <3>1, <3>2 DEF HConnect
    <2>4. QED
      BY <1>3, <2>1, <2>2, <2>3
  <1>6. CASE HSend(h)
    <2>1. /\ link[h].state = "open" /\ link[h] \in Link
          /\ hpc'[h] = "recv" /\ Checked(h)' = Checked(h)
      BY <1>6 DEF HSend, Proc, Checked
    <2>2. link'[h].state = "sent" /\ link'[h].peer = link[h].peer
      <3>1. link'[h] = [link[h] EXCEPT !.state = "sent"]
        BY <1>6 DEF HSend, Proc
      <3>2. QED
        BY <2>1, <3>1 DEF Link
    <2>3. link[h].peer = Checked(h).ip_addr
      BY <2>1 DEF CheckInv
    <2>4. ASSUME NEW a \in Addr
          PROVE  /\ OncePerPing(inbox'[a])
                 /\ PingsIn(inbox'[a]) \subseteq PingsIn(inbox[a]) \cup {h}
                 /\ h \in PingsIn(inbox'[a]) => a = link[h].peer
      <3>1. h \notin PingsIn(inbox[a])
        BY <2>1 DEF CheckInv
      <3>2. CASE a = Checked(h).ip_addr
        <4>1. inbox'[a] = Append(inbox[a], Ping(h))
          BY <1>6, <3>2 DEF HSend, Deliver
        <4>2. OncePerPing(Append(inbox[a], Ping(h)))
          BY <1>2, <3>1, QueuePings
        <4>3. ToSet(Append(inbox[a], Ping(h))) \subseteq ToSet(inbox[a]) \cup {Ping(h)}
          BY <1>2, FrameTypes, QueueFrames
        <4>4. PingsIn(Append(inbox[a], Ping(h))) \subseteq PingsIn(inbox[a]) \cup {h}
          BY <4>3 DEF PingsIn, Ping
        <4>5. QED
          BY <2>3, <3>2, <4>1, <4>2, <4>4
      <3>3. CASE a # Checked(h).ip_addr
        <4>1. inbox'[a] = inbox[a]
          BY <1>6, <3>3 DEF HSend, Deliver
        <4>2. QED
          BY <1>2, <3>1, <4>1
      <3>4. QED
        BY <3>2, <3>3
    <2>5. QED
      BY <1>12, <2>1, <2>2, <2>3, <2>4
  <1>7. CASE HSendFails(h)
    <2>1. UNCHANGED inbox /\ link[h].state = "broken"
      BY <1>7 DEF HSendFails
    <2>2. link'[h].state \in {"none", "broken"}
      BY <1>7, <2>1 DEF HSendFails, NoLink, Proc
    <2>3. QED
      BY <1>3, <2>1, <2>2
  <1>8. CASE HPongFails(h)
    <2>1. /\ UNCHANGED <<inbox, link>> /\ hpc[h] = "recv" /\ hpc'[h] = "expel"
          /\ Checked(h)' = Checked(h)
      BY <1>8 DEF HPongFails, clientVars, Checked
    <2>2. \A a \in Addr : h \in PingsIn(inbox[a]) =>
             link[h].state = "sent" /\ link[h].peer = a
      BY DEF CheckInv
    <2>3. /\ link[h].state # "open"
          /\ link[h].state = "sent" => link[h].peer = Checked(h).ip_addr
      BY <2>1 DEF CheckInv
    <2>4. QED
      BY <1>2, <1>12, <2>1, <2>2, <2>3
  <1>9. CASE HPongCut(h)
    <2>1. UNCHANGED <<inbox, link>> /\ link[h].state = "partial"
      BY <1>9 DEF HPongCut, clientVars
    <2>2. QED
      BY <1>3, <2>1
  <1>10. ASSUME NextNode(h)
         PROVE  CheckInv'
    <2>1. link'[h].state = "none"
      BY <1>10 DEF NextNode, NoLink, Proc
    <2>2. ASSUME NEW a \in Addr
          PROVE  /\ OncePerPing(inbox'[a])
                 /\ PingsIn(inbox'[a]) \subseteq PingsIn(inbox[a])
                 /\ h \notin PingsIn(inbox'[a])
      <3>1. inbox'[a] = ReplaceAll(inbox[a], Ping(h), LatePing)
        BY <1>10 DEF NextNode, ClosePing
      <3>2. /\ OncePerPing(ReplaceAll(inbox[a], Ping(h), LatePing))
            /\ h \notin PingsIn(ReplaceAll(inbox[a], Ping(h), LatePing))
        BY <1>2, QueuePings
      <3>3. ToSet(ReplaceAll(inbox[a], Ping(h), LatePing))
               \subseteq ToSet(inbox[a]) \cup {LatePing}
        BY <1>2, QueueFrames
      <3>4. \A k : Ping(k) # LatePing
        BY DEF Ping, LatePing
      <3>5. QED
        BY <3>1, <3>2, <3>3, <3>4 DEF PingsIn
    <2>3. QED
      BY <1>12, <2>1, <2>2
  <1>11. QED
    BY <1>4, <1>5, <1>6, <1>7, <1>8, <1>9, <1>10
       DEF HealthNext, HPongOK, HExpel

\* Every step keeps CheckInv.
LEMMA CheckStep ==
    ASSUME TypeOK, CheckInv, [Next]_vars
    PROVE  CheckInv'
  <1>1. CASE RestListen \/ UNCHANGED vars
    <2>1. UNCHANGED <<link, hpc, hnodes, hidx, inbox>>
      BY <1>1 DEF RestListen, vars, clientVars, serverVars, hVars
    <2>2. \A h : Checked(h)' = Checked(h)
      BY <2>1 DEF Checked
    <2>3. QED
      BY <2>1, <2>2 DEF CheckInv
  <1>2. QED
    BY <1>1, ClientChecks, BroadcastChecks, HealthChecks DEF Next

\* An answer settles the check it was sent for, on the address that is being
\* checked, however many health servers run (health_server.cc:65-88).
THEOREM AnswersTheCheck == Spec => []AnswersThisCheck
  <1>1. Init => CheckInv
    <2>1. ASSUME Init
          PROVE  CheckInv
      <3>1. \A a \in Addr : OncePerPing(inbox[a]) /\ PingsIn(inbox[a]) = {}
        BY <2>1 DEF Init, ClientInit, OncePerPing, PingsIn, ToSet
      <3>2. \A h \in Health : link[h].state = "none"
        BY <2>1 DEF Init, ClientInit, NoLink, Proc
      <3>3. QED
        BY <3>1, <3>2 DEF CheckInv
    <2>2. QED
      BY <2>1
  <1>2. TypeOK /\ CheckInv /\ [Next]_vars => CheckInv'
    BY CheckStep
  <1>3. TypeOK /\ CheckInv => AnswersThisCheck
    <2> SUFFICES ASSUME TypeOK, CheckInv,
                        NEW a \in Addr, NEW i \in DOMAIN inbox[a],
                        inbox[a][i].kind = "ping"
                 PROVE  LET h == inbox[a][i].by
                        IN /\ hpc[h] \in {"recv", "expel"}
                           /\ link[h].state = "sent"
                           /\ Checked(h).ip_addr = a
                           /\ \A j \in DOMAIN inbox[a] :
                                 inbox[a][j] = inbox[a][i] => i = j
      BY DEF AnswersThisCheck
    <2> DEFINE h == inbox[a][i].by
    <2>1. inbox[a][i] \in Frame /\ inbox[a][i] \in ToSet(inbox[a])
      BY LenProperties, ElementOfSeq DEF TypeOK, ClientTypeOK, ToSet
    <2>2. h \in Health /\ inbox[a][i] = Ping(h)
      BY <2>1, FrameKinds
    <2> HIDE DEF h
    <2>3. h \in PingsIn(inbox[a])
      BY <2>1, <2>2 DEF PingsIn
    <2>4. link[h].state = "sent" /\ link[h].peer = a
      BY <2>3 DEF CheckInv
    <2>5. hpc[h] \in {"recv", "expel"} /\ Checked(h).ip_addr = a
      BY <2>2, <2>4 DEF CheckInv
    <2>6. \A j \in DOMAIN inbox[a] : inbox[a][j] = inbox[a][i] => i = j
      BY DEF CheckInv, OncePerPing
    <2>7. QED
      BY <2>4, <2>5, <2>6 DEF h
  <1>4. QED
    BY <1>1, <1>2, <1>3, TypeCorrect, PTL DEF Spec
=============================================================================
