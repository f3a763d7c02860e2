----------------------------- MODULE RestProofs -----------------------------
(***************************************************************************)
(* Proofs about the way of a request to the REST server, for any number of *)
(* callers, ids and addresses: the types, and that the detailed interface  *)
(* implements the atomic one.                                              *)
(***************************************************************************)
EXTENDS Rest, NodeManageProofs

\* A request is one of the three.
LEMMA RequestKinds ==
    ASSUME NEW r \in Request
    PROVE  \/ r = Get
           \/ r.op = "post" /\ r.node \in Entry
           \/ r.op = "delete" /\ r.github_id \in Name
  BY DEF Request, Get, Post, Delete

\* A queue of connections from which one is accepted, or which one joins.
LEMMA QueueOfClients ==
    ASSUME NEW s \in Seq(Client), IsInjective(s)
    PROVE  /\ s # <<>> => /\ Head(s) \in Client /\ Head(s) \in ToSet(s)
                          /\ Tail(s) \in Seq(Client) /\ IsInjective(Tail(s))
                          /\ ToSet(Tail(s)) \subseteq ToSet(s) \ {Head(s)}
           /\ \A c \in Client \ ToSet(s) :
                 /\ Append(s, c) \in Seq(Client) /\ IsInjective(Append(s, c))
                 /\ ToSet(Append(s, c)) \subseteq ToSet(s) \cup {c}
  <1>1. Len(s) \in Nat /\ DOMAIN s = 1 .. Len(s)
    BY LenProperties
  <1>2. ASSUME s # <<>>
        PROVE  /\ Head(s) \in Client /\ Head(s) \in ToSet(s)
               /\ Tail(s) \in Seq(Client) /\ IsInjective(Tail(s))
               /\ ToSet(Tail(s)) \subseteq ToSet(s) \ {Head(s)}
    <2>1. /\ Head(s) \in Client /\ Head(s) = s[1]
          /\ Tail(s) \in Seq(Client) /\ Len(Tail(s)) = Len(s) - 1 /\ Len(s) > 0
      BY <1>1, <1>2, HeadTailProperties, EmptySeq
    <2>2. /\ DOMAIN Tail(s) = 1 .. Len(s) - 1
          /\ \A i \in 1 .. Len(s) - 1 : Tail(s)[i] = s[i + 1]
      BY <1>2, <2>1, HeadTailProperties, LenProperties
    <2>3. IsInjective(Tail(s))
      BY <1>1, <2>1, <2>2 DEF IsInjective
    <2>4. \A i \in 1 .. Len(s) - 1 : s[i + 1] # s[1] /\ i + 1 \in 1 .. Len(s)
      BY <1>1, <2>1 DEF IsInjective
    <2>5. QED
      BY <1>1, <2>1, <2>2, <2>3, <2>4 DEF ToSet
  <1>3. ASSUME NEW c \in Client \ ToSet(s)
        PROVE  /\ Append(s, c) \in Seq(Client) /\ IsInjective(Append(s, c))
               /\ ToSet(Append(s, c)) \subseteq ToSet(s) \cup {c}
    <2> DEFINE t == Append(s, c)
    <2>1. /\ t \in Seq(Client)
          /\ Len(t) = Len(s) + 1
          /\ \A i \in 1 .. Len(s) : t[i] = s[i]
          /\ t[Len(s) + 1] = c
      BY AppendProperties
    <2>2. DOMAIN t = 1 .. Len(s) + 1
      BY <2>1, LenProperties
    <2>3. \A i \in 1 .. Len(s) : s[i] # c
      BY <1>1 DEF ToSet
    <2> HIDE DEF t
    <2>4. IsInjective(t)
      BY <1>1, <2>1, <2>2, <2>3 DEF IsInjective
    <2>5. ToSet(t) \subseteq ToSet(s) \cup {c}
      BY <1>1, <2>1, <2>2 DEF ToSet
    <2>6. QED
      BY <2>1, <2>4, <2>5 DEF t
  <1>4. QED
    BY <1>2, <1>3

-----------------------------------------------------------------------------
(* Types.                                                                  *)

\* A connection carries a request only of a caller that waits or has ended; one
\* that is queued or served was made by a call that has not returned; and an
\* answer is never for a caller that has not sent its request.
CallInv ==
    /\ \A c \in Client : sent[c] => caller[c] \in {"wait", "ended"}
    /\ ~Down => /\ \A c \in ToSet(queue) : caller[c] # "idle"
                /\ serving # NoClient => caller[serving] # "idle"
    /\ rest \in {"reply", "cut"} =>
          serving # NoClient /\ caller[serving] # "send"

\* What a request does to the directory leaves a list in which no id is twice.
LEMMA HandleTypes ==
    ASSUME TypeOK, Handle
    PROVE  /\ node_list' \in Seq(Entry) /\ UniqueIds(node_list')
           /\ answer' \in AnswerType
  <1> DEFINE r == request[serving]
  <1>1. serving \in Client /\ r \in Request
    BY DEF TypeOK, Handle, Down
  <1>2. node_list \in Seq(Entry) /\ UniqueIds(node_list) /\ <<>> \in Seq(Entry)
    BY EmptySeq DEF TypeOK
  <1>3. node_list' = IF ~Valid(r) THEN node_list
                     ELSE CASE r.op = "get"    -> node_list
                            [] r.op = "post"   -> add_user(node_list, r.node.github_id,
                                                           r.node.ip_addr)
                            [] r.op = "delete" -> delete_user(node_list, r.github_id)
    BY DEF Handle
  <1>4. answer' = Answer(Valid(r), IF r = Get THEN node_list ELSE <<>>)
    BY DEF Handle
  <1> HIDE DEF r
  <1>5. Valid(r) \in BOOLEAN
    <2>1. CASE r = Get
      BY <2>1 DEF Valid, Get
    <2>2. CASE r.op = "post"
      BY <2>2 DEF Valid
    <2>3. CASE r.op = "delete"
      BY <2>3 DEF Valid
    <2>4. QED
      BY <1>1, <2>1, <2>2, <2>3, RequestKinds
  <1>6. answer' \in AnswerType
    BY <1>2, <1>4, <1>5 DEF Answer, AnswerType
  <1>7. CASE ~Valid(r) \/ r = Get
    BY <1>2, <1>3, <1>6, <1>7 DEF Get
  <1>8. CASE Valid(r) /\ r.op = "post" /\ r.node \in Entry
    <2>1. node_list' = add_user(node_list, r.node.github_id, r.node.ip_addr)
      BY <1>3, <1>8
    <2>2. Node(r.node.github_id, r.node.ip_addr) \in Entry
      BY <1>8 DEF Node, Entry
    <2>3. QED
      BY <1>2, <1>6, <2>1, <2>2, AddUser
  <1>9. CASE Valid(r) /\ r.op = "delete"
    BY <1>2, <1>3, <1>6, <1>9, DeleteUser
  <1>10. QED
    BY <1>1, <1>7, <1>8, <1>9, RequestKinds

\* The steps of the callers keep the types.
LEMMA CallerTypes ==
    ASSUME TypeOK, CallInv, NEW c \in Client,
           \/ \E r \in Request : Refused(c, r) \/ Connect(c, r)
           \/ Send(c) \/ Breaks(c) \/ CallerEnds(c)
    PROVE  TypeOK' /\ CallInv'
  <1> USE DEF TypeOK, CallInv, Down, restVars
  <1>1. Failed \in AnswerType
    BY EmptySeq DEF Failed, Answer, AnswerType
  <1>2. ASSUME NEW r \in Request, Refused(c, r)
        PROVE  TypeOK' /\ CallInv'
    BY <1>1, <1>2 DEF Refused
  <1>3. ASSUME NEW r \in Request, Connect(c, r)
        PROVE  TypeOK' /\ CallInv'
    <2>1. c \notin ToSet(queue) /\ serving # c
      BY <1>3, RestAssumption DEF Connect
    <2>2. /\ queue' \in Seq(Client) /\ IsInjective(queue')
          /\ ToSet(queue') \subseteq ToSet(queue) \cup {c}
      BY <1>3, <2>1, QueueOfClients DEF Connect
    <2>3. QED
      BY <1>1, <1>3, <2>1, <2>2 DEF Connect
  <1>4. CASE Send(c)
    BY <1>4 DEF Send
  <1>5. CASE Breaks(c)
    <2>1. result' \in [Client -> AnswerType]
      <3>1. ASSUME NEW n \in 0 .. Len(answer.list)
            PROVE  Answer(TRUE, SubSeq(answer.list, 1, n)) \in AnswerType
        <4>1. answer.list \in Seq(Entry) /\ Len(answer.list) \in Nat
          BY LenProperties DEF AnswerType
        <4>2. \A i \in 1 .. n : answer.list[i] \in Entry
          BY <4>1, ElementOfSeq
        <4>3. SubSeq(answer.list, 1, n) \in Seq(Entry)
          BY <4>1, <4>2, SubSeqProperties
        <4>4. QED
          BY <4>3 DEF Answer, AnswerType
      <3>2. QED
        BY <1>1, <1>5, <3>1 DEF Breaks
    <2>2. QED
      BY <1>5, <2>1 DEF Breaks
  <1>6. CASE CallerEnds(c)
    BY <1>6 DEF CallerEnds
  <1>7. QED
    BY <1>2, <1>3, <1>4, <1>5, <1>6

\* The steps of the REST process keep the types too.
LEMMA RestTypes ==
    ASSUME TypeOK, CallInv, Listen \/ Serve \/ RestDies
    PROVE  TypeOK' /\ CallInv'
  <1> USE DEF TypeOK, CallInv, Down
  <1>1. CASE Listen
    BY <1>1 DEF Listen
  <1>2. CASE Accept
    <2>1. /\ serving' \in Client /\ serving' \in ToSet(queue)
          /\ queue' \in Seq(Client) /\ IsInjective(queue')
          /\ ToSet(queue') \subseteq ToSet(queue) \ {serving'}
      BY <1>2, QueueOfClients DEF Accept
    <2>2. QED
      BY <1>2, <2>1, RestAssumption DEF Accept
  <1>3. CASE Handle
    BY <1>3, HandleTypes DEF Handle
  <1>4. CASE HandleNothing
    BY <1>4, EmptySeq DEF HandleNothing, Failed, Answer, AnswerType
  <1>5. CASE Reply
    <2>1. serving \in Client /\ serving \notin ToSet(queue)
      BY <1>5 DEF Reply
    <2>2. answer' \in AnswerType
      BY <1>5, EmptySeq DEF Reply, Failed, Answer, AnswerType
    <2>3. /\ result' \in [Client -> AnswerType]
          /\ caller' \in [Client -> {"idle", "send", "wait", "ended"}]
          /\ sent' \in [Client -> BOOLEAN]
      BY <1>5, <2>1 DEF Reply
    <2>4. \A c \in Client \ {serving} : caller'[c] = caller[c] /\ sent'[c] = sent[c]
      BY <1>5 DEF Reply
    <2>5. ~sent'[serving]
      BY <1>5, <2>1 DEF Reply
    <2>6. ToSet(queue) \subseteq Client
      BY LenProperties, ElementOfSeq DEF ToSet
    <2>7. NoClient \notin ToSet(queue)
      BY <2>6, RestAssumption
    <2>8. QED
      BY <1>5, <2>1, <2>2, <2>3, <2>4, <2>5, <2>6, <2>7 DEF Reply
  <1>6. CASE RestDies
    BY <1>6 DEF RestDies
  <1>7. QED
    BY <1>1, <1>2, <1>3, <1>4, <1>5, <1>6 DEF Serve

\* Types and CallInv hold throughout.
THEOREM RestTypeCorrect == Spec => [](TypeOK /\ CallInv)
  <1>1. Init => TypeOK /\ CallInv
    <2>1. <<>> \in Seq(Entry) /\ <<>> \in Seq(Client) /\ ToSet(<<>>) = {}
          /\ UniqueIds(<<>>) /\ IsInjective(<<>>)
      BY EmptySeq DEF ToSet, UniqueIds, IsInjective
    <2>2. Failed \in AnswerType /\ Get \in Request
      BY <2>1 DEF Failed, Answer, AnswerType, Get, Request
    <2>3. QED
      BY <2>1, <2>2 DEF Init, TypeOK, CallInv, Down
  <1>2. TypeOK /\ CallInv /\ [Next]_vars => (TypeOK /\ CallInv)'
    <2>1. CASE UNCHANGED vars
      BY <2>1 DEF vars, restVars, TypeOK, CallInv, Down
    <2>2. QED
      BY <2>1, CallerTypes, RestTypes DEF Next
  <1>3. QED
    BY <1>1, <1>2, PTL DEF Spec

-----------------------------------------------------------------------------
(* The interface is atomic.                                                *)

\* The refinement mapping, part by part.
AServer == IF rest = "off" THEN "starting" ELSE IF Down THEN "gone" ELSE "up"
AResult(c) == [ok |-> Told(c).ok, entries |-> Entries(Told(c).list)]

\* A step that only concerns the call of c, if any, is a step of AtomicRest if
\* what it does to that call is.
LEMMA OthersWait ==
    ASSUME NEW c \in Client,
           \A d \in Client \ {c} : State(d)' = State(d) /\ Told(d)' = Told(d)
    PROVE  /\ [d \in Client |-> State(d)]' =
                [[d \in Client |-> State(d)] EXCEPT ![c] = State(c)']
           /\ [d \in Client |-> AResult(d)]' =
                [[d \in Client |-> AResult(d)] EXCEPT ![c] = AResult(c)']
  <1>1. \A d \in Client \ {c} : AResult(d)' = AResult(d)
    BY DEF AResult
  <1>2. QED
    BY <1>1

\* The requests are those of AtomicRest.
LEMMA SameRequests == Request \subseteq Atomic!Request
  BY DEF Request, Get, Post, Delete, Entry, Atomic!Request, Atomic!Entry

\* What a caller is told of the empty list is nothing.
LEMMA ToldNothing ==
    /\ Entries(<<>>) = {}
    /\ [ok |-> Failed.ok, entries |-> Entries(Failed.list)] = Atomic!Failed
  <1>1. Entries(<<>>) = {}
    BY EmptySeq DEF Entries, ToSet
  <1>2. Failed.ok = FALSE /\ Failed.list = <<>>
    BY DEF Failed, Answer
  <1>3. QED
    BY <1>1, <1>2 DEF Atomic!Failed

\* An answer cut short has some of the entries of the whole one.
LEMMA StartOfList ==
    ASSUME NEW s \in Seq(Entry), NEW n \in 0 .. Len(s)
    PROVE  Entries(SubSeq(s, 1, n)) \subseteq Entries(s)
  <1>1. Len(s) \in Nat /\ DOMAIN s = 1 .. Len(s)
    BY LenProperties
  <1>2. \A i \in 1 .. n : s[i] \in Entry
    BY <1>1, ElementOfSeq
  <1>3. /\ SubSeq(s, 1, n) \in Seq(Entry) /\ Len(SubSeq(s, 1, n)) = n
        /\ \A i \in 1 .. n : SubSeq(s, 1, n)[i] = s[i]
    BY <1>1, <1>2, SubSeqProperties
  <1>4. DOMAIN SubSeq(s, 1, n) = 1 .. n
    BY <1>3, LenProperties
  <1>5. QED
    BY <1>1, <1>3, <1>4 DEF Entries, ToSet

\* The parts of AtomicRest's state that a caller's step leaves alone.
LEMMA ServerKept ==
    ASSUME UNCHANGED <<rest, node_list>>
    PROVE  AServer' = AServer /\ Entries(node_list)' = Entries(node_list)
  BY DEF AServer, Down

\* The steps of a caller are steps of AtomicRest: a refusal, a call, the end of a
\* call without the server, the end of the caller; to send is not seen.
LEMMA CallerSteps ==
    ASSUME TypeOK, CallInv, NEW c \in Client,
           \/ \E r \in Request : Refused(c, r) \/ Connect(c, r)
           \/ Send(c) \/ Breaks(c) \/ CallerEnds(c)
    PROVE  [Atomic!Next]_(Atomic!vars)
  <1> DEFINE st  == [d \in Client |-> State(d)]
             res == [d \in Client |-> AResult(d)]
  <1>1. UNCHANGED <<rest, node_list, serving, answer>>
    BY DEF Refused, Connect, Send, Breaks, CallerEnds, restVars
  <1>2. AServer' = AServer /\ Entries(node_list)' = Entries(node_list)
    BY <1>1, ServerKept
  <1>3. \A d \in Client \ {c} : /\ caller'[d] = caller[d] /\ sent'[d] = sent[d]
                                /\ result'[d] = result[d]
    BY DEF Refused, Connect, Send, Breaks, CallerEnds, TypeOK
  <1>4. \A d \in Client \ {c} : State(d)' = State(d) /\ Told(d)' = Told(d)
    BY <1>1, <1>3 DEF State, Told, Handled
  <1>5. /\ st' = [st EXCEPT ![c] = State(c)']
        /\ res' = [res EXCEPT ![c] = AResult(c)']
    BY <1>4, OthersWait
  <1>6. Handled(c)' <=> Handled(c)
    BY <1>1 DEF Handled
  <1> HIDE DEF st, res
  <1>7. st[c] = State(c) /\ res[c] = AResult(c)
    BY DEF st, res
  <1>8. ASSUME NEW r \in Request, Refused(c, r)
        PROVE  Atomic!Refused(c, r)
    <2>1. /\ caller[c] = "idle" /\ caller' = caller /\ sent' = sent
          /\ AServer # "up" /\ result'[c] = Failed
          /\ request' = [request EXCEPT ![c] = r]
      BY <1>8 DEF Refused, AServer, restVars, TypeOK
    <2>2. State(c) = "idle" /\ State(c)' = "idle" /\ Told(c)' = Failed
      BY <2>1 DEF State, Told
    <2>3. st' = st
      BY <1>5, <1>7, <2>2 DEF st
    <2>4. AResult(c)' = Atomic!Failed
      BY <2>2, ToldNothing DEF AResult
    <2>5. QED
      BY <1>2, <1>5, <1>7, <2>1, <2>2, <2>3, <2>4 DEF Atomic!Refused, AServer, st, res, AResult
  <1>9. ASSUME NEW r \in Request, Connect(c, r)
        PROVE  Atomic!Call(c, r)
    <2>1. /\ caller[c] = "idle" /\ caller'[c] = "send"
          /\ result'[c] = Failed
          /\ request' = [request EXCEPT ![c] = r]
      BY <1>9 DEF Connect, TypeOK
    <2>2. State(c) = "idle" /\ State(c)' = "called" /\ Told(c)' = Failed
      BY <2>1 DEF State, Told
    <2>3. AResult(c)' = Atomic!Failed
      BY <2>2, ToldNothing DEF AResult
    <2>4. QED
      BY <1>2, <1>5, <1>7, <2>1, <2>2, <2>3 DEF Atomic!Call, AServer, st, res, AResult
  <1>10. CASE Send(c)
    <2>1. /\ caller[c] = "send" /\ caller'[c] = "wait" /\ ~Handled(c)
          /\ result' = result /\ request' = request
      BY <1>10 DEF Send, restVars, TypeOK, CallInv, Handled
    <2>2. State(c)' = State(c) /\ Told(c)' = Told(c)
      BY <1>6, <2>1 DEF State, Told
    <2>3. st' = st /\ res' = res
      BY <1>5, <1>7, <2>2 DEF st, res, AResult
    <2>4. QED
      BY <1>2, <2>1, <2>3 DEF Atomic!vars, AServer, st, res, AResult
  <1>11. CASE Breaks(c)
    <2>1. /\ caller[c] \in {"send", "wait"} /\ caller'[c] = "idle"
          /\ AServer = "gone" /\ request' = request
      BY <1>11 DEF Breaks, restVars, AServer, Down, TypeOK
    <2>2. State(c) \in {"called", "done"} /\ State(c)' = "idle"
          /\ Told(c)' = result'[c]
      BY <2>1 DEF State, Told
    <2>3. \/ AResult(c)' = Atomic!Failed
          \/ /\ State(c) = "done"
             /\ \E S \in SUBSET AResult(c).entries :
                   AResult(c)' = [ok |-> TRUE, entries |-> S]
      <3>1. CASE result' = [result EXCEPT ![c] = Failed]
        <4>1. Told(c)' = Failed
          BY <2>2, <3>1 DEF TypeOK
        <4>2. QED
          BY <4>1, ToldNothing DEF AResult
      <3>2. ASSUME rest = "cut" /\ serving = c, NEW n \in 0 .. Len(answer.list),
                   result' = [result EXCEPT ![c] =
                                 Answer(TRUE, SubSeq(answer.list, 1, n))]
            PROVE  /\ State(c) = "done"
                   /\ \E S \in SUBSET AResult(c).entries :
                         AResult(c)' = [ok |-> TRUE, entries |-> S]
        <4>1. Handled(c) /\ caller[c] = "wait"
          BY <2>1, <3>2 DEF Handled, CallInv
        <4>2. State(c) = "done" /\ AResult(c).entries = Entries(answer.list)
          BY <4>1 DEF State, Told, AResult
        <4>3. AResult(c)' = [ok |-> TRUE,
                             entries |-> Entries(SubSeq(answer.list, 1, n))]
          <5>1. Told(c)' = Answer(TRUE, SubSeq(answer.list, 1, n))
            BY <2>2, <3>2 DEF TypeOK
          <5>2. QED
            BY <5>1 DEF AResult, Answer
        <4>4. answer.list \in Seq(Entry)
          BY DEF TypeOK, AnswerType
        <4>5. Entries(SubSeq(answer.list, 1, n)) \subseteq Entries(answer.list)
          BY <4>4, StartOfList
        <4>6. QED
          BY <4>2, <4>3, <4>5
      <3>3. QED
        BY <1>11, <3>1, <3>2 DEF Breaks
    <2>4. /\ st[c] \in {"called", "done"} /\ st' = [st EXCEPT ![c] = "idle"]
          /\ \/ res' = [res EXCEPT ![c] = Atomic!Failed]
             \/ /\ st[c] = "done"
                /\ \E S \in SUBSET res[c].entries :
                      res' = [res EXCEPT ![c] = [ok |-> TRUE, entries |-> S]]
      BY <1>5, <1>7, <2>2, <2>3
    <2>5. Atomic!Breaks(c)
      BY <1>2, <2>1, <2>4 DEF Atomic!Breaks, AServer, st, res, AResult
    <2>6. QED
      BY <2>5 DEF Atomic!Next
  <1>12. CASE CallerEnds(c)
    <2>1. /\ caller[c] # "ended" /\ caller'[c] = "ended"
          /\ sent'[c] = sent[c] /\ request' = request
          /\ sent[c] => caller[c] \in {"wait", "ended"}
      BY <1>12 DEF CallerEnds, restVars, TypeOK, CallInv
    <2>2. AResult(c)' = Atomic!Failed
      <3>1. Told(c)' = Failed
        BY <2>1 DEF Told
      <3>2. QED
        BY <3>1, ToldNothing DEF AResult
    <2>3. \/ State(c) = "called" /\ State(c)' = "orphan"
          \/ State(c)' = "ended"
      <3>1. caller[c] \in {"idle", "send", "wait", "ended"}
        BY DEF TypeOK
      <3>2. QED
        BY <1>6, <2>1, <3>1 DEF State
    <2>4. Atomic!Ends(c)
      BY <1>2, <1>5, <1>7, <2>1, <2>2, <2>3 DEF Atomic!Ends, AServer, st, res, AResult
    <2>5. QED
      BY <2>4 DEF Atomic!Next
  <1>13. QED
    BY <1>8, <1>9, <1>10, <1>11, <1>12, SameRequests DEF Atomic!Next

\* A request handled is what AtomicRest does at one moment.
LEMMA HandleEffect ==
    ASSUME TypeOK, Handle
    PROVE  /\ request[serving] \in Request
           /\ Valid(request[serving]) \in BOOLEAN
           /\ Atomic!Effect(request[serving], Valid(request[serving]))
           /\ answer'.ok = Valid(request[serving])
           /\ Entries(answer'.list) = IF request[serving].op = "get"
                                      THEN Entries(node_list) ELSE {}
  <1> DEFINE r == request[serving]
  <1>1. serving \in Client /\ r \in Request
    BY DEF TypeOK, Handle, Down
  <1>2. node_list \in Seq(Entry) /\ UniqueIds(node_list)
    BY DEF TypeOK
  <1>3. node_list' = IF ~Valid(r) THEN node_list
                     ELSE CASE r.op = "get"    -> node_list
                            [] r.op = "post"   -> add_user(node_list, r.node.github_id,
                                                           r.node.ip_addr)
                            [] r.op = "delete" -> delete_user(node_list, r.github_id)
    BY DEF Handle
  <1>4. answer' = Answer(Valid(r), IF r = Get THEN node_list ELSE <<>>)
    BY DEF Handle
  <1>5. (r = Get) <=> (r.op = "get")
    <2>1. r \in Request
      BY <1>1
    <2> HIDE DEF r
    <2>2. QED
      BY <2>1 DEF Request, Get, Post, Delete
  <1> HIDE DEF r
  <1>6. /\ answer'.ok = Valid(r)
        /\ Entries(answer'.list) = IF r.op = "get" THEN Entries(node_list) ELSE {}
    BY <1>4, <1>5, ToldNothing DEF Answer
  <1>7. CASE r = Get
    <2>1. r.op = "get" /\ Valid(r) = TRUE
      BY <1>7 DEF Valid, Get
    <2>2. node_list' = node_list
      BY <1>3, <2>1
    <2>3. Atomic!Effect(r, Valid(r))
      BY <2>1, <2>2 DEF Atomic!Effect
    <2>4. QED
      BY <1>1, <1>6, <2>1, <2>3 DEF r
  <1>8. CASE r.op = "post" /\ r.node \in Entry
    <2> DEFINE g  == r.node.github_id
               ip == r.node.ip_addr
    <2>1. Valid(r) = (g \in ValidName)
      BY <1>8 DEF Valid
    <2>2. Node(g, ip) = r.node /\ Node(g, ip) \in Entry
      BY <1>8 DEF Node, Entry
    <2>3. node_list' = IF g \in ValidName THEN add_user(node_list, g, ip) ELSE node_list
      BY <1>3, <1>8, <2>1
    <2>4. Entries(add_user(node_list, g, ip)) =
             IF \E e \in Entries(node_list) : e.github_id = g
             THEN Entries(node_list) ELSE Entries(node_list) \cup {Node(g, ip)}
      <3> HIDE DEF g, ip
      <3>1. QED
        BY <1>2, <2>2, AddUser
    <2>5. Entries(node_list)' =
             IF g \in ValidName /\ \A d \in Entries(node_list) : d.github_id # g
             THEN Entries(node_list) \cup {r.node} ELSE Entries(node_list)
      BY <2>2, <2>3, <2>4
    <2>6. Atomic!Effect(r, Valid(r))
      BY <1>8, <2>1, <2>5 DEF Atomic!Effect
    <2>7. QED
      BY <1>1, <1>6, <2>1, <2>6 DEF r
  <1>9. CASE r.op = "delete"
    <2>1. Valid(r) = (r.github_id \in ValidName)
      BY <1>9 DEF Valid
    <2>2. node_list' = IF r.github_id \in ValidName
                       THEN delete_user(node_list, r.github_id) ELSE node_list
      BY <1>3, <1>9, <2>1
    <2>3. Entries(delete_user(node_list, r.github_id)) =
             {d \in Entries(node_list) : d.github_id # r.github_id}
      BY <1>2, DeleteUser
    <2>4. Entries(node_list)' =
             IF r.github_id \in ValidName
             THEN {d \in Entries(node_list) : d.github_id # r.github_id}
             ELSE Entries(node_list)
      BY <2>2, <2>3
    <2>5. Atomic!Effect(r, Valid(r))
      BY <1>9, <2>1, <2>4 DEF Atomic!Effect
    <2>6. QED
      BY <1>1, <1>6, <2>1, <2>5 DEF r
  <1>10. QED
    BY <1>1, <1>7, <1>8, <1>9, RequestKinds

\* The steps of the REST process are steps of AtomicRest: it comes up, a request
\* takes effect, its caller is told, it goes; to accept is not seen.
LEMMA RestSteps ==
    ASSUME TypeOK, CallInv, Listen \/ Serve \/ RestDies
    PROVE  [Atomic!Next]_(Atomic!vars)
  <1> DEFINE st  == [d \in Client |-> State(d)]
             res == [d \in Client |-> AResult(d)]
  <1>1. CASE Listen \/ Accept \/ RestDies
    <2>1. UNCHANGED <<node_list, request, caller, sent, result>>
      BY <1>1 DEF Listen, Accept, RestDies
    <2>2. \A d \in Client : Handled(d)' = Handled(d) /\ (Handled(d) => answer' = answer)
      BY <1>1 DEF Listen, Accept, RestDies, Handled, Down
    <2>3. \A d \in Client : State(d)' = State(d) /\ Told(d)' = Told(d)
      BY <2>1, <2>2 DEF State, Told
    <2>4. st' = st /\ res' = res
      BY <2>3 DEF AResult
    <2> HIDE DEF st, res
    <2>5. \/ AServer = "starting" /\ AServer' = "up"
          \/ AServer = "up" /\ AServer' = "gone"
          \/ AServer' = AServer
      BY <1>1 DEF Listen, Accept, RestDies, AServer, Down
    <2>6. QED
      BY <2>1, <2>4, <2>5 DEF Atomic!Next, Atomic!Server, Atomic!vars, AServer, st, res, AResult
  <1>2. CASE Handle
    <2>0. PICK h \in Client : h = serving
      BY <1>2 DEF Handle, TypeOK, Down
    <2>1. /\ h = serving /\ h = serving' /\ ~Handled(h) /\ sent[h] /\ caller[h] \in {"wait", "ended"}
          /\ UNCHANGED <<serving, request, caller, sent, result>>
          /\ rest = "read" /\ rest' = "reply"
      BY <1>2, <2>0 DEF Handle, TypeOK, CallInv, Handled
    <2>2. Handled(h)'
      BY <2>1 DEF Handled
    <2>3. \A d \in Client \ {h} : State(d)' = State(d) /\ Told(d)' = Told(d)
      <3>1. \A d \in Client \ {h} : ~Handled(d) /\ ~Handled(d)'
        BY <2>1 DEF Handled
      <3>2. QED
        BY <2>1, <3>1 DEF State, Told
    <2>4. /\ st' = [st EXCEPT ![h] = State(h)']
          /\ res' = [res EXCEPT ![h] = AResult(h)']
      BY <2>1, <2>3, OthersWait
    <2>5. st[h] = State(h) /\ res[h] = AResult(h)
      BY <2>1
    <2>6. AServer = "up" /\ AServer' = AServer
      BY <2>1 DEF AServer, Down
    <2> DEFINE r  == request[h]
               ok == Valid(r)
    <2>7. /\ ok \in BOOLEAN /\ Atomic!Effect(r, ok) /\ answer'.ok = ok
          /\ Entries(answer'.list) = IF r.op = "get" THEN Entries(node_list) ELSE {}
      BY <1>2, <2>1, HandleEffect
    <2> HIDE DEF st, res, ok
    <2>8. CASE caller[h] = "wait"
      <3>1. State(h) = "called" /\ State(h)' = "done" /\ Told(h)' = answer'
        BY <2>1, <2>2, <2>8 DEF State, Told
      <3>2. AResult(h)' = [ok |-> ok, entries |-> IF r.op = "get"
                                                  THEN Entries(node_list) ELSE {}]
        BY <2>7, <3>1 DEF AResult
      <3>3. Atomic!TakesEffect(h)
        BY <2>1, <2>4, <2>5, <2>6, <2>7, <3>1, <3>2
        DEF Atomic!TakesEffect, AServer, st, res, AResult
      <3>4. QED
        BY <3>3 DEF Atomic!Next
    <2>9. CASE caller[h] = "ended"
      <3>1. State(h) = "orphan" /\ State(h)' = "ended" /\ Told(h)' = Told(h)
        BY <2>1, <2>2, <2>9 DEF State, Told
      <3>2. res' = res
        BY <2>1, <2>4, <2>5, <3>1 DEF res, AResult
      <3>3. Atomic!TakesEffect(h)
        BY <2>1, <2>4, <2>5, <2>6, <2>7, <3>1, <3>2
        DEF Atomic!TakesEffect, AServer, st, res, AResult
      <3>4. QED
        BY <3>3 DEF Atomic!Next
    <2>10. QED
      BY <2>1, <2>8, <2>9
  <1>3. CASE HandleNothing
    <2>1. /\ rest = "read" /\ rest' = "reply" /\ ~sent[serving] /\ caller[serving] = "ended"
          /\ UNCHANGED <<node_list, serving, request, caller, sent, result>>
      BY <1>3 DEF HandleNothing
    <2>2. \A d \in Client : ~Handled(d) /\ (Handled(d)' => d = serving)
      BY <2>1 DEF Handled
    <2>3. \A d \in Client : State(d)' = State(d) /\ Told(d)' = Told(d)
      BY <2>1, <2>2 DEF State, Told
    <2>4. st' = st /\ res' = res
      BY <2>3 DEF AResult
    <2>5. AServer' = AServer
      BY <2>1 DEF AServer, Down
    <2> HIDE DEF st, res
    <2>6. QED
      BY <2>1, <2>4, <2>5 DEF Atomic!vars, AServer, st, res, AResult
  <1>4. CASE Reply
    <2>0. PICK h \in Client : h = serving
      BY <1>4 DEF Reply, TypeOK, Down
    <2>1. /\ h = serving /\ rest = "reply" /\ rest' = "accept"
          /\ caller[h] \in {"wait", "ended"} /\ Handled(h) /\ ~sent'[h]
          /\ caller'[h] = IF caller[h] = "wait" THEN "idle" ELSE caller[h]
          /\ result'[h] = IF caller[h] = "wait" THEN answer ELSE result[h]
          /\ UNCHANGED <<node_list, request>>
      BY <1>4, <2>0 DEF Reply, TypeOK, CallInv, Down, Handled
    <2>2. \A d \in Client \ {h} : /\ caller'[d] = caller[d] /\ sent'[d] = sent[d]
                                  /\ result'[d] = result[d]
                                  /\ ~Handled(d) /\ ~Handled(d)'
      BY <1>4, <2>1 DEF Reply, TypeOK, Handled
    <2>3. \A d \in Client \ {h} : State(d)' = State(d) /\ Told(d)' = Told(d)
      BY <2>2 DEF State, Told
    <2>4. /\ st' = [st EXCEPT ![h] = State(h)']
          /\ res' = [res EXCEPT ![h] = AResult(h)']
      BY <2>3, OthersWait
    <2>5. st[h] = State(h) /\ res[h] = AResult(h)
      OBVIOUS
    <2>6. AServer' = AServer
      BY <2>1 DEF AServer, Down
    <2> HIDE DEF st, res
    <2>7. Told(h)' = Told(h)
      BY <2>1 DEF Told
    <2>8. res' = res
      BY <2>4, <2>5, <2>7 DEF res, AResult
    <2>9. CASE caller[h] = "wait"
      <3>1. State(h) = "done" /\ State(h)' = "idle"
        BY <2>1, <2>9 DEF State
      <3>2. Atomic!Returns(h)
        BY <2>1, <2>4, <2>5, <2>6, <2>8, <3>1
        DEF Atomic!Returns, AServer, st, res, AResult
      <3>3. QED
        BY <3>2 DEF Atomic!Next
    <2>10. CASE caller[h] = "ended"
      <3>1. State(h) = "ended" /\ State(h)' = "ended"
        BY <2>1, <2>10 DEF State
      <3>2. st' = st
        BY <2>4, <2>5, <3>1 DEF st
      <3>3. QED
        BY <2>1, <2>6, <2>8, <3>2 DEF Atomic!vars, AServer, st, res, AResult
    <2>11. QED
      BY <2>1, <2>9, <2>10
  <1>5. QED
    BY <1>1, <1>2, <1>3, <1>4 DEF Serve

\* The REST interface is atomic: each request takes effect at one moment, at most
\* once and while its caller waits or has ended, and what a caller is told is what
\* happened then (rest_server.cc, http_client.cc).
THEOREM ImplementsAtomic == Spec => AtomicSpec
  <1>1. Init => Atomic!Init
    <2>1. ASSUME Init
          PROVE  \A c \in Client : State(c) = "idle" /\ Told(c) = Failed
      BY <2>1 DEF Init, State, Told
    <2>2. ASSUME Init
          PROVE  \A c \in Client : AResult(c) = Atomic!Failed
      BY <2>1, <2>2, ToldNothing DEF AResult
    <2>3. QED
      BY <2>1, <2>2, ToldNothing DEF Init, Atomic!Init, Get, AResult
  <1>2. TypeOK /\ CallInv /\ [Next]_vars => [Atomic!Next]_(Atomic!vars)
    <2>1. CASE UNCHANGED vars
      <3>1. \A c \in Client : State(c)' = State(c) /\ Told(c)' = Told(c)
        BY <2>1 DEF vars, restVars, State, Told, Handled
      <3>2. AServer' = AServer
        BY <2>1 DEF vars, restVars, AServer, Down
      <3>3. QED
        BY <2>1, <3>1, <3>2 DEF vars, restVars, Atomic!vars, AServer
    <2>2. QED
      BY <2>1, CallerSteps, RestSteps DEF Next
  <1>3. QED
    BY <1>1, <1>2, RestTypeCorrect, PTL DEF Spec, AtomicSpec, Atomic!Spec
=============================================================================
