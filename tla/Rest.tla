-------------------------------- MODULE Rest --------------------------------
(***************************************************************************)
(* A request to the REST server on its way: the callers are the server's   *)
(* other processes (Client_REST over HTTP, that is libcurl), and the one   *)
(* REST process accepts a connection, reads the request, handles it and    *)
(* answers before it accepts the next (rest_server.cc).  Callers and the   *)
(* REST process may end at any moment.  libcurl sends each of these small  *)
(* requests in one write, so a connection carries a whole request or none. *)
(***************************************************************************)
EXTENDS NodeManage

CONSTANTS
    Client,     \* the callers
    NoClient,   \* nobody is served
    Name, Addr, \* the ids and addresses of requests
    ValidName   \* the ids the pattern of rest_server.cc:83 matches

ASSUME RestAssumption == NoClient \notin Client /\ ValidName \subseteq Name

VARIABLES
    rest,       \* where the REST process is
    node_list,  \* its NodeManage
    queue,      \* the connections it has not accepted
    serving,    \* whose connection request_handler has
    answer,     \* what it has streamed for it: the status line, the list
    caller,     \* caller[c]: where c is
    request,    \* request[c]: what it called last
    sent,       \* sent[c]: the connection carries the request
    result      \* result[c]: what the call returned

restVars == <<rest, node_list, queue, serving, answer>>
vars     == <<restVars, caller, request, sent, result>>

Entry   == [github_id : Name, ip_addr : Addr]
Get       == [op |-> "get"]
Post(e)   == [op |-> "post", node |-> e]
Delete(g) == [op |-> "delete", github_id |-> g]
Request   == {Get} \cup {Post(e) : e \in Entry} \cup {Delete(g) : g \in Name}

Answer(ok, list) == [ok |-> ok, list |-> list]
Failed == Answer(FALSE, <<>>)

\* The REST process has ended; "cut" if it was answering somebody.
Down == rest \in {"dead", "cut"}

AnswerType == [ok : BOOLEAN, list : Seq(Entry)]

TypeOK ==
    /\ rest \in {"off", "accept", "read", "reply", "dead", "cut"}
    /\ node_list \in Seq(Entry) /\ UniqueIds(node_list)
    /\ queue \in Seq(Client) /\ IsInjective(queue)
    /\ serving \in Client \cup {NoClient}
    /\ ~Down => (serving # NoClient <=> rest \in {"read", "reply"})
    /\ serving \notin ToSet(queue)
    /\ answer \in AnswerType
    /\ caller \in [Client -> {"idle", "send", "wait", "ended"}]
    /\ request \in [Client -> Request]
    /\ sent \in [Client -> BOOLEAN]
    /\ result \in [Client -> AnswerType]

Init ==
    /\ rest = "off" /\ node_list = <<>> /\ queue = <<>>
    /\ serving = NoClient /\ answer = Failed
    /\ caller = [c \in Client |-> "idle"]
    /\ request = [c \in Client |-> Get]
    /\ sent = [c \in Client |-> FALSE]
    /\ result = [c \in Client |-> Failed]

-----------------------------------------------------------------------------
(* A caller: HTTP::_get, _post, _delete.                                   *)

\* Nobody listens: libcurl fails at once.
Refused(c, r) ==
    /\ caller[c] = "idle" /\ (rest = "off" \/ Down)
    /\ request' = [request EXCEPT ![c] = r]
    /\ result' = [result EXCEPT ![c] = Failed]
    /\ UNCHANGED <<restVars, caller, sent>>

Connect(c, r) ==
    /\ caller[c] = "idle" /\ rest # "off" /\ ~Down
    /\ request' = [request EXCEPT ![c] = r]
    /\ result' = [result EXCEPT ![c] = Failed]
    /\ caller' = [caller EXCEPT ![c] = "send"]
    /\ queue' = Append(queue, c)
    /\ UNCHANGED <<rest, node_list, serving, answer, sent>>

Send(c) ==
    /\ caller[c] = "send" /\ ~Down
    /\ caller' = [caller EXCEPT ![c] = "wait"]
    /\ sent' = [sent EXCEPT ![c] = TRUE]
    /\ UNCHANGED <<restVars, request, result>>

\* The connection is reset; or, since the length of the answer is in a header
\* of another name (rest_server.cc:91), an answer cut short counts as whole.
Breaks(c) ==
    /\ caller[c] \in {"send", "wait"} /\ Down
    /\ caller' = [caller EXCEPT ![c] = "idle"]
    /\ sent' = [sent EXCEPT ![c] = FALSE]
    /\ \/ result' = [result EXCEPT ![c] = Failed]
       \/ /\ rest = "cut" /\ serving = c /\ answer.ok
          /\ \E n \in 0 .. Len(answer.list) :
                result' = [result EXCEPT ![c] =
                              Answer(TRUE, SubSeq(answer.list, 1, n))]
    /\ UNCHANGED <<restVars, request>>

CallerEnds(c) ==
    /\ caller[c] # "ended"
    /\ caller' = [caller EXCEPT ![c] = "ended"]
    /\ UNCHANGED <<restVars, request, sent, result>>

-----------------------------------------------------------------------------
(* The REST process: rest_server and request_handler.                      *)

Listen ==
    /\ rest = "off"
    /\ rest' = "accept"
    /\ UNCHANGED <<node_list, queue, serving, answer, caller, request, sent, result>>

Accept ==
    /\ rest = "accept" /\ queue # <<>>
    /\ rest' = "read"
    /\ serving' = Head(queue)
    /\ queue' = Tail(queue)
    /\ UNCHANGED <<node_list, answer, caller, request, sent, result>>

\* For a mutant: the id is not looked at.
Valid_any(r) == TRUE

Valid(r) == CASE r.op = "get"    -> TRUE
              [] r.op = "post"   -> r.node.github_id \in ValidName
              [] r.op = "delete" -> r.github_id \in ValidName

Handle ==
    /\ rest = "read" /\ sent[serving]
    /\ LET r == request[serving]
       IN /\ node_list' =
                IF ~Valid(r) THEN node_list
                ELSE CASE r.op = "get"    -> node_list
                       [] r.op = "post"   -> add_user(node_list, r.node.github_id,
                                                      r.node.ip_addr)
                       [] r.op = "delete" -> delete_user(node_list, r.github_id)
          /\ answer' = Answer(Valid(r), IF r = Get THEN node_list ELSE <<>>)
    /\ rest' = "reply"
    /\ UNCHANGED <<queue, serving, caller, request, sent, result>>

\* For a mutant: waits for a request that does not come any more.
HandleNothing_waits == FALSE /\ UNCHANGED vars

\* The caller ended before it sent its request: no method, status 400.
HandleNothing ==
    /\ rest = "read" /\ ~sent[serving] /\ caller[serving] = "ended"
    /\ answer' = Failed
    /\ rest' = "reply"
    /\ UNCHANGED <<node_list, queue, serving, caller, request, sent, result>>

\* For a mutant: the connection is not given up.
Reply_keeps ==
    /\ rest = "reply"
    /\ rest' = "accept"
    /\ caller' = [caller EXCEPT ![serving] = IF @ = "wait" THEN "idle" ELSE @]
    /\ result' = [result EXCEPT ![serving] =
                     IF caller[serving] = "wait" THEN answer ELSE @]
    /\ sent' = [sent EXCEPT ![serving] = FALSE]
    /\ UNCHANGED <<node_list, queue, request, serving, answer>>

\* delete conn: what has been streamed is sent, the connection closed.
Reply ==
    /\ rest = "reply"
    /\ rest' = "accept"
    /\ caller' = [caller EXCEPT ![serving] = IF @ = "wait" THEN "idle" ELSE @]
    /\ result' = [result EXCEPT ![serving] =
                     IF caller[serving] = "wait" THEN answer ELSE @]
    /\ sent' = [sent EXCEPT ![serving] = FALSE]
    /\ serving' = NoClient /\ answer' = Failed
    /\ UNCHANGED <<node_list, queue, request>>

\* Killed, or by SIGPIPE when it answers a caller that has ended.
RestDies ==
    /\ rest # "off" /\ ~Down
    /\ rest' = IF rest = "reply" THEN "cut" ELSE "dead"
    /\ UNCHANGED <<node_list, queue, serving, answer, caller, request, sent, result>>

-----------------------------------------------------------------------------

Serve == Accept \/ Handle \/ HandleNothing \/ Reply

Next == \/ \E c \in Client : \/ \E r \in Request : Refused(c, r) \/ Connect(c, r)
                             \/ Send(c) \/ Breaks(c) \/ CallerEnds(c)
        \/ Listen \/ Serve \/ RestDies

Spec == Init /\ [][Next]_vars

\* The processes take their steps; nothing obliges a caller to call.
FairSpec == /\ Spec
            /\ WF_vars(Listen) /\ WF_vars(Serve)
            /\ \A c \in Client : WF_vars(Send(c)) /\ WF_vars(Breaks(c))

-----------------------------------------------------------------------------
(* Properties.                                                             *)

\* Every call ends, in a result or a failure, as long as its caller lives:
\* neither a caller that ends early nor the end of the REST process leaves
\* another one waiting (rest_server.cc:60-77, 156, http_client.cc).
Answered ==
    \A c \in Client :
        caller[c] \in {"send", "wait"} ~> caller[c] \in {"idle", "ended"}

\* The interface is the abstract one: each request takes effect at one moment,
\* at most once and while its caller waits or has ended, and what a caller is
\* told is what happened then, however connections queue up and callers end.
Handled(c) == serving = c /\ rest \in {"reply", "cut"}

State(c) == CASE caller[c] = "idle"  -> "idle"
              [] caller[c] = "send"  -> "called"
              [] caller[c] = "wait"  -> IF Handled(c) THEN "done" ELSE "called"
              [] caller[c] = "ended" -> IF sent[c] /\ ~Handled(c) THEN "orphan"
                                        ELSE "ended"

Told(c) == CASE caller[c] = "ended" -> Failed
             [] caller[c] = "wait" /\ Handled(c) -> answer
             [] OTHER -> result[c]

Atomic == INSTANCE AtomicRest WITH
    dir     <- Entries(node_list),
    server  <- IF rest = "off" THEN "starting" ELSE IF Down THEN "gone" ELSE "up",
    state   <- [c \in Client |-> State(c)],
    result  <- [c \in Client |-> [ok |-> Told(c).ok,
                                  entries |-> Entries(Told(c).list)]]

AtomicSpec == Atomic!Spec
=============================================================================
