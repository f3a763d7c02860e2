----------------------------- MODULE AtomicRest -----------------------------
(***************************************************************************)
(* What the REST interface promises its callers, without saying how: a     *)
(* call takes effect on the directory at one moment between its beginning  *)
(* and its end, or not at all, and reports what happened at that moment.   *)
(* A caller may end before its call does; the call may still take effect.  *)
(* Only when the server has gone may a call that took effect report a      *)
(* failure, or a reader be given a part of what there was.                 *)
(***************************************************************************)
CONSTANTS Client,   \* the callers
          Name, ValidName, Addr

Entry   == [github_id : Name, ip_addr : Addr]
Request == [op : {"get"}] \cup [op : {"post"}, node : Entry]
           \cup [op : {"delete"}, github_id : Name]

\* What a call returns: whether it succeeded, and the entries for a reader.
Result == [ok : BOOLEAN, entries : SUBSET Entry]
Failed == [ok |-> FALSE, entries |-> {}]

VARIABLES dir,      \* the entries registered
          server,   \* not there yet, up, or gone
          state,    \* state[c]: of c's call
          request,  \* request[c]: what c called last
          result    \* result[c]: what it has returned, or is about to

vars == <<dir, server, state, request, result>>

Init ==
    /\ dir = {}
    /\ server = "starting"
    /\ state = [c \in Client |-> "idle"]
    /\ request = [c \in Client |-> [op |-> "get"]]
    /\ result = [c \in Client |-> Failed]

Call(c, r) ==
    /\ state[c] = "idle"
    /\ state' = [state EXCEPT ![c] = "called"]
    /\ request' = [request EXCEPT ![c] = r]
    /\ result' = [result EXCEPT ![c] = Failed]
    /\ UNCHANGED <<dir, server>>

Refused(c, r) ==
    /\ state[c] = "idle" /\ server # "up"
    /\ request' = [request EXCEPT ![c] = r]
    /\ result' = [result EXCEPT ![c] = Failed]
    /\ UNCHANGED <<dir, server, state>>

Effect(r, ok) ==
    CASE r.op = "get" -> ok /\ dir' = dir
      [] r.op = "post" ->
            /\ ok <=> r.node.github_id \in ValidName
            /\ dir' = IF ok /\ \A d \in dir : d.github_id # r.node.github_id
                      THEN dir \cup {r.node} ELSE dir
      [] r.op = "delete" ->
            /\ ok <=> r.github_id \in ValidName
            /\ dir' = IF ok THEN {d \in dir : d.github_id # r.github_id} ELSE dir

\* Also for a caller that has ended ("orphan").
TakesEffect(c) ==
    /\ server = "up"
    /\ \E ok \in BOOLEAN :
          /\ Effect(request[c], ok)
          /\ \/ /\ state[c] = "called"
                /\ state' = [state EXCEPT ![c] = "done"]
                /\ result' = [result EXCEPT ![c] =
                                 [ok |-> ok,
                                  entries |-> IF request[c].op = "get"
                                              THEN dir ELSE {}]]
             \/ /\ state[c] = "orphan"
                /\ state' = [state EXCEPT ![c] = "ended"]
                /\ UNCHANGED result
    /\ UNCHANGED <<server, request>>

Returns(c) ==
    /\ state[c] = "done"
    /\ state' = [state EXCEPT ![c] = "idle"]
    /\ UNCHANGED <<dir, server, request, result>>

\* Without the server: refused, reset, or a reader's answer cut short.
Breaks(c) ==
    /\ server = "gone"
    /\ state[c] \in {"called", "done"}
    /\ state' = [state EXCEPT ![c] = "idle"]
    /\ \/ result' = [result EXCEPT ![c] = Failed]
       \/ /\ state[c] = "done"
          /\ \E S \in SUBSET result[c].entries :
                result' = [result EXCEPT ![c] = [ok |-> TRUE, entries |-> S]]
    /\ UNCHANGED <<dir, server, request>>

Ends(c) ==
    /\ \/ state[c] = "called" /\ state' = [state EXCEPT ![c] = "orphan"]
       \/ state' = [state EXCEPT ![c] = "ended"]
    /\ result' = [result EXCEPT ![c] = Failed]
    /\ UNCHANGED <<dir, server, request>>

Server == /\ \/ server = "starting" /\ server' = "up"
             \/ server = "up" /\ server' = "gone"
          /\ UNCHANGED <<dir, state, request, result>>

Next == \/ \E c \in Client : \/ \E r \in Request : Call(c, r) \/ Refused(c, r)
                             \/ TakesEffect(c) \/ Returns(c) \/ Breaks(c)
                             \/ Ends(c)
        \/ Server

Spec == Init /\ [][Next]_vars
=============================================================================
