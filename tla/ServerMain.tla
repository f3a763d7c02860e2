----------------------------- MODULE ServerMain -----------------------------
(***************************************************************************)
(* The processes of the server program (src/server/main.cc).  main forks a *)
(* child per service and waits for the first of them that ends.  A child   *)
(* whose service function returns goes on in main, behind its own fork:    *)
(* rest_server returns when it cannot bind or listen, boradcast_listener   *)
(* then ends the process, health_server needs no port and never returns.  The   *)
(* program may be started again while processes of an earlier start run    *)
(* (docker/server.sh puts it in the background).                           *)
(***************************************************************************)
EXTENDS Naturals, FiniteSets

CONSTANTS
    MaxStarts,  \* bound: the times the program is started
    MaxDeaths   \* bound: services that die, forks and binds that fail

ASSUME ServerMainAssumption == MaxStarts \in Nat /\ MaxDeaths \in Nat

Service == {"rest", "broadcast", "health"}

\* A process is known by its start and the forks that have led to it: main
\* comes to each fork once, and in this order.
Order == [s \in Service |-> CASE s = "rest" -> 1 [] s = "broadcast" -> 2
                              [] s = "health" -> 3]
Proc  == [start : 1 .. MaxStarts, forks : SUBSET Service]

First(k)    == [start |-> k, forks |-> {}]
Child(p, s) == [p EXCEPT !.forks = @ \cup {s}]

Children(p) == {Child(p, s) : s \in {x \in Service :
                                 \A y \in p.forks : Order[x] > Order[y]}}

VARIABLES
    at,         \* at[p]: where process p is
    wanted,     \* wanted[k]: rest, broadcast and health of start k, by argv[1]
    starts,     \* times the program has been started
    deaths,     \* services that have died, forks and binds that have failed
    unbound     \* whether a REST server failed to bind to a port that was free:
                \* history, for a property only

vars == <<at, wanted, starts, deaths, unbound>>

\* In main, at a fork or at wait; at the beginning of a service; serving.
Place == [place : {"fork", "run", "serve"}, service : Service]
         \cup [place : {"none", "wait", "gone"}]

In(place, s) == [place |-> place, service |-> s]
None == [place |-> "none"]
Wait == [place |-> "wait"]
Gone == [place |-> "gone"]

Serving(s) == {p \in Proc : at[p] = In("serve", s)}

TypeOK ==
    /\ at \in [Proc -> Place]
    /\ wanted \in [1 .. MaxStarts -> SUBSET Service]
    /\ starts \in 0 .. MaxStarts
    /\ deaths \in 0 .. MaxDeaths
    /\ unbound \in BOOLEAN
    /\ \A p \in Proc : at[p] # None =>
          /\ p.start <= starts
          /\ p.forks \subseteq wanted[p.start]
          /\ at[p].place \in {"run", "serve"} => at[p].service \in p.forks
    /\ \A s \in {"rest", "broadcast"} : Cardinality(Serving(s)) <= 1

Init ==
    /\ at = [p \in Proc |-> None]
    /\ wanted = [k \in 1 .. MaxStarts |-> {}]
    /\ starts = 0 /\ deaths = 0 /\ unbound = FALSE

-----------------------------------------------------------------------------
(* main.                                                                   *)

\* Without an argument all services are wanted, else the one it names, if any.
Arguments == {Service, {}} \cup {{s} : s \in Service}

Start(w) ==
    /\ starts < MaxStarts
    /\ starts' = starts + 1
    /\ at' = [at EXCEPT ![First(starts')] = In("fork", "rest")]
    /\ wanted' = [wanted EXCEPT ![starts'] = w]
    /\ UNCHANGED <<deaths, unbound>>

\* For a mutant: the broadcast listener is forgotten.
After_skips(s) == CASE s = "rest"      -> In("fork", "health")
                    [] s = "broadcast" -> In("fork", "health")
                    [] s = "health"    -> Wait

After(s) == CASE s = "rest"      -> In("fork", "broadcast")
              [] s = "broadcast" -> In("fork", "health")
              [] s = "health"    -> Wait

Skip(p, s) ==
    /\ at[p] = In("fork", s) /\ s \notin wanted[p.start]
    /\ at' = [at EXCEPT ![p] = After(s)]
    /\ UNCHANGED <<wanted, starts, deaths, unbound>>

Fork(p, s) ==
    /\ at[p] = In("fork", s) /\ s \in wanted[p.start]
    /\ at' = [at EXCEPT ![p] = After(s), ![Child(p, s)] = In("run", s)]
    /\ UNCHANGED <<wanted, starts, deaths, unbound>>

\* main returns 1, and leaves the children it has.
ForkFails(p, s) ==
    /\ at[p] = In("fork", s) /\ s \in wanted[p.start]
    /\ deaths < MaxDeaths
    /\ deaths' = deaths + 1
    /\ at' = [at EXCEPT ![p] = Gone]
    /\ UNCHANGED <<wanted, starts, unbound>>

\* For a mutant: main waits until all its children have ended.
MainEnds_all(p) ==
    /\ at[p] = Wait
    /\ \A q \in Children(p) : at[q] \in {None, Gone}
    /\ at' = [at EXCEPT ![p] = Gone]
    /\ UNCHANGED <<wanted, starts, deaths, unbound>>

\* wait returns when a child has ended, or when there is none.
MainEnds(p) ==
    /\ at[p] = Wait
    /\ \/ \E q \in Children(p) : at[q] = Gone
       \/ \A q \in Children(p) : at[q] = None
    /\ at' = [at EXCEPT ![p] = Gone]
    /\ UNCHANGED <<wanted, starts, deaths, unbound>>

-----------------------------------------------------------------------------
(* The services.                                                           *)

\* For mutants: a broadcast listener without its port returns, as rest_server
\* does; or the port can be shared.
RunService_goes_on(p, s) ==
    /\ at[p] = In("run", s)
    /\ at' = [at EXCEPT ![p] = IF s = "health" \/ Serving(s) = {}
                               THEN In("serve", s) ELSE After(s)]
    /\ UNCHANGED <<wanted, starts, deaths, unbound>>
RunService_shares(p, s) ==
    /\ at[p] = In("run", s)
    /\ at' = [at EXCEPT ![p] = In("serve", s)]
    /\ UNCHANGED <<wanted, starts, deaths, unbound>>

\* REST and Broadcast have one port each.
RunService(p, s) ==
    /\ at[p] = In("run", s)
    /\ at' = [at EXCEPT ![p] = IF s = "health" \/ Serving(s) = {}
                               THEN In("serve", s)
                               ELSE IF s = "rest" THEN After(s) ELSE Gone]
    /\ UNCHANGED <<wanted, starts, deaths, unbound>>

\* For another reason than a taken port, such as a name that is not resolved,
\* bind or listen throws; rest_server returns as well.
RestFails(p) ==
    /\ at[p] = In("run", "rest")
    /\ deaths < MaxDeaths
    /\ deaths' = deaths + 1
    /\ unbound' = TRUE
    /\ at' = [at EXCEPT ![p] = After("rest")]
    /\ UNCHANGED <<wanted, starts>>

\* SIGPIPE, an exception nobody catches, or a broadcast listener that ends for
\* another reason than a taken port.
ServiceDies(p, s) ==
    /\ at[p] \in {In("serve", s), In("run", "broadcast")}
    /\ deaths < MaxDeaths
    /\ deaths' = deaths + 1
    /\ at' = [at EXCEPT ![p] = Gone]
    /\ UNCHANGED <<wanted, starts, unbound>>

-----------------------------------------------------------------------------

Works(p) == \/ \E s \in Service : Skip(p, s) \/ Fork(p, s) \/ RunService(p, s)
            \/ MainEnds(p)

Next == \/ \E w \in Arguments : Start(w)
        \/ \E p \in Proc : Works(p)
        \/ \E p \in Proc : \/ RestFails(p)
                          \/ \E s \in Service : ForkFails(p, s) \/ ServiceDies(p, s)

Spec == Init /\ [][Next]_vars

\* The processes take their steps.  No process takes one for ever, so it is
\* enough that some process takes one as long as any can.
FairSpec == Spec /\ WF_vars(\E p \in Proc : Works(p))

-----------------------------------------------------------------------------
(* Properties.                                                             *)

Sweepers == {p \in Proc : at[p] \in {In("run", "health"), In("serve", "health")}}

\* A server started once has one health server, and every further start adds
\* at most two: a REST child without its port goes on in main and forks a second
\* one, but one REST child gets the port, unless one fails that might have
\* (main.cc:10-18, 47-57, rest_server.cc:33-46).
SweepersBounded ==
    starts > 0 =>
        Cardinality(Sweepers) <= IF unbound THEN 2 * starts ELSE 2 * starts - 1

\* The first process of start k waits beside a child that has returned to main,
\* because the REST port was taken or could not be bound.
Stays(k) ==
    /\ at[First(k)].place \in {"fork", "wait"}
    /\ at[Child(First(k), "rest")].place \in {"fork", "wait"}

\* A start that does not get the REST port does not stay: sooner or later its
\* first process has returned, whatever ports get free meanwhile, since of its
\* two broadcast children one at most has the port (main.cc:10-18, 59,
\* broadcast_server.cc:64-67).
TakenPortEndsMain == []<>(\A k \in 1 .. MaxStarts : ~Stays(k))

\* Unless something dies or a fork fails, every service somebody started the
\* program for is there in the end, be it the one of another start.
AllServed ==
    []<>(deaths > 0 \/ \A s \in UNION {wanted[k] : k \in 1 .. MaxStarts} :
                            Serving(s) # {})
=============================================================================
