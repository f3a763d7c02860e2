-------------------------- MODULE ServerMainProofs --------------------------
(***************************************************************************)
(* Proofs about the processes of the server program, for any number of     *)
(* starts and deaths: the variables have their types, so that a port has   *)
(* one server; and the starts have left fewer than twice as many health    *)
(* servers.                                                                *)
(***************************************************************************)
EXTENDS ServerMain, FiniteSetTheorems, TLAPS

\* The processes a start may have beside the first one: its children, and those
\* of a REST child that has returned to main.
Rest(k)          == [start |-> k, forks |-> {"rest"}]
RestBroadcast(k) == [start |-> k, forks |-> {"rest", "broadcast"}]
RestHealth(k)    == [start |-> k, forks |-> {"rest", "health"}]
OnlyBroadcast(k) == [start |-> k, forks |-> {"broadcast"}]
OnlyHealth(k)    == [start |-> k, forks |-> {"health"}]

LateForks == {In("fork", "broadcast"), In("fork", "health")}
Forks     == {In("fork", "rest")} \cup LateForks
Runs(s)   == {In("run", s), In("serve", s)}

\* Where each of them can be; there is no other process.
Allowed(p, v) ==
    \/ p = First(p.start) /\ v \in Forks \cup {Wait, Gone}
    \/ p = Rest(p.start) /\ v \in Runs("rest") \cup LateForks \cup {Wait, Gone}
    \/ p = OnlyBroadcast(p.start) /\ v \in Runs("broadcast") \cup {Gone}
    \/ p = RestBroadcast(p.start) /\ v \in Runs("broadcast") \cup {Gone}
    \/ p = OnlyHealth(p.start) /\ v \in Runs("health") \cup {Gone}
    \/ p = RestHealth(p.start) /\ v \in Runs("health") \cup {Gone}

Shape == \A p \in Proc : at[p] # None => p.start <= starts /\ Allowed(p, at[p])

\* A fork that is still to come has not been.
Ahead ==
    \A k \in 1 .. MaxStarts :
        /\ at[First(k)] = In("fork", "rest") => at[Rest(k)] = None
        /\ at[First(k)] \in {In("fork", "rest"), In("fork", "broadcast")}
              => at[OnlyBroadcast(k)] = None
        /\ at[First(k)] \in Forks => at[OnlyHealth(k)] = None
        /\ at[Rest(k)] \in Runs("rest") \cup {None, In("fork", "broadcast")}
              => at[RestBroadcast(k)] = None
        /\ at[Rest(k)] \in Runs("rest") \cup LateForks \cup {None}
              => at[RestHealth(k)] = None

\* Once a REST child has returned to main because its port was taken, there is
\* one that got the port: it serves, or did until it died, and forks nothing.
Kept(k) == at[Rest(k)] \in {In("serve", "rest"), Gone} /\ at[RestHealth(k)] = None

Returned(k) == at[Rest(k)] \in LateForks \cup {Wait} \/ at[RestHealth(k)] # None

Winners ==
    (\E k \in 1 .. MaxStarts : Returned(k)) => \E k \in 1 .. MaxStarts : Kept(k)

Winner == unbound \/ Winners

\* A port has one server.
OneEach == \A s \in {"rest", "broadcast"} : \A p, q \in Serving(s) : p = q

\* A process does what its start was asked for, and serves what it was forked for.
Origin ==
    \A p \in Proc : at[p] # None =>
        /\ p.forks \subseteq wanted[p.start]
        /\ at[p].place \in {"run", "serve"} => at[p].service \in p.forks

Typing ==
    /\ at \in [Proc -> Place]
    /\ wanted \in [1 .. MaxStarts -> SUBSET Service]
    /\ starts \in 0 .. MaxStarts
    /\ deaths \in 0 .. MaxDeaths
    /\ unbound \in BOOLEAN

MainInv == Typing /\ Origin /\ Shape /\ Ahead /\ Winner /\ OneEach

-----------------------------------------------------------------------------
(* The names of places and processes.                                      *)

LEMMA Places ==
    /\ \A a, b, c, d : In(a, b) = In(c, d) <=> a = c /\ b = d
    /\ \A a, b : In(a, b).place = a /\ In(a, b).service = b
    /\ \A b : /\ In("fork", b) \notin {None, Wait, Gone}
              /\ In("run", b) \notin {None, Wait, Gone}
              /\ In("serve", b) \notin {None, Wait, Gone}
    /\ None # Wait /\ None # Gone /\ Wait # Gone
    /\ None \in Place /\ Wait \in Place /\ Gone \in Place
    /\ \A a \in {"fork", "run", "serve"}, s \in Service : In(a, s) \in Place
    /\ Wait.place = "wait" /\ Gone.place = "gone"
  <1>1. \A a, b : In(a, b).place = a /\ In(a, b).service = b
    BY DEF In
  <1>2. \A a, b, c, d : In(a, b) = In(c, d) <=> a = c /\ b = d
    BY <1>1
  <1>3. None.place = "none" /\ Wait.place = "wait" /\ Gone.place = "gone"
    BY DEF None, Wait, Gone
  <1>4. None # Wait /\ None # Gone /\ Wait # Gone
    BY <1>3
  <1>5. \A b : /\ In("fork", b) \notin {None, Wait, Gone}
               /\ In("run", b) \notin {None, Wait, Gone}
               /\ In("serve", b) \notin {None, Wait, Gone}
    BY <1>1, <1>3
  <1>6. /\ None \in Place /\ Wait \in Place /\ Gone \in Place
        /\ \A a \in {"fork", "run", "serve"}, s \in Service : In(a, s) \in Place
    BY DEF None, Wait, Gone, In, Place
  <1>7. QED
    BY <1>1, <1>2, <1>3, <1>4, <1>5, <1>6

\* The sets of forks that name the processes.
LEMMA ForkSets ==
    /\ {} # {"rest"} /\ {} # {"broadcast"} /\ {} # {"health"}
    /\ {} # {"rest", "broadcast"} /\ {} # {"rest", "health"}
    /\ {"rest"} # {"broadcast"} /\ {"rest"} # {"health"}
    /\ {"rest"} # {"rest", "broadcast"} /\ {"rest"} # {"rest", "health"}
    /\ {"broadcast"} # {"health"}
    /\ {"broadcast"} # {"rest", "broadcast"} /\ {"broadcast"} # {"rest", "health"}
    /\ {"health"} # {"rest", "broadcast"} /\ {"health"} # {"rest", "health"}
    /\ {"rest", "broadcast"} # {"rest", "health"}
  <1> DEFINE R == "rest" B == "broadcast" H == "health"
  <1>1. R # B /\ R # H /\ B # H
    OBVIOUS
  <1> HIDE DEF R, B, H
  <1>2. /\ {} # {R} /\ {} # {B} /\ {} # {H} /\ {} # {R, B} /\ {} # {R, H}
        /\ {R} # {B} /\ {R} # {H} /\ {R} # {R, B} /\ {R} # {R, H}
        /\ {B} # {H} /\ {B} # {R, B} /\ {B} # {R, H}
        /\ {H} # {R, B} /\ {H} # {R, H} /\ {R, B} # {R, H}
    BY <1>1
  <1>3. QED
    BY <1>2 DEF R, B, H

LEMMA Processes ==
    ASSUME NEW k \in 1 .. MaxStarts
    PROVE  /\ First(k) \in Proc /\ Rest(k) \in Proc /\ OnlyBroadcast(k) \in Proc
           /\ RestBroadcast(k) \in Proc /\ OnlyHealth(k) \in Proc /\ RestHealth(k) \in Proc
           /\ Child(First(k), "rest") = Rest(k)
           /\ Child(First(k), "broadcast") = OnlyBroadcast(k)
           /\ Child(First(k), "health") = OnlyHealth(k)
           /\ Child(Rest(k), "broadcast") = RestBroadcast(k)
           /\ Child(Rest(k), "health") = RestHealth(k)
  <1>1. {} \cup {"rest"} = {"rest"} /\ {} \cup {"broadcast"} = {"broadcast"}
        /\ {} \cup {"health"} = {"health"}
        /\ {"rest"} \cup {"broadcast"} = {"rest", "broadcast"}
        /\ {"rest"} \cup {"health"} = {"rest", "health"}
    OBVIOUS
  <1>2. /\ First(k) \in Proc /\ Rest(k) \in Proc /\ OnlyBroadcast(k) \in Proc
        /\ RestBroadcast(k) \in Proc /\ OnlyHealth(k) \in Proc /\ RestHealth(k) \in Proc
    BY DEF Proc, Service, First, Rest, OnlyBroadcast, RestBroadcast, OnlyHealth,
           RestHealth
  <1>3. /\ Child(First(k), "rest") = Rest(k)
        /\ Child(First(k), "broadcast") = OnlyBroadcast(k)
        /\ Child(First(k), "health") = OnlyHealth(k)
    BY <1>1 DEF First, Rest, OnlyBroadcast, OnlyHealth, Child
  <1>4. /\ Child(Rest(k), "broadcast") = RestBroadcast(k)
        /\ Child(Rest(k), "health") = RestHealth(k)
    BY <1>1 DEF Rest, RestBroadcast, RestHealth, Child
  <1>5. QED
    BY <1>2, <1>3, <1>4

\* No process has two names.
LEMMA Different ==
    ASSUME NEW k, NEW m
    PROVE  /\ First(k) # Rest(m) /\ First(k) # OnlyBroadcast(m) /\ First(k) # RestBroadcast(m)
           /\ First(k) # OnlyHealth(m) /\ First(k) # RestHealth(m)
           /\ Rest(k) # OnlyBroadcast(m) /\ Rest(k) # RestBroadcast(m)
           /\ Rest(k) # OnlyHealth(m) /\ Rest(k) # RestHealth(m)
           /\ OnlyBroadcast(k) # RestBroadcast(m) /\ OnlyBroadcast(k) # OnlyHealth(m)
           /\ OnlyBroadcast(k) # RestHealth(m)
           /\ RestBroadcast(k) # OnlyHealth(m) /\ RestBroadcast(k) # RestHealth(m)
           /\ OnlyHealth(k) # RestHealth(m)
           /\ First(k).start = k /\ Rest(k).start = k /\ OnlyBroadcast(k).start = k
           /\ RestBroadcast(k).start = k /\ OnlyHealth(k).start = k /\ RestHealth(k).start = k
  <1>1. /\ First(k).forks = {} /\ Rest(k).forks = {"rest"}
        /\ OnlyBroadcast(k).forks = {"broadcast"}
        /\ RestBroadcast(k).forks = {"rest", "broadcast"}
        /\ OnlyHealth(k).forks = {"health"} /\ RestHealth(k).forks = {"rest", "health"}
        /\ First(m).forks = {} /\ Rest(m).forks = {"rest"}
        /\ OnlyBroadcast(m).forks = {"broadcast"}
        /\ RestBroadcast(m).forks = {"rest", "broadcast"}
        /\ OnlyHealth(m).forks = {"health"} /\ RestHealth(m).forks = {"rest", "health"}
    BY DEF First, Rest, OnlyBroadcast, RestBroadcast, OnlyHealth, RestHealth
  <1>2. /\ First(k).start = k /\ Rest(k).start = k /\ OnlyBroadcast(k).start = k
        /\ RestBroadcast(k).start = k /\ OnlyHealth(k).start = k /\ RestHealth(k).start = k
    BY DEF First, Rest, OnlyBroadcast, RestBroadcast, OnlyHealth, RestHealth
  <1>3. QED
    BY <1>1, <1>2, ForkSets

-----------------------------------------------------------------------------
(* The steps.  Except for a start and a fork, a step moves one process.     *)

Goes(u, v) ==
    \/ u = In("fork", "rest") /\ v \in {In("fork", "broadcast"), Gone}
    \/ u = In("fork", "broadcast") /\ v \in {In("fork", "health"), Gone}
    \/ u = In("fork", "health") /\ v \in {Wait, Gone}
    \/ u = Wait /\ v = Gone
    \/ u = In("run", "rest") /\ v = In("serve", "rest") /\ Serving("rest") = {}
    \/ u = In("run", "rest") /\ v = In("fork", "broadcast")
       /\ (Serving("rest") # {} \/ unbound')
    \/ u = In("run", "broadcast") /\ v = In("serve", "broadcast")
       /\ Serving("broadcast") = {}
    \/ u = In("run", "broadcast") /\ v = Gone
    \/ u = In("run", "health") /\ v = In("serve", "health")
    \/ u \in {In("serve", s) : s \in Service} /\ v = Gone

Moved(p, v) ==
    /\ Goes(at[p], v)
    /\ at' = [at EXCEPT ![p] = v]
    /\ UNCHANGED <<wanted, starts>>
    /\ deaths' \in 0 .. MaxDeaths
    /\ unbound' \in BOOLEAN /\ (unbound => unbound')

LEMMA Steps ==
    ASSUME Typing, Next
    PROVE  \/ \E w \in Arguments : Start(w)
           \/ \E p \in Proc, s \in Service : Fork(p, s)
           \/ \E p \in Proc, v \in Place : Moved(p, v)
  <1>0. deaths \in 0 .. MaxDeaths /\ MaxDeaths \in Nat /\ unbound \in BOOLEAN
    BY ServerMainAssumption DEF Typing
  <1>1. ASSUME NEW p \in Proc, NEW s \in Service, Skip(p, s)
        PROVE  Moved(p, After(s)) /\ After(s) \in Place
    BY <1>0, <1>1, Places DEF Skip, Moved, Goes, After, Service
  <1>2. ASSUME NEW p \in Proc, NEW s \in Service, RunService(p, s)
        PROVE  \E v \in Place : Moved(p, v)
    <2> DEFINE v == IF s = "health" \/ Serving(s) = {} THEN In("serve", s)
                    ELSE IF s = "rest" THEN After(s) ELSE Gone
    <2>1. at[p] = In("run", s) /\ at' = [at EXCEPT ![p] = v]
          /\ UNCHANGED <<wanted, starts, deaths, unbound>>
      BY <1>2 DEF RunService
    <2>2. v \in Place /\ Goes(In("run", s), v)
      BY Places DEF Goes, After, Service
    <2> HIDE DEF v
    <2>3. QED
      BY <1>0, <2>1, <2>2 DEF Moved
  <1>3. ASSUME NEW p \in Proc, MainEnds(p)
        PROVE  Moved(p, Gone) /\ Gone \in Place
    BY <1>0, <1>3, Places DEF MainEnds, Moved, Goes
  <1>4. ASSUME NEW p \in Proc, NEW s \in Service, ForkFails(p, s)
        PROVE  Moved(p, Gone) /\ Gone \in Place
    <2>1. deaths' \in 0 .. MaxDeaths
      BY <1>0, <1>4 DEF ForkFails
    <2>2. unbound' = unbound
      BY <1>4 DEF ForkFails
    <2>3. Goes(at[p], Gone) /\ Gone \in Place
      BY <1>4, Places DEF ForkFails, Goes, Service
    <2>4. QED
      BY <1>0, <1>4, <2>1, <2>2, <2>3 DEF ForkFails, Moved
  <1>5. ASSUME NEW p \in Proc, NEW s \in Service, ServiceDies(p, s)
        PROVE  Moved(p, Gone) /\ Gone \in Place
    <2>1. deaths' \in 0 .. MaxDeaths
      BY <1>0, <1>5 DEF ServiceDies
    <2>2. unbound' = unbound
      BY <1>5 DEF ServiceDies
    <2>3. Goes(at[p], Gone) /\ Gone \in Place
      BY <1>5, Places DEF ServiceDies, Goes, Service
    <2>4. QED
      BY <1>0, <1>5, <2>1, <2>2, <2>3 DEF ServiceDies, Moved
  <1>6. ASSUME NEW p \in Proc, RestFails(p)
        PROVE  Moved(p, After("rest")) /\ After("rest") \in Place
    <2>1. deaths' \in 0 .. MaxDeaths
      BY <1>0, <1>6 DEF RestFails
    <2>2. QED
      BY <1>6, <2>1, Places DEF RestFails, Moved, Goes, After, Service
  <1>7. QED
    BY <1>1, <1>2, <1>3, <1>4, <1>5, <1>6 DEF Next, Works

\* What a fork may find: who forks, whom, and that the child is new.
LEMMA Forked ==
    ASSUME MainInv, NEW p \in Proc, NEW s \in Service, Fork(p, s)
    PROVE  /\ p.start \in 1 .. MaxStarts /\ p.start <= starts
           /\ Child(p, s) \in Proc /\ at[Child(p, s)] = None
           /\ Child(p, s).start = p.start /\ Child(p, s).forks = p.forks \cup {s}
           /\ \/ p = First(p.start) /\ s = "rest" /\ Child(p, s) = Rest(p.start)
              \/ p = First(p.start) /\ s = "broadcast" /\ Child(p, s) = OnlyBroadcast(p.start)
              \/ p = First(p.start) /\ s = "health" /\ Child(p, s) = OnlyHealth(p.start)
              \/ p = Rest(p.start) /\ s = "broadcast" /\ Child(p, s) = RestBroadcast(p.start)
              \/ p = Rest(p.start) /\ s = "health" /\ Child(p, s) = RestHealth(p.start)
  <1>1. p.start \in 1 .. MaxStarts /\ at[p] = In("fork", s) /\ at[p] # None
    BY Places DEF Fork, Proc
  <1>2. p.start <= starts /\ Allowed(p, In("fork", s))
    BY <1>1 DEF MainInv, Shape
  <1>3. \/ p = First(p.start)
        \/ p = Rest(p.start) /\ s \in {"broadcast", "health"}
    BY <1>2, Places DEF Allowed, Runs, LateForks
  <1>4. Child(p, s) \in Proc /\ Child(p, s).start = p.start
        /\ Child(p, s).forks = p.forks \cup {s}
    BY DEF Child, Proc
  <1>5. PICK k \in 1 .. MaxStarts : k = p.start
    BY <1>1
  <1>6. \/ p = First(k) /\ s = "rest" /\ Child(p, s) = Rest(k)
        \/ p = First(k) /\ s = "broadcast" /\ Child(p, s) = OnlyBroadcast(k)
        \/ p = First(k) /\ s = "health" /\ Child(p, s) = OnlyHealth(k)
        \/ p = Rest(k) /\ s = "broadcast" /\ Child(p, s) = RestBroadcast(k)
        \/ p = Rest(k) /\ s = "health" /\ Child(p, s) = RestHealth(k)
    BY <1>3, <1>5, Processes DEF Service
  <1>7. at[Child(p, s)] = None
    BY <1>1, <1>6 DEF MainInv, Ahead, Forks, LateForks
  <1>8. QED
    BY <1>1, <1>2, <1>4, <1>5, <1>6, <1>7

\* The values of at' after each of the three.
LEMMA After3 ==
    ASSUME Typing
    PROVE  /\ \A w \in Arguments : Start(w) =>
                 /\ starts + 1 \in 1 .. MaxStarts /\ starts' = starts + 1
                 /\ at'[First(starts + 1)] = In("fork", "rest")
                 /\ \A q \in Proc : q # First(starts + 1) => at'[q] = at[q]
           /\ \A p \in Proc, s \in Service : Fork(p, s) /\ Child(p, s) # p =>
                 /\ at'[p] = After(s) /\ at'[Child(p, s)] = In("run", s)
                 /\ \A q \in Proc : q # p /\ q # Child(p, s) => at'[q] = at[q]
           /\ \A p \in Proc, v \in Place : Moved(p, v) =>
                 /\ at'[p] = v
                 /\ \A q \in Proc : q # p => at'[q] = at[q]
  <1>0. at \in [Proc -> Place] /\ starts \in 0 .. MaxStarts /\ MaxStarts \in Nat
    BY ServerMainAssumption DEF Typing
  <1>1. ASSUME NEW w \in Arguments, Start(w)
        PROVE  /\ starts + 1 \in 1 .. MaxStarts /\ starts' = starts + 1
               /\ at'[First(starts + 1)] = In("fork", "rest")
               /\ \A q \in Proc : q # First(starts + 1) => at'[q] = at[q]
    <2>1. starts + 1 \in 1 .. MaxStarts /\ starts' = starts + 1
      BY <1>0, <1>1 DEF Start
    <2>2. PICK n \in 1 .. MaxStarts : n = starts + 1
      BY <2>1
    <2>3. First(n) \in Proc
      BY Processes
    <2>4. at' = [at EXCEPT ![First(n)] = In("fork", "rest")]
      BY <1>1, <2>1, <2>2 DEF Start
    <2>5. QED
      BY <1>0, <2>1, <2>2, <2>3, <2>4
  <1>2. ASSUME NEW p \in Proc, NEW s \in Service, Fork(p, s), Child(p, s) # p
        PROVE  /\ at'[p] = After(s) /\ at'[Child(p, s)] = In("run", s)
               /\ \A q \in Proc : q # p /\ q # Child(p, s) => at'[q] = at[q]
    <2>1. Child(p, s) \in Proc
      BY DEF Child, Proc
    <2>2. QED
      BY <1>0, <1>2, <2>1 DEF Fork
  <1>3. ASSUME NEW p \in Proc, NEW v \in Place, Moved(p, v)
        PROVE  at'[p] = v /\ \A q \in Proc : q # p => at'[q] = at[q]
    BY <1>0, <1>3 DEF Moved
  <1>4. QED
    BY <1>1, <1>2, <1>3

-----------------------------------------------------------------------------
(* Each part of the invariant, for a start, a fork and a move.              *)

LEMMA TypingStep ==
    ASSUME MainInv, Next
    PROVE  Typing'
  <1>0. at \in [Proc -> Place] /\ starts \in 0 .. MaxStarts /\ MaxStarts \in Nat
        /\ wanted \in [1 .. MaxStarts -> SUBSET Service] /\ deaths \in 0 .. MaxDeaths
        /\ unbound \in BOOLEAN
    BY ServerMainAssumption DEF MainInv, Typing
  <1>1. ASSUME NEW w \in Arguments, Start(w)
        PROVE  Typing'
    <2>1. w \in SUBSET Service
      BY DEF Arguments
    <2>2. starts' \in 0 .. MaxStarts /\ In("fork", "rest") \in Place
      BY <1>0, <1>1, Places DEF Start, Service
    <2>3. QED
      BY <1>0, <1>1, <2>1, <2>2 DEF Start, Typing
  <1>2. ASSUME NEW p \in Proc, NEW s \in Service, Fork(p, s)
        PROVE  Typing'
    <2>1. After(s) \in Place /\ In("run", s) \in Place
      BY Places DEF After, Service
    <2>2. QED
      BY <1>0, <1>2, <2>1 DEF Fork, Typing
  <1>3. ASSUME NEW p \in Proc, NEW v \in Place, Moved(p, v)
        PROVE  Typing'
    BY <1>0, <1>3 DEF Moved, Typing
  <1>4. QED
    BY <1>1, <1>2, <1>3, Steps DEF MainInv

\* Only a process that is there takes a step.
LEMMA Mover ==
    ASSUME MainInv, NEW p \in Proc, NEW v \in Place, Moved(p, v)
    PROVE  /\ at[p] # None /\ p.start \in 1 .. MaxStarts /\ p.start <= starts
           /\ Allowed(p, at[p]) /\ v # None
  <1>1. at[p] # None /\ v # None
    BY Places DEF Moved, Goes
  <1>2. QED
    BY <1>1 DEF MainInv, Shape, Proc

\* A start finds none of its processes.
LEMMA Fresh ==
    ASSUME MainInv, NEW q \in Proc, q.start = starts + 1
    PROVE  at[q] = None
  <1>1. ~(q.start <= starts)
    BY ServerMainAssumption DEF MainInv, Typing
  <1>2. QED
    BY <1>1 DEF MainInv, Shape

LEMMA OriginStep ==
    ASSUME MainInv, Next
    PROVE  Origin'
  <1>0. Typing /\ Origin
    BY DEF MainInv
  <1>1. ASSUME NEW w \in Arguments, Start(w)
        PROVE  Origin'
    <2>1. PICK n \in 1 .. MaxStarts : n = starts + 1
      BY <1>0, <1>1, After3
    <2>2. at'[First(n)] = In("fork", "rest")
          /\ \A q \in Proc : q # First(n) => at'[q] = at[q]
      BY <1>0, <1>1, <2>1, After3
    <2>3. \A k \in 1 .. MaxStarts : k # n => wanted'[k] = wanted[k]
      BY <1>0, <1>1, <2>1 DEF Start, Typing
    <2>4. SUFFICES ASSUME NEW q \in Proc, at'[q] # None
                   PROVE  /\ q.forks \subseteq wanted'[q.start]
                          /\ at'[q].place \in {"run", "serve"} => at'[q].service \in q.forks
      BY DEF Origin
    <2>5. CASE q = First(n)
      <3>1. q.forks = {} /\ at'[q].place = "fork"
        BY <2>2, <2>5, Places DEF First
      <3>2. QED
        BY <3>1
    <2>6. CASE q # First(n)
      <3>1. at[q] # None /\ at'[q] = at[q]
        BY <2>2, <2>4, <2>6
      <3>2. q.start # n /\ q.start \in 1 .. MaxStarts
        BY <2>1, <3>1, Fresh DEF Proc
      <3>3. QED
        BY <1>0, <2>3, <3>1, <3>2 DEF Origin
    <2>7. QED
      BY <2>5, <2>6
  <1>2. ASSUME NEW p \in Proc, NEW s \in Service, Fork(p, s)
        PROVE  Origin'
    <2>1. PICK c \in Proc : c = Child(p, s)
      BY <1>2, Forked
    <2>2. at[c] = None /\ c.start = p.start /\ c.forks = p.forks \cup {s}
      BY <1>2, <2>1, Forked
    <2>3. at[p] = In("fork", s) /\ s \in wanted[p.start] /\ wanted' = wanted
      BY <1>2 DEF Fork
    <2>4. at[p] # None
      BY <2>3, Places
    <2>5. at'[p] = After(s) /\ at'[c] = In("run", s)
          /\ \A q \in Proc : q # p /\ q # c => at'[q] = at[q]
      BY <1>0, <1>2, <2>1, <2>2, <2>4, After3
    <2>6. SUFFICES ASSUME NEW q \in Proc, at'[q] # None
                   PROVE  /\ q.forks \subseteq wanted'[q.start]
                          /\ at'[q].place \in {"run", "serve"} => at'[q].service \in q.forks
      BY DEF Origin
    <2>7. CASE q = c
      <3>1. p.forks \subseteq wanted[p.start]
        BY <1>0, <2>4 DEF Origin
      <3>2. at'[q].service = s
        BY <2>5, <2>7, Places
      <3>3. QED
        BY <2>2, <2>3, <2>7, <3>1, <3>2
    <2>8. CASE q = p
      <3>1. at'[q].place \notin {"run", "serve"}
        BY <2>2, <2>4, <2>5, <2>8, Places DEF After, Service
      <3>2. QED
        BY <1>0, <2>3, <2>4, <2>8, <3>1 DEF Origin
    <2>9. CASE q # c /\ q # p
      BY <1>0, <2>3, <2>5, <2>6, <2>9 DEF Origin
    <2>10. QED
      BY <2>7, <2>8, <2>9
  <1>3. ASSUME NEW p \in Proc, NEW v \in Place, Moved(p, v)
        PROVE  Origin'
    <2>1. at'[p] = v /\ \A q \in Proc : q # p => at'[q] = at[q]
      BY <1>0, <1>3, After3
    <2>2. at[p] # None /\ wanted' = wanted
      BY <1>3, Mover DEF Moved
    <2>3. v.place \in {"run", "serve"}
             => at[p].place \in {"run", "serve"} /\ v.service = at[p].service
      BY <1>3, Places DEF Moved, Goes, Service
    <2>4. QED
      BY <1>0, <2>1, <2>2, <2>3 DEF Origin
  <1>4. QED
    BY <1>1, <1>2, <1>3, Steps DEF MainInv

LEMMA ShapeStep ==
    ASSUME MainInv, Next
    PROVE  Shape'
  <1>0. Typing /\ Shape
    BY DEF MainInv
  <1>1. ASSUME NEW w \in Arguments, Start(w)
        PROVE  Shape'
    <2>1. PICK n \in 1 .. MaxStarts : n = starts + 1
      BY <1>0, <1>1, After3
    <2>2. at'[First(n)] = In("fork", "rest") /\ starts' = n
          /\ \A q \in Proc : q # First(n) => at'[q] = at[q]
      BY <1>0, <1>1, <2>1, After3
    <2>3. First(n).start = n /\ Allowed(First(n), In("fork", "rest"))
      BY Different DEF Allowed, Forks
    <2>4. \A q \in Proc : q.start <= starts => q.start <= starts'
      BY <1>0, <2>1, <2>2, ServerMainAssumption DEF Typing, Proc
    <2>5. n <= starts'
      BY <2>2
    <2>6. QED
      BY <1>0, <2>2, <2>3, <2>4, <2>5 DEF Shape
  <1>2. ASSUME NEW p \in Proc, NEW s \in Service, Fork(p, s)
        PROVE  Shape'
    <2>1. PICK c \in Proc : c = Child(p, s)
      BY <1>2, Forked
    <2>2. at[c] = None /\ c.start = p.start /\ p.start <= starts
      BY <1>2, <2>1, Forked
    <2>3. at[p] = In("fork", s) /\ starts' = starts
      BY <1>2 DEF Fork
    <2>4. at[p] # None
      BY <2>3, Places
    <2>5. at'[p] = After(s) /\ at'[c] = In("run", s)
          /\ \A q \in Proc : q # p /\ q # c => at'[q] = at[q]
      BY <1>0, <1>2, <2>1, <2>2, <2>4, After3
    <2>6. \/ p = First(p.start) /\ s = "rest" /\ c = Rest(p.start)
          \/ p = First(p.start) /\ s = "broadcast" /\ c = OnlyBroadcast(p.start)
          \/ p = First(p.start) /\ s = "health" /\ c = OnlyHealth(p.start)
          \/ p = Rest(p.start) /\ s = "broadcast" /\ c = RestBroadcast(p.start)
          \/ p = Rest(p.start) /\ s = "health" /\ c = RestHealth(p.start)
      BY <1>2, <2>1, Forked
    <2>7. Allowed(p, After(s))
      BY <2>6 DEF Allowed, After, Forks, LateForks
    <2>8. Allowed(c, In("run", s))
      BY <2>2, <2>6 DEF Allowed, Runs
    <2>9. QED
      BY <1>0, <2>2, <2>3, <2>5, <2>7, <2>8 DEF Shape
  <1>3. ASSUME NEW p \in Proc, NEW v \in Place, Moved(p, v)
        PROVE  Shape'
    <2>1. at'[p] = v /\ \A q \in Proc : q # p => at'[q] = at[q]
      BY <1>0, <1>3, After3
    <2>2. PICK u : u = at[p]
      OBVIOUS
    <2>3. Allowed(p, u) /\ p.start <= starts /\ starts' = starts /\ Goes(u, v)
      BY <1>3, <2>2, Mover DEF Moved
    <2>4. Allowed(p, v)
      <3>1. CASE p = First(p.start) /\ u \in Forks \cup {Wait, Gone}
        BY <2>3, <3>1, Places DEF Goes, Allowed, Forks, LateForks
      <3>2. CASE p = Rest(p.start) /\ u \in Runs("rest") \cup LateForks \cup {Wait, Gone}
        BY <2>3, <3>2, Places DEF Goes, Allowed, Runs, LateForks
      <3>3. CASE /\ \/ p = OnlyBroadcast(p.start)
                    \/ p = RestBroadcast(p.start)
                 /\ u \in Runs("broadcast") \cup {Gone}
        BY <2>3, <3>3, Places DEF Goes, Allowed, Runs
      <3>4. CASE /\ \/ p = OnlyHealth(p.start)
                    \/ p = RestHealth(p.start)
                 /\ u \in Runs("health") \cup {Gone}
        BY <2>3, <3>4, Places DEF Goes, Allowed, Runs
      <3>5. QED
        BY <2>3, <3>1, <3>2, <3>3, <3>4 DEF Allowed
    <2>5. QED
      BY <1>0, <2>1, <2>3, <2>4 DEF Shape
  <1>4. QED
    BY <1>1, <1>2, <1>3, Steps DEF MainInv

\* A step changes the processes of one start; of Ahead, only its part.
AheadIn(k) ==
    /\ at[First(k)] = In("fork", "rest") => at[Rest(k)] = None
    /\ at[First(k)] \in {In("fork", "rest"), In("fork", "broadcast")}
          => at[OnlyBroadcast(k)] = None
    /\ at[First(k)] \in Forks => at[OnlyHealth(k)] = None
    /\ at[Rest(k)] \in Runs("rest") \cup {None, In("fork", "broadcast")}
          => at[RestBroadcast(k)] = None
    /\ at[Rest(k)] \in Runs("rest") \cup LateForks \cup {None}
          => at[RestHealth(k)] = None

LEMMA AheadStep ==
    ASSUME MainInv, Next
    PROVE  Ahead'
  <1>0. Typing /\ \A k \in 1 .. MaxStarts : AheadIn(k)
    BY DEF MainInv, Ahead, AheadIn
  <1>u. ASSUME NEW k \in 1 .. MaxStarts,
               \A q \in Proc : q.start = k => at'[q] = at[q]
        PROVE  AheadIn(k)'
    <2>1. \A q \in {First(k), Rest(k), OnlyBroadcast(k), RestBroadcast(k), OnlyHealth(k),
                    RestHealth(k)} : at'[q] = at[q]
      BY <1>u, Processes, Different
    <2>2. QED
      BY <1>0, <2>1 DEF AheadIn
  <1>1. ASSUME NEW w \in Arguments, Start(w), NEW k \in 1 .. MaxStarts
        PROVE  AheadIn(k)'
    <2>1. PICK n \in 1 .. MaxStarts : n = starts + 1
      BY <1>0, <1>1, After3
    <2>2. at'[First(n)] = In("fork", "rest")
          /\ \A q \in Proc : q # First(n) => at'[q] = at[q]
      BY <1>0, <1>1, <2>1, After3
    <2>3. CASE k = n
      <3>1. \A q \in {Rest(k), OnlyBroadcast(k), RestBroadcast(k), OnlyHealth(k),
                      RestHealth(k)} : q \in Proc /\ q.start = k /\ q # First(k)
        BY Processes, Different
      <3>2. \A q \in {Rest(k), OnlyBroadcast(k), RestBroadcast(k), OnlyHealth(k),
                      RestHealth(k)} : at'[q] = None
        BY <2>1, <2>2, <2>3, <3>1, Fresh
      <3>3. QED
        BY <3>2 DEF AheadIn
    <2>4. CASE k # n
      BY <1>u, <2>2, <2>4, Different
    <2>5. QED
      BY <2>3, <2>4
  <1>2. ASSUME NEW p \in Proc, NEW s \in Service, Fork(p, s), NEW k \in 1 .. MaxStarts
        PROVE  AheadIn(k)'
    <2>1. PICK c \in Proc : c = Child(p, s)
      BY <1>2, Forked
    <2>2. at[c] = None /\ c.start = p.start
      BY <1>2, <2>1, Forked
    <2>3. at[p] = In("fork", s) /\ at[p] # None
      BY <1>2, Places DEF Fork
    <2>5. at'[p] = After(s) /\ at'[c] = In("run", s)
          /\ \A q \in Proc : q # p /\ q # c => at'[q] = at[q]
      BY <1>0, <1>2, <2>1, <2>2, <2>3, After3
    <2>6. CASE p.start = k
      <3>1. \/ p = First(k) /\ s = "rest" /\ c = Rest(k)
            \/ p = First(k) /\ s = "broadcast" /\ c = OnlyBroadcast(k)
            \/ p = First(k) /\ s = "health" /\ c = OnlyHealth(k)
            \/ p = Rest(k) /\ s = "broadcast" /\ c = RestBroadcast(k)
            \/ p = Rest(k) /\ s = "health" /\ c = RestHealth(k)
        BY <1>2, <2>1, <2>6, Forked
      <3>2. /\ First(k) \in Proc /\ Rest(k) \in Proc /\ OnlyBroadcast(k) \in Proc
            /\ RestBroadcast(k) \in Proc /\ OnlyHealth(k) \in Proc /\ RestHealth(k) \in Proc
        BY Processes
      <3>3. AheadIn(k)
        BY <1>0
      <3>4. CASE p = First(k) /\ s = "rest" /\ c = Rest(k)
        BY <2>2, <2>3, <2>5, <3>2, <3>3, <3>4, Different, Places
           DEF AheadIn, After, Forks, Runs, LateForks
      <3>5. CASE p = First(k) /\ s = "broadcast" /\ c = OnlyBroadcast(k)
        BY <2>2, <2>3, <2>5, <3>2, <3>3, <3>5, Different, Places
           DEF AheadIn, After, Forks, Runs, LateForks
      <3>6. CASE p = First(k) /\ s = "health" /\ c = OnlyHealth(k)
        BY <2>2, <2>3, <2>5, <3>2, <3>3, <3>6, Different, Places
           DEF AheadIn, After, Forks, Runs, LateForks
      <3>7. CASE p = Rest(k) /\ s = "broadcast" /\ c = RestBroadcast(k)
        BY <2>2, <2>3, <2>5, <3>2, <3>3, <3>7, Different, Places
           DEF AheadIn, After, Forks, Runs, LateForks
      <3>8. CASE p = Rest(k) /\ s = "health" /\ c = RestHealth(k)
        BY <2>2, <2>3, <2>5, <3>2, <3>3, <3>8, Different, Places
           DEF AheadIn, After, Forks, Runs, LateForks
      <3>9. QED
        BY <3>1, <3>4, <3>5, <3>6, <3>7, <3>8
    <2>7. CASE p.start # k
      BY <1>u, <2>2, <2>5, <2>7
    <2>8. QED
      BY <2>6, <2>7
  <1>3. ASSUME NEW p \in Proc, NEW v \in Place, Moved(p, v), NEW k \in 1 .. MaxStarts
        PROVE  AheadIn(k)'
    <2>1. at'[p] = v /\ \A q \in Proc : q # p => at'[q] = at[q]
      BY <1>0, <1>3, After3
    <2>2. PICK u : u = at[p]
      OBVIOUS
    <2>3. Allowed(p, u) /\ Goes(u, v) /\ u # None /\ v # None
      BY <1>3, <2>2, Mover DEF Moved
    <2>4. CASE p.start = k
      <3>1. /\ First(k) \in Proc /\ Rest(k) \in Proc /\ OnlyBroadcast(k) \in Proc
            /\ RestBroadcast(k) \in Proc /\ OnlyHealth(k) \in Proc /\ RestHealth(k) \in Proc
        BY Processes
      <3>2. AheadIn(k)
        BY <1>0
      <3>3. CASE p = First(k)
        <4>1. \A q \in {Rest(k), OnlyBroadcast(k), RestBroadcast(k), OnlyHealth(k),
                        RestHealth(k)} : at'[q] = at[q]
          BY <2>1, <3>1, <3>3, Different
        <4>2. u \in Forks \cup {Wait, Gone}
          BY <2>3, <2>4, <3>3, Different DEF Allowed
        <4>3. /\ v = In("fork", "rest") => u = In("fork", "rest")
              /\ v \in {In("fork", "rest"), In("fork", "broadcast")}
                    => u \in {In("fork", "rest"), In("fork", "broadcast")}
              /\ v \in Forks => u \in Forks
          BY <2>3, <4>2, Places DEF Goes, Forks, LateForks
        <4>4. QED
          BY <2>1, <2>2, <3>2, <3>3, <4>1, <4>3 DEF AheadIn
      <3>4. CASE p = Rest(k)
        <4>1. \A q \in {First(k), OnlyBroadcast(k), RestBroadcast(k), OnlyHealth(k),
                        RestHealth(k)} : at'[q] = at[q]
          BY <2>1, <3>1, <3>4, Different
        <4>2. u \in Runs("rest") \cup LateForks \cup {Wait, Gone}
          BY <2>3, <2>4, <3>4, Different DEF Allowed
        <4>3. v # In("run", "rest")
          BY <2>3, <4>2, Places DEF Goes
        <4>4. /\ v \in Runs("rest") \cup {None, In("fork", "broadcast")}
                    => u \in Runs("rest") \cup {None, In("fork", "broadcast")}
              /\ v \in Runs("rest") \cup LateForks \cup {None}
                    => u \in Runs("rest") \cup LateForks \cup {None}
          BY <2>3, <4>2, Places DEF Goes, Runs, LateForks
        <4>5. at[First(k)] = In("fork", "rest") => at[Rest(k)] = None
          BY <3>2 DEF AheadIn
        <4>6. QED
          BY <2>1, <2>2, <2>3, <3>2, <3>4, <4>1, <4>4, <4>5 DEF AheadIn
      <3>5. CASE p \notin {First(k), Rest(k)}
        <4>1. at'[First(k)] = at[First(k)] /\ at'[Rest(k)] = at[Rest(k)]
          BY <2>1, <3>1, <3>5
        <4>2. \A q \in Proc : at[q] = None => at'[q] = None
          BY <2>1, <2>2, <2>3
        <4>3. QED
          BY <3>1, <3>2, <4>1, <4>2 DEF AheadIn
      <3>6. QED
        BY <3>3, <3>4, <3>5
    <2>5. CASE p.start # k
      BY <1>u, <2>1, <2>5
    <2>6. QED
      BY <2>4, <2>5
  <1>4. \A k \in 1 .. MaxStarts : AheadIn(k)'
    BY <1>0, <1>1, <1>2, <1>3, Steps
  <1>5. QED
    BY <1>4 DEF Ahead, AheadIn

\* Who serves REST is a REST child, which has forked nothing.
LEMMA Server ==
    ASSUME MainInv, NEW q \in Proc, at[q] = In("serve", "rest")
    PROVE  /\ q.start \in 1 .. MaxStarts /\ q = Rest(q.start)
           /\ at[RestHealth(q.start)] = None
  <1>1. q.start \in 1 .. MaxStarts /\ at[q] # None
    BY Places DEF Proc
  <1>2. Allowed(q, In("serve", "rest"))
    BY <1>1 DEF MainInv, Shape
  <1>3. q = Rest(q.start)
    BY <1>2, Places DEF Allowed, Runs, Forks, LateForks
  <1>4. at[RestHealth(q.start)] = None
    BY <1>1, <1>3 DEF MainInv, Ahead, Runs
  <1>5. QED
    BY <1>1, <1>3, <1>4

LEMMA WinnerStep ==
    ASSUME MainInv, Next
    PROVE  Winner'
  <1>0. Typing /\ Winner
    BY DEF MainInv
  <1>p. ASSUME NEW k \in 1 .. MaxStarts
        PROVE  Rest(k) \in Proc /\ RestHealth(k) \in Proc /\ First(k) \in Proc
               /\ OnlyHealth(k) \in Proc /\ OnlyBroadcast(k) \in Proc
               /\ RestBroadcast(k) \in Proc
               /\ Rest(k).start = k /\ RestHealth(k).start = k
    BY Processes, Different
  <1>1. ASSUME NEW w \in Arguments, Start(w)
        PROVE  Winner'
    <2>1. PICK n \in 1 .. MaxStarts : n = starts + 1
      BY <1>0, <1>1, After3
    <2>2. \A q \in Proc : q # First(n) => at'[q] = at[q]
      BY <1>0, <1>1, <2>1, After3
    <2>3. \A k \in 1 .. MaxStarts :
             at'[Rest(k)] = at[Rest(k)] /\ at'[RestHealth(k)] = at[RestHealth(k)]
      BY <1>p, <2>2, Different
    <2>4. Winners' <=> Winners
      BY <2>3 DEF Winners, Kept, Returned
    <2>5. unbound' = unbound
      BY <1>1 DEF Start
    <2>6. QED
      BY <1>0, <2>4, <2>5 DEF Winner
  <1>2. ASSUME NEW p \in Proc, NEW s \in Service, Fork(p, s)
        PROVE  Winner'
    <2>1. PICK c \in Proc : c = Child(p, s)
      BY <1>2, Forked
    <2>2. at[c] = None /\ c.start = p.start /\ p.start \in 1 .. MaxStarts
      BY <1>2, <2>1, Forked
    <2>3. at[p] = In("fork", s) /\ at[p] # None
      BY <1>2, Places DEF Fork
    <2>4. at'[c] = In("run", s) /\ at'[p] = After(s)
          /\ \A q \in Proc : q # p /\ q # c => at'[q] = at[q]
      BY <1>0, <1>2, <2>1, <2>2, <2>3, After3
    <2>5. PICK m \in 1 .. MaxStarts : m = p.start
      BY <2>2
    <2>6. \/ p = First(m) /\ s = "rest" /\ c = Rest(m)
          \/ p = First(m) /\ s = "broadcast" /\ c = OnlyBroadcast(m)
          \/ p = First(m) /\ s = "health" /\ c = OnlyHealth(m)
          \/ p = Rest(m) /\ s = "broadcast" /\ c = RestBroadcast(m)
          \/ p = Rest(m) /\ s = "health" /\ c = RestHealth(m)
      BY <1>2, <2>1, <2>5, Forked
    <2>7. ASSUME NEW k \in 1 .. MaxStarts, Kept(k)
          PROVE  Kept(k)'
      <3>1. at[Rest(k)] \in {In("serve", "rest"), Gone} /\ at[RestHealth(k)] = None
        BY <2>7 DEF Kept
      <3>2. p # Rest(k) /\ c # Rest(k) /\ p # RestHealth(k)
        BY <2>2, <2>3, <3>1, Places
      <3>3. c # RestHealth(k)
        <4>1. ASSUME c = RestHealth(k)
              PROVE  FALSE
          <5>1. p = Rest(m) /\ c = RestHealth(m)
            BY <2>6, <4>1, Different
          <5>2. k = m
            BY <1>p, <4>1, <5>1
          <5>3. QED
            BY <3>2, <5>1, <5>2
        <4>2. QED
          BY <4>1
      <3>4. at'[Rest(k)] = at[Rest(k)] /\ at'[RestHealth(k)] = at[RestHealth(k)]
        BY <1>p, <2>4, <3>2, <3>3
      <3>5. QED
        BY <3>1, <3>4 DEF Kept
    <2>8. ASSUME NEW k \in 1 .. MaxStarts, Returned(k)'
          PROVE  \E j \in 1 .. MaxStarts : Returned(j)
      <3>1. CASE p = Rest(m)
        <4>1. Returned(m)
          BY <2>3, <2>6, <3>1, Different DEF Returned, LateForks
        <4>2. QED
          BY <4>1
      <3>2. CASE p = First(m) /\ c # Rest(k)
        <4>1. Rest(k) # p /\ RestHealth(k) # p /\ RestHealth(k) # c
          BY <2>6, <3>2, Different
        <4>2. at'[Rest(k)] = at[Rest(k)] /\ at'[RestHealth(k)] = at[RestHealth(k)]
          BY <1>p, <2>4, <3>2, <4>1
        <4>3. QED
          BY <2>8, <4>2 DEF Returned
      <3>3. CASE p = First(m) /\ c = Rest(k)
        <4>1. at'[Rest(k)] = In("run", "rest") /\ s = "rest"
          BY <2>4, <2>6, <3>3, Different
        <4>2. RestHealth(k) # p /\ RestHealth(k) # c
          BY <3>3, Different
        <4>3. at[RestHealth(k)] # None
          BY <1>p, <2>4, <2>8, <4>1, <4>2, Places DEF Returned, LateForks
        <4>4. QED
          BY <4>3 DEF Returned
      <3>4. QED
        BY <2>6, <3>1, <3>2, <3>3
    <2>9. Winners => Winners'
      BY <2>7, <2>8 DEF Winners
    <2>10. unbound' = unbound
      BY <1>2 DEF Fork
    <2>11. QED
      BY <1>0, <2>9, <2>10 DEF Winner
  <1>3. ASSUME NEW p \in Proc, NEW v \in Place, Moved(p, v)
        PROVE  Winner'
    <2>1. at'[p] = v /\ \A q \in Proc : q # p => at'[q] = at[q]
      BY <1>0, <1>3, After3
    <2>2. PICK u : u = at[p]
      OBVIOUS
    <2>3. Allowed(p, u) /\ Goes(u, v) /\ u # None /\ v # None
      BY <1>3, <2>2, Mover DEF Moved
    <2>4. ASSUME NEW k \in 1 .. MaxStarts, Kept(k)
          PROVE  Kept(k)'
      <3>1. at[Rest(k)] \in {In("serve", "rest"), Gone} /\ at[RestHealth(k)] = None
        BY <2>4 DEF Kept
      <3>2. at'[RestHealth(k)] = None
        BY <1>p, <2>1, <2>2, <2>3, <3>1
      <3>3. CASE p = Rest(k)
        <4>1. v = Gone
          BY <2>2, <2>3, <3>1, <3>3, Places DEF Goes
        <4>2. QED
          BY <2>1, <3>2, <3>3, <4>1 DEF Kept
      <3>4. CASE p # Rest(k)
        BY <1>p, <2>1, <3>1, <3>2, <3>4 DEF Kept
      <3>5. QED
        BY <3>3, <3>4
    <2>5. ASSUME NEW k \in 1 .. MaxStarts, Returned(k)', ~Returned(k), ~unbound'
          PROVE  \E j \in 1 .. MaxStarts : Kept(j)
      <3>1. at'[RestHealth(k)] = None
        BY <1>p, <2>1, <2>2, <2>3, <2>5 DEF Returned
      <3>2. at'[Rest(k)] \in LateForks \cup {Wait} /\ at[Rest(k)] \notin LateForks \cup {Wait}
        BY <2>5, <3>1 DEF Returned
      <3>3. p = Rest(k)
        BY <1>p, <2>1, <3>2
      <3>4. u \in Runs("rest") \cup {Gone} /\ v \in LateForks \cup {Wait}
        BY <2>1, <2>2, <2>3, <3>2, <3>3, Different DEF Allowed
      <3>5. Serving("rest") # {}
        BY <2>3, <2>5, <3>4, Places DEF Goes, Runs, LateForks
      <3>6. PICK q \in Proc : at[q] = In("serve", "rest")
        BY <3>5 DEF Serving
      <3>7. q.start \in 1 .. MaxStarts /\ q = Rest(q.start) /\ at[RestHealth(q.start)] = None
        BY <3>6, Server
      <3>8. QED
        BY <3>6, <3>7 DEF Kept
    <2>6. unbound => unbound'
      BY <1>3 DEF Moved
    <2>7. ~unbound' /\ Winners => Winners'
      BY <2>4, <2>5 DEF Winners
    <2>8. QED
      BY <1>0, <2>6, <2>7 DEF Winner
  <1>4. QED
    BY <1>0, <1>1, <1>2, <1>3, Steps

LEMMA OneEachStep ==
    ASSUME MainInv, Next
    PROVE  OneEach'
  <1>0. Typing /\ OneEach
    BY DEF MainInv
  <1>1. ASSUME NEW s \in {"rest", "broadcast"}, Serving(s)' \subseteq Serving(s)
        PROVE  \A p, q \in Serving(s)' : p = q
    BY <1>0, <1>1 DEF OneEach
  <1>2. ASSUME NEW w \in Arguments, Start(w), NEW s \in {"rest", "broadcast"}
        PROVE  Serving(s)' \subseteq Serving(s)
    <2>1. \A q \in Proc : at'[q] = at[q] \/ at'[q] = In("fork", "rest")
      BY <1>0, <1>2, After3
    <2>2. QED
      BY <2>1, Places DEF Serving
  <1>3. ASSUME NEW p \in Proc, NEW x \in Service, Fork(p, x), NEW s \in {"rest", "broadcast"}
        PROVE  Serving(s)' \subseteq Serving(s)
    <2>1. p # Child(p, x)
      <3>1. at[Child(p, x)] = None
        BY <1>3, Forked
      <3>2. at[p] # None
        BY <1>3, Places DEF Fork
      <3>3. QED
        BY <3>1, <3>2
    <2>2. \A q \in Proc : at'[q] = at[q] \/ at'[q] = After(x) \/ at'[q] = In("run", x)
      BY <1>0, <1>3, <2>1, After3
    <2>3. In("serve", s) # After(x) /\ In("serve", s) # In("run", x)
      BY Places DEF After, Service
    <2>4. QED
      BY <2>2, <2>3 DEF Serving
  <1>4. ASSUME NEW p \in Proc, NEW v \in Place, Moved(p, v), NEW s \in {"rest", "broadcast"}
        PROVE  \A q, r \in Serving(s)' : q = r
    <2>1. at'[p] = v /\ \A q \in Proc : q # p => at'[q] = at[q]
      BY <1>0, <1>4, After3
    <2>2. CASE v = In("serve", s)
      <3>1. Serving(s) = {}
        BY <1>4, <2>2, Places DEF Moved, Goes
      <3>2. \A q \in Serving(s)' : q = p
        BY <2>1, <3>1 DEF Serving
      <3>3. QED
        BY <3>2
    <2>3. CASE v # In("serve", s)
      BY <1>1, <2>1, <2>3 DEF Serving
    <2>4. QED
      BY <2>2, <2>3
  <1>5. \A s \in {"rest", "broadcast"} : \A p, q \in Serving(s)' : p = q
    BY <1>0, <1>1, <1>2, <1>3, <1>4, Steps
  <1>6. QED
    BY <1>5 DEF OneEach

-----------------------------------------------------------------------------
(* The invariant holds.                                                     *)

LEMMA MainInit == ASSUME Init PROVE MainInv
  <1>1. \A p \in Proc : at[p] = None
    BY DEF Init
  <1>2. Typing
    <2>1. unbound \in BOOLEAN
      BY DEF Init
    <2>2. QED
      BY <2>1, ServerMainAssumption, Places DEF Init, Typing
  <1>3. Origin /\ Shape
    BY <1>1 DEF Origin, Shape
  <1>4. \A s \in Service : Serving(s) = {}
    BY <1>1, Places DEF Serving
  <1>5. OneEach
    BY <1>4 DEF OneEach, Service
  <1>6. \A k \in 1 .. MaxStarts :
           /\ at[First(k)] = None /\ at[Rest(k)] = None /\ at[OnlyBroadcast(k)] = None
           /\ at[OnlyHealth(k)] = None /\ at[RestBroadcast(k)] = None
           /\ at[RestHealth(k)] = None
    BY <1>1, Processes
  <1>7. Ahead
    BY <1>6 DEF Ahead
  <1>8. Winner
    BY <1>6, Places DEF Winner, Winners, Returned, LateForks
  <1>9. QED
    BY <1>2, <1>3, <1>5, <1>7, <1>8 DEF MainInv

LEMMA MainStep == ASSUME MainInv, [Next]_vars PROVE MainInv'
  <1>1. CASE Next
    BY <1>1, TypingStep, OriginStep, ShapeStep, AheadStep, WinnerStep, OneEachStep
       DEF MainInv
  <1>2. CASE UNCHANGED vars
    <2>1. Typing' /\ Origin' /\ Shape'
      BY <1>2 DEF MainInv, vars, Typing, Origin, Shape
    <2>2. Ahead' /\ Winner' /\ OneEach'
      BY <1>2 DEF MainInv, vars, Ahead, Winner, Winners, Kept, Returned, OneEach, Serving
    <2>3. QED
      BY <2>1, <2>2 DEF MainInv
  <1>3. QED
    BY <1>1, <1>2

LEMMA MainInvariant == Spec => []MainInv
  BY MainInit, MainStep, PTL DEF Spec

\* The variables of the server program have their types, processes do what they
\* were forked for, and no two of them serve at the same port (main.cc:13-59,
\* rest_server.cc:35-38, broadcast_server.cc:64-67).
THEOREM ServerMainTypeCorrect == Spec => []TypeOK
  <1>1. ASSUME MainInv
        PROVE  TypeOK
    <2>1. Typing
      BY <1>1 DEF MainInv
    <2>2. \A p \in Proc : at[p] # None =>
             /\ p.start <= starts
             /\ p.forks \subseteq wanted[p.start]
             /\ at[p].place \in {"run", "serve"} => at[p].service \in p.forks
      BY <1>1 DEF MainInv, Shape, Origin
    <2>3. ASSUME NEW s \in {"rest", "broadcast"}
          PROVE  Cardinality(Serving(s)) <= 1
      <3>1. PICK S : S = Serving(s)
        OBVIOUS
      <3>2. \A p, q \in S : p = q
        BY <1>1, <3>1 DEF MainInv, OneEach
      <3>3. CASE S = {}
        BY <3>1, <3>3, FS_EmptySet
      <3>4. CASE S # {}
        <4>1. PICK x : x \in S
          BY <3>4
        <4>2. S = {x}
          BY <3>2, <4>1
        <4>3. Cardinality({x}) = 1
          BY FS_Singleton
        <4>4. QED
          BY <3>1, <4>2, <4>3
      <3>5. QED
        BY <3>3, <3>4
    <2>4. QED
      BY <2>1, <2>2, <2>3 DEF TypeOK, Typing
  <1>2. QED
    BY <1>1, MainInvariant, PTL

-----------------------------------------------------------------------------
(* The health servers.                                                      *)

\* Of one start there is no health server behind the REST child: of the one that
\* got the port, or of any, when no REST child has returned to main; unless one has
\* failed to bind a port that was free.
LEMMA Spared ==
    ASSUME MainInv, starts > 0, ~unbound
    PROVE  \E k \in 1 .. starts : at[RestHealth(k)] = None
  <1>1. starts \in 1 .. MaxStarts /\ MaxStarts \in Nat
    BY ServerMainAssumption DEF MainInv, Typing
  <1>2. CASE \E k \in 1 .. MaxStarts : Returned(k)
    <2>1. PICK k \in 1 .. MaxStarts : Kept(k)
      BY <1>2 DEF MainInv, Winner, Winners
    <2>2. at[RestHealth(k)] = None /\ at[Rest(k)] # None
      BY <2>1, Places DEF Kept
    <2>3. Rest(k) \in Proc /\ Rest(k).start = k
      BY Processes, Different
    <2>4. k <= starts
      BY <2>2, <2>3 DEF MainInv, Shape
    <2>5. QED
      BY <1>1, <2>2, <2>4
  <1>3. CASE ~\E k \in 1 .. MaxStarts : Returned(k)
    <2>1. 1 \in 1 .. MaxStarts /\ 1 \in 1 .. starts
      BY <1>1
    <2>2. at[RestHealth(1)] = None
      BY <1>3, <2>1 DEF Returned
    <2>3. QED
      BY <2>1, <2>2
  <1>4. QED
    BY <1>2, <1>3

\* A health server is a child of the first process, or of a REST child.
LEMMA SweeperIs ==
    ASSUME MainInv, NEW p \in Sweepers
    PROVE  /\ p.start \in 1 .. starts
           /\ p = OnlyHealth(p.start) \/ p = RestHealth(p.start)
           /\ at[p] # None
  <1>1. p \in Proc /\ at[p] \in {In("run", "health"), In("serve", "health")}
    BY DEF Sweepers
  <1>2. PICK u : u = at[p]
    OBVIOUS
  <1>3. u # None
    BY <1>1, <1>2, Places
  <1>4. p.start <= starts /\ Allowed(p, u)
    BY <1>1, <1>2, <1>3 DEF MainInv, Shape
  <1>5. p = OnlyHealth(p.start) \/ p = RestHealth(p.start)
    BY <1>1, <1>2, <1>4, Places DEF Allowed, Runs, Forks, LateForks
  <1>6. p.start \in 1 .. starts
    BY <1>1, <1>4, ServerMainAssumption DEF Proc, MainInv, Typing
  <1>7. QED
    BY <1>2, <1>3, <1>5, <1>6

\* A server that is started n times has fewer than 2 * n health servers: the
\* first processes of the starts have one each, and so have all their REST
\* children, but for one, unless one failed to bind (main.cc:10-18, 47-57,
\* rest_server.cc:33-46).
THEOREM FewSweepers == Spec => []SweepersBounded
  <1>1. ASSUME MainInv
        PROVE  SweepersBounded
    <2>1. SUFFICES ASSUME starts > 0
                   PROVE  Cardinality(Sweepers)
                             <= IF unbound THEN 2 * starts ELSE 2 * starts - 1
      BY DEF SweepersBounded
    <2>2. PICK n \in Nat : n = starts /\ n > 0
      BY <1>1, <2>1, ServerMainAssumption DEF MainInv, Typing
    <2>3. PICK m \in 1 .. n + 1 : /\ m = n + 1 => unbound
                                  /\ m # n + 1 => at[RestHealth(m)] = None
      <3>1. CASE unbound
        <4>1. n + 1 \in 1 .. n + 1
          BY <2>2
        <4>2. QED
          BY <3>1, <4>1
      <3>2. CASE ~unbound
        <4>1. PICK k \in 1 .. n : at[RestHealth(k)] = None
          BY <1>1, <2>1, <2>2, <3>2, Spared
        <4>2. k \in 1 .. n + 1 /\ k # n + 1
          BY <2>2
        <4>3. QED
          BY <4>1, <4>2
      <3>3. QED
        BY <3>1, <3>2
    <2>4. PICK S : S = Sweepers
      OBVIOUS
    <2>5. ASSUME NEW p \in S
          PROVE  /\ p.start \in 1 .. n
                 /\ p = OnlyHealth(p.start) \/ (p = RestHealth(p.start) /\ p.start # m)
      <3>1. /\ p.start \in 1 .. n /\ at[p] # None
            /\ p = OnlyHealth(p.start) \/ p = RestHealth(p.start)
        BY <1>1, <2>2, <2>4, SweeperIs
      <3>2. p.start # n + 1
        BY <2>2, <3>1
      <3>3. QED
        BY <2>3, <3>1, <3>2
    <2>6. \A k : OnlyHealth(k).forks = {"health"} /\ RestHealth(k).forks # {"health"}
      BY ForkSets DEF OnlyHealth, RestHealth
    <2> DEFINE place(p) == IF p.forks = {"health"} THEN p.start
                           ELSE IF p.start < m THEN n + p.start ELSE n + p.start - 1
               N == IF m = n + 1 THEN 2 * n ELSE 2 * n - 1
               T == 1 .. N
               f == [p \in S |-> place(p)]
    <2>7. ASSUME NEW p \in S
          PROVE  /\ place(p) \in T
                 /\ place(p) <= n <=> p = OnlyHealth(p.start)
      <3>1. PICK k \in 1 .. n : k = p.start
        BY <2>5
      <3>2. CASE p = OnlyHealth(k)
        <4>1. place(p) = k
          BY <2>6, <3>1, <3>2
        <4> HIDE DEF place
        <4>2. k \in T /\ k <= n
          OBVIOUS
        <4>3. QED
          BY <3>1, <3>2, <4>1, <4>2
      <3>3. CASE p = RestHealth(k) /\ k # m
        <4>1. place(p) = IF k < m THEN n + k ELSE n + k - 1
          BY <2>6, <3>1, <3>3
        <4>2. place(p) \in T /\ ~(place(p) <= n)
          BY <3>3, <4>1
        <4>3. p # OnlyHealth(p.start)
          BY <3>3, Different
        <4>4. QED
          BY <4>2, <4>3
      <3>4. QED
        BY <2>5, <3>1, <3>2, <3>3
    <2>8. ASSUME NEW p \in S, NEW q \in S, place(p) = place(q)
          PROVE  p = q
      <3>1. PICK j \in 1 .. n, k \in 1 .. n : j = p.start /\ k = q.start
        BY <2>5
      <3>2. p = OnlyHealth(j) <=> q = OnlyHealth(k)
        BY <2>7, <2>8, <3>1
      <3>3. CASE p = OnlyHealth(j) /\ q = OnlyHealth(k)
        <4>1. place(p) = j /\ place(q) = k
          BY <2>6, <3>1, <3>3
        <4>2. QED
          BY <2>8, <3>3, <4>1
      <3>4. CASE p = RestHealth(j) /\ j # m /\ q = RestHealth(k) /\ k # m
        <4>1. /\ place(p) = IF j < m THEN n + j ELSE n + j - 1
              /\ place(q) = IF k < m THEN n + k ELSE n + k - 1
          BY <2>6, <3>1, <3>4
        <4>2. j = k
          BY <2>8, <3>4, <4>1
        <4>3. QED
          BY <3>4, <4>2
      <3>5. QED
        BY <2>5, <3>1, <3>2, <3>3, <3>4
    <2>9. f \in Injection(S, T)
      <3>1. f \in [S -> T]
        BY <2>7
      <3> HIDE DEF T
      <3>2. \A p, q \in S : f[p] = f[q] => p = q
        BY <2>8
      <3> HIDE DEF f
      <3>3. QED
        BY <3>1, <3>2 DEF Injection, IsInjective
    <2>10. IsFiniteSet(T) /\ Cardinality(T) = N
      BY <2>2, FS_Interval
    <2>11. N \in Int
      BY <2>2
    <2>12. N <= IF unbound THEN 2 * n ELSE 2 * n - 1
      BY <2>2, <2>3
    <2> HIDE DEF T, f, N
    <2>13. IsFiniteSet(S) /\ Cardinality(S) <= Cardinality(T)
      BY <2>9, <2>10, FS_Injection
    <2>14. Cardinality(S) \in Nat
      BY <2>13, FS_CardinalityType
    <2>15. CASE unbound
      BY <2>2, <2>4, <2>10, <2>13, <2>15, <2>11, <2>12, <2>14
    <2>16. CASE ~unbound
      BY <2>2, <2>4, <2>10, <2>13, <2>16, <2>11, <2>12, <2>14
    <2>17. QED
      BY <2>15, <2>16
  <1>2. QED
    BY <1>1, MainInvariant, PTL

=============================================================================
