--------------------------- MODULE SessionProofs ---------------------------
(***************************************************************************)
(* Proofs about Session, for every set of users, addresses and lists: the  *)
(* threads start only for a user with a name, and the map holds nothing of *)
(* a list older than the last.                                             *)
(***************************************************************************)
EXTENDS Session, TLAPS

\* The steps of all the threads, one by one.
Steps == Verify \/ Toggle \/ SetName \/ SetPassphrase
         \/ Poll \/ Check \/ StartListener \/ StartAdvertiser \/ Kill
         \/ Listen \/ Insert \/ (\E l \in Lists : Receive(l))
         \/ (\E id \in Name : Relay(id))
         \/ WaitForList \/ UpdateUserlist \/ SelectUser \/ Quit \/ LeaveChat
         \/ Find \/ GeneratePath \/ FirstHop \/ Crash \/ GpgEnds

\* Next is these steps.
LEMMA NextSteps == Next => Steps
  BY DEF Next, Steps, LogIn, MainThread, UIWorks, UserChooses, Serve

\* How far the login has come, and what main has seen of it.
LoginInv ==
    /\ ui = "login" => ~name
    /\ ui = "verified" => ~name
    /\ ui \in {"name", "passphrase"} => valid
    /\ ui \in {"login", "verified", "name", "passphrase"} => ~passphrase
    /\ name => valid
    /\ main \in {"listener", "advertiser", "join"} => name /\ passphrase
    /\ listener # "off" \/ advertiser => name /\ passphrase

\* No step of the threads lets main or the threads run ahead of the login.
LEMMA LoginStep ==
    ASSUME LoginInv, [Next]_vars
    PROVE  LoginInv'
  <1>1. CASE Verify
    BY <1>1 DEF LoginInv, Verify
  <1>2. CASE Toggle \/ SetName \/ SetPassphrase
    BY <1>2 DEF LoginInv, Toggle, SetName, SetPassphrase
  <1>3. CASE Poll \/ Check \/ StartListener \/ StartAdvertiser
    BY <1>3 DEF LoginInv, Poll, Check, StartListener, StartAdvertiser,
                session, IsAuthorized
  <1>4. CASE Kill \/ Crash \/ GpgEnds
    BY <1>4 DEF LoginInv, Kill, Crash, GpgEnds, Dies, session
  <1>5. CASE Listen \/ Insert \/ (\E l \in Lists : Receive(l))
             \/ (\E id \in Name : Relay(id))
    BY <1>5 DEF LoginInv, Listen, Insert, Receive, Relay, session
  <1>6. CASE WaitForList \/ UpdateUserlist \/ SelectUser \/ Quit \/ LeaveChat
             \/ Find \/ GeneratePath \/ FirstHop
    BY <1>6 DEF LoginInv, WaitForList, UpdateUserlist, SelectUser, Quit,
                LeaveChat, Find, GeneratePath, FirstHop, session
  <1>7. CASE UNCHANGED vars
    BY <1>7 DEF LoginInv, vars, session
  <1> QED
    BY <1>1, <1>2, <1>3, <1>4, <1>5, <1>6, <1>7, NextSteps DEF Steps

\* The listener and the advertiser run only for a user whose passphrase is
\* right and who has a name (main.cc:37-44).
THEOREM ThreadsAreNamed == Spec => []ThreadsHaveName
  <1>1. Init => LoginInv
    BY DEF Init, LoginInv
  <1>2. LoginInv /\ [Next]_vars => LoginInv'
    BY LoginStep
  <1>3. LoginInv => ThreadsHaveName
    BY DEF LoginInv, ThreadsHaveName
  <1> QED
    BY <1>1, <1>2, <1>3, PTL DEF Spec

-----------------------------------------------------------------------------

\* The map is what the listener has inserted of the latest list, and phantoms;
\* what it has yet to insert is the rest of that list; a listener starts once, and
\* does not go on in a dead process.
ListInv ==
    /\ \A id \in DOMAIN list :
          list[id] = NoAddr \/ (id \in DOMAIN latest /\ list[id] = latest[id])
    /\ DOMAIN todo \subseteq DOMAIN latest
    /\ \A id \in DOMAIN todo : todo[id] = latest[id]
    /\ DOMAIN latest \subseteq DOMAIN list \cup DOMAIN todo
    /\ DOMAIN todo = {} \/ listener = "insert" \/ main = "dead"
    /\ main \in {"poll", "check", "listener", "dead"} => listener = "off"

\* Looking an id up adds at most an empty address.
LEMMA PhantomStep ==
    ASSUME ListInv, NEW id \in Name, WithPhantom(id),
           UNCHANGED <<todo, latest, listener, main>>
    PROVE  ListInv'
  BY DEF ListInv, WithPhantom

\* The maps from some ids to addresses, possibly empty ones.
Maps == UNION {[D -> Addr \cup {NoAddr}] : D \in SUBSET Name}

\* A list is a map from ids to addresses.
LEMMA MapFacts ==
    /\ \A f \in Maps : /\ DOMAIN f \subseteq Name
                      /\ \A x \in DOMAIN f : f[x] \in Addr \cup {NoAddr}
    /\ \A f \in NodeList : /\ DOMAIN f \subseteq Name
                          /\ \A x \in DOMAIN f : f[x] \in Addr
    /\ \A D \in SUBSET Name : \A f \in [D -> Addr \cup {NoAddr}] : f \in Maps
    /\ \A D \in SUBSET Name : \A f \in [D -> Addr] : f \in NodeList
  BY DEF Maps, NodeList

\* The empty map is one.
LEMMA NoneIsMap == None \in Maps /\ None \in NodeList
  <1>1. None \in [{} -> Addr] /\ None \in [{} -> Addr \cup {NoAddr}]
    BY DEF None
  <1>2. {} \in SUBSET Name
    OBVIOUS
  <1> QED
    BY <1>1, <1>2, MapFacts

\* TypeOK but for the three maps.
PlainTypes ==
    /\ main \in {"poll", "check", "listener", "advertiser", "join", "abort",
                 "dead"}
    /\ ui \in {"login", "verified", "name", "passphrase", "wait", "users",
               "select", "chat", "path", "hop", "ended"}
    /\ listener \in {"off", "started", "failed", "accept", "insert"}
    /\ advertiser \in BOOLEAN
    /\ valid \in BOOLEAN /\ authed \in BOOLEAN
    /\ name \in BOOLEAN /\ passphrase \in BOOLEAN
    /\ userlist \subseteq Name \ {Self}
    /\ peer \in Name /\ next \in Name

MapTypes == list \in Maps /\ todo \in NodeList /\ latest \in NodeList

\* TypeOK in two halves.
LEMMA Halves == TypeOK <=> PlainTypes /\ MapTypes
  BY DEF TypeOK, PlainTypes, MapTypes, Maps

\* The step of the plain variables.
LEMMA PlainStep ==
    ASSUME PlainTypes, MapTypes, [Next]_vars
    PROVE  PlainTypes'
  <1>1. CASE Verify \/ Toggle \/ SetName \/ SetPassphrase
    BY <1>1 DEF PlainTypes, Verify, Toggle, SetName, SetPassphrase, choice
  <1>2. CASE Poll \/ Check \/ StartListener \/ StartAdvertiser
    BY <1>2 DEF PlainTypes, Poll, Check, StartListener, StartAdvertiser,
                session, choice
  <1>3. CASE Kill \/ Crash \/ GpgEnds
    BY <1>3 DEF PlainTypes, Kill, Crash, GpgEnds, Dies, session, choice
  <1>4. CASE Listen \/ Insert \/ (\E l \in Lists : Receive(l))
             \/ (\E id \in Name : Relay(id))
    BY <1>4 DEF PlainTypes, Listen, Insert, Receive, Relay, session, choice
  <1>5. CASE WaitForList \/ Quit \/ LeaveChat \/ Find \/ FirstHop
    BY <1>5 DEF PlainTypes, WaitForList, Quit, LeaveChat, Find, FirstHop,
                session, choice
  <1>6. CASE UpdateUserlist \/ SelectUser
    BY <1>6, MapFacts DEF PlainTypes, MapTypes, UpdateUserlist, SelectUser,
                session
  <1>7. CASE GeneratePath
    <2>1. next' \in Name
      BY <1>7, MapFacts DEF PlainTypes, MapTypes, GeneratePath
    <2> QED
      BY <1>7, <2>1 DEF PlainTypes, GeneratePath, session
  <1>8. CASE UNCHANGED vars
    BY <1>8 DEF PlainTypes, vars, session, choice
  <1> QED
    BY <1>1, <1>2, <1>3, <1>4, <1>5, <1>6, <1>7, <1>8, NextSteps DEF Steps

\* Looking an id up keeps the map one.
LEMMA PhantomTypes ==
    ASSUME MapTypes, NEW id \in Name, WithPhantom(id)
    PROVE  list' \in Maps
  <1>1. DOMAIN list \cup {id} \in SUBSET Name
    BY MapFacts DEF MapTypes
  <1>2. list' \in [DOMAIN list \cup {id} -> Addr \cup {NoAddr}]
    BY MapFacts DEF MapTypes, WithPhantom
  <1> QED
    BY <1>1, <1>2, MapFacts

\* The step of the maps.
LEMMA MapStep ==
    ASSUME PlainTypes, MapTypes, [Next]_vars
    PROVE  MapTypes'
  <1>1. CASE Insert
    <2>1. PICK id \in DOMAIN todo :
             /\ list' = [x \in DOMAIN list \cup {id} |->
                           IF x \in DOMAIN list THEN list[x] ELSE todo[x]]
             /\ todo' = Restrict(todo, DOMAIN todo \ {id})
      BY <1>1 DEF Insert
    <2>2. DOMAIN list \cup {id} \in SUBSET Name
      BY MapFacts DEF MapTypes
    <2>3. list' \in [DOMAIN list \cup {id} -> Addr \cup {NoAddr}]
      BY <2>1, MapFacts DEF MapTypes
    <2>4. DOMAIN todo \ {id} \in SUBSET Name
      BY MapFacts DEF MapTypes
    <2>5. todo' \in [DOMAIN todo \ {id} -> Addr]
      BY <2>1, MapFacts DEF MapTypes, Restrict
    <2>6. latest' \in NodeList
      BY <1>1 DEF MapTypes, Insert
    <2> QED
      BY <2>2, <2>3, <2>4, <2>5, <2>6, MapFacts DEF MapTypes
  <1>2. ASSUME NEW l \in Lists, Receive(l)
        PROVE  MapTypes'
    BY <1>2, NoneIsMap, SessionAssumption DEF MapTypes, Receive, SessionAssumption
  <1>3. ASSUME NEW id \in Name, Relay(id)
        PROVE  MapTypes'
    BY <1>3, PhantomTypes DEF MapTypes, Relay
  <1>4. CASE FirstHop
    <2>1. next \in Name
      BY DEF PlainTypes
    <2> QED
      BY <1>4, <2>1, PhantomTypes DEF MapTypes, FirstHop
  <1>5. CASE \/ Verify \/ Toggle \/ SetName \/ SetPassphrase
             \/ Poll \/ Check \/ StartListener \/ StartAdvertiser
             \/ Kill \/ Crash \/ GpgEnds \/ Listen
             \/ WaitForList \/ UpdateUserlist \/ SelectUser \/ Quit
             \/ LeaveChat \/ Find \/ GeneratePath
    BY <1>5 DEF MapTypes, lists, Verify, Toggle, SetName, SetPassphrase, Poll,
         Check, StartListener, StartAdvertiser, Kill, Crash, GpgEnds, Dies, Listen,
         WaitForList, UpdateUserlist, SelectUser, Quit, LeaveChat, Find,
         GeneratePath
  <1>6. CASE UNCHANGED vars
    BY <1>6 DEF MapTypes, vars, lists
  <1> QED
    BY <1>1, <1>2, <1>3, <1>4, <1>5, <1>6, NextSteps DEF Steps

\* Every variable keeps its type.
THEOREM TypeCorrect == Spec => []TypeOK
  <1>1. Init => TypeOK
    BY NoneIsMap, Halves, SessionAssumption
       DEF Init, PlainTypes, MapTypes, SessionAssumption
  <1>2. TypeOK /\ [Next]_vars => TypeOK'
    BY PlainStep, MapStep, Halves DEF TypeOK, PlainTypes, MapTypes, Maps
  <1> QED
    BY <1>1, <1>2, PTL DEF Spec

-----------------------------------------------------------------------------

\* Every step keeps to the latest list.
LEMMA ListStep ==
    ASSUME ListInv, TypeOK, [Next]_vars
    PROVE  ListInv'
  <1>1. CASE Insert
    <2>1. PICK id \in DOMAIN todo :
             /\ list' = [x \in DOMAIN list \cup {id} |->
                           IF x \in DOMAIN list THEN list[x] ELSE todo[x]]
             /\ todo' = Restrict(todo, DOMAIN todo \ {id})
      BY <1>1 DEF Insert
    <2>2. /\ DOMAIN todo' = DOMAIN todo \ {id}
          /\ \A x \in DOMAIN todo' : todo'[x] = todo[x]
      BY <2>1 DEF Restrict
    <2>3. latest' = latest /\ listener' = IF todo' = None THEN "accept" ELSE "insert"
      BY <1>1 DEF Insert
    <2>4. DOMAIN todo' = {} \/ listener' = "insert"
      BY <2>3 DEF None
    <2>5. main' = main /\ listener = "insert"
      BY <1>1 DEF Insert
    <2> QED
      BY <2>1, <2>2, <2>3, <2>4, <2>5 DEF ListInv
  <1>2. ASSUME NEW l \in Lists, Receive(l)
        PROVE  ListInv'
    BY <1>2 DEF ListInv, Receive, None
  <1>3. ASSUME NEW id \in Name, Relay(id)
        PROVE  ListInv'
    BY <1>3, PhantomStep DEF Relay
  <1>4. CASE FirstHop
    <2>1. next \in Name
      BY DEF TypeOK
    <2> QED
      BY <1>4, <2>1, PhantomStep DEF FirstHop
  <1>5. CASE Kill \/ Crash \/ GpgEnds
    BY <1>5 DEF ListInv, Kill, Crash, GpgEnds, Dies, lists
  <1>6. CASE Listen
    BY <1>6 DEF ListInv, Listen, lists
  <1>7. CASE \/ Verify \/ Toggle \/ SetName \/ SetPassphrase
             \/ Poll \/ Check \/ StartAdvertiser
             \/ WaitForList \/ UpdateUserlist \/ SelectUser \/ Quit
             \/ LeaveChat \/ Find \/ GeneratePath
    BY <1>7 DEF ListInv, lists, Verify, Toggle, SetName, SetPassphrase, Poll,
         Check, StartAdvertiser, WaitForList, UpdateUserlist, SelectUser,
         Quit, LeaveChat, Find, GeneratePath
  <1>8. CASE StartListener
    BY <1>8 DEF ListInv, StartListener, lists
  <1>9. CASE UNCHANGED vars
    BY <1>9 DEF ListInv, vars, lists
  <1> QED
    BY <1>1, <1>2, <1>3, <1>4, <1>5, <1>6, <1>7, <1>8, <1>9, NextSteps DEF Steps

\* The map holds the addresses of the list received last, or empty ones, and
\* all of them once the list is in (listen.cc:53-57).
THEOREM NothingOlder == Spec => []LatestOnly
  <1>1. Init => ListInv
    BY DEF Init, ListInv, None
  <1>2. ListInv /\ TypeOK /\ [Next]_vars => ListInv'
    BY ListStep
  <1>3. ListInv => LatestOnly
    <2>1. SUFFICES ASSUME ListInv, listener = "accept"
                   PROVE  DOMAIN latest \subseteq DOMAIN list
      BY DEF ListInv, LatestOnly
    <2>2. main # "dead" /\ DOMAIN todo = {}
      BY <2>1 DEF ListInv
    <2> QED
      BY <2>1, <2>2 DEF ListInv
  <1> QED
    BY <1>1, <1>2, <1>3, TypeCorrect, PTL DEF Spec
=============================================================================
