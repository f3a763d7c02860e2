------------------------------ MODULE Session ------------------------------
(***************************************************************************)
(* One messenger process from its start: the thread of main, the UI thread *)
(* that logs the user in, and the listener thread main starts once it      *)
(* finds the session authed (src/client/main.cc:30-54).  They share, with  *)
(* no lock, the session's flag, name and passphrase, and the list of users *)
(* (src/client/messanger.h): the listener clears and refills the map one   *)
(* entry at a time while the UI thread finds, copies and inserts in it.    *)
(***************************************************************************)
EXTENDS Integers, SequencesExt

CONSTANTS
    Name,       \* user ids
    Self,       \* the one who logs in here
    Addr,       \* IPv4 addresses
    NoAddr,     \* the empty address operator[] inserts for a missing id
    Lists       \* the lists the server may send

NodeList == UNION {[D -> Addr] : D \in SUBSET Name}

ASSUME SessionAssumption ==
    /\ Self \in Name
    /\ NoAddr \notin Addr
    /\ Lists \subseteq NodeList
    /\ \A l \in Lists : DOMAIN l # {}     \* broadcast_server.cc:23

VARIABLES
    main,       \* where the thread of main is
    ui,         \* where the UI thread is
    listener,   \* where the listener thread is
    advertiser, \* the advertiser thread runs
    valid,      \* the passphrase gpg was given is right
    authed,     \* Messanger::authed
    name, passphrase,  \* Messanger: these are not empty
    list,       \* Messanger::node_list
    todo,       \* what the listener has yet to insert
    latest,     \* the list received last, for the properties only
    userlist,   \* UI::userlist, what the user may choose from
    peer,       \* whom the user chats with
    next        \* the first hop of the message being sent

session == <<valid, authed, name, passphrase>>
choice  == <<userlist, peer, next>>
lists   == <<list, todo, latest>>
vars    == <<main, ui, listener, advertiser, session, lists, choice>>

None == <<>>    \* the empty map

TypeOK ==
    /\ main \in {"poll", "check", "listener", "advertiser", "join", "abort",
                 "dead"}
    /\ ui \in {"login", "verified", "name", "passphrase", "wait", "users",
               "select", "chat", "path", "hop", "ended"}
    /\ listener \in {"off", "started", "failed", "accept", "insert"}
    /\ advertiser \in BOOLEAN
    /\ valid \in BOOLEAN /\ authed \in BOOLEAN
    /\ name \in BOOLEAN /\ passphrase \in BOOLEAN
    /\ list \in UNION {[D -> Addr \cup {NoAddr}] : D \in SUBSET Name}
    /\ todo \in NodeList /\ latest \in NodeList
    /\ userlist \subseteq Name \ {Self}
    /\ peer \in Name /\ next \in Name

Init ==
    /\ main = "poll" /\ ui = "login" /\ listener = "off" /\ advertiser = FALSE
    /\ valid = FALSE /\ authed = FALSE /\ name = FALSE /\ passphrase = FALSE
    /\ list = None /\ todo = None /\ latest = None
    /\ userlist = {} /\ peer = Self /\ next = Self

-----------------------------------------------------------------------------
(* The UI thread logs in.                                                  *)

\* gpg signs with the passphrase, or fails.
Verify ==
    /\ ui = "login"
    /\ ui' = "verified"
    /\ valid' \in BOOLEAN
    /\ UNCHANGED <<main, listener, advertiser, authed, name, passphrase,
                   lists, choice>>

\* For a mutant: the flag tells a good login from a bad one.
Toggle_if_valid ==
    /\ ui = "verified"
    /\ authed' = valid
    /\ ui' = IF valid THEN "name" ELSE "ended"
    /\ UNCHANGED <<main, listener, advertiser, valid, name, passphrase,
                   lists, choice>>

\* The flag goes up whatever gpg said, and before the name is there.
Toggle ==
    /\ ui = "verified"
    /\ authed' = TRUE
    /\ ui' = IF valid THEN "name" ELSE "ended"
    /\ UNCHANGED <<main, listener, advertiser, valid, name, passphrase,
                   lists, choice>>

SetName ==
    /\ ui = "name"
    /\ name' = TRUE
    /\ ui' = "passphrase"
    /\ UNCHANGED <<main, listener, advertiser, valid, authed, passphrase,
                   lists, choice>>

\* A key may have no passphrase, and the user give none.
SetPassphrase ==
    /\ ui = "passphrase"
    /\ passphrase' \in BOOLEAN
    /\ ui' = "wait"
    /\ UNCHANGED <<main, listener, advertiser, valid, authed, name,
                   lists, choice>>

-----------------------------------------------------------------------------
(* The thread of main.                                                     *)

Poll ==
    /\ main = "poll" /\ authed
    /\ main' = "check"
    /\ UNCHANGED <<ui, listener, advertiser, session, lists, choice>>

\* For a mutant: who is authed is taken to be authorized.
IsAuthorized_authed == authed

IsAuthorized == name /\ passphrase

Check ==
    /\ main = "check"
    /\ main' = IF IsAuthorized THEN "listener" ELSE "abort"
    /\ UNCHANGED <<ui, listener, advertiser, session, lists, choice>>

StartListener ==
    /\ main = "listener"
    /\ listener' = "started"
    /\ main' = "advertiser"
    /\ UNCHANGED <<ui, advertiser, session, lists, choice>>

StartAdvertiser ==
    /\ main = "advertiser"
    /\ advertiser' = TRUE
    /\ main' = "join"
    /\ UNCHANGED <<ui, listener, session, lists, choice>>

\* The process ends with main, or with a thread that crashes or exits.
Dies == /\ main' = "dead" /\ ui' = "ended"
        /\ listener' = "off" /\ advertiser' = FALSE
        /\ UNCHANGED <<session, lists, choice>>

\* join returns, and the process kills itself.
Kill == main \in {"join", "abort"} /\ ui = "ended" /\ Dies

-----------------------------------------------------------------------------
(* The listener thread.                                                    *)

\* The thread returns if another process has the port.
Listen ==
    /\ listener = "started"
    /\ listener' \in {"accept", "failed"}
    /\ UNCHANGED <<main, ui, advertiser, session, lists, choice>>

\* For a mutant: the map is not cleared.
Receive_keeps(l) ==
    /\ listener = "accept"
    /\ todo' = l /\ latest' = l
    /\ listener' = "insert"
    /\ UNCHANGED <<main, ui, advertiser, session, list, choice>>

\* A list has come: the map is cleared,
Receive(l) ==
    /\ listener = "accept"
    /\ list' = None
    /\ todo' = l /\ latest' = l
    /\ listener' = "insert"
    /\ UNCHANGED <<main, ui, advertiser, session, choice>>

\* and refilled; map::insert leaves an id alone that is there already.
Insert ==
    /\ listener = "insert"
    /\ \E id \in DOMAIN todo :
          /\ list' = [x \in DOMAIN list \cup {id} |->
                        IF x \in DOMAIN list THEN list[x] ELSE todo[x]]
          /\ todo' = Restrict(todo, DOMAIN todo \ {id})
    /\ listener' = IF todo' = None THEN "accept" ELSE "insert"
    /\ UNCHANGED <<main, ui, advertiser, session, latest, choice>>

WithPhantom(id) ==
    list' = [x \in DOMAIN list \cup {id} |->
               IF x \in DOMAIN list THEN list[x] ELSE NoAddr]

\* Passing a packet on looks its next hop up, and inserts it if need be.
Relay(id) ==
    /\ listener = "accept"
    /\ WithPhantom(id)
    /\ UNCHANGED <<main, ui, listener, advertiser, session, todo, latest, choice>>

-----------------------------------------------------------------------------
(* The UI thread uses the list.                                            *)

\* update_userlist waits until the list is not empty,
WaitForList ==
    /\ ui = "wait"
    /\ list # None
    /\ ui' = "users"
    /\ UNCHANGED <<main, listener, advertiser, session, lists, choice>>

\* For mutants: one's own id is not left out; the clear comes after the loop.
UpdateUserlist_all ==
    /\ ui = "users"
    /\ userlist' = DOMAIN list
    /\ ui' = IF userlist' = {} THEN "wait" ELSE "select"
    /\ UNCHANGED <<main, listener, advertiser, session, lists, peer, next>>
UpdateUserlist_clears ==
    /\ ui = "users"
    /\ userlist' = {}
    /\ ui' = "wait"
    /\ UNCHANGED <<main, listener, advertiser, session, lists, peer, next>>

\* and then copies the ids, but for one's own; none makes it start again.
UpdateUserlist ==
    /\ ui = "users"
    /\ userlist' = DOMAIN list \ {Self}
    /\ ui' = IF userlist' = {} THEN "wait" ELSE "select"
    /\ UNCHANGED <<main, listener, advertiser, session, lists, peer, next>>

SelectUser ==
    /\ ui = "select"
    /\ peer' \in userlist
    /\ ui' = "chat"
    /\ UNCHANGED <<main, listener, advertiser, session, lists, userlist, next>>

Quit ==
    /\ ui = "select"
    /\ ui' = "ended"
    /\ UNCHANGED <<main, listener, advertiser, session, lists, choice>>

LeaveChat ==
    /\ ui = "chat"
    /\ ui' = "wait"
    /\ UNCHANGED <<main, listener, advertiser, session, lists, choice>>

\* send_message: look for the recipient,
Find ==
    /\ ui = "chat"
    /\ peer \in DOMAIN list
    /\ ui' = "path"
    /\ UNCHANGED <<main, listener, advertiser, session, lists, choice>>

\* copy the list and choose a path; relays come first if there are any,
GeneratePath ==
    /\ ui = "path"
    /\ LET relays == DOMAIN list \ {Self, peer}
       IN next' \in (IF relays = {} THEN {peer} ELSE relays)
    /\ ui' = "hop"
    /\ UNCHANGED <<main, listener, advertiser, session, lists, userlist, peer>>

\* and, many gpg processes later, look the first hop up.
FirstHop ==
    /\ ui = "hop"
    /\ WithPhantom(next)
    /\ ui' = "chat"
    /\ UNCHANGED <<main, listener, advertiser, session, todo, latest, choice>>

\* Reading or changing a map that the other thread is changing may crash.
Crash ==
    /\ listener = "insert"
    /\ ui \in {"wait", "users", "chat", "path", "hop"}
    /\ Dies

\* Every gpg of either thread is waited for; if it, or the fork, fails in any
\* way but the one gpg reports by status 2, the thread calls exit.  They run in
\* the login, between the path and the first hop, and for a packet received.
GpgEnds ==
    /\ ui \in {"login", "hop"} \/ listener = "accept"
    /\ Dies

-----------------------------------------------------------------------------

LogIn       == Toggle \/ SetName \/ SetPassphrase
MainThread  == Poll \/ Check \/ StartListener \/ StartAdvertiser \/ Kill
UIWorks     == UpdateUserlist \/ GeneratePath \/ FirstHop
UserChooses == Verify \/ SelectUser \/ Quit \/ LeaveChat \/ Find
Serve       == Insert \/ \E l \in Lists : Receive(l)

Next == \/ UserChooses \/ LogIn \/ WaitForList \/ UIWorks
        \/ MainThread
        \/ Listen \/ Serve \/ \E id \in Name : Relay(id)
        \/ Crash \/ GpgEnds

Spec == Init /\ [][Next]_vars

\* Every thread takes its steps, and the server sends its lists again and
\* again; nothing obliges the user to anything.  update_userlist looks once a
\* second, lists come every five, and refilling the map takes an instant: it
\* does not find the map half filled every time.
FairSpec ==
    /\ Spec
    /\ WF_vars(LogIn) /\ WF_vars(MainThread)
    /\ WF_vars(WaitForList) /\ WF_vars(UIWorks)
    /\ SF_vars(WaitForList /\ DOMAIN list \ {Self} # {})
    /\ SF_vars(UpdateUserlist /\ userlist' # {})
    /\ WF_vars(Listen) /\ WF_vars(Serve)

-----------------------------------------------------------------------------
(* Properties.                                                             *)

\* The listener and the advertiser, which take the name when they start, run
\* only for a user whose passphrase is right, and who has a name by then
\* (main.cc:37-44, messanger.cc:19-28).
ThreadsHaveName ==
    listener # "off" \/ advertiser => valid /\ name /\ passphrase

\* Every address is of the list received last, or empty; and once the list is
\* in, everybody on it is on the map (listen.cc:53-57 against the insertions
\* of messanger.cc:123 and listen.cc:116).
LatestOnly ==
    /\ \A id \in DOMAIN list :
          \/ list[id] = NoAddr
          \/ id \in DOMAIN latest /\ list[id] = latest[id]
    /\ listener = "accept" => DOMAIN latest \subseteq DOMAIN list

\* A process whose UI thread has ended, after a login that failed or because
\* the user quit, ends (main.cc:37-51).
Ends == ui = "ended" ~> main = "dead"

\* Whoever logs in and then waits for ever for somebody to talk to has a main
\* that looked for name and passphrase too early, or the passphrase is empty,
\* and started no listener, or has a listener without its port, or is alone on
\* the lists of the server (messanger.cc:21-26, 41, main.cc:38,
\* listen.cc:27-33, ui.cc:294).
WaitsForAReason ==
    <>[](main # "dead" /\ ui \in {"wait", "users"}) =>
        \/ <>(main = "abort") \/ <>(listener = "failed")
        \/ []<>(DOMAIN latest \subseteq {Self})

\* An empty address lasts no longer than the list: when no look-up inserts one
\* any more there is none left in the end, since the map is cleared before it
\* is filled and insert would keep it (listen.cc:53-56).
PhantomsPass ==
    <>[][\A id \in DOMAIN list' : list'[id] = NoAddr => id \in DOMAIN list]_vars =>
        <>[](\A id \in DOMAIN list : list[id] # NoAddr) \/ <>(main = "dead")
=============================================================================
