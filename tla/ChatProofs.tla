----------------------------- MODULE ChatProofs -----------------------------
(***************************************************************************)
(* Proofs about the chat rooms, for any people, lines, heights and windows *)
(* and for any number of rooms opened, however the two threads draw in the *)
(* window: the variables have their types; nobody reads in a room what was *)
(* said in another; once both threads are through, a log that fits the     *)
(* window is on it, and a longer one is there with its last lines.         *)
(***************************************************************************)
EXTENDS Chat, SequenceTheorems, WellFoundedInduction, TLAPS

-----------------------------------------------------------------------------
(* Why no line is drawn in the wrong room.                                 *)

\* A log has the lines that were said in its room.
Logs == \A n \in Name : \A l \in ToSet(chat[n]) : said[l] = n

\* So has what a thread adds to a log, or is drawing.
Pushes ==
    \A t \in Thread :
        /\ job[t].at = "push" => job[t].line \in Line /\ said[job[t].line] = job[t].name
        /\ job[t].at = "draw" => /\ job[t].todo # <<>>
                                 /\ \A l \in ToSet(job[t].todo) : said[l] = job[t].name

\* Where the UI thread is says which room is open, and whether its window can be
\* drawn in; the UI thread itself draws in no other.
InRoom ==
    LET u == job["ui"]
    IN /\ current => /\ opened = room /\ room \in Name
                     /\ u.at \in Pushing \cup {"keys", "clear", "dead"}
       /\ u.at \in Pushing \cup {"keys", "clear"} => current
       /\ u.at \in Pushing => u.name = room
       /\ u.at = "window" => room \in Name /\ opened = room /\ screen = Empty
       /\ u.at \in {"select", "delete"} => opened = NoName

\* The listener draws in the window of another room only if that was opened while
\* it was about to draw.
Guest ==
    current /\ ~torn /\ job["listener"].at \in {"copy", "draw"} => job["listener"].name = room

ChatInv == Logs /\ Pushes /\ InRoom /\ Guest /\ OwnLinesOnly

-----------------------------------------------------------------------------

LEMMA LogSets ==
    ASSUME NEW S, NEW s \in Seq(S)
    PROVE  /\ <<>> \in Seq(S) /\ ToSet(<<>>) = {}
           /\ \A e \in S : /\ Append(s, e) \in Seq(S)
                           /\ ToSet(Append(s, e)) \subseteq ToSet(s) \cup {e}
           /\ s # <<>> => /\ Head(s) \in ToSet(s) /\ Head(s) \in S
                          /\ Tail(s) \in Seq(S) /\ ToSet(Tail(s)) \subseteq ToSet(s)
                          /\ Len(s) # 1 => Tail(s) # <<>>
  <1>0. Len(s) \in Nat /\ DOMAIN s = 1 .. Len(s)
    BY LenProperties
  <1>1. <<>> \in Seq(S) /\ ToSet(<<>>) = {}
    <2>1. <<>> \in Seq(S) /\ Len(<<>>) = 0
      BY EmptySeq
    <2>2. DOMAIN <<>> = 1 .. 0
      BY <2>1, LenProperties
    <2>3. QED
      BY <2>1, <2>2 DEF ToSet
  <1>2. ASSUME NEW e \in S
        PROVE  Append(s, e) \in Seq(S) /\ ToSet(Append(s, e)) \subseteq ToSet(s) \cup {e}
    <2> DEFINE t == Append(s, e)
    <2>1. /\ t \in Seq(S)
          /\ Len(t) = Len(s) + 1
          /\ \A i \in 1 .. Len(s) : t[i] = s[i]
          /\ t[Len(s) + 1] = e
      BY AppendProperties
    <2>2. DOMAIN t = 1 .. Len(s) + 1
      BY <2>1, LenProperties
    <2> HIDE DEF t
    <2>3. \A i \in 1 .. Len(s) + 1 : i = Len(s) + 1 \/ i \in 1 .. Len(s)
      BY <1>0
    <2>4. ToSet(t) \subseteq ToSet(s) \cup {e}
      BY <1>0, <2>1, <2>2, <2>3 DEF ToSet
    <2>5. QED
      BY <2>1, <2>4 DEF t
  <1>3. ASSUME s # <<>>
        PROVE  /\ Head(s) \in ToSet(s) /\ Head(s) \in S
               /\ Tail(s) \in Seq(S) /\ ToSet(Tail(s)) \subseteq ToSet(s)
               /\ Len(s) # 1 => Tail(s) # <<>>
    <2>1. /\ Head(s) \in S /\ Head(s) = s[1] /\ Len(s) >= 1
          /\ Tail(s) \in Seq(S) /\ Len(Tail(s)) = Len(s) - 1
          /\ \A i \in 1 .. Len(Tail(s)) : Tail(s)[i] = s[i + 1]
      BY <1>0, <1>3, HeadTailProperties, EmptySeq
    <2> DEFINE t == Tail(s)
    <2>2. DOMAIN t = 1 .. Len(s) - 1
      BY <2>1, LenProperties
    <2>3. \A i \in 1 .. Len(s) - 1 : i + 1 \in DOMAIN s
      BY <1>0
    <2>4. ToSet(t) \subseteq ToSet(s)
      BY <1>0, <2>1, <2>2, <2>3 DEF ToSet
    <2>5. Head(s) \in ToSet(s)
      BY <1>0, <2>1 DEF ToSet
    <2>6. Len(s) # 1 => Len(t) # 0
      BY <1>0, <2>1
    <2>7. Len(<<>>) = 0
      BY EmptySeq
    <2>8. QED
      BY <2>1, <2>4, <2>5, <2>6, <2>7
  <1>4. QED
    BY <1>1, <1>2, <1>3

\* The places of TypeOK.
AnyJob == [at : Pushing \cup {"select", "window", "keys", "clear", "left", "delete",
                              "idle", "dead"},
           name : Name \cup {NoName}, line : Line \cup {Blank},
           todo : Seq(Line), offset : 0 .. Rows]

JobOf(t, j) ==
    /\ j \in AnyJob
    /\ t = "ui" => j.at # "idle"
    /\ t = "listener" => j.at \in Pushing \cup {"idle", "dead"}
    /\ j.at \in Pushing => j.name \in Name

\* TypeOK, thread by thread; now and in the next state.
Typing ==
    /\ chat \in [Name -> Seq(Line)]
    /\ said \in [Line -> Name \cup {NoName}]
    /\ room \in Name \cup {NoName} /\ opened \in {room, NoName}
    /\ current \in BOOLEAN
    /\ screen \in [1 .. Rows -> Line \cup {Blank}]
    /\ job \in [Thread -> AnyJob]
    /\ \A t \in Thread : JobOf(t, job[t])
    /\ rooms \in 0 .. MaxRooms
    /\ torn \in BOOLEAN /\ overlap \in BOOLEAN

LEMMA Types == (TypeOK <=> Typing) /\ (TypeOK' <=> Typing')
  <1>1. ASSUME NEW f \in [Thread -> AnyJob]
        PROVE  /\ f["ui"].at # "idle"
               /\ f["listener"].at \in Pushing \cup {"idle", "dead"}
               /\ \A t \in Thread : f[t].at \in Pushing => f[t].name # NoName
               <=> \A t \in Thread : JobOf(t, f[t])
    BY ChatAssumption DEF JobOf, AnyJob, Thread
  <1>2. TypeOK <=> Typing
    BY <1>1 DEF TypeOK, Typing, AnyJob
  <1>3. TypeOK' <=> Typing'
    BY <1>1 DEF TypeOK, Typing, AnyJob
  <1>4. QED
    BY <1>2, <1>3

\* A thread goes on to j, the other stays.
LEMMA NewJob ==
    ASSUME TypeOK, NEW t \in Thread, NEW j, job' = [job EXCEPT ![t] = j], JobOf(t, j)
    PROVE  /\ job' \in [Thread -> AnyJob]
           /\ \A u \in Thread : JobOf(u, job'[u])
           /\ job'[t] = j
           /\ \A u \in Thread : u # t => job'[u] = job[u]
  BY Types DEF Typing, JobOf

\* The places outside a push.
LEMMA Places ==
    /\ "ui" \in Thread /\ "listener" \in Thread
    /\ \A p \in {"select", "window", "keys", "clear", "left", "delete", "dead"} :
          JobOf("ui", At(p)) /\ At(p).at = p
    /\ \A p \in {"idle", "dead"} : JobOf("listener", At(p)) /\ At(p).at = p
    /\ Empty \in [1 .. Rows -> Line \cup {Blank}]
    /\ \A r \in 1 .. Rows : Empty[r] = Blank
  <1>1. <<>> \in Seq(Line)
    BY EmptySeq
  <1>2. 0 \in 0 .. Rows
    BY ChatAssumption
  <1>3. QED
    BY <1>1, <1>2 DEF JobOf, AnyJob, At, Job, Pushing, Thread, Empty

-----------------------------------------------------------------------------
(* The steps of a push.                                                    *)

\* A line is said for the first time: it is in no log and on no screen yet.
LEMMA StartPushKeeps ==
    ASSUME TypeOK, ChatInv, NEW t \in Thread, NEW n \in Name, NEW l \in Line,
           StartPush(t, n, l), job[t].at \in {"keys", "idle"},
           t = "ui" => job[t].at = "keys" /\ n = room
    PROVE  TypeOK' /\ ChatInv'
  <1> DEFINE j == Job("push", n, l, <<>>, 0)
  <1>1. /\ said[l] = NoName /\ said' = [said EXCEPT ![l] = n]
        /\ job' = [job EXCEPT ![t] = j]
        /\ UNCHANGED <<chat, room, opened, current, rooms, screen, torn, overlap>>
    BY DEF StartPush, room_
  <1>2. JobOf(t, j) /\ j.at = "push" /\ j.name = n /\ j.line = l
    <2>1. <<>> \in Seq(Line) /\ 0 \in 0 .. Rows
      BY EmptySeq, ChatAssumption
    <2>2. QED
      BY <2>1 DEF JobOf, AnyJob, Job, Pushing, Thread
  <1> HIDE DEF j
  <1>3. /\ job' \in [Thread -> AnyJob] /\ (\A u \in Thread : JobOf(u, job'[u]))
        /\ job'[t] = j /\ \A u \in Thread : u # t => job'[u] = job[u]
    BY <1>1, <1>2, NewJob
  <1>4. TypeOK'
    BY <1>1, <1>3, Types DEF Typing
  <1>5. /\ said'[l] = n /\ NoName \notin Name
        /\ \A k \in Line : said[k] # NoName => said'[k] = said[k]
    BY <1>1, ChatAssumption DEF TypeOK
  <1>6. Logs'
    <2>1. \A m \in Name : \A k \in ToSet(chat[m]) : k \in Line
      BY DEF TypeOK, ToSet
    <2>2. QED
      BY <1>1, <1>5, <2>1 DEF ChatInv, Logs
  <1>7. Pushes'
    <2>1. \A u \in Thread : job[u].at \in {"push", "draw"} => job[u].name \in Name
      BY Types DEF Typing, JobOf, Pushing
    <2>2. \A u \in Thread : \A k \in ToSet(job[u].todo) : k \in Line
      BY Types DEF Typing, AnyJob, ToSet
    <2>3. ASSUME NEW u \in Thread, u # t
          PROVE  /\ job'[u].at = "push" => job'[u].line \in Line /\ said'[job'[u].line] = job'[u].name
                 /\ job'[u].at = "draw" => /\ job'[u].todo # <<>>
                                           /\ \A k \in ToSet(job'[u].todo) : said'[k] = job'[u].name
      BY <1>3, <1>5, <2>1, <2>2, <2>3 DEF ChatInv, Pushes
    <2>4. QED
      BY <1>2, <1>3, <1>5, <2>3 DEF Pushes
  <1>8. InRoom'
    BY <1>1, <1>2, <1>3, Places DEF ChatInv, InRoom, Pushing
  <1>9. Guest'
    BY <1>1, <1>2, <1>3, Places DEF ChatInv, Guest
  <1>10. OwnLinesOnly'
    BY <1>1, <1>5, Types DEF Typing, ChatInv, InRoom, OwnLinesOnly
  <1>11. QED
    BY <1>4, <1>6, <1>7, <1>8, <1>9, <1>10 DEF ChatInv

\* After a push: the next place of either thread.
LEMMA DoneJob ==
    ASSUME TypeOK, NEW t \in Thread, Done(t)
    PROVE  \E j : /\ job' = [job EXCEPT ![t] = j] /\ JobOf(t, j)
                  /\ j.at = IF t = "ui" THEN "keys" ELSE "idle"
  BY Places DEF Done, Thread

\* What a step of a push leaves alone, if the thread goes on to j.
LEMMA PushGoesOn ==
    ASSUME TypeOK, ChatInv, NEW t \in Thread, NEW j, job' = [job EXCEPT ![t] = j],
           JobOf(t, j), UNCHANGED <<said, room, opened, current, rooms>>,
           job[t].at \in Pushing,
           \/ j.at \in {"check", "copy", "draw"} /\ j.name = job[t].name
           \/ j.at = IF t = "ui" THEN "keys" ELSE "idle",
           j.at = "copy" /\ job[t].at # "copy" => job[t].name = opened,
           j.at = "draw" => job[t].at \in {"copy", "draw"},
           j.at = "draw" => j.todo # <<>> /\ \A l \in ToSet(j.todo) : said[l] = j.name,
           torn => torn', ~current => screen' = screen
    PROVE  Pushes' /\ InRoom' /\ Guest'
  <1>1. job'[t] = j /\ \A u \in Thread : u # t => job'[u] = job[u]
    BY NewJob
  <1>2. Pushes'
    <2>1. ASSUME NEW u \in Thread
          PROVE  /\ job'[u].at = "push" => job'[u].line \in Line /\ said'[job'[u].line] = job'[u].name
                 /\ job'[u].at = "draw" => /\ job'[u].todo # <<>>
                                           /\ \A l \in ToSet(job'[u].todo) : said'[l] = job'[u].name
      <3>1. CASE u = t
        BY <1>1, <3>1
      <3>2. CASE u # t
        BY <1>1, <3>2 DEF ChatInv, Pushes
      <3>3. QED
        BY <3>1, <3>2
    <2>2. QED
      BY <2>1 DEF Pushes
  <1>3. InRoom'
    <2>1. CASE t = "ui"
      BY <1>1, <2>1 DEF ChatInv, InRoom, Pushing
    <2>2. CASE t # "ui"
      <3>1. job'["ui"] = job["ui"]
        BY <1>1, <2>2, Places
      <3>2. job["ui"].at = "window" => screen' = screen
        BY DEF ChatInv, InRoom, Pushing
      <3>3. QED
        BY <3>1, <3>2 DEF ChatInv, InRoom
    <2>3. QED
      BY <2>1, <2>2
  <1>4. Guest'
    BY <1>1, Places DEF ChatInv, InRoom, Guest
  <1>5. QED
    BY <1>2, <1>3, <1>4

\* The types after a step of a push.
LEMMA PushTypes ==
    ASSUME TypeOK, NEW t \in Thread, NEW j, job' = [job EXCEPT ![t] = j], JobOf(t, j),
           UNCHANGED <<said, room, opened, current, rooms>>,
           chat' \in [Name -> Seq(Line)], screen' \in [1 .. Rows -> Line \cup {Blank}],
           torn' \in BOOLEAN, overlap' \in BOOLEAN
    PROVE  TypeOK'
  <1>1. job' \in [Thread -> AnyJob] /\ \A u \in Thread : JobOf(u, job'[u])
    BY NewJob
  <1>2. QED
    BY <1>1, Types DEF Typing

\* The line gets to the end of its room's log, or is lost (ui.cc:263-267).
LEMMA PushKeeps ==
    ASSUME TypeOK, ChatInv, NEW t \in Thread, Push(t)
    PROVE  TypeOK' /\ ChatInv'
  <1> DEFINE n == job[t].name
             l == job[t].line
             j == [job[t] EXCEPT !.at = "check"]
  <1>1. /\ job[t].at = "push" /\ job' = [job EXCEPT ![t] = j]
        /\ chat' = [chat EXCEPT ![n] = Append(@, l)] \/ chat' = chat
        /\ torn' = (torn \/ (job["ui"].at = "clear" /\ n = room))
        /\ UNCHANGED <<said, room, opened, current, rooms, screen, overlap>>
    BY DEF Push, room_
  <1>2. n \in Name /\ l \in Line /\ said[l] = n
    BY <1>1, Types DEF Typing, JobOf, Pushing, ChatInv, Pushes
  <1>3. JobOf(t, j) /\ j.at = "check" /\ j.name = n
    BY <1>1, <1>2, Types DEF Typing, JobOf, AnyJob, Pushing
  <1> HIDE DEF n, l, j
  <1>4. /\ chat' \in [Name -> Seq(Line)]
        /\ \A m \in Name : ToSet(chat'[m]) \subseteq
              ToSet(chat[m]) \cup (IF m = n THEN {l} ELSE {})
    <2>1. chat \in [Name -> Seq(Line)]
      BY DEF TypeOK
    <2>2. Append(chat[n], l) \in Seq(Line) /\ ToSet(Append(chat[n], l)) \subseteq ToSet(chat[n]) \cup {l}
      BY <1>2, <2>1, LogSets
    <2>3. QED
      BY <1>1, <1>2, <2>1, <2>2
  <1>5. torn' \in BOOLEAN
    BY <1>1, Types DEF Typing
  <1>6. TypeOK'
    BY <1>1, <1>3, <1>4, <1>5, Types, PushTypes DEF Typing
  <1>7. Logs'
    BY <1>1, <1>2, <1>4 DEF ChatInv, Logs
  <1>8. Pushes' /\ InRoom' /\ Guest'
    BY <1>1, <1>3, PushGoesOn DEF n, Pushing
  <1>9. OwnLinesOnly'
    BY <1>1 DEF ChatInv, OwnLinesOnly
  <1>10. QED
    BY <1>6, <1>7, <1>8, <1>9 DEF ChatInv

\* Its room is drawn only if that is the one that is open (ui.cc:288-289).
LEMMA CheckRoomKeeps ==
    ASSUME TypeOK, ChatInv, NEW t \in Thread, CheckRoom(t)
    PROVE  TypeOK' /\ ChatInv'
  <1>1. /\ job[t].at = "check"
        /\ UNCHANGED <<chat, said, room, opened, current, rooms, screen, torn, overlap>>
    BY DEF CheckRoom, room_
  <1>2. PICK j : /\ job' = [job EXCEPT ![t] = j] /\ JobOf(t, j)
                 /\ \/ j.at = "copy" /\ j.name = job[t].name /\ job[t].name = opened
                    \/ j.at = IF t = "ui" THEN "keys" ELSE "idle"
    <2>1. CASE Drawable(job[t].name)
      <3> DEFINE j == [job[t] EXCEPT !.at = "copy"]
      <3>1. job' = [job EXCEPT ![t] = j]
        BY <2>1 DEF CheckRoom
      <3>2. job[t] \in AnyJob /\ job[t].name \in Name
        BY <1>1, Types DEF Typing, JobOf, Pushing
      <3>3. j \in AnyJob /\ j.at = "copy" /\ j.name = job[t].name
        BY <3>2 DEF AnyJob, Pushing
      <3>4. JobOf(t, j)
        BY <3>2, <3>3 DEF JobOf, Pushing
      <3>5. QED
        BY <2>1, <3>1, <3>3, <3>4 DEF Drawable
    <2>2. CASE ~Drawable(job[t].name)
      BY <2>2, DoneJob DEF CheckRoom
    <2>3. QED
      BY <2>1, <2>2
  <1>3. TypeOK'
    BY <1>1, <1>2, Types, PushTypes DEF Typing
  <1>4. Pushes' /\ InRoom' /\ Guest'
    BY <1>1, <1>2, PushGoesOn DEF Pushing
  <1>5. Logs' /\ OwnLinesOnly'
    BY <1>1 DEF ChatInv, Logs, OwnLinesOnly
  <1>6. QED
    BY <1>3, <1>4, <1>5 DEF ChatInv

\* What is drawn is a copy of the log (ui.cc:247, 264).
LEMMA CopyLogKeeps ==
    ASSUME TypeOK, ChatInv, NEW t \in Thread, CopyLog(t)
    PROVE  TypeOK' /\ ChatInv'
  <1>1. /\ job[t].at = "copy" /\ overlap' \in BOOLEAN
        /\ UNCHANGED <<chat, said, room, opened, current, rooms, screen, torn>>
    BY DEF CopyLog, room_
  <1>2. PICK j : /\ job' = [job EXCEPT ![t] = j] /\ JobOf(t, j)
                 /\ \/ /\ j.at = "draw" /\ j.name = job[t].name
                       /\ j.todo # <<>> /\ \A l \in ToSet(j.todo) : said[l] = j.name
                    \/ j.at = IF t = "ui" THEN "keys" ELSE "idle"
    <2>1. CASE chat[job[t].name] # <<>>
      <3> DEFINE j == [job[t] EXCEPT !.at = "draw", !.todo = chat[job[t].name]]
      <3>1. job' = [job EXCEPT ![t] = j]
        BY <2>1 DEF CopyLog
      <3>2. job[t] \in AnyJob /\ job[t].name \in Name /\ chat[job[t].name] \in Seq(Line)
        BY <1>1, Types DEF Typing, JobOf, Pushing
      <3>3. /\ j \in AnyJob /\ j.at = "draw" /\ j.name = job[t].name
            /\ j.todo = chat[job[t].name]
        BY <3>2 DEF AnyJob, Pushing
      <3>4. JobOf(t, j)
        BY <3>2, <3>3 DEF JobOf, Pushing
      <3>5. \A l \in ToSet(j.todo) : said[l] = j.name
        BY <3>2, <3>3 DEF ChatInv, Logs
      <3>6. QED
        BY <2>1, <3>1, <3>3, <3>4, <3>5
    <2>2. CASE chat[job[t].name] = <<>>
      BY <2>2, DoneJob DEF CopyLog
    <2>3. QED
      BY <2>1, <2>2
  <1>3. TypeOK'
    BY <1>1, <1>2, Types, PushTypes DEF Typing
  <1>4. Pushes' /\ InRoom' /\ Guest'
    BY <1>1, <1>2, PushGoesOn DEF Pushing
  <1>5. Logs' /\ OwnLinesOnly'
    BY <1>1 DEF ChatInv, Logs, OwnLinesOnly
  <1>6. QED
    BY <1>3, <1>4, <1>5 DEF ChatInv

\* A page is turned, and holds no line then (ui.cc:269-270).
LEMMA TurnPageKeeps ==
    ASSUME TypeOK, ChatInv, NEW t \in Thread, TurnPage(t)
    PROVE  TypeOK' /\ ChatInv'
  <1> DEFINE j == [job[t] EXCEPT !.offset = 0]
  <1>1. /\ job[t].at = "draw" /\ job' = [job EXCEPT ![t] = j]
        /\ screen' = IF current THEN Empty ELSE screen
        /\ UNCHANGED <<chat, said, room, opened, current, rooms, torn, overlap>>
    BY DEF TurnPage, Cleared, room_
  <1>2. JobOf(t, j) /\ j.at = "draw" /\ j.name = job[t].name /\ j.todo = job[t].todo
    <2>1. 0 \in 0 .. Rows
      BY ChatAssumption
    <2>2. QED
      BY <1>1, <2>1, Types DEF Typing, JobOf, AnyJob, Pushing
  <1> HIDE DEF j
  <1>3. screen' \in [1 .. Rows -> Line \cup {Blank}]
    BY <1>1, Places, Types DEF Typing
  <1>4. TypeOK'
    BY <1>1, <1>2, <1>3, Types, PushTypes DEF Typing
  <1>5. j.todo # <<>> /\ \A l \in ToSet(j.todo) : said[l] = j.name
    BY <1>1, <1>2 DEF ChatInv, Pushes
  <1>6. Pushes' /\ InRoom' /\ Guest'
    BY <1>1, <1>2, <1>5, PushGoesOn DEF Pushing
  <1>7. Logs'
    BY <1>1 DEF ChatInv, Logs
  <1>8. OwnLinesOnly'
    BY <1>1, Places DEF ChatInv, OwnLinesOnly
  <1>9. QED
    BY <1>4, <1>6, <1>7, <1>8 DEF ChatInv

\* A line of the room the thread is in is drawn in the window, and that is its own
\* (ui.cc:271-277).
LEMMA PrintLineKeeps ==
    ASSUME TypeOK, ChatInv, NEW t \in Thread, PrintLine(t)
    PROVE  TypeOK' /\ ChatInv'
  <1> DEFINE l == Head(job[t].todo)
             o == job[t].offset
  <1>1. /\ job[t].at = "draw" /\ Fits(t)
        /\ screen' = IF current
                     THEN [r \in 1 .. Rows |-> IF r \in o + 1 .. o + Height[l]
                                               THEN l ELSE screen[r]]
                     ELSE screen
        /\ UNCHANGED <<chat, said, room, opened, current, rooms, torn, overlap>>
    BY DEF PrintLine, room_
  <1>2. /\ job[t] \in AnyJob /\ JobOf(t, job[t]) /\ job[t].todo \in Seq(Line)
        /\ job[t].todo # <<>> /\ \A k \in ToSet(job[t].todo) : said[k] = job[t].name
    BY <1>1, Types DEF Typing, AnyJob, ChatInv, Pushes
  <1>3. /\ l \in Line /\ said[l] = job[t].name
        /\ Tail(job[t].todo) \in Seq(Line)
        /\ ToSet(Tail(job[t].todo)) \subseteq ToSet(job[t].todo)
        /\ Len(job[t].todo) # 1 => Tail(job[t].todo) # <<>>
    BY <1>2, LogSets
  <1>4. o + Height[l] \in 0 .. Rows
    <2>1. o \in 0 .. Rows
      BY <1>2 DEF AnyJob
    <2>2. Height[l] \in 1 .. Rows /\ Rows \in Nat
      BY <1>3, ChatAssumption
    <2>3. o + Height[l] <= Rows
      BY <1>1 DEF Fits
    <2>4. QED
      BY <2>1, <2>2, <2>3
  <1> HIDE DEF l, o
  <1>5. PICK j : /\ job' = [job EXCEPT ![t] = j] /\ JobOf(t, j)
                 /\ \/ /\ j.at = "draw" /\ j.name = job[t].name
                       /\ j.todo # <<>> /\ \A k \in ToSet(j.todo) : said[k] = j.name
                    \/ j.at = IF t = "ui" THEN "keys" ELSE "idle"
    <2>1. CASE Len(job[t].todo) # 1
      <3> DEFINE j == [job[t] EXCEPT !.todo = Tail(job[t].todo), !.offset = o + Height[l]]
      <3>1. job' = [job EXCEPT ![t] = j]
        BY <2>1 DEF PrintLine, l, o
      <3>2. /\ JobOf(t, j) /\ j.at = "draw" /\ j.name = job[t].name
            /\ j.todo = Tail(job[t].todo)
        BY <1>1, <1>2, <1>3, <1>4 DEF JobOf, AnyJob, Pushing
      <3>3. QED
        BY <1>2, <1>3, <2>1, <3>1, <3>2
    <2>2. CASE Len(job[t].todo) = 1
      BY <2>2, DoneJob DEF PrintLine
    <2>3. QED
      BY <2>1, <2>2
  <1>6. screen' \in [1 .. Rows -> Line \cup {Blank}]
    BY <1>1, <1>3, Types DEF Typing
  <1>7. TypeOK'
    BY <1>1, <1>5, <1>6, Types, PushTypes DEF Typing
  <1>8. Pushes' /\ InRoom' /\ Guest'
    BY <1>1, <1>5, PushGoesOn DEF Pushing
  <1>9. Logs'
    BY <1>1 DEF ChatInv, Logs
  <1>10. OwnLinesOnly'
    <2> SUFFICES ASSUME current, ~torn, NEW r \in 1 .. Rows, screen'[r] # Blank
                 PROVE  said[screen'[r]] = room
      BY <1>1 DEF OwnLinesOnly
    <2>1. job[t].name = room
      BY <1>1 DEF ChatInv, InRoom, Guest, Pushing, Thread
    <2>2. screen'[r] = l \/ screen'[r] = screen[r]
      BY <1>1
    <2>3. QED
      BY <1>3, <2>1, <2>2 DEF ChatInv, OwnLinesOnly
  <1>11. QED
    BY <1>7, <1>8, <1>9, <1>10 DEF ChatInv

-----------------------------------------------------------------------------
(* The room is opened, cleared and left.                                   *)

\* What a step of chat_room leaves alone: the listener, and what it pushes.
LEMMA RoomGoesOn ==
    ASSUME TypeOK, ChatInv, NEW place \in {"window", "keys", "clear", "left", "delete", "select"},
           job' = [job EXCEPT !["ui"] = At(place)], UNCHANGED said
    PROVE  /\ Pushes'
           /\ job' \in [Thread -> AnyJob] /\ (\A t \in Thread : JobOf(t, job'[t]))
           /\ job'["ui"].at = place /\ job'["listener"] = job["listener"]
  <1>1. /\ "ui" \in Thread /\ "listener" \in Thread
        /\ JobOf("ui", At(place)) /\ At(place).at = place
    BY Places
  <1>2. /\ job' \in [Thread -> AnyJob] /\ (\A t \in Thread : JobOf(t, job'[t]))
        /\ job'["ui"] = At(place)
        /\ \A t \in Thread : t # "ui" => job'[t] = job[t]
    BY <1>1, NewJob
  <1>3. Pushes'
    BY <1>1, <1>2 DEF ChatInv, Pushes
  <1>4. QED
    BY <1>1, <1>2, <1>3

LEMMA OpenRoomKeeps ==
    ASSUME TypeOK, ChatInv, NEW n \in Name, OpenRoom(n)
    PROVE  TypeOK' /\ ChatInv'
  <1>1. /\ job["ui"].at = "select" /\ job' = [job EXCEPT !["ui"] = At("window")]
        /\ room' = n /\ opened' = n /\ screen' = Empty
        /\ rooms' = rooms + 1 /\ rooms < MaxRooms
        /\ UNCHANGED <<chat, said, current, torn, overlap>>
    BY DEF OpenRoom, Goto
  <1>2. /\ Pushes'
        /\ job' \in [Thread -> AnyJob] /\ (\A t \in Thread : JobOf(t, job'[t]))
        /\ job'["ui"].at = "window" /\ job'["listener"] = job["listener"]
    BY <1>1, RoomGoesOn
  <1>3. ~current
    BY <1>1 DEF ChatInv, InRoom, Pushing
  <1>4. TypeOK'
    <2>1. rooms' \in 0 .. MaxRooms
      BY <1>1, ChatAssumption DEF TypeOK
    <2>2. screen' \in [1 .. Rows -> Line \cup {Blank}]
      BY <1>1, Places
    <2>3. QED
      BY <1>1, <1>2, <2>1, <2>2, Types DEF Typing
  <1>5. InRoom' /\ Guest' /\ OwnLinesOnly'
    BY <1>1, <1>2, <1>3 DEF InRoom, Guest, OwnLinesOnly, Pushing, Empty
  <1>6. Logs'
    BY <1>1 DEF ChatInv, Logs
  <1>7. QED
    BY <1>2, <1>4, <1>5, <1>6 DEF ChatInv

LEMMA SetCurrentKeeps ==
    ASSUME TypeOK, ChatInv, SetCurrent
    PROVE  TypeOK' /\ ChatInv'
  <1> DEFINE j == Job("check", room, Blank, <<>>, 0)
  <1>1. /\ job["ui"].at = "window" /\ current' = TRUE
        /\ job' = [job EXCEPT !["ui"] = j]
        /\ torn' = (job["listener"].at \in {"copy", "draw"})
        /\ UNCHANGED <<chat, said, room, opened, rooms, screen, overlap>>
    BY DEF SetCurrent
  <1>2. room \in Name /\ opened = room /\ screen = Empty
    BY <1>1 DEF ChatInv, InRoom
  <1>3. JobOf("ui", j) /\ j.at = "check" /\ j.name = room
    <2>1. <<>> \in Seq(Line) /\ 0 \in 0 .. Rows
      BY EmptySeq, ChatAssumption
    <2>2. QED
      BY <1>2, <2>1 DEF JobOf, AnyJob, Job, Pushing
  <1> HIDE DEF j
  <1>4. /\ job' \in [Thread -> AnyJob] /\ (\A t \in Thread : JobOf(t, job'[t]))
        /\ job'["ui"] = j /\ (\A t \in Thread : t # "ui" => job'[t] = job[t])
        /\ job'["listener"] = job["listener"]
    BY <1>1, <1>3, NewJob, Places
  <1>5. TypeOK'
    BY <1>1, <1>4, Types DEF Typing
  <1>6. Pushes'
    BY <1>1, <1>3, <1>4 DEF ChatInv, Pushes
  <1>7. InRoom' /\ Guest'
    BY <1>1, <1>2, <1>3, <1>4 DEF InRoom, Guest, Pushing
  <1>8. OwnLinesOnly'
    BY <1>1, <1>2, Places DEF OwnLinesOnly
  <1>9. Logs'
    BY <1>1 DEF ChatInv, Logs
  <1>10. QED
    BY <1>5, <1>6, <1>7, <1>8, <1>9 DEF ChatInv

LEMMA ClearKeeps ==
    ASSUME TypeOK, ChatInv, ClearWindow \/ ClearLog
    PROVE  TypeOK' /\ ChatInv'
  <1>1. PICK from, to \in {"keys", "clear"} :
           /\ job["ui"].at = from /\ job' = [job EXCEPT !["ui"] = At(to)]
    BY DEF ClearWindow, ClearLog, Goto
  <1>2. /\ UNCHANGED <<said, room, opened, current, rooms, overlap>>
        /\ screen' = Empty \/ screen' = screen
        /\ chat' = chat \/ chat' = [chat EXCEPT ![room] = <<>>]
        /\ torn' \in BOOLEAN /\ (torn => torn')
    BY Types DEF ClearWindow, ClearLog, room_, Typing
  <1>3. /\ Pushes'
        /\ job' \in [Thread -> AnyJob] /\ (\A t \in Thread : JobOf(t, job'[t]))
        /\ job'["ui"].at = to /\ job'["listener"] = job["listener"]
    BY <1>1, <1>2, RoomGoesOn
  <1>4. current /\ room \in Name
    BY <1>1 DEF ChatInv, InRoom
  <1>5. /\ chat' \in [Name -> Seq(Line)]
        /\ \A m \in Name : ToSet(chat'[m]) \subseteq ToSet(chat[m])
    <2>1. chat \in [Name -> Seq(Line)]
      BY DEF TypeOK
    <2>2. <<>> \in Seq(Line) /\ ToSet(<<>>) = {}
      BY <1>4, <2>1, LogSets
    <2>3. QED
      BY <1>2, <1>4, <2>1, <2>2
  <1>6. TypeOK'
    <2>1. screen' \in [1 .. Rows -> Line \cup {Blank}]
      BY <1>2, Places, Types DEF Typing
    <2>2. QED
      BY <1>2, <1>3, <1>5, <2>1, Types DEF Typing
  <1>7. InRoom'
    BY <1>1, <1>2, <1>3, <1>4 DEF ChatInv, InRoom, Pushing
  <1>8. Guest'
    BY <1>2, <1>3 DEF ChatInv, Guest
  <1>9. OwnLinesOnly'
    BY <1>2, Places DEF ChatInv, OwnLinesOnly
  <1>10. Logs'
    BY <1>2, <1>5 DEF ChatInv, Logs
  <1>11. QED
    BY <1>3, <1>6, <1>7, <1>8, <1>9, <1>10 DEF ChatInv

LEMMA LeaveKeeps ==
    ASSUME TypeOK, ChatInv, Leave \/ CloseRoom \/ DeleteWindows
    PROVE  TypeOK' /\ ChatInv'
  <1>1. CASE Leave
    <2>1. /\ job["ui"].at = "keys" /\ job' = [job EXCEPT !["ui"] = At("left")]
          /\ current' = FALSE
          /\ UNCHANGED <<chat, said, room, opened, rooms, screen, torn, overlap>>
      BY <1>1 DEF Leave, Goto
    <2>2. /\ Pushes'
          /\ job' \in [Thread -> AnyJob] /\ (\A t \in Thread : JobOf(t, job'[t]))
          /\ job'["ui"].at = "left" /\ job'["listener"] = job["listener"]
      BY <2>1, RoomGoesOn
    <2>3. TypeOK'
      BY <2>1, <2>2, Types DEF Typing
    <2>4. InRoom' /\ Guest' /\ OwnLinesOnly'
      BY <2>1, <2>2 DEF InRoom, Guest, OwnLinesOnly, Pushing
    <2>5. Logs'
      BY <2>1 DEF ChatInv, Logs
    <2>6. QED
      BY <2>2, <2>3, <2>4, <2>5 DEF ChatInv
  <1>2. CASE CloseRoom
    <2>1. /\ job["ui"].at = "left" /\ job' = [job EXCEPT !["ui"] = At("delete")]
          /\ opened' = NoName
          /\ UNCHANGED <<chat, said, room, current, rooms, screen, torn, overlap>>
      BY <1>2 DEF CloseRoom, Goto
    <2>2. /\ Pushes'
          /\ job' \in [Thread -> AnyJob] /\ (\A t \in Thread : JobOf(t, job'[t]))
          /\ job'["ui"].at = "delete" /\ job'["listener"] = job["listener"]
      BY <2>1, RoomGoesOn
    <2>3. ~current
      BY <2>1 DEF ChatInv, InRoom, Pushing
    <2>4. TypeOK'
      BY <2>1, <2>2, Types DEF Typing
    <2>5. InRoom' /\ Guest' /\ OwnLinesOnly'
      BY <2>1, <2>2, <2>3 DEF InRoom, Guest, OwnLinesOnly, Pushing
    <2>6. Logs'
      BY <2>1 DEF ChatInv, Logs
    <2>7. QED
      BY <2>2, <2>4, <2>5, <2>6 DEF ChatInv
  <1>3. CASE DeleteWindows
    <2>1. /\ job["ui"].at = "delete" /\ job' = [job EXCEPT !["ui"] = At("select")]
          /\ room' = NoName /\ screen' = Empty
          /\ UNCHANGED <<chat, said, opened, current, rooms, torn, overlap>>
      BY <1>3 DEF DeleteWindows, Goto
    <2>2. /\ Pushes'
          /\ job' \in [Thread -> AnyJob] /\ (\A t \in Thread : JobOf(t, job'[t]))
          /\ job'["ui"].at = "select" /\ job'["listener"] = job["listener"]
      BY <2>1, RoomGoesOn
    <2>3. ~current /\ opened = NoName
      BY <2>1 DEF ChatInv, InRoom, Pushing
    <2>4. TypeOK'
      <3>1. screen' \in [1 .. Rows -> Line \cup {Blank}]
        BY <2>1, Places
      <3>2. QED
        BY <2>1, <2>2, <2>3, <3>1, Types DEF Typing
    <2>5. InRoom' /\ Guest' /\ OwnLinesOnly'
      BY <2>1, <2>2, <2>3 DEF InRoom, Guest, OwnLinesOnly, Pushing
    <2>6. Logs'
      BY <2>1 DEF ChatInv, Logs
    <2>7. QED
      BY <2>2, <2>4, <2>5, <2>6 DEF ChatInv
  <1>4. QED
    BY <1>1, <1>2, <1>3

LEMMA CrashKeeps ==
    ASSUME TypeOK, ChatInv, Crash
    PROVE  TypeOK' /\ ChatInv'
  <1>1. /\ job' = [t \in Thread |-> At("dead")]
        /\ UNCHANGED <<chat, said, room, opened, current, rooms, screen, torn, overlap>>
    BY DEF Crash, room_
  <1>2. /\ job' \in [Thread -> AnyJob]
        /\ \A t \in Thread : JobOf(t, job'[t]) /\ job'[t].at = "dead"
        /\ job'["ui"].at = "dead" /\ job'["listener"].at = "dead"
    BY <1>1, Places DEF Thread, JobOf
  <1>3. TypeOK'
    BY <1>1, <1>2, Types DEF Typing
  <1>4. Pushes' /\ Guest'
    BY <1>2 DEF Pushes, Guest
  <1>5. InRoom'
    BY <1>1, <1>2 DEF ChatInv, InRoom, Pushing
  <1>6. Logs' /\ OwnLinesOnly'
    BY <1>1 DEF ChatInv, Logs, OwnLinesOnly
  <1>7. QED
    BY <1>3, <1>4, <1>5, <1>6 DEF ChatInv

-----------------------------------------------------------------------------

LEMMA ChatInvariant == Spec => [](TypeOK /\ ChatInv)
  <1>1. Init => TypeOK /\ ChatInv
    <2> SUFFICES ASSUME Init
                 PROVE  TypeOK /\ ChatInv
      OBVIOUS
    <2>1. <<>> \in Seq(Line) /\ ToSet(<<>>) = {} /\ 0 \in 0 .. MaxRooms
      <3>1. <<>> \in Seq(Line)
        BY EmptySeq
      <3>2. 0 \in 0 .. MaxRooms
        BY ChatAssumption
      <3>3. QED
        BY <3>1, <3>2, LogSets
    <2>2. /\ job \in [Thread -> AnyJob] /\ \A t \in Thread : JobOf(t, job[t])
          /\ job["ui"].at = "select" /\ job["listener"].at = "idle"
          /\ \A t \in Thread : job[t].at \in {"select", "idle"}
      <3>1. /\ JobOf("ui", At("select")) /\ At("select").at = "select"
            /\ JobOf("listener", At("idle")) /\ At("idle").at = "idle"
        BY Places
      <3>2. job = [t \in Thread |-> At(IF t = "ui" THEN "select" ELSE "idle")]
        BY DEF Init
      <3>3. job["ui"] = At("select") /\ job["listener"] = At("idle")
        BY <3>2 DEF Thread
      <3>4. job \in [Thread -> AnyJob] /\ \A t \in Thread : JobOf(t, job[t])
        BY <3>1, <3>2, <3>3 DEF Thread, JobOf
      <3>5. QED
        BY <3>1, <3>3, <3>4 DEF Thread
    <2>3. TypeOK
      BY <2>1, <2>2, Types, Places DEF Init, Typing
    <2>4. ChatInv
      BY <2>1, <2>2, Places DEF Init, ChatInv, Logs, Pushes, InRoom, Guest, OwnLinesOnly, Pushing
    <2>5. QED
      BY <2>3, <2>4
  <1>2. TypeOK /\ ChatInv /\ [Next]_vars => TypeOK' /\ ChatInv'
    <2> SUFFICES ASSUME TypeOK, ChatInv, [Next]_vars
                 PROVE  TypeOK' /\ ChatInv'
      OBVIOUS
    <2>1. CASE UNCHANGED vars
      BY <2>1 DEF vars, room_, TypeOK, ChatInv, Logs, Pushes, InRoom, Guest, OwnLinesOnly
    <2>2. CASE \E l \in Line : Say(l)
      <3>1. PICK l \in Line : job["ui"].at = "keys" /\ StartPush("ui", room, l)
        BY <2>2 DEF Say
      <3>2. room \in Name
        BY <3>1 DEF ChatInv, InRoom
      <3>3. QED
        BY <3>1, <3>2, StartPushKeeps, Places
    <2>3. CASE \E n \in Name, l \in Line : Receive(n, l)
      BY <2>3, StartPushKeeps, Places DEF Receive
    <2>4. CASE \E t \in Thread : PushMessage(t)
      BY <2>4, PushKeeps, CheckRoomKeeps, CopyLogKeeps, TurnPageKeeps, PrintLineKeeps
         DEF PushMessage
    <2>5. CASE ChatRoom \/ ClearWindow \/ Leave \/ (\E n \in Name : OpenRoom(n)) \/ Crash
      BY <2>5, OpenRoomKeeps, SetCurrentKeeps, ClearKeeps, LeaveKeeps, CrashKeeps DEF ChatRoom
    <2>6. QED
      BY <2>1, <2>2, <2>3, <2>4, <2>5 DEF Next, User
  <1>3. QED
    BY <1>1, <1>2, PTL DEF Spec

\* The variables have their types throughout.
THEOREM ChatTypeCorrect == Spec => []TypeOK
  BY ChatInvariant, PTL

\* Nobody reads in a room what was said in another, at any moment, unless the
\* room was opened while the listener was drawing (ui.cc:258, 271-278).
THEOREM EveryLineInItsRoom == Spec => []OwnLinesOnly
  <1>1. ChatInv => OwnLinesOnly
    BY DEF ChatInv
  <1>2. QED
    BY <1>1, ChatInvariant, PTL

-----------------------------------------------------------------------------
(* The rows that a log fills: what Layout computes, by induction over the  *)
(* length of the log.                                                      *)

\* A set that has 0, and the successor of each of its numbers, has them all.
LEMMA Induction ==
    ASSUME NEW S, 0 \in S, \A n \in Nat : n \in S => n + 1 \in S
    PROVE  \A n \in Nat : n \in S
  <1> DEFINE T == {n \in Nat : n \notin S}
             R == {ss \in Nat \X Nat : ss[1] < ss[2]}
  <1>1. IsWellFoundedOn(R, Nat)
    BY NatLessThanWellFounded DEF OpToRel
  <1>2. SUFFICES ASSUME T # {} PROVE FALSE
    OBVIOUS
  <1>3. PICK x \in T : \A y \in T : ~(<<y, x>> \in R)
    <2>1. T \subseteq Nat
      OBVIOUS
    <2> HIDE DEF T, R
    <2>2. QED
      BY <1>1, <1>2, <2>1, WFMin
  <1>4. x \in Nat /\ x # 0
    OBVIOUS
  <1>5. x - 1 \in Nat /\ <<x - 1, x>> \in R
    BY <1>4
  <1>6. x - 1 \in S
    BY <1>3, <1>5
  <1>7. x - 1 + 1 \in S
    BY <1>5, <1>6
  <1>8. QED
    BY <1>4, <1>7

\* g is what FlattenSeq computes from the first n sequences of q.
Flattens(g, q, n) ==
    g = [i \in 1 .. n |-> IF i = 1 THEN q[i] ELSE g[i - 1] \o q[i]]

LEMMA FlattenDefined ==
    ASSUME NEW q, NEW n \in Nat
    PROVE  \E g : Flattens(g, q, n)
  <1> DEFINE S == {m \in Nat : \E g : Flattens(g, q, m)}
  <1>1. 0 \in S
    <2>1. Flattens(<<>>, q, 0)
      BY DEF Flattens
    <2>2. QED
      BY <2>1
  <1>2. ASSUME NEW m \in Nat, m \in S
        PROVE  m + 1 \in S
    <2>1. PICK g : Flattens(g, q, m)
      BY <1>2
    <2> DEFINE h == [i \in 1 .. m + 1 |->
                       IF i <= m THEN g[i]
                       ELSE IF i = 1 THEN q[i] ELSE g[m] \o q[i]]
    <2>2. ASSUME NEW i \in 1 .. m + 1
          PROVE  h[i] = IF i = 1 THEN q[i] ELSE h[i - 1] \o q[i]
      <3>1. CASE i <= m
        <4>1. i \in 1 .. m /\ h[i] = g[i] /\ (i # 1 => h[i - 1] = g[i - 1])
          BY <3>1
        <4>2. g[i] = IF i = 1 THEN q[i] ELSE g[i - 1] \o q[i]
          BY <2>1, <4>1 DEF Flattens
        <4>3. QED
          BY <4>1, <4>2
      <3>2. CASE i = m + 1
        <4>1. h[i] = IF i = 1 THEN q[i] ELSE g[m] \o q[i]
          BY <3>2
        <4>2. i # 1 => h[i - 1] = g[m]
          BY <3>2
        <4>3. QED
          BY <4>1, <4>2
      <3>3. QED
        BY <3>1, <3>2
    <2>3. Flattens(h, q, m + 1)
      <3>1. h = [i \in 1 .. m + 1 |-> h[i]]
        OBVIOUS
      <3> HIDE DEF h
      <3>2. QED
        BY <2>2, <3>1 DEF Flattens
    <2>4. QED
      BY <2>3
  <1>3. n \in S
    <2> HIDE DEF S
    <2>1. QED
      BY <1>1, <1>2, Induction
  <1>4. QED
    BY <1>3

LEMMA FlattenUnique ==
    ASSUME NEW q, NEW p, NEW g, NEW h, NEW m \in Nat, NEW n \in Nat,
           Flattens(g, p, m), Flattens(h, q, n), m <= n,
           \A i \in 1 .. m : p[i] = q[i]
    PROVE  \A i \in 1 .. m : g[i] = h[i]
  <1> DEFINE S == {j \in Nat : j + 1 <= m => g[j + 1] = h[j + 1]}
  <1>0. ASSUME NEW i \in 1 .. m
        PROVE  /\ g[i] = IF i = 1 THEN p[i] ELSE g[i - 1] \o p[i]
               /\ h[i] = IF i = 1 THEN q[i] ELSE h[i - 1] \o q[i]
    <2>1. i \in 1 .. n
      OBVIOUS
    <2>2. QED
      BY <2>1 DEF Flattens
  <1>1. 0 \in S
    <2>1. 1 <= m => 1 \in 1 .. m
      OBVIOUS
    <2>2. 1 <= m => g[1] = p[1] /\ h[1] = q[1] /\ p[1] = q[1]
      BY <1>0, <2>1
    <2>3. QED
      BY <2>2
  <1>2. ASSUME NEW j \in Nat, j \in S
        PROVE  j + 1 \in S
    <2>1. SUFFICES ASSUME j + 1 + 1 <= m
                   PROVE  g[j + 1 + 1] = h[j + 1 + 1]
      OBVIOUS
    <2>2. g[j + 1] = h[j + 1]
      BY <1>2, <2>1
    <2>3. PICK k \in 1 .. m : k = j + 1 + 1 /\ k # 1 /\ k - 1 = j + 1
      BY <2>1
    <2>4. g[k] = g[k - 1] \o p[k] /\ h[k] = h[k - 1] \o q[k] /\ p[k] = q[k]
      BY <1>0, <2>3
    <2>5. QED
      BY <2>2, <2>3, <2>4
  <1>3. \A j \in Nat : j \in S
    <2> HIDE DEF S
    <2>1. QED
      BY <1>1, <1>2, Induction
  <1>4. ASSUME NEW i \in 1 .. m
        PROVE  g[i] = h[i]
    <2>1. i - 1 \in S /\ i - 1 + 1 = i
      BY <1>3
    <2>2. QED
      BY <2>1
  <1>5. QED
    BY <1>4

\* FlattenSeq as it is defined, for a list with something in it.
LEMMA FlattenIs ==
    ASSUME NEW q, Len(q) \in Nat \ {0}
    PROVE  \E g : Flattens(g, q, Len(q)) /\ FlattenSeq(q) = g[Len(q)]
  <1>1. PICK n \in Nat \ {0} : n = Len(q)
    OBVIOUS
  <1>2. \E g : Flattens(g, q, n)
    BY FlattenDefined
  <1> DEFINE g == CHOOSE g : Flattens(g, q, n)
  <1>3. Flattens(g, q, n)
    BY <1>2
  <1>4. FlattenSeq(q) = g[n]
    BY <1>1 DEF FlattenSeq, Flattens
  <1>5. QED
    BY <1>1, <1>3, <1>4

\* The rows of a line, and the lists of rows Layout puts one below the other.
Block(l)  == [r \in 1 .. Height[l] |-> l]
Blocks(s) == [i \in DOMAIN s |-> Block(s[i])]

LEMMA BlockIs ==
    ASSUME NEW l \in Line
    PROVE  /\ Height[l] \in 1 .. Rows /\ Block(l) \in Seq(Line) /\ Len(Block(l)) = Height[l]
           /\ \A r \in 1 .. Height[l] : Block(l)[r] = l
  <1>1. PICK n \in Nat : n = Height[l] /\ n \in 1 .. Rows
    BY ChatAssumption
  <1>2. [r \in 1 .. n |-> l] \in Seq(Line)
    BY <1>1
  <1>3. Len([r \in 1 .. n |-> l]) = n
    BY <1>1
  <1>4. QED
    BY <1>1, <1>2, <1>3 DEF Block

LEMMA LayoutEmpty == Layout(<<>>) = <<>>
  <1>1. Blocks(<<>>) = <<>>
    BY DEF Blocks
  <1>2. FlattenSeq(<<>>) = <<>>
    BY DEF FlattenSeq
  <1>3. QED
    BY <1>1, <1>2 DEF Layout, Blocks, Block

\* What has to be known of Layout: a line at the end of a log adds its rows.
LEMMA LayoutAppend ==
    ASSUME NEW s \in Seq(Line), NEW l \in Line
    PROVE  Layout(Append(s, l)) = IF s = <<>> THEN Block(l) ELSE Layout(s) \o Block(l)
  <1> DEFINE p == Blocks(s)
             q == Blocks(Append(s, l))
  <1>0. PICK n \in Nat : n = Len(s) /\ DOMAIN s = 1 .. n
    OBVIOUS
  <1>1. /\ DOMAIN Append(s, l) = 1 .. n + 1 /\ Append(s, l)[n + 1] = l
        /\ \A i \in 1 .. n : Append(s, l)[i] = s[i]
    BY <1>0
  <1>2. /\ p = [i \in 1 .. n |-> Block(s[i])]
        /\ q = [i \in 1 .. n + 1 |-> Block(Append(s, l)[i])]
    BY <1>0, <1>1 DEF Blocks
  <1>3. Len(p) = n /\ Len(q) = n + 1
    BY <1>2
  <1>4. q[n + 1] = Block(l) /\ \A i \in 1 .. n : p[i] = q[i]
    BY <1>1, <1>2
  <1>5. Layout(s) = FlattenSeq(p) /\ Layout(Append(s, l)) = FlattenSeq(q)
    BY DEF Layout, Blocks, Block
  <1> HIDE DEF p, q
  <1>6. PICK h : Flattens(h, q, n + 1) /\ FlattenSeq(q) = h[n + 1]
    BY <1>3, FlattenIs
  <1>7. h[n + 1] = IF n + 1 = 1 THEN q[n + 1] ELSE h[n + 1 - 1] \o q[n + 1]
    <2>1. PICK k \in 1 .. n + 1 : k = n + 1
      OBVIOUS
    <2>2. h[k] = IF k = 1 THEN q[k] ELSE h[k - 1] \o q[k]
      BY <1>6 DEF Flattens
    <2>3. QED
      BY <2>1, <2>2
  <1>8. CASE n = 0
    <2>1. s = <<>>
      BY <1>0, <1>8
    <2>2. QED
      BY <1>4, <1>5, <1>6, <1>7, <1>8, <2>1
  <1>9. CASE n # 0
    <2>1. PICK g : Flattens(g, p, n) /\ FlattenSeq(p) = g[n]
      BY <1>3, <1>9, FlattenIs
    <2>2. \A i \in 1 .. n : g[i] = h[i]
      <3>1. n + 1 \in Nat /\ n <= n + 1
        OBVIOUS
      <3>2. QED
        BY <1>4, <1>6, <2>1, <3>1, FlattenUnique
    <2>3. g[n] = h[n] /\ n + 1 - 1 = n /\ n + 1 # 1
      BY <1>9, <2>2
    <2>4. s # <<>>
      BY <1>0, <1>9
    <2>5. QED
      BY <1>4, <1>5, <1>6, <1>7, <2>1, <2>3, <2>4
  <1>10. QED
    BY <1>8, <1>9

\* The number of rows that a log fills.
Tall(s) == Len(Layout(s))

\* The lines k .. m of a log.
Piece(s, k, m) == SubSeq(s, k, m)

LEMMA PieceIs ==
    ASSUME NEW s \in Seq(Line), NEW k \in Nat, 1 <= k, NEW m \in Nat, m <= Len(s)
    PROVE  /\ Piece(s, k, m) \in Seq(Line)
           /\ k > m => Piece(s, k, m) = <<>>
           /\ k <= m => /\ Piece(s, k, m) = Append(Piece(s, k, m - 1), s[m])
                        /\ Piece(s, k, m) # <<>> /\ Len(Piece(s, k, m)) = m - k + 1
                        /\ Head(Piece(s, k, m)) = s[k] /\ s[k] \in Line /\ s[m] \in Line
                        /\ Tail(Piece(s, k, m)) = Piece(s, k + 1, m)
           /\ Piece(s, 1, Len(s)) = s
  <1>0. Len(s) \in Nat /\ DOMAIN s = 1 .. Len(s) /\ \A i \in 1 .. Len(s) : s[i] \in Line
    OBVIOUS
  <1>1. SubSeq(s, k, m) \in Seq(Line)
        /\ Len(SubSeq(s, k, m)) = (IF k <= m THEN m - k + 1 ELSE 0)
        /\ \A i \in 1 .. m - k + 1 : SubSeq(s, k, m)[i] = s[k + i - 1]
    BY <1>0
  <1>2. k > m => SubSeq(s, k, m) = <<>>
    BY <1>0, <1>1
  <1>3. ASSUME k <= m
        PROVE  /\ SubSeq(s, k, m) = Append(SubSeq(s, k, m - 1), s[m])
               /\ SubSeq(s, k, m) # <<>> /\ Len(SubSeq(s, k, m)) = m - k + 1
               /\ Head(SubSeq(s, k, m)) = s[k] /\ s[k] \in Line /\ s[m] \in Line
               /\ Tail(SubSeq(s, k, m)) = SubSeq(s, k + 1, m)
    <2>1. s[k] \in Line /\ s[m] \in Line /\ m - 1 \in Nat
      BY <1>0, <1>3
    <2>2. /\ SubSeq(s, k, m - 1) \in Seq(Line) /\ Len(SubSeq(s, k, m - 1)) = m - k
          /\ \A i \in 1 .. m - k : SubSeq(s, k, m - 1)[i] = s[k + i - 1]
      BY <1>0, <1>3, <2>1
    <2>3. SubSeq(s, k, m) = Append(SubSeq(s, k, m - 1), s[m])
      <3> DEFINE a == SubSeq(s, k, m)
                 b == Append(SubSeq(s, k, m - 1), s[m])
      <3>1. a \in Seq(Line) /\ Len(a) = m - k + 1
            /\ \A i \in 1 .. m - k + 1 : a[i] = s[k + i - 1]
        BY <1>1, <1>3
      <3>2. b \in Seq(Line) /\ Len(b) = m - k + 1 /\ b[m - k + 1] = s[m]
            /\ \A i \in 1 .. m - k : b[i] = s[k + i - 1]
        BY <1>3, <2>1, <2>2
      <3> HIDE DEF a, b
      <3>3. ASSUME NEW i \in 1 .. m - k + 1
            PROVE  b[i] = s[k + i - 1]
        <4>1. CASE i = m - k + 1
          <5>1. k + i - 1 = m
            BY <4>1
          <5>2. QED
            BY <3>2, <4>1, <5>1
        <4>2. CASE i # m - k + 1
          BY <3>2, <4>2
        <4>3. QED
          BY <4>1, <4>2
      <3>4. a = b
        BY <3>1, <3>2, <3>3, SeqEqual
      <3>5. QED
        BY <3>4 DEF a, b
    <2>4. Tail(SubSeq(s, k, m)) = SubSeq(s, k + 1, m)
      <3>1. k \in 1 .. Len(s) /\ m \in k .. Len(s)
        BY <1>0, <1>3
      <3>2. QED
        BY <3>1, HeadTailOfSubSeq
    <2>5. Head(SubSeq(s, k, m)) = s[k] /\ SubSeq(s, k, m) # <<>>
      BY <1>1, <1>3
    <2>6. QED
      BY <1>1, <1>3, <2>1, <2>3, <2>4, <2>5
  <1>4. SubSeq(s, 1, Len(s)) = s
    BY <1>0
  <1>5. QED
    BY <1>1, <1>2, <1>3, <1>4 DEF Piece

LEMMA PieceLast ==
    ASSUME NEW s \in Seq(Line), NEW k \in Nat, 1 <= k, NEW m \in Nat, k <= m, m <= Len(s)
    PROVE  Piece(s, k, m) = Append(Piece(s, k, m - 1), s[m]) /\ s[m] \in Line
  BY PieceIs

LEMMA LayoutType == \A s \in Seq(Line) : Layout(s) \in Seq(Line) /\ Tall(s) \in Nat
  <1> DEFINE S == {n \in Nat : \A s \in Seq(Line) : Len(s) = n => Layout(s) \in Seq(Line)}
  <1>1. 0 \in S
    <2>1. \A s \in Seq(Line) : Len(s) = 0 => s = <<>>
      OBVIOUS
    <2>2. <<>> \in Seq(Line)
      OBVIOUS
    <2>3. QED
      BY <2>1, <2>2, LayoutEmpty
  <1>2. ASSUME NEW n \in Nat, n \in S
        PROVE  n + 1 \in S
    <2>1. SUFFICES ASSUME NEW s \in Seq(Line), Len(s) = n + 1
                   PROVE  Layout(s) \in Seq(Line)
      OBVIOUS
    <2>2. PICK m \in Nat : m = Len(s) /\ 1 <= m /\ m <= Len(s) /\ Len(s) \in Nat
      BY <2>1
    <2>3. Piece(s, 1, m) = s /\ Piece(s, 1, m) = Append(Piece(s, 1, m - 1), s[m])
          /\ s[m] \in Line
      <3>1. PICK k \in Nat : k = 1 /\ 1 <= k /\ k <= m
        BY <2>2
      <3>2. Piece(s, k, m) = Append(Piece(s, k, m - 1), s[m]) /\ s[m] \in Line
        BY <2>2, <3>1, PieceLast
      <3>3. Piece(s, 1, m) = s
        BY <2>2 DEF Piece
      <3>4. QED
        BY <3>1, <3>2, <3>3
    <2>4. PICK t \in Seq(Line) : t = Piece(s, 1, m - 1)
      <3>1. PICK j \in Nat : j = m - 1 /\ j <= Len(s)
        BY <2>2
      <3>2. Piece(s, 1, j) \in Seq(Line)
        BY <3>1, PieceIs
      <3>3. QED
        BY <3>1, <3>2
    <2>5. Len(t) = n
      BY <2>1, <2>2, <2>4 DEF Piece
    <2>6. Layout(t) \in Seq(Line)
      BY <1>2, <2>5
    <2>7. Layout(s) = IF t = <<>> THEN Block(s[m]) ELSE Layout(t) \o Block(s[m])
      BY <2>3, <2>4, LayoutAppend
    <2>8. Block(s[m]) \in Seq(Line)
      BY <2>3, BlockIs
    <2>9. QED
      BY <2>6, <2>7, <2>8
  <1>3. \A n \in Nat : n \in S
    <2> HIDE DEF S
    <2>1. QED
      BY <1>1, <1>2, Induction
  <1>4. ASSUME NEW s \in Seq(Line)
        PROVE  Layout(s) \in Seq(Line) /\ Tall(s) \in Nat
    <2>1. Len(s) \in Nat
      OBVIOUS
    <2>2. Len(s) \in S
      BY <1>3, <2>1
    <2>3. Layout(s) \in Seq(Line)
      BY <2>2
    <2>4. QED
      BY <2>3 DEF Tall
  <1>5. QED
    BY <1>4

LEMMA LayoutGrows ==
    ASSUME NEW s \in Seq(Line), NEW l \in Line
    PROVE  /\ Append(s, l) \in Seq(Line)
           /\ Tall(Append(s, l)) = Tall(s) + Height[l]
           /\ \A r \in 1 .. Tall(s) : Layout(Append(s, l))[r] = Layout(s)[r]
           /\ \A r \in Tall(s) + 1 .. Tall(s) + Height[l] : Layout(Append(s, l))[r] = l
  <1>1. PICK u \in Seq(Line) : u = Layout(s)
    BY LayoutType
  <1>2. PICK b \in Seq(Line) : b = Block(l) /\ Len(b) = Height[l]
                               /\ \A r \in 1 .. Height[l] : b[r] = l
    BY BlockIs
  <1>3. PICK h \in Nat, n \in Nat : h = Height[l] /\ n = Len(u)
    <2>1. Len(u) \in Nat /\ Len(Block(l)) \in Nat
      BY BlockIs
    <2>2. QED
      BY <2>1, BlockIs
  <1>4. Layout(Append(s, l)) = u \o b
    <2>1. CASE s = <<>>
      <3>1. u = <<>> /\ <<>> \o b = b
        BY <1>1, <2>1, LayoutEmpty
      <3>2. QED
        BY <1>1, <1>2, <2>1, <3>1, LayoutAppend
    <2>2. CASE s # <<>>
      BY <1>1, <1>2, <2>2, LayoutAppend
    <2>3. QED
      BY <2>1, <2>2
  <1>5. /\ Len(u \o b) = n + h
        /\ \A r \in 1 .. n : (u \o b)[r] = u[r]
        /\ \A r \in n + 1 .. n + h : (u \o b)[r] = l
    BY <1>1, <1>2, <1>3
  <1>6. Append(s, l) \in Seq(Line)
    OBVIOUS
  <1>7. QED
    BY <1>1, <1>3, <1>4, <1>5, <1>6 DEF Tall

\* The layout of the beginning of a log is the beginning of its layout.
LEMMA LayoutPrefix ==
    ASSUME NEW s \in Seq(Line), NEW i \in 0 .. Len(s)
    PROVE  /\ Tall(Piece(s, 1, i)) <= Tall(s)
           /\ \A r \in 1 .. Tall(Piece(s, 1, i)) : Layout(Piece(s, 1, i))[r] = Layout(s)[r]
  <1> DEFINE a == Piece(s, 1, i)
             Begins(b) == /\ Tall(a) <= Tall(b)
                          /\ \A r \in 1 .. Tall(a) : Layout(a)[r] = Layout(b)[r]
             S == {n \in Nat : i + n <= Len(s) => Begins(Piece(s, 1, i + n))}
  <1>0. Len(s) \in Nat /\ i \in Nat /\ i <= Len(s)
    OBVIOUS
  <1>1. a \in Seq(Line) /\ Tall(a) \in Nat
    <2>1. a \in Seq(Line)
      BY <1>0, PieceIs
    <2>2. QED
      BY <2>1, LayoutType
  <1>2. 0 \in S
    BY <1>0, <1>1
  <1>3. ASSUME NEW n \in Nat, n \in S
        PROVE  n + 1 \in S
    <2>1. SUFFICES ASSUME i + (n + 1) <= Len(s)
                   PROVE  Begins(Piece(s, 1, i + (n + 1)))
      OBVIOUS
    <2>2. PICK m \in Nat : m = i + n
      BY <1>0
    <2>3. m + 1 <= Len(s) /\ m <= Len(s) /\ i + (n + 1) = m + 1
      BY <1>0, <2>1, <2>2
    <2>4. PICK b \in Seq(Line) : b = Piece(s, 1, m)
      <3>1. Piece(s, 1, m) \in Seq(Line)
        BY <2>3, PieceIs
      <3>2. QED
        BY <3>1
    <2>5. Piece(s, 1, m + 1) = Append(b, s[m + 1]) /\ s[m + 1] \in Line
      <3>1. PICK j \in Nat : j = m + 1 /\ 1 <= j /\ j <= Len(s) /\ j - 1 = m
        BY <2>3
      <3>2. Piece(s, 1, j) = Append(Piece(s, 1, j - 1), s[j]) /\ s[j] \in Line
        BY <3>1, PieceLast
      <3>3. QED
        BY <2>4, <3>1, <3>2
    <2>6. Begins(b)
      BY <1>3, <2>2, <2>3, <2>4
    <2>7. PICK l \in Line : l = s[m + 1]
      BY <2>5
    <2>8. /\ Tall(Append(b, l)) = Tall(b) + Height[l] /\ Tall(b) \in Nat /\ Height[l] \in Nat
          /\ \A r \in 1 .. Tall(b) : Layout(Append(b, l))[r] = Layout(b)[r]
      BY LayoutGrows, LayoutType, BlockIs
    <2> HIDE DEF a
    <2>9. Begins(Append(b, l))
      BY <1>1, <2>6, <2>8
    <2>10. QED
      BY <2>3, <2>5, <2>7, <2>9
  <1>4. \A n \in Nat : n \in S
    <2> HIDE DEF S
    <2>1. QED
      BY <1>2, <1>3, Induction
  <1>5. PICK n \in Nat : i + n = Len(s)
    BY <1>0
  <1>6. n \in S
    BY <1>4
  <1>7. Piece(s, 1, Len(s)) = s
    BY <1>0 DEF Piece
  <1>8. Begins(s)
    <2>1. Begins(Piece(s, 1, i + n))
      BY <1>5, <1>6
    <2> HIDE DEF Begins
    <2>2. QED
      BY <1>5, <1>7, <2>1
  <1>9. QED
    BY <1>8 DEF a

-----------------------------------------------------------------------------
(* Why a log that fits is on the screen.                                   *)

LEMMA PieceEnds ==
    ASSUME NEW s \in Seq(Line), NEW i \in Nat, NEW m \in Nat, 1 <= i, i <= m, m <= Len(s)
    PROVE  /\ Head(Piece(s, i, m)) = s[i] /\ s[i] \in Line
           /\ Len(Piece(s, i, m)) = m - i + 1
           /\ Tail(Piece(s, i, m)) = Piece(s, i + 1, m)
  BY PieceIs

LEMMA PieceKept ==
    ASSUME NEW s \in Seq(Line), NEW l \in Line, NEW k \in Nat, 1 <= k,
           NEW m \in Nat, m <= Len(s)
    PROVE  Piece(Append(s, l), k, m) = Piece(s, k, m)
  <1>1. SubSeq(Append(s, l), k, m) = SubSeq(s, k, m)
    OBVIOUS
  <1>2. QED
    BY <1>1 DEF Piece

\* A thread with job j is about to draw the room n,
Refreshes(j, n) == j.at \in {"check", "copy"} /\ j.name = n

\* or still has the lines i .. m of the log s to draw,
Draws(j, s, i, m) == j.at = "draw" /\ i <= m /\ j.todo = Piece(s, i, m)

\* in the rows where they belong if the window shows all of s.
FromTop(j, s, i, m) == Draws(j, s, i, m) /\ j.offset = Tall(Piece(s, 1, i - 1))

\* Sooner or later it draws row r.
Covers(j, s, n, r) ==
    \/ Refreshes(j, n)
    \/ \E i, m \in DOMAIN s : /\ FromTop(j, s, i, m)
                              /\ j.offset < r /\ r <= Tall(Piece(s, 1, m))

\* Whatever is on the screen d is where it belongs.
Agrees(s, d) ==
    \A r \in 1 .. Rows : d[r] # Blank => r <= Tall(s) /\ d[r] = Layout(s)[r]

\* With jobs f, in the room n with the log s: all of s is drawn, or is going to be.
AllDrawn(f, s, n, d) ==
    /\ Agrees(s, d)
    /\ \A t \in Thread : f[t].at = "draw" => \E i, m \in DOMAIN s : FromTop(f[t], s, i, m)
    /\ \A r \in 1 .. Tall(s) : \/ d[r] = Layout(s)[r]
                               \/ \E t \in Thread : Covers(f[t], s, n, r)

\* A thread moves on without drawing.
LEMMA AllDrawnMoves ==
    ASSUME NEW f, NEW g, NEW s, NEW n, NEW d, AllDrawn(f, s, n, d), NEW t \in Thread,
           \A u \in Thread : u # t => g[u] = f[u],
           f[t].at # "draw", g[t].at # "draw", Refreshes(f[t], n) => Refreshes(g[t], n)
    PROVE  AllDrawn(g, s, n, d)
  <1>1. \A r : Covers(f[t], s, n, r) => Covers(g[t], s, n, r)
    BY DEF Covers, FromTop, Draws
  <1>2. \A r : (\E u \in Thread : Covers(f[u], s, n, r)) => \E u \in Thread : Covers(g[u], s, n, r)
    BY <1>1
  <1>3. \A u \in Thread : g[u].at = "draw" => \E i, m \in DOMAIN s : FromTop(g[u], s, i, m)
    BY DEF AllDrawn
  <1>4. QED
    BY <1>2, <1>3 DEF AllDrawn

\* It begins to draw the whole log.
LEMMA AllDrawnStarts ==
    ASSUME NEW f, NEW g, NEW s \in Seq(Line), NEW n, NEW d, AllDrawn(f, s, n, d),
           NEW t \in Thread, \A u \in Thread : u # t => g[u] = f[u],
           f[t].at = "copy", s # <<>>,
           g[t].at = "draw", g[t].todo = s, g[t].offset = 0
    PROVE  AllDrawn(g, s, n, d)
  <1>1. PICK m \in Nat : m = Len(s) /\ DOMAIN s = 1 .. m /\ 1 \in DOMAIN s /\ m \in DOMAIN s
    OBVIOUS
  <1>2. Piece(s, 1, m) = s /\ Tall(Piece(s, 1, 1 - 1)) = 0
    <2>1. Piece(s, 1, m) = s
      BY <1>1, PieceIs
    <2>2. PICK k \in Nat : k = 1 - 1 /\ k <= Len(s)
      BY <1>1
    <2>3. Piece(s, 1, k) = <<>>
      BY <2>2, PieceIs
    <2>4. Tall(<<>>) = 0
      BY LayoutEmpty DEF Tall
    <2>5. QED
      BY <2>1, <2>2, <2>3, <2>4
  <1>3. 1 <= m
    BY <1>1
  <1>4. FromTop(g[t], s, 1, m)
    BY <1>1, <1>2, <1>3 DEF FromTop, Draws
  <1>5. \A r \in 1 .. Tall(s) : Covers(g[t], s, n, r)
    <2>1. ASSUME NEW r \in 1 .. Tall(s)
          PROVE  FromTop(g[t], s, 1, m) /\ g[t].offset < r /\ r <= Tall(Piece(s, 1, m))
      BY <1>2, <1>4, LayoutType
    <2>2. QED
      BY <1>1, <2>1 DEF Covers
  <1>6. \A u \in Thread : g[u].at = "draw" => \E i, k \in DOMAIN s : FromTop(g[u], s, i, k)
    BY <1>1, <1>4 DEF AllDrawn
  <1>7. QED
    BY <1>5, <1>6 DEF AllDrawn

\* A line gets to the end of the log; the thread that put it there draws it.
LEMMA AllDrawnGrows ==
    ASSUME NEW f, NEW g, NEW s \in Seq(Line), NEW l \in Line, NEW n, NEW d,
           AllDrawn(f, s, n, d),
           NEW t \in Thread, \A u \in Thread : u # t => g[u] = f[u],
           f[t].at = "push", g[t].at = "check", g[t].name = n
    PROVE  AllDrawn(g, Append(s, l), n, d)
  <1> DEFINE z == Append(s, l)
  <1>1. /\ z \in Seq(Line) /\ Tall(s) \in Nat /\ Height[l] \in Nat
        /\ Tall(z) = Tall(s) + Height[l]
        /\ \A r \in 1 .. Tall(s) : Layout(z)[r] = Layout(s)[r]
    <2>1. /\ z \in Seq(Line) /\ Tall(z) = Tall(s) + Height[l]
          /\ \A r \in 1 .. Tall(s) : Layout(z)[r] = Layout(s)[r]
      BY LayoutGrows
    <2>2. Tall(s) \in Nat
      BY LayoutType
    <2>3. Height[l] \in Nat
      BY ChatAssumption
    <2>4. QED
      BY <2>1, <2>2, <2>3
  <1>2. DOMAIN s \subseteq DOMAIN z
    OBVIOUS
  <1>3. \A i, m \in DOMAIN s : Piece(z, i, m) = Piece(s, i, m)
                               /\ Piece(z, 1, i - 1) = Piece(s, 1, i - 1)
    <2>1. ASSUME NEW i \in DOMAIN s, NEW m \in DOMAIN s
          PROVE  Piece(z, i, m) = Piece(s, i, m) /\ Piece(z, 1, i - 1) = Piece(s, 1, i - 1)
      <3>1. i \in Nat /\ 1 <= i /\ m \in Nat /\ m <= Len(s)
        OBVIOUS
      <3>2. PICK k \in Nat : k = i - 1 /\ k <= Len(s)
        BY <3>1
      <3>3. Piece(z, i, m) = Piece(s, i, m)
        BY <3>1, PieceKept
      <3>4. Piece(z, 1, k) = Piece(s, 1, k)
        BY <3>2, PieceKept
      <3>5. QED
        BY <3>2, <3>3, <3>4
    <2>2. QED
      BY <2>1
  <1> HIDE DEF z
  <1>4. Agrees(z, d)
    <2>1. ASSUME NEW r \in 1 .. Rows, d[r] # Blank
          PROVE  r <= Tall(z) /\ d[r] = Layout(z)[r]
      <3>1. r <= Tall(s) /\ d[r] = Layout(s)[r]
        BY <2>1 DEF AllDrawn, Agrees
      <3>2. r \in 1 .. Tall(s)
        BY <1>1, <3>1, ChatAssumption
      <3>3. QED
        BY <1>1, <3>1, <3>2
    <2>2. QED
      BY <2>1 DEF Agrees
  <1>5. ASSUME NEW u \in Thread, g[u].at = "draw"
        PROVE  \E i, m \in DOMAIN z : FromTop(g[u], z, i, m)
    <2>1. u # t /\ g[u] = f[u]
      BY <1>5
    <2>2. PICK i \in DOMAIN s, m \in DOMAIN s : FromTop(f[u], s, i, m)
      BY <1>5, <2>1 DEF AllDrawn
    <2>3. FromTop(g[u], z, i, m)
      BY <1>3, <2>1, <2>2 DEF FromTop, Draws
    <2>4. QED
      BY <1>2, <2>3
  <1>6. \A r : Covers(g[t], z, n, r)
    BY DEF Covers, Refreshes
  <1>7. AllDrawn(g, z, n, d)
    BY <1>4, <1>5, <1>6 DEF AllDrawn
  <1>8. QED
    BY <1>7 DEF z

\* A piece of a log and the line after it.
Stacks(p, l, q) ==
    /\ l \in Line /\ Height[l] \in Nat /\ Height[l] >= 1
    /\ Tall(p) \in Nat /\ Tall(q) = Tall(p) + Height[l]
    /\ \A r \in 1 .. Tall(p) : Layout(q)[r] = Layout(p)[r]
    /\ \A r \in Tall(p) + 1 .. Tall(p) + Height[l] : Layout(q)[r] = l

LEMMA PieceGrows ==
    ASSUME NEW s \in Seq(Line), NEW k \in Nat, NEW i \in Nat, 1 <= k, k <= i, i <= Len(s)
    PROVE  Stacks(Piece(s, k, i - 1), s[i], Piece(s, k, i))
  <1>1. PICK h \in Nat : h = i - 1 /\ h <= Len(s)
    OBVIOUS
  <1>2. PICK p \in Seq(Line) : p = Piece(s, k, h)
    <2>1. Piece(s, k, h) \in Seq(Line)
      BY <1>1, PieceIs
    <2>2. QED
      BY <2>1
  <1>3. PICK l \in Line : l = s[i]
    BY PieceLast
  <1>4. Piece(s, k, i) = Append(Piece(s, k, i - 1), s[i])
    BY PieceLast
  <1>5. Piece(s, k, i) = Append(p, l)
    BY <1>1, <1>2, <1>3, <1>4
  <1>6. Stacks(p, l, Append(p, l))
    <2>1. /\ Tall(Append(p, l)) = Tall(p) + Height[l]
          /\ \A r \in 1 .. Tall(p) : Layout(Append(p, l))[r] = Layout(p)[r]
          /\ \A r \in Tall(p) + 1 .. Tall(p) + Height[l] : Layout(Append(p, l))[r] = l
      BY LayoutGrows
    <2>2. Tall(p) \in Nat
      BY LayoutType
    <2>3. Height[l] \in Nat /\ Height[l] >= 1
      BY ChatAssumption
    <2>4. QED
      BY <2>1, <2>2, <2>3 DEF Stacks
  <1>7. Piece(s, k, i - 1) = p
    BY <1>1, <1>2
  <1>8. QED
    BY <1>3, <1>5, <1>6, <1>7

\* The next line of a thread that draws from the top is where it belongs.
NextLine(j, s, i, m, o, h, l) ==
    /\ o = j.offset /\ l = s[i] /\ h = Height[l] /\ h >= 1
    /\ Head(j.todo) = l /\ o + h = Tall(Piece(s, 1, i)) /\ o + h <= Tall(s)
    /\ \A r \in o + 1 .. o + h : Layout(s)[r] = l
    /\ Len(j.todo) = m - i + 1 /\ Tail(j.todo) = Piece(s, i + 1, m)

LEMMA FromTopNext ==
    ASSUME NEW s \in Seq(Line), NEW i \in DOMAIN s, NEW m \in DOMAIN s, NEW j,
           FromTop(j, s, i, m)
    PROVE  \E o \in Nat, h \in Nat, l \in Line : NextLine(j, s, i, m, o, h, l)
  <1>1. /\ i \in Nat /\ 1 <= i /\ i <= Len(s) /\ m \in Nat /\ m <= Len(s) /\ i <= m
        /\ j.todo = Piece(s, i, m) /\ j.offset = Tall(Piece(s, 1, i - 1))
    BY DEF FromTop, Draws
  <1>2. Stacks(Piece(s, 1, i - 1), s[i], Piece(s, 1, i))
    BY <1>1, PieceGrows
  <1>3. /\ Head(j.todo) = s[i] /\ Len(j.todo) = m - i + 1
        /\ Tail(j.todo) = Piece(s, i + 1, m)
    <2>1. /\ Head(Piece(s, i, m)) = s[i] /\ Len(Piece(s, i, m)) = m - i + 1
          /\ Tail(Piece(s, i, m)) = Piece(s, i + 1, m)
      BY <1>1, PieceEnds
    <2>2. QED
      BY <1>1, <2>1
  <1>4. /\ Tall(Piece(s, 1, i)) <= Tall(s) /\ Tall(s) \in Nat
        /\ \A r \in 1 .. Tall(Piece(s, 1, i)) : Layout(Piece(s, 1, i))[r] = Layout(s)[r]
    <2>1. i \in 0 .. Len(s)
      BY <1>1
    <2>2. QED
      BY <2>1, LayoutPrefix, LayoutType
  <1>5. PICK o \in Nat, h \in Nat, l \in Line :
           /\ o = j.offset /\ l = s[i] /\ h = Height[l] /\ h >= 1
           /\ o + h = Tall(Piece(s, 1, i))
           /\ \A r \in o + 1 .. o + h : Layout(Piece(s, 1, i))[r] = l
    BY <1>1, <1>2 DEF Stacks
  <1>6. \A r \in o + 1 .. o + h : Layout(s)[r] = l
    <2>1. ASSUME NEW r \in o + 1 .. o + h
          PROVE  Layout(s)[r] = l
      <3>1. r \in 1 .. Tall(Piece(s, 1, i))
        BY <1>5
      <3>2. QED
        BY <1>4, <1>5, <3>1
    <2>2. QED
      BY <2>1
  <1>7. NextLine(j, s, i, m, o, h, l)
    BY <1>3, <1>4, <1>5, <1>6 DEF NextLine
  <1>8. QED
    BY <1>7

\* A thread draws its next line.
Printed(d, o, l) == [r \in 1 .. Rows |-> IF r \in o + 1 .. o + Height[l] THEN l ELSE d[r]]

LEMMA AllDrawnPrints ==
    ASSUME NEW f, NEW g, NEW s \in Seq(Line), NEW n, NEW d, AllDrawn(f, s, n, d),
           NEW t \in Thread, \A u \in Thread : u # t => g[u] = f[u],
           f[t].at = "draw", Tall(s) <= Rows,
           IF Len(f[t].todo) = 1 THEN g[t].at # "draw"
           ELSE /\ g[t].at = "draw" /\ g[t].todo = Tail(f[t].todo)
                /\ g[t].offset = f[t].offset + Height[Head(f[t].todo)]
    PROVE  AllDrawn(g, s, n, Printed(d, f[t].offset, Head(f[t].todo)))
  <1>1. PICK i \in DOMAIN s, m \in DOMAIN s : FromTop(f[t], s, i, m)
    BY DEF AllDrawn
  <1>2. /\ i \in Nat /\ m \in Nat /\ i <= m /\ m <= Len(s) /\ DOMAIN s = 1 .. Len(s)
    BY <1>1 DEF FromTop, Draws
  <1>3. PICK o \in Nat, h \in Nat, l \in Line : NextLine(f[t], s, i, m, o, h, l)
    BY <1>1, FromTopNext
  <1>4. /\ o = f[t].offset /\ l = s[i] /\ h = Height[l] /\ h >= 1
        /\ Head(f[t].todo) = l /\ o + h = Tall(Piece(s, 1, i)) /\ o + h <= Tall(s)
        /\ \A r \in o + 1 .. o + h : Layout(s)[r] = l
        /\ Len(f[t].todo) = m - i + 1 /\ Tail(f[t].todo) = Piece(s, i + 1, m)
    BY <1>3 DEF NextLine
  <1>5. Tall(s) \in Nat /\ Rows \in Nat
    BY LayoutType, ChatAssumption
  <1>6. PICK e : e = Printed(d, f[t].offset, Head(f[t].todo))
    OBVIOUS
  <1>7. \A r \in 1 .. Rows : e[r] = IF r \in o + 1 .. o + h THEN l ELSE d[r]
    BY <1>4, <1>6 DEF Printed
  <1>8. Agrees(s, e)
    <2>1. ASSUME NEW r \in 1 .. Rows, e[r] # Blank
          PROVE  r <= Tall(s) /\ e[r] = Layout(s)[r]
      <3>1. CASE r \in o + 1 .. o + h
        <4>1. e[r] = l
          BY <1>7, <3>1
        <4>2. Layout(s)[r] = l /\ o + h <= Tall(s)
          BY <1>4, <3>1
        <4>3. QED
          BY <1>5, <3>1, <4>1, <4>2
      <3>2. CASE r \notin o + 1 .. o + h
        BY <1>7, <2>1, <3>2 DEF AllDrawn, Agrees
      <3>3. QED
        BY <3>1, <3>2
    <2>2. QED
      BY <2>1 DEF Agrees
  <1>9. ASSUME m # i
        PROVE  /\ i + 1 \in DOMAIN s /\ FromTop(g[t], s, i + 1, m)
               /\ g[t].offset = o + h
    <2>1. /\ g[t].at = "draw" /\ g[t].todo = Piece(s, i + 1, m) /\ g[t].offset = o + h
      BY <1>2, <1>4, <1>9
    <2>2. i + 1 \in DOMAIN s /\ i + 1 <= m /\ i + 1 - 1 = i
      BY <1>2, <1>9
    <2>3. QED
      BY <1>4, <2>1, <2>2 DEF FromTop, Draws
  <1>10. m = i => g[t].at # "draw"
    <2>1. m = i => Len(f[t].todo) = 1
      BY <1>2, <1>4
    <2>2. QED
      BY <2>1
  <1>11. ASSUME NEW u \in Thread, g[u].at = "draw"
        PROVE  \E a, b \in DOMAIN s : FromTop(g[u], s, a, b)
    <2>1. CASE u = t
      BY <1>9, <1>10, <1>11, <2>1
    <2>2. CASE u # t
      BY <1>11, <2>2 DEF AllDrawn
    <2>3. QED
      BY <2>1, <2>2
  <1>12. ASSUME NEW r \in 1 .. Tall(s)
         PROVE  e[r] = Layout(s)[r] \/ \E u \in Thread : Covers(g[u], s, n, r)
    <2>0. r \in 1 .. Rows
      BY <1>5
    <2>1. CASE r \in o + 1 .. o + h
      BY <1>4, <1>7, <2>0, <2>1
    <2>2. CASE r \notin o + 1 .. o + h /\ d[r] = Layout(s)[r]
      BY <1>7, <2>0, <2>2
    <2>3. CASE r \notin o + 1 .. o + h /\ \E u \in Thread : Covers(f[u], s, n, r)
      <3>1. PICK u \in Thread : Covers(f[u], s, n, r)
        BY <2>3
      <3>2. CASE u # t
        BY <3>1, <3>2
      <3>3. CASE u = t
        <4>1. PICK a \in DOMAIN s, b \in DOMAIN s :
                 FromTop(f[t], s, a, b) /\ o < r /\ r <= Tall(Piece(s, 1, b))
          BY <1>4, <3>1, <3>3 DEF Covers, Refreshes
        <4>2. Tail(f[t].todo) = Piece(s, a + 1, b) /\ Len(f[t].todo) = b - a + 1 /\ a <= b
              /\ o + h = Tall(Piece(s, 1, a))
          <5>1. PICK x \in Nat, y \in Nat, k \in Line : NextLine(f[t], s, a, b, x, y, k)
            BY <4>1, FromTopNext
          <5>2. a <= b
            BY <4>1 DEF FromTop, Draws
          <5>3. x = o /\ y = h
            BY <1>3, <5>1 DEF NextLine
          <5>4. QED
            BY <5>1, <5>2, <5>3 DEF NextLine
        <4>3. ~(r <= o + h)
          BY <1>4, <2>3, <4>1
        <4>4. a # b
          <5>1. a = b => r <= o + h
            BY <4>1, <4>2
          <5>2. QED
            BY <4>3, <5>1
        <4>5. a \in Nat /\ b \in Nat /\ a < b /\ b <= Len(s)
          BY <1>2, <4>2, <4>4
        <4>6. /\ g[t].at = "draw" /\ g[t].todo = Piece(s, a + 1, b) /\ g[t].offset = o + h
          <5>1. Len(f[t].todo) # 1
            BY <4>2, <4>5
          <5>2. QED
            BY <1>4, <4>2, <5>1
        <4>7. a + 1 \in DOMAIN s /\ a + 1 <= b /\ a + 1 - 1 = a
          BY <1>2, <4>5
        <4>8. FromTop(g[t], s, a + 1, b)
          BY <4>2, <4>6, <4>7 DEF FromTop, Draws
        <4>9. Covers(g[t], s, n, r)
          BY <4>1, <4>3, <4>6, <4>7, <4>8 DEF Covers
        <4>10. QED
          BY <4>9
      <3>4. QED
        BY <3>2, <3>3
    <2>4. QED
      BY <2>1, <2>2, <2>3 DEF AllDrawn
  <1>13. AllDrawn(g, s, n, e)
    BY <1>8, <1>11, <1>12 DEF AllDrawn
  <1>14. QED
    BY <1>6, <1>13

-----------------------------------------------------------------------------
(* Why the window ends with the last lines of a longer log.                *)

\* The rows of the screen d are those of s, and no others.
Fills(s, d) == \A r \in 1 .. Rows : d[r] = IF r <= Tall(s) THEN Layout(s)[r] ELSE Blank

EndShown(s, d) ==
    \E k \in DOMAIN s : Tall(Piece(s, k, Len(s))) <= Rows /\ Fills(Piece(s, k, Len(s)), d)

\* A thread with job j has drawn the lines from k to i - 1 on the page it is at,
\* and has those from i to m left; that page was empty before if it is not the
\* first.  What has been added to the log meanwhile is still going to be drawn.
DrawsPage(f, j, s, n, d, k, i, m) ==
    /\ k <= i /\ Draws(j, s, i, m)
    /\ j.offset = Tall(Piece(s, k, i - 1))
    /\ \A r \in 1 .. j.offset : d[r] = Layout(Piece(s, k, i - 1))[r]
    /\ k > 1 => \A r \in 1 .. Rows : r > j.offset => d[r] = Blank
    /\ m < Len(s) => \E u \in Thread : Refreshes(f[u], n)

EndDrawn(f, s, n, d) ==
    /\ \A t \in Thread : f[t].at = "draw" =>
          \E k, i, m \in DOMAIN s : DrawsPage(f, f[t], s, n, d, k, i, m)
    /\ s # <<>> /\ (\A t \in Thread : ~Refreshes(f[t], n) /\ f[t].at # "draw") => EndShown(s, d)

LEMMA EndDrawnMoves ==
    ASSUME NEW f, NEW g, NEW s, NEW n, NEW d, EndDrawn(f, s, n, d), NEW t \in Thread,
           \A u \in Thread : u # t => g[u] = f[u],
           f[t].at # "draw", g[t].at # "draw", Refreshes(f[t], n) => Refreshes(g[t], n)
    PROVE  EndDrawn(g, s, n, d)
  <1>1. \A u \in Thread : Refreshes(f[u], n) => Refreshes(g[u], n)
    OBVIOUS
  <1>2. ASSUME NEW u \in Thread, g[u].at = "draw"
        PROVE  \E k, i, m \in DOMAIN s : DrawsPage(g, g[u], s, n, d, k, i, m)
    <2>1. u # t /\ g[u] = f[u]
      BY <1>2
    <2>2. PICK k \in DOMAIN s, i \in DOMAIN s, m \in DOMAIN s :
             DrawsPage(f, f[u], s, n, d, k, i, m)
      BY <1>2, <2>1 DEF EndDrawn
    <2>3. DrawsPage(g, g[u], s, n, d, k, i, m)
      BY <1>1, <2>1, <2>2 DEF DrawsPage
    <2>4. QED
      BY <2>3
  <1>3. (\A u \in Thread : ~Refreshes(g[u], n) /\ g[u].at # "draw")
           => \A u \in Thread : ~Refreshes(f[u], n) /\ f[u].at # "draw"
    BY <1>1
  <1>4. QED
    BY <1>2, <1>3 DEF EndDrawn

LEMMA EndDrawnStarts ==
    ASSUME NEW f, NEW g, NEW s \in Seq(Line), NEW n, NEW d,
           NEW t \in Thread, \A u \in Thread : u # t => g[u] = f[u] /\ f[u].at # "draw",
           s # <<>>, g[t].at = "draw", g[t].todo = s, g[t].offset = 0
    PROVE  EndDrawn(g, s, n, d)
  <1>1. PICK m \in Nat : m = Len(s) /\ DOMAIN s = 1 .. m /\ 1 \in DOMAIN s /\ m \in DOMAIN s /\ 1 <= m
    OBVIOUS
  <1>2. Piece(s, 1, m) = s /\ Tall(Piece(s, 1, 1 - 1)) = 0
    <2>1. Piece(s, 1, m) = s
      BY <1>1, PieceIs
    <2>2. PICK k \in Nat : k = 1 - 1 /\ k <= Len(s)
      BY <1>1
    <2>3. Piece(s, 1, k) = <<>>
      BY <2>2, PieceIs
    <2>4. Tall(<<>>) = 0
      BY LayoutEmpty DEF Tall
    <2>5. QED
      BY <2>1, <2>2, <2>3, <2>4
  <1>3. DrawsPage(g, g[t], s, n, d, 1, 1, m)
    BY <1>1, <1>2 DEF DrawsPage, Draws
  <1>4. QED
    BY <1>1, <1>3 DEF EndDrawn

LEMMA EndDrawnGrows ==
    ASSUME NEW f, NEW g, NEW s \in Seq(Line), NEW l \in Line, NEW n, NEW d,
           EndDrawn(f, s, n, d),
           NEW t \in Thread, \A u \in Thread : u # t => g[u] = f[u],
           f[t].at = "push", g[t].at = "check", g[t].name = n
    PROVE  EndDrawn(g, Append(s, l), n, d)
  <1> DEFINE z == Append(s, l)
  <1>1. DOMAIN s \subseteq DOMAIN z
    OBVIOUS
  <1>2. ASSUME NEW k \in DOMAIN s, NEW i \in DOMAIN s, NEW m \in DOMAIN s
        PROVE  Piece(z, i, m) = Piece(s, i, m) /\ Piece(z, k, i - 1) = Piece(s, k, i - 1)
    <2>1. i \in Nat /\ 1 <= i /\ m \in Nat /\ m <= Len(s) /\ k \in Nat /\ 1 <= k
      OBVIOUS
    <2>2. PICK h \in Nat : h = i - 1 /\ h <= Len(s)
      BY <2>1
    <2>3. Piece(z, i, m) = Piece(s, i, m)
      BY <2>1, PieceKept
    <2>4. Piece(z, k, h) = Piece(s, k, h)
      BY <2>1, <2>2, PieceKept
    <2>5. QED
      BY <2>2, <2>3, <2>4
  <1> HIDE DEF z
  <1>3. Refreshes(g[t], n)
    BY DEF Refreshes
  <1>4. ASSUME NEW u \in Thread, g[u].at = "draw"
        PROVE  \E k, i, m \in DOMAIN z : DrawsPage(g, g[u], z, n, d, k, i, m)
    <2>1. u # t /\ g[u] = f[u]
      BY <1>4
    <2>2. PICK k \in DOMAIN s, i \in DOMAIN s, m \in DOMAIN s :
             DrawsPage(f, f[u], s, n, d, k, i, m)
      BY <1>4, <2>1 DEF EndDrawn
    <2>3. DrawsPage(g, g[u], z, n, d, k, i, m)
      BY <1>2, <1>3, <2>1, <2>2 DEF DrawsPage, Draws
    <2>4. QED
      BY <1>1, <2>3
  <1>5. EndDrawn(g, z, n, d)
    BY <1>3, <1>4 DEF EndDrawn
  <1>6. QED
    BY <1>5 DEF z

\* The line does not fit: it is the first of the next page.
LEMMA EndDrawnTurns ==
    ASSUME NEW f, NEW g, NEW s \in Seq(Line), NEW n, NEW d, NEW e, EndDrawn(f, s, n, d),
           NEW t \in Thread, \A u \in Thread : u # t => g[u] = f[u] /\ f[u].at # "draw",
           f[t].at = "draw", f[t].offset + Height[Head(f[t].todo)] > Rows,
           g[t].at = "draw", g[t].todo = f[t].todo, g[t].offset = 0,
           \A r \in 1 .. Rows : e[r] = Blank
    PROVE  EndDrawn(g, s, n, e)
  <1>1. PICK k \in DOMAIN s, i \in DOMAIN s, m \in DOMAIN s : DrawsPage(f, f[t], s, n, d, k, i, m)
    BY DEF EndDrawn
  <1>2. /\ k \in Nat /\ i \in Nat /\ m \in Nat /\ 1 <= k /\ 1 <= i /\ k <= i /\ i <= m /\ m <= Len(s)
        /\ f[t].todo = Piece(s, i, m) /\ f[t].offset = Tall(Piece(s, k, i - 1))
        /\ m < Len(s) => \E u \in Thread : Refreshes(f[u], n)
    BY <1>1 DEF DrawsPage, Draws
  <1>3. Head(f[t].todo) = s[i] /\ s[i] \in Line
    <2>1. Head(Piece(s, i, m)) = s[i] /\ s[i] \in Line
      BY ONLY <1>2, PieceEnds, s \in Seq(Line)
    <2>2. QED
      BY <1>2, <2>1
  <1>4. PICK h \in Nat : h = i - 1 /\ h <= Len(s)
    BY <1>2
  <1>5. Piece(s, i, h) = <<>>
    BY <1>2, <1>4, PieceIs
  <1>6. Tall(Piece(s, i, i - 1)) = 0
    BY <1>4, <1>5, LayoutEmpty DEF Tall
  <1>7. i > 1
    <2>1. ASSUME i = 1
          PROVE  FALSE
      <3>1. k = i
        BY <1>2, <2>1
      <3>2. f[t].offset = 0
        BY <1>2, <1>6, <3>1
      <3>3. Height[s[i]] \in 1 .. Rows /\ Rows \in Nat
        BY <1>3, ChatAssumption
      <3>4. QED
        BY <1>3, <3>2, <3>3
    <2>2. QED
      BY <1>2, <2>1
  <1>8. DrawsPage(g, g[t], s, n, e, i, i, m)
    <2>1. m < Len(s) => \E u \in Thread : Refreshes(g[u], n)
      BY <1>2 DEF Refreshes
    <2>2. QED
      BY <1>2, <1>6, <2>1 DEF DrawsPage, Draws
  <1>9. QED
    BY <1>8 DEF EndDrawn

LEMMA EndDrawnPrints ==
    ASSUME NEW f, NEW g, NEW s \in Seq(Line), NEW n, NEW d, EndDrawn(f, s, n, d),
           NEW t \in Thread, \A u \in Thread : u # t => g[u] = f[u] /\ f[u].at # "draw",
           f[t].at = "draw", f[t].offset + Height[Head(f[t].todo)] <= Rows,
           IF Len(f[t].todo) = 1 THEN g[t].at # "draw"
           ELSE /\ g[t].at = "draw" /\ g[t].todo = Tail(f[t].todo)
                /\ g[t].offset = f[t].offset + Height[Head(f[t].todo)],
           NEW e, e = Printed(d, f[t].offset, Head(f[t].todo)),
           Tall(s) <= Rows => Agrees(s, e)
    PROVE  EndDrawn(g, s, n, e)
  <1>1. PICK k \in DOMAIN s, i \in DOMAIN s, m \in DOMAIN s : DrawsPage(f, f[t], s, n, d, k, i, m)
    BY DEF EndDrawn
  <1>2. /\ k \in Nat /\ i \in Nat /\ m \in Nat /\ 1 <= k /\ 1 <= i /\ k <= i /\ i <= m /\ m <= Len(s)
        /\ f[t].todo = Piece(s, i, m) /\ f[t].offset = Tall(Piece(s, k, i - 1))
        /\ \A r \in 1 .. f[t].offset : d[r] = Layout(Piece(s, k, i - 1))[r]
        /\ k > 1 => \A r \in 1 .. Rows : r > f[t].offset => d[r] = Blank
        /\ m < Len(s) => \E u \in Thread : Refreshes(f[u], n)
        /\ DOMAIN s = 1 .. Len(s) /\ Len(s) \in Nat
    BY <1>1 DEF DrawsPage, Draws
  <1>3. /\ Head(f[t].todo) = s[i] /\ Len(f[t].todo) = m - i + 1
        /\ Tail(f[t].todo) = Piece(s, i + 1, m)
    <2>1. /\ Head(Piece(s, i, m)) = s[i] /\ Len(Piece(s, i, m)) = m - i + 1
          /\ Tail(Piece(s, i, m)) = Piece(s, i + 1, m)
      BY <1>2, PieceEnds
    <2>2. QED
      BY <1>2, <2>1
  <1>4. Stacks(Piece(s, k, i - 1), s[i], Piece(s, k, i))
    BY <1>2, PieceGrows
  <1>5. PICK o \in Nat, h \in Nat, l \in Line :
           o = f[t].offset /\ l = s[i] /\ h = Height[l] /\ h >= 1
    BY <1>2, <1>4 DEF Stacks
  <1>6. PICK p : p = Piece(s, k, i)
    OBVIOUS
  <1>7. /\ Tall(p) = o + h /\ o + h <= Rows
        /\ \A r \in 1 .. o : Layout(p)[r] = d[r]
        /\ \A r \in o + 1 .. o + h : Layout(p)[r] = l
    BY <1>2, <1>3, <1>4, <1>5, <1>6 DEF Stacks
  <1>8. Rows \in Nat /\ \A r \in 1 .. Rows : e[r] = IF r \in o + 1 .. o + h THEN l ELSE d[r]
    BY <1>3, <1>5, ChatAssumption DEF Printed
  <1>9. \A r \in 1 .. o + h : e[r] = Layout(p)[r]
    <2>1. ASSUME NEW r \in 1 .. o + h
          PROVE  e[r] = Layout(p)[r]
      <3>1. r \in 1 .. Rows
        BY <1>7, <1>8
      <3>2. CASE r \in o + 1 .. o + h
        BY <1>7, <1>8, <3>1, <3>2
      <3>3. CASE r \notin o + 1 .. o + h
        <4>1. r \in 1 .. o
          BY <3>3
        <4>2. QED
          BY <1>7, <1>8, <3>1, <3>3, <4>1
      <3>4. QED
        BY <3>2, <3>3
    <2>2. QED
      BY <2>1
  <1>10. k > 1 => \A r \in 1 .. Rows : r > o + h => e[r] = Blank
    <2>1. ASSUME k > 1, NEW r \in 1 .. Rows, r > o + h
          PROVE  e[r] = Blank
      <3>1. r > o /\ r \notin o + 1 .. o + h
        BY <1>8, <2>1
      <3>2. d[r] = Blank
        BY <1>2, <1>5, <2>1, <3>1
      <3>3. QED
        BY <1>8, <3>1, <3>2
    <2>2. QED
      BY <2>1
  <1>11. CASE i < m
    <2>1. /\ g[t].at = "draw" /\ g[t].todo = Piece(s, i + 1, m) /\ g[t].offset = o + h
      <3>1. Len(f[t].todo) # 1
        BY <1>2, <1>3, <1>11
      <3>2. QED
        BY <1>3, <1>5, <3>1
    <2>2. i + 1 \in DOMAIN s /\ k <= i + 1 /\ i + 1 <= m /\ i + 1 - 1 = i
      BY <1>2, <1>11
    <2>3. m < Len(s) => \E u \in Thread : Refreshes(g[u], n)
      BY <1>2 DEF Refreshes
    <2>4. DrawsPage(g, g[t], s, n, e, k, i + 1, m)
      BY <1>6, <1>7, <1>9, <1>10, <2>1, <2>2, <2>3 DEF DrawsPage, Draws
    <2>5. QED
      BY <2>1, <2>2, <2>4 DEF EndDrawn
  <1>12. CASE i = m
    <2>1. g[t].at # "draw"
      <3>1. Len(f[t].todo) = 1
        BY <1>2, <1>3, <1>12
      <3>2. QED
        BY <3>1
    <2>2. ASSUME \A u \in Thread : ~Refreshes(g[u], n)
          PROVE  EndShown(s, e)
      <3>1. \A u \in Thread : ~Refreshes(f[u], n)
        BY <2>2 DEF Refreshes
      <3>2. m = Len(s) /\ p = Piece(s, k, Len(s))
        BY <1>2, <1>6, <1>12, <3>1
      <3>3. ASSUME NEW r \in 1 .. Rows, r > o + h
            PROVE  e[r] = Blank
        <4>1. CASE k > 1
          BY <1>10, <3>3, <4>1
        <4>2. CASE k = 1
          <5>1. p = s
            BY <1>2, <3>2, <4>2, PieceIs
          <5>2. Agrees(s, e)
            BY <1>7, <5>1
          <5>3. QED
            BY <1>7, <3>3, <5>1, <5>2 DEF Agrees
        <4>3. QED
          BY <1>2, <4>1, <4>2
      <3>4. Fills(p, e)
        <4>1. ASSUME NEW r \in 1 .. Rows
              PROVE  e[r] = IF r <= o + h THEN Layout(p)[r] ELSE Blank
          BY <1>9, <3>3
        <4>2. QED
          BY <1>7, <4>1 DEF Fills
      <3>5. QED
        BY <1>7, <3>2, <3>4 DEF EndShown
    <2>3. QED
      BY <2>1, <2>2 DEF EndDrawn
  <1>13. QED
    BY <1>2, <1>11, <1>12

-----------------------------------------------------------------------------
(* The steps of the two threads.                                           *)

OpenLog   == chat[room]
HasWindow == job["ui"].at \in Pushing \cup {"keys"}

\* Every refresh begins at the top of the window.
StartsAtTop == \A t \in Thread : job[t].at \in {"push", "check", "copy"} => job[t].offset = 0

\* Two refreshes at a time have been noticed.
Alone == (\A t \in Thread : job[t].at = "draw") => overlap

\* While F5 clears the log the window is empty, and nobody is about to draw in it.
ClearInv ==
    job["ui"].at = "clear" /\ ~torn =>
        /\ screen = Empty
        /\ job["listener"].at \notin {"copy", "draw"}
        /\ job["listener"].at = "check" => job["listener"].name # room

ReadInv == HasWindow /\ ~torn /\ Tall(OpenLog) <= Rows => AllDrawn(job, OpenLog, room, screen)
LastInv == HasWindow /\ ~torn /\ ~overlap => EndDrawn(job, OpenLog, room, screen)

ScreenInv == StartsAtTop /\ Alone /\ ClearInv /\ ReadInv /\ LastInv

LEMMA JobSet ==
    ASSUME TypeOK, NEW t \in Thread, NEW j, job' = [job EXCEPT ![t] = j]
    PROVE  job'[t] = j /\ \A u \in Thread : u # t => job'[u] = job[u]
  BY DEF TypeOK

LEMMA Threads == "ui" \in Thread /\ "listener" \in Thread
                 /\ \A t \in Thread : t = "ui" \/ t = "listener"
  BY DEF Thread

\* With a window, its room is open and has a log, and it is the room both draw.
LEMMA Window ==
    ASSUME TypeOK, ChatInv, HasWindow
    PROVE  /\ current /\ opened = room /\ room \in Name /\ OpenLog \in Seq(Line)
           /\ \A t \in Thread : ~torn /\ job[t].at \in {"copy", "draw"} => job[t].name = room
  <1>1. current /\ opened = room /\ room \in Name
    BY DEF HasWindow, ChatInv, InRoom
  <1>2. OpenLog \in Seq(Line)
    BY <1>1 DEF TypeOK, OpenLog
  <1>3. ~torn /\ job["listener"].at \in {"copy", "draw"} => job["listener"].name = room
    BY <1>1 DEF ChatInv, Guest
  <1>4. job["ui"].at \in {"copy", "draw"} => job["ui"].name = room
    BY DEF ChatInv, InRoom, Pushing
  <1>5. QED
    BY <1>1, <1>2, <1>3, <1>4, Threads

\* A thread goes on to j, and draws neither before nor after.
LEMMA GoesOn ==
    ASSUME TypeOK, ChatInv, ScreenInv, NEW t \in Thread, NEW j,
           job' = [job EXCEPT ![t] = j],
           OpenLog' = OpenLog, UNCHANGED <<room, screen, overlap>>, torn => torn',
           job[t].at # "draw", j.at # "draw",
           HasWindow /\ Refreshes(job[t], room) => Refreshes(j, room),
           j.at \in {"push", "check", "copy"} => j.offset = 0,
           t = "ui" => HasWindow /\ j.at \in Pushing \cup {"keys"},
           t # "ui" /\ job["ui"].at = "clear" /\ ~torn' =>
               j.at # "copy" /\ (j.at = "check" => j.name # room)
    PROVE  ScreenInv'
  <1>1. job'[t] = j /\ \A u \in Thread : u # t => job'[u] = job[u]
    BY JobSet
  <1>2. StartsAtTop'
    BY <1>1 DEF ScreenInv, StartsAtTop
  <1>3. Alone'
    BY <1>1 DEF Alone
  <1>4. HasWindow' = HasWindow
    BY <1>1, Threads DEF HasWindow
  <1>5. ClearInv'
    <2>1. CASE t = "ui"
      BY <1>1, <2>1 DEF ClearInv, Pushing
    <2>2. CASE t # "ui"
      <3>1. t = "listener" /\ job'["ui"] = job["ui"] /\ job'["listener"] = j
        BY <1>1, <2>2, Threads
      <3>2. QED
        BY <2>2, <3>1 DEF ScreenInv, ClearInv
    <2>3. QED
      BY <2>1, <2>2
  <1>6. ReadInv'
    <2>1. SUFFICES ASSUME HasWindow, ~torn, Tall(OpenLog) <= Rows
                   PROVE  AllDrawn(job', OpenLog, room, screen)
      BY <1>4 DEF ReadInv
    <2>2. AllDrawn(job, OpenLog, room, screen)
      BY <2>1 DEF ScreenInv, ReadInv
    <2>3. /\ job[t].at # "draw" /\ job'[t].at # "draw"
          /\ Refreshes(job[t], room) => Refreshes(job'[t], room)
      BY <1>1, <2>1
    <2>4. QED
      BY ONLY <1>1, <2>2, <2>3, t \in Thread, AllDrawnMoves
  <1>7. LastInv'
    <2>1. SUFFICES ASSUME HasWindow, ~torn, ~overlap
                   PROVE  EndDrawn(job', OpenLog, room, screen)
      BY <1>4 DEF LastInv
    <2>2. EndDrawn(job, OpenLog, room, screen)
      BY <2>1 DEF ScreenInv, LastInv
    <2>3. /\ job[t].at # "draw" /\ job'[t].at # "draw"
          /\ Refreshes(job[t], room) => Refreshes(job'[t], room)
      BY <1>1, <2>1
    <2>4. QED
      BY ONLY <1>1, <2>2, <2>3, t \in Thread, EndDrawnMoves
  <1>8. QED
    BY <1>2, <1>3, <1>5, <1>6, <1>7 DEF ScreenInv

LEMMA StartPushScreen ==
    ASSUME TypeOK, ChatInv, ScreenInv, NEW t \in Thread, NEW n, NEW l,
           StartPush(t, n, l), job[t].at \in {"keys", "idle"},
           t = "ui" => job[t].at = "keys"
    PROVE  ScreenInv'
  <1> DEFINE j == Job("push", n, l, <<>>, 0)
  <1>1. /\ job' = [job EXCEPT ![t] = j]
        /\ UNCHANGED <<chat, room, opened, current, rooms, screen, torn, overlap>>
    BY DEF StartPush, room_
  <1>2. j.at = "push" /\ j.offset = 0
    BY DEF Job
  <1> HIDE DEF j
  <1>3. OpenLog' = OpenLog
    BY <1>1 DEF OpenLog
  <1>4. t = "ui" => HasWindow
    BY DEF HasWindow
  <1>5. ~Refreshes(job[t], room)
    BY DEF Refreshes
  <1>6. QED
    BY <1>1, <1>2, <1>3, <1>4, <1>5, GoesOn DEF Pushing

\* Both refresh what is in the log now, a thread that has added a line next.
LEMMA PushScreen ==
    ASSUME TypeOK, ChatInv, ScreenInv, NEW t \in Thread, Push(t)
    PROVE  ScreenInv'
  <1> DEFINE n == job[t].name
             l == job[t].line
             j == [job[t] EXCEPT !.at = "check"]
  <1>1. /\ job[t].at = "push" /\ job' = [job EXCEPT ![t] = j]
        /\ chat' = [chat EXCEPT ![n] = Append(@, l)] \/ chat' = chat
        /\ torn' = (torn \/ (job["ui"].at = "clear" /\ n = room))
        /\ UNCHANGED <<said, room, opened, current, rooms, screen, overlap>>
    BY DEF Push, room_
  <1>2. n \in Name /\ l \in Line
    BY <1>1, Types DEF Typing, JobOf, Pushing, ChatInv, Pushes
  <1>3. j.at = "check" /\ j.name = n /\ j.offset = job[t].offset
    BY Types DEF Typing, AnyJob
  <1> HIDE DEF n, l, j
  <1>4. t = "ui" => HasWindow
    BY <1>1 DEF HasWindow, Pushing
  <1>5. job[t].offset = 0
    BY <1>1 DEF ScreenInv, StartsAtTop
  <1>6. ~Refreshes(job[t], room)
    BY <1>1 DEF Refreshes
  <1>7. CASE OpenLog' = OpenLog
    BY <1>1, <1>3, <1>4, <1>5, <1>6, <1>7, GoesOn DEF Pushing
  <1>8. CASE OpenLog' # OpenLog
    <2>1. OpenLog' = IF n = room THEN Append(OpenLog, l) ELSE OpenLog
      <3>1. chat' = [chat EXCEPT ![n] = Append(@, l)]
        BY <1>1, <1>8 DEF OpenLog
      <3>2. room \in Name => chat'[room] = IF n = room THEN Append(chat[room], l) ELSE chat[room]
        BY <1>2, <3>1 DEF TypeOK
      <3>3. room \notin Name => chat' [room] = chat[room]
        BY <1>2, <3>1 DEF TypeOK
      <3>4. QED
        BY <1>1, <1>2, <3>2, <3>3 DEF OpenLog
    <2>2. n = room /\ OpenLog' = Append(OpenLog, l)
      BY <1>8, <2>1
    <2>3. job'[t] = j /\ \A u \in Thread : u # t => job'[u] = job[u]
      BY <1>1, JobSet
    <2>4. StartsAtTop'
      BY <1>3, <1>5, <2>3 DEF ScreenInv, StartsAtTop
    <2>5. Alone'
      BY <1>3, <2>3 DEF Alone
    <2>6. HasWindow' = HasWindow
      BY <1>1, <1>3, <2>3, Threads DEF HasWindow, Pushing
    <2>7. ClearInv'
      <3>1. job'["ui"].at = "clear" => job["ui"].at = "clear"
        BY <1>3, <2>3, Threads
      <3>2. QED
        BY <1>1, <2>2, <3>1 DEF ClearInv
    <2>8. ReadInv'
      <3>1. SUFFICES ASSUME HasWindow, ~torn, Tall(Append(OpenLog, l)) <= Rows
                     PROVE  AllDrawn(job', Append(OpenLog, l), room, screen)
        BY <1>1, <2>2, <2>6 DEF ReadInv
      <3>2. OpenLog \in Seq(Line)
        BY <3>1, Window
      <3>3. Tall(OpenLog) <= Rows
        <4>1. PICK s \in Seq(Line) : s = OpenLog
          BY <3>2
        <4>2. Tall(s) \in Nat /\ Tall(Append(s, l)) = Tall(s) + Height[l]
          BY <1>2, LayoutGrows, LayoutType
        <4>3. Height[l] \in Nat /\ Rows \in Nat
          BY <1>2, ChatAssumption
        <4>4. QED
          BY <3>1, <4>1, <4>2, <4>3
      <3>4. AllDrawn(job, OpenLog, room, screen)
        BY <3>1, <3>3 DEF ScreenInv, ReadInv
      <3>5. QED
        BY <1>1, <1>2, <1>3, <2>2, <2>3, <3>2, <3>4, AllDrawnGrows
    <2>9. LastInv'
      <3>1. SUFFICES ASSUME HasWindow, ~torn, ~overlap
                     PROVE  EndDrawn(job', Append(OpenLog, l), room, screen)
        BY <1>1, <2>2, <2>6 DEF LastInv
      <3>2. OpenLog \in Seq(Line)
        BY <3>1, Window
      <3>3. EndDrawn(job, OpenLog, room, screen)
        BY <3>1 DEF ScreenInv, LastInv
      <3>4. QED
        BY <1>1, <1>2, <1>3, <2>2, <2>3, <3>2, <3>3, EndDrawnGrows
    <2>10. QED
      BY <2>4, <2>5, <2>7, <2>8, <2>9 DEF ScreenInv
  <1>9. QED
    BY <1>7, <1>8

\* The room with the window is the one that is drawn.
LEMMA CheckRoomScreen ==
    ASSUME TypeOK, ChatInv, ScreenInv, NEW t \in Thread, CheckRoom(t)
    PROVE  ScreenInv'
  <1>1. /\ job[t].at = "check"
        /\ UNCHANGED <<chat, said, room, opened, current, rooms, screen, torn, overlap>>
    BY DEF CheckRoom, room_
  <1>2. job[t].offset = 0
    BY <1>1 DEF ScreenInv, StartsAtTop
  <1>3. t = "ui" => HasWindow
    BY <1>1 DEF HasWindow, Pushing
  <1>4. OpenLog' = OpenLog
    BY <1>1 DEF OpenLog
  <1>5. CASE Drawable(job[t].name)
    <2> DEFINE j == [job[t] EXCEPT !.at = "copy"]
    <2>1. job' = [job EXCEPT ![t] = j]
      BY <1>5 DEF CheckRoom
    <2>2. j.at = "copy" /\ j.name = job[t].name /\ j.offset = 0
      BY <1>2, Types DEF Typing, AnyJob
    <2> HIDE DEF j
    <2>3. t # "ui" /\ job["ui"].at = "clear" => torn
      <3>1. job["ui"].at = "clear" => current /\ opened = room
        BY DEF ChatInv, InRoom
      <3>2. QED
        BY <1>1, <1>5, <3>1, Threads DEF Drawable, ScreenInv, ClearInv
    <2>4. Refreshes(job[t], room) => Refreshes(j, room)
      BY <2>2 DEF Refreshes
    <2>5. QED
      BY <1>1, <1>3, <1>4, <2>1, <2>2, <2>3, <2>4, GoesOn DEF Pushing
  <1>6. CASE ~Drawable(job[t].name)
    <2>1. PICK j : /\ job' = [job EXCEPT ![t] = j]
                   /\ j.at = IF t = "ui" THEN "keys" ELSE "idle"
      BY <1>6, DoneJob DEF CheckRoom
    <2>2. HasWindow => ~Refreshes(job[t], room)
      BY <1>6, Window DEF Drawable, Refreshes
    <2>3. QED
      BY <1>1, <1>3, <1>4, <2>1, <2>2, GoesOn
  <1>7. QED
    BY <1>5, <1>6

LEMMA CopyLogScreen ==
    ASSUME TypeOK, ChatInv, ScreenInv, NEW t \in Thread, CopyLog(t)
    PROVE  ScreenInv'
  <1>1. /\ job[t].at = "copy" /\ overlap' = (job[Other(t)].at = "draw")
        /\ UNCHANGED <<chat, said, room, opened, current, rooms, screen, torn>>
    BY DEF CopyLog, room_
  <1>2. Other(t) \in Thread /\ Other(t) # t /\ \A u \in Thread : u # t => u = Other(t)
    <2>1. \E u \in Thread : u # t
      BY DEF Thread
    <2>2. Other(t) \in Thread /\ Other(t) # t
      BY <2>1 DEF Other
    <2>3. QED
      BY <2>2, Threads
  <1>3. PICK j : /\ job' = [job EXCEPT ![t] = j]
                 /\ \/ /\ chat[job[t].name] # <<>> /\ j.at = "draw"
                       /\ j.todo = chat[job[t].name] /\ j.offset = 0
                    \/ /\ chat[job[t].name] = <<>>
                       /\ j.at = IF t = "ui" THEN "keys" ELSE "idle"
    <2>1. CASE chat[job[t].name] = <<>>
      BY <2>1, DoneJob DEF CopyLog
    <2>2. CASE chat[job[t].name] # <<>>
      <3> DEFINE j == [[job[t] EXCEPT !.at = "draw"] EXCEPT !.todo = chat[job[t].name]]
      <3>1. job' = [job EXCEPT ![t] = j]
        BY <2>2, Types DEF CopyLog, Typing
      <3>2. job[t].offset = 0
        BY <1>1 DEF ScreenInv, StartsAtTop
      <3>3. j.at = "draw" /\ j.todo = chat[job[t].name] /\ j.offset = 0
        BY <3>2, Types DEF Typing, AnyJob
      <3>4. QED
        BY <2>2, <3>1, <3>3
    <2>3. QED
      BY <2>1, <2>2
  <1>4. job'[t] = j /\ \A u \in Thread : u # t => job'[u] = job[u]
    BY <1>3, JobSet
  <1>5. StartsAtTop'
    BY <1>3, <1>4 DEF ScreenInv, StartsAtTop
  <1>6. Alone'
    BY <1>1, <1>2, <1>4 DEF Alone
  <1>7. HasWindow' = HasWindow
    BY <1>1, <1>3, <1>4, Threads DEF HasWindow, Pushing
  <1>8. ClearInv'
    <2>1. CASE t = "ui"
      BY <1>3, <1>4, <2>1 DEF ClearInv
    <2>2. CASE t # "ui"
      <3>1. t = "listener" /\ job'["ui"] = job["ui"]
        BY <1>4, <2>2, Threads
      <3>2. QED
        BY <1>1, <3>1 DEF ScreenInv, ClearInv
    <2>3. QED
      BY <2>1, <2>2
  <1>9. OpenLog' = OpenLog
    BY <1>1 DEF OpenLog
  <1>10. ASSUME HasWindow, ~torn
         PROVE  job[t].name = room /\ OpenLog = chat[job[t].name] /\ OpenLog \in Seq(Line)
    BY <1>1, <1>10, Window DEF OpenLog
  <1>11. ReadInv'
    <2>1. SUFFICES ASSUME HasWindow, ~torn, Tall(OpenLog) <= Rows
                   PROVE  AllDrawn(job', OpenLog, room, screen)
      BY <1>1, <1>7, <1>9 DEF ReadInv
    <2>2. AllDrawn(job, OpenLog, room, screen)
      BY <2>1 DEF ScreenInv, ReadInv
    <2>3. CASE OpenLog # <<>>
      <3>1. j.at = "draw" /\ j.todo = OpenLog /\ j.offset = 0
        BY <1>3, <1>10, <2>1, <2>3
      <3>2. QED
        BY <1>1, <1>4, <1>10, <2>1, <2>2, <2>3, <3>1, AllDrawnStarts
    <2>4. CASE OpenLog = <<>>
      <3>1. job'[t].at # "draw"
        BY <1>3, <1>4, <1>10, <2>1, <2>4
      <3>2. Tall(OpenLog) = 0
        BY <2>4, LayoutEmpty DEF Tall
      <3>3. \A u \in Thread : job'[u].at = "draw" =>
               \E i, m \in DOMAIN OpenLog : FromTop(job'[u], OpenLog, i, m)
        BY <1>4, <2>2, <3>1 DEF AllDrawn
      <3>4. QED
        BY <2>2, <3>2, <3>3 DEF AllDrawn
    <2>5. QED
      BY <2>3, <2>4
  <1>12. LastInv'
    <2>1. SUFFICES ASSUME HasWindow, ~torn, ~overlap'
                   PROVE  EndDrawn(job', OpenLog, room, screen)
      BY <1>1, <1>7, <1>9 DEF LastInv
    <2>2. \A u \in Thread : u # t => job'[u] = job[u] /\ job[u].at # "draw"
      BY <1>1, <1>2, <1>4, <2>1
    <2>3. CASE OpenLog # <<>>
      <3>1. j.at = "draw" /\ j.todo = OpenLog /\ j.offset = 0
        BY <1>3, <1>10, <2>1, <2>3
      <3>2. QED
        BY <1>4, <1>10, <2>1, <2>2, <2>3, <3>1, EndDrawnStarts
    <2>4. CASE OpenLog = <<>>
      <3>1. job'[t].at # "draw"
        BY <1>3, <1>4, <1>10, <2>1, <2>4
      <3>2. QED
        BY <2>2, <2>4, <3>1 DEF EndDrawn
    <2>5. QED
      BY <2>3, <2>4
  <1>13. QED
    BY <1>5, <1>6, <1>8, <1>11, <1>12 DEF ScreenInv

\* No page is turned when the log fits.
LEMMA TurnPageScreen ==
    ASSUME TypeOK, ChatInv, ScreenInv, NEW t \in Thread, TurnPage(t)
    PROVE  ScreenInv'
  <1> DEFINE j == [job[t] EXCEPT !.offset = 0]
  <1>1. /\ job[t].at = "draw" /\ ~Fits(t) /\ screen' = Cleared
        /\ job' = [job EXCEPT ![t] = j]
        /\ UNCHANGED <<chat, said, room, opened, current, rooms, torn, overlap>>
    BY DEF TurnPage, room_
  <1>2. j.at = "draw" /\ j.todo = job[t].todo /\ j.offset = 0
    BY <1>1, Types DEF Typing, AnyJob
  <1>3. job'[t] = j /\ \A u \in Thread : u # t => job'[u] = job[u]
    BY <1>1, JobSet
  <1> HIDE DEF j
  <1>4. StartsAtTop'
    BY <1>2, <1>3 DEF ScreenInv, StartsAtTop
  <1>5. Alone'
    BY <1>1, <1>3 DEF ScreenInv, Alone
  <1>6. HasWindow' = HasWindow
    BY <1>1, <1>2, <1>3, Threads DEF HasWindow, Pushing
  <1>7. ClearInv'
    BY <1>1, <1>2, <1>3, Threads DEF ScreenInv, ClearInv
  <1>8. OpenLog' = OpenLog
    BY <1>1 DEF OpenLog
  <1>9. ReadInv'
    <2>1. SUFFICES ASSUME HasWindow, ~torn, Tall(OpenLog) <= Rows
                   PROVE  FALSE
      BY <1>1, <1>6, <1>8 DEF ReadInv
    <2>2. AllDrawn(job, OpenLog, room, screen)
      BY <2>1 DEF ScreenInv, ReadInv
    <2>3. PICK s \in Seq(Line) : s = OpenLog
      BY <2>1, Window
    <2>4. PICK i \in DOMAIN s, m \in DOMAIN s : FromTop(job[t], s, i, m)
      BY <1>1, <2>2, <2>3 DEF AllDrawn
    <2>5. PICK o \in Nat, h \in Nat, l \in Line : NextLine(job[t], s, i, m, o, h, l)
      BY <2>4, FromTopNext
    <2>6. Tall(s) \in Nat /\ Rows \in Nat
      BY LayoutType, ChatAssumption
    <2>7. job[t].offset + Height[Head(job[t].todo)] <= Rows
      <3>1. o + h <= Tall(s) /\ o = job[t].offset /\ h = Height[Head(job[t].todo)]
        BY <2>5 DEF NextLine
      <3>2. Tall(s) <= Rows
        BY <2>1, <2>3
      <3>3. o + h <= Rows
        BY ONLY <2>6, <3>1, <3>2, o \in Nat, h \in Nat
      <3>4. QED
        BY <3>1, <3>3
    <2>8. QED
      BY <1>1, <2>7 DEF Fits
  <1>10. LastInv'
    <2>1. SUFFICES ASSUME HasWindow, ~torn, ~overlap
                   PROVE  EndDrawn(job', OpenLog, room, screen')
      BY <1>1, <1>6, <1>8 DEF LastInv
    <2>2. EndDrawn(job, OpenLog, room, screen)
      BY <2>1 DEF ScreenInv, LastInv
    <2>3. \A u \in Thread : u # t => job'[u] = job[u] /\ job[u].at # "draw"
      BY <1>1, <1>3, <2>1, Threads DEF ScreenInv, Alone
    <2>4. job[t].offset + Height[Head(job[t].todo)] > Rows
      <3>1. job[t].offset \in Nat /\ Rows \in Nat
        BY Types, ChatAssumption DEF Typing, AnyJob
      <3>2. Head(job[t].todo) \in Line
        BY <1>1, Types, LogSets DEF Typing, AnyJob, ChatInv, Pushes
      <3>3. Height[Head(job[t].todo)] \in Nat
        BY <3>2, ChatAssumption
      <3>4. QED
        BY <1>1, <3>1, <3>3 DEF Fits
    <2>5. \A r \in 1 .. Rows : screen'[r] = Blank
      BY <1>1, <2>1, Window, Places DEF Cleared
    <2>6. OpenLog \in Seq(Line)
      BY <2>1, Window
    <2>7. PICK s \in Seq(Line) : s = OpenLog
      BY <2>6
    <2>8. PICK e : e = screen'
      OBVIOUS
    <2>9. PICK f, g : f = job /\ g = job'
      OBVIOUS
    <2>10. EndDrawn(g, s, room, e)
      <3>1. EndDrawn(f, s, room, screen)
        BY <2>2, <2>7, <2>9
      <3>2. \A u \in Thread : u # t => g[u] = f[u] /\ f[u].at # "draw"
        BY <2>3, <2>9
      <3>3. /\ f[t].at = "draw" /\ f[t].offset + Height[Head(f[t].todo)] > Rows
            /\ g[t].at = "draw" /\ g[t].todo = f[t].todo /\ g[t].offset = 0
        BY <1>1, <1>2, <1>3, <2>4, <2>9
      <3>4. \A r \in 1 .. Rows : e[r] = Blank
        BY <2>5, <2>8
      <3>5. QED
        BY <3>1, <3>2, <3>3, <3>4, EndDrawnTurns
    <2>11. QED
      BY <2>7, <2>8, <2>9, <2>10
  <1>11. QED
    BY <1>4, <1>5, <1>7, <1>9, <1>10 DEF ScreenInv

LEMMA PrintLineScreen ==
    ASSUME TypeOK, ChatInv, ScreenInv, NEW t \in Thread, PrintLine(t)
    PROVE  ScreenInv'
  <1> DEFINE l == Head(job[t].todo)
             o == job[t].offset
  <1>1. /\ job[t].at = "draw" /\ o + Height[l] <= Rows
        /\ screen' = IF current THEN Printed(screen, o, l) ELSE screen
        /\ UNCHANGED <<chat, said, room, opened, current, rooms, torn, overlap>>
    BY DEF PrintLine, room_, Printed, Fits
  <1>2. PICK j : /\ job' = [job EXCEPT ![t] = j]
                 /\ IF Len(job[t].todo) = 1 THEN j.at = IF t = "ui" THEN "keys" ELSE "idle"
                    ELSE j.at = "draw" /\ j.todo = Tail(job[t].todo) /\ j.offset = o + Height[l]
    <2>1. CASE Len(job[t].todo) # 1
      <3> DEFINE j == [job[t] EXCEPT !.todo = Tail(job[t].todo), !.offset = o + Height[l]]
      <3>1. job' = [job EXCEPT ![t] = j]
        BY <2>1 DEF PrintLine
      <3>2. j.at = "draw" /\ j.todo = Tail(job[t].todo) /\ j.offset = o + Height[l]
        BY <1>1, Types DEF Typing, AnyJob
      <3>3. QED
        BY <2>1, <3>1, <3>2
    <2>2. CASE Len(job[t].todo) = 1
      BY <2>2, DoneJob DEF PrintLine
    <2>3. QED
      BY <2>1, <2>2
  <1>3. job'[t] = j /\ \A u \in Thread : u # t => job'[u] = job[u]
    BY <1>2, JobSet
  <1>4. IF Len(job[t].todo) = 1 THEN job'[t].at # "draw"
        ELSE /\ job'[t].at = "draw" /\ job'[t].todo = Tail(job[t].todo)
             /\ job'[t].offset = o + Height[l]
    BY <1>2, <1>3
  <1> HIDE DEF l, o
  <1>5. j.at \in {"draw", "keys", "idle"} /\ (j.at = "keys" => t = "ui") /\ (j.at = "idle" => t # "ui")
    BY <1>2
  <1>6. StartsAtTop'
    BY <1>3, <1>5 DEF ScreenInv, StartsAtTop
  <1>7. Alone'
    BY <1>1, <1>3 DEF ScreenInv, Alone
  <1>8. HasWindow' = HasWindow
    BY <1>1, <1>3, <1>5, Threads DEF HasWindow, Pushing
  <1>9. ClearInv'
    BY <1>1, <1>3, <1>5, Threads DEF ScreenInv, ClearInv
  <1>10. OpenLog' = OpenLog
    BY <1>1 DEF OpenLog
  <1>11. PICK f, g, d, e : f = job /\ g = job' /\ d = screen /\ e = Printed(screen, o, l)
    OBVIOUS
  <1>12. /\ \A u \in Thread : u # t => g[u] = f[u]
         /\ f[t].at = "draw" /\ f[t].offset + Height[Head(f[t].todo)] <= Rows
         /\ IF Len(f[t].todo) = 1 THEN g[t].at # "draw"
            ELSE /\ g[t].at = "draw" /\ g[t].todo = Tail(f[t].todo)
                 /\ g[t].offset = f[t].offset + Height[Head(f[t].todo)]
         /\ e = Printed(d, f[t].offset, Head(f[t].todo))
    BY <1>1, <1>3, <1>4, <1>11 DEF l, o
  <1>13. HasWindow => screen' = e
    BY <1>1, <1>11, Window
  <1>14. ASSUME HasWindow, ~torn, Tall(OpenLog) <= Rows
         PROVE  AllDrawn(g, OpenLog, room, e)
    <2>1. PICK s \in Seq(Line) : s = OpenLog
      BY <1>14, Window
    <2>2. AllDrawn(f, s, room, d) /\ Tall(s) <= Rows
      BY <1>11, <1>14, <2>1 DEF ScreenInv, ReadInv
    <2>3. AllDrawn(g, s, room, Printed(d, f[t].offset, Head(f[t].todo)))
      BY <1>12, <2>2, AllDrawnPrints
    <2>4. QED
      BY <1>12, <2>1, <2>3
  <1>15. ReadInv'
    BY <1>1, <1>8, <1>10, <1>11, <1>13, <1>14 DEF ReadInv
  <1>16. ASSUME HasWindow, ~torn, ~overlap
         PROVE  EndDrawn(g, OpenLog, room, e)
    <2>1. PICK s \in Seq(Line) : s = OpenLog
      BY <1>16, Window
    <2>2. EndDrawn(f, s, room, d)
      BY <1>11, <1>16, <2>1 DEF ScreenInv, LastInv
    <2>3. \A u \in Thread : u # t => g[u] = f[u] /\ f[u].at # "draw"
      BY <1>1, <1>11, <1>12, <1>16, Threads DEF ScreenInv, Alone
    <2>4. Tall(s) <= Rows => Agrees(s, e)
      BY <1>14, <1>16, <2>1 DEF AllDrawn
    <2>5. EndDrawn(g, s, room, e)
      BY <1>12, <2>2, <2>3, <2>4, EndDrawnPrints
    <2>6. QED
      BY <2>1, <2>5
  <1>17. LastInv'
    BY <1>1, <1>8, <1>10, <1>11, <1>13, <1>16 DEF LastInv
  <1>18. QED
    BY <1>6, <1>7, <1>9, <1>15, <1>17 DEF ScreenInv

-----------------------------------------------------------------------------
(* The room is opened, cleared and left.                                   *)

\* The new window is empty, and the UI thread is going to draw the log in it.
LEMMA SetCurrentScreen ==
    ASSUME TypeOK, ChatInv, ScreenInv, SetCurrent
    PROVE  ScreenInv'
  <1> DEFINE j == Job("check", room, Blank, <<>>, 0)
  <1>1. /\ job["ui"].at = "window" /\ job' = [job EXCEPT !["ui"] = j]
        /\ torn' = (job["listener"].at \in {"copy", "draw"})
        /\ UNCHANGED <<chat, room, screen, overlap>>
    BY DEF SetCurrent
  <1>2. j.at = "check" /\ j.name = room /\ j.offset = 0
    BY DEF Job
  <1> HIDE DEF j
  <1>3. job'["ui"] = j /\ job'["listener"] = job["listener"]
    BY <1>1, JobSet, Threads
  <1>4. screen = Empty
    BY <1>1 DEF ChatInv, InRoom
  <1>5. StartsAtTop' /\ Alone' /\ ClearInv'
    BY <1>1, <1>2, <1>3, Threads DEF ScreenInv, StartsAtTop, Alone, ClearInv
  <1>6. Refreshes(job'["ui"], room)
    BY <1>2, <1>3 DEF Refreshes
  <1>7. ~torn' => \A t \in Thread : job'[t].at # "draw"
    BY <1>1, <1>2, <1>3, Threads
  <1>8. ReadInv'
    <2>1. Agrees(OpenLog', screen)
      BY <1>4, Places DEF Agrees
    <2>2. \A r : Covers(job'["ui"], OpenLog', room, r)
      BY <1>6 DEF Covers
    <2>3. ~torn' => AllDrawn(job', OpenLog', room, screen)
      BY <1>7, <2>1, <2>2, Threads DEF AllDrawn
    <2>4. QED
      BY <1>1, <2>3 DEF ReadInv
  <1>9. LastInv'
    <2>1. ~torn' => EndDrawn(job', OpenLog', room, screen)
      BY <1>6, <1>7, Threads DEF EndDrawn
    <2>2. QED
      BY <1>1, <2>1 DEF LastInv
  <1>10. QED
    BY <1>5, <1>8, <1>9 DEF ScreenInv

LEMMA ClearWindowScreen ==
    ASSUME TypeOK, ChatInv, ScreenInv, ClearWindow
    PROVE  ScreenInv'
  <1>1. /\ job["ui"].at = "keys" /\ job' = [job EXCEPT !["ui"] = At("clear")]
        /\ screen' = Empty
        /\ torn' = (torn \/ (/\ job["listener"].at \in Pushing \ {"push"}
                             /\ job["listener"].name = room))
        /\ UNCHANGED <<chat, room, overlap>>
    BY DEF ClearWindow, Goto, room_
  <1>2. job'["ui"].at = "clear" /\ job'["listener"] = job["listener"]
    <2>1. PICK j : j = At("clear")
      OBVIOUS
    <2>2. job'["ui"] = j /\ job'["listener"] = job["listener"]
      BY <1>1, <2>1, JobSet, Threads
    <2>3. QED
      BY <2>1, <2>2 DEF At, Job
  <1>3. StartsAtTop' /\ Alone'
    BY <1>2, Threads DEF ScreenInv, StartsAtTop, Alone
  <1>4. ClearInv'
    <2>1. ~torn /\ job["listener"].at \in {"copy", "draw"} => job["listener"].name = room
      BY <1>1, Window, Threads DEF HasWindow
    <2>2. QED
      BY <1>1, <1>2, <2>1 DEF ClearInv, Pushing, Empty
  <1>5. ReadInv' /\ LastInv'
    BY <1>2 DEF ReadInv, LastInv, HasWindow, Pushing
  <1>6. QED
    BY <1>3, <1>4, <1>5 DEF ScreenInv

\* An empty log in an empty window.
LEMMA ClearLogScreen ==
    ASSUME TypeOK, ChatInv, ScreenInv, ClearLog
    PROVE  ScreenInv'
  <1>1. /\ job["ui"].at = "clear" /\ job' = [job EXCEPT !["ui"] = At("keys")]
        /\ chat' = [chat EXCEPT ![room] = <<>>]
        /\ UNCHANGED <<room, screen, torn, overlap>>
    BY DEF ClearLog, Goto, room_
  <1>2. job'["ui"].at = "keys" /\ job'["listener"] = job["listener"]
    <2>1. job'["ui"] = At("keys") /\ job'["listener"] = job["listener"]
      BY <1>1, JobSet, Threads
    <2>2. QED
      BY <2>1 DEF At, Job
  <1>3. StartsAtTop' /\ Alone' /\ ClearInv'
    BY <1>2, Threads DEF ScreenInv, StartsAtTop, Alone, ClearInv
  <1>4. OpenLog' = <<>>
    <2>1. room \in Name
      BY <1>1 DEF ChatInv, InRoom
    <2>2. QED
      BY <1>1, <2>1 DEF OpenLog, TypeOK
  <1>5. Tall(<<>>) = 0
    BY LayoutEmpty DEF Tall
  <1>6. ~torn => screen = Empty /\ \A t \in Thread : job'[t].at # "draw"
    BY <1>1, <1>2, Threads DEF ScreenInv, ClearInv
  <1>7. ReadInv'
    <2>1. ~torn => AllDrawn(job', <<>>, room, screen)
      BY <1>5, <1>6, Places DEF AllDrawn, Agrees
    <2>2. QED
      BY <1>1, <1>4, <2>1 DEF ReadInv
  <1>8. LastInv'
    <2>1. ~torn => EndDrawn(job', <<>>, room, screen)
      BY <1>6 DEF EndDrawn
    <2>2. QED
      BY <1>1, <1>4, <2>1 DEF LastInv
  <1>9. QED
    BY <1>3, <1>7, <1>8 DEF ScreenInv

\* Without a window there is nothing to see.
LEMMA NoWindowScreen ==
    ASSUME TypeOK, ScreenInv,
           NEW place \in {"window", "left", "delete", "select", "dead"},
           \/ job' = [job EXCEPT !["ui"] = At(place)]
           \/ place = "dead" /\ job' = [t \in Thread |-> At(place)],
           UNCHANGED overlap
    PROVE  ScreenInv'
  <1>1. At(place).at = place
    BY DEF At, Job
  <1>2. job'["ui"].at = place /\ (job'["listener"] = job["listener"] \/ job'["listener"].at = "dead")
    BY <1>1, JobSet, Threads
  <1>3. StartsAtTop' /\ Alone'
    BY <1>2, Threads DEF ScreenInv, StartsAtTop, Alone
  <1>4. ClearInv' /\ ReadInv' /\ LastInv'
    BY <1>2 DEF ClearInv, ReadInv, LastInv, HasWindow, Pushing
  <1>5. QED
    BY <1>3, <1>4 DEF ScreenInv

-----------------------------------------------------------------------------

LEMMA ScreenInvariant == Spec => [](TypeOK /\ ChatInv /\ ScreenInv)
  <1>1. Init => ScreenInv
    <2> SUFFICES ASSUME Init
                 PROVE  ScreenInv
      OBVIOUS
    <2>1. job["ui"].at = "select" /\ job["listener"].at = "idle"
      BY Places DEF Init, Thread
    <2>2. QED
      BY <2>1, Threads DEF ScreenInv, StartsAtTop, Alone, ClearInv, ReadInv, LastInv, HasWindow, Pushing
  <1>2. TypeOK /\ ChatInv /\ ScreenInv /\ [Next]_vars => ScreenInv'
    <2> SUFFICES ASSUME TypeOK, ChatInv, ScreenInv, [Next]_vars
                 PROVE  ScreenInv'
      OBVIOUS
    <2>1. CASE UNCHANGED vars
      BY <2>1 DEF vars, room_, ScreenInv, StartsAtTop, Alone, ClearInv, ReadInv, LastInv,
                  HasWindow, OpenLog
    <2>2. CASE \E l \in Line : Say(l)
      BY <2>2, StartPushScreen, Threads DEF Say
    <2>3. CASE \E n \in Name, l \in Line : Receive(n, l)
      BY <2>3, StartPushScreen, Threads DEF Receive
    <2>4. CASE \E t \in Thread : PushMessage(t)
      BY <2>4, PushScreen, CheckRoomScreen, CopyLogScreen, TurnPageScreen, PrintLineScreen
         DEF PushMessage
    <2>5. CASE SetCurrent \/ ClearWindow \/ ClearLog
      BY <2>5, SetCurrentScreen, ClearWindowScreen, ClearLogScreen
    <2>6. CASE Leave \/ CloseRoom \/ DeleteWindows \/ (\E n \in Name : OpenRoom(n)) \/ Crash
      <3>1. \E p \in {"window", "left", "delete", "select", "dead"} :
               /\ \/ job' = [job EXCEPT !["ui"] = At(p)]
                  \/ p = "dead" /\ job' = [t \in Thread |-> At(p)]
               /\ UNCHANGED overlap
        BY <2>6 DEF Leave, CloseRoom, DeleteWindows, OpenRoom, Crash, Goto
      <3>2. QED
        BY <3>1, NoWindowScreen
    <2>7. QED
      BY <2>1, <2>2, <2>3, <2>4, <2>5, <2>6 DEF Next, ChatRoom, User
  <1>3. QED
    BY <1>1, <1>2, ChatInvariant, PTL DEF Spec

\* What fills the rows of a window is shown in it.
LEMMA FillsShows ==
    ASSUME TypeOK, NEW s \in Seq(Line), Fills(s, screen)
    PROVE  Shows(s)
  <1>1. screen = [r \in 1 .. Rows |-> screen[r]]
    BY DEF TypeOK
  <1>2. PICK u \in Seq(Line), n \in Nat : u = Layout(s) /\ n = Tall(s) /\ DOMAIN u = 1 .. n
    BY LayoutType DEF Tall
  <1>3. \A r \in 1 .. Rows : screen[r] = IF r \in DOMAIN u THEN u[r] ELSE Blank
    BY <1>2 DEF Fills
  <1>4. QED
    BY <1>1, <1>2, <1>3 DEF Shows

\* Once both threads are through with their refreshes, a log that fits the window is
\* on it, line for line, however their pushes and refreshes have fallen (ui.cc:258-290),
\* unless the room was opened or cleared in the middle of one.
THEOREM LogThatFitsIsRead == Spec => []ReadAll
  <1>1. TypeOK /\ ChatInv /\ ScreenInv => ReadAll
    <2>1. SUFFICES ASSUME TypeOK, ChatInv, ScreenInv, Settled, ~torn, Len(Layout(chat[room])) <= Rows
                   PROVE  Shows(chat[room])
      BY DEF ReadAll
    <2>2. HasWindow
      BY <2>1 DEF Settled, HasWindow
    <2>3. PICK s \in Seq(Line) : s = chat[room]
      BY <2>1, <2>2, Window DEF OpenLog
    <2>4. AllDrawn(job, s, room, screen) /\ Tall(s) <= Rows /\ Tall(s) \in Nat
      BY <2>1, <2>2, <2>3, LayoutType DEF ScreenInv, ReadInv, Tall, OpenLog
    <2>5. \A t \in Thread : \A r : ~Covers(job[t], s, room, r)
      BY <2>1, Threads DEF Settled, Covers, Refreshes, FromTop, Draws
    <2>6. Fills(s, screen)
      <3>1. ASSUME NEW r \in 1 .. Rows
            PROVE  screen[r] = IF r <= Tall(s) THEN Layout(s)[r] ELSE Blank
        <4>1. CASE r <= Tall(s)
          <5>1. r \in 1 .. Tall(s)
            BY <2>4, <4>1
          <5>2. QED
            BY <2>4, <2>5, <4>1, <5>1 DEF AllDrawn
        <4>2. CASE ~(r <= Tall(s))
          BY <2>4, <4>2 DEF AllDrawn, Agrees
        <4>3. QED
          BY <4>1, <4>2
      <3>2. QED
        BY <3>1 DEF Fills
    <2>7. QED
      BY <2>1, <2>3, <2>6, FillsShows
  <1>2. QED
    BY <1>1, ScreenInvariant, PTL

\* A longer log ends with the window: its last lines are there, whole, in order and
\* with nothing after them, unless two refreshes have drawn at a time (ui.cc:269-277).
THEOREM EndOfTheLogIsShown == Spec => []LastLinesShown
  <1>1. TypeOK /\ ChatInv /\ ScreenInv => LastLinesShown
    <2>1. SUFFICES ASSUME TypeOK, ChatInv, ScreenInv, Settled, ~torn, ~overlap, chat[room] # <<>>
                   PROVE  \E i \in DOMAIN chat[room] :
                             /\ Len(Layout(SubSeq(chat[room], i, Len(chat[room])))) <= Rows
                             /\ Shows(SubSeq(chat[room], i, Len(chat[room])))
      BY DEF LastLinesShown
    <2>2. HasWindow
      BY <2>1 DEF Settled, HasWindow
    <2>3. PICK s \in Seq(Line) : s = chat[room]
      BY <2>1, <2>2, Window DEF OpenLog
    <2>4. EndDrawn(job, s, room, screen)
      BY <2>1, <2>2, <2>3 DEF ScreenInv, LastInv, OpenLog
    <2>5. EndShown(s, screen)
      BY <2>1, <2>3, <2>4, Threads DEF EndDrawn, Settled, Refreshes
    <2>6. PICK k \in DOMAIN s : Tall(Piece(s, k, Len(s))) <= Rows /\ Fills(Piece(s, k, Len(s)), screen)
      BY <2>5 DEF EndShown
    <2>7. Piece(s, k, Len(s)) \in Seq(Line)
      <3>1. k \in Nat /\ 1 <= k /\ Len(s) \in Nat
        OBVIOUS
      <3>2. QED
        BY <3>1, PieceIs
    <2>8. Shows(Piece(s, k, Len(s)))
      BY <2>1, <2>6, <2>7, FillsShows
    <2>9. QED
      BY <2>3, <2>6, <2>8 DEF Piece, Tall
  <1>2. QED
    BY <1>1, ScreenInvariant, PTL

=============================================================================
