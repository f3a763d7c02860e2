-------------------------------- MODULE Chat --------------------------------
(***************************************************************************)
(* The chat rooms of the user interface (src/client/ui.cc).  Two threads   *)
(* work on the map of chat logs and on the window of the open room, with   *)
(* no lock: the UI thread, which opens a room, reads keys, shows what the  *)
(* user says, clears the log and leaves; and the listener thread, which    *)
(* calls push_message for every text that arrives.  Both draw line by line *)
(* in whatever window is current at that moment.                           *)
(*                                                                         *)
(* A call of ncurses is one step.  What is drawn counts as on the screen:  *)
(* every refresh ends with doupdate.                                       *)
(***************************************************************************)
EXTENDS Naturals, SequencesExt

CONSTANTS
    Name,       \* whom the user may chat with
    NoName,     \* opened_current when no room is open
    Line,       \* the lines that may be said, each at most once
    Blank,      \* an empty row of the window
    Height,     \* Height[l]: the rows refresh_chatlog reckons for l
    Rows,       \* rows of the window (20 in ui.cc:180 and 270)
    MaxRooms    \* bound: how often a room is opened

ASSUME ChatAssumption ==
    /\ NoName \notin Name
    /\ Blank \notin Line
    /\ Rows \in Nat \ {0}
    /\ Height \in [Line -> 1 .. Rows]
    /\ MaxRooms \in Nat

VARIABLES
    chat,       \* UI::chat
    said,       \* said[l]: to or by whom l has been said, NoName if not yet
    room,       \* the name chat_room was called with
    opened,     \* UI::opened_current
    current,    \* UI::current is not NULL
    screen,     \* the rows of the room's window
    job,        \* job[t]: where thread t is, and the locals of its calls
    rooms,      \* rooms opened so far (for the bound only)
    torn,       \* history: the room was opened or cleared in the middle of
                \* a push of the listener
    overlap     \* history: the last two refreshes overlapped

room_ == <<room, opened, current, rooms>>
vars  == <<chat, said, room_, screen, job, torn, overlap>>

Thread == {"ui", "listener"}

Other(t) == CHOOSE u \in Thread : u # t

Job(at, n, l, todo, offset) ==
    [at |-> at, name |-> n, line |-> l, todo |-> todo, offset |-> offset]

At(place)  == Job(place, NoName, Blank, <<>>, 0)
Empty      == [r \in 1 .. Rows |-> Blank]
Dead       == job["ui"].at = "dead"

Pushing == {"push", "check", "copy", "draw"}

TypeOK ==
    /\ chat \in [Name -> Seq(Line)]
    /\ said \in [Line -> Name \cup {NoName}]
    /\ room \in Name \cup {NoName} /\ opened \in {room, NoName}
    /\ current \in BOOLEAN
    /\ screen \in [1 .. Rows -> Line \cup {Blank}]
    /\ job \in [Thread -> [at : Pushing \cup {"select", "window", "keys", "clear",
                                   "left", "delete", "idle", "dead"},
                           name : Name \cup {NoName}, line : Line \cup {Blank},
                           todo : Seq(Line), offset : 0 .. Rows]]
    /\ job["ui"].at # "idle"
    /\ job["listener"].at \in Pushing \cup {"idle", "dead"}
    /\ \A t \in Thread : job[t].at \in Pushing => job[t].name # NoName
    /\ rooms \in 0 .. MaxRooms
    /\ torn \in BOOLEAN /\ overlap \in BOOLEAN

Init ==
    /\ chat = [n \in Name |-> <<>>]
    /\ said = [l \in Line |-> NoName]
    /\ room = NoName /\ opened = NoName /\ current = FALSE
    /\ screen = Empty
    /\ job = [t \in Thread |-> At(IF t = "ui" THEN "select" ELSE "idle")]
    /\ rooms = 0
    /\ torn = FALSE /\ overlap = FALSE

-----------------------------------------------------------------------------
(* push_message and refresh_chatlog, in either thread.                     *)

Done(t) ==
    job' = [job EXCEPT ![t] = At(IF t = "ui" THEN "keys" ELSE "idle")]

\* Two threads that append to one log at a time may lose a line.
Push(t) ==
    /\ job[t].at = "push"
    /\ \/ chat' = [chat EXCEPT ![job[t].name] = Append(@, job[t].line)]
       \/ /\ job[Other(t)].at = "push"
          /\ job[Other(t)].name = job[t].name
          /\ UNCHANGED chat
    /\ job' = [job EXCEPT ![t].at = "check"]
    /\ torn' = (torn \/ (job["ui"].at = "clear" /\ job[t].name = room))
    /\ UNCHANGED <<said, room_, screen, overlap>>

\* For mutants: any room is drawn; the comparison is the wrong way round.
Drawable_any(name)    == current
Drawable_others(name) == current /\ opened # name

\* Only the room that is open is drawn.
Drawable(name) == current /\ opened = name

CheckRoom(t) ==
    /\ job[t].at = "check"
    /\ IF Drawable(job[t].name) THEN job' = [job EXCEPT ![t].at = "copy"] ELSE Done(t)
    /\ UNCHANGED <<chat, said, room_, screen, torn, overlap>>

CopyLog(t) ==
    /\ job[t].at = "copy"
    /\ IF chat[job[t].name] = <<>> THEN Done(t)
       ELSE job' = [job EXCEPT ![t].at = "draw", ![t].todo = chat[job[t].name]]
    /\ overlap' = (job[Other(t)].at = "draw")
    /\ UNCHANGED <<chat, said, room_, screen, torn>>

\* For a mutant: the window is not cleared.
Cleared_not == screen

Fits(t) == job[t].offset + Height[Head(job[t].todo)] <= Rows
Cleared == IF current THEN Empty ELSE screen

\* A line that does not fit any more starts a new page,
TurnPage(t) ==
    /\ job[t].at = "draw" /\ ~Fits(t)
    /\ screen' = Cleared
    /\ job' = [job EXCEPT ![t].offset = 0]
    /\ UNCHANGED <<chat, said, room_, torn, overlap>>

\* and drawing in no window does nothing.
PrintLine(t) ==
    /\ job[t].at = "draw" /\ Fits(t)
    /\ LET l == Head(job[t].todo)
           o == job[t].offset
       IN /\ screen' = IF current
                       THEN [r \in 1 .. Rows |-> IF r \in o + 1 .. o + Height[l]
                                                 THEN l ELSE screen[r]]
                       ELSE screen
          /\ IF Len(job[t].todo) = 1 THEN Done(t)
             ELSE job' = [job EXCEPT ![t].todo = Tail(@),
                                     ![t].offset = o + Height[l]]
    /\ UNCHANGED <<chat, said, room_, torn, overlap>>

PushMessage(t) == Push(t) \/ CheckRoom(t) \/ CopyLog(t)
                  \/ TurnPage(t) \/ PrintLine(t)

-----------------------------------------------------------------------------
(* The listener thread.                                                    *)

StartPush(t, n, l) ==
    /\ said[l] = NoName
    /\ said' = [said EXCEPT ![l] = n]
    /\ job' = [job EXCEPT ![t] = Job("push", n, l, <<>>, 0)]
    /\ UNCHANGED <<chat, room_, screen, torn, overlap>>

Receive(n, l) == job["listener"].at = "idle" /\ StartPush("listener", n, l)

-----------------------------------------------------------------------------
(* The UI thread: chat_room.                                               *)

Goto(from, to) == /\ job["ui"].at = from
                  /\ job' = [job EXCEPT !["ui"] = At(to)]

OpenRoom(n) ==
    /\ rooms < MaxRooms
    /\ Goto("select", "window")
    /\ room' = n /\ opened' = n
    /\ rooms' = rooms + 1
    /\ screen' = Empty
    /\ UNCHANGED <<chat, said, current, torn, overlap>>

\* The listener may still be drawing the log of a room that was open before.
SetCurrent ==
    /\ job["ui"].at = "window"
    /\ current' = TRUE
    /\ job' = [job EXCEPT !["ui"] = Job("check", room, Blank, <<>>, 0)]
    /\ torn' = (job["listener"].at \in {"copy", "draw"})
    /\ UNCHANGED <<chat, said, room, opened, rooms, screen, overlap>>

\* Enter, or F2 with a file name: shown whether it can be sent or not.
Say(l) == job["ui"].at = "keys" /\ StartPush("ui", room, l)

\* F5 clears the window first, and then the log.
ClearWindow ==
    /\ Goto("keys", "clear")
    /\ screen' = Empty
    /\ torn' = (torn \/ (/\ job["listener"].at \in Pushing \ {"push"}
                         /\ job["listener"].name = room))
    /\ UNCHANGED <<chat, said, room_, overlap>>

ClearLog ==
    /\ Goto("clear", "keys")
    /\ chat' = [chat EXCEPT ![room] = <<>>]
    /\ UNCHANGED <<said, room_, screen, torn, overlap>>

\* Escape: no window is current, no room is open, the windows are deleted.
Leave ==
    /\ Goto("keys", "left")
    /\ current' = FALSE
    /\ UNCHANGED <<chat, said, room, opened, rooms, screen, torn, overlap>>

\* For a mutant: the name of the room is not cleared.
CloseRoom_keeps == Goto("left", "delete") /\ UNCHANGED <<chat, said, room_, screen, torn, overlap>>

CloseRoom ==
    /\ Goto("left", "delete")
    /\ opened' = NoName
    /\ UNCHANGED <<chat, said, room, current, rooms, screen, torn, overlap>>

DeleteWindows ==
    /\ Goto("delete", "select")
    /\ room' = NoName
    /\ screen' = Empty
    /\ UNCHANGED <<chat, said, opened, current, rooms, torn, overlap>>

-----------------------------------------------------------------------------

\* Both threads in the map, or the listener drawing while the window goes.
Crash ==
    /\ \/ /\ job["ui"].at \in {"push", "copy", "clear"}
          /\ job["listener"].at \in {"push", "copy"}
       \/ job["ui"].at = "delete" /\ job["listener"].at = "draw"
    /\ job' = [t \in Thread |-> At("dead")]
    /\ UNCHANGED <<chat, said, room_, screen, torn, overlap>>

ChatRoom == SetCurrent \/ ClearLog \/ CloseRoom \/ DeleteWindows
User     == \/ ClearWindow \/ Leave
            \/ \E n \in Name : OpenRoom(n)
            \/ \E l \in Line : Say(l)

Next == \/ ChatRoom \/ User
        \/ \E n \in Name, l \in Line : Receive(n, l)
        \/ \E t \in Thread : PushMessage(t)
        \/ Crash

Spec == Init /\ [][Next]_vars

\* The threads take their steps; nothing obliges the user, or anybody to write.
FairSpec == /\ Spec
            /\ WF_vars(ChatRoom)
            /\ \A t \in Thread : WF_vars(PushMessage(t))

-----------------------------------------------------------------------------
(* Properties.                                                             *)

\* Rows that the lines of s fill, one below the other.
Layout(s) == FlattenSeq([i \in DOMAIN s |-> [r \in 1 .. Height[s[i]] |-> s[i]]])

Shows(s) == LET rows == Layout(s)
            IN screen = [r \in 1 .. Rows |-> IF r \in DOMAIN rows
                                             THEN rows[r] ELSE Blank]

\* In a room, with both threads through with their refreshes.
Settled == job["ui"].at = "keys" /\ job["listener"].at = "idle"

\* A log that fits the window is on it, line for line, however the listener's
\* pushes and refreshes fall between those of the UI thread, even when the
\* room is just being opened (ui.cc:177-189 against 258-290); only a push in
\* the middle of F5, or of a room left and opened anew, may disturb it.
ReadAll ==
    Settled /\ ~torn /\ Len(Layout(chat[room])) <= Rows => Shows(chat[room])

\* A longer log ends with the window: the last lines are there, whole, in order
\* and with nothing after them, unless two refreshes have drawn at a time
\* (ui.cc:269-277).
LastLinesShown ==
    LET log == chat[room]
    IN Settled /\ ~torn /\ ~overlap /\ log # <<>> =>
          \E i \in DOMAIN log :
              LET end == SubSeq(log, i, Len(log))
              IN Len(Layout(end)) <= Rows /\ Shows(end)

\* Nobody reads in a room what was said in another, at any moment, unless the
\* room was opened while the listener was drawing (ui.cc:258, 271-278).
OwnLinesOnly ==
    current /\ ~torn =>
        \A r \in 1 .. Rows : screen[r] # Blank => said[screen[r]] = room

\* A line that has been added to the log of the open room appears in its
\* window, be it for a moment, unless the user leaves, the line is cleared or
\* lost, or the process ends (ui.cc:288-289).
Seen ==
    \A t \in Thread, l \in Line :
        (job[t].at = "check" /\ job[t].line = l /\ current /\ opened = job[t].name) ~>
            \/ \E r \in 1 .. Rows : screen[r] = l
            \/ ~current \/ Dead
            \/ \A n \in Name : l \notin ToSet(chat[n])
=============================================================================
