------------------------------ MODULE Transfer ------------------------------
(***************************************************************************)
(* One frame over one TCP connection: TCP_Client::send or send_file on one *)
(* side, TCP_Client::recv on the other (common/tcp_client.cc), and what    *)
(* the receiver makes of what it got: liste_loop of a list, a check or a   *)
(* message file (client/listen.cc), the health server of an answer.  The   *)
(* stream may be cut anywhere, by a peer that closes (the reader finds its *)
(* end) or by an error; a read gets what has arrived, and with a timeout   *)
(* perhaps nothing.                                                        *)
(***************************************************************************)
EXTENDS Codec

CONSTANTS
    Frames,     \* the frames there are
    Buf         \* bytes written and read at a time (BUFSIZ)

ASSUME TransferAssumption ==
    /\ Buf \in Nat \ {0}
    /\ \A f \in Frames :
         /\ f.kind \in {"list", "ping", "pong", "file", "missing"}
         /\ f.data \in Seq(Nat) /\ Len(f.data) < Power[Width]
         /\ f.kind = "missing" => f.data = <<>>

\* A list, a check or an answer; a file that is not there.
Plain(kind, prefix, content, postfix) ==
    [kind |-> kind, data |-> prefix \o content \o postfix]
Missing == [kind |-> "missing", data |-> <<>>]

\* The last layer of what send_message makes: a text m from one user to another,
\* sealed (cipher stands for what gpg writes) and sent by hop.
Layer(m, hop, cipher) ==
    [kind   |-> "file",
     hop    |-> hop,
     data   |-> Serialize([from |-> hop, to |-> m.to, type |-> 0, body |-> cipher]),
     plain  |-> Serialize([from |-> m.from, to |-> m.to, type |-> 1,
                           body |-> m.text]),
     cipher |-> cipher,
     sent   |-> m]

\* get_file_size of a missing file is -1; it is sent without its sign.
Announces(f) == IF f.kind = "missing" THEN Power[Width] - 1 ELSE Len(f.data)

\* What else the frames of the program have in common.  No two digits of a size are
\* a prefix: in the program sizes below 53598, the prefix of a list, have no such two,
\* which leaves room for a list of a thousand users.
SizeIsNoPrefix(n) ==
    \A i \in 1 .. Width - 1 :
        SubSeq(Digits(n), i, i + 1) \notin {MESSAGE_PREFIX, LIST_PREFIX, PING_PREFIX}

\* Lists of names and addresses, random letters and hexadecimal digits have no
\* postfix in them.
IsPlain(f, kind, prefix, postfix) ==
    LET c == Content(f.data)
    IN /\ f = Plain(kind, prefix, c, postfix)
       /\ \A i \in 1 .. Len(c) - 1 : SubSeq(c, i, i + 1) # postfix

\* The length of a name has a zero for its first digit, gpg never writes nothing,
\* and a text, of 200 bytes at most (ui.cc), is read as one block.
IsLayer(f) ==
    /\ f.kind = "file"
    /\ f = Layer(f.sent, f.hop, f.cipher)
    /\ \A name \in {f.hop, f.sent.from, f.sent.to} :
          name \in Seq(Nat) /\ ~TooLarge(Len(name))
    /\ f.cipher \in Seq(Nat) \ {<<>>}
    /\ f.sent.text \in Seq(Nat) /\ Len(f.sent.text) < Block

ASSUME FrameAssumption ==
    \A f \in Frames :
      /\ SizeIsNoPrefix(Announces(f))
      /\ \/ IsPlain(f, "list", LIST_PREFIX, LIST_POSTFIX)
         \/ IsPlain(f, "ping", PING_PREFIX, PING_POSTFIX)
         \/ IsPlain(f, "pong", PONG_PREFIX, PONG_POSTFIX)
         \/ IsLayer(f)
         \/ f = Missing

VARIABLES
    frame,      \* the frame of this connection
    written,    \* bytes of the stream that are written and not lost
    spc,        \* the sender: it sends, has sent all, or has stopped short
    end,        \* the stream is "open", ends ("eof") or fails ("error")
    read,       \* bytes of the stream that recv has read
    rpc,        \* where recv is
    type, size, start,  \* recv: type, payload_size, where the payload began
    fault       \* history: bytes were lost, a read timed out or, for the size,
                \* was short

sender   == <<written, spc, end>>
receiver == <<read, rpc, type, size, start>>
vars     == <<frame, sender, receiver, fault>>

OfFile == frame.kind \in {"file", "missing"}

Announced == Announces(frame)

Stream == <<IF OfFile THEN 1 ELSE 0>> \o Digits(Announced) \o frame.data

Got == SubSeq(Stream, start + 1, read)

TypeOK ==
    /\ frame \in Frames
    /\ written \in 0 .. Len(Stream)
    /\ spc \in {"sends", "sent", "stopped"}
    /\ end \in {"open", "eof", "error"}
    /\ read \in 0 .. written
    /\ rpc \in {"type", "size", "body", "done"}
    /\ type \in {0, 1} /\ size \in 0 .. Power[Width] - 1 /\ start \in 0 .. read
    /\ rpc \in {"body", "done"} => start <= Width + 1
    /\ fault \in BOOLEAN
    /\ spc = "sends" => end = "open"

Init ==
    /\ frame \in Frames
    /\ written = 0 /\ spc = "sends" /\ end = "open"
    /\ read = 0 /\ rpc = "type" /\ type = 0 /\ size = 0 /\ start = 0
    /\ fault = FALSE

-----------------------------------------------------------------------------
(* send and send_file.                                                     *)

Least(m, n) == IF m < n THEN m ELSE n

\* The type, then the size, then blocks of the payload.
NextWrite == IF written = 0 THEN 1
             ELSE IF written = 1 THEN Width + 1
             ELSE Least(written + Buf, Len(Stream))

\* A missing file has no block to write, and its sender never finishes.
Write ==
    /\ spc = "sends" /\ written < Len(Stream)
    /\ written' = NextWrite
    /\ UNCHANGED <<frame, spc, end, receiver, fault>>

Finish ==
    /\ spc = "sends" /\ written = Len(Stream) /\ frame.kind # "missing"
    /\ spc' = "sent"
    /\ UNCHANGED <<frame, written, end, receiver, fault>>

\* The connection may be closed when all is sent, or stay open.
Close ==
    /\ spc = "sent" /\ end = "open"
    /\ end' = "eof"
    /\ UNCHANGED <<frame, written, spc, receiver, fault>>

\* A write fails or is short, or the sender dies: the stream ends where it is,
\* or fails, and then what has not arrived yet is lost.
Stop ==
    /\ spc \in {"sends", "sent"}
    /\ \/ /\ spc = "sends"
          /\ end' = "eof"
          /\ written' \in written .. (IF written < Len(Stream) THEN NextWrite - 1
                                                               ELSE written)
       \/ /\ end' = "error"
          /\ written' \in read .. written
    /\ spc' = "stopped"
    /\ fault' = TRUE
    /\ UNCHANGED <<frame, receiver>>

-----------------------------------------------------------------------------
(* recv.                                                                   *)

\* For a mutant: more than has arrived.
Reads_past(n, k) == k \in 1 .. n /\ read' = read + k

\* ::read of at most n bytes returns some that have arrived,
Reads(n, k) == k \in 1 .. n /\ read + k <= written /\ read' = read + k

\* or 0 at the end of the stream,
ReadsEnd == end = "eof" /\ read = written /\ UNCHANGED read

\* or -1; the health server's sockets have a timeout.
ReadFails == /\ read = written
             /\ \/ end = "error"
                \/ frame.kind = "pong" /\ end = "open"
             /\ UNCHANGED read

\* The results of reading the type and the size are not looked at.
ReadType ==
    /\ rpc = "type"
    /\ \/ Reads(1, 1) /\ type' = Stream[read'] /\ UNCHANGED fault
       \/ ReadsEnd /\ UNCHANGED <<type, fault>>
       \/ ReadFails /\ fault' = TRUE /\ UNCHANGED type
    /\ rpc' = "size"
    /\ UNCHANGED <<frame, sender, size, start>>

ReadSize ==
    /\ rpc = "size"
    /\ \/ \E k \in 1 .. Width :
             /\ Reads(Width, k)
             /\ size' = Value(Overlay(Zeros(Width), SubSeq(Stream, read + 1, read')))
             /\ fault' = (fault \/ k < Width)
       \/ ReadsEnd /\ size' = 0 /\ UNCHANGED fault
       \/ ReadFails /\ size' = 0 /\ fault' = TRUE
    /\ rpc' = "body"
    /\ start' = read'
    /\ UNCHANGED <<frame, sender, type>>

\* For mutants: offset <= payload_size; a single read.
Wants_more == read - start <= size
Wants_once == read = start /\ size > 0

Wants == read - start < size

\* At the end of the stream it reads 0 bytes for ever.
ReadBody ==
    /\ rpc = "body" /\ Wants
    /\ \/ \E k \in 1 .. Buf : Reads(Buf, k) /\ UNCHANGED <<rpc, fault>>
       \/ ReadsEnd /\ UNCHANGED <<rpc, fault>>
       \/ ReadFails /\ rpc' = "done" /\ fault' = TRUE
    /\ UNCHANGED <<frame, sender, type, size, start>>

Return ==
    /\ rpc = "body" /\ ~Wants
    /\ rpc' = "done"
    /\ UNCHANGED <<frame, sender, read, type, size, start, fault>>

-----------------------------------------------------------------------------

Send == Write \/ Finish
Recv == ReadType \/ ReadSize \/ ReadBody \/ Return

Next == Send \/ Close \/ Stop \/ Recv

Spec == Init /\ [][Next]_vars

\* Both sides take their steps; a peer may stop or a connection be closed.
FairSpec == Spec /\ WF_vars(Send) /\ WF_vars(Recv)

-----------------------------------------------------------------------------
(* What the receiver makes of it.                                          *)

Nothing == [is |-> "nothing"]

\* gpg opens a body that is whole, and no other; only then is it a message that
\* can be shown.
Opened(body) == IF body = frame.cipher THEN Deserialize(frame.plain) ELSE Nothing

\* A file is opened when it is a message for this user with a file for a body.
OfLayer(m) ==
    IF m.is # "message" THEN m
    ELSE IF m.to # frame.sent.to \/ m.type # 0 THEN Nothing
    ELSE Opened(m.body)

\* liste_loop, and the health server for an answer: a string that is neither a
\* list nor a check is no name of a file either.
Understood ==
    IF type = 1 THEN OfLayer(Deserialize(Got))
    ELSE IF frame.kind = "pong"
    THEN IF Framed(Got, PONG_PREFIX, PONG_POSTFIX)
         THEN [is |-> "pong", content |-> Content(Got)] ELSE Nothing
    ELSE IF Framed(Got, LIST_PREFIX, LIST_POSTFIX)
    THEN [is |-> "list", content |-> Content(Got)]
    ELSE IF Framed(Got, PING_PREFIX, PING_POSTFIX)
    THEN [is |-> "ping", content |-> Content(Got)]
    ELSE Nothing

\* What the sender meant: of a text, what its own window shows of it.
Meaning ==
    IF frame.kind = "file"
    THEN [is |-> "message", from |-> frame.sent.from, to |-> frame.sent.to,
          type |-> 1, body |-> UpToNul(frame.sent.text)]
    ELSE [is |-> frame.kind, content |-> Content(frame.data)]

\* A file cut after the length of its first name, up to the end of that name.
CutInName ==
    /\ frame.kind = "file"
    /\ Len(Got) - 2 - Width \in 0 .. Value(SubSeq(frame.data, 3, 2 + Width))

\* However the stream is cut and its reads come in parts, the receiver takes it
\* for what was meant or for nothing: no shorter list, no other sender or text
\* (recv returns what has come so far, and no caller compares lengths: the
\* markers have to tell).  A file cut in its first name ends the process.
NothingFalse ==
    rpc = "done" => \/ Understood = Meaning
                    \/ Understood \in {Nothing, Refused}
                    \/ Understood = Dies /\ CutInName

\* With no fault recv returns all that was sent, whatever the parts in which
\* the bytes came: the bytes are a file's if a file was sent.
WholeWhenClean ==
    rpc = "done" /\ ~fault => type = Stream[1] /\ Got = frame.data

\* With no fault the receiver understands what was meant: a list, a check and an
\* answer keep their content, and a layer is opened and gives the sender's own text.
UnderstoodWhenClean ==
    rpc = "done" /\ ~fault => Understood = Meaning

\* What is sent to its end is received: recv returns, even if the connection is
\* left open, a read times out or the stream then fails.
Returns == spc = "sent" ~> rpc = "done"
=============================================================================
