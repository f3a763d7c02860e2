-------------------------------- MODULE Codec --------------------------------
(***************************************************************************)
(* The bytes of the program's frames: lengths (BSWAP64), the markers of    *)
(* common/config.h, and what Message::serialize writes to a file and       *)
(* Message::deserialize reads from one (message_wrapper.cc), which may     *)
(* have been cut.  A byte is a number.  A length has Width digits of base  *)
(* Base instead of eight bytes, the time one byte instead of eight.        *)
(***************************************************************************)
EXTENDS Integers, SequencesExt

CONSTANTS Base, Width,
          Block     \* bytes deserialize reads at a time (1024)

ASSUME CodecAssumption ==
    Base \in Nat \ {0, 1} /\ Width \in Nat \ {0} /\ Block \in Nat \ {0}

\* Powers of Base, up to the first that is too large for a length.
Power[k \in 0 .. Width] == IF k = 0 THEN 1 ELSE Base * Power[k - 1]

\* Most significant digit first, as on the wire.
Digits(n) == [i \in 1 .. Width |-> (n \div Power[Width - i]) % Base]
Value(d)  == FoldLeft(LAMBDA n, x : n * Base + x, 0, d)

\* What a read leaves in memory: the bytes it got, and then what was there.
Overlay(memory, got) ==
    got \o SubSeq(memory, Len(got) + 1, Len(memory))

Zeros(n) == [i \in 1 .. n |-> 0]

MESSAGE_PREFIX  == <<222, 173>>
MESSAGE_POSTFIX == <<240, 13>>
LIST_PREFIX     == <<209, 94>>
LIST_POSTFIX    == <<174, 238>>
PING_PREFIX     == <<254, 237>>
PING_POSTFIX    == <<250, 206>>
PONG_PREFIX     == <<254, 237>>
PONG_POSTFIX    == <<240, 221>>

\* For a mutant: the end is not looked at.
Framed_open(data, prefix, postfix) == IsPrefix(prefix, data) /\ Len(postfix) = 2

\* substr(0, 2) and substr(len - 2, 2) are the markers.
Framed(data, prefix, postfix) ==
    IsPrefix(prefix, data) /\ IsSuffix(postfix, data)

Content(data) == SubSeq(data, 3, Len(data) - 2)

-----------------------------------------------------------------------------

Time == 5

\* type is 0 for a body that is a file, 1 for a text.  No program sends 2, a file
\* with a name.
Serialize(m) ==
    MESSAGE_PREFIX
    \o Digits(Len(m.from)) \o m.from
    \o Digits(Len(m.to)) \o m.to
    \o <<Time, m.type>>
    \o MESSAGE_POSTFIX \o m.body

UpToNul(s) == IF 0 \in ToSet(s) THEN SubSeq(s, 1, SelectInSeq(s, LAMBDA x : x = 0) - 1)
              ELSE s

\* For a mutant: a last block that is not full is left out.
Text_full(body) ==
    FlattenSeq([i \in 1 .. Len(body) \div Block |->
                  UpToNul(SubSeq(body, (i - 1) * Block + 1, i * Block))])

\* Each block is appended as a C string.
Text(body) ==
    FlattenSeq([i \in 1 .. (Len(body) \div Block) + 1 |->
                  UpToNul(SubSeq(body, (i - 1) * Block + 1,
                                 IF i * Block < Len(body) THEN i * Block
                                                          ELSE Len(body)))])

Refused == [is |-> "refused"]
Dies    == [is |-> "dies"]

\* resize of a length whose top byte is set throws, and nobody catches.
TooLarge(n) == n >= Power[Width - 1]

\* A read of n bytes gets those that there are.
Read(file, at, n) ==
    SubSeq(file, at + 1, IF at + n < Len(file) THEN at + n ELSE Len(file))

\* No read is checked: a length that is not all there mixes with what s held
\* before, in the machine's order, and only the markers tell in the end.
Deserialize(file) ==
    LET prefix  == Overlay(Zeros(2), Read(file, 0, 2))
        from    == Value(Overlay(Zeros(Width), Read(file, 2, Width)))
        atTo    == 2 + Width + from
        to      == Value(Overlay(Reverse(Digits(from)), Read(file, atTo, Width)))
        atTime  == atTo + Width + to
        names   == Overlay(Overlay(prefix, Read(file, 2 + Width, from)),
                           Read(file, atTo + Width, to))
        postfix == Overlay(SubSeq(names, 1, 2), Read(file, atTime + 2, 2))
        type    == file[atTime + 2]
        body    == SubSeq(file, atTime + 5, Len(file))
    IN IF prefix # MESSAGE_PREFIX THEN Refused
       ELSE IF TooLarge(from) \/ TooLarge(to) THEN Dies
       ELSE IF postfix # MESSAGE_POSTFIX THEN Refused
       ELSE [is   |-> "message",
             from |-> Read(file, 2 + Width, from),
             to   |-> Read(file, atTo + Width, to),
             type |-> type,
             body |-> IF type = 1 THEN Text(body) ELSE body]
=============================================================================
