------------------------------ MODULE MCTransfer ------------------------------
(***************************************************************************)
(* Small frames.  As in the program, an answer and a check are shorter than *)
(* Base and a list or a file may be longer; a text is shorter than Block,   *)
(* may be empty for the reader (it starts with a NUL) or hold one.          *)
(***************************************************************************)
EXTENDS Transfer

alice == <<97>>
bob   == <<98, 99>>

Text1 == [from |-> alice, to |-> bob, text |-> <<104, 0, 105>>]
Text2 == [from |-> bob, to |-> alice, text |-> <<0, 104>>]

MCFrames ==
    { Plain("list", LIST_PREFIX, <<10, 1, 97, 18, 1, 52>>, LIST_POSTFIX),
      Plain("list", LIST_PREFIX, <<>>, LIST_POSTFIX),
      Plain("ping", PING_PREFIX, <<65, 66, 67>>, PING_POSTFIX),
      Plain("pong", PONG_PREFIX, <<48, 49, 50>>, PONG_POSTFIX),
      Layer(Text1, bob, <<133, 1, 12>>),
      Layer(Text2, bob, <<133, 1>>),
      Missing }
=============================================================================
