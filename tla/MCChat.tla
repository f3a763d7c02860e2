------------------------------- MODULE MCChat -------------------------------
(* Instances of Chat for TLC. *)
EXTENDS Chat

CONSTANTS n1, n2, l1, l2, l3

\* One line of two rows among lines of one.
MCHeight == [l \in Line |-> IF l = l2 THEN 2 ELSE 1]
=============================================================================
