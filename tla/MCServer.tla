------------------------------ MODULE MCServer ------------------------------
(* Constants of the server runs. *)
EXTENDS Server

CONSTANTS alice, bob, a1, a2, h1, h2

\* Nobody's id ends in white space.
MCTrim == [g \in Name |-> g]

NameAndAddrSymmetry == Permutations({alice, bob}) \cup Permutations({a1, a2})
NameAndHealthSymmetry == Permutations({alice, bob}) \cup Permutations({h1, h2})
=============================================================================
