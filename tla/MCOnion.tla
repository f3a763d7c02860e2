------------------------------ MODULE MCOnion ------------------------------
(* Constants of the message runs: four users. *)
EXTENDS Onion

CONSTANTS alice, bob, carol, dave

MCHome == [n \in Name |-> n]    \* an address is called like its user

M(from, to) == [from |-> from, to |-> to, content |-> "hi"]

AllKeys == [n \in Name |-> Name]

\* alice has every key; bob lacks that of a relay, dave, and carol bob's.
SomeKeys == [AllKeys EXCEPT ![bob] = Name \ {dave}, ![carol] = Name \ {bob}]

\* The whole directory; without alice; without bob; one where bob's address is
\* now dave's; two of no more than two users.
Full      == MCHome
NoAlice   == Restrict(Full, Name \ {alice})
NoBob     == Restrict(Full, Name \ {bob})
Stale     == [Full EXCEPT ![bob] = dave]
Small     == Restrict(Full, {alice, bob})
Pair      == Restrict(Full, {bob, carol})

StaleViews == {Full, Stale}
PairViews  == {Full, Stale, Pair}
MixedViews == {NoAlice, NoBob, Small}

BadKeys     == {M(bob, carol), M(carol, bob)}
TwoMessages == {M(alice, bob), M(bob, carol)}
=============================================================================
