----------------------------- MODULE MCSession -----------------------------
(* Constants of the session run. *)
EXTENDS Session

CONSTANTS alice, bob, carol, a1, a2, a3, a4

\* alice logs in: alone, with bob, with bob elsewhere and carol.
MCLists ==
    {alice :> a1,
     alice :> a1 @@ bob :> a2,
     alice :> a1 @@ bob :> a3 @@ carol :> a4}
=============================================================================
