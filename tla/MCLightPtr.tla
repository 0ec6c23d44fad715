----------------------------- MODULE MCLightPtr -----------------------------
(***************************************************************************)
(* Three addresses, two of which share a lock.                             *)
(***************************************************************************)
EXTENDS LightPtr, TLC

CONSTANTS t1, t2, t3, h1, h2, h3, h4, o1, o2, o3, l1, l2

SharedLocks == (o1 :> l1) @@ (o2 :> l1) @@ (o3 :> l2)

Symmetry == Permutations(Threads) \cup Permutations(Handles)

=============================================================================
