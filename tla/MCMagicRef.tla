----------------------------- MODULE MCMagicRef -----------------------------
(* MagicRef for TLC.                                                       *)
EXTENDS MagicRef, TLC

CONSTANTS h1, h2

\* Handles are alike.
HandleSymmetry == Permutations(Handle)
=============================================================================
