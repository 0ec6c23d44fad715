---------------------------- MODULE MCWorkQueue -----------------------------
(* WorkQueue for TLC: small sets of workers and entries, and no symmetry,  *)
(* which would not be sound for CloseReturns.                              *)
EXTENDS WorkQueue, TLC
=============================================================================
