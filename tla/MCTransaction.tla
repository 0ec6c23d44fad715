--------------------------- MODULE MCTransaction ----------------------------
(* Transaction for TLC: one or two user threads and a few of everything.   *)
EXTENDS Transaction, TLC

\* Threads of a kind are interchangeable, and so are entries, posts and hooks.
Symmetry == Permutations(Users) \cup Permutations(Workers) \cup Permutations(Entries)
            \cup Permutations(Posts) \cup Permutations(Hooks)
=============================================================================
