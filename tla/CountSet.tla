------------------------------ MODULE CountSet ------------------------------
(***************************************************************************)
(* count_set.h: the three reference counts of a listen_impl_func, packed   *)
(* into bit fields of one machine word.  When a count has the largest      *)
(* value of its field and is incremented, all three move to an object on   *)
(* the heap, for good.  Arithmetic is modulo the width of the field, as in *)
(* C++: a decrement of 0 gives the largest value.                          *)
(***************************************************************************)
EXTENDS Naturals

CONSTANTS SmallMax,   \* SODIUM_STRONG_MAX, SODIUM_STREAM_MAX, SODIUM_NODE_MAX
          LargeMax    \* UINT_MAX

Kinds == {"strong", "stream", "node"}

ASSUME LimitsAssumption ==
  /\ SmallMax \in [Kinds -> Nat]
  /\ LargeMax \in Nat
  /\ \A k \in Kinds : SmallMax[k] < LargeMax

\* The largest value that count k of c can have.
Limit(c, k) == IF c.small THEN SmallMax[k] ELSE LargeMax

CountSets == {c \in [small : BOOLEAN, count : [Kinds -> Nat]] :
                \A k \in Kinds : c.count[k] <= Limit(c, k)}

empty == [small |-> TRUE, count |-> [k \in Kinds |-> 0]]

to_large(c) == [small |-> FALSE, count |-> c.count]

plus_one(c, k) == [c EXCEPT !.count[k] = (c.count[k] + 1) % (Limit(c, k) + 1)]

\* Mutant of inc: a field at its limit is not moved.
incInPlace(c, k) == plus_one(c, k)

\* inc_strong(), inc_stream(), inc_node().
inc(c, k) == plus_one(IF c.small /\ c.count[k] = SmallMax[k] THEN to_large(c) ELSE c, k)

\* dec_strong(), dec_stream(), dec_node().
dec(c, k) == [c EXCEPT !.count[k] = (c.count[k] + Limit(c, k)) % (Limit(c, k) + 1)]

\* Mutants of active: references count alone, or the node does.
activeStrong(c) == c.count["strong"] > 0
activeNode(c) == c.count["strong"] > 0 \/ c.count["node"] > 0

active(c) == c.count["strong"] > 0 \/ (c.count["node"] > 0 /\ c.count["stream"] > 0)

\* Mutant of alive: the node does not count.
aliveNoNode(c) == c.count["strong"] > 0 \/ c.count["stream"] > 0

alive(c) == \E k \in Kinds : c.count[k] > 0

=============================================================================
