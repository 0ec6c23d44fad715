------------------------------ MODULE RefGraph ------------------------------
(* What magic_ref keeps of its promise: an object lives while a handle     *)
(* reaches it, and after collect_cycles() only then, as long as no garbage *)
(* is collected that refers to an object in use.                           *)
EXTENDS Sequences, FiniteSets, SequencesExt

CONSTANTS Handle, Object, Nobody

VARIABLES
  held,      (* the object each handle refers to, or Nobody               *)
  contents,  (* the objects that the value of each object refers to       *)
  live       (* the objects that exist                                    *)

refs == <<held, contents, live>>

RECURSIVE Closure(_, _)
Closure(c, S) ==
  LET T == S \cup UNION {ToSet(c[o]) : o \in S} IN IF T = S THEN S ELSE Closure(c, T)

Reachable == Closure(contents, {held[h] : h \in Handle} \ {Nobody})

Init ==
  /\ held = [h \in Handle |-> Nobody]
  /\ contents = [o \in Object |-> <<>>]
  /\ live = {}

\* An object goes only when nothing reaches it, and its value with it.
Kept ==
  /\ Reachable' \subseteq live'
  /\ \A o \in Object \ live' : contents'[o] = <<>>

New == 
  \E h \in Handle, o \in Object \ live :
    /\ held[h] = Nobody
    /\ held' = [held EXCEPT ![h] = o]
    /\ live' = live \cup {o}
    /\ UNCHANGED contents

\* A handle is made, aimed elsewhere or dropped.
Aim ==
  /\ \E h \in Handle, o \in Reachable \cup {Nobody} : held' = [held EXCEPT ![h] = o]
  /\ live' \subseteq live
  /\ \A x \in live' : contents'[x] = contents[x]
  /\ Kept

\* The value of one object is replaced.
Put ==
  /\ UNCHANGED held
  /\ live' \subseteq live
  /\ \E o \in Reachable :
       /\ \A x \in live' \ {o} : contents'[x] = contents[x]
       /\ ToSet(contents'[o]) \subseteq Reachable
  /\ Kept

\* Garbage refers to something in use.
OutsideRefs ==
  LET R == Reachable IN \E o \in live \ R : ToSet(contents[o]) \cap R # {}

Collect ==
  /\ ~OutsideRefs
  /\ live' = Reachable
  /\ \A x \in live' : contents'[x] = contents[x]
  /\ Kept
  /\ UNCHANGED held

\* Nothing is promised of a collection then.
CollectOutside == OutsideRefs /\ live' \subseteq live /\ UNCHANGED held

Next == New \/ Put \/ Aim \/ Collect \/ CollectOutside

Spec == Init /\ [][Next]_refs
=============================================================================
