------------------------------ MODULE MagicRef ------------------------------
(***************************************************************************)
(* magic_ref, the references of the experimental engine: receptacles that  *)
(* are counted, and cycles of them found by trial deletion.  Every         *)
(* operation holds link::lock, a recursive mutex, from end to end, so it   *)
(* is one action here, whichever thread calls it.                          *)
(*                                                                         *)
(* Roots are visited in the order of their addresses: objects are numbers, *)
(* and a new one may have any that is free.                                *)
(*                                                                         *)
(* A collection of garbage that refers to something in use leaves a count  *)
(* too low, or frees what is in use.  What the program does with that      *)
(* object from then on is not defined in the end, and the model stops.     *)
(***************************************************************************)
EXTENDS Integers, Sequences, FiniteSets, FiniteSetsExt, SequencesExt

CONSTANTS
  Handle,       (* the program's variables of type magic_ref              *)
  Object,       (* addresses                                              *)
  Nobody,       (* of a handle that does not exist now                    *)
  MaxContents   (* bound: on the references in a value                    *)

ASSUME ObjectsAreOrdered == Object \subseteq Nat \ {0} /\ Nobody \notin Object

VARIABLES
  held,         (* the receptacle r of each handle                        *)
  heap,         (* the links: those that are live, their fields, the      *)
                (* references in their values (oa), roots and to_delete   *)
  overcounted   (* history: a collection gave up references to something  *)
                (* in use twice                                           *)

vars == <<held, heap, overcounted>>

Init ==
  /\ held = [h \in Handle |-> Nobody]
  /\ heap = [live |-> {}, roots |-> {}, toDelete |-> {},
             count |-> [o \in Object |-> 0], colour |-> [o \in Object |-> "black"],
             buffered |-> [o \in Object |-> FALSE],
             children |-> [o \in Object |-> <<>>], oa |-> [o \in Object |-> <<>>]]
  /\ overcounted = FALSE

Occurrences(o, s) == Cardinality({k \in DOMAIN s : s[k] = o})
Ascending(S) == SetToSortSeq(S, <)

-----------------------------------------------------------------------------
\* Counting

increments(e, ms) ==
  [e EXCEPT !.count = [o \in Object |-> @[o] + Occurrences(o, ms)],
            !.colour = [o \in Object |-> IF o \in ToSet(ms) THEN "black" ELSE @[o]]]

\* Mutant of possible_root: a link that is buffered already is not recoloured.
possible_rootOnce(e, o) ==
  IF e.colour[o] = "purple" \/ e.buffered[o] THEN e
  ELSE [e EXCEPT !.colour[o] = "purple", !.buffered[o] = TRUE, !.roots = @ \cup {o}]

possible_root(e, o) ==
  IF e.colour[o] = "purple" THEN e
  ELSE [e EXCEPT !.colour[o] = "purple", !.buffered[o] = TRUE, !.roots = @ \cup {o}]

\* `delete' of a link; its value goes with it.
deleted(e, o) ==
  [e EXCEPT !.live = @ \ {o}, !.count[o] = 0, !.colour[o] = "black",
            !.buffered[o] = FALSE, !.children[o] = <<>>, !.oa[o] = <<>>]

release(e, o) ==
  deleted(IF e.buffered[o] THEN [e EXCEPT !.roots = @ \ {o}] ELSE e, o)

\* The references ms go, in this order; a release destroys a value, whose
\* references go before the next of ms.
RECURSIVE decrements(_, _)
decrements(e, ms) ==
  IF ms = <<>> THEN e
  ELSE LET o == Head(ms)
       IN CASE o \in e.toDelete -> decrements(e, Tail(ms))
            [] o \notin e.toDelete /\ e.count[o] = 1 ->
                 decrements(release(e, o), e.oa[o] \o Tail(ms))
            [] OTHER ->
                 decrements(possible_root([e EXCEPT !.count[o] = @ - 1], o), Tail(ms))

\* assign(a): the old value goes, then a is copied into a temporary and into oa
\* with `children' capturing, and the temporary goes.  The caller's a lives
\* from before to after.
assign(e, o, a) ==
  LET cleared == decrements([increments(e, a) EXCEPT !.children[o] = <<>>, !.oa[o] = <<>>], e.oa[o])
      copied == [increments(cleared, a \o a) EXCEPT !.children[o] = a, !.oa[o] = a]
  IN decrements(copied, a \o a)

-----------------------------------------------------------------------------
\* Collecting cycles

\* S with all that is reached from it through links that satisfy Through.
RECURSIVE Spread(_, _, _)
Spread(e, S, Through) ==
  LET T == S \cup (UNION {ToSet(e.children[o]) : o \in S} \cap Through)
  IN IF T = S THEN S ELSE Spread(e, T, Through)

Uncoloured(e, c) == {o \in e.live : e.colour[o] # c}
Coloured(e, c) == {o \in e.live : e.colour[o] = c}

\* The links in S take a colour, and each counts its children by d.
Counted(e, S, c, d) ==
  [e EXCEPT !.colour = [o \in Object |-> IF o \in S THEN c ELSE @[o]],
            !.count = [o \in Object |-> @[o] + d * MapThenSumSet(LAMBDA s : Occurrences(o, e.children[s]), S)]]

mark_grey(e, o) == Counted(e, Spread(e, {o} \cap Uncoloured(e, "grey"), Uncoloured(e, "grey")), "grey", -1)

\* Mutant of scan_black: the counts are not put back.
scan_blackUncounted(e, o) == Counted(e, Spread(e, {o}, Uncoloured(e, "black")), "black", 0)

scan_black(e, o) == Counted(e, Spread(e, {o}, Uncoloured(e, "black")), "black", 1)

\* Mutant of scan: a link with one reference from elsewhere is let go.
RECURSIVE scanOffByOne(_, _)
scanOffByOne(e, os) ==
  IF os = <<>> THEN e
  ELSE LET o == Head(os)
       IN CASE e.colour[o] # "grey" -> scanOffByOne(e, Tail(os))
            [] e.colour[o] = "grey" /\ e.count[o] > 1 -> scanOffByOne(scan_black(e, o), Tail(os))
            [] OTHER -> scanOffByOne([e EXCEPT !.colour[o] = "white"], e.children[o] \o Tail(os))

\* Mutant of scan: it does not go on to the children of a link let go.
RECURSIVE scanShallow(_, _)
scanShallow(e, os) ==
  IF os = <<>> THEN e
  ELSE LET o == Head(os)
       IN CASE e.colour[o] # "grey" -> scanShallow(e, Tail(os))
            [] e.colour[o] = "grey" /\ e.count[o] > 0 -> scanShallow(scan_black(e, o), Tail(os))
            [] OTHER -> scanShallow([e EXCEPT !.colour[o] = "white"], Tail(os))

\* The recursion of scan(), as the links still to scan.
RECURSIVE scan(_, _)
scan(e, os) ==
  IF os = <<>> THEN e
  ELSE LET o == Head(os)
       IN CASE e.colour[o] # "grey" -> scan(e, Tail(os))
            [] e.colour[o] = "grey" /\ e.count[o] > 0 -> scan(scan_black(e, o), Tail(os))
            [] OTHER -> scan([e EXCEPT !.colour[o] = "white"], e.children[o] \o Tail(os))

collect_white(e, o) ==
  LET white == {x \in Coloured(e, "white") : ~e.buffered[x]}
      W == Spread(e, {o} \cap white, white)
  IN [e EXCEPT !.colour = [x \in Object |-> IF x \in W THEN "black" ELSE @[x]],
               !.toDelete = @ \cup W]

mark_root(e, o) ==
  IF e.colour[o] = "purple" /\ e.count[o] > 0 THEN mark_grey(e, o)
  ELSE LET r == [e EXCEPT !.buffered[o] = FALSE, !.roots = @ \ {o}]
       IN IF e.colour[o] = "black" /\ e.count[o] = 0 THEN decrements(deleted(r, o), e.oa[o]) ELSE r

mark_roots(e) == FoldLeft(mark_root, e, Ascending(e.roots))
scan_roots(e) == scan(e, Ascending(e.roots))

collect_root(e, o) == collect_white([e EXCEPT !.buffered[o] = FALSE], o)
collect_roots(e) == [FoldLeft(collect_root, e, Ascending(e.roots)) EXCEPT !.roots = {}]

\* The value of a collected link is destroyed, which gives up its references
\* though mark_grey() has counted them out already.  Those to links that are
\* to be deleted are ignored; any other goes down a second time.
delete_collected(e, o) == decrements(deleted(e, o), e.oa[o])

collect_cycles(e) ==
  LET c == collect_roots(scan_roots(mark_roots(e)))
  IN [FoldLeft(delete_collected, c, Ascending(c.toDelete)) EXCEPT !.toDelete = {}]

-----------------------------------------------------------------------------
\* The program

Promise == INSTANCE RefGraph WITH contents <- heap.oa, live <- heap.live

InUse == {held[h] : h \in Handle} \ {Nobody}
Reachable == Promise!Reachable

\* The counts are right as yet, and this step leaves them so.
Defined == ~overcounted /\ UNCHANGED overcounted

\* magic_ref(): a receptacle of its own, not assigned.
New(h) ==
  /\ Defined
  /\ held[h] = Nobody
  /\ \E o \in Object \ heap.live :
       /\ held' = [held EXCEPT ![h] = o]
       /\ heap' = [heap EXCEPT !.live = @ \cup {o}, !.count[o] = 1]

\* A copy, of another handle or of a reference in the value of one.
Copy(h, o) ==
  /\ Defined
  /\ held[h] = Nobody
  /\ held' = [held EXCEPT ![h] = o]
  /\ heap' = increments(heap, <<o>>)

\* operator =
Assign(h, o) ==
  /\ Defined
  /\ held[h] \notin {Nobody, o}
  /\ held' = [held EXCEPT ![h] = o]
  /\ heap' = increments(decrements(heap, <<held[h]>>), <<o>>)

Destroy(h) ==
  /\ Defined
  /\ held[h] # Nobody
  /\ held' = [held EXCEPT ![h] = Nobody]
  /\ heap' = decrements(heap, <<held[h]>>)

\* o.assign(a), or o.reset() when a is empty.
Put(o, a) ==
  /\ Defined
  /\ heap' = assign(heap, o, a)
  /\ UNCHANGED held

\* collect_cycles(), whatever the garbage refers to.
Collect ==
  /\ ~overcounted
  /\ heap' = collect_cycles(heap)
  /\ overcounted' = Promise!OutsideRefs
  /\ UNCHANGED held

Next ==
  \/ \E h \in Handle : New(h) \/ Destroy(h)
  \/ \E h \in Handle, o \in Reachable : Copy(h, o)
  \/ \E h \in Handle, o \in InUse : Assign(h, o)
  \/ \E o \in Reachable, a \in SeqOf(InUse, MaxContents) : Put(o, a)
  \/ Collect

Spec == Init /\ [][Next]_vars

-----------------------------------------------------------------------------
\* Properties

\* Type invariant; roots are the buffered links, and colours other than black
\* and purple, like to_delete, are used within collect_cycles() only.
TypeOK ==
  /\ held \in [Handle -> Object \cup {Nobody}]
  /\ heap.live \subseteq Object /\ heap.toDelete = {}
  /\ overcounted \in BOOLEAN
  /\ ~overcounted =>
       /\ heap.roots = {o \in heap.live : heap.buffered[o]}
       /\ \A o \in heap.live : heap.colour[o] \in {"black", "purple"}
       /\ \A o \in Object : heap.count[o] \in Nat /\ (heap.count[o] > 0 <=> o \in heap.live)

\* Until a collection meets garbage that refers to something in use, the count of
\* a receptacle is the number of references to it, from handles and from the
\* values of live receptacles: trial deletion puts back what it took
\* (mark_grey, scan_black).
CountsAreReferences ==
  /\ TypeOK
  /\ ~overcounted =>
       \A o \in heap.live :
         heap.count[o] = Cardinality({h \in Handle : held[h] = o})
                           + MapThenSumSet(LAMBDA x : Occurrences(o, heap.oa[x]), heap.live)

\* A link that nothing but links outside of any handle's reach refer to can be
\* found from a buffered, purple one: the next collect_cycles() has its root.
GarbageHasRoot ==
  ~overcounted =>
    heap.live \ Reachable
      \subseteq Promise!Closure(heap.oa, {o \in heap.roots : heap.colour[o] = "purple"})

\* collect_cycles(), called now, frees all that no handle reaches, and nothing
\* else, unless that garbage refers to something in use.
CollectsGarbage ==
  ~overcounted /\ ~Promise!OutsideRefs =>
    LET c == collect_cycles(heap)
    IN c.live = Reachable /\ c.roots = {} /\ \A o \in Reachable : c.oa[o] = heap.oa[o]

\* Every operation does what RefGraph allows: nothing that a handle reaches is
\* freed or changed, by a count that becomes zero or by a collection, unless the
\* garbage collected refers to something in use.
KeepsPromise == Promise!Spec

\* What the comment at magic_ref.cpp:68-70 says of collect_cycles(), in its
\* mildest form: what a handle reaches is not freed.  It is: mark_grey() has
\* counted out the references of garbage already when the garbage is destroyed.
HeldAlive == Reachable \subseteq heap.live
=============================================================================
