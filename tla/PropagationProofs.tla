-------------------------- MODULE PropagationProofs --------------------------
(***************************************************************************)
(* Theorems about Propagation, for any graph, workers, values and bounds.  *)
(*                                                                         *)
(* What a transaction does is undone at its end by what it has queued or   *)
(* put off: the invariant pairs each firing with the post that clears it,  *)
(* each update with its finalize(), each value to coalesce and each mark   *)
(* of apply() with an entry.  It is inductive where cells have values:     *)
(* finalize() leaves nothing behind when it runs a second time, which two  *)
(* workers can bring about in the code, and what is read from the cell is  *)
(* then no value.  That with one worker it never does is proved at the end.*)
(***************************************************************************)
(* How the steps are handled: those of a worker change its record and one  *)
(* thing more.  Ordinary steps leave alone what the invariant sees of the  *)
(* record; each of the others is a Turn, with a lemma of its own.          *)
(***************************************************************************)
EXTENDS Propagation, FifoLemmas, FiniteSetTheorems

-----------------------------------------------------------------------------
(* Data.                                                                   *)

\* What Only() picks are elements of the sequence and of the set.
LEMMA OnlyType ==
  ASSUME NEW T, NEW s \in Seq(T), NEW S
  PROVE  Only(s, S) \in Seq(T \cap S)
<1> DEFINE Rule(f, k) == IF k = 0 THEN <<>>
                         ELSE IF s[k] \in S THEN Append(f[k - 1], s[k]) ELSE f[k - 1]
           Fits(n, f) == f = [k \in 0 .. n |-> Rule(f, k)]
           Good == {n \in Nat : \E f : Fits(n, f)}
           kept == CHOOSE f : Fits(Len(s), f)
           Typed == {k \in Nat : k <= Len(s) => kept[k] \in Seq(T \cap S)}
<1>1. Len(s) \in Nat /\ \A k \in 1 .. Len(s) : s[k] \in T
  OBVIOUS
<1>2. 0 \in Good
  <2> DEFINE f == [k \in 0 .. 0 |-> <<>>]
  <2>1. [k \in 0 .. 0 |-> Rule(f, k)] = f
    OBVIOUS
  <2>2. Fits(0, f)
    BY <2>1
  <2> QED
    BY <2>2
<1>3. ASSUME NEW n \in Nat, n \in Good
      PROVE  n + 1 \in Good
  <2>1. PICK f : Fits(n, f)
    BY <1>3
  <2>1a. \A j \in 0 .. n : f[j] = Rule(f, j)
    <3> HIDE DEF Rule
    <3> QED
      BY <2>1
  <2> DEFINE g == [k \in 0 .. n + 1 |-> IF k <= n THEN f[k] ELSE Rule(f, n + 1)]
  <2>2. ASSUME NEW k \in 0 .. n + 1
        PROVE  g[k] = Rule(g, k)
    <3>0. k \in Int /\ (k = 0 \/ k - 1 \in 0 .. n)
      OBVIOUS
    <3>1. k # 0 => g[k - 1] = f[k - 1]
      BY <3>0
    <3>2. Rule(g, k) = Rule(f, k)
      BY <3>1
    <3>3. k <= n => f[k] = Rule(f, k)
      BY <2>1a
    <3>4. k <= n \/ k = n + 1
      OBVIOUS
    <3> QED
      BY <3>2, <3>3, <3>4
  <2>3. g = [k \in 0 .. n + 1 |-> Rule(g, k)]
    BY <2>2
  <2>4. Fits(n + 1, g)
    BY <2>3
  <2> HIDE DEF Fits, g
  <2> QED
    BY <2>4
<1>4. Len(s) \in Good
  <2> HIDE DEF Good
  <2> QED
    BY <1>1, <1>2, <1>3, NatSetInduction
<1>5. Fits(Len(s), kept)
  BY <1>4
<1>6. \A k \in 0 .. Len(s) : kept[k] = Rule(kept, k)
  BY <1>5
<1>10. Only(s, S) = kept[Len(s)]
  BY DEF Only
<1> HIDE DEF kept
<1>7. 0 \in Typed
  <2>1. kept[0] = Rule(kept, 0) /\ Rule(kept, 0) = <<>>
    BY <1>1, <1>6
  <2>2. <<>> \in Seq(T \cap S)
    OBVIOUS
  <2> QED
    BY <2>1, <2>2
<1>8. ASSUME NEW n \in Nat, n \in Typed
      PROVE  n + 1 \in Typed
  <2>1. SUFFICES ASSUME n + 1 <= Len(s)
                 PROVE  kept[n + 1] \in Seq(T \cap S)
    OBVIOUS
  <2>2. kept[n] \in Seq(T \cap S) /\ s[n + 1] \in T
    BY <1>1, <1>8, <2>1
  <2>3. kept[n + 1] = Rule(kept, n + 1) /\ n + 1 # 0 /\ n + 1 - 1 = n
    BY <1>1, <1>6, <2>1
  <2>4. CASE s[n + 1] \in S
    <3>1. kept[n + 1] = Append(kept[n], s[n + 1])
      BY <2>3, <2>4
    <3> HIDE DEF kept
    <3> QED
      BY <2>2, <2>4, <3>1
  <2>5. CASE s[n + 1] \notin S
    BY <2>2, <2>3, <2>5
  <2> QED
    BY <2>4, <2>5
<1>9. Len(s) \in Typed
  <2> HIDE DEF Typed
  <2> QED
    BY <1>1, <1>7, <1>8, NatSetInduction
<1> QED
  BY <1>1, <1>9, <1>10

\* The list of a finite set has each of its elements.
LEMMA ListOfSet ==
  ASSUME NEW S, IsFiniteSet(S)
  PROVE  /\ Cardinality(S) \in Nat
         /\ SetToSeq(S) \in [1 .. Cardinality(S) -> S]
         /\ \A x \in S : \E k \in 1 .. Cardinality(S) : SetToSeq(S)[k] = x
<1> DEFINE n == Cardinality(S)
           f == SetToSeq(S)
<1>1. n \in Nat /\ ExistsBijection(1 .. n, S)
  BY FS_CardinalityType
<1>2. \E g \in [1 .. n -> S] : IsInjective(g)
  BY <1>1 DEF ExistsBijection, Bijection, Injection
<1>3. f \in [1 .. n -> S] /\ IsInjective(f)
  BY <1>2 DEF SetToSeq
<1>4. f \in Injection(1 .. n, S)
  BY <1>3 DEF Injection
<1>5. Cardinality(1 .. n) = n
  BY <1>1, FS_Interval
<1>6. f \in Surjection(1 .. n, S)
  <2> HIDE DEF f
  <2> QED
    BY <1>4, <1>5, FS_Injection
<1> QED
  BY <1>1, <1>3, <1>6 DEF Surjection

\* The first nodes of a chain are finitely many.
LEMMA SparksFinite ==
  ASSUME NEW n \in Late
  PROVE  IsFiniteSet(Sparks(n)) /\ Sparks(n) \subseteq Nodes
<1> DEFINE D == DOMAIN Chain[n]
           T == {Chain[n][k][1] : k \in D}
           f == [k \in D |-> Chain[n][k][1]]
<1>1. Chain[n] \in Seq(Nodes \X Nodes) /\ D = 1 .. Len(Chain[n]) /\ Len(Chain[n]) \in Nat
  BY GraphAssumption
<1>2. IsFiniteSet(D)
  BY <1>1, FS_Interval
<1>3. f \in Surjection(D, T)
  BY DEF Surjection
<1>4. IsFiniteSet(T)
  <2> HIDE DEF D, T, f
  <2> QED
    BY <1>2, <1>3, FS_Surjection
<1>5. Sparks(n) \in SUBSET T
  BY DEF Sparks
<1>6. IsFiniteSet(Sparks(n))
  <2> HIDE DEF T
  <2> QED
    BY <1>4, <1>5, FS_Subset
<1> QED
  BY <1>6 DEF Sparks, NodesOf

\* What is linked for a late listener are nodes.
LEMMA LinkedType ==
  ASSUME NEW n \in Late, NEW m \in Nodes
  PROVE  Linked(n, m) \in Seq(Nodes)
<1> DEFINE from == Only(Chain[n], {m} \X Nodes)
           to == [k \in DOMAIN from |-> from[k][2]]
<1>1. Chain[n] \in Seq(Nodes \X Nodes)
  BY GraphAssumption
<1>2. from \in Seq((Nodes \X Nodes) \cap ({m} \X Nodes))
  BY <1>1, OnlyType
<1> HIDE DEF from
<1>3. to \in Seq(Nodes)
  <2>1. DOMAIN from = 1 .. Len(from) /\ Len(from) \in Nat
    BY <1>2
  <2>2. \A k \in DOMAIN from : from[k][2] \in Nodes
    BY <1>2
  <2> QED
    BY <2>1, <2>2
<1> HIDE DEF to
<1>4. Reverse(to) \in Seq(Nodes)
  BY <1>3 DEF Reverse
<1> QED
  BY <1>4 DEF Linked, from, to

\* At most one of the elements of s is e.
AtMostOne(s, e) == \A i, j \in DOMAIN s : s[i] = e /\ s[j] = e => i = j

LEMMA AtMostOneAppend ==
  ASSUME NEW S, NEW s \in Seq(S), NEW x \in S, NEW e,
         AtMostOne(s, e), x # e \/ e \notin Range(s)
  PROVE  AtMostOne(Append(s, x), e)
<1>1. /\ DOMAIN Append(s, x) = 1 .. Len(s) + 1 /\ DOMAIN s = 1 .. Len(s) /\ Len(s) \in Nat
      /\ \A i \in 1 .. Len(s) : Append(s, x)[i] = s[i]
      /\ Append(s, x)[Len(s) + 1] = x
  OBVIOUS
<1> QED
  BY <1>1 DEF AtMostOne, Range

LEMMA AtMostOneTail ==
  ASSUME NEW S, NEW s \in Seq(S), s # <<>>, NEW e, AtMostOne(s, e)
  PROVE  AtMostOne(Tail(s), e) /\ (Head(s) = e => e \notin Range(Tail(s)))
<1>1. /\ DOMAIN Tail(s) = 1 .. Len(s) - 1 /\ DOMAIN s = 1 .. Len(s) /\ Len(s) \in Nat \ {0}
      /\ \A i \in 1 .. Len(s) - 1 : Tail(s)[i] = s[i + 1]
      /\ Head(s) = s[1]
  OBVIOUS
<1> QED
  BY <1>1 DEF AtMostOne, Range

LEMMA AtMostOneConcat ==
  ASSUME NEW S, NEW s \in Seq(S), NEW t \in Seq(S), NEW e,
         AtMostOne(s, e), e \notin Range(t)
  PROVE  AtMostOne(s \o t, e)
<1>1. /\ DOMAIN (s \o t) = 1 .. Len(s) + Len(t) /\ DOMAIN s = 1 .. Len(s) /\ DOMAIN t = 1 .. Len(t)
      /\ Len(s) \in Nat /\ Len(t) \in Nat
      /\ \A i \in 1 .. Len(s) : (s \o t)[i] = s[i]
      /\ \A i \in 1 .. Len(t) : (s \o t)[Len(s) + i] = t[i]
  OBVIOUS
<1>2. ASSUME NEW i \in 1 .. Len(s) + Len(t), (s \o t)[i] = e
      PROVE  i \in 1 .. Len(s) /\ s[i] = e
  <2>1. CASE i <= Len(s)
    BY <1>1, <1>2, <2>1
  <2>2. CASE i > Len(s)
    <3>1. i - Len(s) \in 1 .. Len(t) /\ Len(s) + (i - Len(s)) = i
      BY <1>1, <2>2
    <3>2. t[i - Len(s)] = e
      BY <1>1, <1>2, <3>1
    <3> QED
      BY <1>1, <3>1, <3>2 DEF Range
  <2> QED
    BY <1>1, <2>1, <2>2
<1> QED
  BY <1>1, <1>2 DEF AtMostOne

-----------------------------------------------------------------------------
(* The invariant.                                                          *)

Val == Seq(Values \cup {InitValue})
Optional == Val \cup {NoValue}

Carrying == [type : {"values"}, node : Nodes, vals : Seq(Val) \ {<<>>}]
Entry == Carrying \cup [type : {"coalesce"}, node : Merging, vals : {<<>>}]
                  \cup [type : {"apply"}, node : Applies, vals : {<<>>}]

ClearOf(n) == [type |-> "clear", node |-> n]
FinalizeOf(c) == [type |-> "finalize", node |-> c]
Post == [type : {"clear", "unlink"}, node : Nodes] \cup [type : {"finalize"}, node : Cells]

Record == [pc : WorkerPcs, entry : Entry \cup {Idle.entry}, val : Optional, first : BOOLEAN, k : Nat]

Typed ==
  /\ targets \in [Nodes -> Seq(Nodes)]
  /\ firings \in [Nodes -> Seq(Val)]
  /\ oValue \in [Merging -> Optional]
  /\ current \in [Cells -> Optional]
  /\ update \in [Cells -> Optional]
  /\ pState \in [NodesOf("collect") -> Val]
  /\ ppKill \in [NodesOf("once") -> BOOLEAN]
  /\ applied \in [Applies -> [f : Val, a : Val, fired : BOOLEAN]]
  /\ queue \in Seq(Entry)
  /\ posts \in Seq(Post)
  /\ phase \in {"rest", "body", "drain", "post"}
  /\ worker \in [Workers -> Record]
  /\ txns \in 0 .. MaxTxns
  /\ sends \in Seq(Sinks \X Values) /\ Len(sends) <= MaxSends

\* What a worker does fits its entry, and what it is to send is a value.
Stage(r) ==
  /\ r.pc # "idle" => r.entry \in Entry
  /\ r.pc \in {"handle", "announce", "holdWrite", "holdPost", "collectWrite", "killTest",
               "kill", "applyTest", "applyPush"} => r.entry.type = "values"
  /\ r.pc = "announce" => r.entry.node \in Merging
  /\ r.pc \in {"holdWrite", "holdPost"} => r.entry.node \in Cells
  /\ r.pc = "collectWrite" => r.entry.node \in NodesOf("collect")
  /\ r.pc \in {"killTest", "kill"} => r.entry.node \in NodesOf("once")
  /\ r.pc \in {"applyTest", "applyPush"} => r.entry.node \in Parts
  /\ r.pc \in {"combined", "reset"} => r.entry.type = "coalesce"
  /\ r.pc \in {"apply", "applyTo", "unfire"} => r.entry.type = "apply"
  /\ r.pc \in {"collectWrite", "applyTo", "send", "clear", "fire", "ship"} => r.val \in Val
  /\ r.pc = "ship" => r.k > 0

Staged == \A w \in Workers : Stage(worker[w])

\* Workers work, and entries are queued, only while the transaction drains; the
\* posts are done when it is at rest.
Calm ==
  /\ phase # "drain" => \A w \in Workers : At(w, "idle")
  /\ phase = "body" => \A i \in DOMAIN queue : queue[i].type = "values"
  /\ phase \in {"rest", "post"} => queue = <<>>
  /\ phase = "rest" => posts = <<>>

\* A coalesce_entry of n is in the making, or is processed.
Marks(r) == IF r.pc = "announce" \/ (r.entry.type = "coalesce" /\ r.pc # "idle")
            THEN {r.entry.node} ELSE {}
Pending(n) == Coalesced(n) \in Range(queue) \/ \E w \in Workers : n \in Marks(worker[w])

\* There is one coalesce_entry for a node, from the first value to its reset, and
\* then oValue has a value; and there is none when oValue is empty.
CombiningAt(n) ==
  /\ Pending(n) <=> oValue[n] # NoValue
  /\ AtMostOne(queue, Coalesced(n))
  /\ \A w \in Workers : n \in Marks(worker[w]) =>
       /\ Coalesced(n) \notin Range(queue)
       /\ \A x \in Workers : n \in Marks(worker[x]) => x = w
Combining == \A n \in Merging : CombiningAt(n)

\* What has fired will be cleared.
Clearing ==
  /\ \A n \in Nodes : firings[n] # <<>> => ClearOf(n) \in Range(posts)
  /\ \A w \in Workers : At(w, "fire") => ClearOf(NodeOf(w)) \in Range(posts)

\* What is updated will be finalized, and what is marked fired has an apply_entry.
Updating ==
  /\ \A c \in Cells : update[c] # NoValue =>
       \/ FinalizeOf(c) \in Range(posts)
       \/ \E w \in Workers : At(w, "holdPost") /\ NodeOf(w) = c
  /\ \A w \in Workers : At(w, "holdWrite") /\ ~worker[w].first => update[NodeOf(w)] # NoValue
Applying ==
  \A n \in Applies : applied[n].fired =>
    \/ Applied(n) \in Range(queue)
    \/ \E w \in Workers : worker[w].entry = Applied(n) /\ ~At(w, "idle")

Inv == Typed /\ Staged /\ Calm /\ Combining /\ Clearing /\ Updating /\ Applying

-----------------------------------------------------------------------------
(* What a worker holds.                                                    *)

LEMMA EntryFacts ==
  ASSUME NEW e \in Entry
  PROVE  /\ e.type \in {"values", "coalesce", "apply"} /\ e.node \in Nodes
         /\ e.type = "coalesce" => e.node \in Merging /\ e = Coalesced(e.node)
         /\ e.type = "apply" => e.node \in Applies /\ e = Applied(e.node)
         /\ e.type = "values" => /\ e.vals \in Seq(Val) /\ e.vals # <<>> /\ Head(e.vals) \in Val
                                 /\ e = [type |-> "values", node |-> e.node, vals |-> e.vals]
<1>1. Merging \subseteq Nodes /\ Applies \subseteq Nodes
  BY DEF Merging, Applies, NodesOf
<1>2. CASE e \in Carrying
  BY <1>2 DEF Carrying
<1>3. CASE e \in [type : {"coalesce"}, node : Merging, vals : {<<>>}]
  BY <1>1, <1>3 DEF Coalesced
<1>4. CASE e \in [type : {"apply"}, node : Applies, vals : {<<>>}]
  BY <1>1, <1>4 DEF Applied
<1> QED
  BY <1>2, <1>3, <1>4 DEF Entry

LEMMA MadeEntries ==
  /\ \A n \in Merging : Coalesced(n) \in Entry
  /\ \A n \in Applies : Applied(n) \in Entry
  /\ \A n \in Nodes, v \in Val : Carry(n, <<v>>) \in Entry
  /\ \A n \in Nodes, vs \in Seq(Val) \ {<<>>} : Carry(n, vs) \in Entry
<1>1. \A v \in Val : <<v>> \in Seq(Val) \ {<<>>}
  OBVIOUS
<1> QED
  BY <1>1 DEF Entry, Carrying, Carry, Coalesced, Applied

LEMMA IdleFacts ==
  Idle \in Record /\ Stage(Idle) /\ Marks(Idle) = {} /\ Idle.pc = "idle"
BY DEF Idle, Record, Stage, Marks, WorkerPcs, Optional, Coalesced

\* A worker that begins an entry.
LEMMA BeginFacts ==
  ASSUME NEW e \in Entry
  PROVE  /\ Begin(e) \in Record /\ Stage(Begin(e)) /\ Begin(e).entry = e
         /\ Begin(e).pc \in {"handle", "combined", "apply"}
         /\ Begin(e).pc = "combined" <=> e.type = "coalesce"
         /\ Marks(Begin(e)) = IF e.type = "coalesce" THEN {e.node} ELSE {}
<1>1. e.type \in {"values", "coalesce", "apply"}
  BY EntryFacts
<1>2. FirstPc["values"] = "handle" /\ FirstPc["coalesce"] = "combined" /\ FirstPc["apply"] = "apply"
  BY DEF FirstPc
<1>3. /\ Begin(e).pc = FirstPc[e.type] /\ Begin(e).entry = e
      /\ Begin(e) \in Record
  BY <1>1, <1>2 DEF Begin, Record, WorkerPcs, Optional
<1>4. Stage(Begin(e)) /\ Marks(Begin(e)) = IF e.type = "coalesce" THEN {e.node} ELSE {}
  BY <1>1, <1>2, <1>3 DEF Stage, Marks
<1> QED
  BY <1>1, <1>2, <1>3, <1>4

\* The handler has returned.
LEMMA ReturnedFacts ==
  ASSUME NEW r \in Record, r.entry \in Entry
  PROVE  LET q == Returned(r)
         IN  /\ q \in Record /\ Stage(q)
             /\ q.pc \in {"idle", "handle", "reset", "unfire"}
             /\ Marks(q) = IF r.entry.type = "coalesce" THEN {r.entry.node} ELSE {}
             /\ r.entry.type # "values" => q.entry = r.entry /\ q.pc # "idle"
             /\ r.entry.type = "coalesce" => q.pc = "reset"
<1>1. CASE r.entry.type = "coalesce"
  <2>1. Returned(r) = [r EXCEPT !.pc = "reset"]
    BY <1>1 DEF Returned
  <2> QED
    BY <1>1, <2>1 DEF Record, WorkerPcs, Stage, Marks
<1>2. CASE r.entry.type = "apply"
  <2>1. Returned(r) = [r EXCEPT !.pc = "unfire"]
    BY <1>2 DEF Returned
  <2> QED
    BY <1>2, <2>1 DEF Record, WorkerPcs, Stage, Marks
<1>3. CASE r.entry.type = "values" /\ Len(r.entry.vals) = 1
  <2>1. Returned(r) = Idle
    BY <1>3 DEF Returned
  <2> QED
    BY <1>3, <2>1, IdleFacts
<1>4. CASE r.entry.type = "values" /\ Len(r.entry.vals) # 1
  <2> DEFINE f == [type |-> "values", node |-> r.entry.node, vals |-> Tail(r.entry.vals)]
             q == [r EXCEPT !.pc = "handle", !.entry = f]
  <2>1. r.entry.vals \in Seq(Val) /\ r.entry.vals # <<>> /\ r.entry.node \in Nodes
        /\ r.entry = [type |-> "values", node |-> r.entry.node, vals |-> r.entry.vals]
    BY <1>4, EntryFacts
  <2>2. Tail(r.entry.vals) \in Seq(Val) /\ Tail(r.entry.vals) # <<>>
    <3> DEFINE vs == r.entry.vals
    <3>1. vs \in Seq(Val) /\ vs # <<>> /\ Len(vs) # 1
      BY <1>4, <2>1
    <3> HIDE DEF vs
    <3>2. Tail(vs) \in Seq(Val) /\ Len(Tail(vs)) = Len(vs) - 1 /\ Len(vs) - 1 # 0
      BY <3>1
    <3>3. Tail(vs) # <<>>
      BY <3>2
    <3> QED
      BY <3>2, <3>3 DEF vs
  <2>3. f \in Carrying /\ f \in Entry
    BY <2>1, <2>2 DEF Carrying, Entry
  <2>4. Returned(r) = q
    <3>1. Returned(r) = [r EXCEPT !.pc = "handle", !.entry = f]
      BY <1>4 DEF Returned, Carry
    <3> QED
      BY <3>1
  <2>5. q \in Record /\ q.pc = "handle" /\ q.entry = f
    <3> DEFINE h == [r EXCEPT !.pc = "handle"]
    <3>1. h \in Record /\ h.pc = "handle"
      BY DEF Record, WorkerPcs
    <3>2. q = [h EXCEPT !.entry = f]
      <4> HIDE DEF f
      <4> QED
        OBVIOUS
    <3> HIDE DEF h, f, q
    <3>3. [h EXCEPT !.entry = f] \in Record /\ [h EXCEPT !.entry = f].pc = "handle"
          /\ [h EXCEPT !.entry = f].entry = f
      BY <2>3, <3>1 DEF Record
    <3> QED
      BY <3>2, <3>3
  <2> HIDE DEF q
  <2>6. Stage(q) /\ Marks(q) = {}
    BY <2>3, <2>5 DEF Stage, Marks
  <2> QED
    BY <1>4, <2>4, <2>5, <2>6
<1> QED
  BY <1>1, <1>2, <1>3, <1>4, EntryFacts

\* What the steps do to the record of a worker.
LEMMA Movers ==
  ASSUME Typed, NEW w \in Workers
  PROVE  /\ worker[w] \in Record
         /\ Done(w) = [worker EXCEPT ![w] = Returned(worker[w])]
         /\ \A pc : Goto(w, pc) = [worker EXCEPT ![w] = [worker[w] EXCEPT !.pc = pc]]
         /\ \A v : GoSend(w, v)
                     = [worker EXCEPT ![w] = [worker[w] EXCEPT !.pc = "send", !.val = v]]
<1>1. worker \in [Workers -> Record]
  BY DEF Typed
<1>2. Done(w) = [worker EXCEPT ![w] = Returned(worker[w])]
  BY <1>1 DEF Done
<1> QED
  BY <1>1, <1>2 DEF Goto, GoSend

\* A record at a new place; with a new value; with the answer to a test; at
\* another target.
PcRec(r, pc) == [r EXCEPT !.pc = pc]
ValRec(r, pc, v) == [r EXCEPT !.pc = pc, !.val = v]
FirstRec(r, b) == [r EXCEPT !.pc = "holdWrite", !.first = b]
ShipRec(r) == [r EXCEPT !.pc = "ship", !.k = 1]
NextRec(r) == [r EXCEPT !.k = @ + 1]

LEMMA PcRecFacts ==
  ASSUME NEW r \in Record, NEW pc \in WorkerPcs
  PROVE  /\ PcRec(r, pc) \in Record /\ PcRec(r, pc).pc = pc
         /\ PcRec(r, pc).entry = r.entry /\ PcRec(r, pc).val = r.val
         /\ PcRec(r, pc).first = r.first
BY DEF PcRec, Record

LEMMA ValRecFacts ==
  ASSUME NEW r \in Record, NEW pc \in WorkerPcs, NEW v \in Val
  PROVE  /\ ValRec(r, pc, v) \in Record /\ ValRec(r, pc, v).pc = pc
         /\ ValRec(r, pc, v).entry = r.entry /\ ValRec(r, pc, v).val = v
BY DEF ValRec, Record, Optional

LEMMA RecFacts ==
  ASSUME NEW r \in Record
  PROVE  /\ \A b \in BOOLEAN :
              /\ FirstRec(r, b) \in Record /\ FirstRec(r, b).pc = "holdWrite"
              /\ FirstRec(r, b).entry = r.entry /\ FirstRec(r, b).first = b
         /\ /\ ShipRec(r) \in Record /\ ShipRec(r).pc = "ship"
            /\ ShipRec(r).entry = r.entry /\ ShipRec(r).val = r.val /\ ShipRec(r).k = 1
         /\ /\ NextRec(r) \in Record /\ NextRec(r).pc = r.pc
            /\ NextRec(r).entry = r.entry /\ NextRec(r).val = r.val /\ NextRec(r).k = r.k + 1
<1>1. ASSUME NEW b \in BOOLEAN
      PROVE  /\ FirstRec(r, b) \in Record /\ FirstRec(r, b).pc = "holdWrite"
             /\ FirstRec(r, b).entry = r.entry /\ FirstRec(r, b).first = b
  BY DEF FirstRec, Record, WorkerPcs
<1>2. /\ ShipRec(r) \in Record /\ ShipRec(r).pc = "ship"
      /\ ShipRec(r).entry = r.entry /\ ShipRec(r).val = r.val /\ ShipRec(r).k = 1
  BY DEF ShipRec, Record, WorkerPcs
<1>3. /\ NextRec(r) \in Record /\ NextRec(r).pc = r.pc
      /\ NextRec(r).entry = r.entry /\ NextRec(r).val = r.val /\ NextRec(r).k = r.k + 1
  BY DEF NextRec, Record
<1> QED
  BY <1>1, <1>2, <1>3

\* The argument of a handler.
LEMMA ArgFacts ==
  ASSUME Typed, Staged, NEW w \in Workers, ~At(w, "idle")
  PROVE  /\ worker[w].entry \in Entry /\ NodeOf(w) = worker[w].entry.node /\ NodeOf(w) \in Nodes
         /\ worker[w].entry.type = "values" => Arg(w) \in Val
<1>1. worker[w] \in Record /\ Stage(worker[w])
  BY Movers DEF Staged
<1>2. worker[w].entry \in Entry
  BY <1>1 DEF Stage, At
<1> QED
  BY <1>2, EntryFacts DEF NodeOf, Arg

Becomes(w, r) == r \in Record /\ Stage(r) /\ worker' = [worker EXCEPT ![w] = r]

\* Steps that are no turn for any part of the invariant.
Ordinary(w) ==
  \/ Forward(w) \/ Filter(w) \/ Snapshot(w) \/ Hear(w) \/ CoalesceMore(w) \/ SendCombined(w)
  \/ HoldPost(w) \/ CollectRead(w) \/ CollectWrite(w) \/ OnceTest(w) \/ KillTest(w) \/ Kill(w)
  \/ ApplySet(w) \/ ApplyTest(w) \/ ApplyPush(w) \/ ApplyRead(w) \/ ApplyTo(w)
  \/ Fire(w) \/ Ship(w) \/ Shipped(w)

\* The record r is, for the invariant, as the record o was.
Alike(r, o) ==
  /\ Marks(r) = Marks(o)
  /\ r.pc \notin {"fire", "holdWrite", "holdPost"}
  /\ o.entry.type = "apply" => r.entry = o.entry /\ r.pc # "idle"

\* Returning is an ordinary step, where no coalesce_entry is in the making; so is
\* going on with the same entry.
LEMMA ReturnAlike ==
  ASSUME Typed, Staged, NEW w \in Workers, ~At(w, "idle"), ~At(w, "announce")
  PROVE  LET o == worker[w] IN
         Returned(o) \in Record /\ Stage(Returned(o)) /\ Alike(Returned(o), o)
<1>1. worker[w] \in Record /\ worker[w].entry \in Entry
  BY ArgFacts, Movers
<1> QED
  BY <1>1, ReturnedFacts, EntryFacts DEF Alike, Marks, At

LEMMA OnwardAlike ==
  ASSUME Typed, Staged, NEW w \in Workers, ~At(w, "idle"), ~At(w, "announce"),
         NEW r \in Record, r.entry = worker[w].entry,
         r.pc \notin {"idle", "announce", "fire", "holdWrite", "holdPost"}
  PROVE  Alike(r, worker[w])
BY DEF Alike, Marks, At

\* A worker that goes on to send a value.
LEMMA SendOn ==
  ASSUME Typed, Staged, NEW w \in Workers, ~At(w, "idle"), ~At(w, "announce"),
         NEW v \in Val, worker' = GoSend(w, v)
  PROVE  \E r : Becomes(w, r) /\ Alike(r, worker[w])
<1> DEFINE r == ValRec(worker[w], "send", v)
<1>1. worker[w] \in Record /\ worker[w].entry \in Entry /\ "send" \in WorkerPcs
  BY ArgFacts, Movers DEF WorkerPcs
<1>2. r \in Record /\ r.pc = "send" /\ r.entry = worker[w].entry /\ r.val = v
  BY <1>1, ValRecFacts
<1>3. worker' = [worker EXCEPT ![w] = r]
  BY Movers DEF ValRec
<1> HIDE DEF r
<1>4. Stage(r)
  BY <1>1, <1>2 DEF Stage
<1>5. Alike(r, worker[w])
  BY <1>2, OnwardAlike
<1> QED
  BY <1>2, <1>3, <1>4, <1>5 DEF Becomes

\* A worker whose handler returns.
LEMMA Return ==
  ASSUME Typed, Staged, NEW w \in Workers, ~At(w, "idle"), ~At(w, "announce"),
         worker' = Done(w)
  PROVE  \E r : Becomes(w, r) /\ Alike(r, worker[w])
BY ReturnAlike, Movers DEF Becomes

\* A worker that goes on at another place.
LEMMA GoOn ==
  ASSUME Typed, Staged, NEW w \in Workers, ~At(w, "idle"), ~At(w, "announce"),
         NEW pc \in WorkerPcs \ {"idle", "announce", "fire", "holdWrite", "holdPost"},
         Stage(PcRec(worker[w], pc)), worker' = Goto(w, pc)
  PROVE  \E r : Becomes(w, r) /\ Alike(r, worker[w])
<1> DEFINE r == PcRec(worker[w], pc)
<1>1. worker[w] \in Record
  BY Movers
<1>2. r \in Record /\ r.pc = pc /\ r.entry = worker[w].entry
  BY <1>1, PcRecFacts
<1>3. worker' = [worker EXCEPT ![w] = r]
  BY Movers DEF PcRec
<1> HIDE DEF r
<1>5. Alike(r, worker[w])
  BY <1>2, OnwardAlike
<1>6. Stage(r)
  BY DEF r
<1> QED
  BY <1>2, <1>3, <1>5, <1>6 DEF Becomes

\* A value and another.
LEMMA ConcatVal ==
  ASSUME NEW u \in Val, NEW v \in Val
  PROVE  u \o v \in Val
BY DEF Val

\* The kinds of nodes.
LEMMA KindFacts ==
  ASSUME NEW n \in Nodes
  PROVE  /\ Kind[n] = "snapshot" => CellOf[n] \in Cells
         /\ Kind[n] \in {"coalesce", "last"} <=> n \in Merging
         /\ Kind[n] = "hold" <=> n \in Cells
         /\ \A k : Kind[n] = k <=> n \in NodesOf(k)
         /\ n \in Parts => ApplyOf[n] \in Applies
         /\ n \in Applies <=> Kind[n] = "apply"
BY GraphAssumption DEF NodesOf, Merging, Cells, Parts, Applies

\* The record of a worker after an ordinary step.
LEMMA OrdinaryStep ==
  ASSUME Typed, Staged, Combining, CellsHaveValue, NEW w \in Workers, Ordinary(w)
  PROVE  \E r : Becomes(w, r) /\ Alike(r, worker[w])
<1> DEFINE o == worker[w]
           n == NodeOf(w)
           Goal == \E r : Becomes(w, r) /\ Alike(r, worker[w])
<1>1. ~At(w, "idle") /\ ~At(w, "announce")
  BY DEF Ordinary, Forward, Filter, Snapshot, Hear, CoalesceMore, SendCombined, HoldPost,
         CollectRead, CollectWrite, OnceTest, KillTest, Kill, ApplySet, ApplyTest, ApplyPush,
         ApplyRead, ApplyTo, Fire, Ship, Shipped, At
<1>2. /\ o \in Record /\ Stage(o) /\ o.entry \in Entry /\ n = o.entry.node /\ n \in Nodes
      /\ o.entry.type = "values" => Arg(w) \in Val
  BY <1>1, ArgFacts, Movers DEF Staged
<1>3. At(w, "handle") => Arg(w) \in Val
  BY <1>2 DEF Stage, At
<1>4. ASSUME NEW v \in Val, worker' = GoSend(w, v) PROVE Goal
  BY <1>1, <1>4, SendOn
<1>5. ASSUME worker' = Done(w) PROVE Goal
  BY <1>1, <1>5, Return
<1>6. CASE Forward(w)
  BY <1>3, <1>4, <1>6 DEF Forward
<1>7. CASE Filter(w)
  BY <1>3, <1>4, <1>5, <1>7 DEF Filter
<1>8. CASE Snapshot(w)
  <2>1. CellOf[n] \in Cells
    BY <1>2, <1>8, KindFacts DEF Snapshot
  <2>2. current[CellOf[n]] \in Val
    BY <2>1 DEF Typed, Optional, CellsHaveValue
  <2> QED
    BY <1>3, <1>4, <1>8, <2>2, ConcatVal DEF Snapshot
<1>9. CASE Hear(w)
  BY <1>5, <1>9 DEF Hear
<1>10. CASE CoalesceMore(w)
  BY <1>5, <1>10 DEF CoalesceMore
<1>11. CASE SendCombined(w)
  <2>1. o.entry.type = "coalesce" /\ o.pc # "idle"
    BY <1>2, <1>11 DEF SendCombined, At, Stage
  <2>2. n \in Merging /\ n \in Marks(o)
    BY <1>2, <2>1, EntryFacts DEF Marks
  <2>3. oValue[n] \in Val
    BY <2>2 DEF Combining, CombiningAt, Pending, Typed, Optional
  <2> QED
    BY <1>4, <1>11, <2>3 DEF SendCombined
<1>12. CASE HoldPost(w)
  <2>1. Arg(w) \in Val
    BY <1>2, <1>12 DEF HoldPost, At, Stage
  <2> QED
    BY <1>4, <1>12, <2>1 DEF HoldPost
<1>13. CASE CollectRead(w)
  <2> DEFINE v == pState[n] \o Arg(w)
             r == ValRec(o, "collectWrite", v)
  <2>1. n \in NodesOf("collect") /\ At(w, "handle")
    BY <1>2, <1>13, KindFacts DEF CollectRead
  <2>2. v \in Val
    BY <1>3, <2>1, ConcatVal DEF Typed
  <2> HIDE DEF v
  <2>3. r \in Record /\ r.pc = "collectWrite" /\ r.entry = o.entry /\ r.val = v
    <3>1. "collectWrite" \in WorkerPcs
      BY DEF WorkerPcs
    <3> QED
      BY <1>2, <2>2, <3>1, ValRecFacts
  <2>4. worker' = [worker EXCEPT ![w] = r]
    BY <1>13 DEF CollectRead, ValRec, v
  <2> HIDE DEF r
  <2>5. o.entry.type = "values"
    BY <1>2, <2>1 DEF Stage, At
  <2>6. Stage(r)
    BY <1>2, <2>1, <2>2, <2>3, <2>5 DEF Stage
  <2>7. Alike(r, o)
    BY <1>1, <2>3, OnwardAlike
  <2> QED
    BY <2>3, <2>4, <2>6, <2>7 DEF Becomes
<1>14. CASE CollectWrite(w)
  <2>1. o.val \in Val
    BY <1>2, <1>14 DEF CollectWrite, At, Stage
  <2>2. Stage(PcRec(o, "send"))
    BY <1>2, <2>1, PcRecFacts DEF Stage, WorkerPcs
  <2> QED
    BY <1>1, <1>14, <2>2, GoOn DEF CollectWrite, WorkerPcs
<1>15. CASE OnceTest(w)
  BY <1>3, <1>4, <1>5, <1>15 DEF OnceTest
<1>16. CASE KillTest(w)
  <2>1. Stage(PcRec(o, "kill"))
    BY <1>2, <1>16, PcRecFacts DEF Stage, WorkerPcs, KillTest, At
  <2> QED
    BY <1>1, <1>5, <1>16, <2>1, GoOn DEF KillTest, WorkerPcs
<1>17. CASE Kill(w)
  BY <1>5, <1>17 DEF Kill
<1>18. CASE ApplySet(w)
  <2>1. Stage(PcRec(o, "applyTest"))
    <3>1. "applyTest" \in WorkerPcs
      BY DEF WorkerPcs
    <3>2. o.pc = "handle" /\ NodeOf(w) \in Parts
      BY <1>18 DEF ApplySet, At
    <3> QED
      BY <1>2, <3>1, <3>2, PcRecFacts DEF Stage
  <2> QED
    BY <1>1, <1>18, <2>1, GoOn DEF ApplySet, WorkerPcs
<1>19. CASE ApplyTest(w)
  <2>1. Stage(PcRec(o, "applyPush"))
    BY <1>2, <1>19, PcRecFacts DEF Stage, WorkerPcs, ApplyTest, At
  <2> QED
    BY <1>1, <1>5, <1>19, <2>1, GoOn DEF ApplyTest, WorkerPcs
<1>20. CASE ApplyPush(w)
  BY <1>5, <1>20 DEF ApplyPush
<1>21. CASE ApplyRead(w)
  <2> DEFINE v == applied[n].f
             r == ValRec(o, "applyTo", v)
  <2>1. o.entry.type = "apply"
    BY <1>2, <1>21 DEF ApplyRead, At, Stage
  <2>2. v \in Val
    BY <1>2, <2>1, EntryFacts DEF Typed
  <2> HIDE DEF v
  <2>3. r \in Record /\ r.pc = "applyTo" /\ r.entry = o.entry /\ r.val = v
    <3>1. "applyTo" \in WorkerPcs
      BY DEF WorkerPcs
    <3> QED
      BY <1>2, <2>2, <3>1, ValRecFacts
  <2>4. worker' = [worker EXCEPT ![w] = r]
    BY <1>21 DEF ApplyRead, ValRec, v
  <2> HIDE DEF r
  <2>6. Stage(r)
    BY <1>2, <2>1, <2>2, <2>3 DEF Stage
  <2>7. Alike(r, o)
    BY <1>1, <2>3, OnwardAlike
  <2> QED
    BY <2>3, <2>4, <2>6, <2>7 DEF Becomes
<1>22. CASE ApplyTo(w)
  <2>1. o.entry.type = "apply" /\ o.val \in Val
    BY <1>2, <1>22 DEF ApplyTo, At, Stage
  <2>2. applied[n].a \in Val
    BY <1>2, <2>1, EntryFacts DEF Typed
  <2> QED
    BY <1>4, <1>22, <2>1, <2>2, ConcatVal DEF ApplyTo
<1>23. CASE Fire(w)
  <2> DEFINE r == ShipRec(o)
  <2>1. r \in Record /\ r.pc = "ship" /\ r.entry = o.entry /\ r.val = o.val /\ r.k = 1
    BY <1>2, RecFacts
  <2>2. worker' = [worker EXCEPT ![w] = r]
    BY <1>23 DEF Fire, ShipRec
  <2>3. o.val \in Val
    BY <1>2, <1>23 DEF Fire, At, Stage
  <2> HIDE DEF r
  <2>4. Stage(r)
    BY <1>2, <2>1, <2>3 DEF Stage
  <2>5. Alike(r, o)
    BY <1>1, <2>1, OnwardAlike
  <2> QED
    BY <2>1, <2>2, <2>4, <2>5 DEF Becomes
<1>24. CASE Ship(w)
  <2> DEFINE r == NextRec(o)
  <2>1. r \in Record /\ r.pc = "ship" /\ r.entry = o.entry /\ r.val = o.val /\ r.k = o.k + 1
        /\ o.k \in Nat
    BY <1>2, <1>24, RecFacts DEF Ship, At, Record
  <2>2. worker' = [worker EXCEPT ![w] = r]
    BY <1>24 DEF Ship, NextRec, Typed
  <2>3. o.val \in Val
    BY <1>2, <1>24 DEF Ship, At, Stage
  <2> HIDE DEF r
  <2>4. Stage(r)
    BY <1>2, <2>1, <2>3 DEF Stage
  <2>5. Alike(r, o)
    BY <1>1, <2>1, OnwardAlike
  <2> QED
    BY <2>1, <2>2, <2>4, <2>5 DEF Becomes
<1>25. CASE Shipped(w)
  <2>1. ASSUME Kind[n] = "once"
        PROVE  Stage(PcRec(o, "killTest"))
    <3>1. n \in NodesOf("once") /\ n \notin Merging /\ n \notin Applies
      BY <1>2, <2>1, KindFacts
    <3>2. o.entry.type = "values"
      BY <1>2, <3>1, EntryFacts
    <3> QED
      BY <1>2, <3>1, <3>2, PcRecFacts DEF Stage, WorkerPcs
  <2> QED
    BY <1>1, <1>5, <1>25, <2>1, GoOn DEF Shipped, WorkerPcs
<1> QED
  BY <1>6, <1>7, <1>8, <1>9, <1>10, <1>11, <1>12, <1>13, <1>14, <1>15, <1>16, <1>17, <1>18,
     <1>19, <1>20, <1>21, <1>22, <1>23, <1>24, <1>25 DEF Ordinary

\* The other steps of a worker: each is a turn for some part of the invariant.
Turn(w) ==
  \/ Take(w) \/ CoalesceFirst(w) \/ Announce(w) \/ Reset(w) \/ Unfire(w)
  \/ HoldTest(w) \/ HoldWrite(w) \/ SendTest(w) \/ SendClear(w)

LEMMA Sorted ==
  ASSUME NEW w \in Workers, Worker(w)
  PROVE  Ordinary(w) \/ Turn(w)
BY DEF Worker, Handle, Sending, Ordinary, Turn

LEMMA TakeTurn ==
  ASSUME Typed, NEW w \in Workers, Take(w)
  PROVE  Head(queue) \in Entry /\ Becomes(w, Begin(Head(queue)))
<1>1. queue \in Seq(Entry) /\ queue # <<>>
  BY DEF Typed, Take
<1>2. Head(queue) \in Entry
  BY <1>1
<1> QED
  BY <1>2, BeginFacts DEF Becomes, Take

LEMMA CoalesceFirstTurn ==
  ASSUME Typed, Staged, NEW w \in Workers, CoalesceFirst(w)
  PROVE  /\ worker[w].entry.type = "values" /\ NodeOf(w) \in Merging /\ Arg(w) \in Val
         /\ \E r : Becomes(w, r) /\ r.pc = "announce" /\ r.entry = worker[w].entry
<1> DEFINE o == worker[w]
           r == PcRec(o, "announce")
<1>1. o.pc = "handle" /\ o \in Record /\ Stage(o)
  BY Movers DEF CoalesceFirst, At, Staged
<1>2. /\ o.entry \in Entry /\ NodeOf(w) = o.entry.node /\ NodeOf(w) \in Nodes
      /\ o.entry.type = "values" /\ Arg(w) \in Val
  BY <1>1, ArgFacts DEF At, Stage
<1>3. NodeOf(w) \in Merging
  BY <1>2, KindFacts DEF CoalesceFirst
<1>4. "announce" \in WorkerPcs
  BY DEF WorkerPcs
<1>5. r \in Record /\ r.pc = "announce" /\ r.entry = o.entry
  BY <1>1, <1>4, PcRecFacts
<1>6. worker' = [worker EXCEPT ![w] = r]
  BY Movers DEF CoalesceFirst, PcRec
<1> HIDE DEF r
<1>7. Stage(r)
  BY <1>2, <1>3, <1>5 DEF Stage
<1> QED
  BY <1>2, <1>3, <1>5, <1>6, <1>7 DEF Becomes

LEMMA AnnounceTurn ==
  ASSUME Typed, Staged, NEW w \in Workers, Announce(w)
  PROVE  /\ worker[w].pc = "announce" /\ worker[w].entry.type = "values" /\ NodeOf(w) \in Merging
         /\ \E r : /\ Becomes(w, r) /\ Marks(r) = {}
                   /\ r.pc \notin {"fire", "holdWrite", "holdPost"}
<1> DEFINE o == worker[w]
<1>1. o.pc = "announce" /\ o \in Record /\ Stage(o)
  BY Movers DEF Announce, At, Staged
<1>2. o.entry \in Entry /\ o.entry.type = "values" /\ NodeOf(w) \in Merging
  BY <1>1 DEF Stage, NodeOf
<1>3. Becomes(w, Returned(o)) /\ Marks(Returned(o)) = {}
      /\ Returned(o).pc \notin {"fire", "holdWrite", "holdPost"}
  BY <1>1, <1>2, ReturnedFacts, Movers DEF Becomes, Announce
<1> QED
  BY <1>1, <1>2, <1>3

LEMMA IdleTurn ==
  ASSUME Typed, Staged, NEW w \in Workers, Reset(w) \/ Unfire(w)
  PROVE  /\ Becomes(w, Idle)
         /\ Reset(w) => worker[w].entry.type = "coalesce" /\ NodeOf(w) \in Merging
                        /\ worker[w].pc # "idle"
         /\ Unfire(w) => worker[w].entry.type = "apply" /\ NodeOf(w) \in Applies
                         /\ worker[w].pc # "idle"
<1>1. Becomes(w, Idle)
  BY IdleFacts DEF Becomes, Reset, Unfire
<1>2. ~At(w, "idle") /\ Stage(worker[w])
  BY DEF Reset, Unfire, At, Staged
<1>3. worker[w].entry \in Entry /\ NodeOf(w) = worker[w].entry.node
  BY <1>2, ArgFacts
<1> QED
  BY <1>1, <1>2, <1>3, EntryFacts DEF Stage, Reset, Unfire, At

LEMMA HoldTestTurn ==
  ASSUME Typed, Staged, NEW w \in Workers, HoldTest(w)
  PROVE  /\ worker[w].entry.type = "values" /\ NodeOf(w) \in Cells /\ worker[w].pc = "handle"
         /\ \E r : /\ Becomes(w, r) /\ r.pc = "holdWrite" /\ r.entry = worker[w].entry
                   /\ r.first <=> update[NodeOf(w)] = NoValue
<1> DEFINE o == worker[w]
           b == update[NodeOf(w)] = NoValue
           r == FirstRec(o, b)
<1>1. o.pc = "handle" /\ o \in Record /\ Stage(o)
  BY Movers DEF HoldTest, At, Staged
<1>2. /\ o.entry \in Entry /\ NodeOf(w) = o.entry.node /\ NodeOf(w) \in Nodes
      /\ o.entry.type = "values"
  BY <1>1, ArgFacts DEF At, Stage
<1>3. NodeOf(w) \in Cells
  BY <1>2, KindFacts DEF HoldTest
<1>4. worker' = [worker EXCEPT ![w] = r]
  BY DEF HoldTest, FirstRec
<1>5. b \in BOOLEAN
  OBVIOUS
<1> HIDE DEF b
<1>6. r \in Record /\ r.pc = "holdWrite" /\ r.entry = o.entry /\ r.first = b
  BY <1>1, <1>5, RecFacts
<1> HIDE DEF r
<1>7. Stage(r)
  BY <1>2, <1>3, <1>6 DEF Stage
<1>8. Becomes(w, r)
  BY <1>4, <1>6, <1>7 DEF Becomes
<1> QED
  BY <1>1, <1>2, <1>3, <1>6, <1>8 DEF b

LEMMA HoldWriteTurn ==
  ASSUME Typed, Staged, NEW w \in Workers, HoldWrite(w)
  PROVE  /\ worker[w].entry.type = "values" /\ NodeOf(w) \in Cells /\ Arg(w) \in Val
         /\ worker[w].pc = "holdWrite"
         /\ \E r : /\ Becomes(w, r) /\ r.entry = worker[w].entry
                   /\ r.pc = IF worker[w].first THEN "holdPost" ELSE "send"
<1> DEFINE o == worker[w]
<1>1. o.pc = "holdWrite" /\ o \in Record /\ Stage(o) /\ o.first \in BOOLEAN
  BY Movers DEF HoldWrite, At, Staged, Record
<1>2. /\ o.entry \in Entry /\ NodeOf(w) = o.entry.node /\ NodeOf(w) \in Cells
      /\ o.entry.type = "values" /\ Arg(w) \in Val
  BY <1>1, ArgFacts DEF At, Stage
<1>3. CASE o.first
  <2> DEFINE r == PcRec(o, "holdPost")
  <2>1. "holdPost" \in WorkerPcs
    BY DEF WorkerPcs
  <2>2. r \in Record /\ r.pc = "holdPost" /\ r.entry = o.entry
    BY <1>1, <2>1, PcRecFacts
  <2>3. worker' = [worker EXCEPT ![w] = r]
    BY <1>3, Movers DEF HoldWrite, PcRec
  <2> HIDE DEF r
  <2>4. Becomes(w, r)
    BY <1>2, <2>2, <2>3 DEF Stage, Becomes
  <2> QED
    BY <1>1, <1>2, <1>3, <2>2, <2>4
<1>4. CASE ~o.first
  <2> DEFINE r == ValRec(o, "send", Arg(w))
  <2>1. "send" \in WorkerPcs
    BY DEF WorkerPcs
  <2>2. r \in Record /\ r.pc = "send" /\ r.entry = o.entry /\ r.val = Arg(w)
    BY <1>1, <1>2, <2>1, ValRecFacts
  <2>3. worker' = [worker EXCEPT ![w] = r]
    BY <1>4, Movers DEF HoldWrite, ValRec
  <2> HIDE DEF r
  <2>4. Becomes(w, r)
    BY <1>2, <2>2, <2>3 DEF Stage, Becomes
  <2> QED
    BY <1>1, <1>2, <1>4, <2>2, <2>4
<1> QED
  BY <1>1, <1>3, <1>4

LEMMA SendTurn ==
  ASSUME Typed, Staged, NEW w \in Workers, SendTest(w) \/ SendClear(w)
  PROVE  /\ NodeOf(w) \in Nodes /\ worker[w].pc \in {"send", "clear"}
         /\ \E r : /\ Becomes(w, r) /\ r.entry = worker[w].entry
                   /\ r.pc = IF SendTest(w) /\ firings[NodeOf(w)] = <<>> THEN "clear" ELSE "fire"
<1> DEFINE o == worker[w]
           pc == IF SendTest(w) /\ firings[NodeOf(w)] = <<>> THEN "clear" ELSE "fire"
           r == PcRec(o, pc)
<1>1. o.pc \in {"send", "clear"} /\ o \in Record /\ Stage(o)
      /\ (SendTest(w) <=> o.pc = "send")
  BY Movers DEF SendTest, SendClear, At, Staged
<1>2. o.entry \in Entry /\ NodeOf(w) \in Nodes /\ o.val \in Val
  BY <1>1, ArgFacts DEF At, Stage
<1>3. worker' = Goto(w, pc)
  BY <1>1 DEF SendTest, SendClear, At
<1>4. worker' = [worker EXCEPT ![w] = r]
  BY <1>3, Movers DEF PcRec
<1>5. pc \in WorkerPcs /\ pc \in {"clear", "fire"}
  BY DEF WorkerPcs
<1> HIDE DEF pc
<1>6. r \in Record /\ r.pc = pc /\ r.entry = o.entry /\ r.val = o.val
  BY <1>1, <1>5, PcRecFacts
<1> HIDE DEF r
<1>7. Stage(r)
  BY <1>2, <1>5, <1>6 DEF Stage
<1>8. Becomes(w, r)
  BY <1>4, <1>6, <1>7 DEF Becomes
<1> QED
  BY <1>1, <1>2, <1>6, <1>8 DEF pc

\* One worker's record changes.
LEMMA Put ==
  ASSUME Typed, Staged, NEW w \in Workers, NEW r, Becomes(w, r)
  PROVE  /\ worker' \in [Workers -> Record] /\ Staged'
         /\ worker'[w] = r /\ \A x \in Workers \ {w} : worker'[x] = worker[x]
BY DEF Typed, Staged, Becomes

\* Each step of a worker is such a change.
LEMMA WorkerBecomes ==
  ASSUME Typed, Staged, Combining, CellsHaveValue, NEW w \in Workers, Worker(w)
  PROVE  \E r : Becomes(w, r)
<1>1. CASE Ordinary(w)
  BY <1>1, OrdinaryStep
<1>2. CASE Turn(w)
  BY <1>2, TakeTurn, CoalesceFirstTurn, AnnounceTurn, IdleTurn, HoldTestTurn, HoldWriteTurn,
     SendTurn DEF Turn
<1> QED
  BY <1>1, <1>2, Sorted

-----------------------------------------------------------------------------
(* Types.                                                                  *)

LEMMA WorkerTypes ==
  ASSUME Typed, Staged, Combining, CellsHaveValue, NEW w \in Workers, Worker(w)
  PROVE  Typed' /\ Staged' /\ UNCHANGED <<phase, targets, current>>
<1> DEFINE o == worker[w]
           n == NodeOf(w)
<1>1. worker' \in [Workers -> Record] /\ Staged'
  BY WorkerBecomes, Put
<1>2. Stage(o) /\ o \in Record
  BY Movers DEF Staged
<1>3. UNCHANGED <<phase, targets, current, user>>
  BY DEF Worker, Handle, Sending, Take, Forward, Filter, Snapshot, Hear, CoalesceFirst,
         CoalesceMore, Announce, SendCombined, Reset, HoldTest, HoldWrite, HoldPost, CollectRead,
         CollectWrite, OnceTest, KillTest, Kill, ApplySet, ApplyTest, ApplyPush, ApplyRead,
         ApplyTo, Unfire, SendTest, SendClear, Fire, Ship, Shipped, user, cells
<1>4. SUFFICES /\ firings' \in [Nodes -> Seq(Val)]
               /\ oValue' \in [Merging -> Optional]
               /\ update' \in [Cells -> Optional]
               /\ pState' \in [NodesOf("collect") -> Val]
               /\ ppKill' \in [NodesOf("once") -> BOOLEAN]
               /\ applied' \in [Applies -> [f : Val, a : Val, fired : BOOLEAN]]
               /\ queue' \in Seq(Entry)
               /\ posts' \in Seq(Post)
  BY <1>1, <1>3 DEF Typed, user
<1>5. /\ firings \in [Nodes -> Seq(Val)]
      /\ oValue \in [Merging -> Optional]
      /\ update \in [Cells -> Optional]
      /\ pState \in [NodesOf("collect") -> Val]
      /\ ppKill \in [NodesOf("once") -> BOOLEAN]
      /\ applied \in [Applies -> [f : Val, a : Val, fired : BOOLEAN]]
      /\ queue \in Seq(Entry)
      /\ posts \in Seq(Post)
      /\ targets \in [Nodes -> Seq(Nodes)]
  BY DEF Typed
<1>6. CASE \/ Forward(w) \/ Filter(w) \/ Snapshot(w) \/ Hear(w) \/ SendCombined(w) \/ HoldTest(w)
           \/ CollectRead(w) \/ OnceTest(w) \/ KillTest(w) \/ ApplyTest(w) \/ ApplyRead(w)
           \/ ApplyTo(w) \/ SendTest(w) \/ Shipped(w)
  <2>1. UNCHANGED <<firings, oValue, update, pState, ppKill, applied, queue, posts>>
    BY <1>6 DEF Forward, Filter, Snapshot, Hear, SendCombined, HoldTest, CollectRead, OnceTest,
       KillTest, ApplyTest, ApplyRead, ApplyTo, SendTest, Shipped, cells, states
  <2> QED
    BY <1>5, <2>1
<1>7. CASE Take(w)
  <2>1. queue # <<>> /\ queue' = Tail(queue)
        /\ UNCHANGED <<firings, oValue, update, pState, ppKill, applied, posts>>
    BY <1>7 DEF Take, cells, states
  <2>2. queue' \in Seq(Entry)
    BY <1>5, <2>1
  <2> QED
    BY <1>5, <2>1, <2>2
<1>8. CASE CoalesceFirst(w)
  <2>1. n \in Merging /\ Arg(w) \in Val
    BY <1>8, CoalesceFirstTurn
  <2>2. oValue' = [oValue EXCEPT ![n] = Arg(w)]
        /\ UNCHANGED <<firings, update, pState, ppKill, applied, queue, posts>>
    BY <1>8 DEF CoalesceFirst, cells, states
  <2> QED
    BY <1>5, <2>1, <2>2 DEF Optional
<1>9. CASE CoalesceMore(w)
  <2>1. n \in Nodes /\ Arg(w) \in Val
    BY <1>2, <1>9, ArgFacts DEF CoalesceMore, At, Stage
  <2>2. n \in Merging /\ oValue[n] \in Val
    BY <1>5, <1>9, <2>1, KindFacts DEF CoalesceMore, Optional
  <2> DEFINE v == IF Kind[n] = "last" THEN Arg(w) ELSE oValue[n] \o Arg(w)
  <2>3. v \in Val
    BY <2>1, <2>2, ConcatVal
  <2>4. oValue' = [oValue EXCEPT ![n] = v]
        /\ UNCHANGED <<firings, update, pState, ppKill, applied, queue, posts>>
    BY <1>9 DEF CoalesceMore, cells, states
  <2> HIDE DEF v
  <2> QED
    BY <1>5, <2>2, <2>3, <2>4 DEF Optional
<1>10. CASE Announce(w)
  <2>1. Coalesced(n) \in Entry
    BY <1>10, AnnounceTurn, MadeEntries
  <2>2. queue' = Append(queue, Coalesced(n))
        /\ UNCHANGED <<firings, oValue, update, pState, ppKill, applied, posts>>
    BY <1>10 DEF Announce, cells, states
  <2> QED
    BY <1>5, <2>1, <2>2
<1>11. CASE Reset(w)
  <2>1. oValue' = [oValue EXCEPT ![n] = NoValue]
        /\ UNCHANGED <<firings, update, pState, ppKill, applied, queue, posts>>
    BY <1>11 DEF Reset, cells, states
  <2> QED
    BY <1>5, <2>1 DEF Optional
<1>12. CASE HoldWrite(w)
  <2>1. n \in Cells /\ Arg(w) \in Val
    BY <1>12, HoldWriteTurn
  <2>2. update' = [update EXCEPT ![n] = Arg(w)]
        /\ UNCHANGED <<firings, oValue, pState, ppKill, applied, queue, posts>>
    BY <1>12 DEF HoldWrite, states
  <2> QED
    BY <1>5, <2>1, <2>2 DEF Optional
<1>13. CASE HoldPost(w)
  <2>1. n \in Cells
    BY <1>2, <1>13 DEF HoldPost, At, Stage, NodeOf
  <2>2. posts' = Append(posts, FinalizeOf(n)) /\ FinalizeOf(n) \in Post
        /\ UNCHANGED <<firings, oValue, update, pState, ppKill, applied, queue>>
    BY <1>13, <2>1 DEF HoldPost, cells, states, Post, FinalizeOf
  <2> QED
    BY <1>5, <2>2
<1>14. CASE CollectWrite(w)
  <2>1. o.val \in Val
    BY <1>2, <1>14 DEF CollectWrite, At, Stage
  <2>2. pState' = [pState EXCEPT ![n] = o.val]
        /\ UNCHANGED <<firings, oValue, update, ppKill, applied, queue, posts>>
    BY <1>14 DEF CollectWrite, cells
  <2> QED
    BY <1>5, <2>1, <2>2
<1>15. CASE Kill(w)
  <2>1. n \in Nodes
    BY <1>15, ArgFacts DEF Kill, At
  <2>2. ppKill' = [ppKill EXCEPT ![n] = FALSE]
        /\ posts' = Append(posts, [type |-> "unlink", node |-> n])
        /\ [type |-> "unlink", node |-> n] \in Post
        /\ UNCHANGED <<firings, oValue, update, pState, applied, queue>>
    BY <1>15, <2>1 DEF Kill, cells, Post
  <2>3. posts' \in Seq(Post)
    BY <1>5, <2>2
  <2>4. ppKill' \in [NodesOf("once") -> BOOLEAN]
    BY <1>5, <2>2
  <2> QED
    BY <1>5, <2>2, <2>3, <2>4
<1>16. CASE ApplySet(w)
  <2>1. n \in Parts /\ n \in Nodes /\ Arg(w) \in Val
    BY <1>2, <1>16, ArgFacts DEF ApplySet, At, Stage
  <2>2. ApplyOf[n] \in Applies
    BY <2>1, KindFacts
  <2>3. /\ applied[ApplyOf[n]] \in [f : Val, a : Val, fired : BOOLEAN]
        /\ [applied[ApplyOf[n]] EXCEPT !.f = Arg(w)] \in [f : Val, a : Val, fired : BOOLEAN]
        /\ [applied[ApplyOf[n]] EXCEPT !.a = Arg(w)] \in [f : Val, a : Val, fired : BOOLEAN]
    BY <1>5, <2>1, <2>2
  <2>4. applied' \in [Applies -> [f : Val, a : Val, fired : BOOLEAN]]
    BY <1>5, <1>16, <2>3 DEF ApplySet
  <2> QED
    BY <1>5, <1>16, <2>4 DEF ApplySet, cells
<1>17. CASE ApplyPush(w)
  <2>1. n \in Parts /\ n \in Nodes
    BY <1>2, <1>17, ArgFacts DEF ApplyPush, At, Stage
  <2>2. ApplyOf[n] \in Applies /\ Applied(ApplyOf[n]) \in Entry
    BY <2>1, KindFacts, MadeEntries
  <2>3. applied' = [applied EXCEPT ![ApplyOf[n]] = [@ EXCEPT !.fired = TRUE]]
        /\ queue' = Append(queue, Applied(ApplyOf[n]))
        /\ UNCHANGED <<firings, oValue, update, pState, ppKill, posts>>
    BY <1>17 DEF ApplyPush, cells
  <2>4. queue' \in Seq(Entry)
    BY <1>5, <2>2, <2>3
  <2>5. applied' \in [Applies -> [f : Val, a : Val, fired : BOOLEAN]]
    BY <1>5, <2>2, <2>3
  <2> QED
    BY <1>5, <2>3, <2>4, <2>5
<1>18. CASE Unfire(w)
  <2>1. applied' = [applied EXCEPT ![n] = [@ EXCEPT !.fired = FALSE]]
        /\ UNCHANGED <<firings, oValue, update, pState, ppKill, queue, posts>>
    BY <1>18 DEF Unfire, cells
  <2> QED
    BY <1>5, <2>1
<1>19. CASE SendClear(w)
  <2>1. n \in Nodes
    BY <1>19, SendTurn
  <2>2. posts' = Append(posts, ClearOf(n)) /\ ClearOf(n) \in Post
        /\ UNCHANGED <<firings, oValue, update, pState, ppKill, applied, queue>>
    BY <1>19, <2>1 DEF SendClear, cells, states, ClearOf, Post
  <2> QED
    BY <1>5, <2>2
<1>20. CASE Fire(w)
  <2>1. n \in Nodes /\ o.val \in Val
    BY <1>2, <1>20, ArgFacts DEF Fire, At, Stage
  <2>2. firings' = [firings EXCEPT ![n] = <<o.val>> \o @]
        /\ UNCHANGED <<oValue, update, pState, ppKill, applied, queue, posts>>
    BY <1>20 DEF Fire, cells, states
  <2>3. <<o.val>> \o firings[n] \in Seq(Val)
    BY <1>5, <2>1
  <2> QED
    BY <1>5, <2>1, <2>2, <2>3
<1>21. CASE Ship(w)
  <2>1. n \in Nodes /\ o.val \in Val /\ o.k \in Nat /\ o.k > 0
    BY <1>2, <1>21, ArgFacts DEF Ship, At, Stage, Record
  <2> DEFINE m == targets[n][o.k]
  <2>2. m \in Nodes
    <3>1. targets[n] \in Seq(Nodes) /\ o.k <= Len(targets[n])
      BY <1>5, <1>21, <2>1 DEF Ship
    <3> QED
      BY <2>1, <3>1
  <2>3. queue' = Append(queue, Carry(m, <<o.val>>))
        /\ UNCHANGED <<firings, oValue, update, pState, ppKill, applied, posts>>
    BY <1>21 DEF Ship, cells, states
  <2> HIDE DEF m
  <2>4. Carry(m, <<o.val>>) \in Entry
    BY <2>1, <2>2, MadeEntries
  <2> QED
    BY <1>5, <2>3, <2>4
<1> QED
  BY <1>6, <1>7, <1>8, <1>9, <1>10, <1>11, <1>12, <1>13, <1>14, <1>15, <1>16, <1>17, <1>18,
     <1>19, <1>20, <1>21 DEF Worker, Handle, Sending

\* The entries and posts that the user thread makes.
LEMMA ClearPostsFacts ==
  ASSUME NEW n \in Late
  PROVE  /\ ClearPosts(Sparks(n)) \in Seq(Post)
         /\ \A m \in Sparks(n) : ClearOf(m) \in Range(ClearPosts(Sparks(n)))
         /\ \A p \in Range(ClearPosts(Sparks(n))) : p.type = "clear"
<1> DEFINE S == Sparks(n)
           c == Cardinality(S)
           f == SetToSeq(S)
           cp == [k \in 1 .. c |-> [type |-> "clear", node |-> f[k]]]
<1>1. IsFiniteSet(S) /\ S \subseteq Nodes
  BY SparksFinite
<1>2. c \in Nat /\ f \in [1 .. c -> S] /\ \A x \in S : \E k \in 1 .. c : f[k] = x
  BY <1>1, ListOfSet
<1>3. ClearPosts(S) = cp
  BY DEF ClearPosts
<1> HIDE DEF S, c, f
<1>4. \A k \in 1 .. c : cp[k] \in Post /\ cp[k] = ClearOf(f[k]) /\ cp[k].type = "clear"
  BY <1>1, <1>2 DEF Post, ClearOf
<1>5. DOMAIN cp = 1 .. c
  OBVIOUS
<1>6. cp \in Seq(Post)
  BY <1>2, <1>4, <1>5
<1> HIDE DEF cp
<1>7. \A m \in S : ClearOf(m) \in Range(cp)
  BY <1>2, <1>4, <1>5 DEF Range
<1>8. \A p \in Range(cp) : p.type = "clear"
  BY <1>4, <1>5 DEF Range
<1> QED
  BY <1>3, <1>6, <1>7, <1>8 DEF S

LEMMA SendEntriesFacts ==
  ASSUME Typed, NEW s \in Nodes, NEW v \in Val
  PROVE  /\ SendEntries(s, v) \in Seq(Entry)
         /\ \A e \in Range(SendEntries(s, v)) : e.type = "values"
<1> DEFINE se == SendEntries(s, v)
<1>1. targets[s] \in Seq(Nodes)
  BY DEF Typed
<1>2. DOMAIN se = 1 .. Len(targets[s]) /\ Len(targets[s]) \in Nat
  BY <1>1 DEF SendEntries
<1>3. ASSUME NEW k \in DOMAIN se
      PROVE  se[k] \in Entry /\ se[k].type = "values"
  <2>1. targets[s][k] \in Nodes /\ se[k] = Carry(targets[s][k], <<v>>)
    BY <1>1, <1>2 DEF SendEntries
  <2>2. Carry(targets[s][k], <<v>>).type = "values"
    BY DEF Carry
  <2> QED
    BY <2>1, <2>2, MadeEntries
<1>5. se \in [1 .. Len(targets[s]) -> Entry]
  BY <1>2, <1>3 DEF SendEntries
<1> HIDE DEF se
<1>4. se \in Seq(Entry)
  BY <1>2, <1>5
<1> QED
  BY <1>3, <1>4 DEF Range, se

\* What a late listener is brought.
LEMMA EarlierFacts ==
  ASSUME NEW n \in Late, NEW fired \in [Nodes -> Seq(Val)]
  PROVE  LET earlier == Only(Chain[n], {m \in Nodes : fired[m] # <<>>} \X Nodes)
             es == [k \in DOMAIN earlier |-> Carry(earlier[k][2], fired[earlier[k][1]])]
         IN  es \in Seq(Entry) /\ \A e \in Range(es) : e.type = "values"
<1> DEFINE S == {m \in Nodes : fired[m] # <<>>} \X Nodes
           earlier == Only(Chain[n], S)
           es == [k \in DOMAIN earlier |-> Carry(earlier[k][2], fired[earlier[k][1]])]
<1>1. Chain[n] \in Seq(Nodes \X Nodes)
  BY GraphAssumption
<1>2. earlier \in Seq((Nodes \X Nodes) \cap S)
  <2> HIDE DEF S
  <2> QED
    BY <1>1, OnlyType
<1>3. DOMAIN earlier = 1 .. Len(earlier) /\ Len(earlier) \in Nat
  BY <1>2
<1>4. \A k \in DOMAIN earlier : earlier[k] \in S
  BY <1>2
<1> HIDE DEF earlier
<1>5. ASSUME NEW k \in DOMAIN es
      PROVE  es[k] \in Entry /\ es[k].type = "values"
  <2>1. earlier[k] \in S /\ es[k] = Carry(earlier[k][2], fired[earlier[k][1]])
    BY <1>4
  <2>2. earlier[k][1] \in Nodes /\ fired[earlier[k][1]] # <<>> /\ earlier[k][2] \in Nodes
    BY <2>1
  <2>3. fired[earlier[k][1]] \in Seq(Val) \ {<<>>}
    BY <2>2
  <2>4. Carry(earlier[k][2], fired[earlier[k][1]]) \in Entry
    BY <2>2, <2>3, MadeEntries
  <2> QED
    BY <2>1, <2>4 DEF Carry
<1>6. DOMAIN es = 1 .. Len(earlier)
  BY <1>3
<1>9. es \in [1 .. Len(earlier) -> Entry]
  BY <1>5, <1>6
<1> HIDE DEF es
<1>7. es \in Seq(Entry)
  BY <1>3, <1>9
<1>8. \A e \in Range(es) : e.type = "values"
  BY <1>5 DEF Range
<1> QED
  BY <1>7, <1>8 DEF es, earlier, S

\* The firings of a spark.
LEMMA SparkFired ==
  ASSUME Typed, NEW n \in Late
  PROVE  [m \in Nodes |-> IF m \in Sparks(n) THEN <<<<>>>> ELSE firings[m]] \in [Nodes -> Seq(Val)]
<1>1. <<>> \in Val
  BY DEF Val
<1>2. <<<<>>>> \in Seq(Val)
  BY <1>1
<1> QED
  BY <1>2 DEF Typed

LEMMA UserTypes ==
  ASSUME Typed, CellsHaveValue, User
  PROVE  Typed' /\ UNCHANGED worker
<1>1. UNCHANGED <<worker, oValue, pState, ppKill, applied>>
  BY DEF User, Open, UserSend, Listen, Unlisten, Close, Drained, RunPost, Closed, user, cells,
         states
<1>2. /\ targets \in [Nodes -> Seq(Nodes)]
      /\ firings \in [Nodes -> Seq(Val)]
      /\ current \in [Cells -> Optional]
      /\ update \in [Cells -> Optional]
      /\ queue \in Seq(Entry)
      /\ posts \in Seq(Post)
      /\ txns \in 0 .. MaxTxns
      /\ sends \in Seq(Sinks \X Values) /\ Len(sends) <= MaxSends
  BY DEF Typed
<1>3. SUFFICES /\ targets' \in [Nodes -> Seq(Nodes)]
               /\ firings' \in [Nodes -> Seq(Val)]
               /\ current' \in [Cells -> Optional]
               /\ update' \in [Cells -> Optional]
               /\ queue' \in Seq(Entry)
               /\ posts' \in Seq(Post)
               /\ phase' \in {"rest", "body", "drain", "post"}
               /\ txns' \in 0 .. MaxTxns
               /\ sends' \in Seq(Sinks \X Values) /\ Len(sends') <= MaxSends
  BY <1>1 DEF Typed
<1>4. CASE Open
  <2>1. phase' = "body" /\ txns' = txns + 1 /\ txns < MaxTxns /\ sends' = <<>>
        /\ UNCHANGED <<targets, firings, current, update, queue, posts>>
    BY <1>4 DEF Open, cells
  <2>2. txns' \in 0 .. MaxTxns
    BY <1>2, <2>1, PropagationBoundsAssumption
  <2>3. sends' \in Seq(Sinks \X Values) /\ Len(sends') <= MaxSends
    BY <2>1, PropagationBoundsAssumption
  <2> QED
    BY <1>2, <2>1, <2>2, <2>3
<1>5. CASE UserSend
  <2>1. PICK s \in Sinks, v \in Values \ used :
          /\ posts' = posts \o ClearPost(s)
          /\ firings' = [firings EXCEPT ![s] = <<<<v>>>> \o @]
          /\ queue' = queue \o SendEntries(s, <<v>>)
          /\ sends' = Append(sends, <<s, v>>)
    BY <1>5 DEF UserSend
  <2>2. UNCHANGED <<targets, current, update, phase, txns>> /\ Len(sends) < MaxSends
    BY <1>5 DEF UserSend, cells
  <2>3. s \in Nodes
    BY DEF Sinks, NodesOf
  <2>4. <<v>> \in Val
    BY DEF Val
  <2>5. ClearPost(s) \in Seq(Post)
    <3>1. ClearOf(s) \in Post
      BY <2>3 DEF ClearOf, Post
    <3> QED
      BY <3>1 DEF ClearPost, ClearOf
  <2>6. posts' \in Seq(Post)
    BY <1>2, <2>1, <2>5
  <2>7. SendEntries(s, <<v>>) \in Seq(Entry)
    BY <2>3, <2>4, SendEntriesFacts
  <2>8. queue' \in Seq(Entry)
    BY <1>2, <2>1, <2>7
  <2>9. firings' \in [Nodes -> Seq(Val)]
    <3> DEFINE x == <<v>>
    <3>1. <<x>> \o firings[s] \in Seq(Val)
      BY <1>2, <2>3, <2>4
    <3> HIDE DEF x
    <3> QED
      BY <1>2, <2>1, <2>3, <3>1 DEF x
  <2>10. sends' \in Seq(Sinks \X Values) /\ Len(sends') <= MaxSends
    <3>1. <<s, v>> \in Sinks \X Values
      OBVIOUS
    <3> QED
      BY <1>2, <2>1, <2>2, <3>1, PropagationBoundsAssumption
  <2> QED
    BY <1>2, <2>2, <2>6, <2>8, <2>9, <2>10 DEF Typed
<1>6. CASE Listen
  <2>1. UNCHANGED <<current, update, phase, txns, sends>>
    BY <1>6 DEF Listen, cells
  <2>2. PICK n \in Late :
          LET fired == [m \in Nodes |-> IF m \in Sparks(n) THEN <<<<>>>> ELSE firings[m]]
              earlier == Only(Chain[n], {m \in Nodes : fired[m] # <<>>} \X Nodes)
          IN
          /\ targets' = [m \in Nodes |-> Linked(n, m) \o targets[m]]
          /\ firings' = fired
          /\ queue' = queue \o [k \in DOMAIN earlier |-> Carry(earlier[k][2], fired[earlier[k][1]])]
          /\ posts' = posts \o ClearPosts(Sparks(n))
    BY <1>6 DEF Listen
  <2> DEFINE fired == [m \in Nodes |-> IF m \in Sparks(n) THEN <<<<>>>> ELSE firings[m]]
             earlier == Only(Chain[n], {m \in Nodes : fired[m] # <<>>} \X Nodes)
             es == [k \in DOMAIN earlier |-> Carry(earlier[k][2], fired[earlier[k][1]])]
  <2>3. fired \in [Nodes -> Seq(Val)]
    BY SparkFired
  <2>4. es \in Seq(Entry)
    <3> HIDE DEF fired
    <3> QED
      BY <2>3, EarlierFacts
  <2>5. firings' = fired /\ queue' = queue \o es
    BY <2>2
  <2> HIDE DEF fired, earlier, es
  <2>6. queue' \in Seq(Entry) /\ firings' \in [Nodes -> Seq(Val)]
    BY <1>2, <2>3, <2>4, <2>5
  <2>7. posts' \in Seq(Post)
    <3>1. ClearPosts(Sparks(n)) \in Seq(Post) /\ posts' = posts \o ClearPosts(Sparks(n))
      BY <2>2, ClearPostsFacts
    <3> QED
      BY <1>2, <3>1
  <2>8. \A m \in Nodes : Linked(n, m) \o targets[m] \in Seq(Nodes)
    BY <1>2, LinkedType
  <2>9. targets' \in [Nodes -> Seq(Nodes)]
    BY <2>2, <2>8
  <2> QED
    BY <1>2, <2>1, <2>6, <2>7, <2>9 DEF Typed
<1>7. CASE Unlisten
  <2>1. PICK n \in Late : posts' = Append(posts, [type |-> "unlink", node |-> n])
    BY <1>7 DEF Unlisten
  <2>2. UNCHANGED <<targets, firings, current, update, queue, phase, txns, sends>>
    BY <1>7 DEF Unlisten, cells, user
  <2>3. [type |-> "unlink", node |-> n] \in Post
    BY GraphAssumption DEF Post, Listeners, NodesOf
  <2> QED
    BY <1>2, <2>1, <2>2, <2>3 DEF Typed
<1>8. CASE Close \/ Drained \/ Closed
  <2>1. /\ phase' \in {"rest", "body", "drain", "post"}
        /\ UNCHANGED <<targets, firings, current, update, queue, posts, txns, sends>>
    BY <1>8 DEF Close, Drained, Closed, cells
  <2> QED
    BY <1>2, <2>1
<1>9. CASE RunPost
  <2> DEFINE p == Head(posts)
  <2>1. posts # <<>> /\ posts' = Tail(posts) /\ UNCHANGED <<queue, phase, txns, sends>>
    BY <1>9 DEF RunPost, user
  <2>2. p \in Post /\ posts' \in Seq(Post)
    BY <1>2, <2>1
  <2>3. \/ p.type = "clear" /\ ClearFirings(p.node)
        \/ p.type = "finalize" /\ Finalize(p.node)
        \/ p.type = "unlink" /\ Unlink(p.node)
    BY <1>9 DEF RunPost
  <2> HIDE DEF p
  <2>4. CASE p.type = "clear" /\ ClearFirings(p.node)
    <3>1. firings' = [firings EXCEPT ![p.node] = <<>>] /\ UNCHANGED <<current, update, targets>>
      BY <2>4 DEF ClearFirings, cells
    <3>2. firings' \in [Nodes -> Seq(Val)]
      <4>1. <<>> \in Seq(Val)
        OBVIOUS
      <4> QED
        BY <1>2, <3>1, <4>1
    <3> QED
      BY <1>2, <2>1, <2>2, <3>1, <3>2 DEF Typed
  <2>5. CASE p.type = "finalize" /\ Finalize(p.node)
    <3>1. p.node \in Cells
      BY <2>2, <2>5 DEF Post
    <3>2. /\ current' = [current EXCEPT ![p.node] = update[p.node]]
          /\ update' = [update EXCEPT ![p.node] = NoValue]
          /\ UNCHANGED <<firings, targets>>
      BY <2>5 DEF Finalize
    <3>3. current' \in [Cells -> Optional] /\ update' \in [Cells -> Optional]
      BY <1>2, <3>1, <3>2 DEF Optional
    <3> QED
      BY <1>2, <2>1, <2>2, <3>2, <3>3 DEF Typed
  <2>6. CASE p.type = "unlink" /\ Unlink(p.node)
    <3> DEFINE gone(m) == IF p.node \in Late THEN Range(Linked(p.node, m)) ELSE {p.node}
    <3>1. targets' = [m \in Nodes |-> Only(targets[m], Nodes \ gone(m))]
          /\ UNCHANGED <<firings, current, update>>
      BY <2>6 DEF Unlink, cells
    <3>2. ASSUME NEW m \in Nodes
          PROVE  Only(targets[m], Nodes \ gone(m)) \in Seq(Nodes)
      <4> DEFINE S == Nodes \ gone(m)
      <4>1. Nodes \cap S = S /\ S \subseteq Nodes
        OBVIOUS
      <4> HIDE DEF S
      <4>2. Only(targets[m], S) \in Seq(Nodes \cap S)
        BY <1>2, OnlyType
      <4>3. Only(targets[m], S) \in Seq(Nodes)
        BY <4>1, <4>2
      <4> QED
        BY <4>3 DEF S
    <3>3. targets' \in [Nodes -> Seq(Nodes)]
      BY <3>1, <3>2
    <3> QED
      BY <1>2, <2>1, <2>2, <3>1, <3>3 DEF Typed
  <2> QED
    BY <2>3, <2>4, <2>5, <2>6
<1> QED
  BY <1>4, <1>5, <1>6, <1>7, <1>8, <1>9 DEF User

-----------------------------------------------------------------------------
(* The phases of a transaction, and the coalesce_entry of a node.          *)

\* A worker works only while the transaction drains.
LEMMA InDrain ==
  ASSUME Calm, NEW w \in Workers, Worker(w)
  PROVE  phase = "drain"
BY DEF Calm, Worker, Handle, Sending, Take, Forward, Filter, Snapshot, Hear, CoalesceFirst,
       CoalesceMore, Announce, SendCombined, Reset, HoldTest, HoldWrite, HoldPost, CollectRead,
       CollectWrite, OnceTest, KillTest, Kill, ApplySet, ApplyTest, ApplyPush, ApplyRead,
       ApplyTo, Unfire, SendTest, SendClear, Fire, Ship, Shipped, At

\* What the user thread adds to the queue.
LEMMA UserQueue ==
  ASSUME Typed, Calm, User
  PROVE  \/ queue' = queue
         \/ \E es \in Seq(Entry) : /\ phase = "body" /\ phase' = "body"
                                   /\ queue' = queue \o es
                                   /\ \A e \in Range(es) : e.type = "values"
<1>1. CASE UserSend
  <2>1. PICK s \in Sinks, v \in Values \ used : queue' = queue \o SendEntries(s, <<v>>)
    BY <1>1 DEF UserSend
  <2>2. s \in Nodes /\ <<v>> \in Val
    BY DEF Sinks, NodesOf, Val
  <2>3. SendEntries(s, <<v>>) \in Seq(Entry)
        /\ \A e \in Range(SendEntries(s, <<v>>)) : e.type = "values"
    BY <2>2, SendEntriesFacts
  <2>4. phase = "body" /\ phase' = "body"
    BY <1>1 DEF UserSend
  <2> QED
    BY <2>1, <2>3, <2>4
<1>2. CASE Listen
  <2>1. PICK n \in Late :
          LET fired == [m \in Nodes |-> IF m \in Sparks(n) THEN <<<<>>>> ELSE firings[m]]
              earlier == Only(Chain[n], {m \in Nodes : fired[m] # <<>>} \X Nodes)
          IN  queue' = queue \o [k \in DOMAIN earlier |-> Carry(earlier[k][2], fired[earlier[k][1]])]
    BY <1>2 DEF Listen
  <2> DEFINE fired == [m \in Nodes |-> IF m \in Sparks(n) THEN <<<<>>>> ELSE firings[m]]
             earlier == Only(Chain[n], {m \in Nodes : fired[m] # <<>>} \X Nodes)
             es == [k \in DOMAIN earlier |-> Carry(earlier[k][2], fired[earlier[k][1]])]
  <2>2. fired \in [Nodes -> Seq(Val)]
    BY SparkFired
  <2>3. es \in Seq(Entry) /\ \A e \in Range(es) : e.type = "values"
    <3> HIDE DEF fired
    <3> QED
      BY <2>2, EarlierFacts
  <2>4. queue' = queue \o es
    BY <2>1
  <2>5. phase = "body" /\ phase' = "body"
    BY <1>2 DEF Listen
  <2> HIDE DEF es
  <2> QED
    BY <2>3, <2>4, <2>5
<1>3. CASE Open \/ Unlisten \/ Close \/ Drained \/ RunPost \/ Closed
  BY <1>3 DEF Open, Unlisten, Close, Drained, RunPost, Closed
<1> QED
  BY <1>1, <1>2, <1>3 DEF User

LEMMA UserCalm ==
  ASSUME Typed, Calm, CellsHaveValue, User
  PROVE  Calm'
<1>1. UNCHANGED worker
  BY UserTypes
<1>2. phase' # "drain" => \A w \in Workers : At(w, "idle")'
  BY <1>1 DEF User, Open, UserSend, Listen, Unlisten, Close, Drained, RunPost, Closed, Calm, At,
     user
<1>3. phase' = "body" => \A i \in DOMAIN queue' : queue'[i].type = "values"
  <2>1. CASE queue' = queue
    <3>1. phase' = "body" => phase = "body" \/ (phase = "rest" /\ queue = <<>>)
      BY DEF User, Open, UserSend, Listen, Unlisten, Close, Drained, RunPost, Closed, Calm, user
    <3> QED
      BY <2>1, <3>1 DEF Calm
  <2>2. ASSUME NEW es \in Seq(Entry), phase = "body", queue' = queue \o es,
               \A e \in Range(es) : e.type = "values"
        PROVE  \A i \in DOMAIN queue' : queue'[i].type = "values"
    <3>1. queue \in Seq(Entry)
      BY DEF Typed
    <3>2. Range(queue') = Range(queue) \cup Range(es)
      BY <2>2, <3>1, RangeOfConcat
    <3>3. \A e \in Range(queue) : e.type = "values"
      BY <2>2 DEF Calm, Range
    <3> QED
      BY <2>2, <3>2, <3>3 DEF Range
  <2> QED
    BY <2>1, <2>2, UserQueue
<1>4. phase' \in {"rest", "post"} => queue' = <<>>
  BY DEF User, Open, UserSend, Listen, Unlisten, Close, Drained, RunPost, Closed, Calm, user
<1>5. phase' = "rest" => posts' = <<>>
  BY DEF User, Open, UserSend, Listen, Unlisten, Close, Drained, RunPost, Closed, Calm, user
<1> QED
  BY <1>2, <1>3, <1>4, <1>5 DEF Calm

\* Only the queue changes, by entries that are not for a node's value.
LEMMA UserCombining ==
  ASSUME Typed, Calm, Combining, CellsHaveValue, User
  PROVE  Combining'
<1>1. UNCHANGED <<worker, oValue>>
  BY DEF User, Open, UserSend, Listen, Unlisten, Close, Drained, RunPost, Closed, user
<1>2. queue \in Seq(Entry)
  BY DEF Typed
<1>3. CASE queue' = queue
  BY <1>1, <1>3 DEF Combining, CombiningAt, Pending, AtMostOne
<1>4. ASSUME NEW es \in Seq(Entry), queue' = queue \o es,
             \A e \in Range(es) : e.type = "values"
      PROVE  Combining'
  <2>1. SUFFICES ASSUME NEW n \in Merging
                 PROVE  CombiningAt(n)'
    BY DEF Combining
  <2>2. Coalesced(n) \notin Range(es)
    BY <1>4 DEF Coalesced
  <2>3. Coalesced(n) \in Range(queue') <=> Coalesced(n) \in Range(queue)
    BY <1>2, <1>4, <2>2, RangeOfConcat
  <2>4. CombiningAt(n)
    BY DEF Combining
  <2>5. AtMostOne(queue', Coalesced(n))
    BY <1>2, <1>4, <2>2, <2>4, AtMostOneConcat DEF CombiningAt
  <2> QED
    BY <1>1, <2>3, <2>4, <2>5 DEF CombiningAt, Pending
<1> QED
  BY <1>3, <1>4, UserQueue

\* What an ordinary step of a worker adds to the queue.
LEMMA OrdinaryQueue ==
  ASSUME Typed, Staged, NEW w \in Workers, Ordinary(w)
  PROVE  \/ queue' = queue
         \/ \E e \in Entry : e.type # "coalesce" /\ queue' = Append(queue, e)
<1>1. CASE ApplyPush(w)
  <2>1. NodeOf(w) \in Parts /\ NodeOf(w) \in Nodes
    BY <1>1, ArgFacts DEF ApplyPush, At, Stage, Staged, NodeOf
  <2>2. Applied(ApplyOf[NodeOf(w)]) \in Entry
    BY <2>1, KindFacts, MadeEntries
  <2> QED
    BY <1>1, <2>2 DEF ApplyPush, Applied
<1>2. CASE Ship(w)
  <2> DEFINE n == NodeOf(w)
             k == worker[w].k
             m == targets[n][k]
             v == worker[w].val
  <2>1. worker[w] \in Record /\ Stage(worker[w]) /\ worker[w].pc = "ship"
    BY <1>2, Movers DEF Ship, At, Staged
  <2>2. n \in Nodes /\ v \in Val /\ k \in Nat /\ k > 0
    BY <1>2, <2>1, ArgFacts DEF Stage, Record, At
  <2>3. targets[n] \in Seq(Nodes) /\ k <= Len(targets[n])
    BY <1>2, <2>2 DEF Ship, Typed
  <2>4. m \in Nodes
    BY <2>2, <2>3
  <2>5. queue' = Append(queue, Carry(m, <<v>>))
    BY <1>2 DEF Ship
  <2> HIDE DEF m, v
  <2>6. Carry(m, <<v>>) \in Entry /\ Carry(m, <<v>>).type # "coalesce"
    BY <2>2, <2>4, MadeEntries DEF Carry
  <2> QED
    BY <2>5, <2>6
<1> QED
  BY <1>1, <1>2 DEF Ordinary, Forward, Filter, Snapshot, Hear, CoalesceMore, SendCombined,
     HoldPost, CollectRead, CollectWrite, OnceTest, KillTest, Kill, ApplySet, ApplyTest,
     ApplyRead, ApplyTo, Fire, Shipped

\* A step that neither begins nor ends a coalesce_entry.
LEMMA CombiningKept ==
  ASSUME Typed, Staged, Combining, NEW w \in Workers, NEW r, Becomes(w, r),
         Marks(r) = Marks(worker[w]),
         \/ queue' = queue
         \/ \E e \in Entry : e.type # "coalesce" /\ queue' = Append(queue, e),
         \A n \in Merging : oValue'[n] = NoValue <=> oValue[n] = NoValue
  PROVE  Combining'
<1>1. SUFFICES ASSUME NEW n \in Merging
               PROVE  CombiningAt(n)'
  BY DEF Combining
<1>2. \A x \in Workers : Marks(worker'[x]) = Marks(worker[x])
  BY Put
<1>3. CombiningAt(n) /\ queue \in Seq(Entry)
  BY DEF Combining, Typed
<1>4. /\ Coalesced(n) \in Range(queue') <=> Coalesced(n) \in Range(queue)
      /\ AtMostOne(queue', Coalesced(n))
  <2>1. CASE queue' = queue
    BY <1>3, <2>1 DEF CombiningAt
  <2>2. ASSUME NEW e \in Entry, e.type # "coalesce", queue' = Append(queue, e)
        PROVE  /\ Coalesced(n) \in Range(queue') <=> Coalesced(n) \in Range(queue)
               /\ AtMostOne(queue', Coalesced(n))
    <3>1. e # Coalesced(n)
      BY <2>2 DEF Coalesced
    <3>2. Range(queue') = Range(queue) \cup {e}
      BY <1>3, <2>2, RangeOfAppend
    <3>3. AtMostOne(queue, Coalesced(n))
      BY <1>3 DEF CombiningAt
    <3>4. AtMostOne(queue', Coalesced(n))
      BY <1>3, <2>2, <3>1, <3>3, AtMostOneAppend
    <3> QED
      BY <3>1, <3>2, <3>4
  <2> QED
    BY <2>1, <2>2
<1> QED
  BY <1>2, <1>3, <1>4 DEF CombiningAt, Pending

LEMMA OrdinaryCombining ==
  ASSUME Typed, Staged, Combining, CellsHaveValue, NEW w \in Workers, Ordinary(w)
  PROVE  Combining'
<1>1. PICK r : Becomes(w, r) /\ Alike(r, worker[w])
  BY OrdinaryStep
<1>2. \A n \in Merging : oValue'[n] = NoValue <=> oValue[n] = NoValue
  <2>1. CASE CoalesceMore(w)
    <3> DEFINE m == NodeOf(w)
               v == IF Kind[m] = "last" THEN Arg(w) ELSE oValue[m] \o Arg(w)
    <3>1. m \in Nodes /\ Arg(w) \in Val
      BY <2>1, ArgFacts DEF CoalesceMore, At, Stage, Staged
    <3>2. m \in Merging /\ oValue[m] \in Val
      BY <2>1, <3>1, KindFacts DEF CoalesceMore, Optional, Typed
    <3>3. v \in Val
      BY <3>1, <3>2, ConcatVal
    <3>4. oValue' = [oValue EXCEPT ![m] = v] /\ oValue[m] # NoValue
      BY <2>1 DEF CoalesceMore
    <3>5. v # NoValue
      BY <3>3, ValuesAssumption DEF Val
    <3> HIDE DEF v
    <3> QED
      BY <3>4, <3>5 DEF Typed
  <2>2. CASE ~CoalesceMore(w)
    BY <2>2 DEF Ordinary, Forward, Filter, Snapshot, Hear, SendCombined,
       HoldPost, CollectRead, CollectWrite, OnceTest, KillTest, Kill, ApplySet, ApplyTest,
       ApplyPush, ApplyRead, ApplyTo, Fire, Ship, Shipped
  <2> QED
    BY <2>1, <2>2
<1>3. Marks(r) = Marks(worker[w])
  BY <1>1 DEF Alike
<1>4. \/ queue' = queue
      \/ \E e \in Entry : e.type # "coalesce" /\ queue' = Append(queue, e)
  BY OrdinaryQueue
<1> QED
  BY <1>1, <1>2, <1>3, <1>4, CombiningKept

LEMMA TurnCombining ==
  ASSUME Typed, Staged, Combining, NEW w \in Workers, Turn(w)
  PROVE  Combining'
<1> DEFINE o == worker[w]
           m == NodeOf(w)
<1>1. queue \in Seq(Entry) /\ oValue \in [Merging -> Optional] /\ o \in Record
  BY Movers DEF Typed
<1>2. CASE Take(w)
  <2> DEFINE e == Head(queue)
  <2>1. /\ At(w, "idle") /\ queue # <<>> /\ queue' = Tail(queue) /\ oValue' = oValue
        /\ e \in Entry /\ Becomes(w, Begin(e))
    BY <1>2, TakeTurn DEF Take
  <2>2. SUFFICES ASSUME NEW n \in Merging
                 PROVE  CombiningAt(n)'
    BY DEF Combining
  <2> HIDE DEF e
  <2>3. /\ worker'[w] = Begin(e) /\ \A x \in Workers \ {w} : worker'[x] = worker[x]
        /\ Marks(Begin(e)) = IF e.type = "coalesce" THEN {e.node} ELSE {}
    BY <2>1, Put, BeginFacts
  <2>4. CombiningAt(n)
    BY DEF Combining
  <2>5. Range(queue) = {e} \cup Range(queue')
    BY <1>1, <2>1, RangeOfQueue DEF e
  <2>6. AtMostOne(queue', Coalesced(n)) /\ (e = Coalesced(n) => Coalesced(n) \notin Range(queue'))
    <3>1. AtMostOne(queue, Coalesced(n))
      BY <2>4 DEF CombiningAt
    <3> QED
      BY <1>1, <2>1, <3>1, AtMostOneTail DEF e
  <2>7. Marks(o) = {}
    BY <2>1 DEF Marks, At
  <2>8. n \in Marks(Begin(e)) <=> e = Coalesced(n)
    BY <2>1, <2>3, EntryFacts DEF Coalesced
  <2> QED
    BY <2>1, <2>3, <2>4, <2>5, <2>6, <2>7, <2>8 DEF CombiningAt, Pending
<1>3. CASE CoalesceFirst(w)
  <2>1. PICK r : Becomes(w, r) /\ r.pc = "announce" /\ r.entry = o.entry
    BY <1>3, CoalesceFirstTurn
  <2>2. /\ o.entry.type = "values" /\ m \in Merging /\ Arg(w) \in Val /\ o.pc = "handle"
        /\ oValue[m] = NoValue /\ oValue' = [oValue EXCEPT ![m] = Arg(w)] /\ queue' = queue
    BY <1>3, CoalesceFirstTurn DEF CoalesceFirst, At
  <2>3. Arg(w) # NoValue
    BY <2>2, ValuesAssumption DEF Val
  <2>4. SUFFICES ASSUME NEW n \in Merging
                 PROVE  CombiningAt(n)'
    BY DEF Combining
  <2>5. worker'[w] = r /\ \A x \in Workers \ {w} : worker'[x] = worker[x]
    BY <2>1, Put
  <2>6. Marks(o) = {} /\ Marks(r) = {m}
    BY <2>1, <2>2 DEF Marks, NodeOf
  <2>7. CombiningAt(n)
    BY DEF Combining
  <2>8. oValue'[n] = IF n = m THEN Arg(w) ELSE oValue[n]
    BY <1>1, <2>2
  <2>9. CASE n = m
    <3>1. Coalesced(n) \notin Range(queue) /\ \A x \in Workers : n \notin Marks(worker[x])
      BY <2>2, <2>7, <2>9 DEF CombiningAt, Pending
    <3> QED
      BY <2>2, <2>3, <2>5, <2>6, <2>7, <2>8, <2>9, <3>1 DEF CombiningAt, Pending
  <2>10. CASE n # m
    <3>1. \A x \in Workers : n \in Marks(worker'[x]) <=> n \in Marks(worker[x])
      BY <2>5, <2>6, <2>10
    <3> QED
      BY <2>2, <2>7, <2>8, <2>10, <3>1 DEF CombiningAt, Pending
  <2> QED
    BY <2>9, <2>10
<1>4. CASE Announce(w)
  <2>1. PICK r : Becomes(w, r) /\ Marks(r) = {}
    BY <1>4, AnnounceTurn
  <2>2. /\ o.pc = "announce" /\ o.entry.type = "values" /\ m \in Merging
        /\ queue' = Append(queue, Coalesced(m)) /\ oValue' = oValue
    BY <1>4, AnnounceTurn DEF Announce
  <2>3. SUFFICES ASSUME NEW n \in Merging
                 PROVE  CombiningAt(n)'
    BY DEF Combining
  <2>4. worker'[w] = r /\ \A x \in Workers \ {w} : worker'[x] = worker[x]
    BY <2>1, Put
  <2>5. Marks(o) = {m}
    BY <2>2 DEF Marks, NodeOf
  <2>6. CombiningAt(n)
    BY DEF Combining
  <2>7. Coalesced(m) \in Entry
    BY <2>2, MadeEntries
  <2>8. Range(queue') = Range(queue) \cup {Coalesced(m)}
    BY <1>1, <2>2, <2>7, RangeOfAppend
  <2>9. AtMostOne(queue', Coalesced(n))
    <3>1. AtMostOne(queue, Coalesced(n)) /\ (n = m => Coalesced(n) \notin Range(queue))
      BY <2>5, <2>6 DEF CombiningAt
    <3>2. n # m => Coalesced(m) # Coalesced(n)
      BY DEF Coalesced
    <3> QED
      BY <1>1, <2>2, <2>7, <3>1, <3>2, AtMostOneAppend
  <2>10. Coalesced(m) = Coalesced(n) => m = n
    BY DEF Coalesced
  <2>11. CASE n = m
    <3>1. \A x \in Workers : n \notin Marks(worker'[x])
      BY <2>1, <2>4, <2>5, <2>6, <2>11 DEF CombiningAt
    <3> QED
      BY <2>2, <2>5, <2>6, <2>8, <2>9, <2>11, <3>1 DEF CombiningAt, Pending
  <2>12. CASE n # m
    <3>1. \A x \in Workers : n \in Marks(worker'[x]) <=> n \in Marks(worker[x])
      BY <2>1, <2>4, <2>5, <2>12
    <3>2. Coalesced(n) \in Range(queue') <=> Coalesced(n) \in Range(queue)
      BY <2>8, <2>10, <2>12
    <3> QED
      BY <2>2, <2>6, <2>9, <3>1, <3>2 DEF CombiningAt, Pending
  <2> QED
    BY <2>11, <2>12
<1>5. CASE Reset(w)
  <2>1. /\ Becomes(w, Idle) /\ o.entry.type = "coalesce" /\ m \in Merging /\ o.pc # "idle"
        /\ oValue' = [oValue EXCEPT ![m] = NoValue] /\ queue' = queue
    BY <1>5, IdleTurn DEF Reset
  <2>2. SUFFICES ASSUME NEW n \in Merging
                 PROVE  CombiningAt(n)'
    BY DEF Combining
  <2>3. worker'[w] = Idle /\ \A x \in Workers \ {w} : worker'[x] = worker[x]
    BY <2>1, Put
  <2>4. Marks(o) = {m} /\ Marks(Idle) = {}
    BY <2>1, IdleFacts DEF Marks, NodeOf
  <2>5. CombiningAt(n)
    BY DEF Combining
  <2>6. oValue'[n] = IF n = m THEN NoValue ELSE oValue[n]
    BY <1>1, <2>1
  <2>7. CASE n = m
    <3>1. \A x \in Workers : n \notin Marks(worker'[x])
      BY <2>3, <2>4, <2>5, <2>7 DEF CombiningAt
    <3>2. Coalesced(n) \notin Range(queue)
      BY <2>4, <2>5, <2>7 DEF CombiningAt
    <3> QED
      BY <2>1, <2>5, <2>6, <2>7, <3>1, <3>2 DEF CombiningAt, Pending
  <2>8. CASE n # m
    <3>1. \A x \in Workers : n \in Marks(worker'[x]) <=> n \in Marks(worker[x])
      BY <2>3, <2>4, <2>8
    <3> QED
      BY <2>1, <2>5, <2>6, <2>8, <3>1 DEF CombiningAt, Pending
  <2> QED
    BY <2>7, <2>8
<1>6. CASE Unfire(w)
  <2>1. Becomes(w, Idle) /\ o.entry.type = "apply" /\ o.pc # "idle" /\ At(w, "unfire")
        /\ oValue' = oValue /\ queue' = queue
    BY <1>6, IdleTurn DEF Unfire
  <2>2. Marks(Idle) = Marks(o)
    BY <2>1, IdleFacts DEF Marks, At
  <2> QED
    BY <2>1, <2>2, CombiningKept
<1>7. CASE HoldTest(w)
  <2>1. PICK r : Becomes(w, r) /\ r.pc = "holdWrite" /\ r.entry = o.entry
    BY <1>7, HoldTestTurn
  <2>2. Marks(r) = Marks(o)
    BY <1>7, <2>1, HoldTestTurn DEF Marks
  <2> QED
    BY <1>7, <2>1, <2>2, CombiningKept DEF HoldTest
<1>8. CASE HoldWrite(w)
  <2>1. PICK r : Becomes(w, r) /\ r.entry = o.entry /\ r.pc \in {"holdPost", "send"}
    BY <1>8, HoldWriteTurn
  <2>2. Marks(r) = Marks(o)
    BY <1>8, <2>1, HoldWriteTurn DEF Marks
  <2> QED
    BY <1>8, <2>1, <2>2, CombiningKept DEF HoldWrite
<1>9. CASE SendTest(w) \/ SendClear(w)
  <2>1. PICK r : Becomes(w, r) /\ r.entry = o.entry /\ r.pc \in {"clear", "fire"}
    BY <1>9, SendTurn
  <2>2. o.pc \in {"send", "clear"}
    BY <1>9, SendTurn
  <2>3. Marks(r) = Marks(o)
    BY <2>1, <2>2 DEF Marks
  <2> QED
    BY <1>9, <2>1, <2>3, CombiningKept DEF SendTest, SendClear
<1> QED
  BY <1>2, <1>3, <1>4, <1>5, <1>6, <1>7, <1>8, <1>9 DEF Turn

-----------------------------------------------------------------------------
(* What a transaction leaves to be undone.                                 *)

\* Posts are only added, until they are done.
LEMMA PostsGrow ==
  ASSUME Typed, Staged, CellsHaveValue, (User /\ ~RunPost) \/ \E w \in Workers : Worker(w)
  PROVE  Range(posts) \subseteq Range(posts')
<1>1. posts \in Seq(Post)
  BY DEF Typed
<1>2. ASSUME NEW ps \in Seq(Post), posts' = posts \o ps
      PROVE  Range(posts) \subseteq Range(posts')
  BY <1>1, <1>2, RangeOfConcat
<1>3. ASSUME NEW p \in Post, posts' = Append(posts, p)
      PROVE  Range(posts) \subseteq Range(posts')
  BY <1>1, <1>3, RangeOfAppend
<1>4. CASE UserSend
  <2>1. PICK s \in Sinks : posts' = posts \o ClearPost(s)
    BY <1>4 DEF UserSend
  <2>2. ClearOf(s) \in Post
    BY DEF Sinks, NodesOf, ClearOf, Post
  <2>3. ClearPost(s) \in Seq(Post)
    BY <2>2 DEF ClearPost, ClearOf
  <2> QED
    BY <1>2, <2>1, <2>3
<1>5. CASE Listen
  <2>1. PICK n \in Late : posts' = posts \o ClearPosts(Sparks(n))
    BY <1>5 DEF Listen
  <2> QED
    BY <1>2, <2>1, ClearPostsFacts
<1>6. CASE Unlisten
  <2>1. PICK n \in Late : posts' = Append(posts, [type |-> "unlink", node |-> n])
    BY <1>6 DEF Unlisten
  <2>2. [type |-> "unlink", node |-> n] \in Post
    BY GraphAssumption DEF Post, Listeners, NodesOf
  <2> QED
    BY <1>3, <2>1, <2>2
<1>7. CASE Open \/ Close \/ Drained \/ Closed
  BY <1>7 DEF Open, Close, Drained, Closed
<1>8. ASSUME NEW w \in Workers, HoldPost(w) \/ Kill(w) \/ SendClear(w)
      PROVE  Range(posts) \subseteq Range(posts')
  <2>1. NodeOf(w) \in Nodes
    BY <1>8, ArgFacts DEF HoldPost, Kill, SendClear, At
  <2>2. HoldPost(w) => NodeOf(w) \in Cells
    BY DEF HoldPost, At, Staged, Stage, NodeOf
  <2>3. /\ HoldPost(w) => FinalizeOf(NodeOf(w)) \in Post
        /\ ClearOf(NodeOf(w)) \in Post /\ [type |-> "unlink", node |-> NodeOf(w)] \in Post
    BY <2>1, <2>2 DEF Post, FinalizeOf, ClearOf
  <2> QED
    BY <1>3, <1>8, <2>3 DEF HoldPost, Kill, SendClear, FinalizeOf, ClearOf
<1>9. ASSUME NEW w \in Workers, Worker(w), ~(HoldPost(w) \/ Kill(w) \/ SendClear(w))
      PROVE  posts' = posts
  BY <1>9 DEF Worker, Handle, Sending, Take, Forward, Filter, Snapshot, Hear, CoalesceFirst,
       CoalesceMore, Announce, SendCombined, Reset, HoldTest, HoldWrite, CollectRead,
       CollectWrite, OnceTest, KillTest, ApplySet, ApplyTest, ApplyPush, ApplyRead,
       ApplyTo, Unfire, SendTest, Fire, Ship, Shipped
<1> QED
  BY <1>4, <1>5, <1>6, <1>7, <1>8, <1>9 DEF User

\* What a post does, and that the others are still to be done.
LEMMA PostDone ==
  ASSUME Typed, Calm, RunPost
  PROVE  LET p == Head(posts)
         IN  /\ p \in Post /\ Range(posts) = {p} \cup Range(posts')
             /\ \A w \in Workers : At(w, "idle") /\ worker'[w] = worker[w]
             /\ \/ /\ p.type = "clear" /\ firings' = [firings EXCEPT ![p.node] = <<>>]
                   /\ UNCHANGED <<current, update>>
                \/ /\ p.type = "finalize" /\ p.node \in Cells /\ UNCHANGED firings
                   /\ current' = [current EXCEPT ![p.node] = update[p.node]]
                   /\ update' = [update EXCEPT ![p.node] = NoValue]
                \/ p.type = "unlink" /\ UNCHANGED <<firings, current, update>>
<1> DEFINE p == Head(posts)
<1>1. posts \in Seq(Post) /\ posts # <<>> /\ posts' = Tail(posts) /\ phase = "post"
      /\ worker' = worker
  BY DEF Typed, RunPost
<1>2. p \in Post /\ Range(posts) = {p} \cup Range(posts')
  BY <1>1, RangeOfQueue
<1>3. \/ p.type = "clear" /\ ClearFirings(p.node)
      \/ p.type = "finalize" /\ Finalize(p.node)
      \/ p.type = "unlink" /\ Unlink(p.node)
  BY DEF RunPost
<1> HIDE DEF p
<1>4. p.type = "finalize" => p.node \in Cells
  BY <1>2 DEF Post
<1>5. \A w \in Workers : At(w, "idle") /\ worker'[w] = worker[w]
  BY <1>1 DEF Calm
<1> QED
  BY <1>2, <1>3, <1>4, <1>5 DEF ClearFirings, Finalize, Unlink, cells, p

LEMMA UserClearing ==
  ASSUME Typed, Staged, Calm, CellsHaveValue, Clearing, User
  PROVE  Clearing'
<1>1. UNCHANGED worker /\ firings \in [Nodes -> Seq(Val)]
  BY UserTypes DEF Typed
<1>2. CASE RunPost
  <2> DEFINE p == Head(posts)
  <2>1. /\ p \in Post /\ Range(posts) = {p} \cup Range(posts')
        /\ \A w \in Workers : At(w, "idle")
        /\ \/ p.type = "clear" /\ firings' = [firings EXCEPT ![p.node] = <<>>]
           \/ p.type # "clear" /\ UNCHANGED firings
    BY <1>2, PostDone
  <2> HIDE DEF p
  <2>2. ASSUME NEW n \in Nodes, firings'[n] # <<>>
        PROVE  ClearOf(n) \in Range(posts')
    <3>1. firings[n] # <<>> /\ p # ClearOf(n)
      BY <1>1, <2>1, <2>2 DEF ClearOf
    <3> QED
      BY <2>1, <3>1 DEF Clearing
  <2>3. \A w \in Workers : ~At(w, "fire")'
    BY <1>1, <2>1 DEF At
  <2> QED
    BY <2>2, <2>3 DEF Clearing
<1>3. CASE ~RunPost
  <2>1. Range(posts) \subseteq Range(posts')
    BY <1>3, PostsGrow
  <2>2. ASSUME NEW n \in Nodes, firings'[n] # <<>>
        PROVE  ClearOf(n) \in Range(posts')
    <3>1. CASE UserSend
      <4>1. PICK s \in Sinks, v \in Values : posts' = posts \o ClearPost(s)
                                /\ firings' = [firings EXCEPT ![s] = <<<<v>>>> \o @]
        BY <3>1 DEF UserSend
      <4>2. CASE firings[n] # <<>>
        BY <2>1, <4>2 DEF Clearing
      <4>3. CASE firings[n] = <<>>
        <5>1. n = s
          BY <1>1, <2>2, <4>1, <4>3
        <5>2. ClearPost(s) = <<ClearOf(n)>> /\ ClearOf(n) \in Post
          BY <4>3, <5>1 DEF ClearPost, ClearOf, Post
        <5>3. posts \in Seq(Post) /\ posts' = Append(posts, ClearOf(n))
          BY <4>1, <5>2, AppendIsConcat DEF Typed
        <5> QED
          BY <5>2, <5>3, RangeOfAppend
      <4> QED
        BY <4>2, <4>3
    <3>2. CASE Listen
      <4>1. PICK l \in Late :
              /\ firings' = [m \in Nodes |-> IF m \in Sparks(l) THEN <<<<>>>> ELSE firings[m]]
              /\ posts' = posts \o ClearPosts(Sparks(l))
        BY <3>2 DEF Listen
      <4>2. CASE n \in Sparks(l)
        <5>1. posts \in Seq(Post) /\ ClearPosts(Sparks(l)) \in Seq(Post)
              /\ ClearOf(n) \in Range(ClearPosts(Sparks(l)))
          BY <4>2, ClearPostsFacts DEF Typed
        <5> QED
          BY <4>1, <5>1, RangeOfConcat
      <4>3. CASE n \notin Sparks(l)
        BY <2>1, <2>2, <4>1, <4>3 DEF Clearing
      <4> QED
        BY <4>2, <4>3
    <3>3. CASE Open \/ Unlisten \/ Close \/ Drained \/ Closed
      <4>1. firings' = firings
        BY <3>3 DEF Open, Unlisten, Close, Drained, Closed
      <4> QED
        BY <2>1, <2>2, <4>1 DEF Clearing
    <3> QED
      BY <1>3, <3>1, <3>2, <3>3 DEF User
  <2>3. ASSUME NEW w \in Workers, At(w, "fire")'
        PROVE  ClearOf(NodeOf(w)') \in Range(posts')
    BY <1>1, <2>1, <2>3 DEF Clearing, At, NodeOf
  <2> QED
    BY <2>2, <2>3 DEF Clearing
<1> QED
  BY <1>2, <1>3

LEMMA WorkerClearing ==
  ASSUME Typed, Staged, Combining, CellsHaveValue, Clearing, NEW w \in Workers, Worker(w)
  PROVE  Clearing'
<1> DEFINE o == worker[w]
           n == NodeOf(w)
           Goal == \E r : Becomes(w, r) /\ (r.pc = "fire" => ClearOf(r.entry.node) \in Range(posts'))
<1>1. Range(posts) \subseteq Range(posts') /\ posts \in Seq(Post)
      /\ firings \in [Nodes -> Seq(Val)]
  BY PostsGrow DEF Typed
<1>2. Goal
  <2>1. CASE Ordinary(w)
    BY <2>1, OrdinaryStep DEF Alike
  <2>2. CASE Take(w)
    BY <2>2, TakeTurn, BeginFacts
  <2>3. CASE CoalesceFirst(w)
    BY <2>3, CoalesceFirstTurn
  <2>4. CASE Announce(w)
    BY <2>4, AnnounceTurn
  <2>5. CASE Reset(w) \/ Unfire(w)
    BY <2>5, IdleTurn, IdleFacts
  <2>6. CASE HoldTest(w)
    BY <2>6, HoldTestTurn
  <2>7. CASE HoldWrite(w)
    BY <2>7, HoldWriteTurn
  <2>8. CASE SendTest(w) \/ SendClear(w)
    <3>1. n \in Nodes
      BY <2>8, SendTurn
    <3>2. PICK r : /\ Becomes(w, r) /\ r.entry = o.entry
                   /\ r.pc = IF SendTest(w) /\ firings[n] = <<>> THEN "clear" ELSE "fire"
      BY <2>8, SendTurn
    <3>3. CASE SendTest(w)
      BY <1>1, <3>1, <3>2, <3>3 DEF Clearing, NodeOf
    <3>4. CASE SendClear(w)
      <4>1. posts' = Append(posts, ClearOf(n)) /\ ClearOf(n) \in Post
        BY <3>1, <3>4 DEF SendClear, ClearOf, Post
      <4>2. ClearOf(n) \in Range(posts')
        BY <1>1, <4>1, RangeOfAppend
      <4> QED
        BY <3>2, <4>2 DEF NodeOf
    <3> QED
      BY <2>8, <3>3, <3>4
  <2> QED
    BY <2>1, <2>2, <2>3, <2>4, <2>5, <2>6, <2>7, <2>8, Sorted DEF Turn
<1>3. ASSUME NEW m \in Nodes, firings'[m] # <<>>
      PROVE  ClearOf(m) \in Range(posts')
  <2>1. CASE Fire(w)
    <3>1. ClearOf(n) \in Range(posts) /\ firings' = [firings EXCEPT ![n] = <<o.val>> \o @]
      BY <2>1 DEF Fire, Clearing
    <3>2. CASE m = n
      BY <1>1, <3>1, <3>2
    <3>3. CASE m # n
      <4>1. firings'[m] = firings[m]
        BY <1>1, <3>1, <3>3
      <4> QED
        BY <1>1, <1>3, <4>1 DEF Clearing
    <3> QED
      BY <3>2, <3>3
  <2>2. CASE ~Fire(w)
    <3>1. firings' = firings
      BY <2>2 DEF Worker, Handle, Sending, Take, Forward, Filter, Snapshot, Hear, CoalesceFirst,
         CoalesceMore, Announce, SendCombined, Reset, HoldTest, HoldWrite, HoldPost, CollectRead,
         CollectWrite, OnceTest, KillTest, Kill, ApplySet, ApplyTest, ApplyPush, ApplyRead,
         ApplyTo, Unfire, SendTest, SendClear, Ship, Shipped
    <3> QED
      BY <1>1, <1>3, <3>1 DEF Clearing
  <2> QED
    BY <2>1, <2>2
<1>4. ASSUME NEW x \in Workers, worker'[x].pc = "fire"
      PROVE  ClearOf(worker'[x].entry.node) \in Range(posts')
  <2>1. CASE x = w
    BY <1>2, <1>4, <2>1, Put
  <2>2. CASE x # w
    <3>1. worker'[x] = worker[x]
      BY <1>2, <2>2, Put
    <3> QED
      BY <1>1, <1>4, <3>1 DEF Clearing, At, NodeOf
  <2> QED
    BY <2>1, <2>2
<1> QED
  BY <1>3, <1>4 DEF Clearing, At, NodeOf

LEMMA UserUpdating ==
  ASSUME Typed, Staged, Calm, CellsHaveValue, Updating, User
  PROVE  Updating'
<1>1. UNCHANGED worker /\ update \in [Cells -> Optional]
  BY UserTypes DEF Typed
<1>2. CASE RunPost
  <2> DEFINE p == Head(posts)
  <2>1. /\ p \in Post /\ Range(posts) = {p} \cup Range(posts')
        /\ \A w \in Workers : At(w, "idle") /\ worker'[w] = worker[w]
        /\ \/ p.type = "finalize" /\ p.node \in Cells
              /\ update' = [update EXCEPT ![p.node] = NoValue]
           \/ p.type # "finalize" /\ UNCHANGED update
    BY <1>2, PostDone
  <2> HIDE DEF p
  <2>2. ASSUME NEW c \in Cells, update'[c] # NoValue
        PROVE  FinalizeOf(c) \in Range(posts')
    <3>1. update[c] # NoValue /\ p # FinalizeOf(c)
      BY <1>1, <2>1, <2>2 DEF FinalizeOf
    <3>2. FinalizeOf(c) \in Range(posts)
      BY <2>1, <3>1 DEF Updating, At
    <3> QED
      BY <2>1, <3>1, <3>2
  <2>3. \A w \in Workers : ~At(w, "holdWrite")'
    BY <2>1 DEF At
  <2> QED
    BY <2>2, <2>3 DEF Updating
<1>3. CASE ~RunPost
  <2>1. Range(posts) \subseteq Range(posts')
    BY <1>3, PostsGrow
  <2>2. update' = update
    BY <1>3 DEF User, Open, UserSend, Listen, Unlisten, Close, Drained, Closed, cells
  <2>3. \A w \in Workers : /\ NodeOf(w)' = NodeOf(w) /\ worker'[w].first = worker[w].first
                           /\ \A pc \in {"holdPost", "holdWrite"} : At(w, pc)' = At(w, pc)
    BY <1>1 DEF NodeOf, At
  <2> QED
    BY <2>1, <2>2, <2>3 DEF Updating
<1> QED
  BY <1>2, <1>3

LEMMA WorkerUpdating ==
  ASSUME Typed, Staged, Combining, CellsHaveValue, Updating, NEW w \in Workers, Worker(w)
  PROVE  Updating'
<1> DEFINE o == worker[w]
           n == NodeOf(w)
<1>1. Range(posts) \subseteq Range(posts') /\ posts \in Seq(Post)
      /\ update \in [Cells -> Optional]
  BY PostsGrow DEF Typed
<1>2. ~HoldWrite(w) => update' = update
  BY DEF Worker, Handle, Sending, Take, Forward, Filter, Snapshot, Hear, CoalesceFirst,
         CoalesceMore, Announce, SendCombined, Reset, HoldTest, HoldPost, CollectRead,
         CollectWrite, OnceTest, KillTest, Kill, ApplySet, ApplyTest, ApplyPush, ApplyRead,
         ApplyTo, Unfire, SendTest, SendClear, Fire, Ship, Shipped, cells
<1>3. HoldWrite(w) => /\ n \in Cells /\ update' = [update EXCEPT ![n] = Arg(w)]
                      /\ Arg(w) # NoValue
  <2>1. HoldWrite(w) => n \in Cells /\ Arg(w) \in Val
    BY HoldWriteTurn
  <2> QED
    BY <2>1, ValuesAssumption DEF HoldWrite, Val
<1>4. \A c \in Cells : update[c] # NoValue => update'[c] # NoValue
  BY <1>1, <1>2, <1>3
<1>5. PICK r : /\ Becomes(w, r)
               /\ r.pc = "holdWrite" /\ ~r.first => update'[r.entry.node] # NoValue
               /\ HoldWrite(w) => /\ r.entry = o.entry
                                  /\ r.pc = IF o.first THEN "holdPost" ELSE "send"
  <2>1. CASE Ordinary(w)
    <3>1. ~HoldWrite(w)
      BY <2>1 DEF Ordinary, Forward, Filter, Snapshot, Hear, CoalesceMore, SendCombined, HoldPost,
         CollectRead, CollectWrite, OnceTest, KillTest, Kill, ApplySet, ApplyTest, ApplyPush,
         ApplyRead, ApplyTo, Fire, Ship, Shipped, At, HoldWrite
    <3> QED
      BY <2>1, <3>1, OrdinaryStep DEF Alike
  <2>2. CASE Take(w)
    <3>1. ~HoldWrite(w)
      BY <2>2 DEF Take, HoldWrite, At
    <3> QED
      BY <2>2, <3>1, TakeTurn, BeginFacts
  <2>3. CASE CoalesceFirst(w)
    <3>1. ~HoldWrite(w)
      BY <2>3 DEF CoalesceFirst, HoldWrite, At
    <3> QED
      BY <2>3, <3>1, CoalesceFirstTurn
  <2>4. CASE Announce(w)
    <3>1. ~HoldWrite(w)
      BY <2>4 DEF Announce, HoldWrite, At
    <3> QED
      BY <2>4, <3>1, AnnounceTurn
  <2>5. CASE Reset(w) \/ Unfire(w)
    <3>1. ~HoldWrite(w)
      BY <2>5 DEF Reset, Unfire, HoldWrite, At
    <3> QED
      BY <2>5, <3>1, IdleTurn, IdleFacts
  <2>6. CASE HoldTest(w)
    <3>1. ~HoldWrite(w)
      BY <2>6 DEF HoldTest, HoldWrite, At
    <3> QED
      BY <1>2, <2>6, <3>1, HoldTestTurn DEF NodeOf
  <2>7. CASE HoldWrite(w)
    BY <2>7, HoldWriteTurn
  <2>8. CASE SendTest(w) \/ SendClear(w)
    <3>1. ~HoldWrite(w)
      BY <2>8 DEF SendTest, SendClear, HoldWrite, At
    <3> QED
      BY <2>8, <3>1, SendTurn
  <2> QED
    BY <2>1, <2>2, <2>3, <2>4, <2>5, <2>6, <2>7, <2>8, Sorted DEF Turn
<1>6. worker'[w] = r /\ \A x \in Workers \ {w} : worker'[x] = worker[x]
  BY <1>5, Put
<1>7. At(w, "holdPost") => HoldPost(w)
  BY DEF Worker, Handle, Sending, Take, Forward, Filter, Snapshot, Hear, CoalesceFirst,
         CoalesceMore, Announce, SendCombined, Reset, HoldTest, HoldWrite, CollectRead,
         CollectWrite, OnceTest, KillTest, Kill, ApplySet, ApplyTest, ApplyPush, ApplyRead,
         ApplyTo, Unfire, SendTest, SendClear, Fire, Ship, Shipped, At
<1>8. HoldPost(w) => FinalizeOf(n) \in Range(posts')
  <2>1. ASSUME HoldPost(w) PROVE n \in Cells
    BY <2>1 DEF HoldPost, At, Staged, Stage, NodeOf
  <2> QED
    BY <1>1, <2>1, RangeOfAppend DEF HoldPost, FinalizeOf, Post
<1>9. ASSUME NEW c \in Cells, update'[c] # NoValue
      PROVE  \/ FinalizeOf(c) \in Range(posts')
             \/ \E x \in Workers : At(x, "holdPost")' /\ NodeOf(x)' = c
  <2>1. CASE HoldWrite(w) /\ c = n /\ o.first
    <3>1. worker'[w].pc = "holdPost" /\ worker'[w].entry.node = c
      BY <1>5, <1>6, <2>1 DEF NodeOf
    <3> QED
      BY <3>1 DEF At, NodeOf
  <2>2. CASE ~(HoldWrite(w) /\ c = n /\ o.first)
    <3>1. update[c] # NoValue
      <4>1. CASE HoldWrite(w) /\ c = n
        BY <2>2, <4>1 DEF Updating, HoldWrite
      <4>2. CASE ~HoldWrite(w) \/ c # n
        BY <1>1, <1>2, <1>3, <1>9, <4>2
      <4> QED
        BY <4>1, <4>2
    <3>2. CASE FinalizeOf(c) \in Range(posts)
      BY <1>1, <3>2
    <3>3. ASSUME NEW x \in Workers, At(x, "holdPost"), NodeOf(x) = c
          PROVE  \/ FinalizeOf(c) \in Range(posts')
                 \/ \E y \in Workers : At(y, "holdPost")' /\ NodeOf(y)' = c
      <4>1. CASE x = w
        BY <1>7, <1>8, <3>3, <4>1
      <4>2. CASE x # w
        BY <1>6, <3>3, <4>2 DEF At, NodeOf
      <4> QED
        BY <4>1, <4>2
    <3> QED
      BY <3>1, <3>2, <3>3 DEF Updating
  <2> QED
    BY <2>1, <2>2
<1>10. ASSUME NEW x \in Workers, At(x, "holdWrite")', ~worker'[x].first
       PROVE  update'[NodeOf(x)'] # NoValue
  <2>1. CASE x = w
    BY <1>5, <1>6, <1>10, <2>1 DEF At, NodeOf
  <2>2. CASE x # w
    <3>1. worker'[x] = worker[x]
      BY <1>6, <2>2
    <3>2. NodeOf(x) \in Cells /\ update[NodeOf(x)] # NoValue
      BY <1>10, <3>1 DEF Updating, Staged, Stage, At, NodeOf
    <3> QED
      BY <1>4, <3>1, <3>2 DEF NodeOf
  <2> QED
    BY <2>1, <2>2
<1> QED
  BY <1>9, <1>10 DEF Updating

LEMMA UserApplying ==
  ASSUME Typed, Calm, CellsHaveValue, Applying, User
  PROVE  Applying'
<1>1. worker' = worker /\ applied' = applied /\ queue \in Seq(Entry)
  BY UserTypes DEF User, Open, UserSend, Listen, Unlisten, Close, Drained, RunPost, Closed,
     states, Typed
<1>2. Range(queue) \subseteq Range(queue')
  <2>1. ASSUME NEW es \in Seq(Entry), queue' = queue \o es
        PROVE  Range(queue) \subseteq Range(queue')
    BY <1>1, <2>1, RangeOfConcat
  <2> QED
    BY <2>1, UserQueue
<1> QED
  BY <1>1, <1>2 DEF Applying, At

\* The mark of an apply_entry is set when one is queued, and taken away when one
\* is done.
LEMMA Marked ==
  ASSUME Typed, Staged, NEW w \in Workers, Worker(w), NEW n \in Applies, applied'[n].fired
  PROVE  \/ ApplyPush(w) /\ queue' = Append(queue, Applied(n))
         \/ applied[n].fired /\ ~(Unfire(w) /\ NodeOf(w) = n)
<1> DEFINE m == NodeOf(w)
<1>1. applied \in [Applies -> [f : Val, a : Val, fired : BOOLEAN]]
  BY DEF Typed
<1>2. CASE ApplySet(w)
  <2>1. m \in Parts /\ m \in Nodes
    BY <1>2, ArgFacts DEF ApplySet, At
  <2>2. ApplyOf[m] \in Applies
    BY <2>1, KindFacts
  <2> DEFINE was == applied[ApplyOf[m]]
             is == IF Kind[m] = "applyF" THEN [was EXCEPT !.f = Arg(w)] ELSE [was EXCEPT !.a = Arg(w)]
  <2>3. applied' = [applied EXCEPT ![ApplyOf[m]] = is]
    BY <1>1, <1>2, <2>2 DEF ApplySet
  <2>4. is.fired = was.fired
    BY <1>1, <2>2
  <2> HIDE DEF is
  <2>5. applied'[n].fired = applied[n].fired
    BY <1>1, <2>2, <2>3, <2>4
  <2>6. ~Unfire(w)
    BY <1>2 DEF ApplySet, Unfire, At
  <2> QED
    BY <2>5, <2>6
<1>3. CASE ApplyPush(w)
  <2>1. m \in Parts /\ m \in Nodes
    BY <1>3, ArgFacts DEF ApplyPush, At, Staged, Stage
  <2>2. ApplyOf[m] \in Applies
    BY <2>1, KindFacts
  <2>3. applied' = [applied EXCEPT ![ApplyOf[m]] = [@ EXCEPT !.fired = TRUE]]
        /\ queue' = Append(queue, Applied(ApplyOf[m])) /\ ~Unfire(w)
    BY <1>3 DEF ApplyPush, Unfire, At
  <2>4. n # ApplyOf[m] => applied'[n] = applied[n]
    BY <1>1, <2>2, <2>3
  <2> QED
    BY <1>3, <2>3, <2>4
<1>4. CASE Unfire(w)
  <2>1. m \in Applies /\ applied' = [applied EXCEPT ![m] = [@ EXCEPT !.fired = FALSE]]
    BY <1>4, IdleTurn DEF Unfire
  <2>2. n # m => applied'[n] = applied[n]
    BY <1>1, <2>1
  <2>3. applied'[m].fired = FALSE
    BY <1>1, <2>1
  <2> QED
    BY <2>2, <2>3
<1>5. CASE ~(ApplySet(w) \/ ApplyPush(w) \/ Unfire(w))
  <2>1. applied' = applied
    BY <1>5 DEF Worker, Handle, Sending, Take, Forward, Filter, Snapshot, Hear, CoalesceFirst,
         CoalesceMore, Announce, SendCombined, Reset, HoldTest, HoldWrite, HoldPost, CollectRead,
         CollectWrite, OnceTest, KillTest, Kill, ApplyTest, ApplyRead,
         ApplyTo, SendTest, SendClear, Fire, Ship, Shipped, states
  <2> QED
    BY <1>5, <2>1
<1> QED
  BY <1>2, <1>3, <1>4, <1>5

\* What a worker does to the queue.
LEMMA WorkerQueue ==
  ASSUME Typed, Staged, NEW w \in Workers, Worker(w)
  PROVE  IF Take(w) THEN Range(queue) = {Head(queue)} \cup Range(queue')
                    ELSE Range(queue) \subseteq Range(queue')
<1>1. queue \in Seq(Entry)
  BY DEF Typed
<1>2. CASE Take(w)
  BY <1>1, <1>2, RangeOfQueue DEF Take
<1>3. CASE Ordinary(w)
  <2>1. ~Take(w)
    BY <1>3 DEF Ordinary, Forward, Filter, Snapshot, Hear, CoalesceMore, SendCombined, HoldPost,
       CollectRead, CollectWrite, OnceTest, KillTest, Kill, ApplySet, ApplyTest, ApplyPush,
       ApplyRead, ApplyTo, Fire, Ship, Shipped, At, Take
  <2>2. ASSUME NEW e \in Entry, queue' = Append(queue, e)
        PROVE  Range(queue) \subseteq Range(queue')
    BY <1>1, <2>2, RangeOfAppend
  <2> QED
    BY <1>3, <2>1, <2>2, OrdinaryQueue
<1>4. CASE Announce(w)
  <2>1. Coalesced(NodeOf(w)) \in Entry
    BY <1>4, AnnounceTurn, MadeEntries
  <2>2. queue' = Append(queue, Coalesced(NodeOf(w))) /\ ~Take(w)
    BY <1>4 DEF Announce, Take, At
  <2> QED
    BY <1>1, <2>1, <2>2, RangeOfAppend
<1>5. CASE \/ CoalesceFirst(w) \/ Reset(w) \/ Unfire(w) \/ HoldTest(w) \/ HoldWrite(w)
           \/ SendTest(w) \/ SendClear(w)
  BY <1>5 DEF CoalesceFirst, Reset, Unfire, HoldTest, HoldWrite, SendTest, SendClear, Take, At
<1> QED
  BY <1>2, <1>3, <1>4, <1>5, Sorted DEF Turn

LEMMA WorkerApplying ==
  ASSUME Typed, Staged, Combining, CellsHaveValue, Applying, NEW w \in Workers, Worker(w)
  PROVE  Applying'
<1> SUFFICES ASSUME NEW n \in Applies, applied'[n].fired
             PROVE  \/ Applied(n) \in Range(queue')
                    \/ \E x \in Workers : worker'[x].entry = Applied(n) /\ worker'[x].pc # "idle"
  BY DEF Applying, At
<1> DEFINE o == worker[w]
<1>1. CASE ApplyPush(w) /\ queue' = Append(queue, Applied(n))
  BY <1>1, MadeEntries, RangeOfAppend DEF Typed
<1>2. CASE applied[n].fired /\ ~(Unfire(w) /\ NodeOf(w) = n)
  <2>1. CASE Applied(n) \in Range(queue)
    <3>1. CASE Take(w) /\ Applied(n) = Head(queue)
      <4>1. Becomes(w, Begin(Head(queue))) /\ Head(queue) \in Entry
        BY <3>1, TakeTurn
      <4>2. Begin(Head(queue)).entry = Head(queue) /\ Begin(Head(queue)).pc # "idle"
        BY <4>1, BeginFacts
      <4>3. worker'[w] = Begin(Head(queue))
        BY <4>1, Put
      <4> QED
        BY <3>1, <4>2, <4>3
    <3>2. CASE ~(Take(w) /\ Applied(n) = Head(queue))
      BY <2>1, <3>2, WorkerQueue
    <3> QED
      BY <3>1, <3>2
  <2>2. ASSUME NEW x \in Workers \ {w}, worker[x].entry = Applied(n), ~At(x, "idle")
        PROVE  worker'[x].entry = Applied(n) /\ worker'[x].pc # "idle"
    <3>1. worker'[x] = worker[x]
      BY WorkerBecomes, Put
    <3> QED
      BY <2>2, <3>1 DEF At
  <2>3. ASSUME o.entry = Applied(n), ~At(w, "idle")
        PROVE  worker'[w].entry = Applied(n) /\ worker'[w].pc # "idle"
    <3>1. o.entry.type = "apply" /\ NodeOf(w) = n
      BY <2>3 DEF Applied, NodeOf
    <3>2. CASE Ordinary(w)
      <4>1. PICK r : Becomes(w, r) /\ Alike(r, o)
        BY <3>2, OrdinaryStep
      <4> QED
        BY <2>3, <3>1, <4>1, Put DEF Alike
    <3>3. CASE SendTest(w) \/ SendClear(w)
      <4>1. PICK r : Becomes(w, r) /\ r.entry = o.entry /\ r.pc \in {"clear", "fire"}
        BY <3>3, SendTurn
      <4> QED
        BY <2>3, <4>1, Put
    <3>4. CASE Take(w)
      BY <2>3, <3>4 DEF Take
    <3>5. CASE CoalesceFirst(w) \/ Announce(w) \/ HoldTest(w) \/ HoldWrite(w) \/ Reset(w)
      BY <3>1, <3>5, CoalesceFirstTurn, AnnounceTurn, HoldTestTurn, HoldWriteTurn, IdleTurn
    <3>6. CASE Unfire(w)
      BY <1>2, <3>1, <3>6
    <3> QED
      BY <3>2, <3>3, <3>4, <3>5, <3>6, Sorted DEF Turn
  <2> QED
    BY <1>2, <2>1, <2>2, <2>3 DEF Applying
<1> QED
  BY <1>1, <1>2, Marked

-----------------------------------------------------------------------------
(* The invariant is kept.                                                  *)

\* The optionals of the start are empty, and its values are values.
LEMMA InitInv == Init => Inv
<1> SUFFICES ASSUME Init PROVE Inv
  OBVIOUS
<1>1. <<InitValue>> \in Val /\ <<>> \in Seq(Val) /\ NoValue \notin Val
  BY ValuesAssumption DEF Val
<1>2. \A w \in Workers : worker[w] = Idle
  BY DEF Init
<1>3. /\ queue = <<>> /\ posts = <<>> /\ phase = "rest"
      /\ \A w \in Workers : worker[w].pc = "idle" /\ Marks(worker[w]) = {} /\ Stage(worker[w])
  BY <1>2, IdleFacts DEF Init
<1>4. Typed
  <2>1. worker \in [Workers -> Record]
    BY IdleFacts DEF Init
  <2>2. targets \in [Nodes -> Seq(Nodes)] /\ firings \in [Nodes -> Seq(Val)]
    BY <1>1, GraphAssumption DEF Init
  <2>3. /\ oValue \in [Merging -> Optional] /\ current \in [Cells -> Optional]
        /\ update \in [Cells -> Optional] /\ pState \in [NodesOf("collect") -> Val]
        /\ ppKill \in [NodesOf("once") -> BOOLEAN]
    BY <1>1 DEF Init, Optional
  <2>4. applied \in [Applies -> [f : Val, a : Val, fired : BOOLEAN]]
    BY <1>1 DEF Init
  <2>5. queue \in Seq(Entry) /\ posts \in Seq(Post)
    BY <1>3
  <2>6. txns \in 0 .. MaxTxns /\ sends \in Seq(Sinks \X Values) /\ Len(sends) <= MaxSends
    BY PropagationBoundsAssumption DEF Init
  <2> QED
    BY <1>3, <2>1, <2>2, <2>3, <2>4, <2>5, <2>6 DEF Typed
<1>5. Staged /\ Calm
  BY <1>3 DEF Staged, Calm, At
<1>6. Combining
  <2> SUFFICES ASSUME NEW n \in Merging
               PROVE  CombiningAt(n)
    BY DEF Combining
  <2>1. oValue[n] = NoValue
    BY DEF Init
  <2>2. Range(queue) = {} /\ AtMostOne(queue, Coalesced(n))
    BY <1>3 DEF Range, AtMostOne
  <2> QED
    BY <1>3, <2>1, <2>2 DEF CombiningAt, Pending
<1>7. Clearing
  BY <1>3 DEF Clearing, Init, At
<1>8. Updating
  BY <1>3 DEF Updating, Init, At
<1>9. Applying
  BY DEF Applying, Init
<1> QED
  BY <1>4, <1>5, <1>6, <1>7, <1>8, <1>9 DEF Inv

LEMMA NextInv == Inv /\ CellsHaveValue /\ [Next]_vars => Inv'
<1> SUFFICES ASSUME Inv, CellsHaveValue, [Next]_vars PROVE Inv'
  OBVIOUS
<1>1. Typed /\ Staged /\ Calm /\ Combining /\ Clearing /\ Updating /\ Applying
  BY DEF Inv
<1>2. CASE User
  <2>1. Typed' /\ UNCHANGED worker
    BY <1>1, <1>2, UserTypes
  <2>2. Staged'
    BY <1>1, <2>1 DEF Staged
  <2> QED
    BY <1>1, <1>2, <2>1, <2>2, UserCalm, UserCombining, UserClearing, UserUpdating, UserApplying
    DEF Inv
<1>3. ASSUME NEW w \in Workers, Worker(w)
      PROVE  Inv'
  <2>1. Typed' /\ Staged' /\ phase' = phase
    BY <1>1, <1>3, WorkerTypes
  <2>2. Calm'
    BY <1>1, <1>3, <2>1, InDrain DEF Calm
  <2>3. Combining'
    BY <1>1, <1>3, OrdinaryCombining, TurnCombining, Sorted
  <2> QED
    BY <1>1, <1>3, <2>1, <2>2, <2>3, WorkerClearing, WorkerUpdating, WorkerApplying DEF Inv
<1>4. CASE UNCHANGED vars
  <2> USE <1>1, <1>4 DEF vars, cells, states, user
  <2>1. Typed'
    BY DEF Typed
  <2>2. Staged'
    BY DEF Staged, Stage
  <2>3. Calm'
    BY DEF Calm, At
  <2>4. Combining'
    BY DEF Combining, CombiningAt, Pending, At, NodeOf
  <2>5. Clearing'
    BY DEF Clearing, Marks, At, NodeOf, AtMostOne
  <2>6. Updating'
    BY DEF Updating, Marks, At, NodeOf, AtMostOne
  <2>7. Applying'
    BY DEF Applying, Marks, At, NodeOf, AtMostOne
  <2> QED
    BY <2>1, <2>2, <2>3, <2>4, <2>5, <2>6, <2>7 DEF Inv
<1> QED
  BY <1>2, <1>3, <1>4 DEF Next, Stopped

-----------------------------------------------------------------------------
(* The theorems, where a cell always has a value.                          *)

\* The invariant says of the types what the runs check.
LEMMA InvType == Inv /\ CellsHaveValue => TypeOK
<1> SUFFICES ASSUME Inv, CellsHaveValue PROVE TypeOK
  OBVIOUS
<1>1. Typed /\ Staged
  BY DEF Inv
<1>2. /\ targets \in [Nodes -> Seq(Nodes)] /\ ppKill \in [NodesOf("once") -> BOOLEAN]
      /\ phase \in {"rest", "body", "drain", "post"} /\ txns \in 0 .. MaxTxns
      /\ Len(sends) <= MaxSends
  BY <1>1 DEF Typed
<1>3. /\ \A n \in Nodes : \A k \in DOMAIN firings[n] : IsValue(firings[n][k])
      /\ \A n \in Merging : IsOptional(oValue[n])
      /\ \A c \in Cells : IsValue(current[c]) /\ IsOptional(update[c])
      /\ \A n \in NodesOf("collect") : IsValue(pState[n])
      /\ \A n \in Applies : IsOptional(applied[n].f) /\ IsOptional(applied[n].a)
  <2>1. ASSUME NEW n \in Nodes, NEW k \in DOMAIN firings[n]
        PROVE  IsValue(firings[n][k])
    <3>1. firings[n] \in Seq(Val)
      BY <1>1 DEF Typed
    <3>2. firings[n][k] \in Val
      BY <3>1
    <3> QED
      BY <3>2 DEF IsValue, Val
  <2> QED
    BY <1>1, <2>1 DEF Typed, Optional, Val, IsOptional, IsValue, CellsHaveValue
<1>4. \A e \in Range(queue) : e.node \in Nodes /\ e.type \in {"values", "coalesce", "apply"}
  <2>1. \A e \in Range(queue) : e \in Entry
    BY <1>1 DEF Typed, Range
  <2> QED
    BY <2>1, EntryFacts
<1>5. \A p \in Range(posts) : p.node \in Nodes /\ p.type \in {"clear", "finalize", "unlink"}
  <2>1. \A p \in Range(posts) : p \in Post
    BY <1>1 DEF Typed, Range
  <2> QED
    BY <2>1 DEF Post, Cells, NodesOf
<1>6. \A w \in Workers : worker[w].pc \in WorkerPcs /\ IsOptional(worker[w].val)
  BY <1>1 DEF Typed, Record, Optional, Val, IsOptional, IsValue
<1> QED
  BY <1>2, <1>3, <1>4, <1>5, <1>6 DEF TypeOK

\* A coalesce_entry in progress is one that its node has a value for.
LEMMA InvCombined == Inv => CoalesceEntryHasValue
<1> SUFFICES ASSUME Inv, NEW w \in Workers, At(w, "combined")
             PROVE  oValue[NodeOf(w)] # NoValue
  BY DEF CoalesceEntryHasValue
<1>1. worker[w].entry \in Entry /\ worker[w].entry.type = "coalesce"
  BY DEF Inv, Staged, Stage, At
<1>2. NodeOf(w) \in Merging /\ NodeOf(w) \in Marks(worker[w])
  BY <1>1, EntryFacts DEF Marks, At, NodeOf
<1> QED
  BY <1>2 DEF Inv, Combining, CombiningAt, Pending

\* At rest no post is left, and so nothing that a post or an entry is to undo.
LEMMA InvNothing == Inv => NothingLeft
<1> SUFFICES ASSUME Inv, phase = "rest"
             PROVE  /\ \A n \in Nodes : firings[n] = <<>>
                    /\ \A n \in Merging : oValue[n] = NoValue
                    /\ \A c \in Cells : update[c] = NoValue
                    /\ \A n \in Applies : ~applied[n].fired
  BY DEF NothingLeft
<1>1. Range(posts) = {} /\ Range(queue) = {} /\ \A w \in Workers : worker[w].pc = "idle"
  BY DEF Inv, Calm, At, Range
<1>2. \A n \in Nodes : firings[n] = <<>>
  BY <1>1 DEF Inv, Clearing
<1>3. \A n \in Merging : oValue[n] = NoValue
  <2>1. \A w \in Workers : Marks(worker[w]) = {}
    BY <1>1 DEF Marks
  <2> QED
    BY <1>1, <2>1 DEF Inv, Combining, CombiningAt, Pending
<1>4. \A c \in Cells : update[c] = NoValue
  BY <1>1 DEF Inv, Updating, At
<1>5. \A n \in Applies : ~applied[n].fired
  BY <1>1 DEF Inv, Applying, At
<1> QED
  BY <1>2, <1>3, <1>4, <1>5

\* The invariant holds as long as cells have values.
LEMMA Invariance == Spec /\ []CellsHaveValue => []Inv
<1>1. Init => Inv
  BY InitInv
<1>2. Inv /\ CellsHaveValue /\ [Next]_vars => Inv'
  BY NextInv
<1> QED
  BY <1>1, <1>2, PTL DEF Spec

\* The program's data have their types: what is sent, kept, queued and put off is
\* what the handlers, the entries and the posts expect, for any graph of nodes,
\* any number of workers and of sends (transaction.h:148-233, sodium.cpp:151-165).
THEOREM TypeCorrect == Spec /\ []CellsHaveValue => []TypeOK
BY Invariance, InvType, PTL

\* However many workers run the entries, each coalesce_entry finds a value, for
\* there is one from the first value until the reset after it (sodium.h:28-99,
\* transaction.cpp:292-298).
THEOREM CombinedIsThere == Spec /\ []CellsHaveValue => []CoalesceEntryHasValue
BY Invariance, InvCombined, PTL

\* Each firing has its clear among the posts, each update its finalize(), each
\* value to coalesce and each mark of an apply_entry its entry in the queue, so
\* that nothing of a transaction is left for the next one (sodium.cpp:151-157,
\* transaction.cpp:292-341, sodium.h:101-185).
THEOREM NothingStays == Spec /\ []CellsHaveValue => []NothingLeft
BY Invariance, InvNothing, PTL

-----------------------------------------------------------------------------
(* With one worker a cell always has a value.                              *)

OneWorker == \A v, w \in Workers : v = w

\* An update is finalized once: the post is there only with an update, and only
\* once, and the worker that is to put it finds none.
Finalizing ==
  /\ \A c \in Cells : FinalizeOf(c) \in Range(posts) => update[c] # NoValue
  /\ \A c \in Cells : AtMostOne(posts, FinalizeOf(c))
  /\ \A w \in Workers : At(w, "holdWrite") /\ worker[w].first => update[NodeOf(w)] = NoValue
  /\ \A w \in Workers : At(w, "holdPost") => /\ update[NodeOf(w)] # NoValue
                                             /\ FinalizeOf(NodeOf(w)) \notin Range(posts)

Single == Inv /\ Finalizing /\ CellsHaveValue

\* Only hold_handler puts a finalize().
LEMMA UserPosts ==
  ASSUME Typed, User, ~RunPost
  PROVE  \E ps \in Seq(Post) : posts' = posts \o ps /\ \A p \in Range(ps) : p.type # "finalize"
<1> DEFINE Goal == \E ps \in Seq(Post) :
                     posts' = posts \o ps /\ \A p \in Range(ps) : p.type # "finalize"
<1>1. posts \in Seq(Post)
  BY DEF Typed
<1>2. ASSUME NEW p \in Post, p.type # "finalize", posts' = Append(posts, p)
      PROVE  Goal
  <2>1. <<p>> \in Seq(Post) /\ posts' = posts \o <<p>> /\ Range(<<p>>) = {p}
    BY <1>1, <1>2, AppendIsConcat DEF Range
  <2> QED
    BY <1>2, <2>1
<1>3. ASSUME posts' = posts
      PROVE  Goal
  <2>1. <<>> \in Seq(Post) /\ posts' = posts \o <<>> /\ Range(<<>>) = {}
    BY <1>1, <1>3 DEF Range
  <2> QED
    BY <2>1
<1>4. CASE UserSend
  <2>1. PICK s \in Sinks : posts' = posts \o ClearPost(s)
    BY <1>4 DEF UserSend
  <2>2. ClearOf(s) \in Post /\ ClearOf(s).type # "finalize"
    BY DEF Sinks, NodesOf, ClearOf, Post
  <2>3. CASE ClearPost(s) = <<ClearOf(s)>>
    BY <1>1, <1>2, <2>1, <2>2, <2>3, AppendIsConcat
  <2>4. CASE ClearPost(s) = <<>>
    BY <1>1, <1>3, <2>1, <2>4
  <2> QED
    BY <2>3, <2>4 DEF ClearPost, ClearOf
<1>5. CASE Listen
  <2>1. PICK n \in Late : posts' = posts \o ClearPosts(Sparks(n))
    BY <1>5 DEF Listen
  <2>2. /\ ClearPosts(Sparks(n)) \in Seq(Post)
        /\ \A p \in Range(ClearPosts(Sparks(n))) : p.type = "clear"
    BY ClearPostsFacts
  <2> QED
    BY <2>1, <2>2
<1>6. CASE Unlisten
  <2>1. PICK n \in Late : posts' = Append(posts, [type |-> "unlink", node |-> n])
    BY <1>6 DEF Unlisten
  <2>2. [type |-> "unlink", node |-> n] \in Post
    BY GraphAssumption DEF Post, Listeners, NodesOf
  <2> QED
    BY <1>2, <2>1, <2>2
<1>7. CASE Open \/ Close \/ Drained \/ Closed
  BY <1>3, <1>7 DEF Open, Close, Drained, Closed
<1> QED
  BY <1>4, <1>5, <1>6, <1>7 DEF User

LEMMA WorkerPosts ==
  ASSUME Typed, Staged, NEW w \in Workers, Worker(w), ~HoldPost(w)
  PROVE  \/ posts' = posts
         \/ \E p \in Post : p.type # "finalize" /\ posts' = Append(posts, p)
<1>1. CASE Kill(w) \/ SendClear(w)
  <2>1. NodeOf(w) \in Nodes
    BY <1>1, ArgFacts DEF Kill, SendClear, At
  <2> QED
    BY <1>1, <2>1 DEF Post, Kill, SendClear
<1>2. CASE ~(Kill(w) \/ SendClear(w))
  BY <1>2 DEF Worker, Handle, Sending, Take, Forward, Filter, Snapshot, Hear, CoalesceFirst,
       CoalesceMore, Announce, SendCombined, Reset, HoldTest, HoldWrite, CollectRead,
       CollectWrite, OnceTest, KillTest, ApplySet, ApplyTest, ApplyPush, ApplyRead,
       ApplyTo, Unfire, SendTest, Fire, Ship, Shipped
<1> QED
  BY <1>1, <1>2

\* Posts that are no finalize() leave those of a cell as they were.
LEMMA OtherPosts ==
  ASSUME NEW s \in Seq(Post), NEW ps \in Seq(Post), NEW c,
         \A p \in Range(ps) : p.type # "finalize"
  PROVE  /\ FinalizeOf(c) \in Range(s \o ps) <=> FinalizeOf(c) \in Range(s)
         /\ AtMostOne(s, FinalizeOf(c)) => AtMostOne(s \o ps, FinalizeOf(c))
<1>1. FinalizeOf(c) \notin Range(ps)
  BY DEF FinalizeOf
<1>2. Range(s \o ps) = Range(s) \cup Range(ps)
  BY RangeOfConcat
<1> QED
  BY <1>1, <1>2, AtMostOneConcat

LEMMA OtherPost ==
  ASSUME NEW s \in Seq(Post), NEW p \in Post, NEW c, p # FinalizeOf(c)
  PROVE  /\ FinalizeOf(c) \in Range(Append(s, p)) <=> FinalizeOf(c) \in Range(s)
         /\ AtMostOne(s, FinalizeOf(c)) => AtMostOne(Append(s, p), FinalizeOf(c))
BY RangeOfAppend, AtMostOneAppend

LEMMA UserFinalizing ==
  ASSUME Typed, Calm, Finalizing, CellsHaveValue, User
  PROVE  Finalizing' /\ CellsHaveValue'
<1>1. worker' = worker /\ posts \in Seq(Post)
      /\ update \in [Cells -> Optional] /\ current \in [Cells -> Optional]
  BY UserTypes DEF Typed
<1>2. CASE RunPost
  <2> DEFINE p == Head(posts)
  <2>1. /\ p \in Post /\ Range(posts) = {p} \cup Range(posts')
        /\ \A w \in Workers : At(w, "idle") /\ worker'[w] = worker[w]
        /\ \/ /\ p.type = "finalize" /\ p.node \in Cells
              /\ current' = [current EXCEPT ![p.node] = update[p.node]]
              /\ update' = [update EXCEPT ![p.node] = NoValue]
           \/ p.type # "finalize" /\ UNCHANGED <<current, update>>
    BY <1>2, PostDone
  <2>2. ASSUME NEW c \in Cells
        PROVE  AtMostOne(posts', FinalizeOf(c)) /\ (p = FinalizeOf(c) => FinalizeOf(c) \notin Range(posts'))
    <3>1. posts # <<>> /\ posts' = Tail(posts) /\ AtMostOne(posts, FinalizeOf(c))
      BY <1>2 DEF RunPost, Finalizing
    <3> QED
      BY <1>1, <3>1, AtMostOneTail
  <2>3. p.type = "finalize" => p = FinalizeOf(p.node)
    BY <2>1 DEF Post, FinalizeOf
  <2> HIDE DEF p
  <2>4. ASSUME NEW c \in Cells, FinalizeOf(c) \in Range(posts')
        PROVE  update'[c] # NoValue
    <3>1. update[c] # NoValue /\ p # FinalizeOf(c)
      BY <2>1, <2>2, <2>4 DEF Finalizing
    <3> QED
      BY <1>1, <2>1, <2>3, <3>1
  <2>5. CellsHaveValue'
    <3>1. p.type = "finalize" => update[p.node] # NoValue
      BY <2>1, <2>3 DEF Finalizing
    <3> QED
      BY <1>1, <2>1, <3>1 DEF CellsHaveValue
  <2>6. \A w \in Workers : ~At(w, "holdWrite")' /\ ~At(w, "holdPost")'
    BY <2>1 DEF At
  <2> QED
    BY <2>2, <2>4, <2>5, <2>6 DEF Finalizing
<1>3. CASE ~RunPost
  <2>1. update' = update /\ current' = current
    BY <1>3 DEF User, Open, UserSend, Listen, Unlisten, Close, Drained, Closed, cells
  <2>2. PICK ps \in Seq(Post) : posts' = posts \o ps /\ \A p \in Range(ps) : p.type # "finalize"
    BY <1>3, UserPosts
  <2>3. \A c : /\ FinalizeOf(c) \in Range(posts') <=> FinalizeOf(c) \in Range(posts)
               /\ AtMostOne(posts, FinalizeOf(c)) => AtMostOne(posts', FinalizeOf(c))
    BY <1>1, <2>2, OtherPosts
  <2>4. \A w \in Workers : /\ NodeOf(w)' = NodeOf(w) /\ worker'[w].first = worker[w].first
                           /\ \A pc \in {"holdPost", "holdWrite"} : At(w, pc)' = At(w, pc)
    BY <1>1 DEF NodeOf, At
  <2> QED
    BY <2>1, <2>3, <2>4 DEF Finalizing, CellsHaveValue
<1> QED
  BY <1>2, <1>3

LEMMA WorkerFinalizing ==
  ASSUME OneWorker, Typed, Staged, Combining, Finalizing, CellsHaveValue,
         NEW w \in Workers, Worker(w)
  PROVE  Finalizing' /\ CellsHaveValue'
<1> DEFINE o == worker[w]
           n == NodeOf(w)
<1>1. posts \in Seq(Post) /\ update \in [Cells -> Optional]
  BY DEF Typed
<1>2. \A x \in Workers : x = w
  BY DEF OneWorker
<1>3. CellsHaveValue'
  BY WorkerTypes DEF CellsHaveValue
<1>4. CASE HoldPost(w)
  <2>1. PICK r : Becomes(w, r) /\ Alike(r, o)
    BY <1>4, OrdinaryStep DEF Ordinary
  <2>2. worker'[w].pc \notin {"holdWrite", "holdPost"}
    BY <2>1, Put DEF Alike
  <2>3. n \in Cells /\ At(w, "holdPost")
    BY <1>4 DEF HoldPost, At, Staged, Stage, NodeOf
  <2>4. FinalizeOf(n) \notin Range(posts) /\ update[n] # NoValue
    BY <2>3 DEF Finalizing
  <2>5. posts' = Append(posts, FinalizeOf(n)) /\ FinalizeOf(n) \in Post /\ update' = update
    BY <1>4, <2>3 DEF HoldPost, FinalizeOf, Post, cells
  <2>6. Range(posts') = Range(posts) \cup {FinalizeOf(n)}
    BY <1>1, <2>5, RangeOfAppend
  <2>7. ASSUME NEW c \in Cells
        PROVE  /\ FinalizeOf(c) \in Range(posts') => update'[c] # NoValue
               /\ AtMostOne(posts', FinalizeOf(c))
    <3>1. FinalizeOf(c) = FinalizeOf(n) => c = n
      BY DEF FinalizeOf
    <3>2. AtMostOne(posts, FinalizeOf(c))
      BY DEF Finalizing
    <3>3. AtMostOne(posts', FinalizeOf(c))
      BY <1>1, <2>4, <2>5, <3>1, <3>2, AtMostOneAppend
    <3> QED
      BY <2>4, <2>5, <2>6, <3>1, <3>3 DEF Finalizing
  <2> QED
    BY <1>2, <1>3, <2>2, <2>7 DEF Finalizing, At
<1>5. CASE ~HoldPost(w)
  <2>1. ASSUME NEW c \in Cells
        PROVE  /\ FinalizeOf(c) \in Range(posts') <=> FinalizeOf(c) \in Range(posts)
               /\ AtMostOne(posts', FinalizeOf(c))
    <3>1. AtMostOne(posts, FinalizeOf(c))
      BY DEF Finalizing
    <3>2. ASSUME NEW p \in Post, p.type # "finalize", posts' = Append(posts, p)
          PROVE  /\ FinalizeOf(c) \in Range(posts') <=> FinalizeOf(c) \in Range(posts)
                 /\ AtMostOne(posts', FinalizeOf(c))
      <4>1. p # FinalizeOf(c)
        BY <3>2 DEF FinalizeOf
      <4> QED
        BY <1>1, <3>1, <3>2, <4>1, OtherPost
    <3> QED
      BY <1>5, <3>1, <3>2, WorkerPosts
  <2>2. CASE HoldWrite(w)
    <3>1. /\ n \in Cells /\ update' = [update EXCEPT ![n] = Arg(w)] /\ Arg(w) # NoValue
          /\ At(w, "holdWrite")
      <4>1. n \in Cells /\ Arg(w) \in Val
        BY <2>2, HoldWriteTurn
      <4> QED
        BY <2>2, <4>1, ValuesAssumption DEF HoldWrite, Val
    <3>2. PICK r : Becomes(w, r) /\ r.entry = o.entry /\ r.pc = IF o.first THEN "holdPost" ELSE "send"
      BY <2>2, HoldWriteTurn
    <3>3. worker'[w] = r
      BY <3>2, Put
    <3>4. o.first => FinalizeOf(n) \notin Range(posts)
      BY <3>1 DEF Finalizing
    <3>5. NodeOf(w)' = n
      BY <3>2, <3>3 DEF NodeOf
    <3>6. At(w, "holdPost")' => update'[n] # NoValue /\ FinalizeOf(n) \notin Range(posts')
      BY <1>1, <2>1, <3>1, <3>2, <3>3, <3>4 DEF At
    <3>7. ~At(w, "holdWrite")'
      BY <3>2, <3>3 DEF At
    <3>8. \A c \in Cells : FinalizeOf(c) \in Range(posts') => update'[c] # NoValue
      BY <1>1, <2>1, <3>1 DEF Finalizing
    <3> QED
      BY <1>2, <1>3, <2>1, <3>5, <3>6, <3>7, <3>8 DEF Finalizing
  <2>3. CASE ~HoldWrite(w)
    <3>1. update' = update
      BY <2>3 DEF Worker, Handle, Sending, Take, Forward, Filter, Snapshot, Hear, CoalesceFirst,
         CoalesceMore, Announce, SendCombined, Reset, HoldTest, HoldPost, CollectRead,
         CollectWrite, OnceTest, KillTest, Kill, ApplySet, ApplyTest, ApplyPush, ApplyRead,
         ApplyTo, Unfire, SendTest, SendClear, Fire, Ship, Shipped, cells
    <3>2. PICK r : /\ Becomes(w, r) /\ r.pc # "holdPost"
                   /\ r.pc = "holdWrite" /\ r.first => update[r.entry.node] = NoValue
      <4>1. CASE Ordinary(w)
        BY <4>1, OrdinaryStep DEF Alike
      <4>2. CASE Take(w)
        BY <4>2, TakeTurn, BeginFacts
      <4>3. CASE CoalesceFirst(w)
        BY <4>3, CoalesceFirstTurn
      <4>4. CASE Announce(w)
        BY <4>4, AnnounceTurn
      <4>5. CASE Reset(w) \/ Unfire(w)
        BY <4>5, IdleTurn, IdleFacts
      <4>6. CASE HoldTest(w)
        BY <4>6, HoldTestTurn DEF NodeOf
      <4>7. CASE SendTest(w) \/ SendClear(w)
        BY <4>7, SendTurn
      <4> QED
        BY <2>3, <4>1, <4>2, <4>3, <4>4, <4>5, <4>6, <4>7, Sorted DEF Turn
    <3>3. worker'[w] = r
      BY <3>2, Put
    <3> QED
      BY <1>2, <1>3, <2>1, <3>1, <3>2, <3>3 DEF Finalizing, At, NodeOf
  <2> QED
    BY <2>2, <2>3
<1> QED
  BY <1>4, <1>5

LEMMA InitFinalizing == Init => Finalizing /\ CellsHaveValue
<1> SUFFICES ASSUME Init PROVE Finalizing /\ CellsHaveValue
  OBVIOUS
<1>1. Range(posts) = {} /\ DOMAIN posts = {} /\ \A w \in Workers : worker[w].pc = "idle"
  BY IdleFacts DEF Init, Range
<1>2. <<InitValue>> \in Seq(Values \cup {InitValue})
  OBVIOUS
<1>3. <<InitValue>> # NoValue
  BY <1>2, ValuesAssumption
<1>4. CellsHaveValue
  BY <1>3 DEF Init, CellsHaveValue
<1> QED
  BY <1>1, <1>4 DEF Finalizing, At, AtMostOne

LEMMA SingleInvariance ==
  ASSUME OneWorker
  PROVE  Spec => []Single
<1>1. Init => Single
  BY InitInv, InitFinalizing DEF Single
<1>2. Single /\ [Next]_vars => Single'
  <2> SUFFICES ASSUME Single, [Next]_vars PROVE Single'
    OBVIOUS
  <2>1. Inv'
    BY NextInv DEF Single
  <2>2. Typed /\ Staged /\ Calm /\ Combining /\ Finalizing /\ CellsHaveValue
    BY DEF Single, Inv
  <2>3. CASE User
    BY <2>1, <2>2, <2>3, UserFinalizing DEF Single
  <2>4. ASSUME NEW w \in Workers, Worker(w)
        PROVE  Single'
    BY <2>1, <2>2, <2>4, WorkerFinalizing DEF Single
  <2>5. CASE UNCHANGED vars
    <3>1. posts' = posts /\ worker' = worker /\ current' = current /\ update' = update
      BY <2>5 DEF vars, cells
    <3> QED
      BY <2>1, <2>2, <3>1 DEF Single, Finalizing, CellsHaveValue, At, NodeOf, AtMostOne
  <2> QED
    BY <2>3, <2>4, <2>5 DEF Next, Stopped
<1> QED
  BY <1>1, <1>2, PTL DEF Spec

\* With one worker an update is finalized once, so that no finalize() finds the
\* optional empty (sodium.h:110-118).  With two it can (PropagationHoldRace.cfg).
THEOREM OneWorkerCells ==
  ASSUME OneWorker
  PROVE  Spec => []CellsHaveValue
BY SingleInvariance, PTL DEF Single

\* So with one worker the three properties above hold with no hypothesis.
THEOREM OneWorkerKeeps ==
  ASSUME OneWorker
  PROVE  Spec => [](TypeOK /\ CoalesceEntryHasValue /\ NothingLeft)
<1>1. Spec => []CellsHaveValue
  BY OneWorkerCells
<1> QED
  BY <1>1, TypeCorrect, CombinedIsThere, NothingStays, PTL
=============================================================================
