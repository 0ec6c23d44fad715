------------------------- MODULE TransactionProofs --------------------------
(***************************************************************************)
(* Theorems about Transaction for any threads, entries, posts, hooks and   *)
(* nesting.  A step changes the stack of one thread at its top, or starts  *)
(* or ends the workers of a close(): the first lemmas say so action by     *)
(* action, and the rest follows from these shapes.                         *)
(***************************************************************************)
EXTENDS Transaction, FifoLemmas, FiniteSetTheorems

Height(t) == Len(stack[t])

\* No other thread's stack changes, and t's up to its frame n does not.
Keeps(t, n) ==
  /\ \A v \in Threads \ {t} : stack'[v] = stack[v]
  /\ \A k \in 1 .. n : stack'[t][k] = stack[t][k]

\* The top frame becomes f; g is pushed; the top becomes f and g is pushed; the
\* top frame is popped.
Moves(t, f) ==
  /\ Keeps(t, Height(t) - 1)
  /\ Len(stack'[t]) = Height(t) /\ stack'[t][Height(t)] = f
Pushes(t, g) ==
  /\ Keeps(t, Height(t))
  /\ Len(stack'[t]) = Height(t) + 1 /\ stack'[t][Height(t) + 1] = g
Calls(t, f, g) ==
  /\ Keeps(t, Height(t) - 1)
  /\ Len(stack'[t]) = Height(t) + 1
  /\ stack'[t][Height(t)] = f /\ stack'[t][Height(t) + 1] = g
Pops(t) ==
  /\ Keeps(t, Height(t) - 1)
  /\ Len(stack'[t]) = Height(t) - 1

Stacked == stack \in [Threads -> Seq(Frames)]

-----------------------------------------------------------------------------
(* Shapes.                                                                 *)

\* The frames on a stack.
LEMMA StackFacts ==
  ASSUME Stacked, NEW t \in Threads
  PROVE  /\ Height(t) \in Nat
         /\ Active(t) <=> Height(t) > 0
         /\ \A k \in 1 .. Height(t) : stack[t][k] \in Frames
         /\ Active(t) => Top(t) \in Frames /\ Top(t) = stack[t][Height(t)]
<1>1. stack[t] \in Seq(Frames)
  BY DEF Stacked
<1>2. \A k \in 1 .. Len(stack[t]) : stack[t][k] \in Frames
  BY <1>1, ElementOfSeq
<1>3. stack[t] # <<>> <=> Len(stack[t]) > 0
  BY <1>1, EmptySeq, LenProperties
<1> QED
  BY <1>1, <1>2, <1>3, LenProperties DEF Height, Active, Top

\* All but the last element of a sequence.
LEMMA ButLast ==
  ASSUME NEW S, NEW s \in Seq(S), NEW n \in Nat, n <= Len(s)
  PROVE  /\ SubSeq(s, 1, n) \in Seq(S)
         /\ Len(SubSeq(s, 1, n)) = n
         /\ \A k \in 1 .. n : SubSeq(s, 1, n)[k] = s[k]
<1> DEFINE r == SubSeq(s, 1, n)
<1>1. \A i \in 1 .. n : s[i] \in S
  BY ElementOfSeq, LenProperties
<1>2. /\ r \in Seq(S)
      /\ Len(r) = IF 1 <= n THEN n - 1 + 1 ELSE 0
      /\ \A i \in 1 .. n - 1 + 1 : r[i] = s[1 + i - 1]
  BY <1>1, SubSeqProperties, 1 \in Int, n \in Int
<1> QED
  BY <1>2

\* A change of the top frame.
LEMMA Move ==
  ASSUME Stacked, NEW t \in Threads, Active(t), NEW f \in Frames, stack' = Renewed(t, f)
  PROVE  Stacked' /\ Moves(t, f)
<1> DEFINE s == stack[t]
<1>1. s \in Seq(Frames) /\ Len(s) \in Nat \ {0}
  BY StackFacts DEF Height, Stacked
<1>2. stack' = [stack EXCEPT ![t] = [s EXCEPT ![Len(s)] = f]]
  BY DEF Renewed, Stacked
<1>3. [s EXCEPT ![Len(s)] = f] \in Seq(Frames)
  BY <1>1, ExceptSeq
<1>4. Stacked'
  BY <1>2, <1>3 DEF Stacked
<1>5. stack'[t] = [s EXCEPT ![Len(s)] = f] /\ \A v \in Threads \ {t} : stack'[v] = stack[v]
  BY <1>2 DEF Stacked
<1>6. Len(stack'[t]) = Len(s) /\ stack'[t][Len(s)] = f
      /\ \A k \in 1 .. Len(s) - 1 : stack'[t][k] = s[k]
  BY <1>1, <1>5, ExceptSeq, LenProperties
<1> QED
  BY <1>4, <1>5, <1>6 DEF Moves, Keeps, Height

\* A new frame on top.
LEMMA Push ==
  ASSUME Stacked, NEW t \in Threads, NEW g \in Frames,
         stack' = [stack EXCEPT ![t] = Append(@, g)]
  PROVE  Stacked' /\ Pushes(t, g)
<1> DEFINE s == stack[t]
<1>1. s \in Seq(Frames) /\ Append(s, g) \in Seq(Frames)
      /\ Len(Append(s, g)) = Len(s) + 1 /\ Append(s, g)[Len(s) + 1] = g
      /\ \A k \in 1 .. Len(s) : Append(s, g)[k] = s[k]
  BY AppendProperties DEF Stacked
<1>2. Stacked'
  BY <1>1 DEF Stacked
<1>3. stack'[t] = Append(s, g) /\ \A v \in Threads \ {t} : stack'[v] = stack[v]
  BY DEF Stacked
<1> QED
  BY <1>1, <1>2, <1>3 DEF Pushes, Keeps, Height

\* A change of the top frame, with a new one on top of it.
LEMMA MoveAndPush ==
  ASSUME Stacked, NEW t \in Threads, Active(t), NEW f \in Frames, NEW g \in Frames,
         stack' = [stack EXCEPT ![t] = Append(Renewed(t, f)[t], g)]
  PROVE  Stacked' /\ Calls(t, f, g)
<1> DEFINE s == stack[t]
           r == [s EXCEPT ![Len(s)] = f]
<1>1. s \in Seq(Frames) /\ Len(s) \in Nat \ {0}
  BY StackFacts DEF Height, Stacked
<1>2. Renewed(t, f)[t] = r
  BY DEF Renewed, Stacked
<1>3. r \in Seq(Frames) /\ Len(r) = Len(s) /\ r[Len(s)] = f
      /\ \A k \in 1 .. Len(s) - 1 : r[k] = s[k]
  BY <1>1, ExceptSeq, LenProperties
<1> HIDE DEF r
<1>4. Append(r, g) \in Seq(Frames)
      /\ Len(Append(r, g)) = Len(r) + 1 /\ Append(r, g)[Len(r) + 1] = g
      /\ \A k \in 1 .. Len(r) : Append(r, g)[k] = r[k]
  BY <1>3, AppendProperties
<1>5. stack' = [stack EXCEPT ![t] = Append(r, g)]
  BY <1>2
<1>6. Stacked'
  BY <1>4, <1>5 DEF Stacked
<1>7. stack'[t] = Append(r, g) /\ \A v \in Threads \ {t} : stack'[v] = stack[v]
  BY <1>5 DEF Stacked
<1>8. /\ Len(stack'[t]) = Len(s) + 1 /\ stack'[t][Len(s)] = f /\ stack'[t][Len(s) + 1] = g
      /\ \A k \in 1 .. Len(s) - 1 : stack'[t][k] = s[k]
  <2> DEFINE q == Append(r, g)
  <2>1. /\ Len(q) = Len(r) + 1 /\ q[Len(r) + 1] = g
        /\ \A k \in 1 .. Len(r) : q[k] = r[k]
    BY <1>4
  <2>2. stack'[t] = q
    BY <1>7
  <2> HIDE DEF q
  <2>3. Len(q) = Len(s) + 1 /\ q[Len(s) + 1] = g
    BY <2>1, <1>3
  <2>4. q[Len(s)] = f /\ \A k \in 1 .. Len(s) - 1 : q[k] = s[k]
    BY <2>1, <1>1, <1>3
  <2> QED
    BY <2>2, <2>3, <2>4
<1> QED
  BY <1>6, <1>7, <1>8 DEF Calls, Keeps, Height

\* The top frame goes.
LEMMA PopTop ==
  ASSUME Stacked, NEW t \in Threads, Active(t), stack' = Return(t)
  PROVE  Stacked' /\ Pops(t)
<1> DEFINE s == stack[t]
           n == Len(s) - 1
<1>1. s \in Seq(Frames) /\ n \in Nat /\ n <= Len(s)
  BY StackFacts DEF Height, Stacked
<1>2. /\ SubSeq(s, 1, n) \in Seq(Frames)
      /\ Len(SubSeq(s, 1, n)) = n
      /\ \A k \in 1 .. n : SubSeq(s, 1, n)[k] = s[k]
  BY <1>1, ButLast
<1>3. stack' = [stack EXCEPT ![t] = SubSeq(s, 1, n)]
  BY DEF Return, Pop
<1>4. Stacked'
  BY <1>2, <1>3 DEF Stacked
<1>5. stack'[t] = SubSeq(s, 1, n) /\ \A v \in Threads \ {t} : stack'[v] = stack[v]
  BY <1>3 DEF Stacked
<1> QED
  BY <1>2, <1>4, <1>5 DEF Pops, Keeps, Height

-----------------------------------------------------------------------------
(* The shape of every action's step.                                       *)

NewTxn == Frame("txn", "enter", NoImpl, NoThread)
NewHook == Frame("hook", "open", NoImpl, NoThread)
NewAction == Frame("action", "open", NoImpl, Head(postQ))
NewHandler(i) == Frame("handler", "open", i, Head(queue[i]))
NewWorker(i) == Frame("worker", "idle", i, NoThread)

\* The top frame of t with its place, its impl and its reg changed.
Goes(t, at, impl, reg) == Moves(t, Moved(Top(t), at, impl, reg))
GoesOn(t, at) == Goes(t, at, Top(t).impl, Top(t).reg)
Reads(t, at) == Goes(t, at, Top(t).impl, depth)

\* t goes on, and the workers of crew get a stack, or lose theirs.
Splits(t, at, crew, s) ==
  /\ t \notin crew
  /\ \A v \in Threads \ ({t} \cup crew) : stack'[v] = stack[v]
  /\ \A w \in crew : stack'[w] = s
  /\ \A k \in 1 .. Height(t) - 1 : stack'[t][k] = stack[t][k]
  /\ Len(stack'[t]) = Height(t)
  /\ stack'[t][Height(t)] = Moved(Top(t), at, Top(t).impl, Top(t).reg)

LEMMA NewFrame ==
  ASSUME NEW kind \in Kinds, NEW at \in Places, NEW i \in Impls \cup {NoImpl}, NEW x \in Items
  PROVE  Frame(kind, at, i, x) \in Frames
BY DEF Frame, Frames

\* The frames of the code that the library calls.
LEMMA CallbackFrames ==
  /\ NewTxn \in Frames /\ NewTxn.kind = "txn" /\ NewTxn.at = "enter" /\ NewTxn.impl = NoImpl
  /\ NewHook \in Frames /\ NewHook.kind = "hook" /\ NewHook.at = "open"
     /\ NewHook.impl = NoImpl
  /\ NewAction.kind = "action" /\ NewAction.at = "open" /\ NewAction.impl = NoImpl
  /\ Head(postQ) \in Posts => NewAction \in Frames
<1>1. NewTxn \in Frames /\ NewHook \in Frames
  BY NewFrame DEF NewTxn, NewHook, Kinds, Places, Items
<1>2. Head(postQ) \in Posts => NewAction \in Frames
  BY NewFrame DEF NewAction, Kinds, Places, Items
<1> QED
  BY <1>1, <1>2 DEF NewTxn, NewHook, NewAction, Frame

LEMMA Going ==
  ASSUME Stacked, NEW t \in Threads, Active(t), NEW at \in Places,
         NEW i \in Impls \cup {NoImpl}, NEW reg \in Int,
         stack' = Renewed(t, Moved(Top(t), at, i, reg))
  PROVE  Stacked' /\ Goes(t, at, i, reg)
<1>1. Moved(Top(t), at, i, reg) \in Frames
  BY StackFacts DEF Moved, Frames
<1> QED
  BY <1>1, Move DEF Goes

LEMMA GoingOn ==
  ASSUME Stacked, NEW t \in Threads, Active(t), NEW at \in Places, stack' = Goto(t, at)
  PROVE  Stacked' /\ GoesOn(t, at)
<1>1. Top(t).impl \in Impls \cup {NoImpl} /\ Top(t).reg \in Int
  BY StackFacts DEF Frames
<1> QED
  BY <1>1, Going DEF Goto, GoesOn

\* A step in which t goes on and the stacks of crew become s.
LEMMA Parted ==
  ASSUME Stacked, NEW t \in Threads, Active(t), NEW at \in Places,
         NEW crew \in SUBSET Workers, t \notin crew, NEW s \in Seq(Frames),
         stack' = [v \in Threads |-> IF v \in crew THEN s ELSE Goto(t, at)[v]]
  PROVE  Stacked' /\ Splits(t, at, crew, s)
<1> DEFINE f == Moved(Top(t), at, Top(t).impl, Top(t).reg)
           r == [stack[t] EXCEPT ![Len(stack[t])] = f]
<1>1. f \in Frames
  BY StackFacts DEF Moved, Frames
<1>2. stack[t] \in Seq(Frames) /\ Len(stack[t]) \in Nat \ {0}
  BY StackFacts DEF Height, Stacked
<1>3. Goto(t, at)[t] = r /\ \A v \in Threads \ {t} : Goto(t, at)[v] = stack[v]
  BY DEF Goto, Renewed, Stacked
<1> HIDE DEF f
<1>4. r \in Seq(Frames) /\ Len(r) = Len(stack[t]) /\ r[Len(stack[t])] = f
      /\ \A k \in 1 .. Len(stack[t]) - 1 : r[k] = stack[t][k]
  BY <1>1, <1>2, ExceptSeq, LenProperties
<1> HIDE DEF r
<1>5. stack'[t] = r /\ (\A w \in crew : stack'[w] = s)
      /\ \A v \in Threads \ ({t} \cup crew) : stack'[v] = stack[v]
  BY <1>3 DEF Threads
<1>6. Stacked'
  BY <1>3, <1>4 DEF Stacked
<1> QED
  BY <1>4, <1>5, <1>6 DEF Splits, Height, f

\* What has yet to be given an impl leaves room for the impls made.
TxnsAt(A) == {f \in Frames : f.kind = "txn" /\ f.at \in A}
Unmade == TxnsAt({"enter", "hooks", "make"})

\* The places in the stacks of T where a frame is one of X.
Where(T, X) == {p \in T \X Nat : p[2] \in 1 .. Height(p[1]) /\ stack[p[1]][p[2]] \in X}

Budget ==
  /\ IsFiniteSet(Where(Threads, Unmade))
  /\ Cardinality(Where(Threads, Unmade)) + made <= opens

HasImpl(f) ==
  f.kind \in {"handler", "worker"} \/ (f.kind = "txn" /\ f.at \notin {"enter", "hooks", "make"})

\* The frames there can be once n impls were made.
Sound(n) ==
  {f \in Frames :
     /\ f.impl <= n
     /\ HasImpl(f) => f.impl # NoImpl
     /\ f.kind = "handler" => f.item \in Entries
     /\ f.kind = "worker" <=> f.at = "idle"
     /\ f.at = "post" => f.kind \in {"txn", "handler"}
     /\ f.at \notin {"open", "post", "idle"} => f.kind = "txn"}

AllIn(X) == \A t \in Threads : \A k \in 1 .. Height(t) : stack[t][k] \in X

\* Impls in use were made.
Named == (\A t \in Threads : tls[t] <= made) /\ AllIn(Sound(made))

\* The bottom of a worker's stack is the loop in which it takes entries.
Grounded == \A w \in Workers : Active(w) => stack[w][1].kind = "worker"

Typed == TypeOK /\ Budget /\ Named /\ Grounded

LEMMA TypedFacts ==
  ASSUME Typed
  PROVE  /\ Stacked
         /\ \A t \in Threads : /\ Height(t) \in Nat
                               /\ Active(t) <=> Height(t) > 0
                               /\ Active(t) => /\ Top(t) \in Sound(made) /\ Top(t) \in Frames
                                               /\ Top(t) = stack[t][Height(t)]
<1>1. Stacked
  BY DEF Typed, TypeOK, Stacked
<1> QED
  BY <1>1, StackFacts DEF Typed, Named, AllIn

LEMMA RoomToMake ==
  ASSUME Typed, NEW t \in Threads, InTxn(t, "make")
  PROVE  made + 1 \in Impls /\ made + 1 <= opens
<1>1. Stacked
  BY DEF Typed, TypeOK, Stacked
<1>2. Height(t) \in Nat /\ Height(t) > 0 /\ stack[t][Height(t)] \in Unmade
  BY <1>1, StackFacts DEF InTxn, At, Unmade, TxnsAt
<1>3. <<t, Height(t)>> \in Where(Threads, Unmade)
  BY <1>2 DEF Where
<1>4. Cardinality(Where(Threads, Unmade)) \in Nat /\ Cardinality(Where(Threads, Unmade)) # 0
  BY <1>3, FS_CardinalityType, FS_EmptySet DEF Typed, Budget
<1> QED
  BY <1>4, BoundAssumption DEF Typed, Budget, TypeOK, Impls

LEMMA ConstructorShapes ==
  ASSUME Typed, NEW t \in Threads
  PROVE  /\ EnterNested(t) => Stacked' /\ Goes(t, "incRead", tls[t], 1)
         /\ EnterFresh(t) =>
              Stacked' /\ Goes(t, IF processingHooks THEN "make" ELSE "hooks", NoImpl, 1)
         /\ CallHook(t) =>
              Stacked' /\ Calls(t, Moved(Top(t), "hooks", Top(t).impl, Top(t).reg + 1), NewHook)
         /\ HooksDone(t) => Stacked' /\ GoesOn(t, "make")
         /\ Make(t) => Stacked' /\ Goes(t, "incRead", made + 1, 1)
         /\ IncRead(t) => Stacked' /\ Reads(t, "incWrite")
         /\ IncWrite(t) => Stacked' /\ GoesOn(t, "open")
<1> USE DEF InTxn, At
<1>0. Stacked /\ tls[t] \in Impls \cup {NoImpl} /\ depth \in Int
  BY DEF Typed, TypeOK, Stacked
<1>1. Active(t) => Top(t) \in Frames /\ Top(t).impl \in Impls \cup {NoImpl} /\ Top(t).reg \in Int
  BY <1>0, StackFacts DEF Frames
<1>2. EnterNested(t) => Stacked' /\ Goes(t, "incRead", tls[t], 1)
  BY <1>0, Going DEF EnterNested, GotoImpl, Places
<1>3. EnterFresh(t) =>
        Stacked' /\ Goes(t, IF processingHooks THEN "make" ELSE "hooks", NoImpl, 1)
  BY <1>0, Going DEF EnterFresh, GotoImpl, Places
<1>4. CallHook(t) =>
        Stacked' /\ Calls(t, Moved(Top(t), "hooks", Top(t).impl, Top(t).reg + 1), NewHook)
  <2> SUFFICES ASSUME CallHook(t)
               PROVE Stacked' /\ Calls(t, Moved(Top(t), "hooks", Top(t).impl, Top(t).reg + 1), NewHook)
    OBVIOUS
  <2>1. Moved(Top(t), "hooks", Top(t).impl, Top(t).reg + 1) \in Frames
    BY <1>1 DEF CallHook, Moved, Frames, Places
  <2>2. NewHook \in Frames
    BY NewFrame DEF NewHook, Kinds, Places, Items
  <2> QED
    BY <1>0, <2>1, <2>2, MoveAndPush DEF CallHook, GotoWith, NewHook
<1>5. HooksDone(t) => Stacked' /\ GoesOn(t, "make")
  BY <1>0, GoingOn DEF HooksDone, Places
<1>6. Make(t) => Stacked' /\ Goes(t, "incRead", made + 1, 1)
  BY <1>0, RoomToMake, Going DEF Make, GotoImpl, Places
<1>7. IncRead(t) => Stacked' /\ Reads(t, "incWrite")
  BY <1>0, <1>1, Going DEF IncRead, GotoWith, Reads, Places
<1>8. IncWrite(t) => Stacked' /\ GoesOn(t, "open")
  BY <1>0, GoingOn DEF IncWrite, Places
<1> QED
  BY <1>2, <1>3, <1>4, <1>5, <1>6, <1>7, <1>8

LEMMA BodyShapes ==
  ASSUME Typed, NEW t \in Threads
  PROVE  /\ Open(t) => Stacked' /\ Pushes(t, NewTxn)
         /\ Send(t) \/ OnStart(t) => stack' = stack
         /\ WantPost(t) => Stacked' /\ GoesOn(t, "post")
         /\ Post(t) => Stacked' /\ GoesOn(t, "open")
         /\ CodeReturns(t) => Stacked' /\ Pops(t)
         /\ Start(t) => Stacked' /\ Pushes(t, NewHandler(Top(t).impl))
         /\ HandlerReturns(t) => Stacked' /\ Pops(t)
<1>0. Stacked /\ postQ \in Seq(Posts) /\ queue \in [Impls -> Seq(Entries)]
  BY DEF Typed, TypeOK, Stacked
<1>1. Open(t) => Stacked' /\ Pushes(t, NewTxn)
  <2>1. NewTxn \in Frames
    BY NewFrame DEF NewTxn, Kinds, Places, Items
  <2> QED
    BY <1>0, <2>1, Push DEF Open, NewTxn
<1>2. Send(t) \/ OnStart(t) => stack' = stack
  BY DEF Send, OnStart
<1>3. WantPost(t) => Stacked' /\ GoesOn(t, "post")
  BY <1>0, GoingOn DEF WantPost, InUserCode, Places
<1>4. Post(t) => Stacked' /\ GoesOn(t, "open")
  BY <1>0, GoingOn DEF Post, Places
<1>5. CodeReturns(t) => Stacked' /\ Pops(t)
  BY <1>0, PopTop DEF CodeReturns, InUserCode
<1>6. Start(t) => Stacked' /\ Pushes(t, NewHandler(Top(t).impl))
  <2> SUFFICES ASSUME Start(t)
               PROVE Stacked' /\ Pushes(t, NewHandler(Top(t).impl))
    OBVIOUS
  <2> DEFINE i == Top(t).impl
  <2>1. Active(t) /\ queue[i] # <<>>
        /\ stack' = [stack EXCEPT ![t] = Append(@, NewHandler(i))]
        /\ queue' = [queue EXCEPT ![i] = Tail(@)]
    BY DEF Start, At, NewHandler
  <2>2. i \in Impls \cup {NoImpl}
    BY <1>0, <2>1, StackFacts DEF Frames
  <2>3. i # NoImpl
    BY <2>1, TypedFacts DEF Start, At, Sound, HasImpl
  <2>4. Head(queue[i]) \in Entries
    BY <1>0, <2>1, <2>2, <2>3, HeadTailProperties DEF Impls, NoImpl
  <2>5. NewHandler(i) \in Frames
    BY <2>2, <2>4, NewFrame DEF NewHandler, Kinds, Places, Items
  <2> QED
    BY <1>0, <2>1, <2>5, Push
<1>7. HandlerReturns(t) => Stacked' /\ Pops(t)
  BY <1>0, PopTop DEF HandlerReturns, At
<1> QED
  BY <1>1, <1>2, <1>3, <1>4, <1>5, <1>6, <1>7

LEMMA ClosingShapes ==
  ASSUME Typed, NEW t \in Threads
  PROVE  /\ Close(t) => Stacked' /\ GoesOn(t, "test")
         /\ StartDrain(t) =>
              /\ Stacked'
              /\ \E crew \in SUBSET Workers :
                   /\ \A w \in crew : ~Active(w)
                   /\ Splits(t, "join", crew, <<NewWorker(Top(t).impl)>>)
         /\ Join(t) =>
              Stacked' /\ Splits(t, "decRead", Crew(Top(t).impl), <<>>)
         /\ DecRead(t) => Stacked' /\ Reads(t, "decWrite")
         /\ DecWrite(t) => Stacked' /\ GoesOn(t, "postTest")
         /\ CloseNested(t) => Stacked' /\ GoesOn(t, "nestRead")
         /\ NestRead(t) => Stacked' /\ Reads(t, "nestWrite")
         /\ NestWrite(t) => Stacked' /\ Pops(t)
<1> USE DEF InTxn, At
<1>0. Stacked /\ depth \in Int
  BY DEF Typed, TypeOK, Stacked
<1>1. Active(t) => Top(t) \in Frames /\ Top(t).impl \in Impls \cup {NoImpl} /\ Top(t).reg \in Int
  BY <1>0, StackFacts DEF Frames
<1>2. Close(t) => Stacked' /\ GoesOn(t, "test")
  BY <1>0, GoingOn DEF Close, Places
<1>3. StartDrain(t) =>
        /\ Stacked'
        /\ \E crew \in SUBSET Workers :
             /\ \A w \in crew : ~Active(w)
             /\ Splits(t, "join", crew, <<NewWorker(Top(t).impl)>>)
  <2> SUFFICES ASSUME StartDrain(t)
               PROVE  /\ Stacked'
                      /\ \E crew \in SUBSET Workers :
                           /\ \A w \in crew : ~Active(w)
                           /\ Splits(t, "join", crew, <<NewWorker(Top(t).impl)>>)
    OBVIOUS
  <2> DEFINE i == Top(t).impl
  <2>1. PICK crew \in SUBSET {w \in Workers : ~Active(w)} :
          stack' = [v \in Threads |-> IF v \in crew THEN <<NewWorker(i)>> ELSE Goto(t, "join")[v]]
    BY DEF StartDrain, NewWorker
  <2>2. Active(t) /\ t \notin crew /\ "join" \in Places
    BY DEF StartDrain, Places
  <2>3. NewWorker(i) \in Frames
    BY <1>1, <2>2, NewFrame DEF NewWorker, Kinds, Places, Items
  <2> DEFINE s == <<NewWorker(i)>>
  <2>4. s \in Seq(Frames)
    BY <2>3
  <2>5. stack' = [v \in Threads |-> IF v \in crew THEN s ELSE Goto(t, "join")[v]]
    BY <2>1
  <2>6. crew \in SUBSET Workers /\ \A w \in crew : ~Active(w)
    BY <2>1
  <2> HIDE DEF s
  <2>7. Stacked' /\ Splits(t, "join", crew, s)
    BY <1>0, <2>2, <2>4, <2>5, <2>6, Parted
  <2> QED
    BY <2>6, <2>7 DEF s
<1>4. Join(t) => Stacked' /\ Splits(t, "decRead", Crew(Top(t).impl), <<>>)
  <2> SUFFICES ASSUME Join(t)
               PROVE  Stacked' /\ Splits(t, "decRead", Crew(Top(t).impl), <<>>)
    OBVIOUS
  <2> DEFINE crew == Crew(Top(t).impl)
  <2>1. stack' = [v \in Threads |-> IF v \in crew THEN <<>> ELSE Goto(t, "decRead")[v]]
    BY DEF Join
  <2>2. Active(t) /\ "decRead" \in Places /\ crew \in SUBSET Workers
    BY DEF Join, Places, Crew
  <2>3. t \notin crew
    <3>1. t \in crew => Len(stack[t]) = 1 /\ stack[t][1].kind = "worker" /\ Top(t).kind = "txn"
      BY DEF Join, Crew, Typed, Grounded
    <3> QED
      BY <3>1 DEF Top
  <2> DEFINE s == <<>>
  <2>4. s \in Seq(Frames)
    BY EmptySeq
  <2> HIDE DEF crew, s
  <2>5. Stacked' /\ Splits(t, "decRead", crew, s)
    BY <1>0, <2>1, <2>2, <2>3, <2>4, Parted DEF s
  <2> QED
    BY <2>5 DEF crew, s
<1>5. DecRead(t) => Stacked' /\ Reads(t, "decWrite")
  BY <1>0, <1>1, Going DEF DecRead, GotoWith, Reads, Places
<1>6. DecWrite(t) => Stacked' /\ GoesOn(t, "postTest")
  BY <1>0, GoingOn DEF DecWrite, Places
<1>7. CloseNested(t) => Stacked' /\ GoesOn(t, "nestRead")
  BY <1>0, GoingOn DEF CloseNested, Places
<1>8. NestRead(t) => Stacked' /\ Reads(t, "nestWrite")
  BY <1>0, <1>1, Going DEF NestRead, GotoWith, Reads, Places
<1>9. NestWrite(t) => Stacked' /\ Pops(t)
  BY <1>0, PopTop DEF NestWrite
<1> QED
  BY <1>2, <1>3, <1>4, <1>5, <1>6, <1>7, <1>8, <1>9

LEMMA PostShapes ==
  ASSUME Typed, NEW t \in Threads
  PROVE  /\ PostTest(t) =>
              Stacked' /\ GoesOn(t, IF processingPost THEN "unlock" ELSE "postSet")
         /\ PostSet(t) => Stacked' /\ GoesOn(t, "posts")
         /\ RunPost(t) =>
              Stacked' /\ Calls(t, Moved(Top(t), "relock", Top(t).impl, Top(t).reg), NewAction)
         /\ Relock(t) => Stacked' /\ GoesOn(t, "posts")
         /\ NoMorePosts(t) => Stacked' /\ GoesOn(t, "postClear")
         /\ PostsDone(t) => Stacked' /\ GoesOn(t, "unlock")
         /\ Unlock(t) => Stacked' /\ Pops(t)
<1> USE DEF InTxn, At
<1>0. Stacked /\ postQ \in Seq(Posts)
  BY DEF Typed, TypeOK, Stacked
<1>1. PostTest(t) => Stacked' /\ GoesOn(t, IF processingPost THEN "unlock" ELSE "postSet")
  BY <1>0, GoingOn DEF PostTest, Places
<1>2. PostSet(t) => Stacked' /\ GoesOn(t, "posts")
  BY <1>0, GoingOn DEF PostSet, Places
<1>3. RunPost(t) =>
        Stacked' /\ Calls(t, Moved(Top(t), "relock", Top(t).impl, Top(t).reg), NewAction)
  <2> SUFFICES ASSUME RunPost(t)
               PROVE Stacked' /\ Calls(t, Moved(Top(t), "relock", Top(t).impl, Top(t).reg), NewAction)
    OBVIOUS
  <2>1. Moved(Top(t), "relock", Top(t).impl, Top(t).reg) \in Frames
    BY <1>0, StackFacts DEF RunPost, Moved, Frames, Places
  <2>2. NewAction \in Frames
    BY <1>0, NewFrame, HeadTailProperties DEF RunPost, NewAction, Kinds, Places, Items
  <2> QED
    BY <1>0, <2>1, <2>2, MoveAndPush DEF RunPost, Call, Goto, NewAction
<1>4. Relock(t) => Stacked' /\ GoesOn(t, "posts")
  BY <1>0, GoingOn DEF Relock, Places
<1>5. NoMorePosts(t) => Stacked' /\ GoesOn(t, "postClear")
  BY <1>0, GoingOn DEF NoMorePosts, Places
<1>6. PostsDone(t) => Stacked' /\ GoesOn(t, "unlock")
  BY <1>0, GoingOn DEF PostsDone, Places
<1>7. Unlock(t) => Stacked' /\ Pops(t)
  BY <1>0, PopTop DEF Unlock
<1> QED
  BY <1>1, <1>2, <1>3, <1>4, <1>5, <1>6, <1>7

-----------------------------------------------------------------------------
(* How many frames of a kind there are, from step to step.                 *)

HowMany(T, X) == Cardinality(Where(T, X))

\* Where frames are after a step of each shape.
LEMMA WhereMoves ==
  ASSUME Stacked, Stacked', NEW t \in Threads, Active(t), NEW f, Moves(t, f),
         NEW T \in SUBSET Threads, t \in T, NEW X
  PROVE  LET p == <<t, Height(t)>> IN
         /\ Where(T, X) \ {p} = Where(T, X)' \ {p}
         /\ p \in Where(T, X) <=> Top(t) \in X
         /\ p \in Where(T, X)' <=> f \in X
<1>1. \A v \in Threads : Height(v) \in Nat /\ Height(v)' \in Nat
  BY StackFacts, LenProperties DEF Stacked, Height
<1>2. Height(t) > 0 /\ Height(t)' = Height(t)
  BY StackFacts DEF Moves, Height
<1>3. \A v \in Threads \ {t} : stack'[v] = stack[v] /\ Height(v)' = Height(v)
  BY DEF Moves, Keeps, Height
<1> QED
  BY <1>1, <1>2, <1>3, StackFacts DEF Moves, Keeps, Where

LEMMA WherePushes ==
  ASSUME Stacked, Stacked', NEW t \in Threads, NEW g, Pushes(t, g),
         NEW T \in SUBSET Threads, t \in T, NEW X
  PROVE  LET p == <<t, Height(t) + 1>> IN
         /\ Where(T, X) \ {p} = Where(T, X)' \ {p}
         /\ p \notin Where(T, X)
         /\ p \in Where(T, X)' <=> g \in X
<1>1. \A v \in Threads : Height(v) \in Nat /\ Height(v)' \in Nat
  BY StackFacts, LenProperties DEF Stacked, Height
<1>2. Height(t)' = Height(t) + 1
  BY DEF Pushes, Height
<1>3. \A v \in Threads \ {t} : stack'[v] = stack[v] /\ Height(v)' = Height(v)
  BY DEF Pushes, Keeps, Height
<1> QED
  BY <1>1, <1>2, <1>3 DEF Pushes, Keeps, Where

LEMMA WherePops ==
  ASSUME Stacked, Stacked', NEW t \in Threads, Active(t), Pops(t),
         NEW T \in SUBSET Threads, t \in T, NEW X
  PROVE  LET p == <<t, Height(t)>> IN
         /\ Where(T, X) \ {p} = Where(T, X)' \ {p}
         /\ p \in Where(T, X) <=> Top(t) \in X
         /\ p \notin Where(T, X)'
<1>1. \A v \in Threads : Height(v) \in Nat /\ Height(v)' \in Nat
  BY StackFacts, LenProperties DEF Stacked, Height
<1>2. Height(t) > 0 /\ Height(t)' = Height(t) - 1
  BY StackFacts DEF Pops, Height
<1>3. \A v \in Threads \ {t} : stack'[v] = stack[v] /\ Height(v)' = Height(v)
  BY DEF Pops, Keeps, Height
<1> QED
  BY <1>1, <1>2, <1>3, StackFacts DEF Pops, Keeps, Where

LEMMA WhereSplits ==
  ASSUME Stacked, Stacked', NEW t \in Threads, Active(t), NEW at, NEW crew \in SUBSET Workers,
         NEW s, Splits(t, at, crew, s), Len(s) \in Nat,
         NEW T \in SUBSET Threads, t \in T, NEW X,
         \A w \in crew : \A k \in 1 .. Height(w) : stack[w][k] \notin X,
         \A k \in 1 .. Len(s) : s[k] \notin X
  PROVE  LET p == <<t, Height(t)>> IN
         /\ Where(T, X) \ {p} = Where(T, X)' \ {p}
         /\ p \in Where(T, X) <=> Top(t) \in X
         /\ p \in Where(T, X)' <=> Moved(Top(t), at, Top(t).impl, Top(t).reg) \in X
<1>1. \A v \in Threads : Height(v) \in Nat /\ Height(v)' \in Nat
  BY StackFacts, LenProperties DEF Stacked, Height
<1>2. Height(t) > 0 /\ Height(t)' = Height(t) /\ t \notin crew
  BY StackFacts DEF Splits, Height
<1>3. \A v \in Threads \ ({t} \cup crew) : stack'[v] = stack[v] /\ Height(v)' = Height(v)
  BY DEF Splits, Height
<1>4. \A w \in crew : stack'[w] = s /\ Height(w)' = Len(s)
  BY DEF Splits, Height
<1>5. \A w \in crew : \A k \in Nat : <<w, k>> \notin Where(T, X) /\ <<w, k>> \notin Where(T, X)'
  BY <1>4 DEF Where
<1>6. \A k \in 1 .. Height(t) - 1 : stack'[t][k] = stack[t][k]
  BY DEF Splits
<1>7. \A v \in T : \A k \in Nat : <<v, k>> # <<t, Height(t)>> =>
        (<<v, k>> \in Where(T, X) <=> <<v, k>> \in Where(T, X)')
  BY <1>1, <1>2, <1>3, <1>5, <1>6 DEF Where
<1>8. Where(T, X) \subseteq T \X Nat /\ Where(T, X)' \subseteq T \X Nat
  BY DEF Where
<1> QED
  BY <1>1, <1>2, <1>7, <1>8, StackFacts DEF Splits, Where

LEMMA MoveTally ==
  ASSUME Stacked, Stacked', NEW t \in Threads, Active(t), NEW f, Moves(t, f),
         NEW T \in SUBSET Threads, t \in T, NEW X, IsFiniteSet(Where(T, X))
  PROVE  /\ IsFiniteSet(Where(T, X)')
         /\ HowMany(T, X) \in Nat /\ HowMany(T, X)' \in Nat
         /\ HowMany(T, X)' + Bit(Top(t) \in X) = HowMany(T, X) + Bit(f \in X)
<1> DEFINE p == <<t, Height(t)>>
<1>1. /\ Where(T, X) \ {p} = Where(T, X)' \ {p}
      /\ p \in Where(T, X) <=> Top(t) \in X
      /\ p \in Where(T, X)' <=> f \in X
  BY WhereMoves
<1> QED
  BY <1>1, OneOff DEF HowMany, Bit

LEMMA PushTally ==
  ASSUME Stacked, Stacked', NEW t \in Threads, NEW g, Pushes(t, g),
         NEW T \in SUBSET Threads, t \in T, NEW X, IsFiniteSet(Where(T, X))
  PROVE  /\ IsFiniteSet(Where(T, X)')
         /\ HowMany(T, X) \in Nat /\ HowMany(T, X)' \in Nat
         /\ HowMany(T, X)' = HowMany(T, X) + Bit(g \in X)
<1> DEFINE p == <<t, Height(t) + 1>>
<1>1. /\ Where(T, X) \ {p} = Where(T, X)' \ {p}
      /\ p \notin Where(T, X)
      /\ p \in Where(T, X)' <=> g \in X
  BY WherePushes
<1> QED
  BY <1>1, OneOff DEF HowMany, Bit

LEMMA PopTally ==
  ASSUME Stacked, Stacked', NEW t \in Threads, Active(t), Pops(t),
         NEW T \in SUBSET Threads, t \in T, NEW X, IsFiniteSet(Where(T, X))
  PROVE  /\ IsFiniteSet(Where(T, X)')
         /\ HowMany(T, X) \in Nat /\ HowMany(T, X)' \in Nat
         /\ HowMany(T, X)' + Bit(Top(t) \in X) = HowMany(T, X)
<1> DEFINE p == <<t, Height(t)>>
<1>1. /\ Where(T, X) \ {p} = Where(T, X)' \ {p}
      /\ p \in Where(T, X) <=> Top(t) \in X
      /\ p \notin Where(T, X)'
  BY WherePops
<1> QED
  BY <1>1, OneOff DEF HowMany, Bit

LEMMA SplitTally ==
  ASSUME Stacked, Stacked', NEW t \in Threads, Active(t), NEW at, NEW crew \in SUBSET Workers,
         NEW s, Splits(t, at, crew, s), Len(s) \in Nat,
         NEW T \in SUBSET Threads, t \in T, NEW X, IsFiniteSet(Where(T, X)),
         \A w \in crew : \A k \in 1 .. Height(w) : stack[w][k] \notin X,
         \A k \in 1 .. Len(s) : s[k] \notin X
  PROVE  /\ IsFiniteSet(Where(T, X)')
         /\ HowMany(T, X) \in Nat /\ HowMany(T, X)' \in Nat
         /\ HowMany(T, X)' + Bit(Top(t) \in X)
              = HowMany(T, X) + Bit(Moved(Top(t), at, Top(t).impl, Top(t).reg) \in X)
<1> DEFINE p == <<t, Height(t)>>
           f == Moved(Top(t), at, Top(t).impl, Top(t).reg)
<1>1. /\ Where(T, X) \ {p} = Where(T, X)' \ {p}
      /\ p \in Where(T, X) <=> Top(t) \in X
      /\ p \in Where(T, X)' <=> f \in X
  BY WhereSplits
<1> QED
  BY <1>1, OneOff DEF HowMany, Bit

\* A call leaves two places that may differ.
LEMMA CallTally ==
  ASSUME Stacked, Stacked', NEW t \in Threads, Active(t), NEW f, NEW g, Calls(t, f, g),
         NEW T \in SUBSET Threads, t \in T, NEW X, IsFiniteSet(Where(T, X))
  PROVE  /\ IsFiniteSet(Where(T, X)')
         /\ HowMany(T, X) \in Nat /\ HowMany(T, X)' \in Nat
         /\ HowMany(T, X)' + Bit(Top(t) \in X) = HowMany(T, X) + Bit(f \in X) + Bit(g \in X)
<1> DEFINE p == <<t, Height(t)>>
           q == <<t, Height(t) + 1>>
           B == Where(T, X)' \ {q}
<1>1. \A v \in Threads : Height(v) \in Nat /\ Height(v)' \in Nat
  BY StackFacts, LenProperties DEF Stacked, Height
<1>2. Height(t) > 0 /\ Height(t)' = Height(t) + 1
  BY StackFacts DEF Calls, Height
<1>3. \A v \in Threads \ {t} : stack'[v] = stack[v] /\ Height(v)' = Height(v)
  BY DEF Calls, Keeps, Height
<1>4. /\ Where(T, X) \ {p} = B \ {p}
      /\ p \in Where(T, X) <=> Top(t) \in X
      /\ p \in B <=> f \in X
      /\ q \in Where(T, X)' <=> g \in X
  <2>1. \A v \in T : \A k \in Nat : <<v, k>> \notin {p, q} =>
          (<<v, k>> \in Where(T, X) <=> <<v, k>> \in Where(T, X)')
    BY <1>1, <1>2, <1>3 DEF Calls, Keeps, Where
  <2>2. Where(T, X) \subseteq T \X Nat /\ Where(T, X)' \subseteq T \X Nat
    BY DEF Where
  <2>3. q \notin Where(T, X)
    BY <1>1 DEF Where
  <2>4. p \in Where(T, X) <=> Top(t) \in X
    BY <1>1, <1>2, StackFacts DEF Where
  <2>5. /\ p \in Where(T, X)' <=> f \in X
        /\ q \in Where(T, X)' <=> g \in X
    BY <1>1, <1>2 DEF Calls, Where
  <2>6. p # q
    BY <1>1
  <2> QED
    BY <2>1, <2>2, <2>3, <2>4, <2>5, <2>6
<1>5. /\ IsFiniteSet(B) /\ Cardinality(Where(T, X)) \in Nat /\ Cardinality(B) \in Nat
      /\ Cardinality(B) + Bit(Top(t) \in X) = Cardinality(Where(T, X)) + Bit(f \in X)
  <2> HIDE DEF B
  <2> QED
    BY <1>4, OneOff DEF Bit
<1>6. /\ IsFiniteSet(Where(T, X)') /\ Cardinality(Where(T, X)') \in Nat
      /\ Cardinality(Where(T, X)') = Cardinality(B) + Bit(g \in X)
  <2> DEFINE W == Where(T, X)'
  <2>1. B \ {q} = W \ {q} /\ q \notin B /\ (q \in W <=> g \in X)
    BY <1>4
  <2> HIDE DEF B, W
  <2>2. IsFiniteSet(W) /\ Cardinality(W) \in Nat
        /\ Cardinality(W) = Cardinality(B) + Bit(g \in X)
    BY <1>5, <2>1, OneOff DEF Bit
  <2> QED
    BY <2>2 DEF W
<1> QED
  BY <1>5, <1>6 DEF HowMany, Bit

-----------------------------------------------------------------------------
(* What holds of every frame, from step to step.                           *)

LEMMA AllMoves ==
  ASSUME Stacked, NEW t \in Threads, NEW f, Moves(t, f), NEW X, AllIn(X), f \in X
  PROVE  AllIn(X)'
<1>1. \A v \in Threads : Height(v) \in Nat
  BY StackFacts
<1> QED
  BY <1>1 DEF AllIn, Moves, Keeps, Height

LEMMA AllPushes ==
  ASSUME Stacked, NEW t \in Threads, NEW g, Pushes(t, g), NEW X, AllIn(X), g \in X
  PROVE  AllIn(X)'
<1>1. \A v \in Threads : Height(v) \in Nat
  BY StackFacts
<1> QED
  BY <1>1 DEF AllIn, Pushes, Keeps, Height

LEMMA AllCalls ==
  ASSUME Stacked, NEW t \in Threads, NEW f, NEW g, Calls(t, f, g),
         NEW X, AllIn(X), f \in X, g \in X
  PROVE  AllIn(X)'
<1>1. \A v \in Threads : Height(v) \in Nat
  BY StackFacts
<1>2. ASSUME NEW v \in Threads, NEW k \in 1 .. Len(stack'[v]) PROVE stack'[v][k] \in X
  <2>1. CASE v # t
    BY <1>2, <2>1 DEF AllIn, Calls, Keeps, Height
  <2>2. CASE v = t /\ k \in 1 .. Height(t) - 1
    BY <1>1, <1>2, <2>2 DEF AllIn, Calls, Keeps, Height
  <2>3. CASE v = t /\ k \notin 1 .. Height(t) - 1
    BY <1>1, <1>2, <2>3 DEF Calls, Height
  <2> QED
    BY <2>1, <2>2, <2>3
<1> QED
  BY <1>2 DEF AllIn, Height

LEMMA AllPops ==
  ASSUME Stacked, NEW t \in Threads, Pops(t), NEW X, AllIn(X)
  PROVE  AllIn(X)'
<1>1. \A v \in Threads : Height(v) \in Nat
  BY StackFacts
<1>2. ASSUME NEW v \in Threads, NEW k \in 1 .. Len(stack'[v]) PROVE stack'[v][k] \in X
  <2>1. CASE v # t
    BY <1>2, <2>1 DEF AllIn, Pops, Keeps, Height
  <2>2. CASE v = t
    BY <1>1, <1>2, <2>2 DEF AllIn, Pops, Keeps, Height
  <2> QED
    BY <2>1, <2>2
<1> QED
  BY <1>2 DEF AllIn, Height

LEMMA AllSplits ==
  ASSUME Stacked, NEW t \in Threads, NEW at, NEW crew \in SUBSET Workers, NEW s,
         Splits(t, at, crew, s), NEW X, AllIn(X),
         Moved(Top(t), at, Top(t).impl, Top(t).reg) \in X, \A k \in 1 .. Len(s) : s[k] \in X
  PROVE  AllIn(X)'
<1>1. \A v \in Threads : Height(v) \in Nat
  BY StackFacts
<1>2. \A k \in 1 .. Height(t)' : stack'[t][k] \in X
  BY <1>1 DEF AllIn, Splits, Height
<1>3. \A w \in crew : \A k \in 1 .. Height(w)' : stack'[w][k] \in X
  BY DEF Splits, Height
<1>4. \A v \in Threads \ ({t} \cup crew) : \A k \in 1 .. Height(v)' : stack'[v][k] \in X
  BY DEF AllIn, Splits, Height
<1> QED
  BY <1>2, <1>3, <1>4 DEF AllIn

-----------------------------------------------------------------------------
(* Type correctness.                                                       *)

\* Which steps change what.
LEMMA Changes ==
  ASSUME NEW t \in Threads, Step(t)
  PROVE  /\ opens' = opens \/ Open(t)
         /\ made' = made \/ Make(t)
         /\ tls' = tls \/ Make(t) \/ Join(t) \/ DecWrite(t)
         /\ depth' = depth \/ IncWrite(t) \/ DecWrite(t) \/ NestWrite(t)
         /\ mx' = mx \/ EnterFresh(t) \/ Make(t) \/ RunPost(t) \/ Relock(t) \/ Unlock(t)
         /\ postQ' = postQ \/ Post(t) \/ RunPost(t)
         /\ processingPost' = processingPost \/ PostSet(t) \/ PostsDone(t)
         /\ hooks' = hooks \/ OnStart(t)
         /\ processingHooks' = processingHooks \/ EnterFresh(t) \/ HooksDone(t)
         /\ queue' = queue \/ Send(t) \/ Start(t)
         /\ sent' = sent \/ Send(t)
         /\ processed' = processed \/ HandlerReturns(t)
         /\ freed' = freed \/ DecWrite(t)
         /\ posted' = posted \/ Post(t)
         /\ ran' = ran \/ RunPost(t)
<1> USE DEF lockVars, history
<1>1. CASE Constructor(t)
  BY <1>1 DEF Constructor, EnterNested, EnterFresh, CallHook, HooksDone, Make, IncRead, IncWrite
<1>2. CASE Body(t)
  BY <1>2 DEF Body, Open, Send, OnStart, WantPost, Post, CodeReturns
<1>3. CASE Closing(t)
  BY <1>3 DEF Closing, Close, StartDrain, Join, DecRead, DecWrite, CloseNested, NestRead,
              NestWrite, PostTest, PostSet, RunPost, Relock, NoMorePosts, PostsDone, Unlock
<1>4. CASE Start(t) \/ HandlerReturns(t)
  BY <1>4 DEF Start, HandlerReturns
<1> QED
  BY <1>1, <1>2, <1>3, <1>4 DEF Step

LEMMA StackKept ==
  ASSUME Typed, NEW t \in Threads, Step(t)
  PROVE  Stacked'
<1>1. Stacked
  BY TypedFacts
<1>2. stack' = stack => Stacked'
  BY <1>1 DEF Stacked
<1> QED
  BY <1>2, ConstructorShapes, BodyShapes, ClosingShapes, PostShapes
     DEF Step, Constructor, Body, Closing

Mutexes == {m \in [owner : Threads \cup {NoThread}, count : Nat] : m.count = 0 <=> m.owner = NoThread}

\* Locking and unlocking a mutex gives a mutex.
LEMMA LockTypes ==
  ASSUME mx \in Mutexes, NEW t \in Threads
  PROVE  Locked(t) \in Mutexes /\ Unlocked(t) \in Mutexes
BY ThreadsAssumption DEF Mutexes, Locked, Unlocked, Threads

LEMMA TypesKept ==
  ASSUME Typed, NEW t \in Threads, Step(t)
  PROVE  TypeOK'
<1> USE DEF InTxn, At
<1>1. stack' \in [Threads -> Seq(Frames)]
  BY StackKept DEF Stacked
<1>2. opens' \in 0 .. MaxOpens /\ made' \in 0 .. opens'
  <2>1. CASE Open(t)
    BY <2>1, Changes, BoundAssumption DEF Open, Typed, TypeOK
  <2>2. CASE Make(t)
    BY <2>2, RoomToMake DEF Make, Typed, TypeOK
  <2> QED
    BY <2>1, <2>2, Changes DEF Typed, TypeOK
<1>3. made <= made' /\ made \in Nat
  <2>1. made' = made \/ made' = made + 1
    BY Changes DEF Make
  <2>2. made \in Nat
    BY BoundAssumption DEF Typed, TypeOK
  <2> QED
    BY <2>1, <2>2
<1>4. tls' \in [Threads -> Impls \cup {NoImpl}]
  BY Changes, RoomToMake DEF Make, Join, DecWrite, Typed, TypeOK
<1>5. depth' \in Int
  <2>1. depth' = depth \/ (Active(t) /\ depth' \in {Top(t).reg + 1, Top(t).reg - 1})
    BY Changes DEF IncWrite, DecWrite, NestWrite
  <2>2. depth \in Int /\ (Active(t) => Top(t).reg \in Int)
    BY TypedFacts DEF Frames, Typed, TypeOK
  <2> QED
    BY <2>1, <2>2
<1>6. mx' \in Mutexes
  <2>1. mx \in Mutexes
    BY DEF Typed, TypeOK, Mutexes
  <2> QED
    BY <2>1, Changes, LockTypes DEF EnterFresh, Make, RunPost, Relock, Unlock
<1>7. postQ' \in Seq(Posts) /\ posted' \in Seq(Posts \X (Impls \cup {NoImpl}))
  <2>1. CASE Post(t)
    <3>1. Top(t).impl \in Impls \cup {NoImpl}
      BY <2>1, TypedFacts DEF Post, Frames
    <3>2. PICK p \in Posts : postQ' = Append(postQ, p) /\ posted' = Append(posted, <<p, Top(t).impl>>)
      BY <2>1 DEF Post
    <3> QED
      BY <3>1, <3>2 DEF Typed, TypeOK
  <2>2. CASE RunPost(t)
    BY <2>2, HeadTailProperties DEF RunPost, Typed, TypeOK
  <2> QED
    BY <2>1, <2>2, Changes DEF Typed, TypeOK
<1>8. processingPost' \in BOOLEAN /\ processingHooks' \in BOOLEAN
  BY Changes DEF PostSet, PostsDone, EnterFresh, HooksDone, Typed, TypeOK
<1>9. hooks' \in Seq(Hooks)
  <2>1. CASE OnStart(t)
    BY <2>1 DEF OnStart, Typed, TypeOK
  <2> QED
    BY <2>1, Changes DEF Typed, TypeOK
<1>10. queue' \in [Impls -> Seq(Entries)] /\ sent' \in [Entries -> Impls \cup {NoImpl}]
  <2>1. CASE Send(t)
    <3>1. Top(t).impl \in Impls \cup {NoImpl}
      BY <2>1, TypedFacts DEF Send, InUserCode, Frames
    <3> DEFINE i == Top(t).impl
    <3>2. PICK e \in Entries :
            /\ sent' = [sent EXCEPT ![e] = i]
            /\ queue' = [queue EXCEPT ![i] = Append(queue[i], e)]
      BY <2>1 DEF Send
    <3>3. queue \in [Impls -> Seq(Entries)] /\ sent \in [Entries -> Impls \cup {NoImpl}]
      BY DEF Typed, TypeOK
    <3> HIDE DEF i
    <3>4. i \in Impls => Append(queue[i], e) \in Seq(Entries)
      BY <3>3, AppendProperties
    <3> QED
      BY <3>1, <3>2, <3>3, <3>4 DEF i
  <2>2. CASE Start(t)
    <3> DEFINE i == Top(t).impl
    <3>1. queue[i] # <<>> /\ queue' = [queue EXCEPT ![i] = Tail(queue[i])] /\ sent' = sent
      BY <2>2 DEF Start, history
    <3>2. queue \in [Impls -> Seq(Entries)] /\ sent \in [Entries -> Impls \cup {NoImpl}]
      BY DEF Typed, TypeOK
    <3> HIDE DEF i
    <3>3. i \in Impls => Tail(queue[i]) \in Seq(Entries)
      BY <3>1, <3>2, HeadTailProperties
    <3> QED
      BY <3>1, <3>2, <3>3
  <2> QED
    BY <2>1, <2>2, Changes DEF Typed, TypeOK
<1>11. processed' \subseteq Entries
  <2>1. processed \subseteq Entries
    BY DEF Typed, TypeOK
  <2>2. HandlerReturns(t) => Top(t).item \in Entries
    BY TypedFacts DEF HandlerReturns, Sound
  <2> QED
    BY <2>1, <2>2, Changes DEF HandlerReturns
<1>12. freed' \subseteq 1 .. made'
  <2>1. DecWrite(t) => Top(t).impl \in 1 .. made
    BY TypedFacts DEF DecWrite, Sound, HasImpl, Frames, Impls, NoImpl
  <2> QED
    <3> SUFFICES ASSUME NEW i \in freed' PROVE i \in 1 .. made'
      OBVIOUS
    <3>1. i \in 1 .. made
      <4>1. freed \subseteq 1 .. made
        BY DEF Typed, TypeOK
      <4> QED
        BY <2>1, <4>1, Changes DEF DecWrite
    <3>2. made \in Nat /\ made' \in Nat /\ made <= made'
      BY <1>2, <1>3, BoundAssumption
    <3> QED
      BY <3>1, <3>2
<1>13. ran' \in Seq(Posts)
  <2>1. CASE RunPost(t)
    BY <2>1, HeadTailProperties DEF RunPost, Typed, TypeOK
  <2> QED
    BY <2>1, Changes DEF Typed, TypeOK
<1> QED
  BY <1>1, <1>2, <1>4, <1>5, <1>6, <1>7, <1>8, <1>9, <1>10, <1>11, <1>12, <1>13
     DEF TypeOK, Mutexes

-----------------------------------------------------------------------------
(* How many frames are at some places, from step to step.                  *)

\* A step that takes one transaction object from place "from" to place "to".  No
\* object is ever at "idle": it stands for the places of those not on a stack.
Passes(T, A, from, to) ==
  HowMany(T, TxnsAt(A))' + Bit(from \in A) = HowMany(T, TxnsAt(A)) + Bit(to \in A)

LEMMA GoesPast ==
  ASSUME Stacked, Stacked', NEW t \in Threads, Active(t), NEW at, NEW i, NEW reg,
         Goes(t, at, i, reg),
         NEW T \in SUBSET Threads, t \in T, NEW A, IsFiniteSet(Where(T, TxnsAt(A)))
  PROVE  /\ IsFiniteSet(Where(T, TxnsAt(A))')
         /\ HowMany(T, TxnsAt(A)) \in Nat /\ HowMany(T, TxnsAt(A))' \in Nat
         /\ Top(t).kind = "txn" => Passes(T, A, Top(t).at, at)
         /\ Top(t).kind # "txn" => HowMany(T, TxnsAt(A))' = HowMany(T, TxnsAt(A))
<1> DEFINE f == Moved(Top(t), at, i, reg)
<1>1. Moves(t, f)
  BY DEF Goes
<1>2. f \in Frames
  <2>1. Height(t) > 0 /\ Height(t) \in Nat /\ Height(t)' = Height(t) /\ stack'[t][Height(t)] = f
    BY <1>1, StackFacts DEF Moves, Height
  <2>2. \A k \in 1 .. Height(t)' : stack'[t][k] \in Frames
    BY ElementOfSeq DEF Stacked, Height
  <2> QED
    BY <2>1, <2>2
<1>3. f \in TxnsAt(A) <=> Top(t).kind = "txn" /\ at \in A
  BY <1>2 DEF TxnsAt, Moved
<1>4. Top(t) \in TxnsAt(A) <=> Top(t).kind = "txn" /\ Top(t).at \in A
  BY StackFacts DEF TxnsAt
<1> HIDE DEF f
<1>5. /\ IsFiniteSet(Where(T, TxnsAt(A))')
      /\ HowMany(T, TxnsAt(A)) \in Nat /\ HowMany(T, TxnsAt(A))' \in Nat
      /\ HowMany(T, TxnsAt(A))' + Bit(Top(t) \in TxnsAt(A))
           = HowMany(T, TxnsAt(A)) + Bit(f \in TxnsAt(A))
  <2> DEFINE X == TxnsAt(A)
  <2> HIDE DEF X
  <2>1. /\ IsFiniteSet(Where(T, X)')
        /\ HowMany(T, X) \in Nat /\ HowMany(T, X)' \in Nat
        /\ HowMany(T, X)' + Bit(Top(t) \in X) = HowMany(T, X) + Bit(f \in X)
    BY <1>1, MoveTally DEF X
  <2> QED
    BY <2>1 DEF X
<1> QED
  BY <1>3, <1>4, <1>5 DEF Passes, Bit

\* How the steps of t move the transaction objects of T between places.
LEMMA Traffic ==
  ASSUME Typed, NEW t \in Threads, Step(t), Stacked',
         NEW T \in SUBSET Threads, t \in T,
         NEW A, "idle" \notin A, IsFiniteSet(Where(T, TxnsAt(A)))
  PROVE  /\ IsFiniteSet(Where(T, TxnsAt(A))')
         /\ HowMany(T, TxnsAt(A)) \in Nat /\ HowMany(T, TxnsAt(A))' \in Nat
         /\ Open(t) => Passes(T, A, "idle", "enter")
         /\ EnterNested(t) => Passes(T, A, "enter", "incRead")
         /\ EnterFresh(t) => Passes(T, A, "enter", IF processingHooks THEN "make" ELSE "hooks")
         /\ CallHook(t) => Passes(T, A, "hooks", "hooks")
         /\ HooksDone(t) => Passes(T, A, "hooks", "make")
         /\ Make(t) => Passes(T, A, "make", "incRead")
         /\ IncRead(t) => Passes(T, A, "incRead", "incWrite")
         /\ IncWrite(t) => Passes(T, A, "incWrite", "open")
         /\ Send(t) \/ OnStart(t) \/ CodeReturns(t) \/ Start(t) \/ HandlerReturns(t)
              => Passes(T, A, "open", "open")
         /\ WantPost(t) => IF Top(t).kind = "txn" THEN Passes(T, A, "open", "post")
                           ELSE Passes(T, A, "open", "open")
         /\ Post(t) => IF Top(t).kind = "txn" THEN Passes(T, A, "post", "open")
                       ELSE Passes(T, A, "open", "open")
         /\ Close(t) => Passes(T, A, "open", "test")
         /\ StartDrain(t) => Passes(T, A, "test", "join")
         /\ Join(t) => Passes(T, A, "join", "decRead")
         /\ DecRead(t) => Passes(T, A, "decRead", "decWrite")
         /\ DecWrite(t) => Passes(T, A, "decWrite", "postTest")
         /\ CloseNested(t) => Passes(T, A, "test", "nestRead")
         /\ NestRead(t) => Passes(T, A, "nestRead", "nestWrite")
         /\ NestWrite(t) => Passes(T, A, "nestWrite", "idle")
         /\ PostTest(t) => Passes(T, A, "postTest", IF processingPost THEN "unlock" ELSE "postSet")
         /\ PostSet(t) => Passes(T, A, "postSet", "posts")
         /\ RunPost(t) => Passes(T, A, "posts", "relock")
         /\ Relock(t) => Passes(T, A, "relock", "posts")
         /\ NoMorePosts(t) => Passes(T, A, "posts", "postClear")
         /\ PostsDone(t) => Passes(T, A, "postClear", "unlock")
         /\ Unlock(t) => Passes(T, A, "unlock", "idle")
<1> USE DEF InTxn, At
<1> DEFINE X == TxnsAt(A)
           OK == /\ IsFiniteSet(Where(T, X)')
                 /\ HowMany(T, X) \in Nat /\ HowMany(T, X)' \in Nat
<1>0. /\ Stacked /\ HowMany(T, X) \in Nat
      /\ "idle" \notin A
      /\ Active(t) => Top(t) \in Frames /\ (Top(t) \in X <=> Top(t).kind = "txn" /\ Top(t).at \in A)
  BY TypedFacts, FS_CardinalityType DEF HowMany, TxnsAt
<1>1. ASSUME Active(t), NEW at, NEW i, NEW reg, Goes(t, at, i, reg)
      PROVE  /\ OK
             /\ Top(t).kind = "txn" => Passes(T, A, Top(t).at, at)
             /\ Top(t).kind # "txn" => Passes(T, A, "open", "open")
  BY <1>0, <1>1, GoesPast DEF Passes
<1>2. ASSUME NEW g \in Frames, Pushes(t, g)
      PROVE  OK /\ HowMany(T, X)' = HowMany(T, X) + Bit(g.kind = "txn" /\ g.at \in A)
  <2>1. g \in X <=> g.kind = "txn" /\ g.at \in A
    BY DEF TxnsAt
  <2> HIDE DEF X
  <2> QED
    BY <1>0, <1>2, <2>1, PushTally DEF X, Bit
<1>3. ASSUME Active(t), Pops(t)
      PROVE  OK /\ HowMany(T, X)' + Bit(Top(t).kind = "txn" /\ Top(t).at \in A) = HowMany(T, X)
  <2> HIDE DEF X
  <2> QED
    BY <1>0, <1>3, PopTally DEF X, Bit
<1>4. ASSUME Active(t), Top(t).kind = "txn", NEW at \in Places, NEW i \in Impls \cup {NoImpl}, NEW reg \in Int,
             NEW g \in Frames, g.kind # "txn", Calls(t, Moved(Top(t), at, i, reg), g)
      PROVE  OK /\ Passes(T, A, Top(t).at, at)
  <2> DEFINE f == Moved(Top(t), at, i, reg)
  <2>1. f \in Frames /\ f.at = at /\ f.kind = "txn"
    BY <1>0, <1>4 DEF Moved, Frames
  <2>2. g \notin X /\ (f \in X <=> at \in A)
    BY <1>4, <2>1 DEF TxnsAt
  <2>3. Calls(t, f, g)
    BY <1>4
  <2> HIDE DEF X, f
  <2> QED
    BY <1>0, <1>4, <2>2, <2>3, CallTally DEF X, Bit, Passes
<1>5. ASSUME Active(t), Top(t).kind = "txn", NEW at \in Places, NEW crew \in SUBSET Workers, NEW s,
             Splits(t, at, crew, s), Len(s) \in Nat,
             \A w \in crew : \A k \in 1 .. Height(w) : stack[w][k].kind # "txn",
             \A k \in 1 .. Len(s) : s[k].kind # "txn"
      PROVE  OK /\ Passes(T, A, Top(t).at, at)
  <2> DEFINE f == Moved(Top(t), at, Top(t).impl, Top(t).reg)
  <2>1. f \in X <=> at \in A
    BY <1>0, <1>5 DEF Moved, Frames, TxnsAt
  <2>2. /\ \A w \in crew : \A k \in 1 .. Height(w) : stack[w][k] \notin X
        /\ \A k \in 1 .. Len(s) : s[k] \notin X
    BY <1>5 DEF TxnsAt
  <2> HIDE DEF X
  <2>3. /\ IsFiniteSet(Where(T, X)')
        /\ HowMany(T, X) \in Nat /\ HowMany(T, X)' \in Nat
        /\ HowMany(T, X)' + Bit(Top(t) \in X) = HowMany(T, X) + Bit(f \in X)
    BY <1>0, <1>5, <2>2, SplitTally DEF X
  <2> QED
    BY <1>0, <1>5, <2>1, <2>3 DEF Passes, X, Bit
<1>6. ASSUME Active(t), NEW at, GoesOn(t, at)
      PROVE  /\ OK
             /\ Top(t).kind = "txn" => Passes(T, A, Top(t).at, at)
             /\ Top(t).kind # "txn" => Passes(T, A, "open", "open")
  BY <1>1, <1>6 DEF GoesOn
<1>7. ASSUME Active(t), Top(t).kind = "txn", NEW at, Reads(t, at)
      PROVE  OK /\ Passes(T, A, Top(t).at, at)
  BY <1>1, <1>7 DEF Reads
<1>8. stack' = stack => OK /\ Passes(T, A, "open", "open")
  BY <1>0 DEF Passes, HowMany, Where, Height
<1>9. Open(t) => OK /\ Passes(T, A, "idle", "enter")
  <2>1. NewTxn \in Frames /\ NewTxn.at = "enter" /\ NewTxn.kind = "txn"
    BY CallbackFrames
  <2> HIDE DEF OK
  <2> QED
    BY <1>0, <1>2, <2>1, BodyShapes DEF Passes, Bit
<1>10. EnterNested(t) => OK /\ Passes(T, A, "enter", "incRead")
  BY <1>1, ConstructorShapes DEF EnterNested
<1>11. EnterFresh(t) => OK /\ Passes(T, A, "enter", IF processingHooks THEN "make" ELSE "hooks")
  BY <1>1, ConstructorShapes DEF EnterFresh
<1>12. CallHook(t) => OK /\ Passes(T, A, "hooks", "hooks")
  <2>1. NewHook \in Frames /\ NewHook.kind = "hook" /\ "hooks" \in Places
    BY CallbackFrames DEF Places
  <2>2. Active(t) => Top(t).impl \in Impls \cup {NoImpl} /\ Top(t).reg + 1 \in Int
    BY <1>0 DEF Frames
  <2> SUFFICES ASSUME CallHook(t) PROVE OK /\ Passes(T, A, "hooks", "hooks")
    OBVIOUS
  <2> DEFINE i == Top(t).impl
             r == Top(t).reg + 1
             g == NewHook
  <2>3. Active(t) /\ Top(t).kind = "txn" /\ Top(t).at = "hooks"
        /\ Calls(t, Moved(Top(t), "hooks", i, r), g)
    BY ConstructorShapes DEF CallHook
  <2>4. i \in Impls \cup {NoImpl} /\ r \in Int /\ g \in Frames /\ g.kind # "txn"
    BY <2>1, <2>2, <2>3
  <2> HIDE DEF OK, i, r, g
  <2> QED
    BY <1>4, <2>1, <2>3, <2>4
<1>13. HooksDone(t) => OK /\ Passes(T, A, "hooks", "make")
  BY <1>6, ConstructorShapes DEF HooksDone
<1>14. Make(t) => OK /\ Passes(T, A, "make", "incRead")
  BY <1>1, ConstructorShapes DEF Make
<1>15. /\ IncRead(t) => OK /\ Passes(T, A, "incRead", "incWrite")
       /\ IncWrite(t) => OK /\ Passes(T, A, "incWrite", "open")
  BY <1>6, <1>7, ConstructorShapes DEF IncRead, IncWrite
<1>16. Send(t) \/ OnStart(t) => OK /\ Passes(T, A, "open", "open")
  BY <1>8, BodyShapes
<1>17. /\ WantPost(t) => OK /\ IF Top(t).kind = "txn" THEN Passes(T, A, "open", "post")
                                ELSE Passes(T, A, "open", "open")
       /\ Post(t) => OK /\ IF Top(t).kind = "txn" THEN Passes(T, A, "post", "open")
                            ELSE Passes(T, A, "open", "open")
  <2> HIDE DEF OK
  <2> QED
    BY <1>6, BodyShapes DEF WantPost, Post, InUserCode
<1>18. CodeReturns(t) \/ HandlerReturns(t) => OK /\ Passes(T, A, "open", "open")
  <2> HIDE DEF OK
  <2> QED
    <3>1. CodeReturns(t) \/ HandlerReturns(t) => Active(t) /\ Pops(t) /\ Top(t).kind # "txn"
      BY BodyShapes DEF CodeReturns, HandlerReturns, InUserCode
    <3>2. CodeReturns(t) \/ HandlerReturns(t) => OK /\ HowMany(T, X)' + 0 = HowMany(T, X)
      BY <1>3, <3>1 DEF Bit
    <3>3. OK => HowMany(T, X)' \in Nat
      BY DEF OK
    <3> HIDE DEF X
    <3> QED
      BY <1>0, <3>2, <3>3 DEF Passes, Bit, X
<1>19. Start(t) => OK /\ Passes(T, A, "open", "open")
  <2> DEFINE g == NewHandler(Top(t).impl)
  <2>1. Start(t) => Active(t) /\ Pushes(t, g)
    BY BodyShapes DEF Start
  <2>2. Start(t) => g \in Frames /\ g.kind = "handler"
    <3>1. \A k \in 1 .. Height(t)' : stack'[t][k] \in Frames
      BY ElementOfSeq DEF Stacked, Height
    <3>2. Pushes(t, g) => Height(t)' = Height(t) + 1 /\ stack'[t][Height(t) + 1] = g
      BY DEF Pushes, Height
    <3>3. Height(t) \in Nat
      BY TypedFacts
    <3> QED
      BY <2>1, <3>1, <3>2, <3>3 DEF NewHandler, Frame
  <2> HIDE DEF OK, g
  <2> QED
    BY <1>0, <1>2, <2>1, <2>2 DEF Passes, Bit
<1>20. Close(t) => OK /\ Passes(T, A, "open", "test")
  BY <1>6, ClosingShapes DEF Close
<1>21. StartDrain(t) => OK /\ Passes(T, A, "test", "join")
  <2> SUFFICES ASSUME StartDrain(t) PROVE OK /\ Passes(T, A, "test", "join")
    OBVIOUS
  <2> DEFINE s == <<NewWorker(Top(t).impl)>>
  <2>1. PICK crew \in SUBSET Workers : (\A w \in crew : ~Active(w)) /\ Splits(t, "join", crew, s)
    BY ClosingShapes
  <2>2. \A w \in crew : \A k \in 1 .. Height(w) : stack[w][k].kind # "txn"
    BY <2>1, TypedFacts DEF Threads
  <2>3. Len(s) = 1 /\ s[1].kind = "worker"
    BY DEF NewWorker, Frame
  <2> HIDE DEF OK, s
  <2>4. \A k \in 1 .. Len(s) : s[k].kind # "txn"
    BY <1>0, <2>3
  <2> QED
    BY <1>5, <2>1, <2>2, <2>3, <2>4 DEF StartDrain, Places
<1>22. Join(t) => OK /\ Passes(T, A, "join", "decRead")
  <2> SUFFICES ASSUME Join(t) PROVE OK /\ Passes(T, A, "join", "decRead")
    OBVIOUS
  <2> DEFINE crew == Crew(Top(t).impl)
             s == <<>>
  <2>1. Splits(t, "decRead", crew, s) /\ crew \in SUBSET Workers
    BY ClosingShapes DEF Crew
  <2>2. \A w \in crew : \A k \in 1 .. Height(w) : stack[w][k].kind # "txn"
    <3> TAKE w \in crew
    <3>1. Height(w) = 1 /\ w \in Workers /\ Active(w)
      BY DEF Join, Crew, Height
    <3>2. stack[w][1].kind = "worker"
      BY <3>1 DEF Typed, Grounded
    <3> QED
      BY <3>1, <3>2
  <2> HIDE DEF OK, crew
  <2> QED
    BY <1>5, <2>1, <2>2 DEF Join, Places
<1>23. DecRead(t) => OK /\ Passes(T, A, "decRead", "decWrite")
  BY <1>7, ClosingShapes DEF DecRead
<1>24. DecWrite(t) => OK /\ Passes(T, A, "decWrite", "postTest")
  BY <1>6, ClosingShapes DEF DecWrite
<1>25. CloseNested(t) => OK /\ Passes(T, A, "test", "nestRead")
  BY <1>6, ClosingShapes DEF CloseNested
<1>26. NestRead(t) => OK /\ Passes(T, A, "nestRead", "nestWrite")
  BY <1>7, ClosingShapes DEF NestRead
<1>27. /\ NestWrite(t) => OK /\ Passes(T, A, "nestWrite", "idle")
       /\ Unlock(t) => OK /\ Passes(T, A, "unlock", "idle")
  <2> HIDE DEF OK
  <2>1. NestWrite(t) \/ Unlock(t) => Active(t) /\ Pops(t)
    BY ClosingShapes, PostShapes DEF NestWrite, Unlock
  <2> QED
    BY <1>0, <1>3, <2>1 DEF NestWrite, Unlock, Passes, Bit
<1>28. /\ PostTest(t) =>
            OK /\ Passes(T, A, "postTest", IF processingPost THEN "unlock" ELSE "postSet")
       /\ PostSet(t) => OK /\ Passes(T, A, "postSet", "posts")
  BY <1>6, PostShapes DEF PostTest, PostSet
<1>29. RunPost(t) => OK /\ Passes(T, A, "posts", "relock")
  <2>1. RunPost(t) => NewAction \in Frames /\ NewAction.kind = "action" /\ "relock" \in Places
    BY CallbackFrames, HeadTailProperties DEF RunPost, Places, Typed, TypeOK
  <2>2. Active(t) => Top(t).impl \in Impls \cup {NoImpl} /\ Top(t).reg \in Int
    BY <1>0 DEF Frames
  <2> SUFFICES ASSUME RunPost(t) PROVE OK /\ Passes(T, A, "posts", "relock")
    OBVIOUS
  <2> DEFINE i == Top(t).impl
             r == Top(t).reg
             g == NewAction
  <2>3. Active(t) /\ Top(t).kind = "txn" /\ Top(t).at = "posts"
        /\ Calls(t, Moved(Top(t), "relock", i, r), g)
    BY PostShapes DEF RunPost
  <2>4. i \in Impls \cup {NoImpl} /\ r \in Int /\ g \in Frames /\ g.kind # "txn"
    BY <2>1, <2>2, <2>3
  <2> HIDE DEF OK, i, r, g
  <2> QED
    BY <1>4, <2>1, <2>3, <2>4
<1>30. /\ Relock(t) => OK /\ Passes(T, A, "relock", "posts")
       /\ NoMorePosts(t) => OK /\ Passes(T, A, "posts", "postClear")
       /\ PostsDone(t) => OK /\ Passes(T, A, "postClear", "unlock")
  BY <1>6, PostShapes DEF Relock, NoMorePosts, PostsDone
<1>31. OK
  <2> HIDE DEF OK
  <2> QED
    BY <1>9, <1>10, <1>11, <1>12, <1>13, <1>14, <1>15, <1>16, <1>17, <1>18, <1>19, <1>20,
       <1>21, <1>22, <1>23, <1>24, <1>25, <1>26, <1>27, <1>28, <1>29, <1>30
       DEF Step, Constructor, Body, Closing
<1> QED
  BY <1>9, <1>10, <1>11, <1>12, <1>13, <1>14, <1>15, <1>16, <1>17, <1>18, <1>19, <1>20,
     <1>21, <1>22, <1>23, <1>24, <1>25, <1>26, <1>27, <1>28, <1>29, <1>30, <1>31

LEMMA BudgetKept ==
  ASSUME Typed, NEW t \in Threads, Step(t), Stacked'
  PROVE  Budget'
<1> DEFINE A == {"enter", "hooks", "make"}
           n == HowMany(Threads, TxnsAt(A))
<1>1. IsFiniteSet(Where(Threads, TxnsAt(A))) /\ n + made <= opens
      /\ opens \in Nat /\ made \in Nat
  BY BoundAssumption DEF Typed, TypeOK, Budget, Unmade, HowMany
<1>2. "idle" \notin A
  OBVIOUS
<1>3. IsFiniteSet(Where(Threads, TxnsAt(A))') /\ n \in Nat /\ n' \in Nat
  <2> HIDE DEF A
  <2> QED
    BY <1>1, <1>2, Traffic
<1>4. SUFFICES n' + made' <= opens'
  BY <1>3 DEF Budget, Unmade, HowMany
<1> HIDE DEF n
<1>5. CASE Open(t)
  <2>1. n' = n + 1
    BY <1>1, <1>2, <1>3, <1>5, Traffic DEF Passes, n, Bit
  <2> QED
    BY <1>1, <1>3, <1>5, <2>1 DEF Open
<1>6. CASE Make(t)
  <2>1. n' = n - 1
    BY <1>1, <1>2, <1>3, <1>6, Traffic DEF Passes, n, Bit
  <2>2. made' = made + 1 /\ opens' = opens
    BY <1>6 DEF Make
  <2> QED
    BY <1>1, <1>3, <2>1, <2>2
<1>7. CASE ~(Open(t) \/ Make(t))
  <2>1. n' <= n
    BY <1>1, <1>2, <1>3, <1>7, Traffic
       DEF Passes, n, Bit, Step, Constructor, Body, Closing
  <2> QED
    BY <1>1, <1>3, <1>7, <2>1, Changes
<1> QED
  BY <1>5, <1>6, <1>7

\* A frame that goes on stays sound when its new place and impl are.
LEMMA SoundMoves ==
  ASSUME NEW n \in Nat, NEW f \in Sound(n), NEW at \in Places, NEW i \in Impls \cup {NoImpl},
         NEW reg \in Int, i <= n, f.kind # "worker", at # "idle",
         at = "post" => f.kind \in {"txn", "handler"},
         at \notin {"open", "post"} => f.kind = "txn",
         f.kind = "handler" \/ (f.kind = "txn" /\ at \notin {"enter", "hooks", "make"}) => i # NoImpl
  PROVE  Moved(f, at, i, reg) \in Sound(n)
BY DEF Sound, Moved, Frames, HasImpl

LEMMA SoundGrows ==
  ASSUME NEW m \in Nat, NEW n \in Nat, m <= n
  PROVE  Sound(m) \subseteq Sound(n)
<1> SUFFICES ASSUME NEW f \in Sound(m) PROVE f.impl <= n
  BY DEF Sound
<1>1. f.impl \in Int /\ f.impl <= m
  BY DEF Sound, Frames, Impls, NoImpl
<1> QED
  BY <1>1

LEMMA NamedKept ==
  ASSUME Typed, NEW t \in Threads, Step(t), Stacked'
  PROVE  Named'
<1> USE DEF InTxn, At
<1>1. made \in Nat /\ (made' = made \/ (Make(t) /\ made' = made + 1))
  BY Changes, BoundAssumption DEF Make, Typed, TypeOK
<1>2. \A v \in Threads : tls'[v] <= made'
  <2> TAKE v \in Threads
  <2>1. tls \in [Threads -> Impls \cup {NoImpl}] /\ tls[v] <= made /\ tls[v] \in Int
    BY DEF Typed, TypeOK, Named, Impls, NoImpl
  <2>2. tls'[v] = tls[v] \/ tls'[v] = NoImpl \/ (Make(t) /\ tls'[v] = made + 1)
    BY <2>1, Changes DEF Make, Join, DecWrite
  <2>3. Make(t) => made' = made + 1
    BY DEF Make
  <2> QED
    BY <1>1, <2>1, <2>2, <2>3 DEF NoImpl
<1>3. SUFFICES \A m, X : m = made' /\ X = Sound(m) => AllIn(X)'
  BY <1>2 DEF Named
<1>4. TAKE m, X
<1>5. HAVE m = made' /\ X = Sound(m)
<1>6. m \in Nat /\ made <= m /\ (~Make(t) => m = made)
  BY <1>1, <1>5
<1>7. AllIn(X)
  <2>1. AllIn(Sound(made))
    BY DEF Typed, Named
  <2>2. Sound(made) \subseteq X
    BY <1>1, <1>5, <1>6, SoundGrows
  <2> QED
    BY <2>1, <2>2 DEF AllIn
<1>8. /\ Stacked /\ (Active(t) => Top(t) \in X)
      /\ Active(t) => Top(t).impl \in Impls \cup {NoImpl} /\ Top(t).impl <= m /\ Top(t).reg \in Int
      /\ tls[t] \in Impls \cup {NoImpl} /\ tls[t] <= m /\ depth \in Int
  <2>1. Active(t) => Top(t) \in X
    BY <1>7, TypedFacts DEF AllIn
  <2>2. \A f \in X : f.impl \in Impls \cup {NoImpl} /\ f.impl <= m /\ f.reg \in Int
    BY <1>5 DEF Sound, Frames
  <2>3. tls[t] \in Impls \cup {NoImpl} /\ tls[t] <= made /\ depth \in Int
    BY DEF Typed, TypeOK, Named
  <2>4. tls[t] <= m
    BY <1>1, <1>6, <2>3 DEF Impls, NoImpl
  <2> QED
    BY <2>1, <2>2, <2>3, <2>4, TypedFacts
<1>9. ASSUME Active(t), NEW at, GoesOn(t, at), at \in Places \ {"enter", "hooks", "idle"},
             Top(t).kind = "txn" \/ (Top(t).kind = "handler" /\ at \in {"open", "post"}),
             at = "make" \/ HasImpl(Top(t))
      PROVE  AllIn(X)'
  <2> DEFINE f == Moved(Top(t), at, Top(t).impl, Top(t).reg)
  <2>1. f \in X
    BY <1>5, <1>6, <1>8, <1>9, SoundMoves DEF Sound, HasImpl
  <2> HIDE DEF f
  <2> QED
    BY <1>7, <1>8, <1>9, <2>1, AllMoves DEF GoesOn, Goes, f
<1>10. ASSUME Active(t), Top(t).kind = "txn", NEW at \in Places, NEW i, NEW reg \in Int,
              Goes(t, at, i, reg), i \in Impls \cup {NoImpl}, i <= m, at # "idle",
              at \in {"enter", "hooks", "make"} \/ i # NoImpl
      PROVE  AllIn(X)'
  <2> DEFINE f == Moved(Top(t), at, i, reg)
  <2>1. f \in X
    BY <1>5, <1>6, <1>8, <1>10, SoundMoves
  <2> HIDE DEF f
  <2> QED
    BY <1>7, <1>8, <1>10, <2>1, AllMoves DEF Goes, f
<1>11. ASSUME Pops(t) PROVE AllIn(X)'
  BY <1>7, <1>8, <1>11, AllPops
<1>12. CASE Open(t)
  <2>1. NewTxn \in X
    BY <1>5, <1>6, CallbackFrames DEF Sound, HasImpl, NoImpl
  <2> QED
    BY <1>7, <1>8, <1>12, <2>1, BodyShapes, AllPushes
<1>13. CASE EnterNested(t)
  <2>1. Goes(t, "incRead", tls[t], 1) /\ Active(t) /\ Top(t).kind = "txn" /\ tls[t] # NoImpl
    BY <1>13, ConstructorShapes DEF EnterNested
  <2>2. "incRead" \in Places
    BY DEF Places
  <2> QED
    BY <1>8, <1>10, <2>1, <2>2
<1>14. CASE EnterFresh(t)
  <2> DEFINE at == IF processingHooks THEN "make" ELSE "hooks"
  <2>1. Goes(t, at, NoImpl, 1) /\ Active(t) /\ Top(t).kind = "txn"
    BY <1>14, ConstructorShapes DEF EnterFresh
  <2>2. at \in Places /\ at # "idle" /\ at \in {"enter", "hooks", "make"}
    BY DEF Places
  <2>3. NoImpl <= m
    BY <1>6 DEF NoImpl
  <2> HIDE DEF at
  <2> QED
    BY <1>10, <2>1, <2>2, <2>3
<1>15. CASE CallHook(t)
  <2> DEFINE f == Moved(Top(t), "hooks", Top(t).impl, Top(t).reg + 1)
  <2>1. Calls(t, f, NewHook) /\ Active(t) /\ Top(t).kind = "txn"
    BY <1>15, ConstructorShapes DEF CallHook
  <2>2. f \in X
    <3>1. "hooks" \in Places
      BY DEF Places
    <3>2. Top(t).at = "hooks"
      BY <1>15 DEF CallHook, InTxn, At
    <3> QED
      BY <1>5, <1>6, <1>8, <2>1, <3>1, <3>2, SoundMoves
  <2>3. NewHook \in X
    BY <1>5, <1>6, CallbackFrames DEF Sound, HasImpl, NoImpl
  <2> HIDE DEF f
  <2> QED
    BY <1>7, <1>8, <2>1, <2>2, <2>3, AllCalls
<1>16. CASE HooksDone(t)
  BY <1>9, <1>16, ConstructorShapes DEF HooksDone, Places
<1>17. CASE Make(t)
  <2>1. Goes(t, "incRead", m, 1) /\ Active(t) /\ Top(t).kind = "txn"
    BY <1>5, <1>17, ConstructorShapes DEF Make
  <2>2. m \in Impls /\ m # NoImpl /\ "incRead" \in Places
    BY <1>5, <1>17, RoomToMake DEF Make, Impls, NoImpl, Places
  <2> QED
    BY <1>6, <1>10, <2>1, <2>2
<1>18. ASSUME Active(t), Top(t).kind = "txn", Top(t).at \notin {"enter", "hooks", "make"},
              NEW at \in Places, at # "idle", Reads(t, at) \/ GoesOn(t, at)
       PROVE  AllIn(X)'
  <2>1. Top(t).impl # NoImpl
    BY <1>5, <1>8, <1>18 DEF Sound, HasImpl
  <2> QED
    BY <1>8, <1>10, <1>18, <2>1 DEF Reads, GoesOn
<1>19. CASE IncRead(t) \/ IncWrite(t)
  BY <1>18, <1>19, ConstructorShapes DEF IncRead, IncWrite, Places
<1>20. CASE Send(t) \/ OnStart(t)
  BY <1>7, <1>20, BodyShapes DEF AllIn, Height
<1>21. CASE WantPost(t)
  <2>1. GoesOn(t, "post") /\ Active(t) /\ Top(t).kind \in {"txn", "handler"} /\ Top(t).at = "open"
    BY <1>21, BodyShapes DEF WantPost, InUserCode
  <2> QED
    BY <1>9, <2>1 DEF HasImpl, Places
<1>22. CASE Post(t)
  <2>1. GoesOn(t, "open") /\ Active(t) /\ Top(t).at = "post"
    BY <1>22, BodyShapes DEF Post
  <2> QED
    BY <1>5, <1>8, <1>9, <2>1 DEF Sound, HasImpl, Places
<1>23. CASE CodeReturns(t) \/ HandlerReturns(t) \/ NestWrite(t) \/ Unlock(t)
  BY <1>11, <1>23, BodyShapes, ClosingShapes, PostShapes
<1>24. CASE Start(t)
  <2> DEFINE i == Top(t).impl
  <2>1. Pushes(t, NewHandler(i))
    BY <1>24, BodyShapes
  <2>2. Active(t) /\ queue[i] # <<>> /\ Top(t).kind = "worker"
    BY <1>24 DEF Start
  <2>3. i \in Impls /\ i # NoImpl
    BY <1>5, <1>8, <2>2 DEF Sound, HasImpl, Impls, NoImpl
  <2>4. Head(queue[i]) \in Entries
    BY <2>2, <2>3, HeadTailProperties DEF Typed, TypeOK
  <2>5. NewHandler(i) \in X
    BY <1>5, <1>6, <1>8, <2>2, <2>3, <2>4, NewFrame
       DEF Sound, NewHandler, Frame, HasImpl, Kinds, Places, Items
  <2> QED
    BY <1>7, <1>8, <2>1, <2>5, AllPushes
<1>25. CASE Close(t) \/ DecRead(t) \/ DecWrite(t) \/ CloseNested(t) \/ NestRead(t)
  BY <1>18, <1>25, ClosingShapes
     DEF Close, DecRead, DecWrite, CloseNested, NestRead, Places
<1>26. CASE StartDrain(t)
  <2> DEFINE f == Moved(Top(t), "join", Top(t).impl, Top(t).reg)
             s == <<NewWorker(Top(t).impl)>>
  <2>1. PICK crew \in SUBSET Workers : Splits(t, "join", crew, s)
    BY <1>26, ClosingShapes
  <2>2. Active(t) /\ Top(t).kind = "txn" /\ Top(t).at = "test"
    BY <1>26 DEF StartDrain
  <2>3. Top(t).impl # NoImpl /\ "join" \in Places
    BY <1>5, <1>8, <2>2 DEF Sound, HasImpl, Places
  <2>4. f \in X
    BY <1>5, <1>6, <1>8, <2>2, <2>3, SoundMoves
  <2>5. NewWorker(Top(t).impl) \in X
    <3>1. NewWorker(Top(t).impl) \in Frames
      BY <1>8, <2>2, NewFrame DEF NewWorker, Kinds, Places, Items
    <3> QED
      BY <1>5, <1>8, <2>2, <2>3, <3>1 DEF NewWorker, Frame, Sound, HasImpl
  <2>6. \A k \in 1 .. Len(s) : s[k] \in X
    BY <2>5
  <2> HIDE DEF s
  <2> QED
    BY <1>7, <1>8, <2>1, <2>4, <2>6, AllSplits
<1>27. CASE Join(t)
  <2> DEFINE f == Moved(Top(t), "decRead", Top(t).impl, Top(t).reg)
             crew == Crew(Top(t).impl)
             s == <<>>
  <2>1. Splits(t, "decRead", crew, s) /\ crew \in SUBSET Workers
    BY <1>27, ClosingShapes DEF Crew
  <2>2. Active(t) /\ Top(t).kind = "txn" /\ Top(t).at = "join"
    BY <1>27 DEF Join
  <2>3. Top(t).impl # NoImpl /\ "decRead" \in Places
    BY <1>5, <1>8, <2>2 DEF Sound, HasImpl, Places
  <2>4. f \in X
    BY <1>5, <1>6, <1>8, <2>2, <2>3, SoundMoves
  <2>5. \A k \in 1 .. Len(s) : s[k] \in X
    OBVIOUS
  <2> HIDE DEF s, crew
  <2> QED
    BY <1>7, <1>8, <2>1, <2>4, <2>5, AllSplits
<1>28. CASE PostTest(t) \/ PostSet(t) \/ Relock(t) \/ NoMorePosts(t) \/ PostsDone(t)
  BY <1>18, <1>28, PostShapes
     DEF PostTest, PostSet, Relock, NoMorePosts, PostsDone, Places
<1>29. CASE RunPost(t)
  <2> DEFINE f == Moved(Top(t), "relock", Top(t).impl, Top(t).reg)
  <2>1. Calls(t, f, NewAction) /\ Active(t) /\ Top(t).kind = "txn" /\ Top(t).at = "posts"
    BY <1>29, PostShapes DEF RunPost
  <2>2. f \in X
    <3>1. "relock" \in Places /\ Top(t).impl # NoImpl
      BY <1>5, <1>8, <2>1 DEF Sound, HasImpl, Places
    <3> QED
      BY <1>5, <1>6, <1>8, <2>1, <3>1, SoundMoves
  <2>3. Head(postQ) \in Posts
    BY <1>29, HeadTailProperties DEF RunPost, Typed, TypeOK
  <2>4. NewAction \in X
    BY <1>5, <1>6, <2>3, CallbackFrames DEF Sound, HasImpl, NoImpl
  <2> HIDE DEF f
  <2> QED
    BY <1>7, <1>8, <2>1, <2>2, <2>4, AllCalls
<1> QED
  BY <1>12, <1>13, <1>14, <1>15, <1>16, <1>17, <1>19, <1>20, <1>21, <1>22, <1>23, <1>24,
     <1>25, <1>26, <1>27, <1>28, <1>29 DEF Step, Constructor, Body, Closing

LEMMA GroundedKept ==
  ASSUME Typed, NEW t \in Threads, Step(t), Stacked'
  PROVE  Grounded'
<1> USE DEF InTxn, At
<1> SUFFICES ASSUME NEW w \in Workers, Active(w)'
             PROVE  stack'[w][1].kind = "worker"
  BY DEF Grounded
<1>0. /\ Stacked /\ w \in Threads /\ Height(w) \in Nat /\ Height(w)' \in Nat /\ Height(w)' > 0
      /\ Height(t) \in Nat /\ (Active(w) <=> Height(w) > 0)
      /\ Active(w) => stack[w][1].kind = "worker"
  BY TypedFacts, StackFacts, LenProperties, EmptySeq
     DEF Threads, Typed, Grounded, Stacked, Height, Active
<1>1. ASSUME NEW f, Moves(t, f), Active(t), f.kind = Top(t).kind
      PROVE  stack'[w][1].kind = "worker"
  BY <1>0, <1>1, StackFacts DEF Moves, Keeps, Height
<1>2. ASSUME NEW g, Pushes(t, g), Active(t) \/ t \in Users
      PROVE  stack'[w][1].kind = "worker"
  BY <1>0, <1>2, ThreadsAssumption DEF Pushes, Keeps, Height
<1>3. ASSUME NEW f, NEW g, Calls(t, f, g), Active(t), f.kind = Top(t).kind
      PROVE  stack'[w][1].kind = "worker"
  BY <1>0, <1>3, StackFacts DEF Calls, Keeps, Height
<1>4. ASSUME Pops(t)
      PROVE  stack'[w][1].kind = "worker"
  BY <1>0, <1>4 DEF Pops, Keeps, Height
<1>5. ASSUME NEW at, NEW i, NEW reg, Active(t), Goes(t, at, i, reg) \/ GoesOn(t, at) \/ Reads(t, at)
      PROVE  stack'[w][1].kind = "worker"
  BY <1>1, <1>5 DEF Goes, GoesOn, Reads, Moved
<1>6. ASSUME NEW at, NEW crew \in SUBSET Workers, NEW s, Splits(t, at, crew, s), Active(t),
             s = <<>> \/ s[1].kind = "worker"
      PROVE  stack'[w][1].kind = "worker"
  <2>1. CASE w \in crew
    BY <1>0, <1>6, <2>1 DEF Splits, Height
  <2>2. CASE w = t
    BY <1>0, <1>6, <2>2, StackFacts DEF Splits, Height, Moved
  <2>3. CASE w \notin crew /\ w # t
    BY <1>0, <1>6, <2>3 DEF Splits, Height
  <2> QED
    BY <2>1, <2>2, <2>3
<1>7. CASE Constructor(t)
  <2>1. CASE CallHook(t)
    BY <1>3, <2>1, ConstructorShapes DEF CallHook, Moved
  <2>2. CASE ~CallHook(t)
    BY <1>5, <1>7, <2>2, ConstructorShapes
       DEF Constructor, EnterNested, EnterFresh, HooksDone, Make, IncRead, IncWrite
  <2> QED
    BY <2>1, <2>2
<1>8. CASE Open(t) \/ Start(t)
  BY <1>2, <1>8, BodyShapes DEF Open, Start
<1>9. CASE Send(t) \/ OnStart(t)
  BY <1>0, <1>9, BodyShapes DEF Height
<1>10. CASE WantPost(t) \/ Post(t)
  BY <1>5, <1>10, BodyShapes DEF WantPost, Post, InUserCode
<1>11. CASE CodeReturns(t) \/ HandlerReturns(t) \/ NestWrite(t) \/ Unlock(t)
  BY <1>4, <1>11, BodyShapes, ClosingShapes, PostShapes
<1>12. CASE Close(t) \/ DecRead(t) \/ DecWrite(t) \/ CloseNested(t) \/ NestRead(t)
  BY <1>5, <1>12, ClosingShapes DEF Close, DecRead, DecWrite, CloseNested, NestRead
<1>13. CASE StartDrain(t)
  <2> DEFINE s == <<NewWorker(Top(t).impl)>>
  <2>1. PICK crew \in SUBSET Workers : Splits(t, "join", crew, s)
    BY <1>13, ClosingShapes
  <2>2. s[1].kind = "worker"
    BY DEF NewWorker, Frame
  <2> HIDE DEF s
  <2> QED
    BY <1>6, <1>13, <2>1, <2>2 DEF StartDrain
<1>14. CASE Join(t)
  <2> DEFINE crew == Crew(Top(t).impl)
             s == <<>>
  <2>1. Splits(t, "decRead", crew, s) /\ crew \in SUBSET Workers
    BY <1>14, ClosingShapes DEF Crew
  <2> HIDE DEF crew
  <2> QED
    BY <1>6, <1>14, <2>1 DEF Join
<1>15. CASE PostTest(t) \/ PostSet(t) \/ Relock(t) \/ NoMorePosts(t) \/ PostsDone(t)
  BY <1>5, <1>15, PostShapes DEF PostTest, PostSet, Relock, NoMorePosts, PostsDone
<1>16. CASE RunPost(t)
  BY <1>3, <1>16, PostShapes DEF RunPost, Moved
<1> QED
  BY <1>7, <1>8, <1>9, <1>10, <1>11, <1>12, <1>13, <1>14, <1>15, <1>16
     DEF Step, Constructor, Body, Closing

LEMMA TypedInit == Init => Typed
<1> SUFFICES ASSUME Init PROVE Typed
  OBVIOUS
<1>1. TypeOK
  <2>1. <<>> \in Seq(Frames) /\ <<>> \in Seq(Entries) /\ <<>> \in Seq(Posts)
        /\ <<>> \in Seq(Hooks) /\ <<>> \in Seq(Posts \X (Impls \cup {NoImpl}))
    BY EmptySeq
  <2>2. mx \in [owner : Threads \cup {NoThread}, count : Nat] /\ mx.count = 0 /\ mx.owner = NoThread
    BY DEF Init
  <2>3. 0 \in 0 .. MaxOpens /\ 0 \in 0 .. 0 /\ {} \subseteq 1 .. 0 /\ NoImpl \in Impls \cup {NoImpl}
    BY BoundAssumption
  <2>4. /\ stack \in [Threads -> Seq(Frames)] /\ tls \in [Threads -> Impls \cup {NoImpl}]
        /\ queue \in [Impls -> Seq(Entries)] /\ sent \in [Entries -> Impls \cup {NoImpl}]
    BY <2>1, <2>3 DEF Init
  <2>5. depth \in Int /\ opens \in 0 .. MaxOpens /\ made \in 0 .. opens
    BY BoundAssumption DEF Init
  <2>7. processingPost \in BOOLEAN /\ processingHooks \in BOOLEAN
    BY DEF Init
  <2>6. /\ postQ \in Seq(Posts) /\ hooks \in Seq(Hooks) /\ ran \in Seq(Posts)
        /\ posted \in Seq(Posts \X (Impls \cup {NoImpl}))
        /\ processed \subseteq Entries /\ freed \subseteq 1 .. made
    BY <2>1, <2>3 DEF Init
  <2> QED
    BY <2>2, <2>4, <2>5, <2>6, <2>7 DEF TypeOK
<1>2. \A t \in Threads : Height(t) = 0 /\ ~Active(t)
  BY DEF Init, Height, Active
<1>3. Where(Threads, Unmade) = {}
  BY <1>2 DEF Where
<1>4. Budget
  BY <1>3, FS_EmptySet DEF Init, Budget
<1>5. Named /\ Grounded
  BY <1>2 DEF Init, Named, Grounded, AllIn, NoImpl, Threads
<1> QED
  BY <1>1, <1>4, <1>5 DEF Typed

LEMMA TypedKept == Typed /\ [Next]_vars => Typed'
<1> SUFFICES ASSUME Typed, [Next]_vars PROVE Typed'
  OBVIOUS
<1>1. CASE UNCHANGED vars
  BY <1>1 DEF vars, Typed, TypeOK, Budget, Named, Grounded, AllIn, Where, Height, Active
<1>2. ASSUME NEW t \in Threads, Step(t)
      PROVE  Typed'
  BY <1>2, StackKept, TypesKept, BudgetKept, NamedKept, GroundedKept DEF Typed
<1> QED
  BY <1>1, <1>2 DEF Next, Resting

LEMMA TypedAlways == Spec => []Typed
<1> QED
  BY TypedInit, TypedKept, PTL DEF Spec

\* Every field of the partition, of the stacks and of the history keeps its type,
\* and impls are given to no more transaction objects than were opened.
THEOREM TypeCorrect == Spec => []TypeOK
<1>1. Typed => TypeOK
  BY DEF Typed
<1> QED
  BY <1>1, TypedAlways, PTL

-----------------------------------------------------------------------------
(* The hooks.                                                              *)

\* processing_on_start_hooks is true just while one frame runs the hooks.
HookFlag ==
  /\ IsFiniteSet(Where(Threads, TxnsAt({"hooks"})))
  /\ HowMany(Threads, TxnsAt({"hooks"})) = Bit(processingHooks)

LEMMA HookFlagKept == Typed /\ HookFlag /\ [Next]_vars => HookFlag'
<1> SUFFICES ASSUME Typed, HookFlag, [Next]_vars PROVE HookFlag'
  OBVIOUS
<1>1. CASE UNCHANGED vars
  BY <1>1 DEF vars, HookFlag, HowMany, Where, Height
<1>2. ASSUME NEW t \in Threads, Step(t)
      PROVE  HookFlag'
  <2> DEFINE A == {"hooks"}
             n == HowMany(Threads, TxnsAt(A))
  <2>1. /\ "idle" \notin A /\ IsFiniteSet(Where(Threads, TxnsAt(A)))
        /\ n = Bit(processingHooks)
        /\ processingHooks \in BOOLEAN
    BY DEF HookFlag, Typed, TypeOK
  <2>2. Stacked'
    BY <1>2, StackKept
  <2>3. IsFiniteSet(Where(Threads, TxnsAt(A))') /\ n \in Nat /\ n' \in Nat
    <3> HIDE DEF A
    <3> QED
      BY <1>2, <2>1, <2>2, Traffic
  <2>4. CASE EnterFresh(t)
    <3>1. n' = n + Bit(~processingHooks)
      BY <1>2, <2>1, <2>2, <2>3, <2>4, Traffic DEF Passes, Bit
    <3>2. processingHooks'
      BY <2>4 DEF EnterFresh
    <3> QED
      BY <2>1, <2>3, <3>1, <3>2 DEF HookFlag, Bit
  <2>5. CASE HooksDone(t)
    <3>1. n' + 1 = n
      BY <1>2, <2>1, <2>2, <2>3, <2>5, Traffic DEF Passes, Bit
    <3>2. ~processingHooks'
      BY <2>5 DEF HooksDone
    <3> QED
      BY <2>1, <2>3, <3>1, <3>2 DEF HookFlag, Bit
  <2>6. CASE ~(EnterFresh(t) \/ HooksDone(t))
    <3>1. n' = n
      BY <1>2, <2>1, <2>2, <2>3, <2>6, Traffic DEF Passes, Bit, Step, Constructor, Body, Closing
    <3>2. processingHooks' = processingHooks
      BY <1>2, <2>6, Changes
    <3> QED
      BY <2>1, <2>3, <3>1, <3>2 DEF HookFlag
  <2> QED
    BY <2>4, <2>5, <2>6
<1> QED
  BY <1>1, <1>2 DEF Next, Resting

LEMMA HookFlagAlways == Spec => []HookFlag
<1>1. Init => HookFlag
  <2> SUFFICES ASSUME Init PROVE HookFlag
    OBVIOUS
  <2>1. Where(Threads, TxnsAt({"hooks"})) = {}
    BY DEF Init, Where, Height
  <2> QED
    BY <2>1, FS_EmptySet DEF Init, HookFlag, HowMany, Bit
<1> QED
  BY <1>1, HookFlagKept, TypedAlways, PTL DEF Spec

\* The frames at a place that only transaction objects reach.
LEMMA FramesAtWhere ==
  ASSUME Typed, NEW A, A \cap {"open", "post", "idle"} = {}
  PROVE  FramesAt(A) = Where(Threads, TxnsAt(A))
<1>1. \A t \in Threads : DOMAIN stack[t] = 1 .. Height(t)
  BY TypedFacts, LenProperties DEF Stacked, Height
<1>2. \A t \in Threads : \A k \in 1 .. Height(t) :
        stack[t][k] \in Frames /\ (stack[t][k].at \in A => stack[t][k].kind = "txn")
  BY DEF Typed, Named, AllIn, Sound
<1>3. \A t \in Threads : Height(t) \in Nat
  BY TypedFacts
<1> QED
  BY <1>1, <1>2, <1>3 DEF FramesAt, Where, TxnsAt

\* The on_start hooks are run by one thread at a time, and not again by the
\* transactions they open, whoever opens transactions (transaction.cpp:435-446).
THEOREM HooksRunAlone == Spec => []HookRunnerExclusive
<1>1. Typed /\ HookFlag => HookRunnerExclusive
  BY TypedFacts, FramesAtWhere DEF HookFlag, HowMany, Bit, HookRunnerExclusive
<1> QED
  BY <1>1, HookFlagAlways, TypedAlways, PTL

-----------------------------------------------------------------------------
(* The mutex.                                                              *)

\* What a step of t does to another thread.
LEMMA Elsewhere ==
  ASSUME Typed, NEW t \in Threads, Step(t), NEW v \in Threads \ {t}
  PROVE  \/ stack'[v] = stack[v]
         \/ /\ StartDrain(t) /\ v \in Workers /\ ~Active(v)
            /\ stack'[v] = <<NewWorker(Top(t).impl)>>
         \/ Join(t) /\ v \in Crew(Top(t).impl) /\ stack'[v] = <<>>
<1>1. CASE Constructor(t)
  BY <1>1, ConstructorShapes DEF Constructor, Goes, GoesOn, Reads, Moves, Calls, Keeps
<1>2. CASE Body(t) \/ Start(t) \/ HandlerReturns(t)
  BY <1>2, BodyShapes DEF Body, GoesOn, Goes, Moves, Pushes, Pops, Keeps
<1>3. CASE StartDrain(t)
  <2>1. PICK crew \in SUBSET Workers :
          (\A w \in crew : ~Active(w)) /\ Splits(t, "join", crew, <<NewWorker(Top(t).impl)>>)
    BY <1>3, ClosingShapes
  <2> QED
    BY <1>3, <2>1 DEF Splits
<1>4. CASE Join(t)
  BY <1>4, ClosingShapes DEF Splits
<1>5. CASE Close(t) \/ DecRead(t) \/ DecWrite(t) \/ CloseNested(t) \/ NestRead(t) \/ NestWrite(t)
  BY <1>5, ClosingShapes DEF Goes, GoesOn, Reads, Moves, Pops, Keeps
<1>6. CASE \/ PostTest(t) \/ PostSet(t) \/ RunPost(t) \/ Relock(t) \/ NoMorePosts(t)
           \/ PostsDone(t) \/ Unlock(t)
  BY <1>6, PostShapes DEF Goes, GoesOn, Moves, Calls, Pops, Keeps
<1> QED
  BY <1>1, <1>2, <1>3, <1>4, <1>5, <1>6 DEF Step, Closing

\* It leaves its transaction objects where they are.
LEMMA TrafficElsewhere ==
  ASSUME Typed, NEW t \in Threads, Step(t), Stacked', NEW v \in Threads \ {t}, NEW A
  PROVE  Where({v}, TxnsAt(A))' = Where({v}, TxnsAt(A))
<1>1. CASE stack'[v] = stack[v]
  BY <1>1 DEF Where, Height
<1>2. CASE ~Active(v) /\ stack'[v] = <<NewWorker(Top(t).impl)>>
  <2>1. Height(v) = 0 /\ Height(v)' = 1 /\ stack'[v][1].kind = "worker"
    BY <1>2, TypedFacts DEF Height, NewWorker, Frame, Active
  <2> QED
    BY <2>1 DEF Where, TxnsAt
<1>3. CASE Join(t) /\ v \in Crew(Top(t).impl) /\ stack'[v] = <<>>
  <2>1. Height(v) = 1 /\ Height(v)' = 0 /\ stack[v][1].kind = "worker"
    BY <1>3 DEF Join, Crew, Height, Typed, Grounded
  <2> QED
    BY <2>1 DEF Where, TxnsAt
<1> QED
  BY <1>1, <1>2, <1>3, Elsewhere

\* A thread's hold on mx is accounted for by its transaction objects.
Held ==
  \A v \in Threads :
    /\ IsFiniteSet(Where({v}, TxnsAt(LockPlaces)))
    /\ mx.owner = v => mx.count <= HowMany({v}, TxnsAt(LockPlaces))

LEMMA HeldKept == Typed /\ Held /\ [Next]_vars => Held'
<1> SUFFICES ASSUME Typed, Held, [Next]_vars PROVE Held'
  OBVIOUS
<1>1. CASE UNCHANGED vars
  BY <1>1 DEF vars, Held, HowMany, Where, Height
<1>2. ASSUME NEW t \in Threads, Step(t), NEW v \in Threads
      PROVE  /\ IsFiniteSet(Where({v}, TxnsAt(LockPlaces))')
             /\ mx'.owner = v => mx'.count <= HowMany({v}, TxnsAt(LockPlaces))'
  <2> DEFINE A == LockPlaces
             n == HowMany({v}, TxnsAt(A))
  <2>1. Stacked'
    BY <1>2, StackKept
  <2>2. /\ "idle" \notin A /\ IsFiniteSet(Where({v}, TxnsAt(A))) /\ n \in Nat
        /\ mx.owner = v => mx.count <= n
        /\ mx \in Mutexes /\ v # NoThread /\ t # NoThread
    BY FS_CardinalityType, ThreadsAssumption
       DEF LockPlaces, Held, Typed, TypeOK, Mutexes, Threads, HowMany
  <2>3. \/ mx' = mx
        \/ mx' = Locked(t) /\ CanLock(t) /\ (EnterFresh(t) \/ Relock(t))
        \/ mx' = Unlocked(t) /\ (Make(t) \/ RunPost(t) \/ Unlock(t))
    BY <1>2, Changes DEF EnterFresh, Make, RunPost, Relock, Unlock
  <2>4. CASE v # t
    <3>1. Where({v}, TxnsAt(A))' = Where({v}, TxnsAt(A))
      BY <1>2, <2>1, <2>4, TrafficElsewhere
    <3>2. mx'.owner = v => mx'.count = mx.count /\ mx.owner = v
      BY <2>2, <2>3, <2>4 DEF Locked, Unlocked, Mutexes
    <3> QED
      BY <2>2, <3>1, <3>2 DEF HowMany
  <2>5. CASE v = t
    <3>1. IsFiniteSet(Where({v}, TxnsAt(A))') /\ n' \in Nat
      <4> HIDE DEF A
      <4> QED
        BY <1>2, <2>1, <2>2, <2>5, Traffic
    <3>2. CASE EnterFresh(t) \/ Relock(t)
      <4>1. n' = n + 1
        <5>1. CASE EnterFresh(t)
          <6>1. Passes({v}, A, "enter", IF processingHooks THEN "make" ELSE "hooks")
            BY <1>2, <2>1, <2>2, <2>5, <5>1, Traffic
          <6> QED
            BY <2>2, <3>1, <6>1 DEF Passes, Bit, LockPlaces
        <5>2. CASE Relock(t)
          <6>1. Passes({v}, A, "relock", "posts")
            BY <1>2, <2>1, <2>2, <2>5, <5>2, Traffic
          <6> QED
            BY <2>2, <3>1, <6>1 DEF Passes, Bit, LockPlaces
        <5> QED
          BY <3>2, <5>1, <5>2
      <4> QED
        BY <2>2, <2>5, <3>1, <3>2, <4>1 DEF EnterFresh, Relock, Locked, CanLock, Mutexes
    <3>3. CASE Make(t) \/ RunPost(t) \/ Unlock(t)
      <4>1. n' = n - 1
        BY <1>2, <2>1, <2>2, <2>5, <3>1, <3>3, Traffic DEF Passes, Bit, LockPlaces
      <4> QED
        BY <2>2, <2>5, <3>1, <3>3, <4>1 DEF Make, RunPost, Unlock, Unlocked, Mutexes
    <3>4. CASE mx' = mx /\ ~(Make(t) \/ RunPost(t) \/ Unlock(t))
      <4>1. n' >= n
        BY <1>2, <2>1, <2>2, <2>5, <3>1, <3>4, Traffic
           DEF Passes, Bit, LockPlaces, Step, Constructor, Body, Closing
      <4> QED
        BY <2>2, <2>5, <3>1, <3>4, <4>1 DEF Mutexes
    <3> QED
      BY <2>3, <3>1, <3>2, <3>3, <3>4
  <2> QED
    BY <2>4, <2>5
<1> QED
  BY <1>1, <1>2 DEF Next, Resting, Held

LEMMA HeldAlways == Spec => []Held
<1>1. Init => Held
  <2> SUFFICES ASSUME Init, NEW v \in Threads
               PROVE  /\ IsFiniteSet(Where({v}, TxnsAt(LockPlaces)))
                      /\ mx.owner # v
    BY DEF Held
  <2>1. Where({v}, TxnsAt(LockPlaces)) = {}
    BY DEF Init, Where, Height
  <2> QED
    BY <2>1, FS_EmptySet, ThreadsAssumption DEF Init, Threads
<1> QED
  BY <1>1, HeldKept, TypedAlways, PTL DEF Spec

\* Of the code of a transaction object only the constructor's first part and
\* process_post run with mx: handlers, posted actions and the code between open
\* and close run without it (transaction.cpp:134-147, 435-447, 501-503).
THEOREM LockStaysInLibrary == Spec => []LockOnlyInLibrary
<1>1. Typed /\ Held => LockOnlyInLibrary
  <2> SUFFICES ASSUME Typed, Held, NEW t \in Threads, mx.owner = t
               PROVE  mx.count <= Cardinality({p \in FramesAt(LockPlaces) : p[1] = t})
    BY DEF LockOnlyInLibrary
  <2>1. FramesAt(LockPlaces) = Where(Threads, TxnsAt(LockPlaces))
    BY FramesAtWhere DEF LockPlaces
  <2>2. {p \in FramesAt(LockPlaces) : p[1] = t} = Where({t}, TxnsAt(LockPlaces))
    BY <2>1 DEF Where
  <2> QED
    BY <2>2 DEF Held, HowMany
<1> QED
  BY <1>1, HeldAlways, TypedAlways, PTL

=============================================================================
