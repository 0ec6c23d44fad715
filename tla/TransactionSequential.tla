------------------------ MODULE TransactionSequential ------------------------
(***************************************************************************)
(* Theorems about Transaction where one user thread opens transactions, and *)
(* handlers open some only if one worker runs them: at any time one stack   *)
(* is where the program goes on, the accesses to depth and processing_post  *)
(* do not interleave, and the partition's bookkeeping is exact.             *)
(***************************************************************************)
EXTENDS TransactionProofs

\* The use that the library's partition is written for.
Sequential(u) ==
  Users = {u} /\ ("handler" \in Nesting => \E w : Workers = {w})

InUseTxn(f) == f.kind = "txn" /\ f.at \in InUse

\* Code that a transaction object reaches only when no other of its thread is open.
Lone == {"hooks", "make", "join", "decRead", "decWrite",
         "postTest", "postSet", "posts", "postClear", "relock", "unlock"}

\* The end of a close() that drains.
Ending == {"join", "decRead", "decWrite",
           "postTest", "postSet", "posts", "postClear", "relock", "unlock"}

\* The objects that part->depth counts.
Counted == {"open", "post", "test", "join", "decRead", "decWrite", "nestRead", "nestWrite"}

PostPlaces == {"posts", "postClear", "relock"}

\* Workers run while u waits for them.
Waits(u) ==
  \A w \in Workers : Active(w) => InTxn(u, "join") /\ stack[w][1].impl = Top(u).impl

\* Where on the stacks frames can be.
Layered ==
  \A v \in Threads : \A k \in 1 .. Height(v) :
    /\ stack[v][k].kind = "worker" => v \in Workers /\ k = 1
    /\ stack[v][k].kind = "handler" =>
         v \in Workers /\ k = 2 /\ stack[v][k].impl = stack[v][1].impl
    /\ k < Height(v) => stack[v][k].at \in {"open", "hooks", "relock", "idle"}
    /\ v \in Workers => /\ stack[v][k].at \notin Ending
                        /\ stack[v][k].kind \in {"worker", "handler"} \/ Workers = {v}

\* part->depth is the number of transaction objects it counts.
DepthExact ==
  /\ IsFiniteSet(Where(Threads, TxnsAt(Counted)))
  /\ depth = HowMany(Threads, TxnsAt(Counted))

\* What the code has read of it is still true.
DepthCurrent ==
  \A v \in Threads : \A k \in 1 .. Height(v) :
    /\ stack[v][k].at \in {"incWrite", "decWrite", "nestWrite"} => stack[v][k].reg = depth
    /\ stack[v][k].at \in {"nestRead", "nestWrite"} => depth >= 2

\* The transaction objects of a thread share its current impl.
ImplShared ==
  \A v \in Threads : \A k \in 1 .. Height(v) :
    /\ InUseTxn(stack[v][k]) => stack[v][k].impl = tls[v]
    /\ stack[v][k].at \in Lone => \A j \in 1 .. k - 1 : ~InUseTxn(stack[v][j])

\* A current impl is in use and not deleted.
ImplCurrent(u) ==
  /\ \A v \in Threads : tls[v] \notin freed
  /\ \A w \in Workers : ~Active(w) => tls[w] = NoImpl
  /\ tls[u] # NoImpl => \E k \in 1 .. Height(u) : InUseTxn(stack[u][k])

\* processing_post is true just while posts are run.
PostFlag ==
  /\ IsFiniteSet(Where(Threads, TxnsAt(PostPlaces)))
  /\ HowMany(Threads, TxnsAt(PostPlaces)) = Bit(processingPost)
  /\ \A v \in Threads : \A k \in 1 .. Height(v) : stack[v][k].at = "postSet" => ~processingPost

\* Somebody is still to run the posts.
PostPending(u) ==
  postQ # <<>> =>
    \/ depth > 0
    \/ \E k \in 1 .. Height(u) : stack[u][k].at \in {"postTest", "postSet", "posts", "relock"}

\* w has taken entry e.
Handles(w, e) == Height(w) > 1 /\ stack[w][2].kind = "handler" /\ stack[w][2].item = e

\* Only u's current impl has entries, until it is drained; what left its queue
\* was handled or is being handled.
Drains(u) ==
  /\ \A i \in Impls : queue[i] # <<>> =>
       /\ i = tls[u]
       /\ \A k \in 1 .. Height(u) : stack[u][k].at \notin {"decRead", "decWrite"}
  /\ \A e \in Entries : sent[e] # NoImpl =>
       \/ e \in processed
       \/ \E k \in 1 .. Len(queue[sent[e]]) : queue[sent[e]][k] = e
       \/ \E w \in Workers : Handles(w, e)

-----------------------------------------------------------------------------
(* Who moves.                                                              *)

LEMMA ThreadsAre ==
  ASSUME NEW u, Sequential(u)
  PROVE  u \in Threads /\ u \notin Workers /\ Threads = {u} \cup Workers
BY ThreadsAssumption DEF Sequential, Threads

LEMMA AtLeastTwo ==
  ASSUME NEW S, IsFiniteSet(S), NEW p \in S, NEW q \in S, p # q
  PROVE  Cardinality(S) >= 2
<1>1. IsFiniteSet({p, q}) /\ Cardinality({p, q}) = 2
  <2>1. IsFiniteSet({p}) /\ Cardinality({p}) = 1 /\ q \notin {p}
    BY FS_Singleton
  <2>2. {p, q} = {p} \cup {q}
    OBVIOUS
  <2> QED
    BY <2>1, <2>2, FS_AddElement
<1>2. {p, q} \subseteq S
  OBVIOUS
<1> QED
  BY <1>1, <1>2, FS_Subset, FS_CardinalityType

LEMMA AnotherOne ==
  ASSUME NEW S, IsFiniteSet(S), Cardinality(S) >= 2, NEW p
  PROVE  \E q \in S : q # p
<1> SUFFICES ASSUME \A q \in S : q = p PROVE FALSE
  OBVIOUS
<1>1. S \subseteq {p}
  OBVIOUS
<1>2. IsFiniteSet({p}) /\ Cardinality({p}) = 1
  BY FS_Singleton
<1> QED
  BY <1>1, <1>2, FS_Subset, FS_CardinalityType

\* A thread steps in its own code.
LEMMA Mover ==
  ASSUME NEW t \in Threads, Step(t)
  PROVE  Active(t) \/ (Open(t) /\ t \in Users)
<1> USE DEF InTxn, At, InUserCode
<1>1. CASE Constructor(t)
  BY <1>1 DEF Constructor, EnterNested, EnterFresh, CallHook, HooksDone, Make, IncRead, IncWrite
<1>2. CASE Body(t)
  BY <1>2 DEF Body, Open, Send, OnStart, WantPost, Post, CodeReturns
<1>3. CASE Closing(t)
  BY <1>3 DEF Closing, Close, StartDrain, Join, DecRead, DecWrite, CloseNested, NestRead,
              NestWrite, PostTest, PostSet, RunPost, Relock, NoMorePosts, PostsDone, Unlock
<1>4. CASE Start(t) \/ HandlerReturns(t)
  BY <1>4 DEF Start, HandlerReturns
<1> QED
  BY <1>1, <1>2, <1>3, <1>4 DEF Step

\* A thread whose top frame is at join can only join.
LEMMA AtJoin ==
  ASSUME NEW t \in Threads, Step(t), InTxn(t, "join")
  PROVE  Join(t)
<1> USE DEF InTxn, At, InUserCode
<1>1. CASE Constructor(t)
  BY <1>1 DEF Constructor, EnterNested, EnterFresh, CallHook, HooksDone, Make, IncRead, IncWrite
<1>2. CASE Body(t)
  BY <1>2 DEF Body, Open, Send, OnStart, WantPost, Post, CodeReturns
<1>3. CASE Closing(t)
  BY <1>3 DEF Closing, Close, StartDrain, Join, DecRead, DecWrite, CloseNested, NestRead,
              NestWrite, PostTest, PostSet, RunPost, Relock, NoMorePosts, PostsDone, Unlock
<1>4. CASE Start(t) \/ HandlerReturns(t)
  BY <1>4 DEF Start, HandlerReturns
<1> QED
  BY <1>1, <1>2, <1>3, <1>4 DEF Step

\* While a thread is inside the library's code no other steps.
LEMMA Alone ==
  ASSUME NEW u, Sequential(u), Typed, Waits(u), Layered, NEW t \in Threads, Step(t),
         NEW v \in Threads \ {t}, NEW k \in 1 .. Height(v),
         stack[v][k].at \notin {"open", "post", "idle", "hooks", "relock", "join"}
  PROVE  FALSE
<1>1. k = Height(v) /\ Height(v) \in Nat /\ Active(v) /\ stack[v][k] = Top(v)
  BY TypedFacts DEF Layered
<1>2. Top(v).kind = "txn"
  BY <1>1, TypedFacts DEF Sound
<1>3. CASE v = u
  <2>1. \A w \in Workers : ~Active(w)
    BY <1>1, <1>3 DEF Waits, InTxn, At
  <2> QED
    BY <1>3, <2>1, Mover, ThreadsAre DEF Sequential
<1>4. CASE v # u
  <2>1. v \in Workers /\ Workers = {v}
    BY <1>1, <1>2, <1>4, ThreadsAre DEF Layered
  <2>2. t = u /\ InTxn(u, "join") /\ stack[v][1].impl = Top(u).impl
    BY <1>1, <2>1, ThreadsAre DEF Waits
  <2>3. Join(u)
    BY <2>2, AtJoin
  <2>4. v \in Crew(Top(u).impl)
    BY <1>1, <2>1, <2>2 DEF Crew
  <2>5. Height(v) = 1 /\ stack[v][1].kind = "worker"
    BY <1>1, <2>1, <2>3, <2>4 DEF Join, Height, Typed, Grounded
  <2> QED
    BY <1>1, <1>2, <2>5
<1> QED
  BY <1>3, <1>4

\* A worker's close() is always a nested one.
LEMMA WorkersNeverDrain ==
  ASSUME NEW u, Sequential(u), Typed, Waits(u), Layered, DepthExact, NEW w \in Workers
  PROVE  ~StartDrain(w)
<1> SUFFICES ASSUME StartDrain(w) PROVE FALSE
  OBVIOUS
<1>1. u \in Threads /\ w \in Threads /\ u # w
  BY ThreadsAre
<1>2. Active(w) /\ Top(w).kind = "txn" /\ Top(w).at = "test" /\ depth = 1
  BY DEF StartDrain, InTxn, At
<1>3. Active(u) /\ Top(u).kind = "txn" /\ Top(u).at = "join"
  BY <1>2 DEF Waits, InTxn, At
<1>4. /\ <<w, Height(w)>> \in Where(Threads, TxnsAt(Counted))
      /\ <<u, Height(u)>> \in Where(Threads, TxnsAt(Counted))
  BY <1>1, <1>2, <1>3, TypedFacts DEF Where, TxnsAt, Counted
<1>5. Cardinality(Where(Threads, TxnsAt(Counted))) >= 2
  BY <1>1, <1>4, AtLeastTwo DEF DepthExact
<1> QED
  BY <1>2, <1>5 DEF DepthExact, HowMany

\* Every step has one of the shapes.
LEMMA Shapes ==
  ASSUME Typed, NEW t \in Threads, Step(t)
  PROVE  \/ stack' = stack
         \/ \E f : Moves(t, f)
         \/ \E g : Pushes(t, g)
         \/ \E f, g : Calls(t, f, g)
         \/ Pops(t)
         \/ \E at, crew, s : Splits(t, at, crew, s)
<1> USE DEF Goes, GoesOn, Reads
<1>1. CASE Constructor(t)
  BY <1>1, ConstructorShapes DEF Constructor
<1>2. CASE Body(t) \/ Start(t) \/ HandlerReturns(t)
  BY <1>2, BodyShapes DEF Body
<1>3. CASE StartDrain(t) \/ Join(t)
  BY <1>3, ClosingShapes
<1>4. CASE Close(t) \/ DecRead(t) \/ DecWrite(t) \/ CloseNested(t) \/ NestRead(t) \/ NestWrite(t)
  BY <1>4, ClosingShapes
<1>5. CASE \/ PostTest(t) \/ PostSet(t) \/ RunPost(t) \/ Relock(t) \/ NoMorePosts(t)
           \/ PostsDone(t) \/ Unlock(t)
  BY <1>5, PostShapes
<1> QED
  BY <1>1, <1>2, <1>3, <1>4, <1>5 DEF Step, Closing

\* What a step keeps of the stack of its thread: all but the top frame.
LEMMA BelowTop ==
  ASSUME Typed, NEW t \in Threads, Step(t), Active(t)
  PROVE  \A k \in 1 .. Height(t) - 1 : k <= Height(t)' /\ stack'[t][k] = stack[t][k]
<1>0. Height(t) \in Nat /\ Height(t)' = Len(stack'[t])
  BY TypedFacts DEF Height
<1>2. CASE stack' = stack
  BY <1>0, <1>2 DEF Height
<1>3. CASE \E f : Moves(t, f)
  BY <1>0, <1>3 DEF Moves, Keeps
<1>4. CASE \E g : Pushes(t, g)
  BY <1>0, <1>4 DEF Pushes, Keeps
<1>5. CASE \E f, g : Calls(t, f, g)
  BY <1>0, <1>5 DEF Calls, Keeps
<1>6. CASE Pops(t)
  BY <1>0, <1>6 DEF Pops, Keeps
<1>7. CASE \E at, crew, s : Splits(t, at, crew, s)
  BY <1>0, <1>7 DEF Splits
<1> QED
  BY Shapes, <1>2, <1>3, <1>4, <1>5, <1>6, <1>7

\* A worker in its loop takes an entry.
LEMMA InLoop ==
  ASSUME Typed, NEW t \in Threads, Step(t), Active(t), Top(t).kind = "worker"
  PROVE  Start(t)
<1> USE DEF InTxn, At, InUserCode
<1>0. Top(t).at = "idle"
  BY TypedFacts DEF Sound
<1>1. ~Constructor(t)
  BY <1>0 DEF Constructor, EnterNested, EnterFresh, CallHook, HooksDone, Make, IncRead, IncWrite
<1>2. ~Body(t)
  BY <1>0 DEF Body, Open, Send, OnStart, WantPost, Post, CodeReturns
<1>3. ~Closing(t)
  BY <1>0 DEF Closing, Close, StartDrain, Join, DecRead, DecWrite, CloseNested, NestRead,
              NestWrite, PostTest, PostSet, RunPost, Relock, NoMorePosts, PostsDone, Unlock
<1>4. ~HandlerReturns(t)
  BY <1>0 DEF HandlerReturns
<1> QED
  BY <1>1, <1>2, <1>3, <1>4 DEF Step

LEMMA WaitsKept ==
  ASSUME NEW u, Sequential(u), Typed, Waits(u), Layered, DepthExact, NEW t \in Threads, Step(t)
  PROVE  Waits(u)'
<1> USE DEF InTxn, At
<1> SUFFICES ASSUME NEW w \in Workers, Active(w)'
             PROVE  InTxn(u, "join")' /\ stack'[w][1].impl = Top(u)'.impl
  BY DEF Waits
<1>0. u \in Threads /\ w \in Threads /\ u # w /\ Threads = {u} \cup Workers
      /\ Height(u) \in Nat /\ Height(w) \in Nat
  BY ThreadsAre, TypedFacts
<1>1. CASE StartDrain(t)
  <2>1. t = u
    BY <1>0, <1>1, WorkersNeverDrain
  <2>2. PICK crew \in SUBSET Workers : Splits(u, "join", crew, <<NewWorker(Top(u).impl)>>)
    BY <1>1, <2>1, ClosingShapes
  <2>3. Active(u) /\ Top(u).at = "test" /\ Top(u).kind = "txn"
    BY <1>1, <2>1 DEF StartDrain
  <2>4. w \in crew
    <3>1. ~Active(w)
      BY <2>3 DEF Waits
    <3> QED
      BY <1>0, <2>2, <3>1 DEF Splits, Active
  <2>5. stack'[w][1].impl = Top(u).impl
    BY <2>2, <2>4 DEF Splits, NewWorker, Frame
  <2>6. Height(u)' = Height(u) /\ Height(u) > 0
        /\ stack'[u][Height(u)] = Moved(Top(u), "join", Top(u).impl, Top(u).reg)
    BY <1>0, <2>2, <2>3, TypedFacts DEF Splits, Height
  <2>7. Active(u)' /\ Top(u)' = stack'[u][Height(u)]
    BY <2>6, EmptySeq DEF Active, Top, Height
  <2> QED
    BY <2>3, <2>5, <2>6, <2>7 DEF Moved
<1>2. CASE Join(t)
  <2>1. t = u
    <3>1. t \notin Workers
      BY <1>2, TypedFacts DEF Join, Layered, Ending
    <3> QED
      BY <1>0, <3>1
  <2>2. w \notin Crew(Top(u).impl) /\ stack'[w] = stack[w]
    BY <1>0, <1>2, <2>1, ClosingShapes DEF Splits, Active
  <2>3. w \in Crew(Top(u).impl)
    BY <2>2 DEF Waits, Crew, Active
  <2> QED
    BY <2>2, <2>3
<1>3. CASE t = u /\ ~StartDrain(t) /\ ~Join(t)
  <2>1. stack'[w] = stack[w]
    BY <1>0, <1>3, Elsewhere
  <2>2. InTxn(u, "join")
    BY <2>1 DEF Waits, Active
  <2> QED
    BY <1>3, <2>2, AtJoin
<1>4. CASE t # u /\ ~StartDrain(t) /\ ~Join(t)
  <2>1. stack'[u] = stack[u] /\ Active(t) /\ t \in Workers
    BY <1>0, <1>4, Elsewhere, Mover DEF Sequential
  <2>2. w # t => stack'[w] = stack[w]
    BY <1>4, <1>0, Elsewhere
  <2>3. stack'[t][1] = stack[t][1]
    <3>1. CASE Height(t) = 1
      <4>1. Top(t).kind = "worker"
        BY <2>1, <3>1, TypedFacts DEF Typed, Grounded
      <4> QED
        BY <2>1, <3>1, <4>1, InLoop, BodyShapes DEF Pushes, Keeps
    <3>2. CASE Height(t) # 1
      <4>1. Height(t) > 1 /\ Height(t) \in Nat
        BY <2>1, <3>2, TypedFacts
      <4> QED
        BY <2>1, <4>1, BelowTop
    <3> QED
      BY <3>1, <3>2
  <2>4. Active(w) /\ stack'[w][1] = stack[w][1]
    BY <2>1, <2>2, <2>3 DEF Active
  <2>5. Top(u)' = Top(u) /\ (Active(u)' <=> Active(u))
    BY <2>1 DEF Top, Active
  <2> QED
    BY <2>4, <2>5 DEF Waits
<1> QED
  BY <1>1, <1>2, <1>3, <1>4

-----------------------------------------------------------------------------
(* The frames after a step.                                                *)

\* Where a frame comes from.
LEMMA Outcome ==
  ASSUME Typed, NEW t \in Threads, Step(t), NEW v \in Threads, NEW k \in 1 .. Height(v)'
  PROVE  \/ v # t /\ stack'[v] = stack[v] /\ k \in 1 .. Height(v)
         \/ /\ v # t /\ StartDrain(t) /\ v \in Workers /\ ~Active(v) /\ k = 1
            /\ stack'[v] = <<NewWorker(Top(t).impl)>> /\ stack'[v][k] = NewWorker(Top(t).impl)
         \/ v = t /\ k \in 1 .. Height(t) - 1 /\ stack'[t][k] = stack[t][k]
         \/ v = t /\ k = Height(t) /\ Active(t)
         \/ v = t /\ k = Height(t) + 1
<1>1. Height(v) \in Nat /\ Height(t) \in Nat /\ Height(v)' = Len(stack'[v])
  BY TypedFacts DEF Height
<1>2. CASE v # t
  <2>1. CASE stack'[v] = stack[v]
    BY <1>1, <1>2, <2>1 DEF Height
  <2>2. CASE /\ StartDrain(t) /\ v \in Workers /\ ~Active(v)
             /\ stack'[v] = <<NewWorker(Top(t).impl)>>
    BY <1>1, <1>2, <2>2
  <2>3. CASE stack'[v] = <<>>
    BY <1>1, <2>3
  <2> QED
    BY <1>2, <2>1, <2>2, <2>3, Elsewhere
<1>3. CASE v = t
  <2>1. Height(t)' <= Height(t) + 1
    <3>1. \/ stack' = stack
          \/ \E f : Moves(t, f)
          \/ \E g : Pushes(t, g)
          \/ \E f, g : Calls(t, f, g)
          \/ Pops(t)
          \/ \E at, crew, s : Splits(t, at, crew, s)
      BY Shapes
    <3> QED
      BY <1>1, <1>3, <3>1 DEF Moves, Pushes, Calls, Pops, Splits, Height
  <2>2. Active(t) \/ Height(t) = 0
    BY TypedFacts
  <2>3. \A j \in 1 .. Height(t) - 1 : Active(t) => stack'[t][j] = stack[t][j]
    BY BelowTop
  <2> QED
    BY <1>1, <1>3, <2>1, <2>2, <2>3
<1> QED
  BY <1>2, <1>3

\* What a step makes of the top frame when it stays.
Onward(t) ==
  LET f == Top(t)
      g == stack'[t][Height(t)]
  IN
  /\ g.kind = f.kind /\ g.item = f.item
  /\ f.kind # "txn" => g.impl = f.impl
  /\ Height(t)' > Height(t) => g.at \in {"open", "hooks", "relock", "idle"}
  /\ g.at \in Ending => f.at \in Ending \/ StartDrain(t)
  /\ g.at \in Lone => f.at \in Lone \/ EnterFresh(t) \/ StartDrain(t)
  /\ g.at \in {"incWrite", "decWrite", "nestWrite"} => g.reg = depth /\ depth' = depth
  /\ g.at \in {"nestRead", "nestWrite"} => f.at = "nestRead" \/ CloseNested(t)
  /\ g.at \in {"decRead", "decWrite"} => f.at = "decRead" \/ Join(t)
  /\ g.at = "postSet" => PostTest(t) /\ ~processingPost
  /\ InUseTxn(g) => \/ InUseTxn(f) /\ g.impl = f.impl
                    \/ EnterNested(t) /\ g.impl = tls[t]
                    \/ Make(t) /\ g.impl = made + 1

LEMMA TopAfter ==
  ASSUME Typed, NEW t \in Threads, Step(t), Active(t), Height(t)' >= Height(t)
  PROVE  Onward(t)
<1> DEFINE f == Top(t)
           g == stack'[t][Height(t)]
<1> USE DEF InTxn, At, InUserCode
<1>0. /\ Height(t) \in Nat /\ Height(t) > 0 /\ Height(t)' = Len(stack'[t])
      /\ f = stack[t][Height(t)]
      /\ f.kind = "worker" => f.at = "idle"
      /\ f.at \notin {"open", "post", "idle"} => f.kind = "txn"
  BY TypedFacts DEF Height, Sound
<1>1. ~Pops(t)
  BY <1>0 DEF Pops
<1>2. ASSUME NEW at, NEW i, NEW reg,
             \/ Goes(t, at, i, reg)
             \/ GoesOn(t, at) /\ i = f.impl /\ reg = f.reg
             \/ Reads(t, at) /\ i = f.impl /\ reg = depth
             \/ \E crew, s : Splits(t, at, crew, s) /\ i = f.impl /\ reg = f.reg
      PROVE  g = Moved(f, at, i, reg) /\ Height(t)' = Height(t)
  BY <1>0, <1>2 DEF Goes, GoesOn, Reads, Moves, Splits
<1> USE DEF Onward, Moved, Ending, Lone, InUseTxn, InUse
<1>3. ASSUME Height(t)' = Height(t) \/ f.at \in {"open", "idle"}, g = f,
             f.at \notin {"incWrite", "decWrite", "nestWrite", "nestRead", "postSet"}
      PROVE  Onward(t)
  BY <1>0, <1>3
<1>4. CASE EnterNested(t)
  <2>1. g = Moved(f, "incRead", tls[t], 1) /\ Height(t)' = Height(t)
    BY <1>2, <1>4, ConstructorShapes
  <2> QED
    BY <1>0, <1>4, <2>1 DEF EnterNested
<1>5. CASE EnterFresh(t)
  <2>1. g = Moved(f, IF processingHooks THEN "make" ELSE "hooks", NoImpl, 1) /\ Height(t)' = Height(t)
    BY <1>2, <1>5, ConstructorShapes
  <2> QED
    BY <1>0, <1>5, <2>1 DEF EnterFresh
<1>6. CASE CallHook(t)
  <2>1. g = Moved(f, "hooks", f.impl, f.reg + 1)
    BY <1>6, ConstructorShapes DEF Calls
  <2>2. f.kind = "txn" /\ f.at = "hooks"
    BY <1>6 DEF CallHook
  <2>3. g.kind = "txn" /\ g.at = "hooks" /\ g.item = f.item
    BY <2>1, <2>2
  <2> QED
    BY <2>2, <2>3
<1>7. CASE HooksDone(t)
  <2>1. g = Moved(f, "make", f.impl, f.reg) /\ Height(t)' = Height(t)
    BY <1>2, <1>7, ConstructorShapes
  <2> QED
    BY <1>0, <1>7, <2>1 DEF HooksDone
<1>8. CASE Make(t)
  <2>1. g = Moved(f, "incRead", made + 1, 1) /\ Height(t)' = Height(t)
    BY <1>2, <1>8, ConstructorShapes
  <2> QED
    BY <1>0, <1>8, <2>1 DEF Make
<1>9. CASE IncRead(t)
  <2>1. g = Moved(f, "incWrite", f.impl, depth) /\ Height(t)' = Height(t)
    BY <1>2, <1>9, ConstructorShapes
  <2> QED
    BY <1>0, <1>9, <2>1 DEF IncRead
<1>10. CASE IncWrite(t)
  <2>1. g = Moved(f, "open", f.impl, f.reg) /\ Height(t)' = Height(t)
    BY <1>2, <1>10, ConstructorShapes
  <2> QED
    BY <1>0, <1>10, <2>1 DEF IncWrite
<1>11. CASE Open(t) \/ Start(t)
  <2>1. Pushes(t, NewTxn) \/ Pushes(t, NewHandler(Top(t).impl))
    BY <1>11, BodyShapes
  <2>2. g = f
    BY <1>0, <2>1 DEF Pushes, Keeps
  <2>3. f.at \in {"open", "idle"}
    <3>1. Open(t) => f.at = "open"
      BY DEF Open
    <3>2. Start(t) => f.at = "idle"
      BY DEF Start
    <3> QED
      BY <1>11, <3>1, <3>2
  <2> QED
    BY <1>3, <2>2, <2>3
<1>12. CASE Send(t) \/ OnStart(t)
  <2>1. g = f /\ f.at = "open"
    BY <1>0, <1>12, BodyShapes DEF Send, OnStart
  <2> QED
    BY <1>3, <2>1
<1>13. CASE WantPost(t)
  <2>1. g = Moved(f, "post", f.impl, f.reg) /\ Height(t)' = Height(t)
    BY <1>2, <1>13, BodyShapes
  <2> QED
    BY <1>0, <1>13, <2>1 DEF WantPost
<1>14. CASE Post(t)
  <2>1. g = Moved(f, "open", f.impl, f.reg) /\ Height(t)' = Height(t)
    BY <1>2, <1>14, BodyShapes
  <2> QED
    BY <1>0, <1>14, <2>1 DEF Post
<1>15. CASE CodeReturns(t) \/ HandlerReturns(t) \/ NestWrite(t) \/ Unlock(t)
  BY <1>1, <1>15, BodyShapes, ClosingShapes, PostShapes
<1>16. CASE Close(t)
  <2>1. g = Moved(f, "test", f.impl, f.reg) /\ Height(t)' = Height(t)
    BY <1>2, <1>16, ClosingShapes
  <2> QED
    BY <1>0, <1>16, <2>1 DEF Close
<1>17. CASE StartDrain(t)
  <2>1. g = Moved(f, "join", f.impl, f.reg) /\ Height(t)' = Height(t)
    BY <1>2, <1>17, ClosingShapes
  <2> QED
    <3>1. f.kind = "txn" /\ f.at = "test"
      BY <1>17 DEF StartDrain
    <3> QED
      BY <1>0, <1>17, <2>1, <3>1
<1>18. CASE Join(t)
  <2>1. g = Moved(f, "decRead", f.impl, f.reg) /\ Height(t)' = Height(t)
    BY <1>2, <1>18, ClosingShapes
  <2> QED
    BY <1>0, <1>18, <2>1 DEF Join
<1>19. CASE DecRead(t)
  <2>1. g = Moved(f, "decWrite", f.impl, depth) /\ Height(t)' = Height(t)
    BY <1>2, <1>19, ClosingShapes
  <2> QED
    BY <1>0, <1>19, <2>1 DEF DecRead
<1>20. CASE DecWrite(t)
  <2>1. g = Moved(f, "postTest", f.impl, f.reg) /\ Height(t)' = Height(t)
    BY <1>2, <1>20, ClosingShapes
  <2> QED
    BY <1>0, <1>20, <2>1 DEF DecWrite
<1>21. CASE CloseNested(t)
  <2>1. g = Moved(f, "nestRead", f.impl, f.reg) /\ Height(t)' = Height(t)
    BY <1>2, <1>21, ClosingShapes
  <2> QED
    BY <1>0, <1>21, <2>1 DEF CloseNested
<1>22. CASE NestRead(t)
  <2>1. g = Moved(f, "nestWrite", f.impl, depth) /\ Height(t)' = Height(t)
    BY <1>2, <1>22, ClosingShapes
  <2> QED
    BY <1>0, <1>22, <2>1 DEF NestRead
<1>23. CASE PostTest(t)
  <2>1. g = Moved(f, IF processingPost THEN "unlock" ELSE "postSet", f.impl, f.reg)
        /\ Height(t)' = Height(t)
    BY <1>2, <1>23, PostShapes
  <2> QED
    BY <1>0, <1>23, <2>1 DEF PostTest
<1>24. CASE PostSet(t) \/ Relock(t)
  <2>1. g = Moved(f, "posts", f.impl, f.reg) /\ Height(t)' = Height(t)
    BY <1>2, <1>24, PostShapes
  <2> QED
    BY <1>0, <1>24, <2>1 DEF PostSet, Relock
<1>25. CASE RunPost(t)
  <2>1. g = Moved(f, "relock", f.impl, f.reg)
    BY <1>25, PostShapes DEF Calls
  <2> QED
    BY <1>0, <1>25, <2>1 DEF RunPost
<1>26. CASE NoMorePosts(t)
  <2>1. g = Moved(f, "postClear", f.impl, f.reg) /\ Height(t)' = Height(t)
    BY <1>2, <1>26, PostShapes
  <2> QED
    BY <1>0, <1>26, <2>1 DEF NoMorePosts
<1>27. CASE PostsDone(t)
  <2>1. g = Moved(f, "unlock", f.impl, f.reg) /\ Height(t)' = Height(t)
    BY <1>2, <1>27, PostShapes
  <2> QED
    BY <1>0, <1>27, <2>1 DEF PostsDone
<1> QED
  BY <1>4, <1>5, <1>6, <1>7, <1>8, <1>9, <1>10, <1>11, <1>12, <1>13, <1>14, <1>15, <1>16,
     <1>17, <1>18, <1>19, <1>20, <1>21, <1>22, <1>23, <1>24, <1>25, <1>26, <1>27
     DEF Step, Constructor, Body, Closing

\* How high the stack of t is after its step.
LEMMA HeightAfter ==
  ASSUME Typed, NEW t \in Threads, Step(t)
  PROVE  /\ Height(t) \in Nat /\ Height(t)' \in Nat /\ Height(t)' = Len(stack'[t])
         /\ Height(t)' <= Height(t) + 1
         /\ \A k \in 1 .. Height(t)' : k = Height(t) => Height(t)' >= Height(t)
         /\ \A k \in 1 .. Height(t)' : k = Height(t) + 1 => Height(t)' = Height(t) + 1
<1>1. Height(t) \in Nat /\ Height(t)' \in Nat /\ Height(t)' = Len(stack'[t])
  BY TypedFacts, StackKept, LenProperties DEF Stacked, Height
<1>2. Height(t)' <= Height(t) + 1
  <2>1. \/ stack' = stack
        \/ \E f : Moves(t, f)
        \/ \E g : Pushes(t, g)
        \/ \E f, g : Calls(t, f, g)
        \/ Pops(t)
        \/ \E at, crew, s : Splits(t, at, crew, s)
    BY Shapes
  <2> QED
    BY <1>1, <2>1 DEF Moves, Pushes, Calls, Pops, Splits, Height
<1> QED
  BY <1>1, <1>2

\* The frame that a step adds on top.
LEMMA Added ==
  ASSUME Typed, NEW t \in Threads, Step(t), Height(t)' = Height(t) + 1
  PROVE  \/ Open(t) /\ stack'[t][Height(t) + 1] = NewTxn
         \/ CallHook(t) /\ stack'[t][Height(t) + 1] = NewHook
         \/ Start(t) /\ stack'[t][Height(t) + 1] = NewHandler(Top(t).impl)
         \/ RunPost(t) /\ stack'[t][Height(t) + 1] = NewAction
<1>0. Height(t) \in Nat /\ Height(t)' = Len(stack'[t])
  BY TypedFacts DEF Height
<1>1. /\ stack' # stack
      /\ \A f : ~Moves(t, f)
      /\ ~Pops(t)
      /\ \A at, crew, s : ~Splits(t, at, crew, s)
  BY <1>0 DEF Moves, Pops, Splits, Height
<1>2. \A at, i, reg : ~Goes(t, at, i, reg) /\ ~GoesOn(t, at) /\ ~Reads(t, at)
  BY <1>1 DEF Goes, GoesOn, Reads
<1>3. CASE Constructor(t)
  <2>1. CallHook(t)
    BY <1>2, <1>3, ConstructorShapes DEF Constructor
  <2> QED
    BY <2>1, ConstructorShapes DEF Calls
<1>4. CASE Body(t) \/ Start(t) \/ HandlerReturns(t)
  <2>1. Open(t) \/ Start(t)
    BY <1>1, <1>2, <1>4, BodyShapes DEF Body
  <2> QED
    BY <2>1, BodyShapes DEF Pushes
<1>5. CASE Closing(t)
  <2>1. RunPost(t)
    BY <1>1, <1>2, <1>5, ClosingShapes, PostShapes DEF Closing
  <2> QED
    BY <2>1, PostShapes DEF Calls
<1> QED
  BY <1>3, <1>4, <1>5 DEF Step

LEMMA LayeredKept ==
  ASSUME NEW u, Sequential(u), Typed, Waits(u), Layered, DepthExact, NEW t \in Threads, Step(t)
  PROVE  Layered'
<1> USE DEF InTxn, At
<1> SUFFICES ASSUME NEW v \in Threads, NEW k \in 1 .. Height(v)'
             PROVE  /\ stack'[v][k].kind = "worker" => v \in Workers /\ k = 1
                    /\ stack'[v][k].kind = "handler" =>
                         v \in Workers /\ k = 2 /\ stack'[v][k].impl = stack'[v][1].impl
                    /\ k < Height(v)' => stack'[v][k].at \in {"open", "hooks", "relock", "idle"}
                    /\ v \in Workers =>
                         /\ stack'[v][k].at \notin Ending
                         /\ stack'[v][k].kind \in {"worker", "handler"} \/ Workers = {v}
  BY DEF Layered
<1>0. Height(t) \in Nat /\ Height(v) \in Nat /\ Height(v)' = Len(stack'[v])
      /\ (Active(t) => Height(t) > 0 /\ Top(t) = stack[t][Height(t)])
  BY TypedFacts DEF Height
<1>1. CASE v # t /\ stack'[v] = stack[v] /\ k \in 1 .. Height(v)
  BY <1>1 DEF Layered, Height
<1>2. CASE /\ v # t /\ StartDrain(t) /\ v \in Workers /\ ~Active(v) /\ k = 1
           /\ stack'[v] = <<NewWorker(Top(t).impl)>> /\ stack'[v][k] = NewWorker(Top(t).impl)
  <2>1. Height(v)' = 1
    BY <1>0, <1>2
  <2> QED
    BY <1>2, <2>1 DEF NewWorker, Frame, Ending
<1>3. CASE v = t /\ k \in 1 .. Height(t) - 1 /\ stack'[t][k] = stack[t][k]
  <2>1. k = 2 => stack'[t][1] = stack[t][1]
    <3>1. Active(t)
      BY <1>0, <1>3, TypedFacts
    <3> QED
      BY <1>0, <1>3, <3>1, BelowTop
  <2>2. k \in 1 .. Height(t) /\ k < Height(t)
    BY <1>0, <1>3
  <2> QED
    BY <1>3, <2>1, <2>2 DEF Layered
<1>4. CASE v = t /\ k = Height(t) /\ Active(t)
  <2>1. Onward(t)
    BY <1>0, <1>4, TopAfter
  <2>2. k = 2 => stack'[t][1] = stack[t][1]
    <3>1. k = 2 => 1 \in 1 .. Height(t) - 1
      BY <1>4
    <3> QED
      BY <1>4, <3>1, BelowTop
  <2>3. t \in Workers => ~StartDrain(t)
    BY WorkersNeverDrain
  <2> QED
    BY <1>0, <1>4, <2>1, <2>2, <2>3 DEF Layered, Onward
<1>5. CASE v = t /\ k = Height(t) + 1
  <2>0. Height(t)' = Height(t) + 1
    BY <1>5, HeightAfter
  <2>1. CASE Open(t) /\ stack'[t][Height(t) + 1] = NewTxn
    <3>1. v \in Workers => Workers = {v}
      <4> SUFFICES ASSUME v \in Workers PROVE Workers = {v}
        OBVIOUS
      <4>1. Active(t) /\ Top(t).kind \in Nesting
        BY <1>5, <2>1, ThreadsAssumption DEF Open
      <4>2. Top(t).kind \notin {"worker", "handler"} => Workers = {v}
        BY <1>0, <1>5, <4>1 DEF Layered
      <4> QED
        BY <1>5, <4>1, <4>2, NestingAssumption DEF Sequential
    <3> QED
      BY <1>5, <2>0, <2>1, <3>1 DEF NewTxn, Frame, Ending
  <2>2. CASE CallHook(t) /\ stack'[t][Height(t) + 1] = NewHook
    <3>1. v \in Workers => Workers = {v}
      BY <1>0, <1>5, <2>2 DEF CallHook, Layered
    <3> QED
      BY <1>5, <2>0, <2>2, <3>1 DEF NewHook, Frame, Ending
  <2>3. CASE Start(t) /\ stack'[t][Height(t) + 1] = NewHandler(Top(t).impl)
    <3>1. Active(t) /\ Top(t).kind = "worker"
      BY <2>3 DEF Start
    <3>2. t \in Workers /\ Height(t) = 1 /\ Top(t) = stack[t][1]
      BY <1>0, <3>1 DEF Layered
    <3>3. stack'[t][1] = stack[t][1]
      BY <2>3, <3>2, BodyShapes DEF Pushes, Keeps
    <3> QED
      BY <1>5, <2>0, <2>3, <3>2, <3>3 DEF NewHandler, Frame, Ending
  <2>4. CASE RunPost(t) /\ stack'[t][Height(t) + 1] = NewAction
    <3>1. t \notin Workers
      BY <1>0, <2>4 DEF RunPost, Layered, Ending
    <3> QED
      BY <1>5, <2>0, <2>4, <3>1 DEF NewAction, Frame
  <2> QED
    BY <2>0, <2>1, <2>2, <2>3, <2>4, Added
<1> QED
  BY <1>1, <1>2, <1>3, <1>4, <1>5, Outcome

-----------------------------------------------------------------------------
(* part->depth.                                                            *)

LEMMA CountedFrame ==
  ASSUME Typed, DepthExact, NEW t \in Threads, NEW k \in 1 .. Height(t),
         stack[t][k].kind = "txn", stack[t][k].at \in Counted
  PROVE  <<t, k>> \in Where(Threads, TxnsAt(Counted)) /\ depth >= 1
<1>1. Height(t) \in Nat /\ stack[t][k] \in Frames
  BY TypedFacts, StackFacts
<1>2. <<t, k>> \in Where(Threads, TxnsAt(Counted))
  BY <1>1 DEF Where, TxnsAt
<1> QED
  BY <1>2, FS_CardinalityType, FS_EmptySet DEF DepthExact, HowMany

LEMMA DepthExactKept ==
  ASSUME Typed, DepthExact, DepthCurrent, NEW t \in Threads, Step(t)
  PROVE  DepthExact'
<1> DEFINE A == Counted
           n == HowMany(Threads, TxnsAt(A))
<1>1. Stacked'
  BY StackKept
<1>2. /\ "idle" \notin A /\ IsFiniteSet(Where(Threads, TxnsAt(A)))
      /\ n = depth
  BY DEF Counted, DepthExact
<1>3. IsFiniteSet(Where(Threads, TxnsAt(A))') /\ n \in Nat /\ n' \in Nat
  <2> HIDE DEF A
  <2> QED
    BY <1>1, <1>2, Traffic
<1>4. InTxn(t, "incWrite") \/ InTxn(t, "decWrite") \/ InTxn(t, "nestWrite") => Top(t).reg = depth
  BY TypedFacts DEF DepthCurrent, InTxn, At
<1>5. CASE IncWrite(t)
  <2>1. n' = n + 1
    BY <1>1, <1>2, <1>3, <1>5, Traffic DEF Passes, Bit, Counted
  <2>2. depth' = depth + 1
    BY <1>4, <1>5 DEF IncWrite
  <2> QED
    BY <1>2, <1>3, <2>1, <2>2 DEF DepthExact
<1>6. CASE DecWrite(t)
  <2>1. n' + 1 = n
    BY <1>1, <1>2, <1>3, <1>6, Traffic DEF Passes, Bit, Counted
  <2>2. depth' = depth - 1
    BY <1>4, <1>6 DEF DecWrite
  <2> QED
    BY <1>2, <1>3, <2>1, <2>2 DEF DepthExact
<1>7. CASE NestWrite(t)
  <2>1. n' + 1 = n
    BY <1>1, <1>2, <1>3, <1>7, Traffic DEF Passes, Bit, Counted
  <2>2. depth' = depth - 1
    BY <1>4, <1>7 DEF NestWrite
  <2> QED
    BY <1>2, <1>3, <2>1, <2>2 DEF DepthExact
<1>8. CASE ~(IncWrite(t) \/ DecWrite(t) \/ NestWrite(t))
  <2>1. n' = n
    BY <1>1, <1>2, <1>3, <1>8, Traffic DEF Passes, Bit, Counted, Step, Constructor, Body, Closing
  <2>2. depth' = depth
    BY <1>8, Changes
  <2> QED
    BY <1>2, <1>3, <2>1, <2>2 DEF DepthExact
<1> QED
  BY <1>5, <1>6, <1>7, <1>8

LEMMA DepthCurrentKept ==
  ASSUME NEW u, Sequential(u), Typed, Waits(u), Layered, DepthExact, DepthCurrent,
         NEW t \in Threads, Step(t)
  PROVE  DepthCurrent'
<1> USE DEF InTxn, At
<1> DEFINE Reading == {"incWrite", "decWrite", "nestWrite", "nestRead"}
<1> SUFFICES ASSUME NEW v \in Threads, NEW k \in 1 .. Height(v)', stack'[v][k].at \in Reading
             PROVE  /\ stack'[v][k].at \in {"incWrite", "decWrite", "nestWrite"}
                          => stack'[v][k].reg = depth'
                    /\ stack'[v][k].at \in {"nestRead", "nestWrite"} => depth' >= 2
  BY DEF DepthCurrent
<1>0. Height(t) \in Nat /\ (Active(t) => Height(t) > 0 /\ Top(t) = stack[t][Height(t)])
  BY TypedFacts
<1>1. CASE v # t /\ stack'[v] = stack[v] /\ k \in 1 .. Height(v)
  BY <1>1, Alone
<1>2. CASE stack'[v][k] = NewWorker(Top(t).impl)
  BY <1>2 DEF NewWorker, Frame
<1>3. CASE v = t /\ k \in 1 .. Height(t) - 1 /\ stack'[t][k] = stack[t][k]
  BY <1>0, <1>3 DEF Layered
<1>4. CASE v = t /\ k = Height(t) /\ Active(t)
  <2>1. Onward(t)
    BY <1>4, HeightAfter, TopAfter
  <2>2. stack'[v][k].at \in {"nestRead", "nestWrite"} => Top(t).at = "nestRead" \/ CloseNested(t)
    BY <1>4, <2>1 DEF Onward
  <2>3. ASSUME Top(t).at = "nestRead" PROVE depth >= 2 /\ depth' = depth
    <3>1. ~IncWrite(t) /\ ~DecWrite(t) /\ ~NestWrite(t)
      BY <2>3 DEF IncWrite, DecWrite, NestWrite
    <3> QED
      BY <1>0, <1>4, <2>3, <3>1, Changes DEF DepthCurrent
  <2>4. ASSUME CloseNested(t) PROVE depth >= 2 /\ depth' = depth
    <3>1. Top(t).kind = "txn" /\ Top(t).at \in Counted
      BY <2>4 DEF CloseNested, Counted
    <3>2. Height(t) \in 1 .. Height(t) /\ stack[t][Height(t)] = Top(t)
      BY <1>0, <1>4
    <3>3. depth >= 1
      BY <3>1, <3>2, CountedFrame
    <3> QED
      BY <2>4, <3>3 DEF CloseNested, Typed, TypeOK
  <2> QED
    BY <1>4, <2>1, <2>2, <2>3, <2>4 DEF Onward
<1>5. CASE v = t /\ k = Height(t) + 1
  <2>1. Height(t)' = Height(t) + 1
    BY <1>5, HeightAfter
  <2>2. \/ stack'[v][k] = NewTxn \/ stack'[v][k] = NewHook
        \/ stack'[v][k] = NewHandler(Top(t).impl) \/ stack'[v][k] = NewAction
    BY <1>5, <2>1, Added
  <2> QED
    BY <2>2 DEF NewTxn, NewHook, NewHandler, NewAction, Frame
<1> QED
  BY <1>1, <1>2, <1>3, <1>4, <1>5, Outcome

-----------------------------------------------------------------------------
(* The current transaction_impl.                                           *)

\* An object in use stays so until it is closed.
LEMMA StaysInUse ==
  ASSUME Typed, NEW t \in Threads, Step(t), Active(t), InUseTxn(Top(t)),
         ~DecWrite(t), ~NestWrite(t)
  PROVE  Height(t)' >= Height(t) /\ InUseTxn(stack'[t][Height(t)])
<1> USE DEF InTxn, At, InUserCode
<1>0. Height(t) \in Nat /\ Height(t)' = Len(stack'[t])
      /\ Top(t).kind = "txn" /\ Top(t).at \in InUse /\ Top(t) = stack[t][Height(t)]
  BY TypedFacts DEF Height, InUseTxn
<1>1. ASSUME NEW at \in InUse, NEW i, NEW reg,
             \/ Goes(t, at, i, reg)
             \/ GoesOn(t, at) /\ i = Top(t).impl /\ reg = Top(t).reg
             \/ Reads(t, at) /\ i = Top(t).impl /\ reg = depth
             \/ \E crew, s : Splits(t, at, crew, s) /\ i = Top(t).impl /\ reg = Top(t).reg
      PROVE  Height(t)' >= Height(t) /\ InUseTxn(stack'[t][Height(t)])
  <2>1. stack'[t][Height(t)] = Moved(Top(t), at, i, reg) /\ Height(t)' = Height(t)
    BY <1>0, <1>1 DEF Goes, GoesOn, Reads, Moves, Splits
  <2> QED
    BY <1>0, <2>1 DEF Moved, InUseTxn
<1>2. CASE IncRead(t) \/ IncWrite(t)
  <2>1. Reads(t, "incWrite") \/ GoesOn(t, "open")
    BY <1>2, ConstructorShapes
  <2> QED
    BY <1>1, <2>1 DEF InUse
<1>3. CASE Open(t)
  <2>1. Pushes(t, NewTxn)
    BY <1>3, BodyShapes
  <2>2. stack'[t][Height(t)] = Top(t) /\ Height(t)' = Height(t) + 1
    BY <1>0, <2>1, TypedFacts DEF Pushes, Keeps
  <2> QED
    BY <1>0, <2>2 DEF InUseTxn
<1>4. CASE Send(t) \/ OnStart(t)
  BY <1>0, <1>4, BodyShapes DEF Height, InUseTxn
<1>5. CASE WantPost(t) \/ Post(t)
  <2>1. GoesOn(t, "post") \/ GoesOn(t, "open")
    BY <1>5, BodyShapes
  <2> QED
    BY <1>1, <2>1 DEF InUse
<1>6. CASE StartDrain(t) \/ Join(t)
  <2>1. \E crew, s : Splits(t, "join", crew, s) \/ Splits(t, "decRead", crew, s)
    BY <1>6, ClosingShapes
  <2> QED
    BY <1>1, <2>1 DEF InUse
<1>7. CASE Close(t) \/ DecRead(t) \/ CloseNested(t) \/ NestRead(t)
  <2>1. \/ GoesOn(t, "test") \/ Reads(t, "decWrite") \/ GoesOn(t, "nestRead")
        \/ Reads(t, "nestWrite")
    BY <1>7, ClosingShapes
  <2> QED
    BY <1>1, <2>1 DEF InUse
<1>8. ~EnterNested(t) /\ ~EnterFresh(t) /\ ~CallHook(t) /\ ~HooksDone(t) /\ ~Make(t)
  BY <1>0 DEF EnterNested, EnterFresh, CallHook, HooksDone, Make, InUse
<1>9. ~PostTest(t) /\ ~PostSet(t) /\ ~RunPost(t) /\ ~Relock(t) /\ ~NoMorePosts(t)
      /\ ~PostsDone(t) /\ ~Unlock(t)
  BY <1>0 DEF PostTest, PostSet, RunPost, Relock, NoMorePosts, PostsDone, Unlock, InUse
<1>10. ~CodeReturns(t) /\ ~Start(t) /\ ~HandlerReturns(t)
  BY <1>0 DEF CodeReturns, Start, HandlerReturns
<1> QED
  BY <1>2, <1>3, <1>4, <1>5, <1>6, <1>7, <1>8, <1>9, <1>10 DEF Step, Constructor, Body, Closing

\* Where a thread's current impl changes.
LEMMA CurrentAfter ==
  ASSUME Typed, NEW t \in Threads, Step(t), NEW v \in Threads
  PROVE  \/ tls'[v] = tls[v]
         \/ v = t /\ Make(t) /\ tls'[v] = made + 1
         \/ v = t /\ DecWrite(t) /\ tls'[v] = NoImpl
         \/ /\ v # t /\ Join(t) /\ v \in Crew(Top(t).impl) /\ v \in Workers
            /\ tls'[v] = NoImpl /\ stack'[v] = <<>>
<1>1. tls \in [Threads -> Impls \cup {NoImpl}]
  BY DEF Typed, TypeOK
<1>2. CASE Join(t)
  <2>1. t \notin Crew(Top(t).impl) /\ \A w \in Crew(Top(t).impl) : stack'[w] = <<>>
    BY <1>2, ClosingShapes DEF Splits
  <2>2. v \in Crew(Top(t).impl) => tls'[v] = NoImpl
    BY <1>2 DEF Join
  <2>3. v \notin Crew(Top(t).impl) => tls'[v] = tls[v]
    BY <1>2 DEF Join
  <2> QED
    BY <1>2, <2>1, <2>2, <2>3 DEF Crew
<1>3. CASE Make(t) \/ DecWrite(t)
  BY <1>1, <1>3 DEF Make, DecWrite
<1> QED
  BY <1>2, <1>3, Changes

LEMMA ImplSharedKept ==
  ASSUME NEW u, Sequential(u), Typed, Waits(u), Layered, DepthExact, ImplShared,
         NEW t \in Threads, Step(t)
  PROVE  ImplShared'
<1> USE DEF InTxn, At
<1> SUFFICES ASSUME NEW v \in Threads, NEW k \in 1 .. Height(v)'
             PROVE  /\ InUseTxn(stack'[v][k]) => stack'[v][k].impl = tls'[v]
                    /\ stack'[v][k].at \in Lone =>
                         \A j \in 1 .. k - 1 : ~InUseTxn(stack'[v][j])
  BY DEF ImplShared, InUseTxn
<1>0. Height(t) \in Nat /\ (Active(t) => Height(t) > 0 /\ Top(t) = stack[t][Height(t)])
  BY TypedFacts
<1>1. CASE v # t /\ stack'[v] = stack[v] /\ k \in 1 .. Height(v)
  <2>1. tls'[v] = tls[v]
    <3>1. stack'[v] # <<>>
      BY <1>1 DEF Height
    <3> QED
      BY <1>1, <3>1, CurrentAfter
  <2> QED
    BY <1>1, <2>1 DEF ImplShared
<1>2. CASE stack'[v][k] = NewWorker(Top(t).impl)
  BY <1>2 DEF NewWorker, Frame, InUseTxn, Lone
<1>3. CASE v = t /\ k \in 1 .. Height(t) - 1 /\ stack'[t][k] = stack[t][k]
  <2>0. Active(t) /\ k \in 1 .. Height(t) /\ Height(t) \in 1 .. Height(t)
    BY <1>0, <1>3, TypedFacts
  <2>1. \A j \in 1 .. k - 1 : stack'[t][j] = stack[t][j]
    BY <1>0, <1>3, <2>0, BelowTop
  <2>2. InUseTxn(stack[t][k]) => ~Make(t) /\ ~DecWrite(t)
    BY <1>0, <1>3, <2>0 DEF ImplShared, Make, DecWrite, Lone
  <2> QED
    BY <1>3, <2>0, <2>1, <2>2, CurrentAfter DEF ImplShared
<1>4. CASE v = t /\ k = Height(t) /\ Active(t)
  <2>0. k \in 1 .. Height(t) /\ stack[t][k] = Top(t)
    BY <1>0, <1>4
  <2>1. Onward(t)
    BY <1>4, HeightAfter, TopAfter
  <2>2. \A j \in 1 .. k - 1 : stack'[t][j] = stack[t][j]
    BY <1>4, BelowTop
  <2>3. InUseTxn(stack'[t][k]) => stack'[t][k].impl = tls'[t]
    <3>1. DecWrite(t) => ~InUseTxn(stack'[t][k])
      <4> SUFFICES ASSUME DecWrite(t) PROVE ~InUseTxn(stack'[t][k])
        OBVIOUS
      <4>1. stack'[t][k] = Moved(Top(t), "postTest", Top(t).impl, Top(t).reg)
        BY <1>4, ClosingShapes DEF GoesOn, Goes, Moves
      <4> QED
        BY <4>1 DEF Moved, InUseTxn, InUse
    <3>2. Make(t) => ~InUseTxn(Top(t)) /\ ~EnterNested(t) /\ tls'[t] = made + 1
      BY DEF Make, EnterNested, InUseTxn, InUse, Typed, TypeOK
    <3>3. InUseTxn(Top(t)) => Top(t).impl = tls[t]
      BY <2>0 DEF ImplShared
    <3> QED
      BY <1>4, <2>1, <3>1, <3>2, <3>3, CurrentAfter DEF Onward
  <2>4. ASSUME stack'[t][k].at \in Lone, NEW j \in 1 .. k - 1, InUseTxn(stack[t][j])
        PROVE  FALSE
    <3>0. j \in 1 .. Height(t) /\ j < Height(t)
      BY <1>0, <1>4, <2>4
    <3>1. Top(t).at \notin Lone
      BY <2>0, <2>4 DEF ImplShared
    <3>2. ~EnterFresh(t)
      <4>1. stack[t][j].impl = tls[t]
        BY <2>4, <3>0 DEF ImplShared
      <4>2. stack[t][j].impl # NoImpl
        BY <2>4, <3>0 DEF InUseTxn, InUse, Typed, Named, AllIn, Sound, HasImpl
      <4> QED
        BY <4>1, <4>2 DEF EnterFresh
    <3>3. ~StartDrain(t)
      <4> SUFFICES ASSUME StartDrain(t) PROVE FALSE
        OBVIOUS
      <4>1. stack[t][j].kind = "txn" /\ stack[t][j].at \in Counted
        BY <2>4, <3>0 DEF Layered, InUseTxn, InUse, Counted
      <4>2. Top(t).kind = "txn" /\ Top(t).at \in Counted /\ depth = 1
        BY DEF StartDrain, Counted
      <4>3. /\ <<t, j>> \in Where(Threads, TxnsAt(Counted))
            /\ <<t, k>> \in Where(Threads, TxnsAt(Counted))
            /\ <<t, j>> # <<t, k>>
        BY <1>4, <2>0, <3>0, <4>1, <4>2, CountedFrame
      <4>4. Cardinality(Where(Threads, TxnsAt(Counted))) >= 2
        BY <4>3, AtLeastTwo DEF DepthExact
      <4> QED
        BY <4>2, <4>4 DEF DepthExact, HowMany
    <3> QED
      BY <1>4, <2>1, <2>4, <3>1, <3>2, <3>3 DEF Onward
  <2> QED
    BY <1>4, <2>2, <2>3, <2>4
<1>5. CASE v = t /\ k = Height(t) + 1
  <2>1. Height(t)' = Height(t) + 1
    BY <1>5, HeightAfter
  <2>2. \/ stack'[v][k] = NewTxn \/ stack'[v][k] = NewHook
        \/ stack'[v][k] = NewHandler(Top(t).impl) \/ stack'[v][k] = NewAction
    BY <1>5, <2>1, Added
  <2> QED
    BY <2>2 DEF NewTxn, NewHook, NewHandler, NewAction, Frame, InUseTxn, InUse, Lone
<1> QED
  BY <1>1, <1>2, <1>3, <1>4, <1>5, Outcome

\* A worker's stack is emptied by Join alone.
LEMMA WorkerStays ==
  ASSUME Typed, NEW w \in Workers, Step(w)
  PROVE  Active(w)'
<1>0. w \in Threads /\ w \notin Users
  BY ThreadsAssumption DEF Threads
<1>1. Active(w) /\ Height(w) \in Nat /\ Height(w) > 0
  BY <1>0, Mover, TypedFacts
<1>2. Height(w)' > 0
  <2>1. CASE Height(w) = 1
    <3>1. Top(w).kind = "worker"
      BY <1>0, <1>1, <2>1, TypedFacts DEF Typed, Grounded
    <3>2. Pushes(w, NewHandler(Top(w).impl))
      BY <1>0, <1>1, <3>1, InLoop, BodyShapes
    <3> QED
      BY <1>0, <1>1, <3>2, HeightAfter DEF Pushes
  <2>2. CASE Height(w) > 1
    <3>1. 1 \in 1 .. Height(w) - 1
      BY <1>1, <2>2
    <3> QED
      BY <1>0, <1>1, <3>1, BelowTop, HeightAfter
  <2> QED
    BY <1>1, <2>1, <2>2
<1> QED
  BY <1>2, EmptySeq DEF Active, Height

LEMMA ImplCurrentKept ==
  ASSUME NEW u, Sequential(u), Typed, Waits(u), Layered, DepthExact, DepthCurrent, ImplShared,
         ImplCurrent(u), NEW t \in Threads, Step(t)
  PROVE  ImplCurrent(u)'
<1> USE DEF InTxn, At
<1>0. /\ u \in Threads /\ u \notin Workers /\ Threads = {u} \cup Workers
      /\ Height(t) \in Nat
      /\ Active(t) => /\ Height(t) > 0 /\ Top(t) = stack[t][Height(t)]
                     /\ Height(t) \in 1 .. Height(t)
      /\ freed \subseteq 1 .. made /\ made \in Nat
  <2>1. freed \subseteq 1 .. made /\ made \in Nat
    BY BoundAssumption DEF Typed, TypeOK
  <2> QED
    BY <2>1, ThreadsAre, TypedFacts
<1>1. ASSUME NEW v \in Threads PROVE tls'[v] \notin freed'
  <2>1. CASE DecWrite(t)
    <3>1. t = u /\ Active(t) /\ Top(t).kind = "txn" /\ Top(t).at = "decWrite"
      BY <1>0, <2>1 DEF DecWrite, Layered, Ending
    <3>2. Top(t).impl # NoImpl
      BY <1>0, <3>1, TypedFacts DEF Sound, HasImpl
    <3>3. freed' = freed \cup {Top(t).impl}
      BY <2>1 DEF DecWrite
    <3>4. CASE v = t
      BY <1>0, <2>1, <3>2, <3>3, <3>4 DEF DecWrite, Typed, TypeOK, NoImpl
    <3>5. CASE v # t
      <4>1. tls[v] = NoImpl
        BY <1>0, <3>1, <3>5 DEF Waits, ImplCurrent
      <4>2. tls'[v] = NoImpl
        BY <2>1, <3>5, <4>1, CurrentAfter
      <4> QED
        BY <1>0, <3>2, <3>3, <4>2 DEF NoImpl
    <3> QED
      BY <3>4, <3>5
  <2>2. CASE ~DecWrite(t)
    <3>1. freed' = freed
      BY <2>2, Changes
    <3>2. tls'[v] \in {tls[v], NoImpl, made + 1}
      BY CurrentAfter
    <3>3. NoImpl \notin freed /\ made + 1 \notin freed
      BY <1>0 DEF NoImpl
    <3> QED
      BY <3>1, <3>2, <3>3 DEF ImplCurrent
  <2> QED
    BY <2>1, <2>2
<1>2. ASSUME NEW w \in Workers, ~Active(w)' PROVE tls'[w] = NoImpl
  <2>1. w \in Threads /\ w # t
    BY <1>0, <1>2, WorkerStays
  <2>2. CASE stack'[w] = <<>> /\ Join(t) /\ w \in Crew(Top(t).impl)
    BY <2>2 DEF Join, Threads
  <2>3. CASE stack'[w] = stack[w]
    <3>1. tls[w] = NoImpl
      BY <1>2, <2>3 DEF ImplCurrent, Active
    <3> QED
      BY <2>1, <3>1, CurrentAfter
  <2>4. stack'[w] = <<>>
    BY <1>2 DEF Active
  <2> QED
    BY <2>1, <2>2, <2>3, <2>4, Elsewhere DEF NewWorker
<1>3. ASSUME tls'[u] # NoImpl PROVE \E k \in 1 .. Height(u)' : InUseTxn(stack'[u][k])
  <2>1. CASE t # u
    <3>1. stack'[u] = stack[u] /\ tls'[u] = tls[u]
      BY <1>0, <2>1, Elsewhere, CurrentAfter DEF Crew
    <3> QED
      BY <1>3, <3>1 DEF ImplCurrent, Height
  <2>2. CASE t = u /\ Make(t)
    <3>1. Active(t) /\ Top(t).kind = "txn"
      BY <2>2 DEF Make
    <3>2. Moves(t, Moved(Top(t), "incRead", made + 1, 1))
      BY <2>2, ConstructorShapes DEF Goes
    <3>3. Height(u) \in 1 .. Height(u)'
          /\ stack'[u][Height(u)] = Moved(Top(u), "incRead", made + 1, 1)
      BY <1>0, <2>2, <3>1, <3>2, HeightAfter DEF Moves
    <3> QED
      BY <2>2, <3>1, <3>3 DEF Moved, InUseTxn, InUse
  <2>3. CASE t = u /\ ~Make(t)
    <3>1. tls[u] # NoImpl /\ ~DecWrite(t)
      <4>1. DecWrite(t) => tls'[u] = NoImpl
        BY <2>3 DEF DecWrite, Typed, TypeOK
      <4> QED
        BY <1>3, <2>3, <4>1, CurrentAfter
    <3>2. PICK k \in 1 .. Height(u) : InUseTxn(stack[u][k])
      BY <3>1 DEF ImplCurrent
    <3>3. Active(u)
      BY <1>0, <3>2, TypedFacts
    <3>4. ASSUME NEW j \in 1 .. Height(u) - 1, InUseTxn(stack[u][j])
          PROVE  \E i \in 1 .. Height(u)' : InUseTxn(stack'[u][i])
      <4>1. j <= Height(u)' /\ stack'[u][j] = stack[u][j] /\ Height(u)' \in Nat
        BY <2>3, <3>3, <3>4, BelowTop, HeightAfter
      <4>2. j \in 1 .. Height(u)'
        BY <1>0, <2>3, <4>1
      <4> QED
        BY <3>4, <4>1, <4>2
    <3>5. CASE k < Height(u)
      <4>1. k \in 1 .. Height(u) - 1
        BY <1>0, <2>3, <3>5
      <4> QED
        BY <3>2, <3>4, <4>1
    <3>6. CASE k = Height(u) /\ ~NestWrite(t)
      <4>1. Height(t)' >= Height(t) /\ InUseTxn(stack'[t][Height(t)])
        BY <1>0, <2>3, <3>1, <3>2, <3>3, <3>6, StaysInUse
      <4>2. Height(t) \in 1 .. Height(t)'
        BY <1>0, <2>3, <3>3, <4>1, HeightAfter
      <4> QED
        BY <2>3, <4>1, <4>2
    <3>7. CASE k = Height(u) /\ NestWrite(t)
      <4>1. Top(u).at = "nestWrite" /\ depth >= 2
        BY <1>0, <2>3, <3>3, <3>7 DEF NestWrite, DepthCurrent
      <4>2. PICK q \in Where(Threads, TxnsAt(Counted)) : q # <<u, Height(u)>>
        BY <4>1, AnotherOne DEF DepthExact, HowMany
      <4>3. PICK v \in Threads, j \in Nat : q = <<v, j>>
        BY DEF Where
      <4>4. j \in 1 .. Height(v) /\ stack[v][j].kind = "txn" /\ stack[v][j].at \in Counted
        BY <4>3 DEF Where, TxnsAt
      <4>5. v = u
        <5> SUFFICES ASSUME v \in Workers PROVE FALSE
          BY <1>0
        <5>1. Active(v)
          BY <4>4, TypedFacts
        <5> QED
          BY <4>1, <5>1 DEF Waits
      <4>6. j \in 1 .. Height(u) - 1 /\ InUseTxn(stack[u][j])
        BY <1>0, <2>3, <4>2, <4>3, <4>4, <4>5 DEF InUseTxn, InUse, Counted
      <4> QED
        BY <3>4, <4>6
    <3> QED
      BY <1>0, <2>3, <3>2, <3>5, <3>6, <3>7
  <2> QED
    BY <2>1, <2>2, <2>3
<1> QED
  BY <1>1, <1>2, <1>3 DEF ImplCurrent

-----------------------------------------------------------------------------
(* The posts.                                                              *)

LEMMA PostFlagKept ==
  ASSUME NEW u, Sequential(u), Typed, Waits(u), Layered, PostFlag, NEW t \in Threads, Step(t)
  PROVE  PostFlag'
<1> USE DEF InTxn, At
<1> DEFINE A == PostPlaces
           n == HowMany(Threads, TxnsAt(A))
<1>0. Height(t) \in Nat /\ (Active(t) => Height(t) > 0 /\ Top(t) = stack[t][Height(t)])
  BY TypedFacts
<1>1. Stacked'
  BY StackKept
<1>2. /\ "idle" \notin A /\ IsFiniteSet(Where(Threads, TxnsAt(A)))
      /\ n = Bit(processingPost) /\ processingPost \in BOOLEAN
  BY DEF PostPlaces, PostFlag, Typed, TypeOK
<1>3. IsFiniteSet(Where(Threads, TxnsAt(A))') /\ n \in Nat /\ n' \in Nat
  <2> HIDE DEF A
  <2> QED
    BY <1>1, <1>2, Traffic
<1>4. n' = Bit(processingPost')
  <2>1. CASE PostSet(t)
    <3>1. n' = n + 1
      BY <1>1, <1>2, <1>3, <2>1, Traffic DEF Passes, Bit, PostPlaces
    <3>2. processingPost' /\ Top(t).at = "postSet" /\ Active(t)
      BY <2>1 DEF PostSet
    <3>3. ~processingPost
      BY <1>0, <3>2 DEF PostFlag
    <3> QED
      BY <1>2, <3>1, <3>2, <3>3 DEF Bit
  <2>2. CASE PostsDone(t)
    <3>1. n' + 1 = n
      BY <1>1, <1>2, <1>3, <2>2, Traffic DEF Passes, Bit, PostPlaces
    <3>2. ~processingPost'
      BY <2>2 DEF PostsDone
    <3> QED
      BY <1>2, <1>3, <3>1, <3>2 DEF Bit
  <2>3. CASE ~(PostSet(t) \/ PostsDone(t))
    <3>1. n' = n
      BY <1>1, <1>2, <1>3, <2>3, Traffic DEF Passes, Bit, PostPlaces, Step, Constructor, Body, Closing
    <3>2. processingPost' = processingPost
      BY <2>3, Changes
    <3> QED
      BY <1>2, <3>1, <3>2
  <2> QED
    BY <2>1, <2>2, <2>3
<1>5. ASSUME NEW v \in Threads, NEW k \in 1 .. Height(v)', stack'[v][k].at = "postSet"
      PROVE  ~processingPost'
  <2>1. CASE v # t /\ stack'[v] = stack[v] /\ k \in 1 .. Height(v)
    BY <1>5, <2>1, Alone
  <2>2. CASE stack'[v][k] = NewWorker(Top(t).impl)
    BY <1>5, <2>2 DEF NewWorker, Frame
  <2>3. CASE v = t /\ k \in 1 .. Height(t) - 1 /\ stack'[t][k] = stack[t][k]
    BY <1>0, <1>5, <2>3 DEF Layered
  <2>4. CASE v = t /\ k = Height(t) /\ Active(t)
    <3>1. PostTest(t) /\ ~processingPost
      BY <1>5, <2>4, HeightAfter, TopAfter DEF Onward
    <3>2. ~PostSet(t) /\ ~PostsDone(t)
      BY <3>1 DEF PostTest, PostSet, PostsDone
    <3> QED
      BY <3>1, <3>2, Changes
  <2>5. CASE v = t /\ k = Height(t) + 1
    <3>1. Height(t)' = Height(t) + 1
      BY <1>5, <2>5, HeightAfter
    <3>2. \/ stack'[v][k] = NewTxn \/ stack'[v][k] = NewHook
          \/ stack'[v][k] = NewHandler(Top(t).impl) \/ stack'[v][k] = NewAction
      BY <2>5, <3>1, Added
    <3> QED
      BY <1>5, <3>2 DEF NewTxn, NewHook, NewHandler, NewAction, Frame
  <2> QED
    BY <2>1, <2>2, <2>3, <2>4, <2>5, Outcome
<1> QED
  BY <1>3, <1>4, <1>5 DEF PostFlag

PendingPlaces == {"postTest", "postSet", "posts", "relock"}

\* A close() that is about to run the posts does so, or leaves them to the one
\* that it is inside of.
LEMMA StaysPending ==
  ASSUME NEW u, Sequential(u), Typed, Layered, PostFlag, Step(u), Active(u),
         Top(u).at \in PendingPlaces, postQ # <<>>
  PROVE  \E k \in 1 .. Height(u)' : stack'[u][k].at \in PendingPlaces
<1> USE DEF InTxn, At, InUserCode
<1>0. /\ u \in Threads /\ u \notin Workers /\ Threads = {u} \cup Workers
      /\ Height(u) \in Nat /\ Height(u) > 0 /\ Top(u) = stack[u][Height(u)]
  BY ThreadsAre, TypedFacts
<1>1. ASSUME NEW at \in PendingPlaces, GoesOn(u, at)
      PROVE  \E k \in 1 .. Height(u)' : stack'[u][k].at \in PendingPlaces
  <2>1. Height(u)' = Height(u) /\ stack'[u][Height(u)].at = at
    BY <1>1 DEF GoesOn, Goes, Moves, Moved, Height
  <2> QED
    BY <1>0, <2>1
<1>2. CASE PostTest(u) /\ processingPost
  <2>1. HowMany(Threads, TxnsAt(PostPlaces)) = 1 /\ IsFiniteSet(Where(Threads, TxnsAt(PostPlaces)))
    BY <1>2 DEF PostFlag, Bit
  <2>2. PICK q \in Where(Threads, TxnsAt(PostPlaces)) : TRUE
    BY <2>1, FS_EmptySet DEF HowMany
  <2>3. PICK v \in Threads, j \in Nat : q = <<v, j>>
    BY DEF Where
  <2>4. j \in 1 .. Height(v) /\ stack[v][j].at \in PostPlaces
    BY <2>3 DEF Where, TxnsAt
  <2>5. v = u
    BY <1>0, <2>4 DEF Layered, Ending, PostPlaces
  <2>6. j # Height(u)
    BY <1>0, <1>2, <2>4, <2>5 DEF PostTest, PostPlaces
  <2>7. j \in 1 .. Height(u) - 1 /\ stack[u][j].at = "relock"
    BY <1>0, <2>4, <2>5, <2>6 DEF Layered, PostPlaces
  <2>8. j <= Height(u)' /\ stack'[u][j] = stack[u][j] /\ Height(u)' \in Nat
    BY <1>0, <2>7, BelowTop, HeightAfter
  <2> QED
    BY <2>3, <2>7, <2>8 DEF PendingPlaces
<1>3. CASE PostTest(u) /\ ~processingPost
  <2>1. GoesOn(u, "postSet")
    BY <1>0, <1>3, PostShapes
  <2> QED
    BY <1>1, <2>1 DEF PendingPlaces
<1>4. CASE PostSet(u) \/ Relock(u)
  <2>1. GoesOn(u, "posts")
    BY <1>0, <1>4, PostShapes
  <2> QED
    BY <1>1, <2>1 DEF PendingPlaces
<1>5. CASE RunPost(u)
  <2>1. Calls(u, Moved(Top(u), "relock", Top(u).impl, Top(u).reg), NewAction)
    BY <1>0, <1>5, PostShapes
  <2>2. Height(u)' = Height(u) + 1 /\ stack'[u][Height(u)].at = "relock"
    BY <2>1 DEF Calls, Moved, Height
  <2> QED
    BY <1>0, <2>2 DEF PendingPlaces
<1>6. ~NoMorePosts(u)
  BY DEF NoMorePosts
<1>7. ~Constructor(u)
  BY <1>0 DEF PendingPlaces, Constructor, EnterNested, EnterFresh, CallHook, HooksDone, Make,
              IncRead, IncWrite
<1>8. ~Body(u) /\ ~Start(u) /\ ~HandlerReturns(u)
  BY <1>0 DEF PendingPlaces, Body, Open, Send, OnStart, WantPost, Post, CodeReturns, Start,
              HandlerReturns
<1>9. /\ ~Close(u) /\ ~StartDrain(u) /\ ~Join(u) /\ ~DecRead(u) /\ ~DecWrite(u)
      /\ ~CloseNested(u) /\ ~NestRead(u) /\ ~NestWrite(u) /\ ~PostsDone(u) /\ ~Unlock(u)
  BY <1>0 DEF PendingPlaces, Close, StartDrain, Join, DecRead, DecWrite, CloseNested, NestRead,
              NestWrite, PostsDone, Unlock
<1> QED
  BY <1>2, <1>3, <1>4, <1>5, <1>6, <1>7, <1>8, <1>9 DEF Step, Closing

LEMMA PostPendingKept ==
  ASSUME NEW u, Sequential(u), Typed, Waits(u), Layered, DepthExact, DepthCurrent, PostFlag,
         PostPending(u), NEW t \in Threads, Step(t)
  PROVE  PostPending(u)'
<1> USE DEF InTxn, At
<1> SUFFICES ASSUME postQ' # <<>>
             PROVE  depth' > 0 \/ \E k \in 1 .. Height(u)' : stack'[u][k].at \in PendingPlaces
  BY DEF PostPending, PendingPlaces
<1>0. /\ u \in Threads /\ u \notin Workers /\ Threads = {u} \cup Workers
      /\ Height(t) \in Nat
      /\ Active(t) => /\ Height(t) > 0 /\ Top(t) = stack[t][Height(t)]
                     /\ Height(t) \in 1 .. Height(t)
      /\ depth \in Nat
  BY ThreadsAre, TypedFacts, FS_CardinalityType DEF DepthExact, HowMany
<1>1. CASE Post(t)
  <2>1. Active(t) /\ Top(t).at = "post" /\ Top(t).kind \in {"txn", "handler"}
    BY <1>0, <1>1, TypedFacts DEF Post, Sound
  <2>2. depth >= 1
    <3>1. CASE Top(t).kind = "txn"
      BY <1>0, <2>1, <3>1, CountedFrame DEF Counted
    <3>2. CASE Top(t).kind = "handler"
      <4>1. InTxn(u, "join")
        BY <1>0, <2>1, <3>2 DEF Layered, Waits
      <4>2. Height(u) \in 1 .. Height(u) /\ Top(u) = stack[u][Height(u)]
        BY <1>0, <4>1, TypedFacts
      <4> QED
        BY <1>0, <4>1, <4>2, CountedFrame DEF Counted
    <3> QED
      BY <2>1, <3>1, <3>2
  <2>3. depth' = depth
    BY <1>1 DEF Post
  <2> QED
    BY <1>0, <2>2, <2>3
<1>2. CASE RunPost(t)
  <2>1. t = u
    BY <1>0, <1>2 DEF RunPost, Layered, Ending
  <2>2. Active(u) /\ Top(u).at \in PendingPlaces /\ postQ # <<>>
    BY <1>2, <2>1 DEF RunPost, PendingPlaces
  <2> QED
    BY <2>1, <2>2, StaysPending
<1>3. CASE ~Post(t) /\ ~RunPost(t)
  <2>1. postQ # <<>>
    BY <1>3, Changes
  <2>2. CASE depth > 0
    <3>1. CASE IncWrite(t)
      <4>1. Top(t).reg = depth /\ depth' = Top(t).reg + 1
        BY <1>0, <3>1 DEF IncWrite, DepthCurrent
      <4> QED
        BY <1>0, <4>1
    <3>2. CASE DecWrite(t)
      <4>1. t = u /\ Active(u)
        BY <1>0, <3>2 DEF DecWrite, Layered, Ending
      <4>2. GoesOn(u, "postTest")
        BY <3>2, <4>1, ClosingShapes
      <4>3. Height(u)' = Height(u) /\ stack'[u][Height(u)].at = "postTest"
        BY <4>2 DEF GoesOn, Goes, Moves, Moved, Height
      <4> QED
        BY <1>0, <4>1, <4>3 DEF PendingPlaces
    <3>3. CASE NestWrite(t)
      <4>1. Top(t).reg = depth /\ depth >= 2 /\ depth' = Top(t).reg - 1
        BY <1>0, <3>3 DEF NestWrite, DepthCurrent
      <4> QED
        BY <1>0, <4>1
    <3> QED
      BY <2>2, <3>1, <3>2, <3>3, Changes
  <2>3. CASE \E k \in 1 .. Height(u) : stack[u][k].at \in PendingPlaces
    <3>1. PICK k \in 1 .. Height(u) : stack[u][k].at \in PendingPlaces
      BY <2>3
    <3>2. CASE t # u
      <4>1. stack'[u] = stack[u]
        BY <1>0, <3>2, Elsewhere DEF Crew
      <4> QED
        BY <3>1, <4>1 DEF Height
    <3>3. CASE t = u /\ k = Height(u)
      BY <1>0, <2>1, <3>1, <3>3, TypedFacts, StaysPending
    <3>4. CASE t = u /\ k # Height(u)
      <4>1. k \in 1 .. Height(u) - 1 /\ Active(u)
        BY <1>0, <3>1, <3>4, TypedFacts
      <4>2. k <= Height(u)' /\ stack'[u][k] = stack[u][k] /\ Height(u)' \in Nat
        BY <1>0, <3>4, <4>1, BelowTop, HeightAfter
      <4> QED
        BY <3>1, <4>2
    <3> QED
      BY <3>2, <3>3, <3>4
  <2> QED
    BY <2>1, <2>2, <2>3 DEF PostPending, PendingPlaces
<1> QED
  BY <1>1, <1>2, <1>3

-----------------------------------------------------------------------------
(* The queues.                                                             *)

\* Where the step that takes an entry, or pushes one, happens.
LEMMA Senders ==
  ASSUME NEW u, Sequential(u), ~CallbackSends, Typed, Waits(u), Layered, ImplShared,
         NEW t \in Threads, Send(t)
  PROVE  Top(t).impl = tls[u] /\ Top(t).impl \in Impls /\ Active(u) /\ Top(u).at \in {"open", "join"}
<1> USE DEF InTxn, At, InUserCode
<1>0. /\ u \in Threads /\ u \notin Workers /\ Threads = {u} \cup Workers
      /\ Height(t) \in Nat /\ Active(t) /\ Top(t).at = "open" /\ Top(t).kind \in {"txn", "handler"}
      /\ Height(t) > 0 /\ Top(t) = stack[t][Height(t)] /\ Height(t) \in 1 .. Height(t)
  BY ThreadsAre, TypedFacts DEF Send
<1>1. Top(t).impl # NoImpl /\ Top(t).impl \in Impls
  BY <1>0, TypedFacts DEF Sound, HasImpl, Frames
<1>2. CASE Top(t).kind = "txn"
  <2>1. t = u
    BY <1>0, <1>2 DEF Send
  <2> QED
    BY <1>0, <1>1, <1>2, <2>1 DEF ImplShared, InUseTxn, InUse
<1>3. CASE Top(t).kind = "handler"
  <2>1. t \in Workers /\ Top(t).impl = stack[t][1].impl
    BY <1>0, <1>3 DEF Layered
  <2>2. InTxn(u, "join") /\ stack[t][1].impl = Top(u).impl
    BY <1>0, <2>1 DEF Waits
  <2>3. Top(u).impl = tls[u]
    <3>1. Height(u) \in 1 .. Height(u) /\ Top(u) = stack[u][Height(u)]
      BY <1>0, <2>2, TypedFacts
    <3> QED
      BY <1>0, <2>2, <3>1 DEF ImplShared, InUseTxn, InUse
  <2> QED
    BY <1>1, <2>1, <2>2, <2>3
<1> QED
  BY <1>0, <1>2, <1>3

\* While u's impl has entries it stays u's, and u does not get past the join.
LEMMA QueuesKept ==
  ASSUME NEW u, Sequential(u), ~CallbackSends, Typed, Waits(u), Layered, ImplShared,
         ImplCurrent(u), Drains(u), NEW t \in Threads, Step(t), NEW i \in Impls, queue'[i] # <<>>
  PROVE  /\ i = tls'[u]
         /\ \A k \in 1 .. Height(u)' : stack'[u][k].at \notin {"decRead", "decWrite"}
<1> USE DEF InTxn, At
<1>0. /\ u \in Threads /\ u \notin Workers /\ Threads = {u} \cup Workers
      /\ Height(t) \in Nat /\ Height(u) \in Nat
      /\ Active(t) => /\ Height(t) > 0 /\ Top(t) = stack[t][Height(t)]
                     /\ Height(t) \in 1 .. Height(t)
      /\ queue \in [Impls -> Seq(Entries)]
  <2>1. queue \in [Impls -> Seq(Entries)]
    BY DEF Typed, TypeOK
  <2> QED
    BY <2>1, ThreadsAre, TypedFacts
<1>1. CASE Send(t)
  <2>1. Top(t).impl = tls[u] /\ Active(u) /\ Top(u).at \in {"open", "join"}
    BY <1>1, Senders
  <2>2. stack' = stack /\ tls' = tls
    BY <1>1 DEF Send
  <2>3. i = Top(t).impl \/ queue[i] # <<>>
    BY <1>0, <1>1 DEF Send
  <2>4. i = tls[u]
    BY <2>1, <2>3 DEF Drains
  <2>5. ASSUME NEW k \in 1 .. Height(u) PROVE stack[u][k].at \notin {"decRead", "decWrite"}
    <3>1. Top(u) = stack[u][Height(u)]
      BY <1>0, <2>1, TypedFacts
    <3>2. k = Height(u) \/ k < Height(u)
      BY <1>0
    <3> QED
      BY <1>0, <2>1, <3>1, <3>2 DEF Layered
  <2> QED
    BY <2>2, <2>4, <2>5 DEF Height
<1>2. CASE ~Send(t)
  <2>1. queue[i] # <<>>
    BY <1>0, <1>2, Changes DEF Start
  <2>2. i = tls[u] /\ \A k \in 1 .. Height(u) : stack[u][k].at \notin {"decRead", "decWrite"}
    BY <2>1 DEF Drains
  <2>3. CASE t # u
    <3>1. stack'[u] = stack[u] /\ tls'[u] = tls[u]
      BY <1>0, <2>3, Elsewhere, CurrentAfter DEF Crew
    <3> QED
      BY <2>2, <3>1 DEF Height
  <2>4. CASE t = u
    <3>1. ~Make(t)
      <4> SUFFICES ASSUME Make(t) PROVE FALSE
        OBVIOUS
      <4>1. PICK k \in 1 .. Height(u) : InUseTxn(stack[u][k])
        BY <2>2 DEF ImplCurrent, Impls, NoImpl
      <4>2. Active(u) /\ Top(u).at = "make"
        BY <2>4 DEF Make
      <4>3. k # Height(u)
        BY <1>0, <2>4, <4>1, <4>2 DEF InUseTxn, InUse
      <4>4. k \in 1 .. Height(u) - 1
        BY <1>0, <4>1, <4>3
      <4> QED
        BY <1>0, <2>4, <4>1, <4>2, <4>4 DEF ImplShared, Lone
    <3>2. ~DecWrite(t)
      BY <1>0, <2>2, <2>4 DEF DecWrite
    <3>3. ~Join(t)
      <4> SUFFICES ASSUME Join(t) PROVE FALSE
        OBVIOUS
      <4>1. Active(u) /\ Top(u).kind = "txn" /\ Top(u).at = "join" /\ queue[Top(u).impl] = <<>>
        BY <2>4 DEF Join
      <4>2. Top(u).impl = tls[u]
        BY <1>0, <2>4, <4>1 DEF ImplShared, InUseTxn, InUse
      <4> QED
        BY <2>1, <2>2, <4>1, <4>2
    <3>4. tls'[u] = tls[u]
      BY <2>4, <3>1, <3>2, <3>3, CurrentAfter
    <3>5. ASSUME NEW k \in 1 .. Height(u)', stack'[u][k].at \in {"decRead", "decWrite"}
          PROVE  FALSE
      <4>1. CASE k \in 1 .. Height(t) - 1 /\ stack'[t][k] = stack[t][k]
        BY <1>0, <2>2, <2>4, <3>5, <4>1
      <4>2. CASE k = Height(t) /\ Active(t)
        <5>1. Top(t).at = "decRead" \/ Join(t)
          BY <2>4, <3>5, <4>2, HeightAfter, TopAfter DEF Onward
        <5> QED
          BY <1>0, <2>2, <2>4, <3>3, <4>2, <5>1
      <4>3. CASE k = Height(t) + 1
        <5>1. Height(t)' = Height(t) + 1
          BY <2>4, <3>5, <4>3, HeightAfter
        <5>2. \/ stack'[u][k] = NewTxn \/ stack'[u][k] = NewHook
              \/ stack'[u][k] = NewHandler(Top(t).impl) \/ stack'[u][k] = NewAction
          BY <2>4, <4>3, <5>1, Added
        <5> QED
          BY <3>5, <5>2 DEF NewTxn, NewHook, NewHandler, NewAction, Frame
      <4> QED
        BY <1>0, <2>4, <4>1, <4>2, <4>3, Outcome
    <3> QED
      BY <2>2, <3>4, <3>5
  <2> QED
    BY <2>3, <2>4
<1> QED
  BY <1>1, <1>2

\* A handler that has started goes on until it returns.
LEMMA HandlesKept ==
  ASSUME NEW u, Sequential(u), Typed, Layered, NEW t \in Threads, Step(t),
         NEW w \in Workers, NEW e, Handles(w, e)
  PROVE  Handles(w, e)' \/ e \in processed'
<1> USE DEF InTxn, At
<1>0. /\ w \in Threads /\ Height(w) \in Nat /\ Height(w) > 1 /\ 2 \in 1 .. Height(w)
      /\ Active(w) /\ Top(w) = stack[w][Height(w)]
      /\ stack[w][2].kind = "handler" /\ stack[w][2].item = e
  <2>1. w \in Threads /\ Height(w) > 1
    BY DEF Threads, Handles
  <2>2. Height(w) \in Nat /\ Active(w) /\ Top(w) = stack[w][Height(w)]
    BY <2>1, TypedFacts
  <2> QED
    BY <2>1, <2>2 DEF Handles
<1>1. CASE w # t
  <2>1. stack'[w] = stack[w]
    <3>1. ~(Join(t) /\ w \in Crew(Top(t).impl))
      BY <1>0 DEF Join, Height
    <3> QED
      BY <1>0, <1>1, <3>1, Elsewhere
  <2> QED
    BY <2>1 DEF Handles, Height
<1>2. CASE w = t /\ Height(w) > 2
  <2>1. 2 \in 1 .. Height(w) - 1
    BY <1>0, <1>2
  <2>2. 2 <= Height(w)' /\ stack'[w][2] = stack[w][2] /\ Height(w)' \in Nat
    BY <1>0, <1>2, <2>1, BelowTop, HeightAfter
  <2> QED
    BY <1>0, <2>2 DEF Handles
<1>3. CASE w = t /\ Height(w) = 2 /\ Height(w)' >= 2
  <2>1. Onward(t)
    BY <1>0, <1>3, TopAfter
  <2>2. stack'[w][2].kind = Top(w).kind /\ stack'[w][2].item = Top(w).item
    BY <1>3, <2>1 DEF Onward
  <2>3. Height(w)' > 1
    BY <1>0, <1>3, HeightAfter
  <2> QED
    BY <1>0, <1>3, <2>2, <2>3 DEF Handles
<1>4. CASE w = t /\ Height(w) = 2 /\ ~(Height(w)' >= 2)
  <2>1. Top(t).kind = "handler" /\ Top(t).item = e
    BY <1>0, <1>4
  <2>2. ~(\E at, i, reg : Goes(t, at, i, reg)) /\ ~(\E at : GoesOn(t, at) \/ Reads(t, at))
        /\ ~(\E f, g : Calls(t, f, g)) /\ ~(\E g : Pushes(t, g))
        /\ ~(\E at, crew, s : Splits(t, at, crew, s)) /\ stack' # stack
    BY <1>0, <1>4 DEF Goes, GoesOn, Reads, Moves, Calls, Pushes, Splits, Height
  <2>3. ~Constructor(t)
    BY <2>2, ConstructorShapes DEF Constructor
  <2>4. ~Body(t) /\ ~Start(t)
    BY <2>1, <2>2, BodyShapes DEF Body, CodeReturns
  <2>5. ~NestWrite(t) /\ ~Unlock(t)
    BY <2>1 DEF NestWrite, Unlock
  <2>6. ~Closing(t)
    BY <2>2, <2>5, ClosingShapes, PostShapes DEF Closing
  <2>7. HandlerReturns(t)
    BY <2>3, <2>4, <2>6 DEF Step
  <2> QED
    BY <2>1, <2>7 DEF HandlerReturns
<1> QED
  BY <1>0, <1>1, <1>2, <1>3, <1>4

\* What was sent is in the queue of its impl, in a handler, or processed.
LEMMA SentKept ==
  ASSUME NEW u, Sequential(u), ~CallbackSends, Typed, Waits(u), Layered, ImplShared,
         Drains(u), NEW t \in Threads, Step(t), NEW e \in Entries, sent'[e] # NoImpl
  PROVE  \/ e \in processed'
         \/ \E k \in 1 .. Len(queue'[sent'[e]]) : queue'[sent'[e]][k] = e
         \/ \E w \in Workers : Handles(w, e)'
<1> USE DEF InTxn, At, InUserCode
<1> DEFINE Queued(i) == \E k \in 1 .. Len(queue[i]) : queue[i][k] = e
<1>0. /\ queue \in [Impls -> Seq(Entries)] /\ sent \in [Entries -> Impls \cup {NoImpl}]
      /\ \A i \in Impls : queue[i] \in Seq(Entries) /\ Len(queue[i]) \in Nat
  BY LenProperties DEF Typed, TypeOK
<1>1. processed \subseteq processed'
  BY Changes DEF HandlerReturns
<1>2. CASE Send(t)
  <2>1. PICK e0 \in Entries : /\ sent[e0] = NoImpl
                              /\ sent' = [sent EXCEPT ![e0] = Top(t).impl]
                              /\ queue' = [queue EXCEPT ![Top(t).impl] = Append(@, e0)]
    BY <1>2 DEF Send
  <2>2. Top(t).impl \in Impls
    BY <1>2, Senders
  <2>3. CASE e = e0
    <3>1. sent'[e] = Top(t).impl /\ queue'[Top(t).impl] = Append(queue[Top(t).impl], e)
      BY <1>0, <2>1, <2>2, <2>3
    <3>2. Len(Append(queue[Top(t).impl], e)) = Len(queue[Top(t).impl]) + 1
          /\ Append(queue[Top(t).impl], e)[Len(queue[Top(t).impl]) + 1] = e
      BY <1>0, <2>2, AppendProperties
    <3> QED
      BY <1>0, <2>2, <3>1, <3>2
  <2>4. CASE e # e0
    <3>1. sent'[e] = sent[e] /\ sent[e] \in Impls
      BY <1>0, <2>1, <2>4
    <3>2. Queued(sent[e]) => \E k \in 1 .. Len(queue'[sent[e]]) : queue'[sent[e]][k] = e
      <4> SUFFICES ASSUME NEW k \in 1 .. Len(queue[sent[e]]), queue[sent[e]][k] = e
                   PROVE  k \in 1 .. Len(queue'[sent[e]]) /\ queue'[sent[e]][k] = e
        OBVIOUS
      <4>1. CASE sent[e] = Top(t).impl
        <5>1. queue'[sent[e]] = Append(queue[sent[e]], e0)
          BY <1>0, <2>1, <2>2, <4>1
        <5>2. Len(Append(queue[sent[e]], e0)) = Len(queue[sent[e]]) + 1
              /\ Append(queue[sent[e]], e0)[k] = queue[sent[e]][k]
          BY <1>0, <3>1, AppendProperties
        <5> QED
          BY <1>0, <3>1, <5>1, <5>2
      <4>2. CASE sent[e] # Top(t).impl
        BY <1>0, <2>1, <3>1, <4>2
      <4> QED
        BY <4>1, <4>2
    <3>3. stack' = stack
      BY <1>2 DEF Send
    <3>4. \A w \in Workers : Handles(w, e) => Handles(w, e)'
      BY <3>3 DEF Handles, Height
    <3> QED
      BY <1>1, <3>1, <3>2, <3>4 DEF Drains
  <2> QED
    BY <2>3, <2>4
<1>3. CASE ~Send(t)
  <2>1. sent' = sent /\ sent[e] \in Impls
    BY <1>0, <1>3, Changes
  <2>2. CASE e \in processed
    BY <1>1, <2>2
  <2>3. CASE \E w \in Workers : Handles(w, e)
    BY <2>3, HandlesKept
  <2>4. CASE Queued(sent[e]) /\ ~Start(t)
    <3>1. queue' = queue
      BY <1>3, <2>4, Changes
    <3> QED
      BY <2>1, <2>4, <3>1
  <2>5. CASE Queued(sent[e]) /\ Start(t)
    <3>1. PICK k \in 1 .. Len(queue[sent[e]]) : queue[sent[e]][k] = e
      BY <2>5
    <3>2. CASE sent[e] # Top(t).impl
      <4>1. queue'[sent[e]] = queue[sent[e]]
        BY <1>0, <2>1, <2>5, <3>2 DEF Start
      <4> QED
        BY <2>1, <3>1, <4>1
    <3>3. CASE sent[e] = Top(t).impl
      <4> DEFINE q == queue[sent[e]]
      <4>1. q # <<>> /\ q \in Seq(Entries) /\ queue'[sent[e]] = Tail(q)
        BY <1>0, <2>1, <2>5, <3>3 DEF Start
      <4>2. Head(q) = q[1] /\ Len(Tail(q)) = Len(q) - 1
            /\ \A j \in 1 .. Len(Tail(q)) : Tail(q)[j] = q[j + 1]
        BY <4>1, HeadTailProperties
      <4>3. CASE k = 1
        <5>1. t \in Workers /\ Height(t) = 1
          BY <2>5, TypedFacts DEF Start, Layered
        <5>2. Height(t)' = 2 /\ stack'[t][2] = NewHandler(Top(t).impl)
          <6>1. Pushes(t, NewHandler(Top(t).impl))
            BY <2>5, BodyShapes
          <6>2. Height(t) + 1 = 2
            BY <5>1
          <6> QED
            BY <6>1, <6>2 DEF Pushes, Height
        <5> QED
          BY <3>1, <3>3, <4>2, <4>3, <5>1, <5>2 DEF Handles, NewHandler, Frame
      <4>4. CASE k # 1
        <5>1. k - 1 \in 1 .. Len(Tail(q)) /\ Tail(q)[k - 1] = e
          <6>1. k \in Nat /\ Len(q) \in Nat /\ k <= Len(q) /\ k >= 1 /\ q[k] = e
            BY <1>0, <2>1, <3>1
          <6>2. k - 1 \in 1 .. Len(Tail(q)) /\ (k - 1) + 1 = k
            BY <4>2, <4>4, <6>1
          <6> QED
            BY <4>2, <6>1, <6>2
        <5> QED
          BY <2>1, <4>1, <5>1
      <4> QED
        BY <4>3, <4>4
    <3> QED
      BY <3>2, <3>3
  <2> QED
    BY <2>1, <2>2, <2>3, <2>4, <2>5 DEF Drains
<1> QED
  BY <1>2, <1>3

LEMMA DrainsKept ==
  ASSUME NEW u, Sequential(u), ~CallbackSends, Typed, Waits(u), Layered, ImplShared,
         ImplCurrent(u), Drains(u), NEW t \in Threads, Step(t)
  PROVE  Drains(u)'
BY QueuesKept, SentKept DEF Drains

-----------------------------------------------------------------------------
(* The theorems.                                                           *)

\* The partition's bookkeeping, where one user thread uses it.
Orderly(u) ==
  /\ Waits(u) /\ Layered
  /\ DepthExact /\ DepthCurrent
  /\ ImplShared /\ ImplCurrent(u)
  /\ PostFlag /\ PostPending(u)

LEMMA OrderlyInit ==
  ASSUME NEW u, Sequential(u), Init
  PROVE  Orderly(u) /\ Drains(u)
<1>1. \A t \in Threads : Height(t) = 0 /\ ~Active(t)
  BY DEF Init, Height, Active
<1>2. \A X : Where(Threads, X) = {}
  BY <1>1 DEF Where
<1>3. u \in Threads /\ Workers \subseteq Threads
  BY ThreadsAre
<1>4. Waits(u) /\ Layered /\ DepthCurrent /\ ImplShared
  BY <1>1, <1>3 DEF Waits, Layered, DepthCurrent, ImplShared
<1>5. DepthExact /\ PostFlag /\ PostPending(u)
  BY <1>1, <1>2, FS_EmptySet DEF Init, DepthExact, PostFlag, PostPending, HowMany, Bit
<1>6. ImplCurrent(u)
  BY <1>3 DEF Init, ImplCurrent
<1>7. Drains(u)
  BY DEF Init, Drains
<1> QED
  BY <1>4, <1>5, <1>6, <1>7 DEF Orderly

LEMMA OrderlyKept ==
  ASSUME NEW u, Sequential(u)
  PROVE  Typed /\ Orderly(u) /\ [Next]_vars => Orderly(u)'
<1> SUFFICES ASSUME Typed, Orderly(u), [Next]_vars PROVE Orderly(u)'
  OBVIOUS
<1>1. CASE UNCHANGED vars
  <2>1. UNCHANGED <<stack, tls, depth, postQ, processingPost, freed>>
    BY <1>1 DEF vars
  <2>2. Waits(u)'
    BY <2>1 DEF Orderly, Waits, Active, Top, InTxn, At
  <2>3. Layered' /\ DepthCurrent' /\ ImplShared'
    BY <2>1 DEF Orderly, Layered, DepthCurrent, ImplShared, Height, InUseTxn
  <2>4. DepthExact' /\ PostFlag'
    BY <2>1 DEF Orderly, DepthExact, PostFlag, HowMany, Where, Height
  <2>5. ImplCurrent(u)' /\ PostPending(u)'
    BY <2>1 DEF Orderly, ImplCurrent, PostPending, Active, Height, InUseTxn
  <2> QED
    BY <2>2, <2>3, <2>4, <2>5 DEF Orderly
<1>2. ASSUME NEW t \in Threads, Step(t) PROVE Orderly(u)'
  BY <1>2, WaitsKept, LayeredKept, DepthExactKept, DepthCurrentKept, ImplSharedKept,
     ImplCurrentKept, PostFlagKept, PostPendingKept DEF Orderly
<1> QED
  BY <1>1, <1>2 DEF Next, Resting

LEMMA OrderlyAlways ==
  ASSUME NEW u, Sequential(u)
  PROVE  Spec => []Orderly(u)
<1>1. Init => Orderly(u)
  BY OrderlyInit
<1>2. Typed /\ Orderly(u) /\ [Next]_vars => Orderly(u)'
  BY OrderlyKept
<1> QED
  BY <1>1, <1>2, TypedAlways, PTL DEF Spec

\* Where one user thread opens transactions, and handlers open some only if one
\* worker runs them, no transaction object and no thread's current transaction
\* refers to an impl that a close() has deleted (transaction.cpp:482-487, 431-432).
THEOREM ImplsOutliveUse ==
  ASSUME NEW u, Sequential(u)
  PROVE  Spec => []NoDanglingImpl
<1>1. Typed /\ Orderly(u) => NoDanglingImpl
  <2> SUFFICES ASSUME Typed, Orderly(u), NEW t \in Threads
               PROVE  /\ tls[t] \notin freed
                      /\ \A f \in FramesOf(t) : InUseTxn(f) => f.impl \notin freed
    BY DEF NoDanglingImpl, InUseTxn
  <2>1. tls[t] \notin freed
    BY DEF Orderly, ImplCurrent
  <2>2. DOMAIN stack[t] = 1 .. Height(t)
    BY TypedFacts, LenProperties DEF Stacked, Height
  <2>3. \A f \in FramesOf(t) : \E k \in 1 .. Height(t) : f = stack[t][k]
    BY <2>2 DEF FramesOf, Range
  <2> QED
    BY <2>1, <2>3 DEF Orderly, ImplShared
<1> QED
  BY <1>1, OrderlyAlways, TypedAlways, PTL

\* There a posted action starts only when no transaction object of any thread is
\* open: what runs after a transaction never runs inside one
\* (transaction.cpp:342-346, 480, 502).
THEOREM PostsRunOutside ==
  ASSUME NEW u, Sequential(u)
  PROVE  Spec => PostsOutsideTransactions
<1>1. Typed /\ Orderly(u) /\ [Next]_vars =>
        [ran' # ran =>
           \A t \in Threads : \A f \in FramesOf(t) : ~(f.kind = "txn" /\ f.at \in InUse)]_vars
  <2> SUFFICES ASSUME Typed, Orderly(u), Next, ran' # ran,
                      NEW v \in Threads, NEW f \in FramesOf(v), InUseTxn(f)
               PROVE  FALSE
    BY DEF InUseTxn
  <2> USE DEF InTxn, At
  <2>1. PICK t \in Threads : RunPost(t)
    BY Changes DEF Next, Resting, vars
  <2>2. Active(t) /\ Top(t).at = "posts" /\ Height(t) \in 1 .. Height(t) /\ Top(t) = stack[t][Height(t)]
    BY <2>1, TypedFacts DEF RunPost
  <2>3. t = u /\ Threads = {u} \cup Workers
    BY <2>2, ThreadsAre DEF Orderly, Layered, Ending
  <2>4. PICK k \in 1 .. Height(v) : f = stack[v][k]
    <3>1. DOMAIN stack[v] = 1 .. Height(v)
      BY TypedFacts, LenProperties DEF Stacked, Height
    <3> QED
      BY <3>1 DEF FramesOf, Range
  <2>5. CASE v # u
    <3>1. v \in Workers /\ Active(v)
      BY <2>3, <2>4, <2>5, TypedFacts
    <3> QED
      BY <2>2, <2>3, <3>1 DEF Orderly, Waits
  <2>6. CASE v = u
    <3>1. k # Height(u)
      BY <2>2, <2>3, <2>4, <2>6 DEF InUseTxn, InUse
    <3>2. k \in 1 .. Height(u) - 1
      BY <2>2, <2>4, <2>6, <3>1, TypedFacts
    <3> QED
      BY <2>2, <2>3, <2>4, <2>6, <3>2 DEF Orderly, ImplShared, Lone
  <2> QED
    BY <2>5, <2>6
<1> QED
  BY <1>1, OrderlyAlways, TypedAlways, PTL DEF Spec, PostsOutsideTransactions

\* There posts run one at a time: an action that opens and closes transactions
\* does not start the next one from inside them (transaction.cpp:143-145).
THEOREM PostsRunAlone ==
  ASSUME NEW u, Sequential(u)
  PROVE  Spec => []PostRunnerExclusive
<1>1. Typed /\ Orderly(u) => PostRunnerExclusive
  <2> SUFFICES ASSUME Typed, Orderly(u) PROVE PostRunnerExclusive
    OBVIOUS
  <2>1. FramesAt(PostPlaces) = Where(Threads, TxnsAt(PostPlaces))
    BY FramesAtWhere DEF PostPlaces
  <2> QED
    BY <2>1 DEF Orderly, PostFlag, HowMany, Bit, PostRunnerExclusive, PostPlaces
<1> QED
  BY <1>1, OrderlyAlways, TypedAlways, PTL

\* There, if handlers do not send inside transactions of their own, the partition
\* is as it was built whenever no thread is inside the library: all that was sent
\* is processed, and nothing is left to run, to unlock or to count
\* (transaction.cpp:455-508).
THEOREM ComesToRest ==
  ASSUME NEW u, Sequential(u), ~CallbackSends
  PROVE  Spec => []RestState
<1>1. Init => Drains(u)
  BY OrderlyInit
<1>2. Typed /\ Orderly(u) /\ Drains(u) /\ [Next]_vars => Drains(u)'
  <2> SUFFICES ASSUME Typed, Orderly(u), Drains(u), [Next]_vars PROVE Drains(u)'
    OBVIOUS
  <2>1. CASE UNCHANGED vars
    BY <2>1 DEF vars, Drains, Handles, Height
  <2>2. ASSUME NEW t \in Threads, Step(t) PROVE Drains(u)'
    BY <2>2, DrainsKept DEF Orderly
  <2> QED
    BY <2>1, <2>2 DEF Next, Resting
<1>3. Typed /\ HookFlag /\ Held /\ Orderly(u) /\ Drains(u) => RestState
  <2> SUFFICES ASSUME Typed, HookFlag, Held, Orderly(u), Drains(u), AtRest
               PROVE  /\ depth = 0 /\ mx.owner = NoThread
                      /\ ~processingPost /\ postQ = <<>> /\ ~processingHooks
                      /\ \A t \in Threads : tls[t] = NoImpl
                      /\ AllSentProcessed
    BY DEF RestState
  <2>1. \A t \in Threads : Height(t) = 0 /\ ~Active(t)
    BY TypedFacts DEF AtRest
  <2>2. \A T, X : T \subseteq Threads => HowMany(T, X) = 0
    <3>1. \A T, X : T \subseteq Threads => Where(T, X) = {}
      BY <2>1 DEF Where
    <3> QED
      BY <3>1, FS_EmptySet DEF HowMany
  <2>3. u \in Threads /\ Threads = {u} \cup Workers
    BY ThreadsAre
  <2>4. depth = 0
    BY <2>2 DEF Orderly, DepthExact
  <2>5. mx.owner = NoThread
    <3>1. \A v \in Threads : mx.owner = v => mx.count <= 0
      BY <2>2 DEF Held
    <3> QED
      BY <3>1 DEF Typed, TypeOK
  <2>6. ~processingPost /\ postQ = <<>>
    <3>1. Bit(processingPost) = 0
      BY <2>2 DEF Orderly, PostFlag
    <3> QED
      BY <2>1, <2>3, <2>4, <3>1 DEF Orderly, PostPending, Bit
  <2>7. ~processingHooks
    BY <2>2 DEF HookFlag, Bit
  <2>8. \A t \in Threads : tls[t] = NoImpl
    BY <2>1, <2>3 DEF Orderly, ImplCurrent
  <2>9. AllSentProcessed
    <3> SUFFICES ASSUME NEW e \in Entries, sent[e] # NoImpl PROVE e \in processed
      BY DEF AllSentProcessed
    <3>1. sent[e] \in Impls /\ NoImpl \notin Impls
      BY DEF Typed, TypeOK, Impls, NoImpl
    <3>2. queue[sent[e]] = <<>>
      BY <2>3, <2>8, <3>1 DEF Drains
    <3>3. \A w \in Workers : ~Handles(w, e)
      BY <2>1, <2>3 DEF Handles
    <3> QED
      BY <3>2, <3>3 DEF Drains
  <2> QED
    BY <2>4, <2>5, <2>6, <2>7, <2>8, <2>9
<1> QED
  BY <1>1, <1>2, <1>3, TypedAlways, HookFlagAlways, HeldAlways, OrderlyAlways, PTL DEF Spec

=============================================================================
