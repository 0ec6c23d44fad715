---------------------------- MODULE Transaction -----------------------------
(***************************************************************************)
(* The partition and the life of transactions: transaction_::transaction_, *)
(* transaction_::close, partition::post, on_start and process_post, and    *)
(* transaction_impl::last (transaction.cpp).                               *)
(*                                                                         *)
(* A thread runs code that opens and closes transaction objects.  The      *)
(* nesting of that code is its stack of frames: a transaction object       *)
(* ("txn"), a handler that a worker runs ("handler"), an on_start hook     *)
(* ("hook"), a posted action ("action"), and the bottom of a worker        *)
(* thread ("worker").  A step is a step of the top frame of some stack.    *)
(* partition::depth and processing_post are plain fields read and written  *)
(* with no lock: each access is a step of its own.                         *)
(*                                                                         *)
(* Draining the queue of a transaction_impl is taken from TxnDrain, which  *)
(* WorkQueue implements: workers start its entries, handlers may add more, *)
(* and the thread that closes goes on when none is left.                   *)
(***************************************************************************)
EXTENDS Integers, Sequences, FiniteSets, Functions

CONSTANTS Users,          (* threads that open transactions                  *)
          Workers,        (* identities for worker threads                   *)
          NThreads,       (* partition::n_threads, workers per close()       *)
          Entries,        (* prioritized_entry objects                       *)
          Posts,          (* functions handed to post() or last()            *)
          Hooks,          (* functions handed to on_start()                  *)
          Nesting,        (* kinds of frame whose code opens transactions    *)
          CallbackSends,  (* do transactions opened by handlers send?        *)
          MaxOpens,       (* bound on the transaction objects opened         *)
          NoThread        (* owner of a free mutex                           *)

ASSUME ThreadsAssumption == Users \cap Workers = {} /\ NoThread \notin Users \cup Workers
ASSUME NThreadsAssumption == NThreads \in Nat \ {0}
ASSUME NestingAssumption == Nesting \subseteq {"txn", "handler", "hook", "action"}
ASSUME BoundAssumption == MaxOpens \in Nat

Threads == Users \cup Workers
Impls == 1 .. MaxOpens    (* transaction_impl objects, in order of creation  *)
NoImpl == 0               (* impl_ == NULL                                   *)

VARIABLES
  stack,                  (* the frames of each thread, the top one last     *)
  tls,                    (* thread_local global_current_transaction         *)
  depth,                  (* partition::depth                                *)
  mx,                     (* partition::mx: owner and recursion count        *)
  postQ,                  (* partition::postQ                                *)
  processingPost,         (* partition::processing_post                      *)
  hooks,                  (* partition::on_start_hooks                       *)
  processingHooks,        (* partition::processing_on_start_hooks            *)
  queue,                  (* transaction_impl::queue of each impl            *)
  opens,                  (* how many transaction objects were opened        *)
  made,                   (* how many transaction_impl objects were made     *)
  sent,                   (* history: the impl each entry was pushed to      *)
  processed,              (* history: entries whose handler returned         *)
  freed,                  (* history: the impls that close() deleted         *)
  posted,                 (* history: <<post, impl>> in the order of post()  *)
  ran                     (* history: posts in the order of their start      *)

vars == <<stack, tls, depth, mx, postQ, processingPost, hooks, processingHooks,
          queue, opens, made, sent, processed, freed, posted, ran>>

lockVars == <<mx, postQ, processingPost, hooks, processingHooks>>
history == <<sent, processed, freed, posted, ran>>

-----------------------------------------------------------------------------
(* Frames.                                                                 *)

\* at: where the code of the frame is; impl: its transaction_impl; reg: the
\* value of depth it has read, or its position in on_start_hooks; item: the
\* entry or post it runs.
Frame(kind, at, impl, item) ==
  [kind |-> kind, at |-> at, impl |-> impl, reg |-> 0, item |-> item]

Active(t) == stack[t] # <<>>
Top(t) == stack[t][Len(stack[t])]
At(t, kind, at) == Active(t) /\ Top(t).kind = kind /\ Top(t).at = at
InTxn(t, at) == At(t, "txn", at)

\* Code written by the user of the library: it may do anything the API allows.
InUserCode(t) == Active(t) /\ Top(t).at = "open"

Pop(t) == SubSeq(stack[t], 1, Len(stack[t]) - 1)
\* The frame of code that has gone on.
Moved(f, at, impl, reg) ==
  [kind |-> f.kind, at |-> at, impl |-> impl, reg |-> reg, item |-> f.item]
Renewed(t, f) == [stack EXCEPT ![t] = [@ EXCEPT ![Len(@)] = f]]

Goto(t, at) == Renewed(t, Moved(Top(t), at, Top(t).impl, Top(t).reg))
GotoWith(t, at, reg) == Renewed(t, Moved(Top(t), at, Top(t).impl, reg))
GotoImpl(t, at, i) == Renewed(t, Moved(Top(t), at, i, 1))
Call(t, at, frame) == [stack EXCEPT ![t] = Append(Goto(t, at)[t], frame)]
Return(t) == [stack EXCEPT ![t] = Pop(t)]

FramesOf(t) == Range(stack[t])
Handling(i) == {t \in Threads : \E f \in FramesOf(t) : f.kind = "handler" /\ f.impl = i}

\* The positions in the stacks that are at one of some places.
FramesAt(places) ==
  UNION {{<<t, k>> : k \in {j \in DOMAIN stack[t] : stack[t][j].at \in places}} : t \in Threads}

\* The threads started by the close() of impl i.
Crew(i) == {w \in Workers : Active(w) /\ stack[w][1].impl = i}

-----------------------------------------------------------------------------
(* partition::mx is recursive.  Unlocking it without owning it has no      *)
(* effect in the threads library that std::recursive_mutex is built on.    *)

CanLock(t) == mx.owner \in {t, NoThread}
Locked(t) == [owner |-> t, count |-> mx.count + 1]
\* Mutant of Unlocked: the last unlock leaves the owner.
UnlockedByCount(t) == [mx EXCEPT !.count = IF @ > 0 THEN @ - 1 ELSE @]

Unlocked(t) ==
  IF mx.owner # t THEN mx
  ELSE IF mx.count = 1 THEN [owner |-> NoThread, count |-> 0]
  ELSE [mx EXCEPT !.count = @ - 1]

-----------------------------------------------------------------------------

Kinds == {"txn", "handler", "hook", "action", "worker"}
Places == {"enter", "hooks", "make", "incRead", "incWrite", "open", "post",
           "test", "join", "decRead", "decWrite", "nestRead", "nestWrite",
           "postTest", "postSet", "posts", "postClear", "relock",
           "unlock", "idle"}
Items == Entries \cup Posts \cup {NoThread}
Frames == [kind : Kinds, at : Places, impl : Impls \cup {NoImpl}, reg : Int, item : Items]

TypeOK ==
  /\ stack \in [Threads -> Seq(Frames)]
  /\ tls \in [Threads -> Impls \cup {NoImpl}]
  /\ depth \in Int
  /\ mx \in [owner : Threads \cup {NoThread}, count : Nat]
  /\ mx.count = 0 <=> mx.owner = NoThread
  /\ postQ \in Seq(Posts)
  /\ processingPost \in BOOLEAN
  /\ hooks \in Seq(Hooks)
  /\ processingHooks \in BOOLEAN
  /\ queue \in [Impls -> Seq(Entries)]
  /\ opens \in 0 .. MaxOpens /\ made \in 0 .. opens
  /\ sent \in [Entries -> Impls \cup {NoImpl}]
  /\ processed \subseteq Entries
  /\ freed \subseteq 1 .. made
  /\ posted \in Seq(Posts \X (Impls \cup {NoImpl}))
  /\ ran \in Seq(Posts)

Init ==
  /\ stack = [t \in Threads |-> <<>>]
  /\ tls = [t \in Threads |-> NoImpl]
  /\ depth = 0
  /\ mx = [owner |-> NoThread, count |-> 0]
  /\ postQ = <<>>
  /\ processingPost = FALSE
  /\ hooks = <<>>
  /\ processingHooks = FALSE
  /\ queue = [i \in Impls |-> <<>>]
  /\ opens = 0
  /\ made = 0
  /\ sent = [e \in Entries |-> NoImpl]
  /\ processed = {}
  /\ freed = {}
  /\ posted = <<>>
  /\ ran = <<>>

-----------------------------------------------------------------------------
(* transaction_::transaction_().                                           *)

\* Some code declares a transaction object.
Open(t) ==
  /\ opens < MaxOpens
  /\ IF Active(t) THEN InUserCode(t) /\ Top(t).kind \in Nesting ELSE t \in Users
  /\ stack' = [stack EXCEPT ![t] = Append(@, Frame("txn", "enter", NoImpl, NoThread))]
  /\ opens' = opens + 1
  /\ UNCHANGED <<tls, depth, lockVars, queue, made, history>>

\* impl_ = current_transaction() is not NULL.
EnterNested(t) ==
  /\ InTxn(t, "enter")
  /\ tls[t] # NoImpl
  /\ stack' = GotoImpl(t, "incRead", tls[t])
  /\ UNCHANGED <<tls, depth, lockVars, queue, opens, made, history>>

\* Mutant of EnterFresh: the hooks run without a look at processing_on_start_hooks.
EnterHooksAgain(t) ==
  /\ InTxn(t, "enter")
  /\ tls[t] = NoImpl
  /\ CanLock(t)
  /\ mx' = Locked(t)
  /\ stack' = GotoImpl(t, "hooks", NoImpl)
  /\ processingHooks' = TRUE
  /\ UNCHANGED <<tls, depth, postQ, processingPost, hooks, queue, opens, made, history>>

\* It is NULL: take mx, and run the hooks unless somebody is running them.
EnterFresh(t) ==
  /\ InTxn(t, "enter")
  /\ tls[t] = NoImpl
  /\ CanLock(t)
  /\ mx' = Locked(t)
  /\ stack' = GotoImpl(t, IF processingHooks THEN "make" ELSE "hooks", NoImpl)
  /\ processingHooks' = TRUE
  /\ UNCHANGED <<tls, depth, postQ, processingPost, hooks, queue, opens, made, history>>

\* Mutant of CallHook: the loop does not advance.
CallHookAgain(t) ==
  /\ InTxn(t, "hooks")
  /\ Top(t).reg <= Len(hooks)
  /\ stack' = Call(t, "hooks", Frame("hook", "open", NoImpl, NoThread))
  /\ UNCHANGED <<tls, depth, lockVars, queue, opens, made, history>>

CallHook(t) ==
  /\ InTxn(t, "hooks")
  /\ Top(t).reg <= Len(hooks)
  /\ stack' = [stack EXCEPT ![t] =
       Append(GotoWith(t, "hooks", Top(t).reg + 1)[t], Frame("hook", "open", NoImpl, NoThread))]
  /\ UNCHANGED <<tls, depth, lockVars, queue, opens, made, history>>

HooksDone(t) ==
  /\ InTxn(t, "hooks")
  /\ Top(t).reg > Len(hooks)
  /\ processingHooks' = FALSE
  /\ stack' = Goto(t, "make")
  /\ UNCHANGED <<tls, depth, mx, postQ, processingPost, hooks, queue, opens, made, history>>

\* impl_ = new transaction_impl, and lk is destroyed.
Make(t) ==
  /\ InTxn(t, "make")
  /\ made' = made + 1
  /\ tls' = [tls EXCEPT ![t] = made + 1]
  /\ mx' = Unlocked(t)
  /\ stack' = GotoImpl(t, "incRead", made + 1)
  /\ UNCHANGED <<depth, postQ, processingPost, hooks, processingHooks, queue, opens, history>>

\* part->depth++.
IncRead(t) ==
  /\ InTxn(t, "incRead")
  /\ stack' = GotoWith(t, "incWrite", depth)
  /\ UNCHANGED <<tls, depth, lockVars, queue, opens, made, history>>

IncWrite(t) ==
  /\ InTxn(t, "incWrite")
  /\ depth' = Top(t).reg + 1
  /\ stack' = Goto(t, "open")
  /\ UNCHANGED <<tls, lockVars, queue, opens, made, history>>

-----------------------------------------------------------------------------
(* What the code inside a transaction, or a handler, does with it.         *)

\* send(): refused while inCallback of its transaction_impl is not 0.  The
\* propagation inside a handler goes on in the transaction_impl that runs it.
Send(t) ==
  /\ InUserCode(t)
  /\ \/ /\ Top(t).kind = "txn"
        /\ Handling(Top(t).impl) = {}
        /\ t \in Workers => CallbackSends
     \/ Top(t).kind = "handler"
  /\ \E e \in Entries :
       /\ sent[e] = NoImpl
       /\ sent' = [sent EXCEPT ![e] = Top(t).impl]
       /\ queue' = [queue EXCEPT ![Top(t).impl] = Append(@, e)]
  /\ UNCHANGED <<stack, tls, depth, lockVars, opens, made, processed, freed, posted, ran>>

\* on_start() inside an open transaction.
OnStart(t) ==
  /\ InUserCode(t)
  /\ Top(t).kind = "txn"
  /\ CanLock(t)
  /\ \E h \in Hooks \ Range(hooks) : hooks' = Append(hooks, h)
  /\ UNCHANGED <<stack, tls, depth, mx, postQ, processingPost, processingHooks,
                 queue, opens, made, history>>

\* The code reaches post(), or a last(), ...
WantPost(t) ==
  /\ InUserCode(t)
  /\ Top(t).kind \in {"txn", "handler"}
  /\ Len(posted) + Cardinality(FramesAt({"post"})) < Cardinality(Posts)
  /\ stack' = Goto(t, "post")
  /\ UNCHANGED <<tls, depth, lockVars, queue, opens, made, history>>

\* ... which takes mx for the push_back.
Post(t) ==
  /\ Active(t) /\ Top(t).at = "post"
  /\ CanLock(t)
  /\ \E p \in Posts \ {posted[k][1] : k \in DOMAIN posted} :
       /\ postQ' = Append(postQ, p)
       /\ posted' = Append(posted, <<p, Top(t).impl>>)
  /\ stack' = Goto(t, "open")
  /\ UNCHANGED <<tls, depth, mx, processingPost, hooks, processingHooks,
                 queue, opens, made, sent, processed, freed, ran>>

\* A hook or an action returns.
CodeReturns(t) ==
  /\ InUserCode(t)
  /\ Top(t).kind \in {"hook", "action"}
  /\ stack' = Return(t)
  /\ UNCHANGED <<tls, depth, lockVars, queue, opens, made, history>>

-----------------------------------------------------------------------------
(* transaction_::close().                                                  *)

Close(t) ==
  /\ InTxn(t, "open")
  /\ stack' = Goto(t, "test")
  /\ UNCHANGED <<tls, depth, lockVars, queue, opens, made, history>>

\* Mutant of StartDrain: a nested close() drains too.
DrainNested(t) ==
  /\ InTxn(t, "test")
  /\ depth >= 1
  /\ \E crew \in SUBSET {w \in Workers : ~Active(w)} :
       /\ Cardinality(crew) = NThreads
       /\ stack' = [u \in Threads |->
            IF u \in crew THEN <<Frame("worker", "idle", Top(t).impl, NoThread)>>
            ELSE Goto(t, "join")[u]]
  /\ UNCHANGED <<tls, depth, lockVars, queue, opens, made, history>>

\* part->depth == 1: process_transactional() starts n_threads new threads,
\* whose thread_local current transaction is NULL.
StartDrain(t) ==
  /\ InTxn(t, "test")
  /\ depth = 1
  /\ \E crew \in SUBSET {w \in Workers : ~Active(w)} :
       /\ Cardinality(crew) = NThreads
       /\ stack' = [u \in Threads |->
            IF u \in crew THEN <<Frame("worker", "idle", Top(t).impl, NoThread)>>
            ELSE Goto(t, "join")[u]]
  /\ UNCHANGED <<tls, depth, lockVars, queue, opens, made, history>>

\* A worker takes the oldest entry and runs its handler.
Start(w) ==
  /\ At(w, "worker", "idle")
  /\ LET i == Top(w).impl IN
       /\ queue[i] # <<>>
       /\ queue' = [queue EXCEPT ![i] = Tail(@)]
       /\ stack' = [stack EXCEPT ![w] = Append(@, Frame("handler", "open", i, Head(queue[i])))]
  /\ UNCHANGED <<tls, depth, lockVars, opens, made, history>>

HandlerReturns(w) ==
  /\ At(w, "handler", "open")
  /\ processed' = processed \cup {Top(w).item}
  /\ stack' = Return(w)
  /\ UNCHANGED <<tls, depth, lockVars, queue, opens, made, sent, freed, posted, ran>>

\* No entry is left: the workers have exited and are joined.
Join(t) ==
  /\ InTxn(t, "join")
  /\ LET i == Top(t).impl IN
       /\ queue[i] = <<>>
       /\ \A w \in Crew(i) : Len(stack[w]) = 1
       /\ stack' = [u \in Threads |->
            IF u \in Crew(i) THEN <<>> ELSE Goto(t, "decRead")[u]]
       /\ tls' = [u \in Threads |-> IF u \in Crew(i) THEN NoImpl ELSE tls[u]]
  /\ UNCHANGED <<depth, lockVars, queue, opens, made, history>>

\* part->depth--; the current transaction is reset and its impl deleted.
DecRead(t) ==
  /\ InTxn(t, "decRead")
  /\ stack' = GotoWith(t, "decWrite", depth)
  /\ UNCHANGED <<tls, depth, lockVars, queue, opens, made, history>>

\* Mutant of DecWrite: the current transaction is not reset.
DecKeepsCurrent(t) ==
  /\ InTxn(t, "decWrite")
  /\ depth' = Top(t).reg - 1
  /\ freed' = freed \cup {Top(t).impl}
  /\ stack' = Goto(t, "postTest")
  /\ UNCHANGED <<tls, lockVars, queue, opens, made, sent, processed, posted, ran>>

DecWrite(t) ==
  /\ InTxn(t, "decWrite")
  /\ depth' = Top(t).reg - 1
  /\ tls' = [tls EXCEPT ![t] = NoImpl]
  /\ freed' = freed \cup {Top(t).impl}
  /\ stack' = Goto(t, "postTest")
  /\ UNCHANGED <<lockVars, queue, opens, made, sent, processed, posted, ran>>

\* part->depth # 1: depth is decremented and nothing else happens.
CloseNested(t) ==
  /\ InTxn(t, "test")
  /\ depth # 1
  /\ stack' = Goto(t, "nestRead")
  /\ UNCHANGED <<tls, depth, lockVars, queue, opens, made, history>>

NestRead(t) ==
  /\ InTxn(t, "nestRead")
  /\ stack' = GotoWith(t, "nestWrite", depth)
  /\ UNCHANGED <<tls, depth, lockVars, queue, opens, made, history>>

\* Mutant of NestWrite: a nested close() leaves depth alone.
NestForgets(t) ==
  /\ InTxn(t, "nestWrite")
  /\ stack' = Return(t)
  /\ UNCHANGED <<tls, depth, lockVars, queue, opens, made, history>>

NestWrite(t) ==
  /\ InTxn(t, "nestWrite")
  /\ depth' = Top(t).reg - 1
  /\ stack' = Return(t)
  /\ UNCHANGED <<tls, lockVars, queue, opens, made, history>>

-----------------------------------------------------------------------------
(* partition::process_post(), and the mx.unlock() that follows it.         *)

PostTest(t) ==
  /\ InTxn(t, "postTest")
  /\ stack' = Goto(t, IF processingPost THEN "unlock" ELSE "postSet")
  /\ UNCHANGED <<tls, depth, lockVars, queue, opens, made, history>>

PostSet(t) ==
  /\ InTxn(t, "postSet")
  /\ processingPost' = TRUE
  /\ stack' = Goto(t, "posts")
  /\ UNCHANGED <<tls, depth, mx, postQ, hooks, processingHooks, queue, opens, made, history>>

\* Mutant of RunPost: the action runs with mx locked.
RunPostLocked(t) ==
  /\ InTxn(t, "posts")
  /\ postQ # <<>>
  /\ postQ' = Tail(postQ)
  /\ ran' = Append(ran, Head(postQ))
  /\ stack' = Call(t, "relock", Frame("action", "open", NoImpl, Head(postQ)))
  /\ UNCHANGED <<tls, depth, mx, processingPost, hooks, processingHooks, queue, opens, made,
                 sent, processed, freed, posted>>

\* The first action is copied and erased, and runs with mx unlocked.
RunPost(t) ==
  /\ InTxn(t, "posts")
  /\ postQ # <<>>
  /\ postQ' = Tail(postQ)
  /\ ran' = Append(ran, Head(postQ))
  /\ mx' = Unlocked(t)
  /\ stack' = Call(t, "relock", Frame("action", "open", NoImpl, Head(postQ)))
  /\ UNCHANGED <<tls, depth, processingPost, hooks, processingHooks, queue, opens, made,
                 sent, processed, freed, posted>>

Relock(t) ==
  /\ InTxn(t, "relock")
  /\ CanLock(t)
  /\ mx' = Locked(t)
  /\ stack' = Goto(t, "posts")
  /\ UNCHANGED <<tls, depth, postQ, processingPost, hooks, processingHooks, queue, opens,
                 made, history>>

NoMorePosts(t) ==
  /\ InTxn(t, "posts")
  /\ postQ = <<>>
  /\ stack' = Goto(t, "postClear")
  /\ UNCHANGED <<tls, depth, lockVars, queue, opens, made, history>>

PostsDone(t) ==
  /\ InTxn(t, "postClear")
  /\ processingPost' = FALSE
  /\ stack' = Goto(t, "unlock")
  /\ UNCHANGED <<tls, depth, mx, postQ, hooks, processingHooks, queue, opens, made, history>>

Unlock(t) ==
  /\ InTxn(t, "unlock")
  /\ mx' = Unlocked(t)
  /\ stack' = Return(t)
  /\ UNCHANGED <<tls, depth, postQ, processingPost, hooks, processingHooks, queue, opens,
                 made, history>>

-----------------------------------------------------------------------------

Constructor(t) ==
  \/ EnterNested(t) \/ EnterFresh(t) \/ CallHook(t) \/ HooksDone(t)
  \/ Make(t) \/ IncRead(t) \/ IncWrite(t)

Body(t) ==
  \/ Open(t) \/ Send(t) \/ OnStart(t) \/ WantPost(t) \/ Post(t) \/ CodeReturns(t)

Closing(t) ==
  \/ Close(t) \/ StartDrain(t) \/ Join(t) \/ DecRead(t) \/ DecWrite(t)
  \/ CloseNested(t) \/ NestRead(t) \/ NestWrite(t)
  \/ PostTest(t) \/ PostSet(t) \/ RunPost(t) \/ Relock(t) \/ NoMorePosts(t) \/ PostsDone(t)
  \/ Unlock(t)

Step(t) == Constructor(t) \/ Body(t) \/ Closing(t) \/ Start(t) \/ HandlerReturns(t)

\* The program may end when no thread is inside the library.
AtRest == \A t \in Threads : ~Active(t)
Resting == AtRest /\ UNCHANGED vars

Next == (\E t \in Threads : Step(t)) \/ Resting

Spec == Init /\ [][Next]_vars

\* Every thread that can take a step takes one.
FairSpec == Spec /\ \A t \in Threads : WF_vars(Step(t))
-----------------------------------------------------------------------------
(* Properties.  Those that say "by one user thread" hold there, and fail   *)
(* where several threads are inside transactions: depth, processing_post   *)
(* and the thread-local impl then disagree about which is the last to end. *)

\* All that was sent inside transactions is processed when they have closed
\* (by one user thread; transaction.cpp:478-480).
AllSentProcessed ==
  AtRest => \A e \in Entries : sent[e] # NoImpl => e \in processed

\* When no thread is inside the library the partition is as it was built: all
\* that was sent is processed, and nothing is left to run, to unlock or to count
\* (by one user thread whose handlers run one at a time; transaction.cpp:455-508).
RestState ==
  AtRest =>
    /\ depth = 0
    /\ mx.owner = NoThread
    /\ ~processingPost /\ postQ = <<>>
    /\ ~processingHooks
    /\ \A t \in Threads : tls[t] = NoImpl
    /\ AllSentProcessed

InUse == {"incRead", "incWrite", "open", "post", "test", "join", "decRead", "decWrite",
          "nestRead", "nestWrite"}

\* No transaction object, and no thread's current transaction, refers to a
\* transaction_impl that another close() has deleted (by one user thread;
\* transaction.cpp:482-487, 431-432).
NoDanglingImpl ==
  \A t \in Threads :
    /\ tls[t] \notin freed
    /\ \A f \in FramesOf(t) : f.kind = "txn" /\ f.at \in InUse => f.impl \notin freed

\* Posts run one at a time: an action that opens and closes transactions of
\* its own does not start the next one from inside them (transaction.cpp:143-145).
PostRunnerExclusive == Cardinality(FramesAt({"posts", "postClear", "relock"})) <= 1

\* An action handed to post() or last() starts only when every transaction
\* has been drained and closed: what runs after a transaction never runs
\* inside one (transaction.cpp:342-346, 480, 502).
PostsOutsideTransactions ==
  [][ran' # ran =>
       \A t \in Threads : \A f \in FramesOf(t) : ~(f.kind = "txn" /\ f.at \in InUse)]_vars

\* The on_start hooks are run by one thread at a time, and the transactions
\* that hooks open do not run them again (transaction.cpp:435-446).
HookRunnerExclusive == Cardinality(FramesAt({"hooks"})) <= 1

\* The code of the constructor that runs hooks and allocates, and that of close()
\* after the drain, hold mx.
LockPlaces == {"hooks", "make", "posts", "postClear", "unlock"}

\* A thread owns mx at most once for each of its transaction objects that is in
\* such code: all other code, handlers and posted actions too, runs without it
\* (transaction.cpp:134-147, 435-447, 501-503).
LockOnlyInLibrary ==
  \A t \in Threads : mx.owner = t =>
    mx.count <= Cardinality({p \in FramesAt(LockPlaces) : p[1] = t})

\* A handler that opens a transaction sends nothing in it.
NoSendInHandler ==
  \A w \in Workers : \A f \in FramesOf(w) :
    f.kind = "txn" /\ f.impl \in Impls => queue[f.impl] = <<>>

\* Every transaction a user thread opens is closed and its thread goes on.
EveryTransactionCloses == \A u \in Users : []<>(~Active(u))
=============================================================================
