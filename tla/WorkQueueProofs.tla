-------------------------- MODULE WorkQueueProofs ---------------------------
(***************************************************************************)
(* Theorems about WorkQueue for any set of workers and entries.            *)
(***************************************************************************)
EXTENDS WorkQueue, FifoLemmas, FiniteSetTheorems

\* What notify_one does to the program counters: the others are as asked, and
\* at most a sleeper has become a thread that wants queue_mu.
LEMMA WakeOneEffect ==
  ASSUME NEW others \in [Workers -> WorkerPcs], WakeOne(others)
  PROVE  /\ pc' \in [Workers -> WorkerPcs]
         /\ \A v \in Workers : pc'[v] = others[v] \/ (pc[v] = "waiting" /\ pc'[v] = "acquire")
<1>1. CASE Waiting = {}
  BY <1>1 DEF WakeOne
<1>2. CASE Waiting # {}
  BY <1>2 DEF WakeOne, Waiting, WorkerPcs
<1> QED
  BY <1>1, <1>2

\* What notify_all does to them: every sleeper wants queue_mu.
LEMMA WakeAllEffect ==
  ASSUME NEW others \in [Workers -> WorkerPcs], WakeAll(others)
  PROVE  /\ pc' \in [Workers -> WorkerPcs]
         /\ \A v \in Workers : pc'[v] = IF pc[v] = "waiting" THEN "acquire" ELSE others[v]
BY DEF WakeAll, Waiting, WorkerPcs

-----------------------------------------------------------------------------
\* A worker that is inside process() holds an entry, never nullptr.
HoldsEntry == \A w \in InHand : ent[w] \in Entries

\* Every variable keeps its type (the fields of transaction_impl and the
\* locals of its workers).
THEOREM TypeCorrect == Spec => []TypeOK
<1> DEFINE Typed == TypeOK /\ HoldsEntry
<1>1. Init => Typed
  BY EmptySeq DEF Init, TypeOK, UserPcs, WorkerPcs, HoldsEntry, InHand
<1>2. Typed /\ [Next]_vars => Typed'
  <2> SUFFICES ASSUME TypeOK, HoldsEntry, [Next]_vars
               PROVE  TypeOK' /\ HoldsEntry'
    OBVIOUS
  <2> USE DEF TypeOK, UserPcs, PushBack, HoldsEntry, InHand
  <2>1. CASE User
    <3>1. CASE UserPush
      BY <3>1 DEF UserPush
    <3>2. CASE UserNotify
      BY <3>2, WakeOneEffect DEF UserNotify
    <3>3. CASE BeginProcess
      BY <3>3 DEF BeginProcess
    <3>4. CASE Spawn
      BY <3>4 DEF Spawn, WorkerPcs
    <3>5. CASE SignalFinish
      BY <3>5 DEF SignalFinish
    <3>6. CASE NotifyFinish
      BY <3>6, WakeAllEffect DEF NotifyFinish
    <3>7. CASE Join
      BY <3>7 DEF Join
    <3> QED
      BY <2>1, <3>1, <3>2, <3>3, <3>4, <3>5, <3>6, <3>7 DEF User
  <2>2. ASSUME NEW w \in Workers, Worker(w) \/ SpuriousWake(w)
        PROVE  TypeOK' /\ HoldsEntry'
    <3>1. CASE Acquire(w)
      BY <3>1 DEF Acquire, WorkerPcs
    <3>2. CASE TestFails(w)
      BY <3>2 DEF TestFails, WorkerPcs
    <3>3. CASE Block(w)
      BY <3>3 DEF Block, WorkerPcs
    <3>4. CASE Exit(w)
      BY <3>4 DEF Exit, WorkerPcs
    <3>5. CASE Pop(w)
      <4>1. Head(queue) \in Entries /\ Tail(queue) \in Seq(Entries)
        BY <3>5 DEF Pop
      <4> QED
        BY <3>5, <4>1 DEF Pop, WorkerPcs
    <3>6. CASE HandlerPush(w)
      BY <3>6 DEF HandlerPush, WorkerPcs
    <3>7. CASE HandlerNotify(w)
      <4>1. [pc EXCEPT ![w] = "process"] \in [Workers -> WorkerPcs]
        BY DEF WorkerPcs
      <4> QED
        BY <3>7, <4>1, WakeOneEffect DEF HandlerNotify
    <3>8. CASE HandlerReturn(w)
      BY <3>8 DEF HandlerReturn, WorkerPcs
    <3>9. CASE Requeue(w)
      BY <3>9 DEF Requeue, WorkerPcs
    <3>10. CASE NotifyAll(w)
      <4>1. [pc EXCEPT ![w] = "acquire"] \in [Workers -> WorkerPcs]
        BY DEF WorkerPcs
      <4> QED
        BY <3>10, <4>1, WakeAllEffect DEF NotifyAll
    <3>11. CASE SpuriousWake(w)
      BY <3>11 DEF SpuriousWake, WorkerPcs
    <3> QED
      BY <2>2, <3>1, <3>2, <3>3, <3>4, <3>5, <3>6, <3>7, <3>8, <3>9, <3>10, <3>11
         DEF Worker
  <2>3. CASE Terminating \/ UNCHANGED vars
    BY <2>3 DEF Terminating, vars
  <2> QED
    BY <2>1, <2>2, <2>3 DEF Next
<1>3. Typed => TypeOK
  OBVIOUS
<1> QED
  BY <1>1, <1>2, <1>3, PTL DEF Spec

-----------------------------------------------------------------------------
(* The control part of the inductive invariant: who may be where.          *)

\* Only the owner of queue_mu is between its acquisition and its release, and
\* what a worker saw in the predicate is still so when it falls asleep.
MutexInv ==
  \A w \in Workers :
    /\ pc[w] \in {"locked", "blocking"} => mu = w
    /\ pc[w] = "blocking" => queue = <<>> /\ ~finished

\* The workers live between BeginProcess and Join, leave only after `finished'
\* and the last one to leave has seen an empty queue.
PhaseInv ==
  /\ finished <=> userPc \in {"notify", "join", "done"}
  /\ userPc \in {"body", "bodyNotify"} => \A w \in Workers : pc[w] = "unborn"
  /\ finished => \A w \in Workers : pc[w] # "unborn"
  /\ \A w \in Workers : pc[w] = "exited" => finished
  /\ userPc \in {"join", "done"} => \A w \in Workers : pc[w] # "waiting"
  /\ userPc = "done" => \A w \in Workers : pc[w] = "exited"
  /\ (Workers # {} /\ \A w \in Workers : pc[w] = "exited") => queue = <<>>

ControlInv == MutexInv /\ PhaseInv

THEOREM ControlInvariant == Spec => []ControlInv
<1>1. Init => ControlInv
  BY DEF Init, ControlInv, MutexInv, PhaseInv
<1>2. TypeOK /\ ControlInv /\ [Next]_vars => ControlInv'
  <2> SUFFICES ASSUME TypeOK, MutexInv, PhaseInv, [Next]_vars
               PROVE  MutexInv' /\ PhaseInv'
    BY DEF ControlInv
  <2> USE WorkersAssumption DEF TypeOK, UserPcs, MutexInv, PhaseInv
  <2>1. CASE User
    <3>1. CASE UserPush
      BY <3>1 DEF UserPush, PushBack
    <3>2. CASE UserNotify
      BY <3>2, WakeOneEffect DEF UserNotify
    <3>3. CASE BeginProcess
      BY <3>3 DEF BeginProcess
    <3>4. CASE Spawn
      BY <3>4 DEF Spawn, WorkerPcs
    <3>5. CASE SignalFinish
      BY <3>5 DEF SignalFinish
    <3>6. CASE NotifyFinish
      BY <3>6, WakeAllEffect DEF NotifyFinish
    <3>7. CASE Join
      BY <3>7 DEF Join
    <3> QED
      BY <2>1, <3>1, <3>2, <3>3, <3>4, <3>5, <3>6, <3>7 DEF User
  <2>2. ASSUME NEW w \in Workers, Worker(w) \/ SpuriousWake(w)
        PROVE  MutexInv' /\ PhaseInv'
    <3>1. CASE Acquire(w)
      BY <3>1 DEF Acquire, WorkerPcs
    <3>2. CASE TestFails(w)
      BY <3>2 DEF TestFails, WorkerPcs
    <3>3. CASE Block(w)
      BY <3>3 DEF Block, WorkerPcs
    <3>4. CASE Exit(w)
      BY <3>4 DEF Exit, WorkerPcs
    <3>5. CASE Pop(w)
      BY <3>5 DEF Pop, WorkerPcs
    <3>6. CASE HandlerPush(w)
      BY <3>6 DEF HandlerPush, PushBack, WorkerPcs
    <3>7. CASE HandlerNotify(w)
      <4>1. [pc EXCEPT ![w] = "process"] \in [Workers -> WorkerPcs]
        BY DEF WorkerPcs
      <4>2. pc[w] = "notifyOne"
        BY <3>7 DEF HandlerNotify
      <4>3. \A v \in Workers :
              \/ v # w /\ pc'[v] = pc[v]
              \/ v = w /\ pc'[v] = "process"
              \/ pc[v] = "waiting" /\ pc'[v] = "acquire"
        BY <3>7, <4>1, WakeOneEffect DEF HandlerNotify
      <4> QED
        BY <3>7, <4>2, <4>3 DEF HandlerNotify
    <3>8. CASE HandlerReturn(w)
      BY <3>8 DEF HandlerReturn, WorkerPcs
    <3>9. CASE Requeue(w)
      BY <3>9 DEF Requeue, WorkerPcs
    <3>10. CASE NotifyAll(w)
      <4>1. [pc EXCEPT ![w] = "acquire"] \in [Workers -> WorkerPcs]
        BY DEF WorkerPcs
      <4>2. pc[w] = "notifyAll"
        BY <3>10 DEF NotifyAll
      <4>3. \A v \in Workers :
              pc'[v] = IF pc[v] = "waiting" \/ v = w THEN "acquire" ELSE pc[v]
        BY <3>10, <4>1, WakeAllEffect DEF NotifyAll
      <4> QED
        BY <3>10, <4>2, <4>3 DEF NotifyAll
    <3>11. CASE SpuriousWake(w)
      BY <3>11 DEF SpuriousWake, WorkerPcs
    <3> QED
      BY <2>2, <3>1, <3>2, <3>3, <3>4, <3>5, <3>6, <3>7, <3>8, <3>9, <3>10, <3>11
         DEF Worker
  <2>3. CASE Terminating \/ UNCHANGED vars
    BY <2>3 DEF Terminating, vars
  <2> QED
    BY <2>1, <2>2, <2>3 DEF Next
<1> QED
  BY <1>1, <1>2, TypeCorrect, PTL DEF Spec

\* Once `finished' has been announced no worker is or falls asleep, so join()
\* never waits for a thread that nobody will notify (transaction.cpp:404-413).
THEOREM NoSleeper == Spec => []NoSleeperAfterFinish
<1>1. TypeOK /\ ControlInv => NoSleeperAfterFinish
  BY DEF ControlInv, MutexInv, PhaseInv, NoSleeperAfterFinish
<1> QED
  BY <1>1, TypeCorrect, ControlInvariant, PTL

-----------------------------------------------------------------------------
(* Nobody sleeps while there is work: counting the workers that attend.    *)

\* A finite number of workers attend to the queue.
LEMMA AttendingFinite ==
  ASSUME IsFiniteSet(Workers)
  PROVE  IsFiniteSet(Attending) /\ Cardinality(Attending) \in Nat
BY FS_Subset, FS_CardinalityType DEF Attending

\* With nothing in the queue, anybody may sleep.
LEMMA ConservedWhenEmpty ==
  ASSUME IsFiniteSet(Workers), queue' = <<>>
  PROVE  WorkConserving'
<1>1. IsFiniteSet(Attending') /\ Attending' \in SUBSET Workers
  BY FS_Subset DEF Attending
<1>2. Cardinality(Attending') \in Nat
  BY <1>1, FS_CardinalityType
<1> QED
  BY <1>2 DEF WorkConserving

\* A step that leaves the queue, puts nobody to sleep who makes the first
\* sleeper, and distracts nobody.
LEMMA ConservedWhenAttended ==
  ASSUME IsFiniteSet(Workers), TypeOK, WorkConserving, queue' = queue,
         Waiting' # {} => Waiting # {},
         Attending \subseteq Attending'
  PROVE  WorkConserving'
<1>1. IsFiniteSet(Attending') /\ Attending \in SUBSET Attending'
  BY FS_Subset DEF Attending
<1>2. Cardinality(Attending) <= Cardinality(Attending')
  BY <1>1, FS_Subset
<1>3. Cardinality(Attending) \in Nat /\ Cardinality(Attending') \in Nat
  BY <1>1, AttendingFinite, FS_CardinalityType
<1>4. Len(queue) \in Nat
  BY DEF TypeOK
<1> QED
  BY <1>2, <1>3, <1>4 DEF WorkConserving

\* prioritized() in a handler: the new entry is attended to by its notify_one.
LEMMA ConservedByPush ==
  ASSUME IsFiniteSet(Workers), TypeOK, WorkConserving, NEW w \in Workers, HandlerPush(w)
  PROVE  WorkConserving'
<1> USE DEF TypeOK
<1>1. /\ w \notin Attending
      /\ Attending' = Attending \cup {w}
      /\ Waiting' = Waiting
  BY DEF HandlerPush, Attending, Waiting, WorkerPcs
<1>2. Len(queue') = Len(queue) + 1
  BY DEF HandlerPush, PushBack
<1>3. Cardinality(Attending') = Cardinality(Attending) + 1
  BY <1>1, AttendingFinite, FS_AddElement
<1> QED
  BY <1>1, <1>2, <1>3, AttendingFinite DEF WorkConserving

\* A worker that goes off to run a handler takes an entry with it.
LEMMA ConservedByPop ==
  ASSUME IsFiniteSet(Workers), TypeOK, WorkConserving, NEW w \in Workers, Pop(w)
  PROVE  WorkConserving'
<1> USE DEF TypeOK
<1>1. /\ w \in Attending
      /\ Attending' = Attending \ {w}
      /\ Waiting' = Waiting
  BY DEF Pop, Attending, Waiting, WorkerPcs
<1>2. Len(queue') = Len(queue) - 1
  BY DEF Pop
<1>3. Cardinality(Attending') = Cardinality(Attending) - 1
  BY <1>1, AttendingFinite, FS_RemoveElement
<1> QED
  BY <1>1, <1>2, <1>3, AttendingFinite DEF WorkConserving

\* notify_one: the handler's worker turns away and a sleeper takes its place,
\* or nobody sleeps.
LEMMA ConservedByNotify ==
  ASSUME IsFiniteSet(Workers), TypeOK, WorkConserving, NEW w \in Workers, HandlerNotify(w)
  PROVE  WorkConserving'
<1> USE DEF TypeOK
<1>1. CASE Waiting = {}
  <2>1. Waiting' = {}
    BY <1>1 DEF HandlerNotify, WakeOne, Waiting, WorkerPcs
  <2> QED
    BY <2>1 DEF WorkConserving
<1>2. CASE Waiting # {}
  <2>1. PICK v \in Waiting : pc' = [[pc EXCEPT ![w] = "process"] EXCEPT ![v] = "acquire"]
    BY <1>2 DEF HandlerNotify, WakeOne
  <2>2. /\ pc[w] = "notifyOne" /\ pc[v] = "waiting" /\ v # w /\ v \in Workers
        /\ queue' = queue
    BY <2>1 DEF HandlerNotify, Waiting
  <2> DEFINE Others == Attending \ {w}
  <2>3. w \in Attending /\ v \notin Others /\ Attending' = Others \cup {v}
    BY <2>1, <2>2 DEF Attending, WorkerPcs
  <2>4. IsFiniteSet(Others) /\ Cardinality(Others) = Cardinality(Attending) - 1
    BY <2>3, AttendingFinite, FS_RemoveElement
  <2>5. Cardinality(Attending') = Cardinality(Others) + 1
    BY <2>3, <2>4, FS_AddElement
  <2> QED
    BY <1>2, <2>2, <2>4, <2>5, AttendingFinite DEF WorkConserving
<1> QED
  BY <1>1, <1>2

\* No wake-up is lost: with finitely many workers, one sleeps only while every
\* queued entry has another worker on its way to it (transaction.h:262,
\* transaction.cpp:379, 398).
THEOREM Conserving == IsFiniteSet(Workers) => (Spec => []WorkConserving)
<1> SUFFICES ASSUME IsFiniteSet(Workers)
             PROVE  Spec => []WorkConserving
  OBVIOUS
<1>1. Init => WorkConserving
  BY DEF Init, WorkConserving, Waiting
<1>2. TypeOK /\ ControlInv /\ WorkConserving /\ [Next]_vars => WorkConserving'
  <2> SUFFICES ASSUME TypeOK, ControlInv, WorkConserving, [Next]_vars
               PROVE  WorkConserving'
    OBVIOUS
  <2> USE DEF TypeOK, Waiting, Attending
  <2>1. CASE User
    <3>1. CASE UserPush
      <4>1. Waiting' = {}
        BY <3>1 DEF UserPush, ControlInv, PhaseInv
      <4> QED
        BY <4>1 DEF WorkConserving
    <3>2. CASE UserNotify
      <4>1. Waiting = {} /\ pc' = pc
        BY <3>2 DEF UserNotify, WakeOne, ControlInv, PhaseInv
      <4> QED
        BY <4>1 DEF WorkConserving
    <3>3. CASE BeginProcess
      BY <3>3, ConservedWhenAttended DEF BeginProcess
    <3>4. CASE Spawn
      BY <3>4, ConservedWhenAttended DEF Spawn, WorkerPcs
    <3>5. CASE SignalFinish
      BY <3>5, ConservedWhenAttended DEF SignalFinish
    <3>6. CASE NotifyFinish
      <4>1. Waiting' = {}
        BY <3>6, WakeAllEffect DEF NotifyFinish
      <4> QED
        BY <4>1 DEF WorkConserving
    <3>7. CASE Join
      BY <3>7, ConservedWhenAttended DEF Join
    <3> QED
      BY <2>1, <3>1, <3>2, <3>3, <3>4, <3>5, <3>6, <3>7 DEF User
  <2>2. ASSUME NEW w \in Workers, Worker(w) \/ SpuriousWake(w)
        PROVE  WorkConserving'
    <3>1. CASE Acquire(w)
      BY <3>1, ConservedWhenAttended DEF Acquire, WorkerPcs
    <3>2. CASE TestFails(w)
      BY <3>2, ConservedWhenEmpty DEF TestFails
    <3>3. CASE Block(w)
      BY <3>3, ConservedWhenEmpty DEF Block, ControlInv, MutexInv
    <3>4. CASE Exit(w)
      BY <3>4, ConservedWhenEmpty DEF Exit
    <3>5. CASE Pop(w)
      BY <3>5, ConservedByPop
    <3>6. CASE HandlerPush(w)
      BY <3>6, ConservedByPush
    <3>7. CASE HandlerNotify(w)
      BY <3>7, ConservedByNotify
    <3>8. CASE HandlerReturn(w)
      BY <3>8, ConservedWhenAttended DEF HandlerReturn, WorkerPcs
    <3>9. CASE Requeue(w)
      BY <3>9, ConservedWhenAttended DEF Requeue, WorkerPcs
    <3>10. CASE NotifyAll(w)
      <4>1. [pc EXCEPT ![w] = "acquire"] \in [Workers -> WorkerPcs]
        BY DEF WorkerPcs
      <4>2. Waiting' = {}
        BY <3>10, <4>1, WakeAllEffect DEF NotifyAll
      <4> QED
        BY <4>2 DEF WorkConserving
    <3>11. CASE SpuriousWake(w)
      BY <3>11, ConservedWhenAttended DEF SpuriousWake, WorkerPcs
    <3> QED
      BY <2>2, <3>1, <3>2, <3>3, <3>4, <3>5, <3>6, <3>7, <3>8, <3>9, <3>10, <3>11
         DEF Worker
  <2>3. CASE Terminating \/ UNCHANGED vars
    BY <2>3, ConservedWhenAttended DEF Terminating, vars
  <2> QED
    BY <2>1, <2>2, <2>3 DEF Next
<1> QED
  BY <1>1, <1>2, TypeCorrect, ControlInvariant, PTL DEF Spec

-----------------------------------------------------------------------------
(* The data part: where every entry is.                                    *)

DataInv ==
  /\ QueueIsFifo
  /\ IsInjective(pushed)
  /\ ProcessedOnce

\* A step that changes nothing ProcessedOnce and QueueIsFifo speak of.
LEMMA DataUntouched ==
  ASSUME TypeOK, DataInv,
         UNCHANGED <<queue, pushed, popped, processed, ent>>,
         InHand' = InHand
  PROVE  DataInv'
BY DEF DataInv, QueueIsFifo, ProcessedOnce

\* prioritized() appends an entry that has never been seen.
LEMMA DataAfterPush ==
  ASSUME TypeOK, DataInv, NEW e \in Entries, PushBack(e),
         UNCHANGED <<popped, processed, ent>>,
         InHand' = InHand
  PROVE  DataInv'
<1>1. QueueIsFifo'
  <2>1. popped \in Seq(Entries) /\ queue \in Seq(Entries)
    BY DEF TypeOK
  <2>2. Append(popped \o queue, e) = popped \o Append(queue, e)
    BY <2>1
  <2> QED
    BY <2>2, Zenon DEF DataInv, QueueIsFifo, PushBack
<1> USE DEF TypeOK, DataInv, PushBack
<1>2. IsInjective(pushed')
  BY AppendNew
<1>3. ProcessedOnce'
  BY DEF ProcessedOnce
<1> QED
  BY <1>1, <1>2, <1>3

\* pop_front hands the oldest entry to a worker that held none.
LEMMA DataAfterPop ==
  ASSUME TypeOK, DataInv, NEW w \in Workers, Pop(w)
  PROVE  DataInv'
<1> USE DEF TypeOK
<1> DEFINE e == Head(queue)
<1>0. /\ queue # <<>>
      /\ e \in Entries
      /\ ent' = [ent EXCEPT ![w] = e]
      /\ queue' = Tail(queue)
      /\ popped' = Append(popped, e)
      /\ pushed' = pushed /\ processed' = processed
      /\ w \notin InHand
      /\ InHand' = InHand \cup {w}
  BY DEF Pop, InHand, WorkerPcs
<1>1. QueueIsFifo'
  BY <1>0, MoveHead DEF DataInv, QueueIsFifo
<1>2. IsInjective(pushed')
  BY <1>0 DEF DataInv
<1>3. e \notin Range(popped)
  BY <1>0, HeadIsNew DEF DataInv, QueueIsFifo
<1>4. Range(popped') = Range(popped) \cup {e}
  BY <1>0, RangeOfAppend
<1>5. IsInjective(popped')
  BY <1>0, <1>3, AppendNew DEF DataInv, ProcessedOnce
<1>6. \A v \in InHand : v \in Workers /\ v # w /\ ent'[v] = ent[v] /\ ent[v] # e
  BY <1>0, <1>3 DEF DataInv, ProcessedOnce, InHand
<1>7. ent'[w] = e /\ e \notin processed
  BY <1>0, <1>3 DEF DataInv, ProcessedOnce
<1>8. {ent'[v] : v \in InHand'} = {ent[v] : v \in InHand} \cup {e}
  BY <1>0, <1>6, <1>7
<1>9. ProcessedOnce'
  BY <1>0, <1>4, <1>5, <1>6, <1>7, <1>8 DEF DataInv, ProcessedOnce
<1> QED
  BY <1>1, <1>2, <1>9 DEF DataInv

\* process() returns: the entry moves from the worker's hands to the past.
LEMMA DataAfterReturn ==
  ASSUME TypeOK, DataInv, NEW w \in Workers, HandlerReturn(w)
  PROVE  DataInv'
<1> USE DEF TypeOK
<1>0. /\ w \in InHand
      /\ InHand' = InHand \ {w}
      /\ processed' = processed \cup {ent[w]}
      /\ ent' = [ent EXCEPT ![w] = NoEntry]
      /\ UNCHANGED <<queue, pushed, popped>>
  BY DEF HandlerReturn, InHand, WorkerPcs
<1>1. \A v \in InHand' : v \in InHand /\ v # w /\ ent'[v] = ent[v] /\ ent[v] # ent[w]
  BY <1>0 DEF DataInv, ProcessedOnce, InHand
<1>2. {ent[v] : v \in InHand} = {ent'[v] : v \in InHand'} \cup {ent[w]}
  BY <1>0, <1>1
<1>3. ProcessedOnce'
  BY <1>0, <1>1, <1>2 DEF DataInv, ProcessedOnce
<1> QED
  BY <1>0, <1>3 DEF DataInv, QueueIsFifo

THEOREM DataInvariant == Spec => []DataInv
<1>1. Init => DataInv
  <2> SUFFICES ASSUME Init
               PROVE  DataInv
    OBVIOUS
  <2>1. InHand = {} /\ queue = <<>> /\ pushed = <<>> /\ popped = <<>> /\ processed = {}
    BY DEF Init, InHand
  <2>2. IsInjective(<<>>) /\ Range(<<>>) = {} /\ <<>> = <<>> \o <<>>
    BY DEF IsInjective, Range
  <2> QED
    BY <2>1, <2>2 DEF DataInv, QueueIsFifo, ProcessedOnce
<1>2. TypeOK /\ DataInv /\ [Next]_vars => DataInv'
  <2> SUFFICES ASSUME TypeOK, DataInv, [Next]_vars
               PROVE  DataInv'
    OBVIOUS
  <2> USE DEF TypeOK, InHand
  <2>1. CASE User
    <3>1. CASE UserPush
      BY <3>1, DataAfterPush DEF UserPush
    <3>2. CASE UserNotify
      BY <3>2, WakeOneEffect, DataUntouched DEF UserNotify
    <3>3. CASE BeginProcess
      BY <3>3, DataUntouched DEF BeginProcess
    <3>4. CASE Spawn
      BY <3>4, DataUntouched DEF Spawn
    <3>5. CASE SignalFinish
      BY <3>5, DataUntouched DEF SignalFinish
    <3>6. CASE NotifyFinish
      BY <3>6, WakeAllEffect, DataUntouched DEF NotifyFinish
    <3>7. CASE Join
      BY <3>7, DataUntouched DEF Join
    <3> QED
      BY <2>1, <3>1, <3>2, <3>3, <3>4, <3>5, <3>6, <3>7 DEF User
  <2>2. ASSUME NEW w \in Workers, Worker(w) \/ SpuriousWake(w)
        PROVE  DataInv'
    <3>1. CASE Acquire(w)
      BY <3>1, DataUntouched DEF Acquire
    <3>2. CASE TestFails(w)
      BY <3>2, DataUntouched DEF TestFails
    <3>3. CASE Block(w)
      BY <3>3, DataUntouched DEF Block
    <3>4. CASE Exit(w)
      BY <3>4, DataUntouched DEF Exit
    <3>5. CASE Pop(w)
      BY <3>5, DataAfterPop
    <3>6. CASE HandlerPush(w)
      BY <3>6, DataAfterPush DEF HandlerPush
    <3>7. CASE HandlerNotify(w)
      <4>1. [pc EXCEPT ![w] = "process"] \in [Workers -> WorkerPcs]
        BY DEF WorkerPcs
      <4>2. InHand' = InHand
        BY <3>7, <4>1, WakeOneEffect DEF HandlerNotify
      <4> QED
        BY <3>7, <4>2, DataUntouched DEF HandlerNotify
    <3>8. CASE HandlerReturn(w)
      BY <3>8, DataAfterReturn
    <3>9. CASE Requeue(w)
      BY <3>9, DataUntouched DEF Requeue
    <3>10. CASE NotifyAll(w)
      <4>1. [pc EXCEPT ![w] = "acquire"] \in [Workers -> WorkerPcs]
        BY DEF WorkerPcs
      <4>2. InHand' = InHand
        BY <3>10, <4>1, WakeAllEffect DEF NotifyAll
      <4> QED
        BY <3>10, <4>2, DataUntouched DEF NotifyAll
    <3>11. CASE SpuriousWake(w)
      BY <3>11, DataUntouched DEF SpuriousWake
    <3> QED
      BY <2>2, <3>1, <3>2, <3>3, <3>4, <3>5, <3>6, <3>7, <3>8, <3>9, <3>10, <3>11
         DEF Worker
  <2>3. CASE Terminating \/ UNCHANGED vars
    BY <2>3, DataUntouched DEF Terminating, vars
  <2> QED
    BY <2>1, <2>2, <2>3 DEF Next
<1> QED
  BY <1>1, <1>2, TypeCorrect, PTL DEF Spec

\* Entries are popped in the order in which prioritized() pushed them; none is
\* dropped or doubled (transaction.h:255-263, transaction.cpp:374-397).
THEOREM Fifo == Spec => []QueueIsFifo
BY DataInvariant, PTL DEF DataInv

\* No entry is processed, or deleted, by two workers (transaction.cpp:382-387).
THEOREM OneWorkerPerEntry == Spec => []ProcessedOnce
BY DataInvariant, PTL DEF DataInv

\* If there is at least one worker, close() leaves nothing unprocessed: the last
\* worker to leave has seen an empty queue (transaction.cpp:380, 410-414).  With
\* none (hardware_concurrency() = 0, transaction.cpp:99) it does not hold.
THEOREM Drained == Workers # {} => (Spec => []DrainedAtJoin)
<1> SUFFICES ASSUME Workers # {}
             PROVE  Spec => []DrainedAtJoin
  OBVIOUS
<1>1. TypeOK /\ ControlInv /\ DataInv => DrainedAtJoin
  <2> SUFFICES ASSUME TypeOK, ControlInv, DataInv, userPc = "done"
               PROVE  queue = <<>> /\ processed = Range(pushed)
    BY DEF DrainedAtJoin
  <2>1. queue = <<>> /\ InHand = {}
    BY DEF ControlInv, PhaseInv, InHand
  <2>2. pushed = popped
    BY <2>1, ConcatEmptySeq DEF DataInv, QueueIsFifo, TypeOK
  <2> QED
    BY <2>1, <2>2 DEF DataInv, ProcessedOnce
<1> QED
  BY <1>1, TypeCorrect, ControlInvariant, DataInvariant, PTL

-----------------------------------------------------------------------------
(* The queue and its threads implement the drain of a transaction.         *)

Running == {ent[w] : w \in InHand}

Phase == CASE userPc \in {"body", "bodyNotify"} -> "body"
           [] userPc = "done" -> "closed"
           [] OTHER -> "draining"

DrainStep == [Drain!Next]_<<Range(queue), Running, processed, Phase>>

\* A step that moves no entry and no phase is a stutter of TxnDrain.
LEMMA DrainStutters ==
  ASSUME UNCHANGED <<queue, processed, ent>>, InHand' = InHand, Phase' = Phase
  PROVE  DrainStep
BY DEF DrainStep, Running

\* prioritized() is Add: the entry is new, and its caller is the transaction
\* body or a handler that has not returned.
LEMMA PushIsAdd ==
  ASSUME TypeOK, DataInv, NEW e \in Entries, PushBack(e),
         UNCHANGED <<processed, ent>>, InHand' = InHand, Phase' = Phase,
         Phase = "body" \/ Running # {}
  PROVE  DrainStep
<1> USE DEF TypeOK, PushBack
<1>1. Range(queue') = Range(queue) \cup {e}
  BY RangeOfAppend
<1>2. Range(pushed) = Range(popped) \cup Range(queue)
  BY RangeOfConcat DEF DataInv, QueueIsFifo
<1>3. e \notin Range(queue) \cup Running \cup processed
  BY <1>2 DEF DataInv, ProcessedOnce, Running
<1>4. Running' = Running
  BY DEF Running
<1>5. Drain!Add(e)
  BY <1>1, <1>3, <1>4 DEF Drain!Add, Drain!Known, Running, Phase
<1> QED
  BY <1>5 DEF DrainStep, Drain!Next

\* pop_front is Start.
LEMMA PopIsStart ==
  ASSUME TypeOK, ControlInv, DataInv, NEW w \in Workers, Pop(w)
  PROVE  DrainStep
<1> USE DEF TypeOK
<1>0. PICK e \in Entries : e = Head(queue)
  BY DEF Pop
<1>1. /\ queue # <<>>
      /\ ent' = [ent EXCEPT ![w] = e]
      /\ queue' = Tail(queue)
      /\ processed' = processed
      /\ w \notin InHand
      /\ InHand' = InHand \cup {w}
      /\ InHand \subseteq Workers
      /\ Phase = "draining" /\ Phase' = "draining"
  BY <1>0 DEF Pop, InHand, WorkerPcs, UserPcs, Phase, ControlInv, PhaseInv
<1>2. e \notin Range(queue') /\ Range(queue) = Range(queue') \cup {e}
  BY <1>0, <1>1, HeadIsNew, RangeOfQueue DEF DataInv, QueueIsFifo
<1>3. Running' = Running \cup {e}
  BY <1>1 DEF Running
<1>4. Drain!Start(e)
  BY <1>1, <1>2, <1>3 DEF Drain!Start, Running, Phase
<1> QED
  BY <1>4 DEF DrainStep, Drain!Next

\* The return of process() is Finish.
LEMMA ReturnIsFinish ==
  ASSUME TypeOK, DataInv, NEW w \in Workers, HandlerReturn(w)
  PROVE  DrainStep
<1> USE DEF TypeOK
<1>1. /\ w \in InHand
      /\ InHand' = InHand \ {w}
      /\ InHand \subseteq Workers
      /\ processed' = processed \cup {ent[w]}
      /\ ent' = [ent EXCEPT ![w] = NoEntry]
      /\ queue' = queue
      /\ Phase' = Phase
  BY DEF HandlerReturn, InHand, WorkerPcs, Phase
<1>2. \A v \in InHand' : v \in InHand /\ ent'[v] = ent[v] /\ ent[v] # ent[w]
  BY <1>1 DEF DataInv, ProcessedOnce
<1>3. Running' = Running \ {ent[w]} /\ ent[w] \in Running
  BY <1>1, <1>2 DEF Running
<1>4. ent[w] \in Entries
  BY <1>1, <1>3, RangeOfSeq DEF DataInv, ProcessedOnce, Running
<1>5. PICK e \in Entries : e = ent[w]
  BY <1>4
<1>6. Drain!Finish(e)
  BY <1>1, <1>3, <1>5 DEF Drain!Finish, Running, Phase
<1> QED
  BY <1>6 DEF DrainStep, Drain!Next

\* What closing a transaction promises is what the queue, its lock, its
\* condition variable and its workers do, if there is a worker.
THEOREM WorkQueueImplementsDrain == Workers # {} => (Spec => ImplementsDrain)
<1> SUFFICES ASSUME Workers # {}
             PROVE  Spec => ImplementsDrain
  OBVIOUS
<1>1. Init => Drain!Init
  <2> SUFFICES ASSUME Init
               PROVE  Drain!Init
    OBVIOUS
  <2>1. InHand = {} /\ queue = <<>> /\ processed = {} /\ userPc = "body"
    BY DEF Init, InHand
  <2>2. Range(<<>>) = {}
    BY DEF Range
  <2> QED
    BY <2>1, <2>2 DEF Drain!Init
<1>2. TypeOK /\ ControlInv /\ DataInv /\ [Next]_vars => DrainStep
  <2> SUFFICES ASSUME TypeOK, ControlInv, DataInv, [Next]_vars
               PROVE  DrainStep
    OBVIOUS
  <2> USE DEF TypeOK, InHand, Phase
  <2>1. CASE User
    <3>1. CASE UserPush
      BY <3>1, PushIsAdd DEF UserPush
    <3>2. CASE UserNotify
      BY <3>2, WakeOneEffect, DrainStutters DEF UserNotify
    <3>3. CASE BeginProcess
      <4>1. Phase = "body" /\ Phase' = "draining"
        BY <3>3 DEF BeginProcess
      <4>2. UNCHANGED <<Range(queue), Running, processed>>
        BY <3>3 DEF BeginProcess, Running
      <4>3. Drain!CloseBody
        BY <4>1, <4>2 DEF Drain!CloseBody, Running
      <4> QED
        BY <4>3 DEF DrainStep, Drain!Next
    <3>4. CASE Spawn
      <4>1. InHand' = InHand
        BY <3>4 DEF Spawn
      <4> QED
        BY <3>4, <4>1, DrainStutters DEF Spawn
    <3>5. CASE SignalFinish
      BY <3>5, DrainStutters DEF SignalFinish
    <3>6. CASE NotifyFinish
      BY <3>6, WakeAllEffect, DrainStutters DEF NotifyFinish
    <3>7. CASE Join
      <4>1. Phase = "draining" /\ Phase' = "closed"
        BY <3>7 DEF Join
      <4>2. queue = <<>> /\ InHand = {} /\ InHand' = {}
        BY <3>7 DEF Join, ControlInv, PhaseInv
      <4>3. Range(queue) = {} /\ Running = {} /\ Running' = {}
        BY <4>2 DEF Range, Running
      <4>4. UNCHANGED <<Range(queue), processed>>
        BY <3>7 DEF Join
      <4>5. Drain!Closed
        BY <4>1, <4>3, <4>4 DEF Drain!Closed, Running
      <4> QED
        BY <4>5 DEF DrainStep, Drain!Next
    <3> QED
      BY <2>1, <3>1, <3>2, <3>3, <3>4, <3>5, <3>6, <3>7 DEF User
  <2>2. ASSUME NEW w \in Workers, Worker(w) \/ SpuriousWake(w)
        PROVE  DrainStep
    <3>1. CASE Acquire(w)
      BY <3>1, DrainStutters DEF Acquire
    <3>2. CASE TestFails(w)
      BY <3>2, DrainStutters DEF TestFails
    <3>3. CASE Block(w)
      BY <3>3, DrainStutters DEF Block
    <3>4. CASE Exit(w)
      BY <3>4, DrainStutters DEF Exit
    <3>5. CASE Pop(w)
      BY <3>5, PopIsStart
    <3>6. CASE HandlerPush(w)
      <4>1. Running # {}
        BY <3>6 DEF HandlerPush, Running
      <4>2. InHand' = InHand
        BY <3>6 DEF HandlerPush
      <4> QED
        BY <3>6, <4>1, <4>2, PushIsAdd DEF HandlerPush
    <3>7. CASE HandlerNotify(w)
      <4>1. [pc EXCEPT ![w] = "process"] \in [Workers -> WorkerPcs]
        BY DEF WorkerPcs
      <4>2. InHand' = InHand
        BY <3>7, <4>1, WakeOneEffect DEF HandlerNotify
      <4> QED
        BY <3>7, <4>2, DrainStutters DEF HandlerNotify
    <3>8. CASE HandlerReturn(w)
      BY <3>8, ReturnIsFinish
    <3>9. CASE Requeue(w)
      BY <3>9, DrainStutters DEF Requeue
    <3>10. CASE NotifyAll(w)
      <4>1. [pc EXCEPT ![w] = "acquire"] \in [Workers -> WorkerPcs]
        BY DEF WorkerPcs
      <4>2. InHand' = InHand
        BY <3>10, <4>1, WakeAllEffect DEF NotifyAll
      <4> QED
        BY <3>10, <4>2, DrainStutters DEF NotifyAll
    <3>11. CASE SpuriousWake(w)
      BY <3>11, DrainStutters DEF SpuriousWake
    <3> QED
      BY <2>2, <3>1, <3>2, <3>3, <3>4, <3>5, <3>6, <3>7, <3>8, <3>9, <3>10, <3>11
         DEF Worker
  <2>3. CASE Terminating \/ UNCHANGED vars
    BY <2>3, DrainStutters DEF Terminating, vars
  <2> QED
    BY <2>1, <2>2, <2>3 DEF Next
<1>3. DrainStep => [Drain!Next]_(Drain!drainVars)
  BY DEF DrainStep, Drain!drainVars, Running, Phase
<1> QED
  BY <1>1, <1>2, <1>3, TypeCorrect, ControlInvariant, DataInvariant, PTL
     DEF Spec, ImplementsDrain, Drain!Spec
=============================================================================
