----------------------------- MODULE WorkQueue ------------------------------
(***************************************************************************)
(* One transaction_impl and its pool of worker threads:                    *)
(* transaction_impl::prioritized (transaction.h) and                       *)
(* transaction_impl::process_transactional (transaction.cpp).              *)
(*                                                                         *)
(* The user thread pushes entries while the transaction body runs, then    *)
(* starts the workers, raises `finished', and joins them.  A worker waits  *)
(* on queue_cv for an entry, runs its process() with no lock held (which   *)
(* may push more entries), and exits when the queue is empty and           *)
(* `finished' is set.  Waiting releases queue_mu and sleeps in one step;   *)
(* notifications and spurious wake-ups turn a sleeper into a thread that   *)
(* must take queue_mu again before it re-tests the predicate.              *)
(***************************************************************************)
EXTENDS Naturals, Sequences, FiniteSets, Functions

CONSTANTS Workers,        (* the part->n_threads threads that close() starts *)
          Entries,        (* the prioritized_entry objects that may be made  *)
          NoThread,       (* owner of a free mutex                           *)
          NoEntry         (* ent == nullptr                                  *)

ASSUME WorkersAssumption == NoThread \notin Workers
ASSUME EntriesAssumption == NoEntry \notin Entries

VARIABLES queue,          (* transaction_impl::queue                         *)
          mu,             (* who owns transaction_impl::queue_mu             *)
          finished,       (* transaction_impl::finished                      *)
          userPc,         (* where the user thread is                        *)
          pc,             (* where each worker is                            *)
          ent,            (* each worker's local `ent'                       *)
          pushed,         (* history: the entries in the order of push_back  *)
          popped,         (* history: the entries in the order of pop_front  *)
          processed       (* history: the entries whose process() returned   *)

vars == <<queue, mu, finished, userPc, pc, ent, pushed, popped, processed>>

UserPcs == {"body", "bodyNotify", "spawn", "notify", "join", "done"}

WorkerPcs == {"unborn", "acquire", "locked", "blocking", "waiting", "process",
              "notifyOne", "requeue", "notifyAll", "exited"}

Waiting == {w \in Workers : pc[w] = "waiting"}

TypeOK ==
  /\ queue \in Seq(Entries)
  /\ mu \in Workers \cup {NoThread}
  /\ finished \in BOOLEAN
  /\ userPc \in UserPcs
  /\ pc \in [Workers -> WorkerPcs]
  /\ ent \in [Workers -> Entries \cup {NoEntry}]
  /\ pushed \in Seq(Entries)
  /\ popped \in Seq(Entries)
  /\ processed \subseteq Entries

Init ==
  /\ queue = <<>>
  /\ mu = NoThread
  /\ finished = FALSE
  /\ userPc = "body"
  /\ pc = [w \in Workers |-> "unborn"]
  /\ ent = [w \in Workers |-> NoEntry]
  /\ pushed = <<>>
  /\ popped = <<>>
  /\ processed = {}

-----------------------------------------------------------------------------
(* The condition variable and the queue.                                   *)

\* Mutant of PushBack: push_front.
PushFront(e) ==
  /\ mu = NoThread
  /\ e \in Entries \ Range(pushed)
  /\ queue' = <<e>> \o queue
  /\ pushed' = Append(pushed, e)

\* prioritized(), its critical section: a new entry goes to the back.
PushBack(e) ==
  /\ mu = NoThread
  /\ e \in Entries \ Range(pushed)
  /\ queue' = Append(queue, e)
  /\ pushed' = Append(pushed, e)

\* queue_cv.notify_one(): any one sleeper, if there is one.
WakeOne(others) ==
  IF Waiting = {}
  THEN pc' = others
  ELSE \E v \in Waiting : pc' = [others EXCEPT ![v] = "acquire"]

\* queue_cv.notify_all().
WakeAll(others) ==
  pc' = [w \in Workers |-> IF w \in Waiting THEN "acquire" ELSE others[w]]

-----------------------------------------------------------------------------
(* The user thread.                                                        *)

UserPush ==
  /\ userPc = "body"
  /\ \E e \in Entries : PushBack(e)
  /\ userPc' = "bodyNotify"
  /\ UNCHANGED <<mu, finished, pc, ent, popped, processed>>

UserNotify ==
  /\ userPc = "bodyNotify"
  /\ WakeOne(pc)
  /\ userPc' = "body"
  /\ UNCHANGED <<queue, mu, finished, ent, pushed, popped, processed>>

\* close() enters process_transactional: under queue_mu, finished = false.
BeginProcess ==
  /\ userPc = "body"
  /\ mu = NoThread
  /\ finished' = FALSE
  /\ userPc' = "spawn"
  /\ UNCHANGED <<queue, mu, pc, ent, pushed, popped, processed>>

Spawn ==
  /\ userPc = "spawn"
  /\ \E w \in Workers :
       /\ pc[w] = "unborn"
       /\ pc' = [pc EXCEPT ![w] = "acquire"]
  /\ UNCHANGED <<queue, mu, finished, userPc, ent, pushed, popped, processed>>

\* Mutant of SignalFinish: queue_mu is not taken.
SignalFinishUnlocked ==
  /\ userPc = "spawn"
  /\ \A w \in Workers : pc[w] # "unborn"
  /\ finished' = TRUE
  /\ userPc' = "notify"
  /\ UNCHANGED <<queue, mu, pc, ent, pushed, popped, processed>>

\* No more items: finished = true under queue_mu.
SignalFinish ==
  /\ userPc = "spawn"
  /\ \A w \in Workers : pc[w] # "unborn"
  /\ mu = NoThread
  /\ finished' = TRUE
  /\ userPc' = "notify"
  /\ UNCHANGED <<queue, mu, pc, ent, pushed, popped, processed>>

\* Mutant of NotifyFinish: the notification is forgotten.
FinishSilently ==
  /\ userPc = "notify"
  /\ userPc' = "join"
  /\ UNCHANGED <<queue, mu, finished, pc, ent, pushed, popped, processed>>

NotifyFinish ==
  /\ userPc = "notify"
  /\ WakeAll(pc)
  /\ userPc' = "join"
  /\ UNCHANGED <<queue, mu, finished, ent, pushed, popped, processed>>

\* Mutant of Join: it returns with the first worker that has left.
JoinEarly ==
  /\ userPc = "join"
  /\ \E w \in Workers : pc[w] = "exited"
  /\ userPc' = "done"
  /\ UNCHANGED <<queue, mu, finished, pc, ent, pushed, popped, processed>>

Join ==
  /\ userPc = "join"
  /\ \A w \in Workers : pc[w] = "exited"
  /\ userPc' = "done"
  /\ UNCHANGED <<queue, mu, finished, pc, ent, pushed, popped, processed>>

-----------------------------------------------------------------------------
(* A worker thread.                                                        *)

Acquire(w) ==
  /\ pc[w] = "acquire"
  /\ mu = NoThread
  /\ mu' = w
  /\ pc' = [pc EXCEPT ![w] = "locked"]
  /\ UNCHANGED <<queue, finished, userPc, ent, pushed, popped, processed>>

\* The predicate of queue_cv.wait is false: the worker is going to sleep.
TestFails(w) ==
  /\ pc[w] = "locked"
  /\ queue = <<>>
  /\ ~finished
  /\ pc' = [pc EXCEPT ![w] = "blocking"]
  /\ UNCHANGED <<queue, mu, finished, userPc, ent, pushed, popped, processed>>

Block(w) ==
  /\ pc[w] = "blocking"
  /\ mu' = NoThread
  /\ pc' = [pc EXCEPT ![w] = "waiting"]
  /\ UNCHANGED <<queue, finished, userPc, ent, pushed, popped, processed>>

SpuriousWake(w) ==
  /\ pc[w] = "waiting"
  /\ pc' = [pc EXCEPT ![w] = "acquire"]
  /\ UNCHANGED <<queue, mu, finished, userPc, ent, pushed, popped, processed>>

\* Mutant of Exit: a worker leaves as soon as `finished' is set.
ExitWithWork(w) ==
  /\ pc[w] = "locked"
  /\ finished
  /\ mu' = NoThread
  /\ pc' = [pc EXCEPT ![w] = "exited"]
  /\ UNCHANGED <<queue, finished, userPc, ent, pushed, popped, processed>>

Exit(w) ==
  /\ pc[w] = "locked"
  /\ queue = <<>>
  /\ finished
  /\ mu' = NoThread
  /\ pc' = [pc EXCEPT ![w] = "exited"]
  /\ UNCHANGED <<queue, finished, userPc, ent, pushed, popped, processed>>

Pop(w) ==
  /\ pc[w] = "locked"
  /\ queue # <<>>
  /\ ent' = [ent EXCEPT ![w] = Head(queue)]
  /\ queue' = Tail(queue)
  /\ popped' = Append(popped, Head(queue))
  /\ mu' = NoThread
  /\ pc' = [pc EXCEPT ![w] = "process"]
  /\ UNCHANGED <<finished, userPc, pushed, processed>>

\* ent->process() calls prioritized() any number of times.
HandlerPush(w) ==
  /\ pc[w] = "process"
  /\ \E e \in Entries : PushBack(e)
  /\ pc' = [pc EXCEPT ![w] = "notifyOne"]
  /\ UNCHANGED <<mu, finished, userPc, ent, popped, processed>>

\* Mutant of HandlerNotify: prioritized() does not notify.
HandlerForgets(w) ==
  /\ pc[w] = "notifyOne"
  /\ pc' = [pc EXCEPT ![w] = "process"]
  /\ UNCHANGED <<queue, mu, finished, userPc, ent, pushed, popped, processed>>

HandlerNotify(w) ==
  /\ pc[w] = "notifyOne"
  /\ WakeOne([pc EXCEPT ![w] = "process"])
  /\ UNCHANGED <<queue, mu, finished, userPc, ent, pushed, popped, processed>>

\* process() returns and the entry is deleted.
HandlerReturn(w) ==
  /\ pc[w] = "process"
  /\ processed' = processed \cup {ent[w]}
  /\ ent' = [ent EXCEPT ![w] = NoEntry]
  /\ pc' = [pc EXCEPT ![w] = "requeue"]
  /\ UNCHANGED <<queue, mu, finished, userPc, pushed, popped>>

\* The two `dummy' vectors are empty: no process() writes to them.
Requeue(w) ==
  /\ pc[w] = "requeue"
  /\ mu = NoThread
  /\ pc' = [pc EXCEPT ![w] = "notifyAll"]
  /\ UNCHANGED <<queue, mu, finished, userPc, ent, pushed, popped, processed>>

NotifyAll(w) ==
  /\ pc[w] = "notifyAll"
  /\ WakeAll([pc EXCEPT ![w] = "acquire"])
  /\ UNCHANGED <<queue, mu, finished, userPc, ent, pushed, popped, processed>>

-----------------------------------------------------------------------------

User ==
  \/ UserPush
  \/ UserNotify
  \/ BeginProcess
  \/ Spawn
  \/ SignalFinish
  \/ NotifyFinish
  \/ Join

Worker(w) ==
  \/ Acquire(w)
  \/ TestFails(w)
  \/ Block(w)
  \/ Exit(w)
  \/ Pop(w)
  \/ HandlerPush(w)
  \/ HandlerNotify(w)
  \/ HandlerReturn(w)
  \/ Requeue(w)
  \/ NotifyAll(w)

\* The transaction_impl is deleted after `done'; the last state may stutter.
Terminating == userPc = "done" /\ UNCHANGED vars

Next ==
  \/ User
  \/ \E w \in Workers : Worker(w) \/ SpuriousWake(w)
  \/ Terminating

\* The scheduler runs every thread that can run, and a thread that asks for
\* queue_mu is not overtaken for ever by sleepers that wake up spuriously.
Fairness ==
  /\ WF_vars(User)
  /\ SF_vars(SignalFinish)
  /\ \A w \in Workers : WF_vars(Worker(w))

Spec == Init /\ [][Next]_vars

FairSpec == Spec /\ Fairness

-----------------------------------------------------------------------------
(* Properties.                                                             *)

\* Entries leave the queue in the order in which prioritized() was called,
\* none is dropped and none is duplicated (transaction.h:255, transaction.cpp:382).
QueueIsFifo == pushed = popped \o queue

InHand == {w \in Workers : pc[w] \in {"process", "notifyOne"}}

\* Every entry taken from the queue is in the hands of exactly one worker or
\* its process() has returned once: no entry is processed by two workers,
\* and `delete ent' deletes it once (transaction.cpp:386-387).
ProcessedOnce ==
  /\ IsInjective(popped)
  /\ Range(popped) = processed \cup {ent[w] : w \in InHand}
  /\ \A w \in InHand : ent[w] \notin processed
  /\ \A v, w \in InHand : ent[v] = ent[w] => v = w

\* When close() has joined its workers nothing that was sent inside the
\* transaction is left unprocessed, including what handlers pushed after
\* `finished' was raised and other workers had already left
\* (transaction.cpp:380, 410-414).
DrainedAtJoin ==
  userPc = "done" => queue = <<>> /\ processed = Range(pushed)

\* Once `finished' has been announced no worker is asleep or can fall asleep
\* again: join() cannot wait for a thread nobody will notify
\* (transaction.cpp:379, 404-408).
NoSleeperAfterFinish ==
  userPc \in {"join", "done"} =>
    \A w \in Workers : pc[w] \notin {"blocking", "waiting"}

\* Workers that will look at the queue before they run another handler, or
\* that are about to wake somebody who will.
Attending ==
  {w \in Workers : pc[w] \in {"acquire", "locked", "notifyOne", "requeue", "notifyAll"}}

\* A worker sleeps only while each queued entry has another worker on its
\* way to it: no wake-up is lost and no entry waits behind a long handler
\* while a thread is idle (transaction.h:262, transaction.cpp:379, 398).
WorkConserving ==
  Waiting # {} => Len(queue) <= Cardinality(Attending)

\* Closing the transaction returns, whatever the workers' handlers push.
CloseReturns == <>(userPc = "done")

\* What closing a transaction promises (TxnDrain), under this mapping.
Drain == INSTANCE TxnDrain WITH
  pending <- Range(queue),
  running <- {ent[w] : w \in InHand},
  ran <- processed,
  phase <- CASE userPc \in {"body", "bodyNotify"} -> "body"
             [] userPc = "done" -> "closed"
             [] OTHER -> "draining"

\* Every step of the queue and its threads is a step of TxnDrain.
ImplementsDrain == Drain!Spec
=============================================================================
