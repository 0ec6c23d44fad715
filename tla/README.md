# Sodium (caesium-cxx) in TLA+

Caesium is the C++ implementation of Sodium, a library for functional reactive
programming, changed so that the handlers of one transaction run on several
threads.  This directory models its engine, checks the models with TLC, and
proves what its work queue, its transactions, its firings, its pointers and its
counts promise with TLAPS.

Contents: [the system](#the-system), [the modules](#the-modules),
[the runs](#the-runs), [the proofs](#the-proofs),
[where code and documentation disagree](#where-code-and-documentation-disagree),
[what is not modelled](#what-is-not-modelled), [the plan](#the-plan).

## The system

A program builds a graph of streams and cells and sends values into it inside
*transactions*.  The thread that opens a transaction collects entries in its
queue; when the outermost transaction is closed, `n_threads` workers drain the
queue, and what was put off to the end of the transaction is run after that.

| component | state | operations | talks to |
|---|---|---|---|
| queue and workers (`transaction_impl`, transaction.h:235-268, transaction.cpp:349-421) | `queue`, `queue_mu`, `queue_cv`, `finished`, `workers` | `prioritized`, `process_transactional` | handlers, which push more entries |
| partition (transaction.h:24-50, transaction.cpp:96-174) | `depth`, `mx`, `postQ`, `processing_post`, `on_start_hooks`, `processing_on_start_hooks` | `post`, `on_start`, `process_post` | transactions, posted actions, hooks |
| transaction object (transaction.cpp:428-510) | `impl_`, the thread-local `global_current_transaction` | constructor, `close`, `last` | partition, queue |
| nodes and handlers (transaction.h:75-232, sodium.h:28-210, sodium.cpp:89-205, sodium_base.h:400-719) | `targets`, `firings`, `coalesce_state`, `cell_state`, states of apply, switch, collect, once | `link`, `unlink`, `send`, `listen_raw`, the `handle` and `process` of each kind | each other through entries; `last` for what follows the transaction |
| stream life cycle (sodium_base.h:40-345, transaction.cpp:44-88, count_set.h, lock_pool.h) | counts of strong, stream and node references, `func`, cleanups | `add_ref`, `release`, `update_and_unlock`, `listen` | nodes, posted unlinks |
| packed counts (count_set.h) | three counts in the bit fields of a word, or in a heap object once one outgrows its field | `inc_*`, `dec_*`, `active`, `alive` | `listen_impl_func` |
| light_ptr and the lock pool (light_ptr.cpp, lock_pool.h) | a reference count under a spin lock chosen by address | create, copy, move, assign, destroy | all values |
| switch, split, once, loops (sodium.cpp:385-470, sodium.h:1381-1680, sodium_base.h) | `pKillInner`, loop targets, kill pointers | posts that link and unlink, and that open transactions | nodes, posts of the transaction |
| router (router.h) | a table of selectors and nodes, routes asked of a `router_loop` | `filter_equals`, `loop`, the release of a route | nodes, posts |
| ranks (transaction.cpp:180-262) | `node::rank` | `ensure_bigger_than` in `link` | nothing: this engine does not order entries by rank |
| thread pool (concurrency/) | job queue, `done` | `enqueue`, destructor | made by the partition, given no job |
| timers (time.h) | event queue, state of `at` | an `on_start` hook that sends what is due | partition, user's timer |
| promise (promise.h) | | | built from `once`, `hold` and `coalesce` |
| experimental engine (experimental/sodium/) | a queue ordered by rank, `last_q`, listeners and firings of nodes, cells, one recursive lock | transactions, `send`, `listen`, kill functions, `coalesce`, `hold`, `value`, `sample_lazy`, `loop` | its own magic_ref; separate from the rest |
| magic_ref (experimental/sodium/impl/) | links with a count, a colour, a `buffered` flag and children; `roots`, `to_delete` | make, copy, assign, destroy, `assign(a)`, `collect_cycles` | the experimental engine's streams and cells |

What is hard here, and what the properties are aimed at:

* *Threads and the queue.*  A condition variable guards the queue; workers
  push entries while others decide to leave.  A lost wake-up, a worker that
  leaves early or an entry taken twice depends on the order of single steps.
* *Nesting.*  Transactions are opened inside transactions, handlers, hooks and
  posted actions.  Which `close()` drains is decided by `depth`, a plain `int`
  of the whole partition, and which object is used by a thread-local pointer;
  both must agree about which transaction is the outermost.
* *Reentrancy.*  `process_post` and the hooks run code that reaches
  `process_post` and the hooks again, guarded by plain flags and a recursive
  mutex that is unlocked in the middle.
* *Handlers that share state.*  Two workers may run two handlers that share
  `oValue`, `update`, `current` or a list of firings, mostly without a lock.
* *Counts.*  A stream lives by three counts that share a word and may move to
  the heap in mid-life; a value by a count whose lock it shares with others; a
  cell of the experimental engine by one that a cycle collector takes down and
  puts back.
* *Links that move.*  A switch unlinks and links in a post; a loop or a router
  is tied after it has been listened to; listeners come late and kill
  themselves from inside the firing they hear.
* *Order.*  Entries are processed first in, first out.  The denotation of the
  library (one firing of a merge per transaction, cells that change only after
  it, the newest value wins) must follow from that order.  The experimental engine
  orders entries by rank instead, and the ranks of entries that are in the queue
  change when something is linked in the middle of a transaction.

What makes the components correct: the queue loses, repeats and strands
nothing and `close()` returns; the partition is at rest when no thread is in
it; nothing refers to a deleted `transaction_impl`; put-off actions run one at
a time, in order and outside transactions; listeners hear what the graph
denotes; cells have exactly the value they should between transactions; every
count is the number of references there are, at every moment at which someone
may act on it.

## The modules

| module | what it is |
|---|---|
| `TxnDrain` | what draining a transaction promises, with no threads, locks or queue |
| `WorkQueue` | `prioritized` and `process_transactional` with the mutex, the condition variable and the workers |
| `FifoLemmas`, `WorkQueueProofs` | facts on sequences and small numbers, and induction over the naturals, which the other proofs use too; the theorems about `WorkQueue` |
| `Transaction` | the partition and transaction objects, with the nesting of the code that uses them |
| `TransactionProofs`, `TransactionSequential` | the theorems about `Transaction`: for any threads, and where one user thread opens transactions |
| `Propagation`, `PropagationProofs` | handlers, entries and posts of a graph inside transactions, and the theorems about them |
| `CountSet` | the packed and the heap form of the counts |
| `StreamLife` | how streams are linked, kept alive and taken apart: `listen_impl_func`, its counts (those of `CountSet`) and cleanups, nodes and their links, kill functions |
| `StreamLifeProofs`, `StreamLifeSequential` | the theorems about `CountSet` and `StreamLife`: for any threads, and for one |
| `LightPtr`, `LightPtrProofs` | the counted pointer to a value and the pooled locks, and the theorems about them |
| `Switching` | switch, split, loops, once, router and the end of listeners, in one thread |
| `Ranked` | the experimental engine: ranks, the queue, transactions, streams and cells |
| `RefGraph` | what magic_ref promises: what a handle reaches lives, and nothing else does after a collection |
| `MagicRef` | the counts, roots and trial deletion of magic_ref |
| `MCWorkQueue`, `MCTransaction`, `MCPropagation`, `MCStreamLife`, `MCLightPtr`, `MCSwitching`, `MCRanked`, `MCMagicRef` | the instances for TLC: symmetry, graphs, programs |

`WorkQueue` implements `TxnDrain` (checked and proved).  `Transaction` uses
the steps of `TxnDrain` in place of the workers' inner loop: its `Start`,
`HandlerReturns` and `Join` are `Start`, `Finish` and `Closed` there.
`Propagation` refines the other side: what the handlers do between two
accesses to the queue.  `StreamLife` looks at the graph itself: what
`Propagation` takes as given, that a listener which is needed is linked and
that what is linked exists, is its subject, and of transactions it keeps only
what decides when a posted `unlink` runs.  `StreamLife` extends `CountSet`, so
its releases work on the packed word with its limits.  `Switching` takes over
where `Propagation` stops, at graphs whose links change; its entries are whole
steps, since what can go wrong there is the order of posts, not of field
accesses.  `MagicRef` implements `RefGraph`.  So the levels are checked apart,
and each has the interleavings that matter at its level.

**WorkQueue.**  `userPc` and `pc` say where each thread is in
`process_transactional`.  Taking `queue_mu` and what is done with it up to the
unlock are one step, except that testing the predicate and falling asleep are
two (`Acquire`, `TestFails`, `Block`), which is what `wait()` does while it
holds the mutex; that split is what makes `SignalFinishUnlocked` fail.
`notify_one` and `notify_all` come after the unlock, as in the code, and are
steps of their own.  `SpuriousWake` is the wake-up the standard allows.  A
handler pushes any of the entries that were not used yet, any number of times.
`dummy_single` and `dummy_queued` are never filled in this code, so `Requeue`
takes the mutex and changes nothing.

**Transaction.**  The code of a thread is its stack of frames, and a step is a
step of the top frame: a transaction object in its constructor, body or
`close()`, a handler on a worker, a hook, an action.  The `Nesting` constant
says from which kinds of code transactions may be opened.  `depth++` and
`depth--` are a read and a write; the test and the set of `processing_post`
are two steps.  `mx` is a recursive mutex that `process_post` unlocks before
the first action and `close()` unlocks at the end, though neither has locked it:
`Unlocked` by a thread that is not the owner has no effect, which is what the
threads library does for the recursive kind of mutex (it returns EPERM).
`freed`, `sent`, `processed`, `posted` and `ran` are history.

**Propagation.** A node has the kind of its handler: `sink`, `forward` (map,
merge: they pass on at once), `filter`, `snapshot`, `coalesce`, `last`
(last_firing_only), `hold`, `collect` (and accum), `once`, `applyF`, `applyA`
and `apply`, `listen`, and the `spark` at which `value()` of a cell begins.
Graphs are wired as the public interface wires them: a sink's stream is its
node coalesced, a `merge` with a function is coalesced, `apply()` maps its
first cell. In the code `applyF` and `applyA` are two handlers of one node. A
value is the sequence of sink values it was made from, so that a lost, doubled
or misplaced value is seen at the listener. Every access of a handler to a
shared field is a step: the test, the write and the post of `hold_handler`, the
read and the reset of `coalesce_entry`, the write, the test and the mark of the
apply handlers, the clear, the `push_front` and each `prioritized` of `send()`.
The body of a coalesce handler is one step, under `merge_mu`. A late listener
(`Chain`) links a chain of nodes inside a transaction, in the order in which
`listen()` and `value()` make them, and brings each link what its source has
fired already. `once()` unlinks itself through a transaction object of its
worker; what that object does otherwise is the subject of `Transaction`.
`Denote` states what the nodes of the graph should fire, from the sends alone,
and the properties compare. One exception is part of `OutputsAsDenoted`: who
listens to a cell in the transaction in which it is updated may hear the old
value first (the spark's snapshot overtakes the update), but hears the new one
last.

**StreamLife.**  A stream is its `listen_impl_func` (`counts`, `func`,
`cleanups`, and whether it was deleted) and its node (`nodeRefs`, the
`use_count` of its `shared_ptr`, `targets` and `sources`); a listener is a node
only.  Threads make sinks, derive streams, listen, unlisten, copy handles to
each other, let go of them and of sinks, inside or outside a transaction of
their own.  A destructor that runs inside another call, which is most of what
happens here, is a task at the head of the thread's `agenda`: releasing the
last handle runs the cleanups, a cleanup posts an unlink, the unlink drops a
node, whose destructor releases its sources, and so on down the chain.  A task
that holds a lock of the lock pool is one step.  `update_and_unlock` lets go of
the lock to run the cleanups, so it is the steps `DoRelease`, the kills,
`Clear` and `Relock`; the strong reference it takes for the time between is
what `DoReleaseUnguarded` leaves out, and then a stream is deleted by a call
inside its own cleanup.  `func` and `cleanups` are not guarded in between: that
no second thread comes is `CleanedOnce`.  The intermediate references that a
function takes and gives back with the stream held anyway are left out.

Posted unlinks run when `close()` finds `depth = 1` and `processing_post` down.
Nothing guards either, so `depth++` and `depth--` are a read and a write
(`ReadDepth` and `Raise`, `Fetch` and `Lower`), and the test of `depth`
(`CloseOwn`), the test and the set of the flag (`TestPosting`, `SetPosting`), each
post (`RunPost`), the last look at the queue (`NoMorePosts`) and the reset of the
flag (`ResetPosting`) are steps of their own.  With two threads `depth` may so be
any number, posts may run on both, and a post may stay behind; the properties of
this module hold all the same, and say what is left when it does.  The mutex
that `process_post` holds from one action to the next is left out, which allows
more orders than the code has.  `Openers` are the threads that open transactions of the
program's own, which they do while `depth` is within `MaxDrift` of 0.

One race is excluded on purpose: `DoListen` waits while another thread is between
its test and `func = NULL`.  `listen_impl` reads `func` without a lock there,
through a sink whose handle the other thread is letting go of; the hazard list
has it, and nothing in the repository says that it may be done.

**CountSet.**  A count set is a record: whether it is packed, and the three
counts.  `inc` moves a packed set to the heap when the field it increments is
full; arithmetic is modulo the width of the field in use, as the bit fields of
the code are unsigned.  The widths are constants, so that a run can have fields
of one bit, which are outgrown at once, and the theorems hold for the widths of
any build.

**LightPtr.**  `refers` is the object in whose count a pointer is counted.  An
operation on a pointer is entered (`Copy`, `Destroy`, `Assign`) and then makes
the steps `Lock`, `Read`, `Write`, `Unlock` and `Free`; an assignment goes
through them twice, down and then up.  `++` and `--` are a read and a write, so
that the lock has something to protect.  `count->del(value)` and `delete count`
come after the unlock, as in the code, and the address may be given out again
from then on.  `LockOf` is the hash of `spin_get_and_lock`, any function.
Pointers to null take the lock of address 0 and do nothing under it, so they are
single steps.  `operator=` does not occur with a null pointer on either side:
the code dereferences both counts.

**Switching.**  A program is a graph and the calls that make it, in order, so
that a call may come before, between or after the sends of a transaction.  A
link is a record of the handler it calls, the stream it belongs to and the node
it feeds.  `process` runs an entry with all that its handler calls; `Posted` runs
a post.  A split's post is a `Frame` step for each element: a transaction of
its own that is drained but runs no posts, since they are being processed.
`firings` is kept newest first, as in the code.  Tying a loop or a
`router_loop` a second time throws and changes nothing (`looped`, `tieRouter`);
the programs do so, with another stream.  A switch made in a transaction
in which its cell was updated more than once hears the updates newest first and
ends up following an older stream; `replayMany` says whether a program may do
that, and the instances that are checked do not (see below).

**Ranked.**  One thread at a time holds the engine's recursive lock, so a step is
an entry of the queue, or a part of a listener's callback.  `link_to` computes
the ranks by the recursion of `ensure_bigger_than`, with its set of visited
nodes; `check_regen` puts the entries under their new ranks when the engine
next looks at the queue.  A listener's callback may make streams and listeners,
be killed, or call `stream_sink::send`, which throws; the transaction may be
closed by `close()` or by the destructor of its last object.  A cell is its two
receptacles and whether they have become one (`joined`), which is what
`value = value_update` does to magic_refs.  `Meaning` is the denotation,
computed from what was sent and from the state at the start.  The properties
that compare with it ask for programs in which no cell was updated in an earlier
transaction (`Intact`): what happens after that is the second of the
configurations below.

**MagicRef.**  Every operation holds `link::lock` from end to end, so it is one
action.  `heap` has the fields of the links; `decrements` is the recursion from
a count that becomes zero through the destructor of the value to the next
count, as a list of the references still to go.  Roots are visited in the order
of a `std::set` of pointers, so objects are numbers and a new one takes any
free number.  Trial deletion is written as sets: what is reached through links
that are not yet grey is made grey, and each child's count goes down by its
occurrences.  `KeepsPromise` maps `contents` to the values of the links and
`live` to those that exist.  `Collect` has no guard but that the program is
still defined: if garbage refers to something in use, `delete_collected` gives up
a reference that `mark_grey` has counted out, and what is in use is left with a
count too low, or freed.  `overcounted` remembers that this happened; the model
stops there, and `RefGraph!CollectOutside` promises nothing of that one step.

## The runs

Bounds that keep the models finite: the sets of entries, posts and hooks (each
is used at most once), `MaxOpens` (transaction objects in a run), `MaxSends`
and `MaxTxns`, and in a program its calls and its `txns`, `scopes` and `sends`.
`MagicRef` bounds the references in a value (`MaxContents`), and `StreamLife` the
transactions of the program's own (`Openers`, `MaxDrift`, and the constraint `OwnAlone`).  All counters and
queues are bounded by these.

| run | instance | states | shows |
|---|---|---|---|
| `queue` | 3 workers, 3 entries | 43702 | all of `WorkQueue`'s properties, that `close()` returns, and the implementation of `TxnDrain`.  Three workers are one that sleeps, one that leaves and one whose handler pushes, at once; three entries fill the queue behind a handler that runs. |
| `transactions` | 1 user, 1 worker per close, 2 entries, 2 posts, 1 hook, 4 opens | 251174 | nesting in bodies, handlers and actions: the partition comes to rest with everything sent processed and all posts run, no dangling impl, posts outside transactions, no code of the program runs with the mutex held beyond what the library holds, every transaction closes.  Four opens are a transaction, one nested in its body, one opened by a handler or an action, and one after. |
| `transaction_hooks` | 1 user, 2 workers per close, 2 entries, 2 hooks, 6 opens | 25761 | hooks that open and close transactions inside a constructor do not run inside themselves. |
| `propagation_one` | 1 worker, graph `Mixed`, up to 3 sends of 4 values, 2 transactions | 189609 | with one worker the graph does what it denotes, also for a listener of a cell's value that comes late or leaves, and the second transaction finds what the first should leave and nothing else.  Three sends put two values on one sink and one on the other; two transactions show `once`, `collect`, `apply` and the cells before and after. |
| `propagation_two` | 2 workers, graph `Racing`, 1 send, 2 transactions | 34243 | what holds whatever two workers do: snapshots see the old cell, `coalesce_entry` finds a value, and after the posts no firing, update, value to coalesce or mark of `apply()` is left. |
| `stream_life` | 2 threads, a sink's stream, a stream derived from it and a listener on that; fields whose largest values are 1, 2 and 1 | 496679 | the counts are the references there are, before and after they outgrow the word; use after deletion, double cleanup, links cut too early, and what stays behind, for every order in which two threads make and drop these, and put off and run the unlinks.  Two threads are enough for two releases of one object to overlap; a chain of two is enough for a cleanup to release a second object that cleans up in turn.  The strong field is full with one reference, so that the change to the heap happens under a `listen()` and under a release that holds the stream.  Both threads open transactions inside calls at any time, with lost updates of `depth`; those of the program's own are open only while one thread has made all there is and the other does nothing (`OwnAlone`), which `StreamLifeDrift.cfg` does without. |
| `light_ptr` | 3 threads, 4 pointers, 3 addresses, 2 locks | 14225 | counts are pointers, nothing is used or deleted after its deletion.  Two addresses share a lock and one has its own; three threads are one that deletes, one that copies, and one that takes the freed address again. |
| `switching` | three programs: a switch between a sink and a tied loop, a router with a `router_loop` and a `listen_once`, a split into a hold; each loop is tied again in vain | 186015 | what fires and is heard is what the program denotes, wherever in a transaction it was made, and between transactions each switch, listener and route is linked exactly as it should be. |
| `ranked` | three programs: a loop tied late into a merge with paths of unequal length, a cell with snapshots, `value()` and lazy samples, and a graph with states, a filter and listeners that come late, are killed and throw | 72274 | ranks put first what is upstream, streams, listeners and cells get what the graph denotes, nothing is left over, and transactions end. |
| `magic_ref` | 2 handles, 3 receptacles, up to 2 references in a value | 151501 | counts are references, garbage can be found from the roots, a collection frees all of it and nothing else unless it refers to something in use, and every step is one of `RefGraph`.  Three receptacles make a cycle with a tail, two cycles that share one, and a self-reference with a double reference. |
| `hook_deadlock`, `two_paths` | small | | each a disagreement of code and documentation; see below. |

Two more configurations of `MCStreamLife` pass and are kept beside the runs.
`StreamLifeDrift.cfg` (386549 states) has a sink and a listener, and two threads that
open transactions of their own at any time, with `depth` from -1 to 1 when they do:
`NoUseAfterFree` and `NothingLeftBehind` hold however far the lost updates take it.
`StreamLifeOne.cfg` (2187 states) has one thread, the chain of `stream_life` and such
transactions: no post stays behind (`NoPostStays`), which is proved too.

`Mixed` has two sinks; their merge with a function; a hold, a filter, a
once and a collect on one or the other; one cell applied to the other, and a
hold of the result; and a late listener of a cell's value.  The two paths to
the apply are equally long: with unequal ones it fires twice, as the merge of
`two_paths` does.  `Racing` has one sink with
a path of length one and one of length two to a coalesce and to two snapshots.
In `switching` and `ranked` the initial state chooses one of several programs,
so that each stays small while together they have every kind of stream.
Symmetry is used only in runs without liveness properties.  `ranked`,
`switching` and `magic_ref` do not check deadlock: their programs end when the
bounds are used up, and in `ranked` a callback's exception out of a destructor
ends the program, as it does in C++.

*Fairness.*  `WorkQueue!FairSpec` is weak fairness of the user thread and of
each worker (a thread that can run does), and strong fairness of the user
thread's one lock of `queue_mu` after the workers are started: a lock that is
free again and again is granted.  Spurious wake-ups are never required.
`Transaction!FairSpec` is weak fairness of each thread.  The code relies on
both: it joins its workers with no timeout.  `Ranked!Spec` is weak fairness of
the engine, which runs to the end of a transaction without waiting for
anything, and of the end of scopes: the outermost transaction object of a
program goes out of scope at last (strong fairness, since nested ones may come
and go before).

*Why the properties of one user thread are worth stating.*  `RestState` and
`NoDanglingImpl` fail with two user threads (see the list below); the tests and benchmarks of the repository use one.  They
say that nesting, hooks, handlers and posts never confuse the partition by
themselves.

## The proofs

`WorkQueueProofs` proves for any sets of workers and entries:

| theorem | says |
|---|---|
| `TypeCorrect` | `TypeOK`, strengthened by "a worker in `process()` holds an entry" |
| `NoSleeper` | no worker sleeps, or is about to, after `finished` was announced |
| `Conserving` | with finitely many workers, one sleeps only while every queued entry has another worker on its way to it |
| `Fifo` | entries leave the queue in the order in which they came |
| `OneWorkerPerEntry` | each entry is processed once, by one worker |
| `Drained` | with at least one worker, `close()` returns with all entries processed |
| `WorkQueueImplementsDrain` | with at least one worker, `WorkQueue` implements `TxnDrain` |

The argument has two inductive invariants.  `ControlInv` says who is where:
a worker that is between its test and its sleep owns the mutex, and
the user thread's place tells whether `finished` is set and workers exist.
This is why the flag must be raised under the mutex: a worker that owns it has
not seen the flag and is not asleep yet, so the announcement comes after it
sleeps.  `DataInv` says where every entry is: `pushed` is `popped` followed by
the queue, without repetition, and what was popped is in one worker's hand or
processed.  `Drained` needs one more fact: when all have exited, the queue
was empty when the last left, and only workers inside a handler could push.
The hypothesis `Workers # {}` is needed: with none, `close()` returns with a
full queue.  The refinement maps the hands of the workers to `running`.
`Conserving` counts: the worker
that pushes an entry attends to it until it has notified, and the one it wakes
takes its place; a worker falls asleep with the mutex and an empty queue.
`FifoLemmas` has the facts on sequences.

Assumptions: the named ones of `WorkQueue` (the null values are not members of
the sets).

`TransactionProofs` proves for any threads, entries, posts, hooks and bounds, and
any nesting of transactions in bodies, handlers, hooks and actions:

| theorem | says |
|---|---|
| `TypeCorrect` | `TypeOK` |
| `HooksRunAlone` | `HookRunnerExclusive`: one frame at a time runs the hooks, and what hooks open does not run them again |
| `LockStaysInLibrary` | `LockOnlyInLibrary`: a thread has `mx` at most once for each of its objects whose constructor or `close()` is inside the locked part, so handlers, actions and bodies run without it |

A step changes one thread's stack at its top, or starts or ends the workers of a
`close()`; the lemmas on shapes (`Moves`, `Pushes`, `Calls`, `Pops`) say which it
is for every action, and `Traffic` says once how each step changes the number
of frames at each place.  `Typed` is `TypeOK` made inductive.  `Budget`: the
objects that have not got to `Make` and the impls that were made are together
no more than the transactions opened, which is why a fresh impl exists.
`Named`: an impl that something refers to was made.  `Grounded`: the bottom of
a worker's stack is its loop.  `HookFlag`: `processing_on_start_hooks` is set
exactly while a frame runs hooks, and there is one.  `Held`: the count of the
recursive mutex is at most the number of its owner's objects in the places that
lock it; `process_post` unlocking what `close()` never locked is what makes the
exact count false.

`TransactionSequential` proves, under `Sequential(u)`:

| theorem | says |
|---|---|
| `ImplsOutliveUse` | `NoDanglingImpl`: nothing refers to a deleted impl |
| `PostsRunOutside` | `PostsOutsideTransactions`: an action starts only when no object of any thread is open |
| `PostsRunAlone` | `PostRunnerExclusive`: one thread at a time runs posts, though actions open and close transactions |
| `ComesToRest` | `RestState`: the partition at rest is as it was built, with all that was sent processed; where handlers do not send inside transactions of their own (`CallbackSends = FALSE`) |

`Sequential(u)` is the use that this bookkeeping is correct for: `u` is the only
user thread, any number of workers run its entries, and if handlers open
transactions there is one worker.  Without it the four are false, as the
next section says.  `Orderly(u)` is the inductive invariant.  `Waits`: workers
run while `u` is in `join` of a `close()`, for its impl.  `Layered`: which kinds of
frames can lie on which.  With these, `Alone`: of all stacks one is where the program
goes on, so the reads and writes of `depth` and of the flags do not interleave.
`DepthExact` and `DepthCurrent`: `depth` is the number of objects it counts,
and what was read of it is still true when it is written.  `ImplShared` and
`ImplCurrent`: the open objects of a thread share its current impl, which is
not deleted.  `PostFlag`, `PostPending`: `processing_post` is set while posts
are run, and posts wait only while a `close()` that will run them is under way.
`Drains` adds that what was sent is processed, in its impl's queue or in a
worker's hand, and that only `u`'s current impl has entries.

`PropagationProofs` proves for any graph, values, workers and bounds:

| theorem | says |
|---|---|
| `TypeCorrect` | if cells have values, `TypeOK`: every entry, post, firing and kept value fits the node it is for |
| `CombinedIsThere` | if cells have values, `CoalesceEntryHasValue` |
| `NothingStays` | if cells have values, `NothingLeft` |
| `OneWorkerCells` | with one worker, cells have values (`CellsHaveValue`) |
| `OneWorkerKeeps` | with one worker, the first three with no hypothesis |

"If cells have values" is the hypothesis `[]CellsHaveValue`.  It is false of
some executions with two workers: both may find that theirs is the first
update, `finalize()` then runs twice, and the cell takes the value of an empty
optional (`PropagationHoldRace.cfg`).  What a snapshot of it computes after
that is undefined in the code, so nothing can be said of the values that
follow.  With one worker it is proved, by
`Finalizing`: the post is queued only with an update, and once, and the
worker that is to write the first update finds none.

The inductive invariant pairs what a transaction does with what undoes it.
`Clearing`: a node that has fired has its `clear` among the posts, from before
the firing.  `Updating`: an updated cell has its `finalize`, or a worker that is
about to put it.  `Combining`: a node that coalesces has a value exactly while a
`coalesce_entry` of it is in the making, in the queue or in process, and there is
only one: the handler makes one when it finds `oValue` empty, under `merge_mu`,
and the reset comes last.  `Applying`: a marked `apply()` has an entry.  `Calm`:
workers and queue rest outside of the drain, and posts are done at the end.  At
rest all four say that nothing is left.  `Typed` and `Staged` say what a worker
holds at each place.  A step of a worker is `Ordinary`, when the invariant sees no
difference in the worker's record, or a `Turn`, with a lemma for each of the nine.
What `Only` picks from a list (`OnlyType`) is proved by induction over its
recursive function; `NatSetInduction` has the induction with a set for its
predicate, from the well-foundedness of `<`.

Assumptions: `GraphAssumption` (the kinds of nodes and how the public interface
links them), `ValuesAssumption` (an empty optional is no value) and the bounds.

`LightPtrProofs` proves for any threads, any finite set of pointers, any
addresses and any assignment of locks to them:

| theorem | says |
|---|---|
| `TypeCorrect` | `TypeOK` |
| `Counted` | `CountsArePointers`: the count of a live object is the number of pointers to it, and an object with none is about to be deleted by a thread |
| `Safe` | `NoUseAfterFree`: counts are read and written, and objects deleted, only while they live, and no pointer dangles |

`CountsArePointers` is not inductive: it must be known that nobody changes the
count between the read and the write of `++`.  `IInv` adds why.  `Locked`: a
thread between `GET_AND_LOCK` and `UNLOCK` has the lock of its object's address.
`Fresh`: so what it read is still there when it writes.  `Pinned`: the object an
operation counts is held by the pointer that is to lose it, or by the one being
copied, until the count is written; so the count is not zero when an increment
begins.  `Apart`: no two threads change one pointer, or one changes what another
copies; this is what C++ asks of its users, and where the two-thread case of a
destruction and a copy of *different* pointers to one object is left to the lock.
`Alone`: of the threads that let go of an object only one sees zero, and no
pointer refers to it then.  `AllLive`: pointers refer to what lives.  There is a
lemma for each action.  Assumptions: finitely many pointers
(`HandlesAssumption`, as counting is cardinality), every address has a lock
(`LocksAssumption`), and the null values are not addresses or threads
(`NamesAssumption`).

`StreamLifeProofs` begins with `CountSet`: it proves, for any widths of the fields, `IncAddsOne` (an increment
below the limit of the heap's counts adds one to its count and leaves the other two alone, whether it
happens in the word, moves all three to the heap, or happens there) and
`DecTakesOne`.  The lemma `NoWrap` is why the word is left in time: the
arithmetic modulo the width of a field never wraps, since a full field is moved
first.  Assumption: `LimitsAssumption`, the counts on the heap are wider than
each field.  With these, what `CountsAreReferences` checks with fields of
one bit says the same of the fields of a real build.

About `StreamLife` it proves for any finite sets of threads, streams and listeners,
any sources of each and any widths of the bit fields:

| theorem | says |
|---|---|
| `InvAlways` | if there is room, `Inv`, the inductive invariant below, with `TypeOK` |
| `CountsCorrect` | if there is room, `CountsAreReferences`: strong, stream and node references and users of nodes are counted right |
| `NotUsedAfterFree` | if there is room, `NoUseAfterFree` |
| `CleanedUpOnce` | if there is room, `CleanedOnce`: one thread runs the cleanups of a stream, once, and before it is deleted |
| `StaysWired` | if there is room, `WiredWhileNeeded`, of streams that are held and of those that are only listened to |
| `AllTakenApart` | if there is room, `NothingLeftBehind` |

"If there is room" is the hypothesis `[]Room`: no count of a
`listen_impl_func` has reached `LargeMax` (`UINT_MAX` in a build), so that one more
reference does not wrap it.  The code has no test for that, and the theorems are
false where it happens: a count that wraps to zero deletes a stream with four
thousand million handles.  All executions of the runs have room (with
their `LargeMax = 7`, no count gets to 7), so the hypothesis leaves none of them out.

The first six hold for any number of threads and whatever they read of `depth` and
`processing_post`: `Inv` has no part about either.  What they need of a post is only that it
unlinks a stream that was cleaned up, whenever and wherever it runs.  So
`AllTakenApart` cannot say that posts run: what is cleaned up is unlinked "unless
its post stayed behind", and all is deleted if none did.

`CountsAreReferences` by itself says nothing of who releases a reference and when,
and each of the properties needs another part of that.  The parts of `Inv`:

* `Counted` is `CountsAreReferences` over agendas: a reference is in a handle, in
  a list of sources or targets, or in a task that will release it.
* `Fresh`: what is not made yet is not there.  `Founded`: streams are made from
  streams made before them, so no set of made objects has a cycle.
* `Ordered`: what a call uses it releases later.  The tasks that link a listener
  come before the one that drops its node, removing a source before the
  release of the node, `clear` before `relock`.  This is what makes an object
  named by a task alive when its turn comes.
* `Building`: who makes a stream holds it and what it is made from.
* `Cleaned`: of the tasks that end a clean-up there is at most one for each stream,
  `func` is there until it, and `cleanups` is empty from its start.  A stream that
  can fire and is held is not being cleaned up.
* `Living`: deleted is what has no reference, and what is not cleaned up or about
  to be is `active()`; this joins the counts to the state of `func`.
* `Emptied`: a node that is gone has no links.
* `Linked`: a source has its target, unless the removal is under way (`Sourced`);
  targets and cleanups are of the streams it was made from (`Related`); a cleanup
  of a stream whose source exists still has its link (`Wired`); and every link has
  a cleanup, a task or a post that will undo it (`Undoable`).  `Undone`: links
  are undone only for a stream that is cleaned up.

Two consequences are used everywhere.  `Used`: what is named by a task, handle or
link is there.  `Referred`: a count is zero exactly when nothing refers; so
`AllTakenApart` follows from `Founded`: among the nodes that are left when no
handle and no sink is, there is one that nothing left is a source of.

A step takes tasks off one thread's agenda and puts others in their place
(`Does`, `Moves`).  The lemmas on forms say for each action what those are and what
else it changes (`Step`; `Apart` has the steps that leave streams and nodes
as they are).  Counting is done once: `Occurs` of tasks, sources and targets
changes by what a step adds and takes, `Weighs` says what a list of tasks is
worth in references, and `Balanced` that a step changes a number and its
references by the same.
Then there is one lemma for each part of `Inv` that more than one form of step
disturbs.  `Without`, what remains of the sources when one is removed, is a
recursive function; what it does to counts is proved by induction over the
length (`WithoutType`).  TLC checked each part of `Inv` as an invariant of the
run's instance before it was proved.

`StreamLifeSequential` proves the other half, `AllPostsRun`: with one thread `t`, if there is
room, `NoPostStays`.  Its invariant is `Single(t)`: `depth` is the number of
transactions that are open, of the program's own and of calls that are under way (`Levels`), and what was read of it is still so; `processing_post` is up
exactly while the agenda has a runner of posts; only the first task can be in the
middle of an update; and while posts wait there is a runner, a `close()` that has
found `depth = 1`, or a transaction still to be closed.  With two threads TLC finds
`NoPostStays` violated (`StreamLifeTwo.cfg`).

Assumptions: `ObjectsAssumption`, `SourcesAssumption`, `LimitsAssumption`, and
`FiniteAssumption` (finitely many threads and objects, as counting is cardinality).

Only model-checked: `CloseReturns`, `EveryTransactionCloses` and
`TransactionsEnd` (liveness is out of the prover's reach); what listeners hear
and cells hold in `Propagation` (`OutputsAsDenoted`, `CellsAsDenoted`,
`OrderKept`, `SnapshotsAsDenoted`), which compares a run with the recursive
`Denote`; and `Switching`, `Ranked` and `MagicRef` with `RefGraph`,
whose searches of a graph are recursive operators.

## Where code and documentation disagree

Each of these runs must end with a counterexample.

| run | where | what happens |
|---|---|---|
| `hook_deadlock` | transaction.cpp:442 | a hook's transaction joins a worker that waits for the mutex the hook's thread holds; `timer_system` installs such a hook |
| `two_paths` | transaction.cpp:382 | with one worker, a sink that reaches a merge by paths of different length makes it fire twice in a transaction |

These configurations are kept beside the runs; TLC finds a counterexample of
the property each has.

| configuration | module | property | what happens |
|---|---|---|---|
| `TransactionTwoUsers.cfg` | `MCTransaction` | `PostRunnerExclusive` | `processing_post` is tested with no lock (transaction.cpp:145): two threads run posts at the same time, which the comment above it excludes |
| `TransactionCallbackSend.cfg` | `MCTransaction` | `NoSendInHandler` | `send()` in a handler on a worker is not refused (sodium.h:1170), and its value is never processed; sodium.h:571-573 and `cant_send_in_handler` (tests/test_sodium.cpp:980) promise an exception |
| `PropagationCoalesceRace.cfg` | `MCPropagation` | `NoFiringLost` | a value combined between the read and the reset of `oValue` (transaction.cpp:296) is lost; sodium.h:768-769 says that it is combined |
| `PropagationHoldRace.cfg` | `MCPropagation` | `CellsHaveValue` | two workers both find that theirs is the first update (sodium.h:114); the second `finalize()` takes the value of an empty optional |
| `RankedCell.cfg` | `MCRanked` | `CellKeepsUpdate` | experimental/sodium/sodium.h:565-570: `value = value_update` makes the two magic_refs share a receptacle, and `value_update.reset()` empties it; lines 153-157 say that the state changes of `hold` are applied |
| `RankedDiamond.cfg` | `MCRanked` | `CombinedIntoOne` | `ensure_bigger_than` (experimental/sodium/transaction.cpp:16) raises each node once: when a loop is tied to a stream of higher rank, a merge at the end of paths of unequal length can get a rank below the longer one, and `coalesce` fires twice; lines 98-100 of sodium.h say that simultaneous firings are combined |
| `StreamLifeTwo.cfg` | `MCStreamLife` | `NoPostStays` | two threads test and change `depth` and `processing_post` with no lock (transaction.cpp:145, 478-508): an unlink stays in `postQ` when all calls are over, and with it the source's link and the node of the target, until another transaction is closed or for ever |
| `MagicRefOutside.cfg` | `MCMagicRef` | `HeldAlive` | deleting a collected cycle (experimental/sodium/impl/magic_ref.cpp:65) destroys its values, which gives up references to objects outside that `mark_grey` (line 117) has counted out already: an object that one handle refers to is freed, and the handle dangles; with more references its count is one too low and it is among the roots again.  The comment at lines 68-70 says that cleaned up cycles should not be able to change anything outside of themselves |
| `SwitchingSplit.cfg` | `MCSwitching` | `StatePerFrame` | the transactions of `split()` are closed while posts are processed, so the cells that an element updates have their old value at the next (sodium.h:1660-1675); lines 1656-1658 say that state is updated separately for each |

The same models show more that no configuration is kept for: `lift()` of two cells made
from one sink fires twice in one transaction with one worker, once with an
argument that is still old, where `test_sodium::lift_glitch`
(tests/test_sodium.cpp:562-577) expects one firing (`apply()` puts a map into
the path of its first cell, and the shorter path comes first); with
`hardware_concurrency() = 0` `DrainedAtJoin` fails; two user threads whose
transactions overlap leave entries unprocessed and a stale current transaction
(`RestState`); two handlers that open transactions at the
same time lose an update of `depth`, and a worker then drains and runs posts
inside the outer transaction;
with FIFO order the left argument of a combining function is
what was sent first, not what came from the left stream (sodium.cpp:80); the
handlers of a transaction run at the same time, which time.h:101-102 excludes.  Firings
are replayed to a late listener newest first (`push_front` at sodium.cpp:157, the loop
at transaction.cpp:319), so a switch or a hold made after its source has fired
twice ends with the older value (`replayMany = TRUE`).  A split that updates
the cell of a switch twice in one transaction can leave the switch linked to both streams.
In the experimental engine a late listener of a merge, coalesce or filter misses
what it has fired already, since `add_cleanup` gives the stream its own
list of firings (experimental/sodium/sodium.h:236-257), and after a callback's exception in
`close()` the lock is never released (experimental/sodium/transaction.cpp:94-113).
The kill function of `listen_once` deletes its `h_keepalive` each time it is called
(sodium.h:690-699).

## What is not modelled

* Exceptions.  One that leaves a handler on a worker thread ends the process;
  the catch path of `close()` (transaction.cpp:489-501) is reached only by an
  exception of the user thread inside `process_transactional`, such as a
  failure to start a thread.
* The partition's destructor, and the `SODIUM_SINGLE_THREADED` and
  `pthread_specific` builds.
* The mutex of `process_post` in `StreamLife`, which allows more there than the code
  does (`Transaction` has it).
* What a program does after a collection that miscounted or freed what is in use.
* Torn accesses: a data race on a list or on `depth` is a choice among the
  orders of its reads and writes, not of its bytes.
* Handlers that build graph (`listen`, `hold`, ... inside a handler), other
  than those of switch in the main engine and the callbacks of `Ranked`.
* A `listen()` that meets the end of `func` on another thread (see `StreamLife`),
  and cleanups that the program adds itself.
* The use of a deleted `transaction_impl` by the post of a switch (sodium.h:198
  keeps the pointer): `Switching` has no step for memory that is gone.
* `switch_c` and `cell_loop`, which are made of the same links and posts; the
  switch of the experimental engine.
* Two threads in the experimental engine: its lock keeps whole transactions
  apart.  `magic_ref::unsafe_get`, and a value that assigns the magic_ref that
  holds it.
* Timers: their hook does not return (`hook_deadlock`), so nothing they would do
  afterwards is behaviour of this code.  The thread pool, which is given no job.
  Node ranks of the main engine, which nothing reads.  Promise, a few lines over
  what `Propagation` has.

## The plan

What is done: `WorkQueue`, `TxnDrain`, `Transaction`, `Propagation`,
`StreamLife` with `CountSet`, `LightPtr`, `Switching`, `Ranked`, `MagicRef`
with `RefGraph`; the proofs about `WorkQueue`, `Transaction`, `Propagation`,
`LightPtr`, `CountSet` and `StreamLife`.

What is next, in this order:

1. Proofs: that what `Transaction` does with a queue implements `TxnDrain`;
   the snapshot's view of the cell for any graph and any number of workers.
2. `Propagation`: what remains true when two workers meet at an apply, a
   collect or a once.
3. `Switching` with two workers, and with switches made by handlers.
4. `ThreadPool`: its destructor against its workers.
