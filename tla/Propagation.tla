---------------------------- MODULE Propagation -----------------------------
(***************************************************************************)
(* The firing of a graph of streams and cells inside transactions: send(), *)
(* the process() of the entries it queues, and the handle() of each kind   *)
(* of handler, run by the workers of a transaction; then the posts that    *)
(* last() put off to its end.                                              *)
(*                                                                         *)
(* A node has the kind of the handler that its sources were linked to it   *)
(* with.  A sink's stream is its node coalesced; value() of a cell begins  *)
(* at a spark.  A value is the sequence of the values of sinks it was made *)
(* from: combining functions concatenate, snapshot appends the cell's      *)
(* value, and the spark's own value is empty.                              *)
(* What handlers of different workers share (oValue, update, current, the  *)
(* states of collect, once and apply, and the firings of a node) is read   *)
(* and written a field at a time; the one lock of the handlers, merge_mu,  *)
(* makes the body of a coalesce handler one step.  The queue and the posts *)
(* are taken with their locks.                                             *)
(***************************************************************************)
EXTENDS Naturals, Sequences, FiniteSets, SequencesExt

CONSTANTS Workers,        (* the worker threads of a transaction             *)
          Nodes,          (* impl::node objects                              *)
          Kind,           (* Kind[n]: the handler that fires node n          *)
          Links,          (* Links[n]: n's targets, in their order, at first *)
          CellOf,         (* CellOf[n]: the hold node of the cell n samples, *)
                          (* or whose value() comes to a part of an apply()  *)
          ApplyOf,        (* ApplyOf[n]: the output node of n's apply()      *)
          Chain,          (* Chain[n]: the links, as pairs, that are made    *)
                          (* for a late listener n, in their order           *)
          Values,         (* values sent to sinks, each at most once         *)
          InitValue,      (* what cells hold at first                        *)
          NoValue,        (* an empty boost::optional                        *)
          MaxSends,       (* bound on the sends in one transaction           *)
          MaxTxns         (* bound on the transactions                       *)

NodesOf(k) == {n \in Nodes : Kind[n] = k}
Sinks == NodesOf("sink")
Cells == NodesOf("hold")
Listeners == NodesOf("listen")
Merging == NodesOf("coalesce") \cup NodesOf("last")
Applies == NodesOf("apply")
Parts == NodesOf("applyF") \cup NodesOf("applyA")
Late == DOMAIN Chain

\* The elements of sequence s that are in set S, in their order.  (SelectSeq with
\* a set for its test: the provers have no definition of SelectSeq.)
Only(s, S) ==
  LET kept[k \in 0 .. Len(s)] ==
        IF k = 0 THEN <<>>
        ELSE IF s[k] \in S THEN Append(kept[k - 1], s[k]) ELSE kept[k - 1]
  IN kept[Len(s)]

\* What the chain of a late listener links to node m, the last one first.
Linked(n, m) ==
  LET from == Only(Chain[n], {m} \X Nodes)
  IN Reverse([k \in DOMAIN from |-> from[k][2]])

\* value() makes a node that fires once, at once, before anything is linked.
Sparks(n) == {Chain[n][k][1] : k \in DOMAIN Chain[n]} \cap NodesOf("spark")

Kinds == {"sink", "spark", "forward", "filter", "snapshot", "coalesce", "last", "hold",
          "collect", "once", "applyF", "applyA", "apply", "listen"}

ASSUME GraphAssumption ==
  /\ Kind \in [Nodes -> Kinds]
  /\ Links \in [Nodes -> Seq(Nodes)]
  /\ CellOf \in [NodesOf("snapshot") \cup Parts -> Cells]
  /\ ApplyOf \in [Parts -> Applies]
  /\ \A s \in Sinks : Len(Links[s]) = 1 /\ Links[s][1] \in Merging
  /\ Late \subseteq Listeners
  /\ Chain \in [Late -> Seq(Nodes \X Nodes)]
ASSUME ValuesAssumption ==
  /\ InitValue \notin Values
  /\ NoValue \notin Seq(Values \cup {InitValue})
ASSUME PropagationBoundsAssumption == MaxSends \in Nat /\ MaxTxns \in Nat

VARIABLES
  targets,                (* node::targets                                   *)
  firings,                (* node::firings, the newest first                 *)
  oValue,                 (* coalesce_state::oValue of each merging node     *)
  current,                (* cell_state::current                             *)
  update,                 (* cell_state::update                              *)
  pState,                 (* the state of collect and accum                  *)
  ppKill,                 (* once() still has its kill function              *)
  applied,                (* applicative_state                               *)
  queue,                  (* transaction_impl::queue                         *)
  posts,                  (* partition::postQ                                *)
  phase,                  (* where the user thread is in its transaction     *)
  worker,                 (* what each worker thread does                    *)
  txns,                   (* how many transactions were opened               *)
  sends,                  (* history: the <<sink, value>> of the transaction *)
  used,                   (* history: the values sent so far                 *)
  joined,                 (* history: the late listeners of the transaction  *)
  out,                    (* history: what each listener got in it           *)
  old                     (* history: the memory of the graph when it began  *)

vars == <<targets, firings, oValue, current, update, pState, ppKill, applied, queue,
          posts, phase, worker, txns, sends, used, joined, out, old>>

user == <<phase, txns, sends, used, joined, old>>
cells == <<current, update>>
states == <<pState, ppKill, applied>>

\* What a transaction finds when it begins.
Memory == [current |-> current, pState |-> pState, ppKill |-> ppKill]

-----------------------------------------------------------------------------

\* A send_entry or a firing_entry carries values, the other entries none.
Carry(n, vals) == [type |-> "values", node |-> n, vals |-> vals]
Coalesced(n) == [type |-> "coalesce", node |-> n, vals |-> <<>>]
Applied(n) == [type |-> "apply", node |-> n, vals |-> <<>>]

Idle == [pc |-> "idle", entry |-> Coalesced(NoValue), val |-> NoValue, first |-> FALSE, k |-> 0]

WorkerPcs == {"idle", "handle", "announce", "holdWrite", "holdPost", "collectWrite",
              "killTest", "kill", "applyTest", "applyPush", "combined", "apply", "applyTo",
              "send", "clear", "fire", "ship", "reset", "unfire"}

At(w, pc) == worker[w].pc = pc
NodeOf(w) == worker[w].entry.node
Arg(w) == Head(worker[w].entry.vals)
Goto(w, pc) == [worker EXCEPT ![w].pc = pc]
GoSend(w, v) == [worker EXCEPT ![w] = [@ EXCEPT !.pc = "send", !.val = v]]

\* The handler returns: a firing_entry goes on with its next value.
Returned(r) ==
  IF r.entry.type = "coalesce" THEN [r EXCEPT !.pc = "reset"]
  ELSE IF r.entry.type = "apply" THEN [r EXCEPT !.pc = "unfire"]
  ELSE IF Len(r.entry.vals) = 1 THEN Idle
  ELSE [r EXCEPT !.pc = "handle", !.entry = Carry(r.entry.node, Tail(r.entry.vals))]
Done(w) == [worker EXCEPT ![w] = Returned(@)]

IsValue(v) == v \in Seq(Values \cup {InitValue})
IsOptional(v) == v = NoValue \/ IsValue(v)

TypeOK ==
  /\ targets \in [Nodes -> Seq(Nodes)]
  /\ \A n \in Nodes : \A k \in DOMAIN firings[n] : IsValue(firings[n][k])
  /\ \A n \in Merging : IsOptional(oValue[n])
  /\ \A c \in Cells : IsValue(current[c]) /\ IsOptional(update[c])
  /\ \A n \in NodesOf("collect") : IsValue(pState[n])
  /\ ppKill \in [NodesOf("once") -> BOOLEAN]
  /\ \A n \in Applies : IsOptional(applied[n].f) /\ IsOptional(applied[n].a)
  /\ \A e \in Range(queue) : e.node \in Nodes /\ e.type \in {"values", "coalesce", "apply"}
  /\ \A p \in Range(posts) : p.node \in Nodes /\ p.type \in {"clear", "finalize", "unlink"}
  /\ phase \in {"rest", "body", "drain", "post"}
  /\ \A w \in Workers : worker[w].pc \in WorkerPcs /\ IsOptional(worker[w].val)
  /\ txns \in 0 .. MaxTxns
  /\ Len(sends) <= MaxSends

Init ==
  /\ targets = Links
  /\ firings = [n \in Nodes |-> <<>>]
  /\ oValue = [n \in Merging |-> NoValue]
  /\ current = [c \in Cells |-> <<InitValue>>]
  /\ update = [c \in Cells |-> NoValue]
  /\ pState = [n \in NodesOf("collect") |-> <<InitValue>>]
  /\ ppKill = [n \in NodesOf("once") |-> TRUE]
  /\ applied = [n \in Applies |-> [f |-> <<InitValue>>, a |-> <<InitValue>>, fired |-> FALSE]]
  /\ queue = <<>>
  /\ posts = <<>>
  /\ phase = "rest"
  /\ worker = [w \in Workers |-> Idle]
  /\ txns = 0
  /\ sends = <<>>
  /\ used = {}
  /\ joined = {}
  /\ out = [n \in Listeners |-> <<>>]
  /\ old = Memory

-----------------------------------------------------------------------------
(* The user thread: the body of a transaction, before its close().         *)

Open ==
  /\ phase = "rest"
  /\ txns < MaxTxns
  /\ phase' = "body"
  /\ txns' = txns + 1
  /\ sends' = <<>>
  /\ joined' = {}
  /\ out' = [n \in Listeners |-> <<>>]
  /\ old' = Memory
  /\ UNCHANGED <<targets, firings, oValue, cells, states, queue, posts, worker, used>>

\* What send(n, trans, v) adds to the posts and to the queue.
ClearPost(n) == IF firings[n] = <<>> THEN <<[type |-> "clear", node |-> n]>> ELSE <<>>
ClearPosts(S) == [k \in 1 .. Cardinality(S) |-> [type |-> "clear", node |-> SetToSeq(S)[k]]]
SendEntries(n, v) == [k \in DOMAIN targets[n] |-> Carry(targets[n][k], <<v>>)]

Listening(n) == \E m \in Nodes : n \in Range(targets[m])

\* stream_sink::send(): no worker runs, so send() is one step.
UserSend ==
  /\ phase = "body"
  /\ Len(sends) < MaxSends
  /\ \E s \in Sinks, v \in Values \ used :
       /\ posts' = posts \o ClearPost(s)
       /\ firings' = [firings EXCEPT ![s] = <<<<v>>>> \o @]
       /\ queue' = queue \o SendEntries(s, <<v>>)
       /\ sends' = Append(sends, <<s, v>>)
       /\ used' = used \cup {v}
  /\ UNCHANGED <<targets, oValue, cells, states, phase, worker, txns, joined, out, old>>

\* Mutant of Listen: the firings that came before are forgotten.
ListenToFuture ==
  /\ phase = "body"
  /\ \E n \in Late :
       /\ ~Listening(n)
       /\ targets' = [m \in Nodes |-> Linked(n, m) \o targets[m]]
       /\ firings' = [m \in Nodes |-> IF m \in Sparks(n) THEN <<<<>>>> ELSE firings[m]]
       /\ posts' = posts \o ClearPosts(Sparks(n))
       /\ joined' = joined \cup {n}
  /\ UNCHANGED <<oValue, cells, states, queue, worker, phase, txns, sends, used, out, old>>

\* stream::listen() and cell::listen(), inside a transaction.  Each listen_raw()
\* puts the new target first, and a firing_entry brings it what its source has
\* fired already: so the spark of value() comes to a snapshot of the cell.
Listen ==
  /\ phase = "body"
  /\ \E n \in Late :
       LET fired == [m \in Nodes |-> IF m \in Sparks(n) THEN <<<<>>>> ELSE firings[m]]
           earlier == Only(Chain[n], {m \in Nodes : fired[m] # <<>>} \X Nodes)
       IN
       /\ ~Listening(n)
       /\ targets' = [m \in Nodes |-> Linked(n, m) \o targets[m]]
       /\ firings' = fired
       /\ queue' = queue \o [k \in DOMAIN earlier |-> Carry(earlier[k][2], fired[earlier[k][1]])]
       /\ posts' = posts \o ClearPosts(Sparks(n))
       /\ joined' = joined \cup {n}
  /\ UNCHANGED <<oValue, cells, states, worker, phase, txns, sends, used, out, old>>

\* The listener's kill: unlink() is put off to the end of the transaction.
Unlisten ==
  /\ phase = "body"
  /\ \E n \in Late :
       /\ Listening(n)
       /\ [type |-> "unlink", node |-> n] \notin Range(posts)
       /\ posts' = Append(posts, [type |-> "unlink", node |-> n])
  /\ UNCHANGED <<targets, firings, oValue, cells, states, queue, worker, user, out>>

Close ==
  /\ phase = "body"
  /\ phase' = "drain"
  /\ UNCHANGED <<targets, firings, oValue, cells, states, queue, posts, worker, txns, sends,
                 used, joined, out, old>>

\* process_transactional() returns (WorkQueue) and process_post() begins.
Drained ==
  /\ phase = "drain"
  /\ queue = <<>>
  /\ \A w \in Workers : At(w, "idle")
  /\ phase' = "post"
  /\ UNCHANGED <<targets, firings, oValue, cells, states, queue, posts, worker, txns, sends,
                 used, joined, out, old>>

\* The three kinds of action that last() is given.
ClearFirings(n) ==
  /\ firings' = [firings EXCEPT ![n] = <<>>]
  /\ UNCHANGED <<cells, targets>>

\* Mutant of Finalize: the update is kept.
FinalizeKeeps(c) ==
  /\ current' = [current EXCEPT ![c] = update[c]]
  /\ UNCHANGED <<firings, targets, update>>

\* cell_state::finalize(): update.get() of an empty update is no value.
Finalize(c) ==
  /\ current' = [current EXCEPT ![c] = update[c]]
  /\ update' = [update EXCEPT ![c] = NoValue]
  /\ UNCHANGED <<firings, targets>>

\* node::unlink(), and for a chain that nothing holds then what follows from it
\* in the posts after this one (StreamLife).
Unlink(n) ==
  /\ LET gone(m) == IF n \in Late THEN Range(Linked(n, m)) ELSE {n} IN
       targets' = [m \in Nodes |-> Only(targets[m], Nodes \ gone(m))]
  /\ UNCHANGED <<firings, cells>>

RunPost ==
  /\ phase = "post"
  /\ posts # <<>>
  /\ posts' = Tail(posts)
  /\ LET p == Head(posts) IN
       \/ p.type = "clear" /\ ClearFirings(p.node)
       \/ p.type = "finalize" /\ Finalize(p.node)
       \/ p.type = "unlink" /\ Unlink(p.node)
  /\ UNCHANGED <<oValue, states, queue, worker, user, out>>

Closed ==
  /\ phase = "post"
  /\ posts = <<>>
  /\ phase' = "rest"
  /\ UNCHANGED <<targets, firings, oValue, cells, states, queue, posts, worker, txns, sends,
                 used, joined, out, old>>

-----------------------------------------------------------------------------
(* The workers.                                                            *)

\* Where the process() of each type of entry begins.
FirstPc == [values |-> "handle", coalesce |-> "combined", apply |-> "apply"]
Begin(e) == [pc |-> FirstPc[e.type], entry |-> e, val |-> NoValue, first |-> FALSE, k |-> 0]

\* Mutant of Take: pop_back().
TakeLast(w) ==
  /\ phase = "drain"
  /\ At(w, "idle")
  /\ queue # <<>>
  /\ queue' = Front(queue)
  /\ worker' = [worker EXCEPT ![w] = Begin(Last(queue))]
  /\ UNCHANGED <<targets, firings, oValue, cells, states, posts, user, out>>

\* Pop an entry.  A coalesce_entry reads oValue, with no lock.
Take(w) ==
  /\ phase = "drain"
  /\ At(w, "idle")
  /\ queue # <<>>
  /\ queue' = Tail(queue)
  /\ worker' = [worker EXCEPT ![w] = Begin(Head(queue))]
  /\ UNCHANGED <<targets, firings, oValue, cells, states, posts, user, out>>

\* merge_handler, map_handler, and a holder with no handler.
Forward(w) ==
  /\ At(w, "handle")
  /\ Kind[NodeOf(w)] = "forward"
  /\ worker' = GoSend(w, Arg(w))
  /\ UNCHANGED <<targets, firings, oValue, cells, states, queue, posts, user, out>>

\* filter_handler, with a predicate that only values from one send() satisfy.
Passes(v) == Cardinality(v) = 1

Filter(w) ==
  /\ At(w, "handle")
  /\ Kind[NodeOf(w)] = "filter"
  /\ worker' = IF Passes(Range(Arg(w))) THEN GoSend(w, Arg(w)) ELSE Done(w)
  /\ UNCHANGED <<targets, firings, oValue, cells, states, queue, posts, user, out>>

\* Mutant of Snapshot: it samples newValue().
SnapshotNew(w) ==
  /\ At(w, "handle")
  /\ Kind[NodeOf(w)] = "snapshot"
  /\ LET c == CellOf[NodeOf(w)] IN
       worker' = GoSend(w, Arg(w) \o (IF update[c] = NoValue THEN current[c] ELSE update[c]))
  /\ UNCHANGED <<targets, firings, oValue, cells, states, queue, posts, user, out>>

Snapshot(w) ==
  /\ At(w, "handle")
  /\ Kind[NodeOf(w)] = "snapshot"
  /\ worker' = GoSend(w, Arg(w) \o current[CellOf[NodeOf(w)]])
  /\ UNCHANGED <<targets, firings, oValue, cells, states, queue, posts, user, out>>

\* listener_handler: the user's function.
Hear(w) ==
  /\ At(w, "handle")
  /\ Kind[NodeOf(w)] = "listen"
  /\ out' = [out EXCEPT ![NodeOf(w)] = Append(@, Arg(w))]
  /\ worker' = Done(w)
  /\ UNCHANGED <<targets, firings, oValue, cells, states, queue, posts, user>>

\* Mutant of CoalesceFirst: it does not look whether there is a value.
CoalesceAlways(w) ==
  /\ At(w, "handle")
  /\ Kind[NodeOf(w)] \in {"coalesce", "last"}
  /\ oValue' = [oValue EXCEPT ![NodeOf(w)] = Arg(w)]
  /\ worker' = Goto(w, "announce")
  /\ UNCHANGED <<targets, firings, cells, states, queue, posts, user, out>>

\* coalesce_handler and last_firing_only_handler, under merge_mu: the first
\* value is kept for a coalesce_entry, ...
CoalesceFirst(w) ==
  /\ At(w, "handle")
  /\ Kind[NodeOf(w)] \in {"coalesce", "last"}
  /\ oValue[NodeOf(w)] = NoValue
  /\ oValue' = [oValue EXCEPT ![NodeOf(w)] = Arg(w)]
  /\ worker' = Goto(w, "announce")
  /\ UNCHANGED <<targets, firings, cells, states, queue, posts, user, out>>

\* ... and the next ones are combined with it, or take its place.
CoalesceMore(w) ==
  /\ At(w, "handle")
  /\ Kind[NodeOf(w)] \in {"coalesce", "last"}
  /\ oValue[NodeOf(w)] # NoValue
  /\ oValue' = [oValue EXCEPT ![NodeOf(w)] =
       IF Kind[NodeOf(w)] = "last" THEN Arg(w) ELSE @ \o Arg(w)]
  /\ worker' = Done(w)
  /\ UNCHANGED <<targets, firings, cells, states, queue, posts, user, out>>

\* After merge_mu: prioritized(new coalesce_entry).
Announce(w) ==
  /\ At(w, "announce")
  /\ queue' = Append(queue, Coalesced(NodeOf(w)))
  /\ worker' = Done(w)
  /\ UNCHANGED <<targets, firings, oValue, cells, states, posts, user, out>>

\* coalesce_entry::process(): send what oValue holds ...
SendCombined(w) ==
  /\ At(w, "combined")
  /\ worker' = GoSend(w, oValue[NodeOf(w)])
  /\ UNCHANGED <<targets, firings, oValue, cells, states, queue, posts, user, out>>

\* Mutant of Reset: the value is kept.
ResetKeeps(w) ==
  /\ At(w, "reset")
  /\ worker' = [worker EXCEPT ![w] = Idle]
  /\ UNCHANGED <<targets, firings, oValue, cells, states, queue, posts, user, out>>

\* ... and then empty it.
Reset(w) ==
  /\ At(w, "reset")
  /\ oValue' = [oValue EXCEPT ![NodeOf(w)] = NoValue]
  /\ worker' = [worker EXCEPT ![w] = Idle]
  /\ UNCHANGED <<targets, firings, cells, states, queue, posts, user, out>>

\* hold_handler and hold_lazy_handler: is this the first update?
HoldTest(w) ==
  /\ At(w, "handle")
  /\ Kind[NodeOf(w)] = "hold"
  /\ worker' = [worker EXCEPT ![w] =
       [@ EXCEPT !.pc = "holdWrite", !.first = update[NodeOf(w)] = NoValue]]
  /\ UNCHANGED <<targets, firings, oValue, cells, states, queue, posts, user, out>>

\* Mutant of HoldWrite: the update is forgotten.
HoldForgets(w) ==
  /\ At(w, "holdWrite")
  /\ worker' = IF worker[w].first THEN Goto(w, "holdPost") ELSE GoSend(w, Arg(w))
  /\ UNCHANGED <<targets, firings, oValue, cells, states, queue, posts, user, out>>

HoldWrite(w) ==
  /\ At(w, "holdWrite")
  /\ update' = [update EXCEPT ![NodeOf(w)] = Arg(w)]
  /\ worker' = IF worker[w].first THEN Goto(w, "holdPost") ELSE GoSend(w, Arg(w))
  /\ UNCHANGED <<targets, firings, oValue, current, states, queue, posts, user, out>>

HoldPost(w) ==
  /\ At(w, "holdPost")
  /\ posts' = Append(posts, [type |-> "finalize", node |-> NodeOf(w)])
  /\ worker' = GoSend(w, Arg(w))
  /\ UNCHANGED <<targets, firings, oValue, cells, states, queue, user, out>>

\* collect_handler, collect_lazy_handler and accum_s_handler: the function is
\* given the state and the value, and its result is the new state and is sent.
CollectRead(w) ==
  /\ At(w, "handle")
  /\ Kind[NodeOf(w)] = "collect"
  /\ worker' = [worker EXCEPT ![w] =
       [@ EXCEPT !.pc = "collectWrite", !.val = pState[NodeOf(w)] \o Arg(w)]]
  /\ UNCHANGED <<targets, firings, oValue, cells, states, queue, posts, user, out>>

CollectWrite(w) ==
  /\ At(w, "collectWrite")
  /\ pState' = [pState EXCEPT ![NodeOf(w)] = worker[w].val]
  /\ worker' = Goto(w, "send")
  /\ UNCHANGED <<targets, firings, oValue, cells, ppKill, applied, queue, posts, user, out>>

\* once_handler: does it still have its kill function?  If so it sends, ...
OnceTest(w) ==
  /\ At(w, "handle")
  /\ Kind[NodeOf(w)] = "once"
  /\ worker' = IF ppKill[NodeOf(w)] THEN GoSend(w, Arg(w)) ELSE Done(w)
  /\ UNCHANGED <<targets, firings, oValue, cells, states, queue, posts, user, out>>

\* ... and then calls kill_once(), which looks again and unlinks it.
KillTest(w) ==
  /\ At(w, "killTest")
  /\ worker' = IF ppKill[NodeOf(w)] THEN Goto(w, "kill") ELSE Done(w)
  /\ UNCHANGED <<targets, firings, oValue, cells, states, queue, posts, user, out>>

Kill(w) ==
  /\ At(w, "kill")
  /\ ppKill' = [ppKill EXCEPT ![NodeOf(w)] = FALSE]
  /\ posts' = Append(posts, [type |-> "unlink", node |-> NodeOf(w)])
  /\ worker' = Done(w)
  /\ UNCHANGED <<targets, firings, oValue, cells, pState, applied, queue, user, out>>

\* apply_f_handler and apply_a_handler, which are linked to one node, in_target:
\* write one part, ...
ApplySet(w) ==
  /\ At(w, "handle")
  /\ NodeOf(w) \in Parts
  /\ applied' = [applied EXCEPT ![ApplyOf[NodeOf(w)]] =
       IF Kind[NodeOf(w)] = "applyF" THEN [@ EXCEPT !.f = Arg(w)] ELSE [@ EXCEPT !.a = Arg(w)]]
  /\ worker' = Goto(w, "applyTest")
  /\ UNCHANGED <<targets, firings, oValue, cells, pState, ppKill, queue, posts, user, out>>

\* ... is the other there, and no apply_entry yet? ...
ApplyTest(w) ==
  /\ At(w, "applyTest")
  /\ LET state == applied[ApplyOf[NodeOf(w)]]
         other == IF Kind[NodeOf(w)] = "applyF" THEN state.a ELSE state.f
     IN worker' = IF other = NoValue \/ state.fired THEN Done(w) ELSE Goto(w, "applyPush")
  /\ UNCHANGED <<targets, firings, oValue, cells, states, queue, posts, user, out>>

\* ... then mark it and queue one.
ApplyPush(w) ==
  /\ At(w, "applyPush")
  /\ applied' = [applied EXCEPT ![ApplyOf[NodeOf(w)]].fired = TRUE]
  /\ queue' = Append(queue, Applied(ApplyOf[NodeOf(w)]))
  /\ worker' = Done(w)
  /\ UNCHANGED <<targets, firings, oValue, cells, pState, ppKill, posts, user, out>>

\* apply_entry::process(): read the function, ...
ApplyRead(w) ==
  /\ At(w, "apply")
  /\ worker' = [worker EXCEPT ![w] = [@ EXCEPT !.pc = "applyTo", !.val = applied[NodeOf(w)].f]]
  /\ UNCHANGED <<targets, firings, oValue, cells, states, queue, posts, user, out>>

\* ... apply it and send, ...
ApplyTo(w) ==
  /\ At(w, "applyTo")
  /\ worker' = GoSend(w, worker[w].val \o applied[NodeOf(w)].a)
  /\ UNCHANGED <<targets, firings, oValue, cells, states, queue, posts, user, out>>

\* ... and let the next one be queued.
Unfire(w) ==
  /\ At(w, "unfire")
  /\ applied' = [applied EXCEPT ![NodeOf(w)].fired = FALSE]
  /\ worker' = [worker EXCEPT ![w] = Idle]
  /\ UNCHANGED <<targets, firings, oValue, cells, pState, ppKill, queue, posts, user, out>>

-----------------------------------------------------------------------------
(* send(n, trans, a) on a worker.                                          *)

SendTest(w) ==
  /\ At(w, "send")
  /\ worker' = Goto(w, IF firings[NodeOf(w)] = <<>> THEN "clear" ELSE "fire")
  /\ UNCHANGED <<targets, firings, oValue, cells, states, queue, posts, user, out>>

SendClear(w) ==
  /\ At(w, "clear")
  /\ posts' = Append(posts, [type |-> "clear", node |-> NodeOf(w)])
  /\ worker' = Goto(w, "fire")
  /\ UNCHANGED <<targets, firings, oValue, cells, states, queue, user, out>>

Fire(w) ==
  /\ At(w, "fire")
  /\ firings' = [firings EXCEPT ![NodeOf(w)] = <<worker[w].val>> \o @]
  /\ worker' = [worker EXCEPT ![w] = [@ EXCEPT !.pc = "ship", !.k = 1]]
  /\ UNCHANGED <<targets, oValue, cells, states, queue, posts, user, out>>

Ship(w) ==
  /\ At(w, "ship")
  /\ worker[w].k <= Len(targets[NodeOf(w)])
  /\ queue' = Append(queue, Carry(targets[NodeOf(w)][worker[w].k], <<worker[w].val>>))
  /\ worker' = [worker EXCEPT ![w].k = @ + 1]
  /\ UNCHANGED <<targets, firings, oValue, cells, states, posts, user, out>>

Shipped(w) ==
  /\ At(w, "ship")
  /\ worker[w].k > Len(targets[NodeOf(w)])
  /\ worker' = IF Kind[NodeOf(w)] = "once" THEN Goto(w, "killTest") ELSE Done(w)
  /\ UNCHANGED <<targets, firings, oValue, cells, states, queue, posts, user, out>>

-----------------------------------------------------------------------------

User ==
  \/ Open \/ UserSend \/ Listen \/ Unlisten \/ Close \/ Drained \/ RunPost \/ Closed

Handle(w) ==
  \/ Forward(w) \/ Filter(w) \/ Snapshot(w) \/ Hear(w)
  \/ CoalesceFirst(w) \/ CoalesceMore(w) \/ Announce(w) \/ SendCombined(w) \/ Reset(w)
  \/ HoldTest(w) \/ HoldWrite(w) \/ HoldPost(w)
  \/ CollectRead(w) \/ CollectWrite(w) \/ OnceTest(w) \/ KillTest(w) \/ Kill(w)
  \/ ApplySet(w) \/ ApplyTest(w) \/ ApplyPush(w) \/ ApplyRead(w) \/ ApplyTo(w) \/ Unfire(w)

Sending(w) == SendTest(w) \/ SendClear(w) \/ Fire(w) \/ Ship(w) \/ Shipped(w)

Worker(w) == Take(w) \/ Handle(w) \/ Sending(w)

\* The program may stop after its last transaction.
Stopped == phase = "rest" /\ txns = MaxTxns /\ UNCHANGED vars

Next == User \/ (\E w \in Workers : Worker(w)) \/ Stopped

Spec == Init /\ [][Next]_vars
-----------------------------------------------------------------------------
(* What a transaction should do: the value of the graph as functions.      *)

Sources(n) == {m \in Nodes : n \in Range(targets[m])}

\* The values that were sent to the sinks, in order.
Sent == [k \in DOMAIN sends |-> sends[k][2]]

\* When what became value a was first sent, and the value that came last.
Since(a) == CHOOSE k \in 0 .. Len(sends) :
              /\ k = 0 \/ Sent[k] \in a
              /\ \A j \in 1 .. Len(sends) : Sent[j] \in a => k # 0 /\ k <= j
Newest(as) == CHOOSE a \in as : \A b \in as : Since(b) <= Since(a)

\* The firings of node n in this transaction, each as the set of the values
\* it is made from.
Denote[n \in Nodes] ==
  LET ins == UNION {Denote[m] : m \in Sources(n)}
      parts == {m \in Parts : ApplyOf[m] = n}
      newest(m) == IF Denote[m] = {} THEN Range(old.current[CellOf[m]]) ELSE Newest(Denote[m])
  IN
  CASE Kind[n] = "sink" -> {{sends[k][2]} : k \in {j \in DOMAIN sends : sends[j][1] = n}}
    [] Kind[n] = "spark" -> IF \E l \in joined : n \in Sparks(l) THEN {{}} ELSE {}
    [] Kind[n] = "filter" -> {a \in ins : Passes(a)}
    [] Kind[n] = "snapshot" -> {a \cup Range(old.current[CellOf[n]]) : a \in ins}
    [] Kind[n] = "coalesce" -> IF ins = {} THEN {} ELSE {UNION ins}
    [] Kind[n] = "last" -> IF ins = {} THEN {} ELSE {Newest(ins)}
    [] Kind[n] = "collect" ->
         {Range(old.pState[n]) \cup UNION {b \in ins : Since(b) <= Since(a)} : a \in ins}
    [] Kind[n] = "once" -> {a \in ins : old.ppKill[n] /\ \A b \in ins : Since(a) <= Since(b)}
    [] Kind[n] = "apply" ->
         IF \A m \in parts : Denote[m] = {} THEN {} ELSE {UNION {newest(m) : m \in parts}}
    [] OTHER -> ins

DrainEnds == phase = "drain" /\ queue = <<>> /\ \A w \in Workers : At(w, "idle")

-----------------------------------------------------------------------------
(* Properties.                                                             *)

HeardAsDenoted(n) ==
  /\ {Range(out[n][k]) : k \in DOMAIN out[n]} = Denote[n]
  /\ Len(out[n]) = Cardinality(Denote[n])

\* In the transaction that it joins, a listener of a cell's value may hear the
\* old value before the new one.
HeardAtLast(n) ==
  IF Denote[n] = {} THEN out[n] = <<>>
  ELSE out[n] # <<>> /\ {Range(Last(out[n]))} = Denote[n]

\* When the queue is drained every listener got what the graph denotes, each
\* firing once: nothing is lost, nothing is doubled, a coalesced stream fires
\* once with all that reached it, and one who listens to a cell in the middle of
\* a transaction hears its value, the new one last (by one worker;
\* transaction.cpp:292-321, sodium.h:41-58, sodium.cpp:177-191, 282-294).
OutputsAsDenoted ==
  DrainEnds =>
    \A n \in Listeners :
      IF n \in joined /\ Sparks(n) # {} THEN HeardAtLast(n) ELSE HeardAsDenoted(n)

\* Whatever workers run at the same time, a snapshot sees the cell as it was
\* when the transaction began (sodium_base.h:684, sodium.h:114-117).
SnapshotsAsDenoted ==
  DrainEnds =>
    \A n \in Listeners : Sources(n) \subseteq NodesOf("snapshot") => HeardAsDenoted(n)

\* After its posts nothing of a transaction is left in the graph, whatever
\* workers ran in it: no firings, no value to coalesce, no update and no mark of
\* an apply_entry, each of which would be taken for one of the next transaction
\* (sodium.cpp:153-156, transaction.cpp:296-299, sodium.h:110-120, 145-185).
NothingLeft ==
  phase = "rest" =>
    /\ \A n \in Nodes : firings[n] = <<>>
    /\ \A n \in Merging : oValue[n] = NoValue
    /\ \A c \in Cells : update[c] = NoValue
    /\ \A n \in Applies : ~applied[n].fired

\* After the posts of a transaction each cell has the newest value of its
\* stream, or the old one if there is none; apply() has the values of its two
\* cells, and collect() the state with all that reached it (sodium.h:110-120,
\* 145-185, sodium_base.h:469-472, 582-631).
CellsAsDenoted ==
  phase = "rest" =>
    /\ \A c \in Cells :
         Range(current[c]) = IF Denote[c] = {} THEN Range(old.current[c]) ELSE Newest(Denote[c])
    /\ \A n \in NodesOf("collect") :
         Range(pState[n]) = Range(old.pState[n]) \cup UNION Denote[n]
    /\ \A m \in Parts :
         LET state == applied[ApplyOf[m]] IN
         current[CellOf[m]] = IF Kind[m] = "applyF" THEN state.f ELSE state.a

\* By one worker, what was sent to one sink is heard in the order in which it
\* was sent, in one firing or in several: the earlier value is the left input of
\* a combining function (sodium.h:770, transaction.h:255-263).
OrderKept ==
  DrainEnds =>
    \A n \in Listeners :
      LET heard == FlattenSeq(out[n]) IN
      \A i, j \in DOMAIN sends, k, m \in DOMAIN heard :
        k < m /\ heard[k] = sends[j][2] /\ heard[m] = sends[i][2] /\ i < j =>
          sends[i][1] # sends[j][1]

\* A coalesce_entry never finds oValue empty, however the handlers of other
\* workers run around its unlocked read and reset (transaction.cpp:296-297).
CoalesceEntryHasValue ==
  \A w \in Workers : At(w, "combined") => oValue[NodeOf(w)] # NoValue

\* A cell has a value at all times.
CellsHaveValue == \A c \in Cells : current[c] # NoValue

\* Every value that was sent to what a listener listens to is in some firing
\* that it hears.
NoFiringLost ==
  DrainEnds =>
    \A n \in Listeners : UNION {Range(out[n][k]) : k \in DOMAIN out[n]} = UNION Denote[n]

\* A stream that coalesces fires at most once in a transaction.
OneFiringPerTransaction ==
  \A n \in Listeners : Sources(n) \subseteq Merging => Len(out[n]) <= 1
=============================================================================
