------------------------------- MODULE Ranked -------------------------------
(***************************************************************************)
(* The experimental engine, src/experimental/sodium: one transaction at a  *)
(* time, held by a recursive lock, whose work is a queue ordered by the    *)
(* rank of the node it is for and then by age.  Streams and cells may be   *)
(* made, and listeners linked or killed, before, during and inside the     *)
(* callbacks of a transaction.                                             *)
(*                                                                         *)
(* A program is a graph of streams 1..n, each with the kind of call that   *)
(* makes it, and the calls that make them in their order.  Its node has    *)
(* the stream's number; merge() has a second node, Left(s), and listeners  *)
(* and cells share the rank of node_t::null, Null.  A value is the         *)
(* sequence of what it was made from.  An optional, and a magic_ref that   *)
(* may be unassigned, is a sequence of at most one element.  Lists of      *)
(* firings are kept oldest first; the code stores and copies them          *)
(* reversed.                                                               *)
(***************************************************************************)
EXTENDS Integers, Sequences, FiniteSets, SequencesExt

CONSTANTS
  Programs,  (* graphs: op, calls, setup (calls made before the start),    *)
             (* late (the first call that a callback may make), throws     *)
             (* (whether a callback may send to a stream_sink) and bounds: *)
             (* on the transactions, scopes (nested transaction objects)   *)
             (* and sends                                                  *)
  Values,    (* what is sent to sinks, in the order of the sends           *)
  NullRank   (* null_rank, above any other                                 *)

VARIABLES
  program,    (* the program that runs                                     *)
  made,       (* how many of its calls were made                           *)
  eng,        (* nodes, streams, cells and the queues of transaction_impl  *)
  active,     (* transaction_impl::active: its thread holds the lock       *)
  objects,    (* live transaction objects that share the active impl       *)
  phase,      (* what the thread that holds the lock does                  *)
  via,        (* close() was called, or the last object was destroyed      *)
  current2,   (* current_transaction_2 is set                              *)
  running,    (* the listener whose callback runs, with its values         *)
  inCallback, (* in_callback                                               *)
  txns, sent, sends, start, heard, killed, thrown    (* history *)

vars == <<program, made, eng, active, objects, phase, via, current2, running, inCallback,
          txns, sent, sends, start, heard, killed, thrown>>
history == <<txns, sent, sends, start, heard, killed, thrown>>

Op == program.op
Stream == DOMAIN Op
Kind(s) == Op[s].kind
In(s) == Op[s].in
OfKind(k) == {s \in Stream : Kind(s) = k}
Cells == OfKind("hold") \cup OfKind("holdLazy")
Built == UNION {ToSet(program.calls[k]) : k \in 1 .. made}

Null == 0
Left(s) == 0 - s
Nodes == Stream \cup {Left(s) : s \in OfKind("merge")} \cup {Null}

None == <<>>
Some(v) == <<v>>
Spark == <<>>                  \* the unit that value() sends
Mapped(v) == <<"f">> \o v
Combined(s, a, b) == IF Kind(s) = "lastOnly" THEN b ELSE a \o b
Keep(v) == "f" \notin ToSet(v)  \* the predicate of filter

-----------------------------------------------------------------------------
\* Ranks and links

Entry(e, seq, n, work) == [rank |-> e.rank[n], seq |-> seq, node |-> n, work |-> work]
\* Mutant of Before: ranks do not count.
BeforeByAge(x, y) == x.seq < y.seq

Before(x, y) == x.rank < y.rank \/ (x.rank = y.rank /\ x.seq < y.seq)
Smallest(q) == CHOOSE x \in q : \A y \in q \ {x} : Before(x, y)

\* Work for handler s: the values delivered to it, or none for its own action.
Work(s, vals) == [to |-> s, vals |-> vals]

prioritized(e, n, work) ==
  [e EXCEPT !.q = @ \cup {Entry(e, e.seq + 1, n, work)}, !.seq = @ + 1]

last(e, action) == [e EXCEPT !.last = Append(@, action)]

\* Mutant of check_regen: the entries keep the ranks they were made with.
check_regenNever(e) == e

check_regen(e) ==
  IF ~e.regen THEN e
  ELSE [e EXCEPT !.regen = FALSE, !.q = {[x EXCEPT !.rank = e.rank[x.node]] : x \in e.q}]

\* The recursion of ensure_bigger_than(), as a stack of the calls still to make.
RECURSIVE ensure_bigger_than(_, _, _)
ensure_bigger_than(listeners, r, calls) ==
  IF calls = <<>> THEN r
  ELSE LET n == Head(calls).node
           limit == Head(calls).limit
           down == [k \in DOMAIN listeners[n] |-> [node |-> listeners[n][k].node,
                                                   limit |-> limit + 1]]
       IN IF r.rank[n] > limit \/ n \in r.visited
          THEN ensure_bigger_than(listeners, r, Tail(calls))
          ELSE ensure_bigger_than(listeners, [rank |-> [r.rank EXCEPT ![n] = limit + 1],
                                              visited |-> r.visited \cup {n}],
                                  down \o Tail(calls))

link_to(e, n, target, to) ==
  LET r == ensure_bigger_than(e.listeners, [rank |-> e.rank, visited |-> {}],
                              <<[node |-> target, limit |-> e.rank[n]]>>)
  IN [e EXCEPT !.rank = r.rank,
               !.listeners[n] = Append(@, [node |-> target, to |-> to])]

unlink_to(e, n, to) ==
  [e EXCEPT !.listeners[n] = SelectSeq(@, LAMBDA t : t.to # to)]

\* Mutant of EarlierFirings: nothing is replayed.
EarlierFiringsNone(e, s) == <<>>

\* add_cleanup() returns a stream with the node of the one that the handler
\* fires but a list of firings of its own, taken when it was empty.
EarlierFirings(e, s) ==
  IF Kind(s) \in {"merge", "coalesce", "lastOnly", "filter"} THEN <<>> ELSE e.firings[s]

\* stream::listen: link, and put in the queue what s has fired already.
listen(e, s, target, to) ==
  LET l == link_to(e, s, target, to)
      m == [l EXCEPT !.regen = @ \/ l.rank # e.rank]
      vals == EarlierFirings(e, s)
  IN IF vals = <<>> THEN m ELSE prioritized(m, target, Work(to, vals))

-----------------------------------------------------------------------------
\* Streams and cells

\* Mutant of send: the firings are not cleared at the end.
sendNoClear(e, s, v) ==
  LET out == e.listeners[s]
  IN [e EXCEPT !.firings[s] = Append(@, v),
               !.q = @ \cup {Entry(e, e.seq + k, out[k].node, Work(out[k].to, Some(v)))
                               : k \in DOMAIN out},
               !.seq = @ + Len(out)]

send(e, s, v) ==
  LET c == IF e.firings[s] = <<>> THEN last(e, [do |-> "clear", of |-> s]) ELSE e
      out == e.listeners[s]
  IN [c EXCEPT !.firings[s] = Append(@, v),
               !.q = @ \cup {Entry(e, e.seq + k, out[k].node, Work(out[k].to, Some(v)))
                               : k \in DOMAIN out},
               !.seq = @ + Len(out)]

\* The receptacle of a cell's value: once joined, value and value_update are
\* references to one receptacle.
Value(c) == IF c.joined THEN c.update ELSE c.value

\* cell_impl::sample(): the value, or what the lazy initial value gives, which
\* sample_lazy() made from another cell; an empty optional is nobody's value.
RECURSIVE sample(_, _)
sample(e, s) ==
  IF Value(e.cell[s]) # None THEN Value(e.cell[s])
  ELSE IF ~e.cell[s].lazy THEN None
  ELSE LET l == In(s)[2] IN IF e.state[l] # None THEN e.state[l] ELSE sample(e, In(l)[1])

\* Mutant of update: the value changes at once.
updateInPlace(e, s, v) == [e EXCEPT !.cell[s].update = Some(v), !.cell[s].value = Some(v)]

update(e, s, v) == [e EXCEPT !.cell[s].update = Some(v)]

\* What sample_lazy() keeps when the transaction ends, whether the cell's own
\* turn in last_q came before or not.
lazyValue(e, c) == IF e.cell[c].update # None THEN e.cell[c].update ELSE sample(e, c)

-----------------------------------------------------------------------------
\* The handlers, of stream or cell s for a value v, and the calls that link them

onMap(e, s, v) == send(e, s, Mapped(v))
onForward(e, s, v) == send(e, s, v)
onFilter(e, s, v) == IF Keep(v) THEN send(e, s, v) ELSE e
onSnapshot(e, s, v) == send(e, s, v \o sample(e, In(s)[2])[1])

\* accum and collect: the new state is also what is sent.
onAccum(e, s, v) ==
  LET b == v \o e.state[s][1] IN send([e EXCEPT !.state[s] = Some(b)], s, b)

onOnce(e, s, v) ==
  IF e.state[s] = None THEN e
  ELSE [unlink_to(send(e, s, v), In(s)[1], s) EXCEPT !.state[s] = None]

onCoalesce(e, s, v) ==
  IF e.state[s] # None THEN [e EXCEPT !.state[s][1] = Combined(s, @, v)]
  ELSE [prioritized(e, s, Work(s, <<>>)) EXCEPT !.state[s] = Some(v)]

sendCombined(e, s) == [send(e, s, e.state[s][1]) EXCEPT !.state[s] = None]

onHold(e, s, v) ==
  update(IF e.cell[s].update = None THEN last(e, [do |-> "update", of |-> s]) ELSE e, s, v)

handle(e, s, v) ==
  CASE Kind(s) = "map" -> onMap(e, s, v)
    [] Kind(s) \in {"merge", "loop"} -> onForward(e, s, v)
    [] Kind(s) = "filter" -> onFilter(e, s, v)
    [] Kind(s) = "snapshot" -> onSnapshot(e, s, v)
    [] Kind(s) = "accum" -> onAccum(e, s, v)
    [] Kind(s) = "once" -> onOnce(e, s, v)
    [] Kind(s) \in {"coalesce", "lastOnly"} -> onCoalesce(e, s, v)
    [] Kind(s) \in {"hold", "holdLazy"} -> onHold(e, s, v)

\* Work without values is the action that coalesce() or value() made itself.
act(e, s) == IF Kind(s) = "spark" THEN send(e, s, Spark) ELSE sendCombined(e, s)

RunWork(e, w) ==
  IF w.vals = <<>> THEN act(e, w.to)
  ELSE FoldLeft(LAMBDA acc, v : handle(acc, w.to, v), e, w.vals)

\* The handler reads an empty optional.
Crashes(e, w) == Kind(w.to) = "snapshot" /\ sample(e, In(w.to)[2]) = None

\* value = value_update makes them one receptacle, which reset() then empties.
RunLast(e, action) ==
  LET s == action.of
  IN CASE action.do = "clear" -> [e EXCEPT !.firings[s] = <<>>]
       [] action.do = "update" -> [e EXCEPT !.cell[s] = [joined |-> TRUE, value |-> None,
                                                         update |-> None, lazy |-> FALSE]]
       [] action.do = "lazy" -> [e EXCEPT !.state[s] = lazyValue(e, In(s)[1])]

makeMerge(e, s) ==
  LET l == listen(link_to(e, Left(s), s, Null), In(s)[1], Left(s), s)
  IN listen(l, In(s)[2], s, s)

\* stream_loop::loop(), s being the tie of the loop In(s)[2] to a stream.
makeTie(e, s) == listen(e, In(s)[1], In(s)[2], In(s)[2])

\* value(): the spark that the streams made with it are made from.
makeSpark(e, s) == prioritized(e, s, Work(s, <<>>))

makeLazy(e, s) == last(e, [do |-> "lazy", of |-> s])

\* The call that makes s, or listens to it.
make(e, s) ==
  CASE Kind(s) \in {"sink", "cellSink", "loop"} -> e
    [] Kind(s) = "merge" -> makeMerge(e, s)
    [] Kind(s) \in {"hold", "holdLazy", "listener"} -> listen(e, In(s)[1], Null, s)
    [] Kind(s) = "tie" -> makeTie(e, s)
    [] Kind(s) = "spark" -> makeSpark(e, s)
    [] Kind(s) = "lazy" -> makeLazy(e, s)
    [] OTHER -> listen(e, In(s)[1], s, s)

makeAll(e, call) == FoldLeft(make, e, call)

-----------------------------------------------------------------------------
\* The program and its threads

NoEngine ==
  [rank |-> [n \in Nodes |-> IF n = Null THEN NullRank ELSE 0],
   listeners |-> [n \in Nodes |-> <<>>],
   firings |-> [s \in Stream |-> <<>>],
   state |-> [s \in Stream |-> IF Kind(s) = "once" THEN Some(Spark)
                               ELSE IF Kind(s) = "accum" THEN Some(<<"b">>) ELSE None],
   cell |-> [s \in Cells |-> [joined |-> FALSE, update |-> None,
                              value |-> IF Kind(s) = "hold" THEN Some(<<"i">>) ELSE None,
                              lazy |-> Kind(s) = "holdLazy"]],
   q |-> {}, seq |-> 0, last |-> <<>>, regen |-> FALSE]

Nobody == Work(Null, <<>>)

Init ==
  /\ program \in Programs
  /\ made = program.setup
  /\ \E e \in {NoEngine} :
       eng = [makeAll(e, FlattenSeq(SubSeq(program.calls, 1, made))) EXCEPT !.regen = FALSE]
  /\ active = FALSE /\ objects = 0 /\ phase = "idle" /\ via = "scope" /\ current2 = FALSE
  /\ running = Nobody /\ inCallback = 0
  /\ txns = 0 /\ sends = 0 /\ thrown = FALSE
  /\ sent = [s \in Stream |-> <<>>]
  /\ heard = [s \in OfKind("listener") |-> <<>>]
  /\ start = [eng |-> eng, made |-> made]
  /\ killed = [before |-> {}, during |-> {}]

\* transaction::transaction(): the first one makes the impl, which keeps the
\* recursive lock: until it is released another thread waits here.
Open ==
  \/ /\ ~active
     /\ txns < program.txns
     /\ active' = TRUE /\ objects' = 1 /\ phase' = "open"
     /\ txns' = txns + 1
     /\ start' = [eng |-> eng, made |-> made] /\ thrown' = FALSE
     /\ sent' = [s \in Stream |-> <<>>]
     /\ heard' = [s \in OfKind("listener") |-> <<>>]
     /\ killed' = [before |-> killed.before \cup killed.during, during |-> {}]
     /\ UNCHANGED <<program, made, eng, via, current2, running, inCallback, sends>>
  \/ /\ phase = "open"
     /\ objects < program.scopes
     /\ objects' = objects + 1
     /\ UNCHANGED <<program, made, eng, active, phase, via, current2, running, inCallback,
                    history>>

\* Mutant of Drop: the destructor does not close.
DropNeverCloses ==
  /\ phase = "open" /\ objects > 0
  /\ objects' = objects - 1
  /\ UNCHANGED <<program, made, eng, active, phase, via, current2, running, inCallback, history>>

\* A transaction object goes out of scope; the last one destroys the impl,
\* which closes it, unless current_transaction_2 still refers to it.
Drop ==
  /\ phase = "open" /\ objects > 0
  /\ objects' = objects - 1
  /\ IF objects = 1 /\ ~current2
     THEN phase' = "drain" /\ via' = "scope" /\ current2' = TRUE
     ELSE UNCHANGED <<phase, via, current2>>
  /\ UNCHANGED <<program, made, eng, active, running, inCallback, history>>

\* transaction::close(): closes the impl, whoever else shares it.
Close ==
  /\ phase = "open" /\ objects > 0
  /\ phase' = "drain" /\ via' = "close" /\ current2' = TRUE
  /\ UNCHANGED <<program, made, eng, active, objects, running, inCallback, history>>

Send(s) ==
  /\ phase = "open" /\ objects > 0
  /\ Kind(s) \in {"sink", "cellSink"} /\ s \in Built
  /\ sends < program.sends
  /\ sends' = sends + 1
  /\ LET v == <<Values[sends + 1]>>
     IN /\ eng' = send(eng, s, v)
        /\ sent' = [sent EXCEPT ![s] = Append(@, v)]
  /\ UNCHANGED <<program, made, active, objects, phase, via, current2, running, inCallback,
                 txns, start, heard, killed, thrown>>

InCallback == phase = "drain" /\ running # Nobody

Make ==
  /\ \/ phase = "open" /\ objects > 0
     \/ InCallback /\ made + 1 >= program.late
  /\ made < Len(program.calls)
  /\ made' = made + 1
  /\ eng' = makeAll(eng, program.calls[made + 1])
  /\ UNCHANGED <<program, active, objects, phase, via, current2, running, inCallback, history>>

\* The function that listen() returned takes listeners_lock alone: any thread
\* may call it at any time.
Kill(s) ==
  /\ s \in (Built \cap OfKind("listener")) \ (killed.before \cup killed.during)
  /\ eng' = unlink_to(eng, In(s)[1], s)
  /\ killed' = IF ~active THEN [killed EXCEPT !.before = @ \cup {s}]
               ELSE [killed EXCEPT !.during = @ \cup {s}]
  /\ UNCHANGED <<program, made, active, objects, phase, via, current2, running, inCallback,
                 txns, sent, sends, start, heard, thrown>>

-----------------------------------------------------------------------------
\* transaction_impl::close()

\* The smallest entry of the queue.  A listener's callback is left to the
\* actions below, until it returns.
RunEntry ==
  /\ phase = "drain" /\ running = Nobody
  /\ check_regen(eng).q # {}
  /\ LET e == check_regen(eng)
         x == Smallest(e.q)
         rest == [e EXCEPT !.q = @ \ {x}]
     IN IF Kind(x.work.to) = "listener"
        THEN /\ eng' = rest /\ running' = x.work /\ inCallback' = inCallback + 1
             /\ heard' = [heard EXCEPT ![x.work.to] = Append(@, x.work.vals[1])]
             /\ UNCHANGED phase
        ELSE /\ IF Crashes(rest, x.work)
                THEN phase' = "crashed" /\ eng' = rest
                ELSE phase' = phase /\ eng' = RunWork(rest, x.work)
             /\ UNCHANGED <<running, inCallback, heard>>
  /\ UNCHANGED <<program, made, active, objects, via, current2, txns, sent, sends, start,
                 killed, thrown>>

\* The callback returns; a replay goes on with its next value.
Return ==
  /\ InCallback
  /\ IF Len(running.vals) = 1
     THEN running' = Nobody /\ inCallback' = inCallback - 1 /\ UNCHANGED heard
     ELSE /\ running' = [running EXCEPT !.vals = Tail(@)]
          /\ heard' = [heard EXCEPT ![running.to] = Append(@, running.vals[2])]
          /\ UNCHANGED inCallback
  /\ UNCHANGED <<program, made, eng, active, objects, phase, via, current2, txns, sent, sends,
                 start, killed, thrown>>

\* stream_sink::send() throws: out of a destructor, that ends the program; out
\* of close(), the transaction stays active, with its lock.
Throw ==
  /\ InCallback
  /\ program.throws /\ ~thrown
  /\ \E s \in OfKind("sink") : s \in Built
  /\ inCallback > 0
  /\ inCallback' = inCallback - 1
  /\ running' = Nobody /\ thrown' = TRUE
  /\ phase' = IF via = "scope" THEN "terminated" ELSE "open"
  /\ UNCHANGED <<program, made, eng, active, objects, via, current2, txns, sent, sends, start,
                 heard, killed>>

Drained ==
  /\ phase = "drain" /\ running = Nobody
  /\ check_regen(eng).q = {}
  /\ eng' = check_regen(eng)
  /\ phase' = "last"
  /\ UNCHANGED <<program, made, active, objects, via, current2, running, inCallback, history>>

\* last_q, then post_q, which nothing fills; then the lock is released.
Finish ==
  /\ phase = "last"
  /\ LET e == FoldLeft(RunLast, eng, eng.last)
     IN /\ eng' = [e EXCEPT !.last = <<>>, !.seq = 0]
        /\ IF \E k \in DOMAIN eng.last : eng.last[k].do = "lazy" /\ e.state[eng.last[k].of] = None
           THEN phase' = "crashed" /\ UNCHANGED <<active, objects, current2>>
           ELSE /\ phase' = "idle" /\ active' = FALSE
                /\ objects' = 0 /\ current2' = FALSE
  /\ UNCHANGED <<program, made, via, running, inCallback, history>>

Engine == RunEntry \/ Return \/ Drained \/ Finish

Next ==
  \/ Open \/ Drop \/ Close \/ Make
  \/ \E s \in Stream : Send(s)
  \/ \E s \in Stream : Kill(s)
  \/ Engine \/ Throw

\* The engine runs on; scopes end, the outermost one too.
Spec ==
  /\ Init /\ [][Next]_vars
  /\ WF_vars(Engine)
  /\ WF_vars(Drop) /\ SF_vars(objects = 1 /\ Drop)

-----------------------------------------------------------------------------
\* What the streams of the program mean: the firings of s in a transaction, of
\* what its sinks were sent and of the cells and states it began with.

RECURSIVE Meaning(_)
Meaning(s) ==
  LET m == IF Kind(s) \in {"sink", "cellSink", "spark", "loop"} THEN <<>> ELSE Meaning(In(s)[1])
      ties == {k \in Built : Kind(k) = "tie" /\ In(k)[2] = s}
  IN CASE Kind(s) \in {"sink", "cellSink"} -> sent[s]
       [] Kind(s) = "spark" ->
            IF \E k \in start.made + 1 .. made : s \in ToSet(program.calls[k]) THEN <<Spark>> ELSE <<>>
       [] Kind(s) = "loop" -> IF ties = {} THEN <<>> ELSE Meaning(In(CHOOSE k \in ties : TRUE)[1])
       [] Kind(s) = "map" -> [k \in DOMAIN m |-> Mapped(m[k])]
       [] Kind(s) = "filter" -> SelectSeq(m, Keep)
       [] Kind(s) = "merge" -> m \o Meaning(In(s)[2])
       [] Kind(s) = "coalesce" -> IF m = <<>> THEN <<>> ELSE <<FlattenSeq(m)>>
       [] Kind(s) = "lastOnly" -> IF m = <<>> THEN <<>> ELSE <<Last(m)>>
       [] Kind(s) = "snapshot" -> [k \in DOMAIN m |-> m[k] \o sample(start.eng, In(s)[2])[1]]
       [] Kind(s) = "accum" ->
            [k \in DOMAIN m |-> FlattenSeq(Reverse(SubSeq(m, 1, k))) \o start.eng.state[s][1]]
       [] Kind(s) = "once" ->
            IF m = <<>> \/ start.eng.state[s] = None THEN <<>> ELSE <<m[1]>>

Streams == {s \in Built : Kind(s) \notin {"hold", "holdLazy", "listener", "tie", "lazy"}}

\* No cell was updated in an earlier transaction, and no callback threw in this.
Intact == ~thrown /\ \A c \in Cells : ~start.eng.cell[c].joined

RECURSIVE Reached(_, _)
Reached(e, ns) ==
  LET more == ns \cup UNION {{l.node : l \in ToSet(e.listeners[n])} : n \in ns}
  IN IF more = ns THEN ns ELSE Reached(e, more)

-----------------------------------------------------------------------------
\* Properties

\* When the queue is drained every stream has fired what it means: paths of
\* unequal length, a stream_loop tied after the first firing, and what was made
\* or linked late, or killed, notwithstanding; a coalesce fires once and merge
\* has its left input first (link_to, check_regen, the replay of listen).
OutputsAsDenoted ==
  phase = "last" /\ Intact => \A s \in Streams : eng.firings[s] = Meaning(s)

\* A listener that was not killed gets each firing of the transaction once and in
\* order, those before it was linked too; one killed in it a prefix, one killed
\* before nothing.
HeardAsDenoted ==
  phase = "last" /\ Intact =>
    \A l \in Built \cap OfKind("listener") :
      IF l \in killed.before THEN heard[l] = <<>>
      ELSE IF l \in killed.during THEN IsPrefix(heard[l], Meaning(In(l)[1]))
      ELSE heard[l] = Meaning(In(l)[1])

\* A cell is left its last firing to take over when the transaction ends, and
\* still has the value it began with.
CellsPending ==
  phase = "last" /\ Intact =>
    \A c \in Built \cap Cells :
      LET m == Meaning(In(c)[1])
      IN /\ eng.cell[c].update = IF m = <<>> THEN None ELSE Some(Last(m))
         /\ Value(eng.cell[c]) = Value(start.eng.cell[c])

\* The entry that runs next is for a node that no other entry's node is upstream
\* of: nothing that runs later in the transaction can fire it again.
UpstreamFirst ==
  phase = "drain" /\ eng.q # {} =>
    LET q == check_regen(eng).q
        x == Smallest(q)
    IN \A y \in q \ {x} : y.node = x.node \/ x.node \notin Reached(eng, {y.node})

\* What a transaction leaves behind: no firing that a later listener would be
\* replayed, no half-combined value, no work, and in_callback, which makes the
\* next send() throw, at zero, a callback that threw notwithstanding.
NothingLeft ==
  /\ phase = "idle" => /\ \A s \in Stream : eng.firings[s] = <<>>
                       /\ \A s \in OfKind("coalesce") \cup OfKind("lastOnly") : eng.state[s] = None
                       /\ eng.q = {} /\ eng.last = <<>> /\ ~active
  /\ running = Nobody => inCallback = 0

\* sample_lazy() gives the value its cell has when the transaction is over.
LazyAsDenoted ==
  phase = "idle" /\ Intact /\ txns > 0 =>
    \A l \in Built \cap OfKind("lazy") :
      eng.state[l] # None /\ start.eng.state[l] = None =>
        LET m == Meaning(In(In(l)[1])[1])
        IN eng.state[l] = IF m = <<>> THEN sample(start.eng, In(l)[1]) ELSE Some(Last(m))

\* Within a transaction cells keep their value and collect the next one, and who
\* asked for the value to come gets that.
CellsAsDenoted == CellsPending /\ LazyAsDenoted

\* A transaction ends and lets the next thread in, if no callback throws and no
\* empty cell is sampled.
TransactionsEnd ==
  active ~> ~active \/ thrown \/ phase = "crashed"

\* A cell has, after a transaction, the last value its stream fired in it.
CellKeepsUpdate ==
  phase = "idle" /\ txns = 1 /\ Intact =>
    \A c \in Built \cap Cells :
      LET m == Meaning(In(c)[1]) IN m # <<>> => sample(eng, c) = Some(Last(m))

\* coalesce() combines the firings of a transaction into one (sodium.h:99).
CombinedIntoOne ==
  phase = "last" /\ ~thrown => \A s \in OfKind("coalesce") : Len(eng.firings[s]) <= 1

=============================================================================
