----------------------------- MODULE Switching ------------------------------
(***************************************************************************)
(* Links that change while the graph runs: switch_s, router and            *)
(* router_loop, split, stream_loop, listen_once and the end of a listener, *)
(* which all leave work to the posts of the transaction.                   *)
(*                                                                         *)
(* One user thread opens transactions one at a time, and its close()       *)
(* drains the queue with one worker, so an entry is one step: its handler  *)
(* and all that it calls.  The transactions that handlers, kill functions  *)
(* and posts open themselves have nothing to drain, except those of        *)
(* split(), which are steps here.                                          *)
(*                                                                         *)
(* A program is a graph of streams 1..n and the calls that make them, in   *)
(* order.  A value is a sequence of strings: one that a cell of streams    *)
(* holds is the name of a stream, and a list is split into its elements.   *)
(***************************************************************************)
EXTENDS Integers, Sequences, FiniteSets, FiniteSetsExt, SequencesExt

CONSTANT Programs  (* graphs: op, calls, setup (calls made before the start), *)
                   (* name (which stream a name is), input (what each sink may *)
                   (* be sent), replayMany (a switch may be made when its cell *)
                   (* was updated twice), bounds: txns, sends (of each)        *)

VARIABLES
  program,  (* the program that runs                                      *)
  made,     (* how many of its calls were made                            *)
  eng,      (* targets and firings of nodes, cells, the queue, the posts  *)
  phase,    (* of the user thread's transaction                           *)
  frames,   (* what the post of a split has still to send, and to what    *)
  gone,     (* listeners that were killed, routes that were released      *)
  txns, sent, frame, start  (* history, with fired and heard in eng *)

vars == <<program, made, eng, phase, frames, gone, txns, sent, frame, start>>
history == <<txns, sent, frame, start>>

Op == program.op
Stream == DOMAIN Op
Kind(s) == Op[s].kind
In(s) == Op[s].in
OfKind(k) == {s \in Stream : Kind(s) = k}
Built == UNION {ToSet(program.calls[k]) : k \in 1 .. made}
Listeners == OfKind("listener") \cup OfKind("once")

\* A route asked of a router_loop is a stream_loop, to be tied to this node.
Routed(s) == 0 - s
Nodes == Stream \cup {Routed(s) : s \in OfKind("route")}

None == 0
Link(as, of, node) == [as |-> as, of |-> of, node |-> node]
Entry(link, vals) == [link |-> link, vals |-> vals]

-----------------------------------------------------------------------------
\* Posts, firings and links

post(e, action) == [e EXCEPT !.posts = Append(@, action)]
prioritized(e, entry) == [e EXCEPT !.queue = Append(@, entry)]

send(e, n, v) ==
  LET c == IF e.firings[n] = <<>> THEN post(e, [do |-> "clear", node |-> n]) ELSE e
  IN [c EXCEPT !.firings[n] = <<v>> \o @,
               !.fired[n] = Append(@, v),
               !.queue = @ \o [k \in DOMAIN e.targets[n] |-> Entry(e.targets[n][k], <<v>>)]]

\* listen_raw(): links, and queues what n has fired already, newest first.
listen(e, n, link, suppressEarlierFirings) ==
  LET l == [e EXCEPT !.targets[n] = <<link>> \o @]
  IN IF suppressEarlierFirings \/ e.firings[n] = <<>> THEN l
     ELSE prioritized(l, Entry(link, e.firings[n]))

\* What listen_raw() returns: it opens a transaction and calls last().
unlisten(e, n, link) == post(e, [do |-> "unlink", node |-> n, link |-> link])

unlink(e, n, link) ==
  LET ks == {k \in DOMAIN e.targets[n] : e.targets[n][k] = link}
  IN IF ks = {} THEN e
     ELSE [e EXCEPT !.targets[n] = RemoveAt(@, CHOOSE k \in ks : \A j \in ks : k <= j)]

-----------------------------------------------------------------------------
\* switch_s: a node with a link from the updates of the cell, and one from the
\* stream that the cell holds, which pKillInner ends.

Held(e, c) == program.name[e.cell[c].current]
Inner(s) == Link("forward", s, s)

listenInner(e, s, n, suppress) == [listen(e, n, Inner(s), suppress) EXCEPT !.inner[s] = n]

kill_once(e, s) ==
  IF e.inner[s] = None THEN e
  ELSE [unlisten(e, e.inner[s], Inner(s)) EXCEPT !.inner[s] = None]

enter(e, s) ==
  IF e.inner[s] = None THEN listenInner(e, s, Held(e, In(s)[1]), FALSE) ELSE e

makeSwitch(e, s) ==
  listen(prioritized(e, Entry(Link("enter", s, s), <<>>)), In(In(s)[1])[1],
         Link("switch", s, s), FALSE)

\* Mutant of switchTo: the stream that was followed is not let go.
switchToBoth(e, s, v) == listenInner(e, s, program.name[v], TRUE)

\* The post of switch_s_handler.
switchTo(e, s, v) == listenInner(kill_once(e, s), s, program.name[v], TRUE)

-----------------------------------------------------------------------------
\* router

\* The link from the router's node to n only carries ranks.
filter_equals(e, r, sel, n) == [e EXCEPT !.table[r] = Append(@, [sel |-> sel, node |-> n])]

\* Of a router, or of a router_loop that may have been tied to one.
makeRoute(e, s) ==
  LET r == In(s)[1]
  IN CASE Kind(r) = "router" -> filter_equals(e, r, In(s)[2], s)
       [] Kind(r) = "router_loop" /\ e.inner[r] # None -> filter_equals(e, e.inner[r], In(s)[2], s)
       [] OTHER -> [e EXCEPT !.queued[r] = Append(@, s)]

\* i->looped: a second loop() throws, and changes nothing.
looped(e, loop) == \E n \in Nodes : Link("forward", loop, loop) \in ToSet(e.targets[n])

\* stream_loop::loop()
tie(e, n, loop) ==
  IF looped(e, loop) THEN e ELSE listen(e, n, Link("forward", loop, loop), FALSE)

tieRoute(e, s) ==
  tie(filter_equals(e, e.inner[In(s)[1]], In(s)[2], Routed(s)), Routed(s), s)

\* Mutant of tieRouter: routes already asked for are forgotten.
tieRouterLate(e, s) == [e EXCEPT !.inner[In(s)[2]] = In(s)[1], !.queued[In(s)[2]] = <<>>]

\* router_loop::loop(), which throws too when it is tied.
tieRouter(e, s) ==
  LET r == In(s)[2]
      tied == [e EXCEPT !.inner[r] = In(s)[1]]
  IN IF e.inner[r] # None THEN e
     ELSE [FoldLeft(tieRoute, tied, e.queued[r]) EXCEPT !.queued[r] = <<>>]

\* router_handler::handle()
route(e, r, v) ==
  LET targets == SelectSeq(e.table[r], LAMBDA t : t.sel = v[1])
  IN FoldLeft(LAMBDA acc, t : send(acc, t.node, v), e, targets)

-----------------------------------------------------------------------------
\* Handlers and calls

hold(e, c, v) ==
  LET p == IF e.cell[c].update = <<>> THEN post(e, [do |-> "finalize", cell |-> c]) ELSE e
  IN [p EXCEPT !.cell[c].update = <<v>>]

hear(e, l, v) == [e EXCEPT !.heard[l] = Append(@, v)]

\* Mutant of handle_once: it stays.
handle_onceStays(e, l, v) == hear(e, l, v)

\* listen_once(): the handler ends its own listening.
handle_once(e, l, v) == unlisten(hear(e, l, v), In(l)[1], Link("once", l, l))

handle(e, link, v) ==
  LET s == link.of
  IN CASE link.as = "forward" -> send(e, s, v)
       [] link.as = "hold" -> hold(e, s, v)
       [] link.as = "switch" -> post(e, [do |-> "switch", of |-> s, to |-> v])
       [] link.as = "split" -> post(e, [do |-> "split", of |-> s, items |-> v])
       [] link.as = "router" -> route(e, s, v)
       [] link.as = "snapshot" -> send(e, s, v \o e.cell[In(s)[2]].current)
       [] link.as = "listener" -> hear(e, s, v)
       [] link.as = "once" -> handle_once(e, s, v)

RECURSIVE process(_, _)
process(e, entry) ==
  CASE entry.link.as = "enter" -> enter(e, entry.link.of)
    [] entry.link.as # "enter" /\ entry.vals = <<>> -> e
    [] OTHER -> process(handle(e, entry.link, Head(entry.vals)), [entry EXCEPT !.vals = Tail(@)])

make(e, s) ==
  CASE Kind(s) \in {"sink", "loop", "router_loop"} -> e
    [] Kind(s) = "switch" -> makeSwitch(e, s)
    [] Kind(s) = "route" -> makeRoute(e, s)
    [] Kind(s) = "tie" -> tie(e, In(s)[1], In(s)[2])
    [] Kind(s) = "tieRouter" -> tieRouter(e, s)
    [] OTHER -> listen(e, In(s)[1], Link(Kind(s), s, s), FALSE)

RECURSIVE makeAll(_, _)
makeAll(e, call) == IF call = <<>> THEN e ELSE makeAll(make(e, Head(call)), Tail(call))

\* A posted function, except that of split.
Posted(e, p) ==
  CASE p.do = "clear" -> [e EXCEPT !.firings[p.node] = <<>>]
    [] p.do = "finalize" -> [e EXCEPT !.cell[p.cell] = [current |-> @.update[1], update |-> <<>>]]
    [] p.do = "switch" -> switchTo(e, p.of, p.to)
    [] p.do = "unlink" -> unlink(e, p.node, p.link)
    [] p.do = "erase" -> [e EXCEPT !.table[p.router] = SelectSeq(@, LAMBDA t : t.node # p.node)]

-----------------------------------------------------------------------------

NoEngine ==
  [targets |-> [n \in Nodes |-> <<>>], firings |-> [n \in Nodes |-> <<>>],
   fired |-> [n \in Nodes |-> <<>>], heard |-> [l \in Listeners |-> <<>>],
   cell |-> [c \in OfKind("hold") |-> [current |-> program.init[c], update |-> <<>>]],
   inner |-> [s \in Stream |-> None], table |-> [s \in Stream |-> <<>>],
   queued |-> [s \in Stream |-> <<>>], queue |-> <<>>, posts |-> <<>>]

\* The graph is begun in a transaction.
Init ==
  /\ program \in Programs
  /\ made = program.setup
  /\ \E e \in {NoEngine} :
       eng = makeAll(e, FlattenSeq(SubSeq(program.calls, 1, made)))
  /\ phase = "open"
  /\ frames = <<>> /\ frame = 0
  /\ gone = {} /\ txns = 1
  /\ sent = [s \in Stream |-> <<>>]
  /\ start = [gone |-> {}, served |-> {}]

Nothing == [n \in Nodes |-> <<>>]

Open ==
  /\ phase = "idle" /\ txns < program.txns
  /\ phase' = "open" /\ txns' = txns + 1
  /\ frame' = 0
  /\ sent' = [s \in Stream |-> <<>>]
  /\ eng' = [eng EXCEPT !.fired = Nothing, !.heard = [l \in Listeners |-> <<>>]]
  /\ start' = [gone |-> gone,
               served |-> start.served \cup {l \in OfKind("once") : eng.heard[l] # <<>>}]
  /\ UNCHANGED <<program, made, frames, gone>>

Make ==
  /\ phase = "open"
  /\ made < Len(program.calls)
  /\ \A s \in ToSet(program.calls[made + 1]) :
       Kind(s) = "switch" => program.replayMany \/ Len(eng.firings[In(In(s)[1])[1]]) <= 1
  /\ made' = made + 1
  /\ eng' = makeAll(eng, program.calls[made + 1])
  /\ UNCHANGED <<program, phase, frames, gone, history>>

Send(s, v) ==
  /\ phase = "open"
  /\ FoldSet(LAMBDA x, n : n + Len(sent[x]), 0, Stream) < program.sends
  /\ v \in DOMAIN program.name => program.name[v] \in Built
  /\ eng' = send(eng, s, v)
  /\ sent' = [sent EXCEPT ![s] = Append(@, v)]
  /\ UNCHANGED <<program, made, phase, frames, gone, txns, frame, start>>

\* The function that listen() returned, or a route of a router released.
Kill(s) ==
  /\ phase = "open"
  /\ Kind(s) \in {"listener", "route"} /\ s \notin gone
  /\ gone' = gone \cup {s}
  /\ \/ /\ Kind(s) = "listener"
        /\ eng' = unlisten(eng, In(s)[1], Link("listener", s, s))
     \/ /\ Kind(s) = "route" /\ Kind(In(s)[1]) = "router" /\ eng.targets[s] = <<>>
        /\ eng' = post(eng, [do |-> "erase", router |-> In(s)[1], node |-> s])
  /\ UNCHANGED <<program, made, phase, frames, history>>

Close ==
  /\ phase = "open"
  /\ phase' = "drain"
  /\ UNCHANGED <<program, made, eng, frames, gone, history>>

Take ==
  /\ phase = "drain" /\ eng.queue # <<>>
  /\ eng' = process([eng EXCEPT !.queue = Tail(@)], Head(eng.queue))
  /\ UNCHANGED <<program, made, phase, frames, gone, history>>

Drained ==
  /\ phase = "drain" /\ eng.queue = <<>>
  /\ phase' = "posts"
  /\ UNCHANGED <<program, made, eng, frames, gone, history>>

RunPost ==
  /\ phase = "posts" /\ frames = <<>> /\ eng.posts # <<>>
  /\ LET p == Head(eng.posts)
         e == [eng EXCEPT !.posts = Tail(@)]
     IN IF p.do = "split" THEN frames' = <<p>> /\ eng' = e
        ELSE eng' = Posted(e, p) /\ UNCHANGED frames
  /\ UNCHANGED <<program, made, phase, gone, history>>

\* The next element of a list, in a transaction of its own whose close() drains,
\* but runs no posts: they are being processed.
Frame ==
  /\ phase = "posts" /\ frames # <<>>
  /\ LET p == frames[1]
     IN /\ frames' = IF Len(p.items) = 1 THEN <<>> ELSE <<[p EXCEPT !.items = Tail(@)]>>
        /\ phase' = "drain"
        /\ frame' = frame + 1
        /\ sent' = [s \in Stream |-> IF s = p.of THEN <<<<p.items[1]>>>> ELSE <<>>]
        /\ eng' = send([eng EXCEPT !.fired = Nothing, !.heard = [l \in Listeners |-> <<>>]],
                       p.of, <<p.items[1]>>)
  /\ UNCHANGED <<program, made, gone, txns, start>>

Closed ==
  /\ phase = "posts" /\ frames = <<>> /\ eng.posts = <<>>
  /\ phase' = "idle"
  /\ UNCHANGED <<program, made, eng, frames, gone, history>>

Engine == Take \/ Drained \/ RunPost \/ Frame \/ Closed

Next ==
  \/ Open \/ Make \/ Close
  \/ \E s \in OfKind("sink") \cap Built : \E v \in program.input[s] : Send(s, v)
  \/ \E s \in Built : Kill(s)
  \/ Engine

Spec == Init /\ [][Next]_vars /\ WF_vars(Engine)

-----------------------------------------------------------------------------
\* What the streams of the program mean: their firings in a transaction.

\* What a loop was tied to: by the first call that did, as another one throws.
Tied(k, s) == Kind(k) \in {"tie", "tieRouter"} /\ In(k)[2] = s
Place(k) == CHOOSE c \in 1 .. made : k \in ToSet(program.calls[c])
TiedTo(s) ==
  LET ties == {k \in Built : Tied(k, s)}
  IN {In(k)[1] : k \in {k \in ties : \A j \in ties : Place(k) <= Place(j)}}

RECURSIVE Meaning(_)
Meaning(s) ==
  LET in == IF Kind(s) \in {"sink", "split", "switch", "route", "loop"} THEN <<>> ELSE Meaning(In(s)[1])
  IN CASE Kind(s) \in {"sink", "split"} -> sent[s]
       [] Kind(s) = "switch" -> Meaning(Held(eng, In(s)[1]))
       [] Kind(s) = "loop" -> IF TiedTo(s) = {} THEN <<>> ELSE Meaning(CHOOSE n \in TiedTo(s) : TRUE)
       [] Kind(s) = "route" ->
            LET r == In(s)[1]
                routers == IF Kind(r) = "router" THEN {r} ELSE TiedTo(r)
            IN IF s \in start.gone \/ routers = {} THEN <<>>
               ELSE SelectSeq(Meaning(In(CHOOSE x \in routers : TRUE)[1]), LAMBDA v : v[1] = In(s)[2])
       [] Kind(s) = "snapshot" -> [k \in DOMAIN in |-> in[k] \o eng.cell[In(s)[2]].current]

\* Firings as a bag: what was fired before a listener came is replayed newest first.
Bag(f) == [v \in ToSet(f) |-> Cardinality({k \in DOMAIN f : f[k] = v})]

Streams == {s \in Built : Kind(s) \in {"sink", "split", "switch", "route", "loop", "snapshot"}}
AtRest == phase = "drain" /\ eng.queue = <<>>

LinksTo(n, link) == Cardinality({k \in DOMAIN eng.targets[n] : eng.targets[n][k] = link})

-----------------------------------------------------------------------------
\* Properties

\* Before its posts each transaction, a split's too, has fired what its streams
\* mean: a switch the stream its cell held when it began, whatever the cell was
\* sent since; routes what their router selects, when asked for before the
\* router was tied or made late, until they are released.
FiredAsDenoted ==
  AtRest => \A s \in Streams :
              (Kind(s) = "switch" /\ frame > 0) \/ Bag(eng.fired[s]) = Bag(Meaning(s))

\* A listener hears each of those firings once, up to the end of the transaction
\* in which it is killed; one of listen_once() until it has heard one.
HeardAsDenoted ==
  AtRest => \A l \in Built \cap Listeners :
              LET m == Meaning(In(l)[1])
              IN Bag(eng.heard[l]) =
                   IF l \in start.gone \cup start.served \/ (l \in gone /\ frame > 0)
                   THEN Bag(<<>>) ELSE Bag(m)

\* Nothing is left to the next transaction, and links are what they should be:
\* one into each switch, from the stream its cell now holds; one for each
\* listener that has not ended; a table entry for each route not released.
Settled ==
  phase = "idle" =>
    /\ \A n \in Nodes : eng.firings[n] = <<>>
    /\ \A c \in OfKind("hold") : eng.cell[c].update = <<>>
    /\ \A s \in Built \cap OfKind("switch") :
         LET from == Held(eng, In(s)[1])
         IN /\ eng.inner[s] = from
            /\ \A n \in Nodes : LinksTo(n, Inner(s)) = IF n = from THEN 1 ELSE 0
    /\ \A l \in Built \cap OfKind("listener") :
         LinksTo(In(l)[1], Link("listener", l, l)) = IF l \in gone THEN 0 ELSE 1
    /\ \A r \in Built \cap OfKind("router") :
         \A s \in Built \cap OfKind("route") :
           Kind(In(s)[1]) = "router" /\ In(s)[1] = r =>
             (s \in {t.node : t \in ToSet(eng.table[r])} <=> s \notin gone)

\* split() puts each element into a transaction of its own, so that state is
\* updated for each: no update is left when the next one starts.
StatePerFrame ==
  phase = "posts" /\ frame > 0 /\ frames # <<>> =>
    \A c \in OfKind("hold") : eng.cell[c].update = <<>>

=============================================================================
