----------------------------- MODULE StreamLife -----------------------------
(***************************************************************************)
(* How streams are wired, kept alive and taken apart: listen_impl_func     *)
(* with its three counts (sodium_base.h), the references that intrusive    *)
(* pointers take and release (transaction.cpp), the links between nodes,   *)
(* and the kill functions that undo them (sodium.cpp).                     *)
(*                                                                         *)
(* Threads hold stream handles, sinks and kill functions and let go of     *)
(* them.  What a call still has to do is the thread's agenda, the next     *)
(* task first: a destructor that runs inside a release, the cleanups that  *)
(* run inside another.  A task that takes a lock of the lock pool is one   *)
(* step; update_and_unlock unlocks to run the cleanups, so these are steps *)
(* of their own, and what follows them is another.                         *)
(*                                                                         *)
(* A transaction is here only what decides when posts run: depth and       *)
(* processing_post, which several threads read and write with no lock, so  *)
(* that depth may be any number, posts may run on two threads, and a post  *)
(* may stay behind.  The mutex that process_post() holds between two       *)
(* actions is left out, which allows more orders than there are.           *)
(* Transaction has the rest.                                               *)
(***************************************************************************)
EXTENDS CountSet, Integers, Sequences, FiniteSets, SequencesExt

CONSTANTS Threads,
          Streams,        (* listen_impl_func objects, each with its node    *)
          Listeners,      (* nodes made by listen(), with no stream          *)
          Sources,        (* Sources[o]: the streams o is made to listen to  *)
          NoThread,       (* nobody made the object yet                      *)
          Openers,        (* bounds: the threads that open transactions of   *)
          MaxDrift        (* their own, and how far from 0 depth is then     *)

Objects == Streams \cup Listeners

ASSUME ObjectsAssumption == Streams \cap Listeners = {} /\ NoThread \notin Threads
ASSUME OpenersAssumption == Openers \subseteq Threads /\ MaxDrift \in Nat
ASSUME FiniteAssumption == IsFiniteSet(Threads) /\ IsFiniteSet(Objects)
ASSUME SourcesAssumption ==
  /\ Sources \in [Objects -> Seq(Streams)]
  /\ \A l \in Listeners : Len(Sources[l]) = 1

VARIABLES
  counts,                 (* listen_impl_func::counts                        *)
  func,                   (* listen_impl_func::func # NULL                   *)
  cleanups,               (* the sources whose kill is among the cleanups of *)
                          (* a stream, or is the kill given to a listener    *)
  nodeRefs,               (* the use_count of the shared_ptr<node>           *)
  targets,                (* node::targets                                   *)
  sources,                (* node::sources                                   *)
  freed,                  (* the listen_impl_funcs that were deleted         *)
  maker,                  (* the thread that made the object                 *)
  held,                   (* the stream handles of each thread               *)
  sinks,                  (* the sinks (and so their nodes) that are held    *)
  open,                   (* the threads with an open transaction of theirs  *)
  depth,                  (* partition::depth                                *)
  posts,                  (* partition::postQ: <<source, target>> to unlink  *)
  processing_post,        (* partition::processing_post                      *)
  read,                   (* the depth that each thread has read, to add to  *)
  agenda                  (* what the call each thread is in has yet to do   *)

vars == <<counts, func, cleanups, nodeRefs, targets, sources, freed, maker, held,
          sinks, open, depth, posts, processing_post, read, agenda>>

links == <<targets, sources>>
owners == <<maker, held, sinks, open>>
deferral == <<depth, read, posts, processing_post>>

-----------------------------------------------------------------------------
(* Counts and tasks.                                                       *)

Inc(o, k) == [counts EXCEPT ![o] = inc(@, k)]
Dec(o, k) == [counts EXCEPT ![o] = dec(@, k)]

\* A task does op for object o; arg is what else it needs.
Task(op, o, arg) == [op |-> op, o |-> o, arg |-> arg]
Release(o, k) == Task("release", o, k)
DropNode(o) == Task("dropNode", o, o)
Now(op, t) == Task(op, t, t)

\* A task for each element of a sequence: what it is done for, or what it needs.
Each(op, s, arg) == [k \in DOMAIN s |-> Task(op, s[k], arg)]
WithEach(op, o, s) == [k \in DOMAIN s |-> Task(op, o, s[k])]
DropNodes(s) == [k \in DOMAIN s |-> DropNode(s[k])]

Doing(t, op) == agenda[t] # <<>> /\ Head(agenda[t]).op = op
Obj(t) == Head(agenda[t]).o
Arg(t) == Head(agenda[t]).arg

\* The first task is over, and these come before the rest.
Continue(t, tasks) == agenda' = [agenda EXCEPT ![t] = tasks \o Tail(@)]
Begin(t, tasks) == agenda[t] = <<>> /\ agenda' = [agenda EXCEPT ![t] = tasks]

\* What a thread does for its transactions and for posts.
TransactionOps == {"raise", "close", "fetch", "lower", "testPosting", "setPosting", "posts",
                   "resetPosting"}

AllTasks ==
  {Release(o, k) : o \in Streams, k \in Kinds}
    \cup {Task(op, o, o) : op \in {"relock", "clear"}, o \in Streams}
    \cup {Task(op, s, o) : op \in {"kill", "last", "listen", "link", "unsource", "unlink"},
                           s \in Streams, o \in Objects}
    \cup {DropNode(o) : o \in Objects}
    \cup {Now(op, t) : op \in TransactionOps, t \in Threads}

\* Where elements of X occur in the sequences of f, and how often.
Places(X, f) == UNION {{d} \X {k \in DOMAIN f[d] : f[d][k] \in X} : d \in DOMAIN f}
Occurs(X, f) == Cardinality(Places(X, f))
Count(X, s) == Cardinality({k \in DOMAIN s : s[k] \in X})

\* s without its elements x.
Without(s, x) ==
  LET kept[n \in 0 .. Len(s)] ==
        IF n = 0 THEN <<>> ELSE IF s[n] = x THEN kept[n - 1] ELSE Append(kept[n - 1], s[n])
  IN  kept[Len(s)]

TypeOK ==
  /\ counts \in [Streams -> CountSets]
  /\ func \in [Streams -> BOOLEAN]
  /\ cleanups \in [Objects -> Seq(Streams)]
  /\ nodeRefs \in [Objects -> Nat]
  /\ targets \in [Streams -> Seq(Objects)]
  /\ sources \in [Objects -> Seq(Streams)]
  /\ freed \subseteq Streams
  /\ maker \in [Objects -> Threads \cup {NoThread}]
  /\ held \in [Threads -> SUBSET Streams]
  /\ sinks \subseteq Streams
  /\ open \subseteq Threads
  /\ depth \in Int
  /\ posts \in Seq(Streams \X Objects)
  /\ processing_post \in BOOLEAN
  /\ read \in [Threads -> Int]
  /\ agenda \in [Threads -> Seq(AllTasks)]

Init ==
  /\ counts = [o \in Streams |-> empty]
  /\ func = [o \in Streams |-> FALSE]
  /\ cleanups = [o \in Objects |-> <<>>]
  /\ nodeRefs = [o \in Objects |-> 0]
  /\ targets = [o \in Streams |-> <<>>]
  /\ sources = [o \in Objects |-> <<>>]
  /\ freed = {}
  /\ maker = [o \in Objects |-> NoThread]
  /\ held = [t \in Threads |-> {}]
  /\ sinks = {}
  /\ open = {}
  /\ depth = 0
  /\ posts = <<>>
  /\ processing_post = FALSE
  /\ read = [t \in Threads |-> 0]
  /\ agenda = [t \in Threads |-> <<>>]

-----------------------------------------------------------------------------
(* What the program does with streams.                                     *)

\* depth++ begins: the number is read.
ReadDepth(t) == read' = [read EXCEPT ![t] = depth]

\* unsafe_new_stream(): a func, a node and a handle of the stream.
NewStream(t, o) ==
  /\ maker[o] = NoThread
  /\ maker' = [maker EXCEPT ![o] = t]
  /\ counts' = [counts EXCEPT ![o] = inc(inc(empty, "node"), "stream")]
  /\ func' = [func EXCEPT ![o] = TRUE]
  /\ nodeRefs' = [nodeRefs EXCEPT ![o] = 1]
  /\ held' = [held EXCEPT ![t] = @ \cup {o}]

\* stream_sink_impl::construct(): the sink keeps the node.
NewSink(t) ==
  /\ \E o \in Streams :
       /\ Sources[o] = <<>>
       /\ NewStream(t, o)
       /\ sinks' = sinks \cup {o}
  /\ Begin(t, <<>>)
  /\ UNCHANGED <<cleanups, links, freed, open, deferral>>

\* map_, merge_ and their like, inside a transaction of their own: listen to
\* each source; its targets keep the node, or nobody does.
Derive(t) ==
  /\ \E o \in Streams :
       /\ Sources[o] # <<>> /\ Range(Sources[o]) \subseteq held[t]
       /\ NewStream(t, o)
       /\ Begin(t, <<Now("raise", t)>> \o Each("listen", Sources[o], o)
                     \o <<DropNode(o), Now("close", t)>>)
  /\ ReadDepth(t)
  /\ UNCHANGED <<cleanups, links, freed, sinks, open, depth, posts, processing_post>>

\* listen().
Listen(t) ==
  /\ \E l \in Listeners :
       /\ maker[l] = NoThread
       /\ Sources[l][1] \in held[t]
       /\ maker' = [maker EXCEPT ![l] = t]
       /\ nodeRefs' = [nodeRefs EXCEPT ![l] = 1]
       /\ Begin(t, <<Now("raise", t), Task("listen", Sources[l][1], l), DropNode(l),
                     Now("close", t)>>)
  /\ ReadDepth(t)
  /\ UNCHANGED <<counts, func, cleanups, links, freed, held, sinks, open, depth, posts,
                 processing_post>>

\* The kill function that listen() returned is called, once.
Unlisten(t) ==
  /\ \E l \in Listeners :
       /\ maker[l] = t
       /\ cleanups[l] # <<>>
       /\ cleanups' = [cleanups EXCEPT ![l] = <<>>]
       /\ Begin(t, <<Task("kill", cleanups[l][1], l)>>)
  /\ UNCHANGED <<counts, func, nodeRefs, links, freed, owners, deferral>>

\* Handles are copied, also to another thread, and go out of scope.
CopyHandle(t) ==
  /\ \E o \in held[t] : \E u \in Threads \ {t} :
       /\ o \notin held[u]
       /\ held' = [held EXCEPT ![u] = @ \cup {o}]
       /\ counts' = Inc(o, "stream")
  /\ Begin(t, <<>>)
  /\ UNCHANGED <<func, cleanups, nodeRefs, links, freed, maker, sinks, open, deferral>>

DropHandle(t) ==
  /\ \E o \in held[t] :
       /\ held' = [held EXCEPT ![t] = @ \ {o}]
       /\ Begin(t, <<Release(o, "stream")>>)
  /\ UNCHANGED <<counts, func, cleanups, nodeRefs, links, freed, maker, sinks, open, deferral>>

DropSink(t) ==
  /\ \E o \in sinks :
       /\ sinks' = sinks \ {o}
       /\ Begin(t, <<DropNode(o)>>)
  /\ UNCHANGED <<counts, func, cleanups, nodeRefs, links, freed, maker, held, open, deferral>>

\* A transaction of the program's own, around any of these.
OpenTransaction(t) ==
  /\ t \in Openers \ open
  /\ depth \in -MaxDrift .. MaxDrift
  /\ open' = open \cup {t}
  /\ Begin(t, <<Now("raise", t)>>)
  /\ ReadDepth(t)
  /\ UNCHANGED <<counts, func, cleanups, nodeRefs, links, freed, maker, held, sinks, depth,
                 posts, processing_post>>

CloseTransaction(t) ==
  /\ t \in open
  /\ open' = open \ {t}
  /\ Begin(t, <<Now("close", t)>>)
  /\ UNCHANGED <<counts, func, cleanups, nodeRefs, links, freed, maker, held, sinks, deferral>>

-----------------------------------------------------------------------------
(* References to a listen_impl_func.                                       *)

\* Mutant of DoRelease: the strong reference of update_and_unlock is left out.
DoReleaseUnguarded(t) ==
  /\ Doing(t, "release")
  /\ LET o == Obj(t)  c == Dec(o, Arg(t)) IN
       \/ /\ func[o] /\ ~active(c[o])
          /\ counts' = c
          /\ cleanups' = [cleanups EXCEPT ![o] = <<>>]
          /\ Continue(t, Each("kill", cleanups[o], o) \o <<Task("clear", o, o)>>)
          /\ UNCHANGED freed
       \/ /\ ~(func[o] /\ ~active(c[o]))
          /\ counts' = c
          /\ freed' = IF alive(c[o]) THEN freed ELSE freed \cup {o}
          /\ Continue(t, <<>>)
          /\ UNCHANGED cleanups
  /\ UNCHANGED <<func, nodeRefs, links, owners, deferral>>

\* intrusive_ptr_release and update_and_unlock: a stream that has become
\* inactive is cleaned up, with the lock released and a strong reference; one
\* that nothing refers to is deleted.
DoRelease(t) ==
  /\ Doing(t, "release")
  /\ LET o == Obj(t)  c == Dec(o, Arg(t)) IN
       \/ /\ func[o] /\ ~active(c[o])
          /\ counts' = [c EXCEPT ![o] = inc(@, "strong")]
          /\ cleanups' = [cleanups EXCEPT ![o] = <<>>]
          /\ Continue(t, Each("kill", cleanups[o], o)
                         \o <<Task("clear", o, o), Task("relock", o, o)>>)
          /\ UNCHANGED freed
       \/ /\ ~(func[o] /\ ~active(c[o]))
          /\ counts' = c
          /\ freed' = IF alive(c[o]) THEN freed ELSE freed \cup {o}
          /\ Continue(t, <<>>)
          /\ UNCHANGED cleanups
  /\ UNCHANGED <<func, nodeRefs, links, owners, deferral>>

\* delete func; func = NULL, ...
Clear(t) ==
  /\ Doing(t, "clear")
  /\ func' = [func EXCEPT ![Obj(t)] = FALSE]
  /\ Continue(t, <<>>)
  /\ UNCHANGED <<counts, cleanups, nodeRefs, links, freed, owners, deferral>>

\* ... and with the lock again the strong reference goes.
Relock(t) ==
  /\ Doing(t, "relock")
  /\ LET o == Obj(t)  c == Dec(o, "strong") IN
       /\ counts' = c
       /\ freed' = IF alive(c[o]) THEN freed ELSE freed \cup {o}
  /\ Continue(t, <<>>)
  /\ UNCHANGED <<func, cleanups, nodeRefs, links, owners, deferral>>

-----------------------------------------------------------------------------
(* Links between nodes.                                                    *)

\* Where, in whose agenda, func of o is about to be deleted.
Cleaners(o) == Places({Task("clear", o, o)}, agenda)
Cleaning(o) == Cleaners(o) # {}

\* listen_impl(): a strong reference, and the call of func if it is there.
\* Nothing in the code orders that test with the end of func, on a thread that
\* lets go of the sink at this moment: here the call comes after it.
DoListen(t) ==
  /\ Doing(t, "listen")
  /\ ~Cleaning(Obj(t))
  /\ counts' = Inc(Obj(t), "strong")
  /\ Continue(t, (IF func[Obj(t)] THEN <<Task("link", Obj(t), Arg(t))>> ELSE <<>>)
                 \o <<Release(Obj(t), "strong")>>)
  /\ UNCHANGED <<func, cleanups, nodeRefs, links, freed, owners, deferral>>

\* func: if the node is there, link() it and return a kill function, which
\* becomes a cleanup of the target's stream.
Link(t) ==
  /\ Doing(t, "link")
  /\ LET s == Obj(t)  o == Arg(t) IN
       \/ /\ nodeRefs[s] > 0
          /\ nodeRefs' = [nodeRefs EXCEPT ![s] = @ + 1, ![o] = @ + 1]
          /\ targets' = [targets EXCEPT ![s] = <<o>> \o @]
          /\ sources' = [sources EXCEPT ![o] = <<s>> \o @]
          /\ counts' = Inc(s, "stream")
          /\ cleanups' = [cleanups EXCEPT ![o] = <<s>> \o @]
          /\ Continue(t, <<DropNode(s)>>)
       \/ /\ nodeRefs[s] = 0
          /\ Continue(t, <<>>)
          /\ UNCHANGED <<nodeRefs, links, counts, cleanups>>
  /\ UNCHANGED <<func, freed, owners, deferral>>

\* A shared_ptr<node> goes.  With the last one the node is destroyed: ~node()
\* takes it out of the sources of its targets, and its members follow, the
\* last declared first.
DropNodeRef(t) ==
  /\ Doing(t, "dropNode")
  /\ LET o == Obj(t)  out == IF o \in Streams THEN targets[o] ELSE <<>> IN
       \/ /\ nodeRefs[o] > 1
          /\ Continue(t, <<>>)
          /\ UNCHANGED links
       \/ /\ nodeRefs[o] = 1
          /\ Continue(t, WithEach("unsource", o, out)
                         \o (IF o \in Streams THEN <<Release(o, "node")>> ELSE <<>>)
                         \o Each("release", sources[o], "stream") \o DropNodes(out))
          /\ sources' = [sources EXCEPT ![o] = <<>>]
          /\ targets' = [s \in Streams |-> IF s = o THEN <<>> ELSE targets[s]]
  /\ nodeRefs' = [nodeRefs EXCEPT ![Obj(t)] = @ - 1]
  /\ UNCHANGED <<counts, func, cleanups, freed, owners, deferral>>

\* sources.remove(li), for a reference li made for the purpose: what it
\* releases, itself last.
SourcesRemoved(s, o) == [k \in 1 .. Count({s}, sources[o]) + 1 |-> Release(s, "stream")]

Unsource(t) ==
  /\ Doing(t, "unsource")
  /\ LET s == Obj(t)  o == Arg(t) IN
       /\ counts' = Inc(s, "stream")
       /\ sources' = [sources EXCEPT ![o] = Without(@, s)]
       /\ Continue(t, SourcesRemoved(s, o))
  /\ UNCHANGED <<func, cleanups, nodeRefs, targets, freed, owners, deferral>>

\* node::unlink() by the action of a kill function, if the node is there yet.
Unlink(t) ==
  /\ Doing(t, "unlink")
  /\ LET s == Obj(t)  o == Arg(t) IN
       \/ /\ nodeRefs[s] > 0 /\ o \in Range(targets[s])
          /\ targets' = [targets EXCEPT ![s] = RemoveFirst(@, o)]
          /\ sources' = [sources EXCEPT ![o] = Without(@, s)]
          /\ counts' = Inc(s, "stream")
          /\ nodeRefs' = [nodeRefs EXCEPT ![s] = @ + 1]
          /\ Continue(t, SourcesRemoved(s, o) \o <<DropNode(o), DropNode(s)>>)
       \/ /\ nodeRefs[s] = 0 \/ o \notin Range(targets[s])
          /\ Continue(t, <<>>)
          /\ UNCHANGED <<links, counts, nodeRefs>>
  /\ UNCHANGED <<func, cleanups, freed, owners, deferral>>

-----------------------------------------------------------------------------
(* Transactions, as far as they decide when unlink() runs.                 *)

\* A kill function opens a transaction, ...
Kill(t) ==
  /\ Doing(t, "kill")
  /\ ReadDepth(t)
  /\ Continue(t, <<Now("raise", t), Task("last", Obj(t), Arg(t))>>)
  /\ UNCHANGED <<counts, func, cleanups, nodeRefs, links, freed, owners, depth, posts,
                 processing_post>>

\* ... puts unlink() off with last(), and closes it.
PutOff(t) ==
  /\ Doing(t, "last")
  /\ posts' = Append(posts, <<Obj(t), Arg(t)>>)
  /\ Continue(t, <<Now("close", t)>>)
  /\ UNCHANGED <<counts, func, cleanups, nodeRefs, links, freed, owners, depth, read,
                 processing_post>>

\* depth++ and depth--, from the number that was read.
Raise(t) ==
  /\ Doing(t, "raise")
  /\ depth' = read[t] + 1
  /\ read' = [read EXCEPT ![t] = 0]
  /\ Continue(t, <<>>)
  /\ UNCHANGED <<counts, func, cleanups, nodeRefs, links, freed, owners, posts, processing_post>>

Fetch(t) ==
  /\ Doing(t, "fetch")
  /\ ReadDepth(t)
  /\ Continue(t, <<Now("lower", t)>>)
  /\ UNCHANGED <<counts, func, cleanups, nodeRefs, links, freed, owners, depth, posts,
                 processing_post>>

Lower(t) ==
  /\ Doing(t, "lower")
  /\ depth' = read[t] - 1
  /\ read' = [read EXCEPT ![t] = 0]
  /\ Continue(t, <<>>)
  /\ UNCHANGED <<counts, func, cleanups, nodeRefs, links, freed, owners, posts, processing_post>>

\* close(): whoever finds depth = 1 goes on to the posts.
CloseOwn(t) ==
  /\ Doing(t, "close")
  /\ Continue(t, <<Now("fetch", t)>>
                 \o (IF depth = 1 THEN <<Now("testPosting", t)>> ELSE <<>>))
  /\ UNCHANGED <<counts, func, cleanups, nodeRefs, links, freed, owners, deferral>>

\* process_post(): nothing, if it runs already; ...
TestPosting(t) ==
  /\ Doing(t, "testPosting")
  /\ Continue(t, IF processing_post THEN <<>> ELSE <<Now("setPosting", t)>>)
  /\ UNCHANGED <<counts, func, cleanups, nodeRefs, links, freed, owners, deferral>>

SetPosting(t) ==
  /\ Doing(t, "setPosting")
  /\ processing_post' = TRUE
  /\ Continue(t, <<Now("posts", t)>>)
  /\ UNCHANGED <<counts, func, cleanups, nodeRefs, links, freed, owners, depth, read, posts>>

\* ... the oldest post, as long as there is one; ...
RunPost(t) ==
  /\ Doing(t, "posts")
  /\ posts # <<>>
  /\ posts' = Tail(posts)
  /\ Continue(t, <<Task("unlink", Head(posts)[1], Head(posts)[2]), Head(agenda[t])>>)
  /\ UNCHANGED <<counts, func, cleanups, nodeRefs, links, freed, owners, depth, read,
                 processing_post>>

NoMorePosts(t) ==
  /\ Doing(t, "posts")
  /\ posts = <<>>
  /\ Continue(t, <<Now("resetPosting", t)>>)
  /\ UNCHANGED <<counts, func, cleanups, nodeRefs, links, freed, owners, deferral>>

\* Mutant of ResetPosting: the flag stays up.
KeepPosting(t) ==
  /\ Doing(t, "resetPosting")
  /\ Continue(t, <<>>)
  /\ UNCHANGED <<counts, func, cleanups, nodeRefs, links, freed, owners, deferral>>

ResetPosting(t) ==
  /\ Doing(t, "resetPosting")
  /\ processing_post' = FALSE
  /\ Continue(t, <<>>)
  /\ UNCHANGED <<counts, func, cleanups, nodeRefs, links, freed, owners, depth, read, posts>>

-----------------------------------------------------------------------------

Program(t) ==
  \/ NewSink(t) \/ Derive(t) \/ Listen(t) \/ Unlisten(t) \/ CopyHandle(t)
  \/ DropHandle(t) \/ DropSink(t) \/ OpenTransaction(t) \/ CloseTransaction(t)

Call(t) ==
  \/ DoRelease(t) \/ Clear(t) \/ Relock(t) \/ DoListen(t) \/ Link(t) \/ DropNodeRef(t)
  \/ Unsource(t) \/ Unlink(t)

InTransaction(t) ==
  \/ Kill(t) \/ PutOff(t) \/ Raise(t) \/ Fetch(t) \/ Lower(t) \/ CloseOwn(t)
  \/ TestPosting(t) \/ SetPosting(t) \/ RunPost(t) \/ NoMorePosts(t) \/ ResetPosting(t)

\* No call is under way and no transaction is open: the program may end.
Quiet == (\A t \in Threads : agenda[t] = <<>>) /\ open = {}
Ending == Quiet /\ UNCHANGED vars

Next == (\E t \in Threads : Program(t) \/ Call(t) \/ InTransaction(t)) \/ Ending

Spec == Init /\ [][Next]_vars
-----------------------------------------------------------------------------
(* Properties.                                                             *)

Tasks == UNION {Range(agenda[t]) : t \in Threads}

\* How many tasks of A are on the agendas.
Due(A) == Occurs(A, agenda)

\* What refers to a stream: a strong reference, a stream reference, a node; and
\* what refers to a node.
StrongRefs(o) == Due({Release(o, "strong"), Task("relock", o, o)})
StreamRefs(o) == Cardinality({t \in Threads : o \in held[t]}) + Occurs({o}, sources)
                  + Due({Release(o, "stream")})
NodeRefs(o) == (IF nodeRefs[o] > 0 THEN 1 ELSE 0) + Due({Release(o, "node")})
Users(o) == (IF o \in sinks THEN 1 ELSE 0) + Occurs({o}, targets) + Due({DropNode(o)})

\* The counts are at every step the numbers of references there are, in whatever
\* form they are kept, and so is the use count of a node: handles, sources of
\* nodes and calls refer to a stream; its sink, links and calls to its node,
\* which refers to the stream (count_set.h, sodium_base.h:91-127).
CountsAreReferences ==
  /\ TypeOK
  /\ \A o \in Streams :
       /\ counts[o].count["strong"] = StrongRefs(o)
       /\ counts[o].count["stream"] = StreamRefs(o)
       /\ counts[o].count["node"] = NodeRefs(o)
  /\ \A o \in Objects : nodeRefs[o] = Users(o)

\* Nothing refers to a listen_impl_func that was deleted: no handle, no source
\* of a node, no call that is still inside it (sodium_base.h:107-127).
NoUseAfterFree ==
  /\ \A t \in Threads : held[t] \cap freed = {}
  /\ \A o \in Objects : Range(sources[o]) \cap freed = {}
  /\ \A a \in Tasks :
       a.op \in {"release", "relock", "clear", "listen", "link", "unsource"} => a.o \notin freed

\* A stream is cleaned up by one thread, once, however many references go at
\* the same time, and before it is deleted (sodium_base.h:108-120 and the
\* assertion of ~listen_impl_func, sodium_base.h:102).
CleanedOnce ==
  /\ \A o \in Streams : Cleaning(o) => func[o] /\ Cardinality(Cleaners(o)) = 1
  /\ \A o \in freed : ~func[o] /\ cleanups[o] = <<>>

\* As long as a stream can fire and somebody holds it, or something that listens
\* to it, it is not cleaned up; and until it is, it stays linked to its sources
\* (count_set::active, count_set.h:88-95).
WiredWhileNeeded ==
  \A o \in Streams :
    /\ nodeRefs[o] > 0
         /\ ((\E t \in Threads : o \in held[t]) \/ \E x \in Objects : o \in Range(sources[x]))
         => func[o] /\ ~Cleaning(o)
    /\ \A s \in Range(cleanups[o]) : nodeRefs[s] > 0 => o \in Range(targets[s])

\* When calls are over, a stream that nobody holds and nothing listens to is
\* cleaned up, and is linked to nothing, unless the post that unlinks it stayed
\* behind; with no post left, the last handle and sink gone, all is deleted
\* (tests/memory/switch-memory.cpp:10).  Any number of threads, whoever runs posts.
NothingLeftBehind ==
  Quiet =>
    /\ \A o \in Streams :
         (maker[o] # NoThread /\ (\A t \in Threads : o \notin held[t]) /\ targets[o] = <<>>)
            => /\ ~func[o] /\ cleanups[o] = <<>>
               /\ \A s \in Streams : o \in Range(targets[s]) => <<s, o>> \in Range(posts)
    /\ (posts = <<>> /\ sinks = {} /\ \A t \in Threads : held[t] = {}) =>
         /\ \A o \in Streams : maker[o] # NoThread => o \in freed
         /\ \A o \in Objects : nodeRefs[o] = 0

\* While only one thread is in the library, no post stays behind: when its calls
\* are over, every unlink() that was put off has run, also those put off by
\* kill functions that run inside process_post() (transaction.cpp:140-165).
\* With two threads this is not so.
NoPostStays == Quiet => posts = <<>>
=============================================================================
