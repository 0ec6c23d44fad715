------------------------ MODULE StreamLifeSequential ------------------------
(***************************************************************************)
(* Theorems about StreamLife while one thread is in the library: what      *)
(* decides that posts run is then exact.                                   *)
(***************************************************************************)
EXTENDS StreamLifeProofs

\* The operations that are only ever the first task, and what is still to come
\* that lowers depth.
FirstOps == {"raise", "fetch", "lower", "setPosting", "resetPosting"}
Waits == {a \in AllTasks : a.op \in {"last", "close"}}

First(t) == IF agenda[t] = <<>> THEN "none" ELSE Head(agenda[t]).op
Levels(t) == Bit(t \in open) + Due(Waits)
Runners(t) == Due({Now("posts", t)})
Testers(t) == Due({Now("testPosting", t)})

Single(t) ==
  /\ agenda[t] # <<>> => \A a \in Range(Tail(agenda[t])) : a.op \notin FirstOps
  /\ depth = Levels(t) + Bit(First(t) \in {"fetch", "lower"}) - Bit(First(t) = "raise")
  /\ First(t) \in {"raise", "lower"} => read[t] = depth
  /\ Runners(t) = Bit(processing_post /\ First(t) # "resetPosting")
  /\ First(t) = "setPosting" => ~processing_post
  /\ First(t) = "resetPosting" => posts = <<>>
  /\ posts # <<>> =>
       First(t) = "setPosting" \/ Runners(t) # 0 \/ Testers(t) # 0 \/ Levels(t) # 0

\* What the agenda begins with after a step.
LEMMA FirstNone ==
  ASSUME NEW t, agenda'[t] \in Seq(AllTasks), \A a \in Range(agenda'[t]) : a.op \notin FirstOps
  PROVE  /\ agenda'[t] # <<>> => \A a \in Range(Tail(agenda'[t])) : a.op \notin FirstOps
         /\ First(t)' \notin FirstOps
<1> DEFINE s == agenda'[t]
<1> HIDE DEF s
<1>1. ASSUME s # <<>>, s \in Seq(AllTasks)
      PROVE  Head(s) \in Range(s) /\ Range(Tail(s)) \subseteq Range(s)
  BY <1>1, RangeOfQueue
<1>2. "none" \notin FirstOps
  BY DEF FirstOps
<1> QED
  BY <1>1, <1>2 DEF s, First

LEMMA FirstIs ==
  ASSUME NEW t, NEW a \in AllTasks, NEW q \in Seq(AllTasks), agenda'[t] = <<a>> \o q,
         \A b \in Range(q) : b.op \notin FirstOps
  PROVE  /\ agenda'[t] # <<>> => \A b \in Range(Tail(agenda'[t])) : b.op \notin FirstOps
         /\ First(t)' = a.op
<1>1. <<a>> \o q # <<>> /\ Head(<<a>> \o q) = a /\ Tail(<<a>> \o q) = q
  OBVIOUS
<1> QED
  BY <1>1 DEF First

\* A program begins when no call is under way, and a call goes on with its
\* first task.
LEMMA FirstOfProgram ==
  ASSUME NEW t, Program(t)
  PROVE  agenda[t] = <<>>
BY DEF Program, NewSink, Derive, Listen, Unlisten, CopyHandle, DropHandle, DropSink,
       OpenTransaction, CloseTransaction, Begin

PlainOps == {"release", "relock", "clear", "kill", "listen", "link", "unsource", "unlink", "dropNode"}
CallOps == PlainOps \ {"kill"}

LEMMA FirstOfCall ==
  ASSUME NEW t, Call(t)
  PROVE  agenda[t] # <<>> /\ Head(agenda[t]).op \in CallOps
BY DEF Call, DoRelease, Clear, Relock, DoListen, Link, DropNodeRef, Unsource, Unlink, Doing,
       CallOps, PlainOps

\* A step that has nothing to do with transactions.
Plain(t) == Moves(t, PlainOps, PlainOps) /\ UNCHANGED <<open, deferral>>

LEMMA DoneFirst ==
  ASSUME TypeOK, NEW t \in Threads, NEW a, NEW tasks, Does(t, <<a>>, tasks)
  PROVE  agenda[t] # <<>> /\ Head(agenda[t]) = a
<1>1. PICK rest \in Seq(AllTasks) : agenda[t] = <<a>> \o rest
  BY DEF Does
<1>2. <<a>> \o rest # <<>> /\ Head(<<a>> \o rest) = a
  OBVIOUS
<1> QED
  BY <1>1, <1>2

LEMMA PlainCalls ==
  ASSUME TypeOK, NEW t \in Threads, NEW o \in Objects
  PROVE  /\ SinkMade(t, o) \/ HandleDropped(t, o) \/ SinkDropped(t, o) => Plain(t)
         /\ Cleared(t, o) \/ Relocked(t, o) \/ NodeKept(t, o) \/ NodeGone(t, o) => Plain(t)
         /\ \A k \in Kinds : CleanupStarts(t, o, k) \/ Released(t, o, k) => Plain(t)
         /\ \A u \in Threads : HandleCopied(t, u, o) => Plain(t)
         /\ \A s \in Streams :
              /\ Unlistened(t, s, o) \/ ListenerAdded(t, s, o) \/ NodesLinked(t, s, o) => Plain(t)
              /\ Unsourced(t, s, o) \/ NodesUnlinked(t, s, o) => Plain(t)
              /\ Skipped(t, "link", s, o) \/ Skipped(t, "unlink", s, o) => Plain(t)
<1>0. PICK r : r \in Streams
  BY SomeStream
<1>1. "node" \in Kinds
  BY SomeKinds
<1>2. \A D, T : Moves(t, D, T) /\ D \subseteq PlainOps /\ T \subseteq PlainOps => Moves(t, PlainOps, PlainOps)
  BY MovesMore
<1> DEFINE Kept == UNCHANGED <<open, deferral>>
<1>3. ASSUME SinkMade(t, o) \/ HandleDropped(t, o) \/ SinkDropped(t, o) PROVE Plain(t)
  <2>1. Moves(t, {}, {}) \/ Moves(t, {}, {"release"}) \/ Moves(t, {}, {"dropNode"})
    BY <1>0, <1>3, ProgramMoves
  <2>2. Kept
    BY <1>3 DEF SinkMade, HandleDropped, SinkDropped
  <2> QED
    BY <1>2, <2>1, <2>2 DEF Plain, PlainOps
<1>4. ASSUME Cleared(t, o) \/ Relocked(t, o) \/ NodeKept(t, o) \/ NodeGone(t, o) PROVE Plain(t)
  <2>1. \/ Moves(t, {"clear"}, {}) \/ Moves(t, {"relock"}, {}) \/ Moves(t, {"dropNode"}, {})
        \/ Moves(t, {"dropNode"}, {"unsource", "release", "dropNode"})
    BY <1>4, AloneMoves
  <2>2. Kept
    BY <1>4 DEF Cleared, Relocked, NodeKept, NodeGone, owners
  <2> QED
    BY <1>2, <2>1, <2>2 DEF Plain, PlainOps
<1>5. ASSUME NEW k \in Kinds, CleanupStarts(t, o, k) \/ Released(t, o, k) PROVE Plain(t)
  <2>1. Moves(t, {"release"}, {"kill", "clear", "relock"}) \/ Moves(t, {"release"}, {})
    BY <1>5, AloneMoves
  <2>2. Kept
    BY <1>5 DEF CleanupStarts, Released, owners
  <2> QED
    BY <1>2, <2>1, <2>2 DEF Plain, PlainOps
<1>6. ASSUME NEW u \in Threads, HandleCopied(t, u, o) PROVE Plain(t)
  <2>1. Moves(t, {}, {}) /\ Kept
    BY <1>6, AloneMoves DEF HandleCopied
  <2> QED
    BY <1>2, <2>1 DEF Plain, PlainOps
<1>7. ASSUME NEW s \in Streams,
             \/ Unlistened(t, s, o) \/ ListenerAdded(t, s, o) \/ NodesLinked(t, s, o)
             \/ Unsourced(t, s, o) \/ NodesUnlinked(t, s, o)
      PROVE  Plain(t)
  <2>1. \/ Moves(t, {}, {"kill"}) \/ Moves(t, {"listen"}, {"link", "release"})
        \/ Moves(t, {"link"}, {"dropNode"}) \/ Moves(t, {"unsource"}, {"release"})
        \/ Moves(t, {"unlink"}, {"release", "dropNode"})
    BY <1>7, AloneMoves
  <2>2. Kept
    BY <1>7 DEF Unlistened, ListenerAdded, NodesLinked, Unsourced, NodesUnlinked, owners
  <2> QED
    BY <1>2, <2>1, <2>2 DEF Plain, PlainOps
<1>8. ASSUME NEW s \in Streams, Skipped(t, "link", s, o) \/ Skipped(t, "unlink", s, o) PROVE Plain(t)
  <2>1. Moves(t, {"link"}, {}) \/ Moves(t, {"unlink"}, {})
    BY <1>1, <1>8, CallMoves
  <2>2. Kept
    BY <1>8 DEF Skipped, owners
  <2> QED
    BY <1>2, <2>1, <2>2 DEF Plain, PlainOps
<1> QED
  BY <1>3, <1>4, <1>5, <1>6, <1>7, <1>8

LEMMA PlainSteps ==
  ASSUME TypeOK, NEW t \in Threads, Program(t) \/ Call(t)
  PROVE  \/ Plain(t) \/ Opened(t) \/ Closing(t)
         \/ \E o \in Objects : StreamMade(t, o) \/ ListenerMade(t, o)
<1>1. Step(t)
  BY ProgramSteps, CallSteps
<1>2. agenda[t] # <<>> => Head(agenda[t]).op \in CallOps
  BY FirstOfProgram, FirstOfCall
<1>3. ASSUME NEW op, NEW x, NEW y, NEW tasks, Does(t, <<Task(op, x, y)>>, tasks) PROVE op \in CallOps
  BY <1>2, <1>3, DoneFirst, OpOf
<1>4. ASSUME NEW s \in Streams, NEW o \in Objects, Killed(t, s, o) \/ Deferred(t, s, o) PROVE FALSE
  <2>1. "kill" \in CallOps \/ "last" \in CallOps
    BY <1>3, <1>4 DEF Killed, Deferred
  <2> QED
    BY <2>1 DEF CallOps, PlainOps
<1>5. ASSUME NEW op \in TransactionOps, NEW u, NEW tasks, Paced(t, op, u, tasks) PROVE FALSE
  <2>1. op \in CallOps
    BY <1>3, <1>5 DEF Paced, Now
  <2> QED
    BY <2>1 DEF CallOps, PlainOps, TransactionOps
<1>6. ASSUME NEW u, NEW s, NEW o, PostRun(t, u, s, o) PROVE FALSE
  <2>1. "posts" \in CallOps
    BY <1>3, <1>6 DEF PostRun, Now
  <2> QED
    BY <2>1 DEF CallOps, PlainOps
<1>7. Apart(t) => Plain(t) \/ Opened(t) \/ Closing(t)
  BY <1>4, <1>5, <1>6, PlainCalls DEF Apart
<1> QED
  BY <1>1, <1>7, PlainCalls DEF Step

\* What a step of a transaction does to the counts.
LEMMA TaskOps ==
  ASSUME NEW t, Threads = {t}, NEW a \in AllTasks
  PROVE  /\ a \in Waits <=> a.op \in {"last", "close"}
         /\ a \in {Now("posts", t)} <=> a.op = "posts"
         /\ a \in {Now("testPosting", t)} <=> a.op = "testPosting"
<1>1. a \in Waits <=> a.op \in {"last", "close"}
  BY DEF Waits
<1>2. a.op \in {"posts", "testPosting"} => \E op \in TransactionOps : a = Now(op, t)
  BY DEF AllTasks, Task, Release, DropNode, Now, TransactionOps
<1>3. a.op \in {"posts", "testPosting"} => a = Now(a.op, t)
  BY <1>2, OpOf
<1> QED
  BY <1>1, <1>3, OpOf

\* What the tasks of l count for: lowering depth, running posts, testing for it.
Tallies(t, l, w, p, q) ==
  /\ Count(Waits, l) = w
  /\ Count({Now("posts", t)}, l) = p
  /\ Count({Now("testPosting", t)}, l) = q

LEMMA TalliesNone == \A t : Tallies(t, <<>>, 0, 0, 0)
BY CountEmpty DEF Tallies

LEMMA TalliesOne ==
  ASSUME NEW t, Threads = {t}, NEW a \in AllTasks
  PROVE  Tallies(t, <<a>>, Bit(a.op \in {"last", "close"}), Bit(a.op = "posts"), Bit(a.op = "testPosting"))
<1> DEFINE l == <<a>>
<1>1. \A X : Count(X, l) = Bit(a \in X)
  BY CountOne
<1> HIDE DEF l
<1>2. /\ Bit(a \in Waits) = Bit(a.op \in {"last", "close"})
      /\ Bit(a \in {Now("posts", t)}) = Bit(a.op = "posts")
      /\ Bit(a \in {Now("testPosting", t)}) = Bit(a.op = "testPosting")
  BY TaskOps DEF Bit
<1>3. /\ Count(Waits, l) = Bit(a \in Waits)
      /\ Count({Now("posts", t)}, l) = Bit(a \in {Now("posts", t)})
      /\ Count({Now("testPosting", t)}, l) = Bit(a \in {Now("testPosting", t)})
  BY <1>1
<1> QED
  BY <1>2, <1>3 DEF Tallies, l

LEMMA TalliesBoth ==
  ASSUME NEW t, NEW k \in Seq(AllTasks), NEW l \in Seq(AllTasks),
         NEW w \in Nat, NEW p \in Nat, NEW q \in Nat, Tallies(t, k, w, p, q),
         NEW x \in Nat, NEW y \in Nat, NEW z \in Nat, Tallies(t, l, x, y, z)
  PROVE  Tallies(t, k \o l, w + x, p + y, q + z)
<1>1. \A X : Count(X, k \o l) = Count(X, k) + Count(X, l)
  BY CountConcat
<1> QED
  BY <1>1 DEF Tallies

Level == Due(Waits)

\* The task that is done, and those that come instead, weigh this.
LEMMA CountsMove ==
  ASSUME TypeOK, NEW t \in Threads, NEW done \in Seq(AllTasks), NEW tasks \in Seq(AllTasks),
         Does(t, done, tasks), NEW w, NEW p, NEW q, Tallies(t, done, w, p, q),
         NEW x, NEW y, NEW z, Tallies(t, tasks, x, y, z)
  PROVE  /\ Level \in Nat /\ Runners(t) \in Nat /\ Testers(t) \in Nat
         /\ Level' \in Nat /\ Runners(t)' \in Nat /\ Testers(t)' \in Nat
         /\ Level' + w = Level + x
         /\ Runners(t)' + p = Runners(t) + y
         /\ Testers(t)' + q = Testers(t) + z
<1> DEFINE P == {Now("posts", t)}  Q == {Now("testPosting", t)}
<1>1. Runners(t) = Due(P) /\ Runners(t)' = Due(P)' /\ Testers(t) = Due(Q) /\ Testers(t)' = Due(Q)'
  BY DEF Runners, Testers
<1>2. /\ Count(Waits, done) = w /\ Count(P, done) = p /\ Count(Q, done) = q
      /\ Count(Waits, tasks) = x /\ Count(P, tasks) = y /\ Count(Q, tasks) = z
  BY DEF Tallies
<1> HIDE DEF P, Q
<1>3. \A X : Due(X) \in Nat /\ Due(X)' \in Nat /\ Due(X)' + Count(X, done) = Due(X) + Count(X, tasks)
  BY AgendaAfter
<1>4. Waits' = Waits /\ Level' = Due(Waits)'
  BY DEF Waits, Level
<1>5. Due(Waits)' + Count(Waits, done) = Due(Waits) + Count(Waits, tasks) /\ Due(Waits) \in Nat /\ Due(Waits)' \in Nat
  BY <1>3
<1> QED
  BY <1>1, <1>2, <1>3, <1>4, <1>5 DEF Level

\* Levels, with what each part is.
LEMMA LevelParts ==
  ASSUME TypeOK, NEW t \in Threads
  PROVE  /\ Level \in Nat /\ Runners(t) \in Nat /\ Testers(t) \in Nat
         /\ Levels(t) = Bit(t \in open) + Level /\ Levels(t)' = Bit(t \in open') + Level'
         /\ Levels(t) \in Nat
<1>1. \A X : Due(X) \in Nat
  BY DueType
<1>2. Bit(t \in open) \in {0, 1}
  BY DEF Bit
<1> QED
  BY <1>1, <1>2 DEF Level, Runners, Testers, Levels

\* A step that has nothing to do with transactions leaves the numbers.
LEMMA SinglePlain ==
  ASSUME TypeOK, NEW t \in Threads, Threads = {t}, Single(t), Plain(t),
         agenda[t] = <<>> \/ (agenda[t] # <<>> /\ Head(agenda[t]).op \in CallOps)
  PROVE  Single(t)'
<1>1. Moves(t, PlainOps, PlainOps)
  BY DEF Plain
<1>2. \A a \in Range(agenda[t]) : a.op \notin FirstOps
  <2>1. CASE agenda[t] = <<>>
    BY <2>1 DEF Range
  <2>2. CASE agenda[t] # <<>> /\ Head(agenda[t]).op \in CallOps
    <3>1. agenda[t] \in Seq(AllTasks)
      BY DEF TypeOK
    <3>2. Range(agenda[t]) = {Head(agenda[t])} \cup Range(Tail(agenda[t]))
      BY <2>2, <3>1, RangeOfQueue
    <3>3. \A a \in Range(Tail(agenda[t])) : a.op \notin FirstOps
      BY <2>2 DEF Single
    <3>4. Head(agenda[t]).op \notin FirstOps
      BY <2>2 DEF CallOps, PlainOps, FirstOps
    <3> QED
      BY <3>2, <3>3, <3>4
  <2> QED
    BY <2>1, <2>2
<1>3. First(t) \notin FirstOps
  <2>1. CASE agenda[t] = <<>>
    BY <2>1 DEF First, FirstOps
  <2>2. CASE agenda[t] # <<>> /\ Head(agenda[t]).op \in CallOps
    BY <2>2 DEF First, FirstOps, CallOps, PlainOps
  <2> QED
    BY <2>1, <2>2
<1>4. agenda'[t] \in Seq(AllTasks)
  <2>1. PICK done \in Seq(AllTasks), tasks \in Seq(AllTasks) : Does(t, done, tasks)
    BY <1>1 DEF Moves
  <2> QED
    BY <2>1, AgendaAfter
<1>5. \A a \in Range(agenda'[t]) : a.op \notin FirstOps
  <2>1. \A a \in Range(agenda'[t]) : a.op \notin PlainOps => a \in Range(agenda[t])
    BY <1>1, MovesAfter
  <2> QED
    BY <1>2, <2>1 DEF PlainOps, FirstOps
<1>6. /\ agenda'[t] # <<>> => \A a \in Range(Tail(agenda'[t])) : a.op \notin FirstOps
      /\ First(t)' \notin FirstOps
  BY <1>4, <1>5, FirstNone
<1>7. ASSUME NEW X, \A a \in X : a.op \notin PlainOps
      PROVE  Due(X)' = Due(X)
  <2>1. Due(X) \in Nat /\ Due(X)' \in Nat /\ Due(X) <= Due(X)' /\ Due(X)' <= Due(X)
    BY <1>1, <1>7, MovesAfter
  <2> QED
    BY <2>1
<1>8. /\ \A a \in Waits : a.op \notin PlainOps
      /\ \A a \in {Now("posts", t)} : a.op \notin PlainOps
      /\ \A a \in {Now("testPosting", t)} : a.op \notin PlainOps
  BY OpOf DEF Waits, PlainOps
<1>9. Due(Waits)' = Due(Waits) /\ Runners(t)' = Runners(t) /\ Testers(t)' = Testers(t)
  BY <1>7, <1>8 DEF Runners, Testers, Waits
<1>10. open' = open /\ depth' = depth /\ read' = read /\ posts' = posts
       /\ processing_post' = processing_post
  BY DEF Plain, deferral
<1>11. Levels(t)' = Levels(t)
  BY <1>9, <1>10 DEF Levels
<1>12. \A x \in FirstOps : First(t) # x /\ First(t)' # x
  BY <1>3, <1>6
<1>13. depth = Levels(t) + Bit(First(t) \in {"fetch", "lower"}) - Bit(First(t) = "raise")
  BY DEF Single
<1>14. depth' = Levels(t)' + Bit(First(t)' \in {"fetch", "lower"}) - Bit(First(t)' = "raise")
  <2>1. /\ First(t) \notin {"fetch", "lower"} /\ First(t) # "raise"
        /\ First(t)' \notin {"fetch", "lower"} /\ First(t)' # "raise"
    BY <1>12 DEF FirstOps
  <2>2. /\ Bit(First(t) \in {"fetch", "lower"}) = 0 /\ Bit(First(t) = "raise") = 0
        /\ Bit(First(t)' \in {"fetch", "lower"}) = 0 /\ Bit(First(t)' = "raise") = 0
    BY <2>1 DEF Bit
  <2> QED
    BY <1>10, <1>11, <1>13, <2>2
<1>15. Runners(t)' = Bit(processing_post' /\ First(t)' # "resetPosting")
  <2>1. Runners(t) = Bit(processing_post /\ First(t) # "resetPosting")
    BY DEF Single
  <2>2. First(t) # "resetPosting" /\ First(t)' # "resetPosting"
    BY <1>12 DEF FirstOps
  <2> QED
    BY <1>9, <1>10, <2>1, <2>2 DEF Bit
<1>16. posts' # <<>> => First(t)' = "setPosting" \/ Runners(t)' # 0 \/ Testers(t)' # 0 \/ Levels(t)' # 0
  <2>1. posts # <<>> =>
          First(t) = "setPosting" \/ Runners(t) # 0 \/ Testers(t) # 0 \/ Levels(t) # 0
    BY DEF Single
  <2>2. First(t) # "setPosting"
    BY <1>12 DEF FirstOps
  <2> QED
    BY <1>9, <1>10, <1>11, <2>1, <2>2
<1>17. /\ ~(First(t)' \in {"raise", "lower"}) /\ First(t)' # "setPosting" /\ First(t)' # "resetPosting"
  BY <1>12 DEF FirstOps
<1> QED
  BY <1>6, <1>14, <1>15, <1>16, <1>17 DEF Single

\* A call that begins.
LEMMA BeginsWith ==
  ASSUME TypeOK, NEW t \in Threads, agenda[t] = <<>>, NEW tasks \in Seq(AllTasks), Does(t, <<>>, tasks)
  PROVE  agenda'[t] = tasks /\ First(t) = "none"
<1>1. PICK rest \in Seq(AllTasks) : /\ agenda[t] = <<>> \o rest
                                    /\ agenda' = [agenda EXCEPT ![t] = tasks \o rest]
  BY DEF Does
<1>2. rest = <<>>
  <2>1. <<>> \o rest = rest
    BY ConcatEmptySeq
  <2> QED
    BY <1>1, <2>1
<1>3. tasks \o rest = tasks
  BY <1>2, ConcatEmptySeq
<1> QED
  BY <1>1, <1>3 DEF TypeOK, First

\* A task of op makes room for tasks that weigh x, y and z.
Changes(t, op, x, y, z) ==
  /\ Level \in Nat /\ Runners(t) \in Nat /\ Testers(t) \in Nat
  /\ Level' \in Nat /\ Runners(t)' \in Nat /\ Testers(t)' \in Nat
  /\ Level' + Bit(op \in {"last", "close"}) = Level + x
  /\ Runners(t)' + Bit(op = "posts") = Runners(t) + y
  /\ Testers(t)' + Bit(op = "testPosting") = Testers(t) + z

\* A task of a transaction, and the tasks that it brings.
LEMMA TurnsTo ==
  ASSUME TypeOK, NEW t \in Threads, Threads = {t}, Single(t), NEW op, Doing(t, op),
         NEW l \in Seq(AllTasks), Continue(t, l),
         NEW x \in Nat, NEW y \in Nat, NEW z \in Nat, Tallies(t, l, x, y, z)
  PROVE  /\ First(t) = op
         /\ Tail(agenda[t]) \in Seq(AllTasks)
         /\ \A a \in Range(Tail(agenda[t])) : a.op \notin FirstOps
         /\ agenda'[t] = l \o Tail(agenda[t])
         /\ Changes(t, op, x, y, z)
<1>1. agenda[t] # <<>> /\ agenda[t] \in Seq(AllTasks) /\ Head(agenda[t]).op = op
  BY FirstTask DEF Doing
<1> DEFINE a == Head(agenda[t])  one == <<a>>
<1>2. a \in AllTasks /\ one \in Seq(AllTasks) /\ Tail(agenda[t]) \in Seq(AllTasks)
  BY <1>1
<1>3. Does(t, one, l)
  BY <1>1, ContinueDoes
<1>4. Tallies(t, one, Bit(op \in {"last", "close"}), Bit(op = "posts"), Bit(op = "testPosting"))
  BY <1>1, <1>2, TalliesOne
<1>5. agenda'[t] = l \o Tail(agenda[t])
  BY DEF Continue, TypeOK
<1>6. First(t) = op /\ \A b \in Range(Tail(agenda[t])) : b.op \notin FirstOps
  BY <1>1 DEF First, Single
<1> HIDE DEF one
<1> QED
  BY <1>2, <1>3, <1>4, <1>5, <1>6, CountsMove DEF Changes

\* Tasks that are done in turn, none of which is ever first, ...
LEMMA TurnsToNone ==
  ASSUME NEW t, NEW l \in Seq(AllTasks), NEW q \in Seq(AllTasks), agenda'[t] = l \o q,
         \A a \in Range(l) : a.op \notin FirstOps, \A a \in Range(q) : a.op \notin FirstOps
  PROVE  /\ agenda'[t] # <<>> => \A a \in Range(Tail(agenda'[t])) : a.op \notin FirstOps
         /\ First(t)' \notin FirstOps
<1>1. l \o q \in Seq(AllTasks) /\ Range(l \o q) = Range(l) \cup Range(q)
  BY RangeOfConcat
<1> QED
  BY <1>1, FirstNone

\* ... or one and others.
Starts(l, a) == \E k \in Seq(AllTasks) : l = <<a>> \o k /\ \A b \in Range(k) : b.op \notin FirstOps

LEMMA TurnsToFirst ==
  ASSUME NEW t, NEW a \in AllTasks, NEW l, NEW q \in Seq(AllTasks), Starts(l, a),
         agenda'[t] = l \o q, \A b \in Range(q) : b.op \notin FirstOps
  PROVE  /\ agenda'[t] # <<>> => \A b \in Range(Tail(agenda'[t])) : b.op \notin FirstOps
         /\ First(t)' = a.op
<1> DEFINE one == <<a>>
<1>0. PICK k \in Seq(AllTasks) : l = one \o k /\ \A b \in Range(k) : b.op \notin FirstOps
  BY DEF Starts
<1>1. one \in Seq(AllTasks) /\ k \o q \in Seq(AllTasks)
  OBVIOUS
<1>2. Range(k \o q) = Range(k) \cup Range(q)
  BY RangeOfConcat
<1> HIDE DEF one
<1>3. (one \o k) \o q = one \o (k \o q)
  BY <1>1
<1>4. \A b \in Range(k \o q) : b.op \notin FirstOps
  BY <1>0, <1>2
<1>5. agenda'[t] = one \o (k \o q)
  BY <1>0, <1>3
<1> QED
  BY <1>1, <1>4, <1>5, FirstIs DEF one

\* The tasks of transactions.
LEMMA NowTasks ==
  ASSUME NEW t \in Threads
  PROVE  \A op \in TransactionOps : Now(op, t) \in AllTasks /\ Now(op, t).op = op
BY OpOf DEF AllTasks

\* What is only first is not there when nothing is.
LEMMA NothingFirst ==
  ASSUME NEW t, agenda[t] = <<>>
  PROVE  First(t) = "none" /\ First(t) \notin FirstOps
BY DEF First, FirstOps

\* The parts of Single(t) when nothing is under way.
LEMMA SingleQuiet ==
  ASSUME TypeOK, NEW t \in Threads, Single(t), agenda[t] = <<>>
  PROVE  /\ depth = Levels(t)
         /\ Runners(t) = Bit(processing_post)
         /\ posts # <<>> => Runners(t) # 0 \/ Testers(t) # 0 \/ Levels(t) # 0
<1>1. First(t) = "none"
  BY NothingFirst
<1>2. Levels(t) \in Nat
  BY LevelParts
<1>3. /\ Bit(First(t) \in {"fetch", "lower"}) = 0 /\ Bit(First(t) = "raise") = 0
      /\ (processing_post /\ First(t) # "resetPosting") <=> processing_post
  BY <1>1 DEF Bit
<1>4. Runners(t) = Bit(processing_post)
  BY <1>3 DEF Single, Bit
<1> QED
  BY <1>1, <1>2, <1>3, <1>4 DEF Single

LEMMA OneLevelMore ==
  ASSUME NEW m \in Nat, NEW n \in Nat, NEW x \in {0, 1}, NEW y, NEW w \in {0, 1},
         n + 0 = m + w, y = x + 1 - w
  PROVE  y + n = x + m + 1
<1>1. x \in Nat /\ w \in Nat
  OBVIOUS
<1> QED
  BY <1>1

\* A call that begins with depth++, and weighs one level or none.
Raising(t, l, w) ==
  /\ agenda[t] = <<>> /\ (\A a \in Range(l) : a.op \notin FirstOps)
  /\ Does(t, <<>>, <<Now("raise", t)>> \o l) /\ Tallies(t, l, w, 0, 0)
  /\ Bit(t \in open') = Bit(t \in open) + 1 - w
  /\ ReadDepth(t) /\ UNCHANGED <<depth, posts, processing_post>>

LEMMA SingleRaising ==
  ASSUME TypeOK, NEW t \in Threads, Threads = {t}, Single(t),
         NEW l \in Seq(AllTasks), NEW w \in {0, 1}, Raising(t, l, w)
  PROVE  Single(t)'
<1> DEFINE one == <<Now("raise", t)>>  new == one \o l  none == <<>>
<1>0. /\ agenda[t] = <<>> /\ (\A a \in Range(l) : a.op \notin FirstOps)
      /\ Tallies(t, l, w, 0, 0) /\ Bit(t \in open') = Bit(t \in open) + 1 - w
      /\ depth' = depth /\ posts' = posts /\ processing_post' = processing_post
  BY DEF Raising
<1>1. Now("raise", t) \in AllTasks /\ Now("raise", t).op = "raise"
  BY NowTasks DEF TransactionOps
<1>2. one \in Seq(AllTasks) /\ new \in Seq(AllTasks) /\ none \in Seq(AllTasks)
  BY <1>1
<1>3. Tallies(t, one, 0, 0, 0)
  BY <1>1, TalliesOne DEF Bit
<1>4. Does(t, none, new) /\ Tallies(t, none, 0, 0, 0)
  BY TalliesNone DEF Raising
<1>5. agenda'[t] = new
  BY <1>0, <1>2, <1>4, BeginsWith
<1>6. /\ agenda'[t] # <<>> => \A b \in Range(Tail(agenda'[t])) : b.op \notin FirstOps
      /\ First(t)' = "raise"
  BY <1>0, <1>1, <1>5, FirstIs
<1> HIDE DEF one, none
<1>7. Tallies(t, new, w, 0, 0)
  <2>1. Tallies(t, one \o l, 0 + w, 0 + 0, 0 + 0)
    BY <1>0, <1>2, <1>3, TalliesBoth
  <2> QED
    BY <2>1
<1> HIDE DEF new
<1>8. /\ Level \in Nat /\ Runners(t) \in Nat /\ Testers(t) \in Nat
      /\ Level' \in Nat /\ Runners(t)' \in Nat /\ Testers(t)' \in Nat
      /\ Level' + 0 = Level + w /\ Runners(t)' + 0 = Runners(t) + 0 /\ Testers(t)' + 0 = Testers(t) + 0
  BY <1>2, <1>4, <1>7, CountsMove
<1>9. Levels(t) = Bit(t \in open) + Level /\ Levels(t)' = Bit(t \in open') + Level' /\ Levels(t) \in Nat
  BY LevelParts
<1>10. Bit(t \in open) \in {0, 1}
  BY DEF Bit
<1>11. Levels(t)' = Levels(t) + 1
  <2> DEFINE x == Bit(t \in open)  y == Bit(t \in open')  m == Level  n == Level'
  <2>1. x \in {0, 1} /\ y = x + 1 - w
    BY <1>0, <1>10
  <2>2. m \in Nat /\ n \in Nat /\ n + 0 = m + w
    BY <1>8
  <2>3. Levels(t) = x + m /\ Levels(t)' = y + n
    BY <1>9
  <2> HIDE DEF x, y, m, n
  <2>4. y + n = x + m + 1
    BY <2>1, <2>2, OneLevelMore
  <2> QED
    BY <2>3, <2>4
<1>12. /\ depth' = depth /\ depth = Levels(t) /\ processing_post' = processing_post /\ posts' = posts
       /\ Runners(t) = Bit(processing_post)
       /\ posts # <<>> => Runners(t) # 0 \/ Testers(t) # 0 \/ Levels(t) # 0
  BY <1>0, SingleQuiet
<1>13. read'[t] = depth
  BY DEF Raising, ReadDepth, TypeOK
<1>14. depth' = Levels(t)' + Bit(First(t)' \in {"fetch", "lower"}) - Bit(First(t)' = "raise")
  <2>1. Bit(First(t)' \in {"fetch", "lower"}) = 0 /\ Bit(First(t)' = "raise") = 1
    BY <1>6 DEF Bit
  <2> QED
    BY <1>9, <1>11, <1>12, <2>1
<1>15. Runners(t)' = Bit(processing_post' /\ First(t)' # "resetPosting")
  BY <1>6, <1>8, <1>12 DEF Bit
<1>16. Levels(t)' # 0
  BY <1>9, <1>11
<1>17. /\ First(t)' \in {"raise", "lower"} => read'[t] = depth'
       /\ First(t)' # "setPosting" /\ First(t)' # "resetPosting"
  BY <1>6, <1>12, <1>13
<1> QED
  BY <1>6, <1>14, <1>15, <1>16, <1>17 DEF Single

LEMMA SingleOpened ==
  ASSUME TypeOK, NEW t \in Threads, Threads = {t}, Single(t), agenda[t] = <<>>, Opened(t)
  PROVE  Single(t)'
<1> DEFINE l == <<>>
<1>1. l \in Seq(AllTasks) /\ Range(l) = {} /\ Tallies(t, l, 0, 0, 0)
  BY TalliesNone DEF Range
<1>2. <<Now("raise", t)>> \o l = <<Now("raise", t)>>
  OBVIOUS
<1>3. Bit(t \in open') = Bit(t \in open) + 1 - 0
  BY DEF Opened, Bit
<1>4. /\ Does(t, <<>>, <<Now("raise", t)>> \o l) /\ ReadDepth(t)
      /\ UNCHANGED <<depth, posts, processing_post>>
  BY <1>2 DEF Opened
<1> HIDE DEF l
<1>5. Raising(t, l, 0)
  BY <1>1, <1>3, <1>4 DEF Raising
<1> QED
  BY <1>1, <1>5, SingleRaising

LEMMA SingleClosing ==
  ASSUME TypeOK, NEW t \in Threads, Threads = {t}, Single(t), agenda[t] = <<>>, Closing(t)
  PROVE  Single(t)'
<1> DEFINE new == <<Close(t)>>  none == <<>>
<1>1. Close(t) \in AllTasks /\ Close(t).op = "close"
  BY NowTasks DEF TransactionOps, Close
<1>2. new \in Seq(AllTasks) /\ none \in Seq(AllTasks)
  BY <1>1
<1>3. Tallies(t, new, 1, 0, 0) /\ Tallies(t, none, 0, 0, 0)
  BY <1>1, TalliesOne, TalliesNone DEF Bit
<1>4. Does(t, none, new)
  BY DEF Closing
<1>5. agenda'[t] = new
  BY <1>2, <1>4, BeginsWith
<1>6. \A a \in Range(new) : a.op \notin FirstOps
  BY <1>1 DEF Range, FirstOps
<1> HIDE DEF new, none
<1>7. /\ agenda'[t] # <<>> => \A b \in Range(Tail(agenda'[t])) : b.op \notin FirstOps
      /\ First(t)' \notin FirstOps
  BY <1>2, <1>5, <1>6, FirstNone
<1>8. /\ Level \in Nat /\ Runners(t) \in Nat /\ Testers(t) \in Nat
      /\ Level' \in Nat /\ Runners(t)' \in Nat /\ Testers(t)' \in Nat
      /\ Level' + 0 = Level + 1 /\ Runners(t)' + 0 = Runners(t) + 0 /\ Testers(t)' + 0 = Testers(t) + 0
  BY <1>2, <1>3, <1>4, CountsMove
<1>9. Levels(t) = Bit(t \in open) + Level /\ Levels(t)' = Bit(t \in open') + Level' /\ Levels(t) \in Nat
  BY LevelParts
<1>10. Bit(t \in open) = 1 /\ Bit(t \in open') = 0
  BY DEF Closing, Bit
<1>11. Levels(t)' = Levels(t)
  <2> DEFINE m == Level  n == Level'
  <2>1. m \in Nat /\ n \in Nat /\ n + 0 = m + 1
    BY <1>8
  <2>2. Levels(t) = 1 + m /\ Levels(t)' = 0 + n
    BY <1>9, <1>10
  <2> HIDE DEF m, n
  <2> QED
    BY <2>1, <2>2
<1>12. /\ depth' = depth /\ depth = Levels(t) /\ processing_post' = processing_post /\ posts' = posts
       /\ Runners(t) = Bit(processing_post)
       /\ posts # <<>> => Runners(t) # 0 \/ Testers(t) # 0 \/ Levels(t) # 0
  BY SingleQuiet DEF Closing, deferral
<1>13. \A x \in FirstOps : First(t)' # x
  BY <1>7
<1>14. depth' = Levels(t)' + Bit(First(t)' \in {"fetch", "lower"}) - Bit(First(t)' = "raise")
  <2>1. Bit(First(t)' \in {"fetch", "lower"}) = 0 /\ Bit(First(t)' = "raise") = 0
    BY <1>13 DEF Bit, FirstOps
  <2> QED
    BY <1>9, <1>11, <1>12, <2>1
<1>15. Runners(t)' = Bit(processing_post' /\ First(t)' # "resetPosting")
  BY <1>8, <1>12, <1>13 DEF Bit, FirstOps
<1>16. Levels(t)' # 0 \/ posts' = <<>> \/ Runners(t)' # 0 \/ Testers(t)' # 0
  BY <1>8, <1>11, <1>12
<1>17. First(t)' \notin {"raise", "lower"} /\ First(t)' # "setPosting" /\ First(t)' # "resetPosting"
  BY <1>13 DEF FirstOps
<1> QED
  BY <1>7, <1>14, <1>15, <1>16, <1>17 DEF Single

\* A stream or listener that is made: one level, for the transaction of its own.
LEMMA SingleMade ==
  ASSUME TypeOK, NEW t \in Threads, Threads = {t}, Single(t), agenda[t] = <<>>,
         NEW o \in Objects, StreamMade(t, o) \/ ListenerMade(t, o)
  PROVE  Single(t)'
<1> DEFINE r == <<Now("raise", t)>>
           e == Each("listen", Sources[o], o)
           d == <<DropNode(o), Close(t)>>
           l == e \o d
<1>1. /\ Now("raise", t) \in AllTasks /\ Close(t) \in AllTasks /\ DropNode(o) \in AllTasks
      /\ Close(t).op = "close" /\ DropNode(o).op = "dropNode"
  BY NowTasks, OpOf DEF TransactionOps, Close, AllTasks
<1>2. r \in Seq(AllTasks) /\ d \in Seq(AllTasks) /\ Range(d) = {DropNode(o), Close(t)}
      /\ d = <<DropNode(o)>> \o <<Close(t)>> /\ <<DropNode(o)>> \in Seq(AllTasks) /\ <<Close(t)>> \in Seq(AllTasks)
  BY <1>1, ShortLists
<1>3. e \in Seq(AllTasks) /\ \A a \in Range(e) : a.op = "listen"
  BY MakingType, OpOf
<1>4. Making(t, o) = (r \o e) \o d
  BY DEF Making
<1>5. Tallies(t, d, 1, 0, 0)
  <2>1. Tallies(t, <<DropNode(o)>>, 0, 0, 0) /\ Tallies(t, <<Close(t)>>, 1, 0, 0)
    BY <1>1, TalliesOne DEF Bit
  <2> DEFINE p == <<DropNode(o)>>  q == <<Close(t)>>
  <2>2. p \in Seq(AllTasks) /\ q \in Seq(AllTasks) /\ d = p \o q
        /\ Tallies(t, p, 0, 0, 0) /\ Tallies(t, q, 1, 0, 0)
    BY <1>2, <2>1
  <2> HIDE DEF p, q, d
  <2>3. Tallies(t, p \o q, 0 + 1, 0 + 0, 0 + 0)
    BY <2>2, TalliesBoth
  <2> QED
    BY <2>2, <2>3
<1>7. Does(t, <<>>, Making(t, o)) /\ ReadDepth(t) /\ UNCHANGED <<open, depth, posts, processing_post>>
  BY DEF StreamMade, ListenerMade
<1> HIDE DEF r, e, d
<1>8. Tallies(t, e, 0, 0, 0)
  <2>1. \A X : Count(X, e) = 0 <=> Range(e) \cap X = {}
    BY <1>3, CountType
  <2>2. /\ Range(e) \cap Waits = {}
        /\ Range(e) \cap {Now("posts", t)} = {}
        /\ Range(e) \cap {Now("testPosting", t)} = {}
    BY <1>3, OpOf DEF Waits
  <2> QED
    BY <2>1, <2>2 DEF Tallies
<1>9. l \in Seq(AllTasks) /\ Tallies(t, l, 1, 0, 0) /\ \A a \in Range(l) : a.op \notin FirstOps
  <2>1. Tallies(t, e \o d, 0 + 1, 0 + 0, 0 + 0)
    BY <1>2, <1>3, <1>5, <1>8, TalliesBoth
  <2>2. Range(e \o d) = Range(e) \cup Range(d)
    <3>1. e \in Seq(AllTasks) /\ d \in Seq(AllTasks)
      BY <1>2, <1>3
    <3> QED
      BY <3>1, RangeOfConcat
  <2>3. \A a \in Range(e \o d) : a.op \notin FirstOps
    BY <1>1, <1>2, <1>3, <2>2 DEF FirstOps
  <2> QED
    BY <1>2, <1>3, <2>1, <2>3
<1>10. Does(t, <<>>, r \o l)
  <2>1. (r \o e) \o d = r \o (e \o d)
    BY <1>2, <1>3
  <2> QED
    BY <1>4, <1>7, <2>1
<1> HIDE DEF l
<1>11. Raising(t, l, 1)
  <2>1. Bit(t \in open') = Bit(t \in open) + 1 - 1
    BY <1>7 DEF Bit
  <2> QED
    BY <1>7, <1>9, <1>10, <2>1 DEF Raising, r
<1> QED
  BY <1>9, <1>11, SingleRaising

\* Thread t does a task of a transaction, and the counts change by x, y and z.
Turned(t, op, x, y, z) ==
  /\ First(t) = op
  /\ agenda'[t] # <<>> => \A a \in Range(Tail(agenda'[t])) : a.op \notin FirstOps
  /\ Changes(t, op, x, y, z)

\* Nothing comes instead, ...
LEMMA TurnedToNone ==
  ASSUME TypeOK, NEW t \in Threads, Threads = {t}, Single(t), NEW op, Doing(t, op), Continue(t, <<>>)
  PROVE  Turned(t, op, 0, 0, 0) /\ First(t)' \notin FirstOps
<1> DEFINE l == <<>>
<1>1. l \in Seq(AllTasks) /\ Tallies(t, l, 0, 0, 0) /\ Continue(t, l) /\ \A a \in Range(l) : a.op \notin FirstOps
  BY TalliesNone DEF Range
<1> HIDE DEF l
<1>2. 0 \in Nat
  OBVIOUS
<1>3. /\ First(t) = op
      /\ Tail(agenda[t]) \in Seq(AllTasks)
      /\ \A a \in Range(Tail(agenda[t])) : a.op \notin FirstOps
      /\ agenda'[t] = l \o Tail(agenda[t])
      /\ Changes(t, op, 0, 0, 0)
  BY <1>1, <1>2, TurnsTo
<1>4. /\ agenda'[t] # <<>> => \A a \in Range(Tail(agenda'[t])) : a.op \notin FirstOps
      /\ First(t)' \notin FirstOps
  BY <1>1, <1>3, TurnsToNone
<1> QED
  BY <1>3, <1>4 DEF Turned

\* ... or a task, and others that are never first.
LEMMA TurnedToFirst ==
  ASSUME TypeOK, NEW t \in Threads, Threads = {t}, Single(t), NEW op, Doing(t, op),
         NEW a \in AllTasks, NEW l \in Seq(AllTasks), Continue(t, l), Starts(l, a),
         NEW x \in Nat, NEW y \in Nat, NEW z \in Nat, Tallies(t, l, x, y, z)
  PROVE  Turned(t, op, x, y, z) /\ First(t)' = a.op
<1>2. /\ First(t) = op
      /\ Tail(agenda[t]) \in Seq(AllTasks)
      /\ \A b \in Range(Tail(agenda[t])) : b.op \notin FirstOps
      /\ agenda'[t] = l \o Tail(agenda[t])
      /\ Changes(t, op, x, y, z)
  BY TurnsTo
<1>3. /\ agenda'[t] # <<>> => \A b \in Range(Tail(agenda'[t])) : b.op \notin FirstOps
      /\ First(t)' = a.op
  <2> DEFINE q == Tail(agenda[t])
  <2>1. q \in Seq(AllTasks) /\ agenda'[t] = l \o q /\ \A b \in Range(q) : b.op \notin FirstOps
    BY <1>2
  <2> HIDE DEF q
  <2> QED
    BY <2>1, TurnsToFirst
<1> QED
  BY <1>2, <1>3 DEF Turned

LEMMA TurnedToOne ==
  ASSUME TypeOK, NEW t \in Threads, Threads = {t}, Single(t), NEW op, Doing(t, op),
         NEW a \in AllTasks, Continue(t, <<a>>)
  PROVE  /\ Turned(t, op, Bit(a.op \in {"last", "close"}), Bit(a.op = "posts"), Bit(a.op = "testPosting"))
         /\ First(t)' = a.op
<1> DEFINE k == <<>>
<1> DEFINE l == <<a>>
<1>1. l \in Seq(AllTasks) /\ Starts(l, a) /\ Continue(t, l)
  <2>1. k \in Seq(AllTasks) /\ (\A b \in Range(k) : b.op \notin FirstOps) /\ <<a>> \o k = <<a>>
    BY DEF Range
  <2> HIDE DEF k
  <2> QED
    BY <2>1 DEF Starts
<1>2. Tallies(t, l, Bit(a.op \in {"last", "close"}), Bit(a.op = "posts"), Bit(a.op = "testPosting"))
  BY TalliesOne
<1> HIDE DEF l
<1>3. /\ Bit(a.op \in {"last", "close"}) \in Nat /\ Bit(a.op = "posts") \in Nat
      /\ Bit(a.op = "testPosting") \in Nat
  BY DEF Bit
<1> QED
  BY <1>1, <1>2, <1>3, TurnedToFirst

LEMMA TurnedToTwo ==
  ASSUME TypeOK, NEW t \in Threads, Threads = {t}, Single(t), NEW op, Doing(t, op),
         NEW a \in AllTasks, NEW b \in AllTasks, Continue(t, <<a>> \o <<b>>), b.op \notin FirstOps
  PROVE  /\ Turned(t, op, Bit(a.op \in {"last", "close"}) + Bit(b.op \in {"last", "close"}),
                   Bit(a.op = "posts") + Bit(b.op = "posts"),
                   Bit(a.op = "testPosting") + Bit(b.op = "testPosting"))
         /\ First(t)' = a.op
<1> DEFINE k == <<b>>  one == <<a>>
           w(e) == Bit(e.op \in {"last", "close"})  p(e) == Bit(e.op = "posts")  q(e) == Bit(e.op = "testPosting")
<1>1. k \in Seq(AllTasks) /\ one \in Seq(AllTasks) /\ \A c \in Range(k) : c.op \notin FirstOps
  BY DEF Range
<1>2. Tallies(t, one, w(a), p(a), q(a)) /\ Tallies(t, k, w(b), p(b), q(b))
  BY TalliesOne
<1>3. \A e : w(e) \in Nat /\ p(e) \in Nat /\ q(e) \in Nat
  BY DEF Bit
<1>4. Continue(t, one \o k) /\ one \o k \in Seq(AllTasks)
  BY <1>1
<1>8. Starts(one \o k, a)
  <2> HIDE DEF k
  <2> QED
    BY <1>1 DEF Starts
<1>5. /\ w(a) \in Nat /\ w(b) \in Nat /\ w(a) + w(b) \in Nat /\ p(a) \in Nat /\ p(b) \in Nat /\ p(a) + p(b) \in Nat
      /\ q(a) \in Nat /\ q(b) \in Nat /\ q(a) + q(b) \in Nat
  BY <1>3
<1> HIDE DEF k, one, w, p, q
<1>6. Tallies(t, one \o k, w(a) + w(b), p(a) + p(b), q(a) + q(b))
  BY <1>1, <1>2, <1>5, TalliesBoth
<1>7. Turned(t, op, w(a) + w(b), p(a) + p(b), q(a) + q(b)) /\ First(t)' = a.op
  BY <1>1, <1>4, <1>5, <1>6, <1>8, TurnedToFirst
<1> QED
  BY <1>7 DEF w, p, q

\* Single(t), taken apart and put together.
LEMMA SingleParts ==
  ASSUME TypeOK, NEW t \in Threads, Single(t)
  PROVE  /\ Levels(t) \in Nat
         /\ First(t) \notin {"raise", "fetch", "lower"} => depth = Levels(t)
         /\ First(t) \in {"fetch", "lower"} => depth = Levels(t) + 1
         /\ First(t) = "raise" => depth = Levels(t) - 1
         /\ First(t) \in {"raise", "lower"} => read[t] = depth
         /\ First(t) # "resetPosting" => Runners(t) = Bit(processing_post)
         /\ First(t) = "resetPosting" => Runners(t) = 0 /\ posts = <<>>
         /\ First(t) = "setPosting" => ~processing_post
         /\ posts # <<>> =>
              First(t) = "setPosting" \/ Runners(t) # 0 \/ Testers(t) # 0 \/ Levels(t) # 0
<1>1. Levels(t) \in Nat
  BY LevelParts
<1>2. depth = Levels(t) + Bit(First(t) \in {"fetch", "lower"}) - Bit(First(t) = "raise")
  BY DEF Single
<1>3. /\ First(t) \notin {"raise", "fetch", "lower"} => depth = Levels(t)
      /\ First(t) \in {"fetch", "lower"} => depth = Levels(t) + 1
      /\ First(t) = "raise" => depth = Levels(t) - 1
  BY <1>1, <1>2 DEF Bit
<1>4. Runners(t) = Bit(processing_post /\ First(t) # "resetPosting")
  BY DEF Single
<1>5. /\ First(t) # "resetPosting" => Runners(t) = Bit(processing_post)
      /\ First(t) = "resetPosting" => Runners(t) = 0
  BY <1>4 DEF Bit
<1> QED
  BY <1>1, <1>3, <1>5 DEF Single

LEMMA SingleFrom ==
  ASSUME NEW t \in Threads, Levels(t)' \in Nat,
         agenda'[t] # <<>> => \A a \in Range(Tail(agenda'[t])) : a.op \notin FirstOps,
         First(t)' \notin {"raise", "fetch", "lower"} => depth' = Levels(t)',
         First(t)' \in {"fetch", "lower"} => depth' = Levels(t)' + 1,
         First(t)' = "raise" => depth' = Levels(t)' - 1,
         First(t)' \in {"raise", "lower"} => read'[t] = depth',
         First(t)' # "resetPosting" => Runners(t)' = Bit(processing_post'),
         First(t)' = "resetPosting" => Runners(t)' = 0 /\ posts' = <<>>,
         First(t)' = "setPosting" => ~processing_post',
         posts' # <<>> =>
           First(t)' = "setPosting" \/ Runners(t)' # 0 \/ Testers(t)' # 0 \/ Levels(t)' # 0
  PROVE  Single(t)'
<1>1. depth' = Levels(t)' + Bit(First(t)' \in {"fetch", "lower"}) - Bit(First(t)' = "raise")
  BY DEF Bit
<1>2. Runners(t)' = Bit(processing_post' /\ First(t)' # "resetPosting")
  BY DEF Bit
<1> QED
  BY <1>1, <1>2 DEF Single

\* What a task that waits does to the levels.
LEMMA LevelsChange ==
  ASSUME TypeOK, NEW t \in Threads, NEW op, NEW x \in Nat, NEW y \in Nat, NEW z \in Nat,
         Changes(t, op, x, y, z), open' = open
  PROVE  /\ Levels(t) \in Nat /\ Levels(t)' \in Nat
         /\ Levels(t)' + Bit(op \in {"last", "close"}) = Levels(t) + x
         /\ Runners(t) \in Nat /\ Runners(t)' \in Nat
         /\ Runners(t)' + Bit(op = "posts") = Runners(t) + y
         /\ Testers(t) \in Nat /\ Testers(t)' \in Nat
         /\ Testers(t)' + Bit(op = "testPosting") = Testers(t) + z
<1>1. /\ Level \in Nat /\ Level' \in Nat /\ Level' + Bit(op \in {"last", "close"}) = Level + x
      /\ Runners(t) \in Nat /\ Runners(t)' \in Nat /\ Runners(t)' + Bit(op = "posts") = Runners(t) + y
      /\ Testers(t) \in Nat /\ Testers(t)' \in Nat /\ Testers(t)' + Bit(op = "testPosting") = Testers(t) + z
  BY DEF Changes
<1> DEFINE b == Bit(t \in open)  c == Bit(op \in {"last", "close"})  m == Level  n == Level'
<1>2. Levels(t) = b + m /\ Levels(t)' = b + n
  BY LevelParts
<1>3. b \in Nat /\ c \in Nat /\ m \in Nat /\ n \in Nat /\ n + c = m + x
  BY <1>1 DEF Bit
<1> HIDE DEF b, c, m, n
<1>4. b + m \in Nat /\ b + n \in Nat /\ b + n + c = b + m + x
  BY <1>3
<1>5. /\ Levels(t) \in Nat /\ Levels(t)' \in Nat
      /\ Levels(t)' + c = Levels(t) + x
  BY <1>2, <1>4
<1> QED
  BY <1>1, <1>5 DEF c

\* depth++ and depth-- are over.
LEMMA SingleRaise ==
  ASSUME TypeOK, NEW t \in Threads, Threads = {t}, Single(t), Raise(t) \/ Lower(t)
  PROVE  Single(t)'
<1> DEFINE op == IF Raise(t) THEN "raise" ELSE "lower"
<1>1. Doing(t, op) /\ Continue(t, <<>>) /\ open' = open /\ posts' = posts /\ processing_post' = processing_post
  BY DEF Raise, Lower, owners
<1>2. op \in {"raise", "lower"}
  OBVIOUS
<1>3. depth' = IF op = "raise" THEN read[t] + 1 ELSE read[t] - 1
  BY DEF Raise, Lower
<1> HIDE DEF op
<1>4. Turned(t, op, 0, 0, 0) /\ First(t)' \notin FirstOps
  BY <1>1, TurnedToNone
<1>5. First(t) = op /\ Changes(t, op, 0, 0, 0)
      /\ (agenda'[t] # <<>> => \A a \in Range(Tail(agenda'[t])) : a.op \notin FirstOps)
  BY <1>4 DEF Turned
<1>6. /\ Levels(t) \in Nat /\ Levels(t)' \in Nat /\ Levels(t)' + Bit(op \in {"last", "close"}) = Levels(t) + 0
      /\ Runners(t) \in Nat /\ Runners(t)' \in Nat /\ Runners(t)' + Bit(op = "posts") = Runners(t) + 0
      /\ Testers(t) \in Nat /\ Testers(t)' \in Nat /\ Testers(t)' + Bit(op = "testPosting") = Testers(t) + 0
  BY <1>1, <1>5, LevelsChange
<1>7. Levels(t)' = Levels(t) /\ Runners(t)' = Runners(t) /\ Testers(t)' = Testers(t)
  BY <1>2, <1>6 DEF Bit
<1>8. /\ op = "raise" => depth = Levels(t) - 1 /\ read[t] = depth
      /\ op = "lower" => depth = Levels(t) + 1 /\ read[t] = depth
      /\ Runners(t) = Bit(processing_post)
      /\ posts # <<>> => Runners(t) # 0 \/ Testers(t) # 0 \/ Levels(t) # 0
  BY <1>2, <1>5, SingleParts
<1>9. depth' = Levels(t)'
  BY <1>2, <1>3, <1>6, <1>7, <1>8
<1>10. First(t)' \notin {"raise", "fetch", "lower", "setPosting", "resetPosting"}
  BY <1>4 DEF FirstOps
<1> QED
  BY <1>1, <1>5, <1>6, <1>7, <1>8, <1>9, <1>10, SingleFrom

\* A step of a transaction: the numbers before and after, in one place.
LEMMA TurnedIs ==
  ASSUME TypeOK, NEW t \in Threads, NEW op, NEW x \in Nat, NEW y \in Nat, NEW z \in Nat,
         Turned(t, op, x, y, z), open' = open
  PROVE  /\ First(t) = op
         /\ agenda'[t] # <<>> => \A a \in Range(Tail(agenda'[t])) : a.op \notin FirstOps
         /\ Levels(t) \in Nat /\ Levels(t)' \in Nat
         /\ Levels(t)' + Bit(op \in {"last", "close"}) = Levels(t) + x
         /\ Runners(t) \in Nat /\ Runners(t)' \in Nat
         /\ Runners(t)' + Bit(op = "posts") = Runners(t) + y
         /\ Testers(t) \in Nat /\ Testers(t)' \in Nat
         /\ Testers(t)' + Bit(op = "testPosting") = Testers(t) + z
BY LevelsChange DEF Turned

\* A task of t's own that comes instead.
LEMMA TurnedToNow ==
  ASSUME TypeOK, NEW t \in Threads, Threads = {t}, Single(t), NEW op, Doing(t, op),
         NEW next \in TransactionOps, Continue(t, <<Now(next, t)>>)
  PROVE  /\ Turned(t, op, Bit(next \in {"last", "close"}), Bit(next = "posts"), Bit(next = "testPosting"))
         /\ First(t)' = next
<1>1. Now(next, t) \in AllTasks /\ Now(next, t).op = next
  BY NowTasks
<1> QED
  BY <1>1, TurnedToOne

LEMMA SingleFetch ==
  ASSUME TypeOK, NEW t \in Threads, Threads = {t}, Single(t), Fetch(t)
  PROVE  Single(t)'
<1>1. /\ Doing(t, "fetch") /\ Continue(t, <<Now("lower", t)>>) /\ "lower" \in TransactionOps
      /\ open' = open /\ depth' = depth /\ posts' = posts /\ processing_post' = processing_post
      /\ read'[t] = depth
  BY DEF Fetch, owners, ReadDepth, TypeOK, TransactionOps
<1>2. Turned(t, "fetch", 0, 0, 0) /\ First(t)' = "lower"
  BY <1>1, TurnedToNow DEF Bit
<1>3. /\ First(t) = "fetch" /\ Levels(t)' = Levels(t) /\ Runners(t)' = Runners(t) /\ Testers(t)' = Testers(t)
      /\ Levels(t) \in Nat
      /\ (agenda'[t] # <<>> => \A a \in Range(Tail(agenda'[t])) : a.op \notin FirstOps)
  BY <1>1, <1>2, TurnedIs DEF Bit
<1>4. /\ depth = Levels(t) + 1 /\ Runners(t) = Bit(processing_post)
      /\ posts # <<>> => Runners(t) # 0 \/ Testers(t) # 0 \/ Levels(t) # 0
  BY <1>3, SingleParts
<1> QED
  BY <1>1, <1>2, <1>3, <1>4, SingleFrom

LEMMA SingleSetPosting ==
  ASSUME TypeOK, NEW t \in Threads, Threads = {t}, Single(t), SetPosting(t)
  PROVE  Single(t)'
<1>1. /\ Doing(t, "setPosting") /\ Continue(t, <<Now("posts", t)>>) /\ "posts" \in TransactionOps
      /\ open' = open /\ depth' = depth /\ posts' = posts /\ processing_post' = TRUE
  BY DEF SetPosting, owners, TransactionOps
<1>2. Turned(t, "setPosting", 0, 1, 0) /\ First(t)' = "posts"
  BY <1>1, TurnedToNow DEF Bit
<1>3. /\ First(t) = "setPosting" /\ Levels(t)' = Levels(t) /\ Runners(t)' = Runners(t) + 1
      /\ Levels(t) \in Nat
      /\ (agenda'[t] # <<>> => \A a \in Range(Tail(agenda'[t])) : a.op \notin FirstOps)
  BY <1>1, <1>2, TurnedIs DEF Bit
<1>4. depth = Levels(t) /\ Runners(t) = 0
  BY <1>3, SingleParts DEF Bit
<1>5. Runners(t)' = Bit(processing_post') /\ Runners(t)' # 0
  BY <1>1, <1>3, <1>4 DEF Bit
<1>6. First(t)' \notin {"raise", "fetch", "lower", "setPosting", "resetPosting"}
  BY <1>2
<1>7. depth' = Levels(t)' /\ Levels(t)' \in Nat
  BY <1>1, <1>3, <1>4
<1> QED
  BY <1>3, <1>5, <1>6, <1>7, SingleFrom

LEMMA SingleNoMorePosts ==
  ASSUME TypeOK, NEW t \in Threads, Threads = {t}, Single(t), NoMorePosts(t)
  PROVE  Single(t)'
<1>1. /\ Doing(t, "posts") /\ Continue(t, <<Now("resetPosting", t)>>) /\ "resetPosting" \in TransactionOps
      /\ open' = open /\ depth' = depth /\ posts' = posts /\ posts = <<>>
  BY DEF NoMorePosts, owners, deferral, TransactionOps
<1>2. Turned(t, "posts", 0, 0, 0) /\ First(t)' = "resetPosting"
  BY <1>1, TurnedToNow DEF Bit
<1>3. /\ First(t) = "posts" /\ Levels(t)' = Levels(t) /\ Runners(t)' + 1 = Runners(t)
      /\ Levels(t) \in Nat /\ Runners(t)' \in Nat
      /\ (agenda'[t] # <<>> => \A a \in Range(Tail(agenda'[t])) : a.op \notin FirstOps)
  BY <1>1, <1>2, TurnedIs DEF Bit
<1>4. depth = Levels(t) /\ Runners(t) \in {0, 1}
  BY <1>3, SingleParts DEF Bit
<1>5. Runners(t)' = 0
  BY <1>3, <1>4
<1> QED
  BY <1>1, <1>2, <1>3, <1>4, <1>5, SingleFrom

LEMMA SingleResetPosting ==
  ASSUME TypeOK, NEW t \in Threads, Threads = {t}, Single(t), ResetPosting(t)
  PROVE  Single(t)'
<1>1. /\ Doing(t, "resetPosting") /\ Continue(t, <<>>)
      /\ open' = open /\ depth' = depth /\ posts' = posts /\ processing_post' = FALSE
  BY DEF ResetPosting, owners
<1>2. Turned(t, "resetPosting", 0, 0, 0) /\ First(t)' \notin FirstOps
  BY <1>1, TurnedToNone
<1>3. /\ First(t) = "resetPosting" /\ Levels(t)' = Levels(t) /\ Runners(t)' = Runners(t)
      /\ Levels(t) \in Nat
      /\ (agenda'[t] # <<>> => \A a \in Range(Tail(agenda'[t])) : a.op \notin FirstOps)
  BY <1>1, <1>2, TurnedIs DEF Bit
<1>4. depth = Levels(t) /\ Runners(t) = 0 /\ posts = <<>>
  BY <1>3, SingleParts
<1>5. Runners(t)' = Bit(processing_post')
  BY <1>1, <1>3, <1>4 DEF Bit
<1>6. First(t)' \notin {"raise", "fetch", "lower", "setPosting", "resetPosting"}
  BY <1>2 DEF FirstOps
<1> QED
  BY <1>1, <1>3, <1>4, <1>5, <1>6, SingleFrom

LEMMA SingleTestPosting ==
  ASSUME TypeOK, NEW t \in Threads, Threads = {t}, Single(t), TestPosting(t)
  PROVE  Single(t)'
<1>1. /\ Doing(t, "testPosting") /\ "setPosting" \in TransactionOps
      /\ open' = open /\ depth' = depth /\ posts' = posts /\ processing_post' = processing_post
  BY DEF TestPosting, owners, deferral, TransactionOps
<1>2. CASE processing_post
  <2>1. Continue(t, <<>>)
    BY <1>2 DEF TestPosting
  <2>2. Turned(t, "testPosting", 0, 0, 0) /\ First(t)' \notin FirstOps
    BY <1>1, <2>1, TurnedToNone
  <2>3. /\ First(t) = "testPosting" /\ Levels(t)' = Levels(t) /\ Runners(t)' = Runners(t)
        /\ Levels(t) \in Nat
        /\ (agenda'[t] # <<>> => \A a \in Range(Tail(agenda'[t])) : a.op \notin FirstOps)
    BY <1>1, <2>2, TurnedIs DEF Bit
  <2>4. depth = Levels(t) /\ Runners(t) = Bit(processing_post)
    BY <2>3, SingleParts
  <2>5. Runners(t)' = Bit(processing_post') /\ Runners(t)' # 0
    BY <1>1, <1>2, <2>3, <2>4 DEF Bit
  <2>6. First(t)' \notin {"raise", "fetch", "lower", "setPosting", "resetPosting"}
    BY <2>2 DEF FirstOps
  <2> QED
    BY <1>1, <2>3, <2>4, <2>5, <2>6, SingleFrom
<1>3. CASE ~processing_post
  <2>1. Continue(t, <<Now("setPosting", t)>>)
    BY <1>3 DEF TestPosting
  <2>2. Turned(t, "testPosting", 0, 0, 0) /\ First(t)' = "setPosting"
    BY <1>1, <2>1, TurnedToNow DEF Bit
  <2>0. 0 \in Nat
    OBVIOUS
  <2>5. /\ First(t) = "testPosting"
        /\ (agenda'[t] # <<>> => \A a \in Range(Tail(agenda'[t])) : a.op \notin FirstOps)
        /\ Levels(t) \in Nat /\ Levels(t)' \in Nat
        /\ Levels(t)' + Bit("testPosting" \in {"last", "close"}) = Levels(t) + 0
        /\ Runners(t) \in Nat /\ Runners(t)' \in Nat
        /\ Runners(t)' + Bit("testPosting" = "posts") = Runners(t) + 0
    BY <1>1, <2>0, <2>2, TurnedIs
  <2>3. /\ First(t) = "testPosting" /\ Levels(t)' = Levels(t) /\ Runners(t)' = Runners(t)
        /\ Levels(t) \in Nat
    BY <2>5 DEF Bit
  <2>4. depth = Levels(t) /\ Runners(t) = Bit(processing_post)
    BY <2>3, SingleParts
  <2> QED
    BY <1>1, <1>3, <2>2, <2>3, <2>4, <2>5, SingleFrom
<1> QED
  BY <1>2, <1>3

\* The first task is due.
LEMMA FirstIsDue ==
  ASSUME TypeOK, NEW t \in Threads, agenda[t] # <<>>, NEW X, Head(agenda[t]) \in X
  PROVE  Due(X) # 0
<1>1. agenda[t] \in Seq(AllTasks)
  BY DEF TypeOK
<1>2. Head(agenda[t]) \in Range(agenda[t])
  BY <1>1, RangeOfQueue
<1>3. Head(agenda[t]) \in Tasks
  BY <1>2 DEF Tasks
<1> QED
  BY <1>3, DueType

LEMMA SingleCloseOwn ==
  ASSUME TypeOK, NEW t \in Threads, Threads = {t}, Single(t), CloseOwn(t)
  PROVE  Single(t)'
<1>1. /\ Doing(t, "close") /\ {"fetch", "testPosting"} \subseteq TransactionOps
      /\ open' = open /\ depth' = depth /\ posts' = posts /\ processing_post' = processing_post
  BY DEF CloseOwn, owners, deferral, TransactionOps
<1> DEFINE one == <<Now("fetch", t)>>
<1>2. CASE depth # 1
  <2>1. Continue(t, one)
    <3>1. Continue(t, one \o <<>>)
      BY <1>2 DEF CloseOwn
    <3>2. one \o <<>> = one
      OBVIOUS
    <3> QED
      BY <3>1, <3>2
  <2>2. Turned(t, "close", 0, 0, 0) /\ First(t)' = "fetch"
    BY <1>1, <2>1, TurnedToNow DEF Bit
  <2>0. 0 \in Nat
    OBVIOUS
  <2>3. /\ First(t) = "close"
        /\ (agenda'[t] # <<>> => \A a \in Range(Tail(agenda'[t])) : a.op \notin FirstOps)
        /\ Levels(t) \in Nat /\ Levels(t)' \in Nat
        /\ Levels(t)' + Bit("close" \in {"last", "close"}) = Levels(t) + 0
        /\ Runners(t) \in Nat /\ Runners(t)' \in Nat
        /\ Runners(t)' + Bit("close" = "posts") = Runners(t) + 0
    BY <1>1, <2>0, <2>2, TurnedIs
  <2>4. Levels(t)' + 1 = Levels(t) /\ Runners(t)' = Runners(t)
    BY <2>3 DEF Bit
  <2>5. depth = Levels(t) /\ Runners(t) = Bit(processing_post)
    BY <2>3, SingleParts
  <2>6. Levels(t)' # 0 /\ depth' = Levels(t)' + 1
    BY <1>1, <1>2, <2>3, <2>4, <2>5
  <2> QED
    BY <1>1, <2>2, <2>3, <2>4, <2>5, <2>6, SingleFrom
<1>3. CASE depth = 1
  <2> DEFINE a == Now("fetch", t)  b == Now("testPosting", t)
  <2>1. Continue(t, <<a>> \o <<b>>)
    BY <1>3 DEF CloseOwn
  <2>2. a \in AllTasks /\ b \in AllTasks /\ a.op = "fetch" /\ b.op = "testPosting" /\ b.op \notin FirstOps
    BY <1>1, NowTasks DEF FirstOps
  <2> HIDE DEF a, b
  <2>3. Turned(t, "close", 0 + 0, 0 + 0, 0 + 1) /\ First(t)' = "fetch"
    <3>1. /\ Bit(a.op \in {"last", "close"}) = 0 /\ Bit(b.op \in {"last", "close"}) = 0
          /\ Bit(a.op = "posts") = 0 /\ Bit(b.op = "posts") = 0
          /\ Bit(a.op = "testPosting") = 0 /\ Bit(b.op = "testPosting") = 1
      BY <2>2 DEF Bit
    <3>2. /\ Turned(t, "close", Bit(a.op \in {"last", "close"}) + Bit(b.op \in {"last", "close"}),
                    Bit(a.op = "posts") + Bit(b.op = "posts"),
                    Bit(a.op = "testPosting") + Bit(b.op = "testPosting"))
          /\ First(t)' = a.op
      BY <1>1, <2>1, <2>2, TurnedToTwo
    <3> QED
      BY <2>2, <3>1, <3>2
  <2>0. 0 \in Nat /\ 1 \in Nat /\ Turned(t, "close", 0, 0, 1)
    BY <2>3
  <2>4. /\ First(t) = "close"
        /\ (agenda'[t] # <<>> => \A c \in Range(Tail(agenda'[t])) : c.op \notin FirstOps)
        /\ Levels(t) \in Nat /\ Levels(t)' \in Nat
        /\ Levels(t)' + Bit("close" \in {"last", "close"}) = Levels(t) + 0
        /\ Runners(t) \in Nat /\ Runners(t)' \in Nat
        /\ Runners(t)' + Bit("close" = "posts") = Runners(t) + 0
        /\ Testers(t) \in Nat /\ Testers(t)' \in Nat
        /\ Testers(t)' + Bit("close" = "testPosting") = Testers(t) + 1
    BY <1>1, <2>0, TurnedIs
  <2>5. Levels(t)' + 1 = Levels(t) /\ Runners(t)' = Runners(t) /\ Testers(t)' = Testers(t) + 1
    BY <2>4 DEF Bit
  <2>6. depth = Levels(t) /\ Runners(t) = Bit(processing_post)
    BY <2>4, SingleParts
  <2>7. Testers(t)' # 0 /\ depth' = Levels(t)' + 1
    BY <1>1, <2>4, <2>5, <2>6
  <2> QED
    BY <1>1, <2>3, <2>4, <2>5, <2>6, <2>7, SingleFrom
<1> QED
  BY <1>2, <1>3

LEMMA SingleKill ==
  ASSUME TypeOK, NEW t \in Threads, Threads = {t}, Single(t), Kill(t)
  PROVE  Single(t)'
<1>1. /\ Doing(t, "kill") /\ "raise" \in TransactionOps
      /\ open' = open /\ depth' = depth /\ posts' = posts /\ processing_post' = processing_post
      /\ read'[t] = depth
  BY DEF Kill, owners, ReadDepth, TypeOK, TransactionOps
<1> DEFINE a == Now("raise", t)  b == Task("last", Obj(t), Arg(t))
<1>2. Obj(t) \in Streams /\ Arg(t) \in Objects
  BY <1>1, FirstTask
<1>3. a \in AllTasks /\ b \in AllTasks /\ a.op = "raise" /\ b.op = "last" /\ b.op \notin FirstOps
  <2>1. a \in AllTasks /\ a.op = "raise" /\ b.op = "last" /\ b.op \notin FirstOps
    BY <1>1, NowTasks, OpOf DEF FirstOps
  <2>2. b \in AllTasks
    BY <1>2 DEF AllTasks
  <2> QED
    BY <2>1, <2>2
<1>4. Continue(t, <<a>> \o <<b>>)
  <2>1. Continue(t, <<a, b>>)
    BY DEF Kill
  <2>2. <<a, b>> = <<a>> \o <<b>>
    BY <1>3, ShortLists
  <2> QED
    BY <2>1, <2>2
<1> HIDE DEF a, b
<1>5. Turned(t, "kill", 1, 0, 0) /\ First(t)' = "raise"
  <2>1. /\ Bit(a.op \in {"last", "close"}) = 0 /\ Bit(b.op \in {"last", "close"}) = 1
        /\ Bit(a.op = "posts") = 0 /\ Bit(b.op = "posts") = 0
        /\ Bit(a.op = "testPosting") = 0 /\ Bit(b.op = "testPosting") = 0
    BY <1>3 DEF Bit
  <2>2. /\ Turned(t, "kill", Bit(a.op \in {"last", "close"}) + Bit(b.op \in {"last", "close"}),
                  Bit(a.op = "posts") + Bit(b.op = "posts"),
                  Bit(a.op = "testPosting") + Bit(b.op = "testPosting"))
        /\ First(t)' = a.op
    BY <1>1, <1>3, <1>4, TurnedToTwo
  <2>3. Turned(t, "kill", 0 + 1, 0 + 0, 0 + 0)
    BY <2>1, <2>2
  <2> QED
    BY <1>3, <2>2, <2>3
<1>0. 0 \in Nat /\ 1 \in Nat
  OBVIOUS
<1>6. /\ First(t) = "kill"
      /\ (agenda'[t] # <<>> => \A c \in Range(Tail(agenda'[t])) : c.op \notin FirstOps)
      /\ Levels(t) \in Nat /\ Levels(t)' \in Nat
      /\ Levels(t)' + Bit("kill" \in {"last", "close"}) = Levels(t) + 1
      /\ Runners(t) \in Nat /\ Runners(t)' \in Nat
      /\ Runners(t)' + Bit("kill" = "posts") = Runners(t) + 0
  BY <1>0, <1>1, <1>5, TurnedIs
<1>7. Levels(t)' = Levels(t) + 1 /\ Runners(t)' = Runners(t)
  BY <1>6 DEF Bit
<1>8. depth = Levels(t) /\ Runners(t) = Bit(processing_post)
  BY <1>6, SingleParts
<1>9. Levels(t)' # 0 /\ depth' = Levels(t)' - 1
  BY <1>1, <1>6, <1>7, <1>8
<1> QED
  BY <1>1, <1>5, <1>6, <1>7, <1>8, <1>9, SingleFrom

LEMMA SinglePutOff ==
  ASSUME TypeOK, NEW t \in Threads, Threads = {t}, Single(t), PutOff(t)
  PROVE  Single(t)'
<1>1. /\ Doing(t, "last") /\ Continue(t, <<Now("close", t)>>) /\ "close" \in TransactionOps
      /\ open' = open /\ depth' = depth /\ processing_post' = processing_post
  BY DEF PutOff, owners, TransactionOps
<1>2. Turned(t, "last", 1, 0, 0) /\ First(t)' = "close"
  BY <1>1, TurnedToNow DEF Bit
<1>3. /\ First(t) = "last" /\ Levels(t)' = Levels(t) /\ Runners(t)' = Runners(t)
      /\ Levels(t) \in Nat
      /\ (agenda'[t] # <<>> => \A a \in Range(Tail(agenda'[t])) : a.op \notin FirstOps)
  BY <1>1, <1>2, TurnedIs DEF Bit
<1>4. depth = Levels(t) /\ Runners(t) = Bit(processing_post)
  BY <1>3, SingleParts
<1>5. Levels(t) # 0
  <2>1. agenda[t] # <<>> /\ Head(agenda[t]) \in Waits
    <3>1. agenda[t] # <<>> /\ agenda[t] \in Seq(AllTasks) /\ Head(agenda[t]).op = "last"
      BY <1>1, FirstTask DEF Doing
    <3> QED
      BY <3>1 DEF Waits
  <2>2. Level # 0
    BY <2>1, FirstIsDue DEF Level
  <2>3. Levels(t) = Bit(t \in open) + Level /\ Level \in Nat /\ Bit(t \in open) \in {0, 1}
    BY LevelParts DEF Bit
  <2> QED
    BY <2>2, <2>3
<1> QED
  BY <1>1, <1>2, <1>3, <1>4, <1>5, SingleFrom

LEMMA SingleRunPost ==
  ASSUME TypeOK, NEW t \in Threads, Threads = {t}, Single(t), RunPost(t)
  PROVE  Single(t)'
<1>1. /\ Doing(t, "posts") /\ "posts" \in TransactionOps
      /\ open' = open /\ depth' = depth /\ processing_post' = processing_post
      /\ posts \in Seq(Streams \X Objects) /\ posts # <<>>
  BY DEF RunPost, owners, TypeOK, TransactionOps
<1> DEFINE a == Task("unlink", Head(posts)[1], Head(posts)[2])  b == Now("posts", t)
<1>2. /\ agenda[t] # <<>> /\ Head(agenda[t]) = b
  <2>1. /\ agenda[t] # <<>> /\ Head(agenda[t]) = Task("posts", Obj(t), Arg(t))
        /\ Obj(t) \in Threads /\ Arg(t) = Obj(t)
    BY <1>1, FirstTask
  <2>2. Obj(t) = t
    BY <2>1
  <2> QED
    BY <2>1, <2>2 DEF Now
<1>3. a \in AllTasks /\ b \in AllTasks /\ a.op = "unlink" /\ b.op = "posts" /\ b.op \notin FirstOps
  <2>1. b \in AllTasks /\ b.op = "posts" /\ a.op = "unlink" /\ b.op \notin FirstOps
    BY <1>1, NowTasks, OpOf DEF FirstOps
  <2>2. Head(posts)[1] \in Streams /\ Head(posts)[2] \in Objects
    BY <1>1
  <2>3. a \in AllTasks
    BY <2>2 DEF AllTasks
  <2> QED
    BY <2>1, <2>3
<1>4. Continue(t, <<a>> \o <<b>>)
  <2>1. Continue(t, <<a, b>>)
    BY <1>2 DEF RunPost
  <2>2. <<a, b>> = <<a>> \o <<b>>
    BY <1>3, ShortLists
  <2> QED
    BY <2>1, <2>2
<1>5. Runners(t) # 0
  BY <1>2, FirstIsDue DEF Runners
<1> HIDE DEF a, b
<1>6. Turned(t, "posts", 0, 1, 0) /\ First(t)' = "unlink"
  <2>1. /\ Bit(a.op \in {"last", "close"}) = 0 /\ Bit(b.op \in {"last", "close"}) = 0
        /\ Bit(a.op = "posts") = 0 /\ Bit(b.op = "posts") = 1
        /\ Bit(a.op = "testPosting") = 0 /\ Bit(b.op = "testPosting") = 0
    BY <1>3 DEF Bit
  <2>2. /\ Turned(t, "posts", Bit(a.op \in {"last", "close"}) + Bit(b.op \in {"last", "close"}),
                  Bit(a.op = "posts") + Bit(b.op = "posts"),
                  Bit(a.op = "testPosting") + Bit(b.op = "testPosting"))
        /\ First(t)' = a.op
    BY <1>1, <1>3, <1>4, TurnedToTwo
  <2>3. Turned(t, "posts", 0 + 0, 0 + 1, 0 + 0)
    BY <2>1, <2>2
  <2> QED
    BY <1>3, <2>2, <2>3
<1>0. 0 \in Nat /\ 1 \in Nat
  OBVIOUS
<1>7. /\ First(t) = "posts"
      /\ (agenda'[t] # <<>> => \A c \in Range(Tail(agenda'[t])) : c.op \notin FirstOps)
      /\ Levels(t) \in Nat /\ Levels(t)' \in Nat
      /\ Levels(t)' + Bit("posts" \in {"last", "close"}) = Levels(t) + 0
      /\ Runners(t) \in Nat /\ Runners(t)' \in Nat
      /\ Runners(t)' + Bit("posts" = "posts") = Runners(t) + 1
  BY <1>0, <1>1, <1>6, TurnedIs
<1>8. Levels(t)' = Levels(t) /\ Runners(t)' = Runners(t)
  BY <1>7 DEF Bit
<1>9. depth = Levels(t) /\ Runners(t) = Bit(processing_post)
  BY <1>7, SingleParts
<1>10. First(t)' \notin {"raise", "fetch", "lower", "setPosting", "resetPosting"}
  BY <1>6
<1> QED
  BY <1>1, <1>5, <1>7, <1>8, <1>9, <1>10, SingleFrom

\* A call that goes on makes nothing and opens and closes no transaction.
LEMMA PlainCall ==
  ASSUME TypeOK, NEW t \in Threads, Call(t)
  PROVE  Plain(t)
<1>1. maker' = maker /\ open' = open
  BY DEF Call, DoRelease, Clear, Relock, DoListen, Link, DropNodeRef, Unsource, Unlink, owners
<1>2. ~Opened(t) /\ ~Closing(t)
  BY <1>1 DEF Opened, Closing
<1>3. ASSUME NEW o \in Objects PROVE ~StreamMade(t, o) /\ ~ListenerMade(t, o)
  <2>1. t # NoThread
    BY ObjectsAssumption
  <2>2. StreamMade(t, o) \/ ListenerMade(t, o) =>
          maker[o] = NoThread /\ maker' = [maker EXCEPT ![o] = t]
    BY DEF StreamMade, NewStream, ListenerMade, Made
  <2> QED
    BY <1>1, <2>1, <2>2 DEF TypeOK
<1> QED
  BY <1>2, <1>3, PlainSteps

LEMMA SingleNext ==
  ASSUME TypeOK, NEW t \in Threads, Threads = {t}, Single(t), [Next]_vars
  PROVE  Single(t)'
<1>1. CASE Program(t)
  <2>1. agenda[t] = <<>>
    BY <1>1, FirstOfProgram
  <2> QED
    BY <1>1, <2>1, PlainSteps, SinglePlain, SingleOpened, SingleClosing, SingleMade
<1>2. CASE Call(t)
  <2>1. agenda[t] # <<>> /\ Head(agenda[t]).op \in CallOps
    BY <1>2, FirstOfCall
  <2> QED
    BY <1>2, <2>1, PlainCall, SinglePlain
<1>3. CASE InTransaction(t)
  BY <1>3, SingleKill, SinglePutOff, SingleRaise, SingleFetch, SingleCloseOwn, SingleTestPosting,
     SingleSetPosting, SingleRunPost, SingleNoMorePosts, SingleResetPosting DEF InTransaction
<1>4. CASE UNCHANGED vars
  <2>1. /\ agenda' = agenda /\ open' = open /\ depth' = depth /\ read' = read
        /\ posts' = posts /\ processing_post' = processing_post
    BY <1>4 DEF vars
  <2>2. /\ First(t)' = First(t) /\ Levels(t)' = Levels(t) /\ Runners(t)' = Runners(t)
        /\ Testers(t)' = Testers(t)
    BY <2>1 DEF First, Levels, Runners, Testers, Due
  <2> QED
    BY <2>1, <2>2 DEF Single
<1> QED
  BY <1>1, <1>2, <1>3, <1>4 DEF Next, Ending

LEMMA SingleInit ==
  ASSUME Init, NEW t \in Threads, Threads = {t}
  PROVE  Single(t)
<1>1. TypeOK
  BY InitInv DEF Inv
<1>2. /\ agenda[t] = <<>> /\ Tasks = {} /\ open = {} /\ depth = 0 /\ posts = <<>> /\ processing_post = FALSE
  <2>1. agenda[t] = <<>> /\ open = {} /\ depth = 0 /\ posts = <<>> /\ processing_post = FALSE
    BY DEF Init
  <2>2. Range(agenda[t]) = {}
    BY <2>1, ShortLists
  <2> QED
    BY <2>1, <2>2 DEF Tasks
<1>3. \A X : Due(X) = 0
  BY <1>1, <1>2, DueType
<1>4. Levels(t) = 0 /\ Runners(t) = 0 /\ Testers(t) = 0 /\ First(t) = "none"
  BY <1>2, <1>3 DEF Levels, Runners, Testers, First, Bit
<1> QED
  BY <1>2, <1>4 DEF Single, Bit

\* With one thread in the library every post that is put off runs before the
\* call that put it off is over (transaction.cpp:140-165).
THEOREM AllPostsRun ==
  ASSUME NEW t, Threads = {t}
  PROVE  Spec /\ []Room => []NoPostStays
<1>0. t \in Threads
  OBVIOUS
<1>1. Init => Single(t)
  BY <1>0, SingleInit
<1>2. TypeOK /\ Single(t) /\ [Next]_vars => Single(t)'
  BY <1>0, SingleNext
<1>3. Inv => TypeOK
  BY DEF Inv
<1>4. Inv /\ Single(t) => NoPostStays
  <2> SUFFICES ASSUME Inv, Single(t), Quiet PROVE posts = <<>>
    BY DEF NoPostStays
  <2>1. agenda[t] = <<>> /\ open = {}
    BY <1>0 DEF Quiet
  <2>2. \A X : Due(X) = 0
    BY QuietIs
  <2>3. First(t) = "none" /\ Levels(t) = 0 /\ Runners(t) = 0 /\ Testers(t) = 0
    BY <2>1, <2>2 DEF First, Levels, Runners, Testers, Bit
  <2> QED
    BY <2>3 DEF Single
<1> QED
  BY <1>1, <1>2, <1>3, <1>4, InvAlways, PTL DEF Spec
=============================================================================
