------------------------------ MODULE LightPtr ------------------------------
(***************************************************************************)
(* light_ptr (light_ptr.h, light_ptr.cpp): the reference-counting pointer  *)
(* in which every value travels from node to node, copied and destroyed by *)
(* workers and user threads at the same time.  A count is changed under a  *)
(* spin lock chosen from a static pool by the value's address, so pointers *)
(* to different values may share a lock; the value is deleted after the    *)
(* lock is released.                                                       *)
(*                                                                         *)
(* As with every C++ object, a pointer is changed by one thread at a time  *)
(* and is left alone while another thread copies from it.                  *)
(***************************************************************************)
EXTENDS Integers, FiniteSets

CONSTANTS
    Threads,
    Handles,      \* the light_ptr objects: memory a pointer may be made in
    Objects,      \* the addresses values are allocated at, used again once freed
    Locks,
    LockOf,       \* spin_get_and_lock's hash of an address
    Null,         \* a pointer to nothing
    Unmade,       \* memory that holds no pointer
    NoThread

ASSUME HandlesAssumption == IsFiniteSet(Handles)
ASSUME LocksAssumption == LockOf \in [Objects -> Locks]
ASSUME NamesAssumption ==
    /\ Null \notin Objects /\ Unmade \notin Objects /\ Null # Unmade
    /\ NoThread \notin Threads

VARIABLES
    refers,       \* refers[h]: the object in whose count pointer h is counted
    live,         \* the objects that are allocated, value and count
    count,        \* count[o]: the field c of o's count
    lock,         \* lock[l]: the thread that holds lock l of lock_pool
    pc,           \* where each thread is in the operation it is running
    op            \* op[t]: the operation's pointers and locals

vars == <<refers, live, count, lock, pc, op>>

Pcs == {"idle", "lock", "read", "write", "unlock", "free"}

\* do: the change under way to the count of object o, which the operation
\* makes through pointer h; from: the pointer it copies, h itself if none;
\* then: what h is to refer to once o is let go of; c: the count that was read.
Operation == [do : {"inc", "dec"}, h : Handles, from : Handles, o : Objects,
              then : Objects \cup {Null}, c : Int]
NoOperation == [do |-> "none"]

Init ==
    /\ refers = [h \in Handles |-> Unmade]
    /\ live = {}
    /\ count = [o \in Objects |-> 0]
    /\ lock = [l \in Locks |-> NoThread]
    /\ pc = [t \in Threads |-> "idle"]
    /\ op = [t \in Threads |-> NoOperation]

\* No operation is making, assigning or destroying h.
Unchanging(h) == \A t \in Threads : pc[t] # "idle" => op[t].h # h
\* Nor copying from it.
Exclusive(h) == Unchanging(h) /\ \A t \in Threads : pc[t] # "idle" => op[t].from # h

Enter(t, do, h, from, o, then) ==
    /\ pc' = [pc EXCEPT ![t] = "lock"]
    /\ op' = [op EXCEPT ![t] =
                 [do |-> do, h |-> h, from |-> from, o |-> o, then |-> then, c |-> 0]]
    /\ UNCHANGED <<refers, live, count, lock>>

-----------------------------------------------------------------------------
(* The operations.  One on a null pointer takes the lock of address 0 and  *)
(* does nothing under it, so it is a single step here.                     *)

\* create(): new A, new count(1, del).
Create(t, h, o) ==
    /\ pc[t] = "idle" /\ refers[h] = Unmade /\ Exclusive(h)
    /\ o \notin live
    /\ live' = live \cup {o}
    /\ count' = [count EXCEPT ![o] = 1]
    /\ refers' = [refers EXCEPT ![h] = o]
    /\ UNCHANGED <<lock, pc, op>>

\* The default constructor.
Default(t, h) ==
    /\ pc[t] = "idle" /\ refers[h] = Unmade /\ Exclusive(h)
    /\ refers' = [refers EXCEPT ![h] = Null]
    /\ UNCHANGED <<live, count, lock, pc, op>>

\* The move constructor takes no lock: the count stays what it is.
Move(t, h, from) ==
    /\ pc[t] = "idle" /\ refers[h] = Unmade /\ Exclusive(h)
    /\ refers[from] # Unmade /\ Exclusive(from)
    /\ refers' = [refers EXCEPT ![h] = refers[from], ![from] = Null]
    /\ UNCHANGED <<live, count, lock, pc, op>>

Copy(t, h, from) ==
    /\ pc[t] = "idle" /\ refers[h] = Unmade /\ Exclusive(h)
    /\ Unchanging(from)
    /\ \/ /\ refers[from] \in Objects
          /\ Enter(t, "inc", h, from, refers[from], Null)
       \/ /\ refers[from] = Null
          /\ refers' = [refers EXCEPT ![h] = Null]
          /\ UNCHANGED <<live, count, lock, pc, op>>

Destroy(t, h) ==
    /\ pc[t] = "idle" /\ Exclusive(h)
    /\ \/ /\ refers[h] \in Objects
          /\ Enter(t, "dec", h, h, refers[h], Null)
       \/ /\ refers[h] = Null
          /\ refers' = [refers EXCEPT ![h] = Unmade]
          /\ UNCHANGED <<live, count, lock, pc, op>>

\* operator=, which has nothing to do when the counts are the same and is not
\* made for null pointers: it dereferences both counts untested.
Assign(t, h, from) ==
    /\ pc[t] = "idle" /\ Exclusive(h) /\ Unchanging(from)
    /\ refers[h] \in Objects /\ refers[from] \in Objects
    /\ refers[h] # refers[from]
    /\ Enter(t, "dec", h, from, refers[h], refers[from])

-----------------------------------------------------------------------------
(* The steps of an operation: GET_AND_LOCK, the two halves of ++ or --,    *)
(* UNLOCK, and the deletion after it.                                      *)

\* Mutant of Lock: unsafe_light_ptr's empty GET_AND_LOCK.
LockNothing(t) ==
    /\ pc[t] = "lock"
    /\ pc' = [pc EXCEPT ![t] = "read"]
    /\ UNCHANGED <<refers, live, count, lock, op>>

Lock(t) ==
    /\ pc[t] = "lock"
    /\ lock[LockOf[op[t].o]] = NoThread
    /\ lock' = [lock EXCEPT ![LockOf[op[t].o]] = t]
    /\ pc' = [pc EXCEPT ![t] = "read"]
    /\ UNCHANGED <<refers, live, count, op>>

Read(t) ==
    /\ pc[t] = "read"
    /\ op' = [op EXCEPT ![t].c = count[op[t].o]]
    /\ pc' = [pc EXCEPT ![t] = "write"]
    /\ UNCHANGED <<refers, live, count, lock>>

\* refers changes with the count: the fields of h are set a moment before, or
\* forgotten a moment after, by a thread that has h to itself.
Write(t) ==
    LET c == IF op[t].do = "inc" THEN op[t].c + 1 ELSE op[t].c - 1
    IN  /\ pc[t] = "write"
        /\ count' = [count EXCEPT ![op[t].o] = c]
        /\ op' = [op EXCEPT ![t].c = c]
        /\ refers' = [refers EXCEPT ![op[t].h] = IF op[t].do = "inc" THEN op[t].o ELSE Unmade]
        /\ pc' = [pc EXCEPT ![t] = "unlock"]
        /\ UNCHANGED <<live, lock>>

\* Where the operation goes when it is done with its first object.
Proceed(t) ==
    IF op[t].do = "dec" /\ op[t].then # Null
    THEN /\ pc' = [pc EXCEPT ![t] = "lock"]
         /\ op' = [op EXCEPT ![t].do = "inc", ![t].o = op[t].then, ![t].then = Null]
    ELSE /\ pc' = [pc EXCEPT ![t] = "idle"]
         /\ op' = [op EXCEPT ![t] = NoOperation]

\* Mutant of Unlock: the test for zero is made on the count itself, after the
\* lock has been released.
UnlockThenTest(t) ==
    /\ pc[t] = "unlock"
    /\ lock' = [lock EXCEPT ![LockOf[op[t].o]] = NoThread]
    /\ IF op[t].do = "dec" /\ count[op[t].o] <= 1
       THEN pc' = [pc EXCEPT ![t] = "free"] /\ op' = op
       ELSE Proceed(t)
    /\ UNCHANGED <<refers, live, count>>

Unlock(t) ==
    /\ pc[t] = "unlock"
    /\ lock' = [lock EXCEPT ![LockOf[op[t].o]] = NoThread]
    /\ IF op[t].do = "dec" /\ op[t].c = 0
       THEN pc' = [pc EXCEPT ![t] = "free"] /\ op' = op
       ELSE Proceed(t)
    /\ UNCHANGED <<refers, live, count>>

\* count->del(value); delete count.
Free(t) ==
    /\ pc[t] = "free"
    /\ live' = live \ {op[t].o}
    /\ Proceed(t)
    /\ UNCHANGED <<refers, count, lock>>

Start(t) ==
    \E h \in Handles :
        \/ \E o \in Objects : Create(t, h, o)
        \/ Default(t, h)
        \/ Destroy(t, h)
        \/ \E from \in Handles \ {h} : Move(t, h, from) \/ Copy(t, h, from) \/ Assign(t, h, from)

Step(t) == Lock(t) \/ Read(t) \/ Write(t) \/ Unlock(t) \/ Free(t)

Next == \E t \in Threads : Start(t) \/ Step(t)

Spec == Init /\ [][Next]_vars

-----------------------------------------------------------------------------
TypeOK ==
    /\ refers \in [Handles -> Objects \cup {Null, Unmade}]
    /\ live \subseteq Objects
    /\ count \in [Objects -> Int]
    /\ lock \in [Locks -> Threads \cup {NoThread}]
    /\ pc \in [Threads -> Pcs]
    /\ op \in [Threads -> Operation \cup {NoOperation}]
    /\ \A t \in Threads : op[t] = NoOperation <=> pc[t] = "idle"

Referring(o) == {h \in Handles : refers[h] = o}

\* Thread t has taken the count of o to zero and is going to delete o.
Deleting(t, o) ==
    /\ op[t].do = "dec" /\ op[t].o = o
    /\ pc[t] = "free" \/ (pc[t] = "unlock" /\ op[t].c = 0)

\* Nobody reads or writes the count of an object, or deletes one, that has been
\* deleted, and no pointer refers to one (the reason for the lock, and for the
\* test of --count->c under it).
NoUseAfterFree ==
    /\ \A t \in Threads : pc[t] \in {"read", "write", "free"} => op[t].o \in live
    /\ \A h \in Handles : refers[h] \in Objects => refers[h] \in live

\* A count is the number of pointers that refer to the object, whatever the
\* threads are in the middle of, and an object to which none refers is about
\* to be deleted by the thread that destroyed the last: no increment is lost and
\* nothing leaks.
CountsArePointers ==
    \A o \in live :
        /\ count[o] = Cardinality(Referring(o))
        /\ Referring(o) = {} => \E t \in Threads : Deleting(t, o)

=============================================================================
