--------------------------- MODULE LightPtrProofs ---------------------------
(***************************************************************************)
(* Theorems about LightPtr for any threads, pointers, addresses and        *)
(* assignment of locks to addresses.                                       *)
(***************************************************************************)
EXTENDS LightPtr, FiniteSetTheorems, TLAPS

Active(t) == pc[t] # "idle"
Counting(t) == pc[t] \in {"lock", "read", "write"}

\* Between GET_AND_LOCK and UNLOCK a thread has the lock of its object.
Locked ==
    \A t \in Threads : pc[t] \in {"read", "write", "unlock"} => lock[LockOf[op[t].o]] = t

\* What a thread has read is still the count when it writes it back.
Fresh == \A t \in Threads : pc[t] = "write" => op[t].c = count[op[t].o]

\* While an operation runs, its object is referred to by the pointer that is to
\* lose it, or by the one that is copied, until the count is written.
Pinned ==
    \A t \in Threads : Active(t) =>
        /\ op[t].do = "dec" => refers[op[t].h] = IF Counting(t) THEN op[t].o ELSE Unmade
        /\ op[t].do = "inc" /\ Counting(t) =>
               refers[op[t].h] = Unmade /\ refers[op[t].from] = op[t].o
        /\ op[t].do = "dec" /\ op[t].then # Null =>
               op[t].from # op[t].h /\ refers[op[t].from] = op[t].then
        /\ pc[t] = "free" => op[t].do = "dec"

\* No thread changes a pointer that another is changing or copying.
Apart ==
    \A t, u \in Threads : t # u /\ Active(t) /\ Active(u) =>
        op[t].h # op[u].h /\ op[t].from # op[u].h

\* The thread that is to delete an object is the only one that will, and no
\* pointer refers to the object any more.
Alone ==
    \A t \in Threads, o \in Objects : Active(t) /\ Deleting(t, o) =>
        /\ o \in live
        /\ \A h \in Handles : refers[h] # o
        /\ \A u \in Threads \ {t} : Active(u) => ~Deleting(u, o)

AllLive == \A h \in Handles : refers[h] \in Objects => refers[h] \in live

IInv == /\ TypeOK /\ Locked /\ Fresh /\ Pinned /\ Apart /\ Alone /\ AllLive
        /\ CountsArePointers

-----------------------------------------------------------------------------
\* Only finitely many pointers refer to an object.
LEMMA FiniteReferring ==
  ASSUME NEW o
  PROVE  IsFiniteSet(Referring(o))
<1>1. Referring(o) \in SUBSET Handles
  BY DEF Referring
<1> QED
  BY <1>1, HandlesAssumption, FS_Subset

\* The locals of a thread that runs an operation.
LEMMA OperationFields ==
  ASSUME TypeOK, NEW t \in Threads, Active(t)
  PROVE  /\ op[t] \in Operation
         /\ op[t].do \in {"inc", "dec"} /\ op[t].h \in Handles /\ op[t].from \in Handles
         /\ op[t].o \in Objects /\ op[t].then \in Objects \cup {Null} /\ op[t].c \in Int
<1>1. op[t] \in Operation
  BY DEF TypeOK, Active
<1> QED
  BY <1>1 DEF Operation

\* Nothing is referred to in the beginning.
LEMMA InitInv == Init => IInv
<1> SUFFICES ASSUME Init PROVE IInv
  OBVIOUS
<1>1. TypeOK
  BY DEF Init, TypeOK, Pcs, Operation, NoOperation
<1>2. Locked /\ Fresh /\ Pinned /\ Apart /\ Alone
  BY DEF Init, Locked, Fresh, Pinned, Apart, Alone, Active
<1>3. AllLive
  BY NamesAssumption DEF Init, AllLive
<1>4. CountsArePointers
  BY DEF Init, CountsArePointers
<1> QED
  BY <1>1, <1>2, <1>3, <1>4 DEF IInv

-----------------------------------------------------------------------------
(* One lemma for each action.                                              *)

\* create() takes an address to which no pointer refers, as all refer to live
\* objects, and counts the pointer it makes.
LEMMA CreateInv ==
  ASSUME IInv, NEW t \in Threads, NEW h \in Handles, NEW o \in Objects, Create(t, h, o)
  PROVE  IInv'
<1>1. TypeOK'
  BY DEF IInv, TypeOK, Create
<1>2. Locked' /\ Apart'
  BY DEF IInv, Locked, Apart, Active, Create
<1>3. \A g \in Handles : refers[g] # o
  BY DEF IInv, AllLive, Create
<1>4. \A u \in Threads : Active(u) => op[u].h # h /\ op[u].from # h
  BY DEF Create, Exclusive, Unchanging, Active
<1>5. Fresh'
  <2> SUFFICES ASSUME NEW u \in Threads, pc[u] = "write"
               PROVE  op[u].c = count'[op[u].o]
    BY DEF Create, Fresh
  <2>1. Active(u) /\ op[u].o \in Objects
    BY OperationFields DEF IInv, Active
  <2>2. op[u].o # o
    BY <2>1, <1>3, OperationFields DEF IInv, Pinned, Counting
  <2> QED
    BY <2>1, <2>2 DEF IInv, TypeOK, Fresh, Create
<1>6. Pinned'
  <2> SUFFICES ASSUME NEW u \in Threads, Active(u)
               PROVE  Pinned!(u)'
    BY DEF Pinned, Active, Create
  <2> QED
    BY <1>4, OperationFields DEF IInv, TypeOK, Pinned, Counting, Create, Active
<1>7. Alone'
  BY <1>3 DEF IInv, TypeOK, Alone, Deleting, Create, Active
<1>8. AllLive'
  BY DEF IInv, TypeOK, AllLive, Create
<1>9. CountsArePointers'
  <2> SUFFICES ASSUME NEW p \in live'
               PROVE  /\ count'[p] = Cardinality(Referring(p)')
                      /\ Referring(p)' = {} => \E u \in Threads : Deleting(u, p)'
    BY DEF CountsArePointers
  <2>1. CASE p = o
    <3>1. Referring(o)' = {h}
      BY <1>3 DEF IInv, TypeOK, Referring, Create
    <3> QED
      BY <2>1, <3>1, FS_Singleton DEF IInv, TypeOK, Create
  <2>2. CASE p # o
    <3>1. p \in live /\ p \in Objects /\ count'[p] = count[p]
      BY <2>2 DEF IInv, TypeOK, Create
    <3>2. Referring(p)' = Referring(p)
      BY <2>2, <3>1, NamesAssumption DEF IInv, TypeOK, Referring, Create
    <3> QED
      BY <3>1, <3>2 DEF IInv, CountsArePointers, Deleting, Create
  <2> QED
    BY <2>1, <2>2
<1> QED
  BY <1>1, <1>2, <1>5, <1>6, <1>7, <1>8, <1>9 DEF IInv

\* A step that changes no count, and makes or forgets null pointers only,
\* disturbs nothing.
LEMMA NullInv ==
  ASSUME IInv, NEW h \in Handles, Exclusive(h), refers[h] \in {Null, Unmade},
         NEW p \in {Null, Unmade}, refers' = [refers EXCEPT ![h] = p],
         UNCHANGED <<live, count, lock, pc, op>>
  PROVE  IInv'
<1>1. TypeOK'
  BY DEF IInv, TypeOK
<1>2. Locked' /\ Apart' /\ Fresh'
  BY DEF IInv, Locked, Apart, Fresh, Active
<1>3. \A u \in Threads : Active(u) => op[u].h # h /\ op[u].from # h
  BY DEF Exclusive, Unchanging, Active
<1>4. Pinned'
  <2> SUFFICES ASSUME NEW u \in Threads, Active(u)
               PROVE  Pinned!(u)'
    BY DEF Pinned, Active
  <2> QED
    BY <1>3, OperationFields DEF IInv, TypeOK, Pinned, Counting, Active
<1>5. \A o \in Objects : Referring(o)' = Referring(o)
  BY NamesAssumption DEF IInv, TypeOK, Referring
<1>6. Alone'
  BY NamesAssumption DEF IInv, TypeOK, Alone, Deleting, Active
<1>7. AllLive'
  BY NamesAssumption DEF IInv, TypeOK, AllLive
<1>8. CountsArePointers'
  BY <1>5 DEF IInv, TypeOK, CountsArePointers, Deleting
<1> QED
  BY <1>1, <1>2, <1>4, <1>6, <1>7, <1>8 DEF IInv

\* The move constructor hands a reference over: as many pointers refer to the
\* object as before.
LEMMA MoveInv ==
  ASSUME IInv, NEW t \in Threads, NEW h \in Handles, NEW from \in Handles \ {h},
         Move(t, h, from)
  PROVE  IInv'
<1>1. TypeOK'
  BY DEF IInv, TypeOK, Move
<1>2. Locked' /\ Apart' /\ Fresh'
  BY DEF IInv, Locked, Apart, Fresh, Active, Move
<1>3. \A u \in Threads : Active(u) => /\ op[u].h # h /\ op[u].from # h
                                     /\ op[u].h # from /\ op[u].from # from
  BY DEF Move, Exclusive, Unchanging, Active
<1>4. Pinned'
  <2> SUFFICES ASSUME NEW u \in Threads, Active(u)
               PROVE  Pinned!(u)'
    BY DEF Pinned, Active, Move
  <2> QED
    BY <1>3, OperationFields DEF IInv, TypeOK, Pinned, Counting, Active, Move
<1>5. \A o \in Objects : IF o = refers[from]
                         THEN Referring(o)' = (Referring(o) \ {from}) \cup {h}
                         ELSE Referring(o)' = Referring(o)
  BY NamesAssumption DEF IInv, TypeOK, Referring, Move
<1>6. ASSUME NEW o \in Objects
      PROVE  /\ Cardinality(Referring(o)') = Cardinality(Referring(o))
             /\ Referring(o)' = {} => Referring(o) = {}
  <2>1. CASE o = refers[from]
    <3>1. from \in Referring(o) /\ h \notin Referring(o)
      BY <2>1, NamesAssumption DEF Referring, Move
    <3>2. IsFiniteSet(Referring(o))
      BY FiniteReferring
    <3>3. Cardinality(Referring(o)) \in Nat
      BY <3>2, FS_CardinalityType
    <3>4. /\ IsFiniteSet(Referring(o) \ {from})
          /\ Cardinality(Referring(o) \ {from}) = Cardinality(Referring(o)) - 1
      BY <3>1, <3>2, FS_RemoveElement
    <3>5. Cardinality((Referring(o) \ {from}) \cup {h}) = Cardinality(Referring(o) \ {from}) + 1
      BY <3>1, <3>4, FS_AddElement
    <3>6. Referring(o)' = (Referring(o) \ {from}) \cup {h}
      BY <2>1, <1>5
    <3>7. Cardinality(Referring(o)') = Cardinality(Referring(o))
      BY <3>3, <3>4, <3>5, <3>6
    <3>8. Referring(o)' # {}
      BY <3>6
    <3> QED
      BY <3>7, <3>8
  <2> QED
    BY <1>5, <2>1
<1>7. Alone'
  BY NamesAssumption DEF IInv, TypeOK, Alone, Deleting, Active, Move
<1>8. AllLive'
  BY NamesAssumption DEF IInv, TypeOK, AllLive, Move
<1>9. CountsArePointers'
  BY <1>6 DEF IInv, TypeOK, CountsArePointers, Deleting, Move
<1> QED
  BY <1>1, <1>2, <1>4, <1>7, <1>8, <1>9 DEF IInv

\* A thread that begins an operation has its pointers to itself, and the
\* pointer that is to lose its object, or is copied, refers to it.
LEMMA EnterInv ==
  ASSUME IInv, NEW t \in Threads, NEW do \in {"inc", "dec"},
         NEW h \in Handles, NEW from \in Handles, NEW o \in Objects,
         NEW then \in Objects \cup {Null},
         pc[t] = "idle", Exclusive(h), Unchanging(from), Enter(t, do, h, from, o, then),
         do = "dec" => refers[h] = o,
         do = "inc" => refers[h] = Unmade /\ refers[from] = o,
         then # Null => from # h /\ refers[from] = then
  PROVE  IInv'
<1>1. /\ op' = [op EXCEPT ![t] =
                   [do |-> do, h |-> h, from |-> from, o |-> o, then |-> then, c |-> 0]]
      /\ pc' = [pc EXCEPT ![t] = "lock"]
      /\ refers' = refers /\ live' = live /\ count' = count /\ lock' = lock
  BY DEF Enter
<1>2. TypeOK'
  <2>1. [do |-> do, h |-> h, from |-> from, o |-> o, then |-> then, c |-> 0] \in Operation
    BY DEF Operation
  <2>2. [do |-> do, h |-> h, from |-> from, o |-> o, then |-> then, c |-> 0] # NoOperation
    BY DEF NoOperation
  <2> QED
    BY <1>1, <2>1, <2>2 DEF IInv, TypeOK, Pcs
<1>3. \A u \in Threads \ {t} : op'[u] = op[u] /\ pc'[u] = pc[u]
  BY <1>1 DEF IInv, TypeOK
<1>4. /\ pc'[t] = "lock" /\ op'[t].do = do /\ op'[t].h = h /\ op'[t].from = from
      /\ op'[t].o = o /\ op'[t].then = then
  BY <1>1 DEF IInv, TypeOK
<1>5. Locked' /\ Fresh'
  BY <1>1, <1>3, <1>4 DEF IInv, Locked, Fresh
<1>6. Pinned'
  <2> SUFFICES ASSUME NEW u \in Threads, Active(u)'
               PROVE  Pinned!(u)'
    BY DEF Pinned
  <2>1. CASE u = t
    BY <2>1, <1>1, <1>4 DEF Counting
  <2>2. CASE u # t
    BY <2>2, <1>1, <1>3 DEF IInv, Pinned, Active, Counting
  <2> QED
    BY <2>1, <2>2
<1>7. Apart'
  BY <1>3, <1>4 DEF IInv, Apart, Active, Exclusive, Unchanging
<1>8. Alone'
  BY <1>1, <1>3, <1>4 DEF IInv, Alone, Active, Deleting
<1>9. AllLive'
  BY <1>1 DEF IInv, AllLive
<1>10. CountsArePointers'
  <2>1. \A u \in Threads, p \in live : Deleting(u, p) /\ u # t => Deleting(u, p)'
    BY <1>3 DEF Deleting
  <2>2. \A p : ~Deleting(t, p)
    BY DEF Deleting
  <2>3. \A p : Referring(p)' = Referring(p)
    BY <1>1 DEF Referring
  <2> QED
    BY <1>1, <2>1, <2>2, <2>3 DEF IInv, CountsArePointers
<1> QED
  BY <1>2, <1>5, <1>6, <1>7, <1>8, <1>9, <1>10 DEF IInv

\* The operations of an idle thread.
LEMMA StartInv ==
  ASSUME IInv, NEW t \in Threads, Start(t)
  PROVE  IInv'
<1> PICK h \in Handles : Start(t)!(h)
  BY DEF Start
<1>1. CASE \E o \in Objects : Create(t, h, o)
  BY <1>1, CreateInv
<1>2. CASE Default(t, h)
  BY <1>2, NullInv DEF Default
<1>3. CASE Destroy(t, h)
  <2>1. CASE refers[h] \in Objects /\ Enter(t, "dec", h, h, refers[h], Null)
    BY <1>3, <2>1, EnterInv DEF Destroy, Exclusive
  <2>2. CASE refers[h] = Null
    BY <1>3, <2>2, NullInv, NamesAssumption DEF Destroy
  <2> QED
    BY <1>3, <2>1, <2>2 DEF Destroy
<1>4. ASSUME NEW from \in Handles \ {h}, Move(t, h, from)
      PROVE  IInv'
  BY <1>4, MoveInv
<1>5. ASSUME NEW from \in Handles \ {h}, Copy(t, h, from)
      PROVE  IInv'
  <2>1. CASE refers[from] \in Objects /\ Enter(t, "inc", h, from, refers[from], Null)
    BY <1>5, <2>1, EnterInv DEF Copy
  <2>2. CASE refers[from] = Null
    BY <1>5, <2>2, NullInv, NamesAssumption DEF Copy
  <2> QED
    BY <1>5, <2>1, <2>2 DEF Copy
<1>6. ASSUME NEW from \in Handles \ {h}, Assign(t, h, from)
      PROVE  IInv'
  BY <1>6, EnterInv, NamesAssumption DEF Assign
<1> QED
  BY <1>1, <1>2, <1>3, <1>4, <1>5, <1>6

\* The lock is taken when nobody has it.
LEMMA LockInv ==
  ASSUME IInv, NEW t \in Threads, Lock(t)
  PROVE  IInv'
<1>1. /\ Active(t) /\ op[t].o \in Objects /\ LockOf[op[t].o] \in Locks
  BY OperationFields, LocksAssumption DEF IInv, Lock, Active
<1>2. TypeOK'
  BY <1>1 DEF IInv, TypeOK, Lock, Pcs
<1>3. \A u \in Threads \ {t} : pc'[u] = pc[u]
  BY DEF IInv, TypeOK, Lock
<1>4. pc[t] = "lock" /\ pc'[t] = "read"
  BY DEF IInv, TypeOK, Lock
<1>5. \A u \in Threads : (Active(u)' <=> Active(u)) /\ (Counting(u)' <=> Counting(u))
  BY <1>3, <1>4 DEF Active, Counting
<1>6. Locked'
  <2> SUFFICES ASSUME NEW u \in Threads, pc'[u] \in {"read", "write", "unlock"}
               PROVE  lock'[LockOf[op[u].o]] = u
    BY DEF Locked, Lock
  <2>1. CASE u = t
    BY <2>1, <1>1 DEF IInv, TypeOK, Lock
  <2>2. CASE u # t
    <3>1. lock[LockOf[op[u].o]] = u
      BY <2>2, <1>3 DEF IInv, Locked
    <3>2. LockOf[op[u].o] # LockOf[op[t].o]
      BY <3>1, NamesAssumption DEF Lock
    <3> QED
      BY <3>1, <3>2, <1>1 DEF IInv, TypeOK, Lock
  <2> QED
    BY <2>1, <2>2
<1>7. Fresh'
  BY <1>3, <1>4 DEF IInv, Fresh, Lock
<1>8. Pinned'
  BY <1>3, <1>4, <1>5 DEF IInv, Pinned, Lock
<1>9. Apart'
  BY <1>5 DEF IInv, Apart, Lock
<1>10. \A u \in Threads : \A o : Deleting(u, o)' <=> Deleting(u, o)
  BY <1>3, <1>4 DEF Deleting, Lock
<1>11. Alone'
  BY <1>5, <1>10 DEF IInv, Alone, Lock
<1>12. AllLive' /\ CountsArePointers'
  BY <1>10 DEF IInv, AllLive, CountsArePointers, Referring, Lock
<1> QED
  BY <1>2, <1>6, <1>7, <1>8, <1>9, <1>11, <1>12 DEF IInv

\* Under the lock, what is read is the count.
LEMMA ReadInv ==
  ASSUME IInv, NEW t \in Threads, Read(t)
  PROVE  IInv'
<1>1. Active(t) /\ op[t].o \in Objects
  BY OperationFields DEF IInv, Read, Active
<1>2. op'[t] = [op[t] EXCEPT !.c = count[op[t].o]] /\ op'[t] \in Operation
  <2>1. op[t] \in Operation /\ count[op[t].o] \in Int
    BY <1>1, OperationFields DEF IInv, TypeOK
  <2>2. op'[t] = [op[t] EXCEPT !.c = count[op[t].o]]
    BY DEF IInv, TypeOK, Read
  <2> QED
    BY <2>1, <2>2 DEF Operation
<1>3. /\ op'[t].do = op[t].do /\ op'[t].h = op[t].h /\ op'[t].from = op[t].from
      /\ op'[t].o = op[t].o /\ op'[t].then = op[t].then /\ op'[t].c = count[op[t].o]
  BY <1>1, <1>2, OperationFields DEF IInv, Operation
<1>4. \A u \in Threads \ {t} : pc'[u] = pc[u] /\ op'[u] = op[u]
  BY DEF IInv, TypeOK, Read
<1>5. pc[t] = "read" /\ pc'[t] = "write"
  BY DEF IInv, TypeOK, Read
<1>6. TypeOK'
  <2>1. op' \in [Threads -> Operation \cup {NoOperation}] /\ pc' \in [Threads -> Pcs]
    BY <1>2 DEF IInv, TypeOK, Read, Pcs
  <2>2. op'[t] # NoOperation
    BY <1>2 DEF Operation, NoOperation
  <2> QED
    BY <2>1, <2>2, <1>4, <1>5 DEF IInv, TypeOK, Read
<1>7. \A u \in Threads : (Active(u)' <=> Active(u)) /\ (Counting(u)' <=> Counting(u))
  BY <1>4, <1>5 DEF Active, Counting
<1>8. Locked' /\ Fresh'
  BY <1>3, <1>4, <1>5 DEF IInv, Locked, Fresh, Read
<1>9. Pinned'
  <2> SUFFICES ASSUME NEW u \in Threads, Active(u)'
               PROVE  Pinned!(u)'
    BY DEF Pinned
  <2>1. Pinned!(u)
    BY <1>7 DEF IInv, Pinned
  <2>2. CASE u = t
    BY <2>1, <2>2, <1>3, <1>5, <1>7 DEF Read
  <2>3. CASE u # t
    BY <2>1, <2>3, <1>4, <1>7 DEF Read
  <2> QED
    BY <2>2, <2>3
<1>10. Apart'
  BY <1>3, <1>4, <1>7 DEF IInv, Apart
<1>11. \A u \in Threads : \A o : Deleting(u, o)' <=> Deleting(u, o)
  BY <1>3, <1>4, <1>5 DEF Deleting
<1>12. Alone'
  BY <1>7, <1>11 DEF IInv, Alone, Read
<1>13. AllLive' /\ CountsArePointers'
  BY <1>11 DEF IInv, AllLive, CountsArePointers, Referring, Read
<1> QED
  BY <1>6, <1>8, <1>9, <1>10, <1>12, <1>13 DEF IInv

\* The lock keeps the count from changing between Read and Write, so it goes up
\* or down by one together with the number of pointers; the thread that takes
\* it to zero has made the last of them refer to nothing.
LEMMA WriteInv ==
  ASSUME IInv, NEW t \in Threads, Write(t)
  PROVE  IInv'
<1>a. /\ Active(t) /\ Counting(t) /\ op[t].o \in Objects /\ op[t].h \in Handles
      /\ op[t].from \in Handles /\ op[t].c \in Int /\ op[t].do \in {"inc", "dec"}
  BY OperationFields DEF IInv, Write, Active, Counting
<1>b. PICK o \in Objects, h \in Handles : o = op[t].o /\ h = op[t].h
  BY <1>a
<1>c. PICK c \in Int : c = IF op[t].do = "inc" THEN op[t].c + 1 ELSE op[t].c - 1
  BY <1>a
<1>d. PICK p \in Objects \cup {Unmade} : p = IF op[t].do = "inc" THEN o ELSE Unmade
  OBVIOUS
<1>1. /\ Active(t) /\ Counting(t) /\ op[t].do \in {"inc", "dec"}
      /\ op[t].from \in Handles /\ op[t].c \in Int
      /\ op[t].o = o /\ op[t].h = h
      /\ op[t].do = "inc" => c = op[t].c + 1 /\ p = o
      /\ op[t].do = "dec" => c = op[t].c - 1 /\ p = Unmade
  BY <1>a, <1>b, <1>c, <1>d
<1>2. /\ pc[t] = "write" /\ pc' = [pc EXCEPT ![t] = "unlock"]
      /\ refers' = [refers EXCEPT ![h] = p] /\ count' = [count EXCEPT ![o] = c]
      /\ op' = [op EXCEPT ![t].c = c] /\ live' = live /\ lock' = lock
  BY <1>b, <1>c, <1>d DEF Write
<1>3. op'[t] = [op[t] EXCEPT !.c = c] /\ op'[t] \in Operation
  <2>1. op[t] \in Operation /\ c \in Int
    BY <1>1, OperationFields DEF IInv
  <2>2. op'[t] = [op[t] EXCEPT !.c = c]
    BY <1>2 DEF IInv, TypeOK
  <2> QED
    BY <2>1, <2>2 DEF Operation
<1>4. /\ op'[t].do = op[t].do /\ op'[t].h = h /\ op'[t].from = op[t].from
      /\ op'[t].o = o /\ op'[t].then = op[t].then /\ op'[t].c = c
  BY <1>1, <1>3, OperationFields DEF IInv, Operation
<1>5. \A u \in Threads \ {t} : pc'[u] = pc[u] /\ op'[u] = op[u]
  BY <1>2 DEF IInv, TypeOK
<1>6. pc'[t] = "unlock"
  BY <1>2 DEF IInv, TypeOK
<1>7. \A u \in Threads : Active(u)' <=> Active(u)
  BY <1>2, <1>5, <1>6 DEF Active
<1>8. TypeOK'
  <2>1. op' \in [Threads -> Operation \cup {NoOperation}] /\ pc' \in [Threads -> Pcs]
    BY <1>2, <1>3 DEF IInv, TypeOK, Pcs
  <2>2. op'[t] # NoOperation
    BY <1>3 DEF Operation, NoOperation
  <2>3. refers' \in [Handles -> Objects \cup {Null, Unmade}] /\ count' \in [Objects -> Int]
    BY <1>1, <1>2 DEF IInv, TypeOK
  <2> QED
    BY <1>2, <1>5, <1>6, <2>1, <2>2, <2>3 DEF IInv, TypeOK
<1>9. /\ op[t].do = "dec" => refers[h] = o
      /\ op[t].do = "inc" => refers[h] = Unmade /\ refers[op[t].from] = o
  BY <1>1 DEF IInv, Pinned
<1>10. \E g \in Handles : refers[g] = o
  BY <1>1, <1>9
<1>11. o \in live
  BY <1>1, <1>10 DEF IInv, AllLive
<1>12. op[t].c = count[o]
  BY <1>1, <1>2 DEF IInv, Fresh
<1>13. \A u \in Threads \ {t} : Active(u) => op[u].h # h /\ op[u].from # h
  BY <1>1 DEF IInv, Apart
<1>14. \A g \in Handles \ {h} : refers'[g] = refers[g]
  BY <1>2 DEF IInv, TypeOK
<1>15. refers'[h] = p
  BY <1>1, <1>2 DEF IInv, TypeOK
<1>16. Locked'
  BY <1>2, <1>4, <1>5, <1>6 DEF IInv, Locked
<1>17. Fresh'
  <2> SUFFICES ASSUME NEW u \in Threads, pc'[u] = "write"
               PROVE  op'[u].c = count'[op'[u].o]
    BY DEF Fresh
  <2>1. u # t /\ pc[u] = "write" /\ op'[u] = op[u]
    BY <1>5, <1>6
  <2>2. lock[LockOf[op[u].o]] = u /\ lock[LockOf[o]] = t
    BY <1>1, <1>2, <2>1 DEF IInv, Locked
  <2>3. op[u].o # o
    BY <2>1, <2>2
  <2>4. op[u].o \in Objects
    BY <2>1, OperationFields DEF IInv, Active
  <2> QED
    BY <1>2, <2>1, <2>3, <2>4 DEF IInv, TypeOK, Fresh
<1>18. Pinned'
  <2> SUFFICES ASSUME NEW u \in Threads, Active(u)'
               PROVE  Pinned!(u)'
    BY DEF Pinned
  <2>1. Pinned!(u) /\ op[u].h \in Handles /\ op[u].from \in Handles
    BY <1>7, OperationFields DEF IInv, Pinned
  <2>2. CASE u = t
    BY <2>1, <2>2, <1>1, <1>4, <1>6, <1>14, <1>15 DEF Counting
  <2>3. CASE u # t
    BY <2>1, <2>3, <1>5, <1>7, <1>13, <1>14 DEF Counting
  <2> QED
    BY <2>2, <2>3
<1>19. Apart'
  BY <1>1, <1>4, <1>5, <1>7 DEF IInv, Apart
<1>20. count'[o] = Cardinality(Referring(o)')
  <2>1. IsFiniteSet(Referring(o)) /\ count[o] = Cardinality(Referring(o))
    BY <1>11, FiniteReferring DEF IInv, CountsArePointers
  <2>2. Cardinality(Referring(o)) \in Nat
    BY <2>1, FS_CardinalityType
  <2>3. CASE op[t].do = "inc"
    <3>1. h \notin Referring(o) /\ Referring(o)' = Referring(o) \cup {h}
      BY <1>1, <1>9, <1>14, <1>15, <2>3, NamesAssumption DEF Referring
    <3>2. Cardinality(Referring(o) \cup {h}) = Cardinality(Referring(o)) + 1
      BY <2>1, <3>1, FS_AddElement
    <3> QED
      BY <1>1, <1>2, <1>12, <2>1, <2>3, <3>1, <3>2 DEF IInv, TypeOK
  <2>4. CASE op[t].do = "dec"
    <3>1. h \in Referring(o) /\ Referring(o)' = Referring(o) \ {h}
      BY <1>1, <1>9, <1>14, <1>15, <2>4, NamesAssumption DEF Referring
    <3>2. Cardinality(Referring(o) \ {h}) = Cardinality(Referring(o)) - 1
      BY <2>1, <3>1, FS_RemoveElement
    <3> QED
      BY <1>1, <1>2, <1>12, <2>1, <2>4, <3>1, <3>2 DEF IInv, TypeOK
  <2> QED
    BY <1>1, <2>3, <2>4
<1>21. count'[o] = c
  BY <1>1, <1>2 DEF IInv, TypeOK
<1>22. c = 0 <=> Referring(o)' = {}
  <2>1. Referring(o)' \in SUBSET Handles
    BY DEF Referring
  <2>2. IsFiniteSet(Referring(o)')
    BY <2>1, HandlesAssumption, FS_Subset
  <2> QED
    BY <1>20, <1>21, <2>2, FS_EmptySet
<1>23. \A q \in Objects \ {o} : Referring(q)' = Referring(q) /\ count'[q] = count[q]
  <2>1. ASSUME NEW q \in Objects \ {o}
        PROVE  Referring(q)' = Referring(q)
    BY <1>1, <1>9, <1>14, <1>15, NamesAssumption DEF Referring
  <2> QED
    BY <1>2, <2>1 DEF IInv, TypeOK
<1>24. \A u \in Threads : \A q : Deleting(u, q) => u # t
  BY <1>2 DEF Deleting
<1>25. \A u \in Threads \ {t} : \A q : Deleting(u, q)' <=> Deleting(u, q)
  BY <1>5 DEF Deleting
<1>26. \A q : Deleting(t, q)' <=> op[t].do = "dec" /\ q = o /\ c = 0
  BY <1>4, <1>6 DEF Deleting
<1>27. \A u \in Threads : Active(u) => ~Deleting(u, o)
  BY <1>1, <1>10 DEF IInv, Alone
<1>28. Alone'
  <2> SUFFICES ASSUME NEW u \in Threads, NEW q \in Objects, Active(u)', Deleting(u, q)'
               PROVE  /\ q \in live'
                      /\ \A g \in Handles : refers'[g] # q
                      /\ \A v \in Threads \ {u} : Active(v)' => ~Deleting(v, q)'
    BY DEF Alone
  <2>1. CASE u = t
    <3>1. q = o /\ Referring(o)' = {}
      BY <2>1, <1>22, <1>26
    <3> QED
      BY <2>1, <3>1, <1>2, <1>7, <1>11, <1>25, <1>27 DEF Referring
  <2>2. CASE u # t
    <3>1. Active(u) /\ Deleting(u, q) /\ q # o
      BY <2>2, <1>7, <1>25, <1>27
    <3>2. /\ q \in live /\ Referring(q) = {}
          /\ \A v \in Threads \ {u} : Active(v) => ~Deleting(v, q)
      BY <3>1 DEF IInv, Alone, Referring
    <3>3. Referring(q)' = {}
      BY <3>1, <3>2, <1>23
    <3> QED
      BY <3>1, <3>2, <3>3, <1>2, <1>7, <1>25, <1>26 DEF Referring
  <2> QED
    BY <2>1, <2>2
<1>29. AllLive'
  BY <1>1, <1>2, <1>11, <1>14, <1>15, NamesAssumption DEF IInv, AllLive
<1>30. CountsArePointers'
  <2> SUFFICES ASSUME NEW q \in live
               PROVE  /\ count'[q] = Cardinality(Referring(q)')
                      /\ Referring(q)' = {} => \E u \in Threads : Deleting(u, q)'
    BY <1>2 DEF CountsArePointers
  <2>1. CASE q = o
    <3>1. ASSUME Referring(o)' = {}
          PROVE  Deleting(t, o)'
      <4>1. c = 0 /\ op[t].do = "dec"
        BY <3>1, <1>1, <1>15, <1>22 DEF Referring
      <4> QED
        BY <4>1, <1>26
    <3> QED
      BY <2>1, <3>1, <1>20
  <2>2. CASE q # o
    BY <2>2, <1>23, <1>24, <1>25 DEF IInv, TypeOK, CountsArePointers
  <2> QED
    BY <2>1, <2>2
<1> QED
  BY <1>8, <1>16, <1>17, <1>18, <1>19, <1>28, <1>29, <1>30 DEF IInv

\* A thread that is done with its first object ends its operation, or goes on
\* to the object it assigns, which the pointer it copies still refers to.
LEMMA ProceedEffect ==
  ASSUME IInv, NEW t \in Threads, pc[t] \in {"unlock", "free"}, Proceed(t),
         refers' = refers
  PROVE  /\ pc' \in [Threads -> Pcs] /\ op' \in [Threads -> Operation \cup {NoOperation}]
         /\ \A u \in Threads : op'[u] = NoOperation <=> pc'[u] = "idle"
         /\ \A u \in Threads \ {t} : pc'[u] = pc[u] /\ op'[u] = op[u]
         /\ pc'[t] \in {"idle", "lock"}
         /\ Pinned' /\ Apart'
<1>1. /\ Active(t) /\ ~Counting(t) /\ op[t] \in Operation
      /\ op[t].do \in {"inc", "dec"} /\ op[t].h \in Handles /\ op[t].from \in Handles
      /\ op[t].o \in Objects /\ op[t].then \in Objects \cup {Null} /\ op[t].c \in Int
  BY OperationFields DEF IInv, Active, Counting
<1>2. CASE ~(op[t].do = "dec" /\ op[t].then # Null)
  <2>1. /\ pc' = [pc EXCEPT ![t] = "idle"]
        /\ op' = [op EXCEPT ![t] = NoOperation]
    BY <1>2 DEF Proceed
  <2>2. \A u \in Threads \ {t} : pc'[u] = pc[u] /\ op'[u] = op[u]
    BY <2>1 DEF IInv, TypeOK
  <2>3. pc'[t] = "idle" /\ op'[t] = NoOperation
    BY <2>1 DEF IInv, TypeOK
  <2>4. pc' \in [Threads -> Pcs] /\ op' \in [Threads -> Operation \cup {NoOperation}]
    BY <2>1 DEF IInv, TypeOK, Pcs
  <2>5. \A u \in Threads : op'[u] = NoOperation <=> pc'[u] = "idle"
    BY <2>2, <2>3 DEF IInv, TypeOK
  <2>6. Pinned'
    BY <2>2, <2>3 DEF IInv, Pinned, Active, Counting
  <2>7. Apart'
    BY <2>2, <2>3 DEF IInv, Apart, Active
  <2> QED
    BY <2>2, <2>3, <2>4, <2>5, <2>6, <2>7
<1>3. CASE op[t].do = "dec" /\ op[t].then # Null
  <2>1. /\ pc' = [pc EXCEPT ![t] = "lock"]
        /\ op' = [op EXCEPT ![t].do = "inc", ![t].o = op[t].then, ![t].then = Null]
    BY <1>3 DEF Proceed
  <2>2. \A u \in Threads \ {t} : pc'[u] = pc[u] /\ op'[u] = op[u]
    BY <2>1 DEF IInv, TypeOK
  <2>3. op'[t] = [op[t] EXCEPT !.do = "inc", !.o = op[t].then, !.then = Null]
    BY <2>1 DEF IInv, TypeOK
  <2>4. op'[t] \in Operation
    BY <1>1, <1>3, <2>3 DEF Operation
  <2>5. /\ op'[t].do = "inc" /\ op'[t].o = op[t].then /\ op'[t].then = Null
        /\ op'[t].h = op[t].h /\ op'[t].from = op[t].from
    BY <1>1, <2>3 DEF Operation
  <2>6. pc'[t] = "lock" /\ op'[t] # NoOperation
    BY <2>1, <2>4 DEF IInv, TypeOK, Operation, NoOperation
  <2>7. pc' \in [Threads -> Pcs] /\ op' \in [Threads -> Operation \cup {NoOperation}]
    BY <2>1, <2>4, <2>3 DEF IInv, TypeOK, Pcs
  <2>8. \A u \in Threads : op'[u] = NoOperation <=> pc'[u] = "idle"
    BY <2>2, <2>6 DEF IInv, TypeOK
  <2>9. \A u \in Threads : Active(u)' <=> Active(u)
    BY <1>1, <2>2, <2>6 DEF Active
  <2>10. Pinned'
    <3> SUFFICES ASSUME NEW u \in Threads, Active(u)'
                 PROVE  Pinned!(u)'
      BY DEF Pinned
    <3>1. Pinned!(u)
      BY <2>9 DEF IInv, Pinned
    <3>2. CASE u = t
      BY <3>1, <3>2, <1>1, <1>3, <2>5, <2>6
    <3>3. CASE u # t
      BY <3>1, <3>3, <2>2, <2>9 DEF Counting
    <3> QED
      BY <3>2, <3>3
  <2>11. Apart'
    BY <2>2, <2>5, <2>9 DEF IInv, Apart
  <2> QED
    BY <2>2, <2>6, <2>7, <2>8, <2>10, <2>11
<1> QED
  BY <1>2, <1>3

\* The thread that read zero goes on to delete; no other changes its course.
LEMMA UnlockInv ==
  ASSUME IInv, NEW t \in Threads, Unlock(t)
  PROVE  IInv'
<1>1. /\ Active(t) /\ op[t].o \in Objects /\ LockOf[op[t].o] \in Locks
      /\ pc[t] = "unlock" /\ lock' = [lock EXCEPT ![LockOf[op[t].o]] = NoThread]
      /\ refers' = refers /\ live' = live /\ count' = count
  BY OperationFields, LocksAssumption DEF IInv, Unlock, Active
<1>2. lock' \in [Locks -> Threads \cup {NoThread}]
  BY <1>1 DEF IInv, TypeOK
<1>3. \A u \in Threads \ {t} : pc[u] \in {"read", "write", "unlock"} =>
          lock'[LockOf[op[u].o]] = u
  <2> SUFFICES ASSUME NEW u \in Threads \ {t}, pc[u] \in {"read", "write", "unlock"}
               PROVE  lock'[LockOf[op[u].o]] = u
    OBVIOUS
  <2>1. lock[LockOf[op[u].o]] = u /\ lock[LockOf[op[t].o]] = t
    BY <1>1 DEF IInv, Locked
  <2>2. op[u].o \in Objects
    BY OperationFields DEF IInv, Active
  <2>3. LockOf[op[u].o] # LockOf[op[t].o] /\ LockOf[op[u].o] \in Locks
    BY <2>1, <2>2, LocksAssumption
  <2> QED
    BY <1>1, <2>1, <2>3 DEF IInv, TypeOK
<1>4. CASE op[t].do = "dec" /\ op[t].c = 0
  <2>1. pc' = [pc EXCEPT ![t] = "free"] /\ op' = op
    BY <1>4 DEF Unlock
  <2>2. /\ \A u \in Threads \ {t} : pc'[u] = pc[u]
        /\ pc'[t] = "free"
    BY <2>1 DEF IInv, TypeOK
  <2>3. TypeOK'
    BY <1>1, <1>2, <2>1, <2>2 DEF IInv, TypeOK, Pcs
  <2>4. \A u \in Threads : (Active(u)' <=> Active(u)) /\ (Counting(u)' <=> Counting(u))
    BY <1>1, <2>2 DEF Active, Counting
  <2>5. \A u \in Threads : \A o : Deleting(u, o)' <=> Deleting(u, o)
    BY <1>1, <1>4, <2>1, <2>2 DEF Deleting
  <2>6. Locked' /\ Fresh'
    BY <1>1, <1>3, <2>1, <2>2 DEF IInv, Locked, Fresh
  <2>7. Pinned'
    BY <1>1, <1>4, <2>1, <2>2, <2>4 DEF IInv, Pinned
  <2>8. Apart' /\ Alone'
    BY <1>1, <2>1, <2>4, <2>5 DEF IInv, Apart, Alone
  <2>9. AllLive' /\ CountsArePointers'
    BY <1>1, <2>5 DEF IInv, AllLive, CountsArePointers, Referring
  <2> QED
    BY <2>3, <2>6, <2>7, <2>8, <2>9 DEF IInv
<1>5. CASE ~(op[t].do = "dec" /\ op[t].c = 0)
  <2>1. Proceed(t)
    BY <1>5 DEF Unlock
  <2>2. /\ pc' \in [Threads -> Pcs] /\ op' \in [Threads -> Operation \cup {NoOperation}]
        /\ \A u \in Threads : op'[u] = NoOperation <=> pc'[u] = "idle"
        /\ \A u \in Threads \ {t} : pc'[u] = pc[u] /\ op'[u] = op[u]
        /\ pc'[t] \in {"idle", "lock"}
        /\ Pinned' /\ Apart'
    BY <1>1, <2>1, ProceedEffect
  <2>3. TypeOK'
    BY <1>1, <1>2, <2>2 DEF IInv, TypeOK
  <2>4. Locked' /\ Fresh'
    BY <1>1, <1>3, <2>2 DEF IInv, Locked, Fresh
  <2>5. \A u \in Threads : \A o : Deleting(u, o)' <=> Deleting(u, o)
    BY <1>1, <1>5, <2>2 DEF Deleting
  <2>6. \A u \in Threads : \A o : Active(u) /\ Deleting(u, o) <=> Active(u)' /\ Deleting(u, o)'
    BY <1>1, <1>5, <2>2, <2>5 DEF Active, Deleting
  <2>7. Alone'
    BY <1>1, <2>6 DEF IInv, Alone
  <2>8. AllLive' /\ CountsArePointers'
    BY <1>1, <2>5 DEF IInv, AllLive, CountsArePointers, Referring
  <2> QED
    BY <2>2, <2>3, <2>4, <2>7, <2>8 DEF IInv
<1> QED
  BY <1>4, <1>5

\* What is deleted is referred to by no pointer, and is nobody else's to delete.
LEMMA FreeInv ==
  ASSUME IInv, NEW t \in Threads, Free(t)
  PROVE  IInv'
<1>1. PICK o \in Objects : o = op[t].o
  BY OperationFields DEF IInv, Free, Active
<1>2. /\ Active(t) /\ pc[t] = "free" /\ live' = live \ {o} /\ Proceed(t)
      /\ refers' = refers /\ count' = count /\ lock' = lock
  BY <1>1 DEF Free, Active
<1>3. Deleting(t, o)
  BY <1>1, <1>2 DEF IInv, Pinned, Deleting
<1>4. /\ \A h \in Handles : refers[h] # o
      /\ \A u \in Threads \ {t} : Active(u) => ~Deleting(u, o)
  BY <1>2, <1>3 DEF IInv, Alone
<1>5. /\ pc' \in [Threads -> Pcs] /\ op' \in [Threads -> Operation \cup {NoOperation}]
      /\ \A u \in Threads : op'[u] = NoOperation <=> pc'[u] = "idle"
      /\ \A u \in Threads \ {t} : pc'[u] = pc[u] /\ op'[u] = op[u]
      /\ pc'[t] \in {"idle", "lock"}
      /\ Pinned' /\ Apart'
  BY <1>2, ProceedEffect
<1>6. TypeOK'
  BY <1>2, <1>5 DEF IInv, TypeOK
<1>7. Locked' /\ Fresh'
  BY <1>2, <1>5 DEF IInv, Locked, Fresh
<1>8. /\ \A u \in Threads \ {t} : \A q : Deleting(u, q)' <=> Deleting(u, q)
      /\ \A q : ~Deleting(t, q)'
  BY <1>5 DEF Deleting
<1>9. \A u \in Threads \ {t} : Active(u)' <=> Active(u)
  BY <1>5 DEF Active
<1>10. Alone'
  <2> SUFFICES ASSUME NEW u \in Threads, NEW q \in Objects, Active(u)', Deleting(u, q)'
               PROVE  /\ q \in live'
                      /\ \A g \in Handles : refers'[g] # q
                      /\ \A v \in Threads \ {u} : Active(v)' => ~Deleting(v, q)'
    BY DEF Alone
  <2>1. u # t /\ Active(u) /\ Deleting(u, q)
    BY <1>8, <1>9
  <2>2. q # o
    BY <2>1, <1>4
  <2> QED
    BY <2>1, <2>2, <1>2, <1>8, <1>9 DEF IInv, Alone
<1>11. AllLive'
  BY <1>2, <1>4 DEF IInv, AllLive
<1>12. CountsArePointers'
  <2> SUFFICES ASSUME NEW q \in live \ {o}
               PROVE  /\ count'[q] = Cardinality(Referring(q)')
                      /\ Referring(q)' = {} => \E u \in Threads : Deleting(u, q)'
    BY <1>2 DEF CountsArePointers
  <2>1. Referring(q)' = Referring(q) /\ ~Deleting(t, q)
    BY <1>1, <1>2 DEF Referring, Deleting
  <2> QED
    BY <2>1, <1>2, <1>8 DEF IInv, CountsArePointers
<1> QED
  BY <1>5, <1>6, <1>7, <1>10, <1>11, <1>12 DEF IInv

-----------------------------------------------------------------------------
\* No step of any thread breaks the invariant.
LEMMA NextInv == IInv /\ [Next]_vars => IInv'
<1> SUFFICES ASSUME IInv, [Next]_vars PROVE IInv'
  OBVIOUS
<1>1. CASE UNCHANGED vars
  <2>1. TypeOK' /\ Locked' /\ Fresh' /\ AllLive'
    BY <1>1 DEF vars, IInv, TypeOK, Locked, Fresh, AllLive
  <2>2. Pinned' /\ Apart'
    BY <1>1 DEF vars, IInv, Pinned, Apart, Active, Counting
  <2>3. Alone' /\ CountsArePointers'
    BY <1>1 DEF vars, IInv, Alone, CountsArePointers, Active, Deleting, Referring
  <2> QED
    BY <2>1, <2>2, <2>3 DEF IInv
<1>2. ASSUME NEW t \in Threads, Start(t)
      PROVE  IInv'
  BY <1>2, StartInv
<1>3. ASSUME NEW t \in Threads, Step(t)
      PROVE  IInv'
  BY <1>3, LockInv, ReadInv, WriteInv, UnlockInv, FreeInv DEF Step
<1> QED
  BY <1>1, <1>2, <1>3 DEF Next

\* What holds of light_ptr at every moment: the locks, the counts, and which
\* thread is responsible for what.
THEOREM Inductive == Spec => []IInv
<1> QED
  BY InitInv, NextInv, PTL DEF Spec

\* Every variable keeps its type (the pointers, counts and locks of light_ptr).
THEOREM TypeCorrect == Spec => []TypeOK
<1>1. IInv => TypeOK
  BY DEF IInv
<1> QED
  BY <1>1, Inductive, PTL

\* The count of a live object is the number of pointers to it at every moment,
\* and one to which none refers has a thread that deletes it.
THEOREM Counted == Spec => []CountsArePointers
<1>1. IInv => CountsArePointers
  BY DEF IInv
<1> QED
  BY <1>1, Inductive, PTL

\* No thread reads, writes or deletes what has been deleted, and no pointer is
\* left dangling.
THEOREM Safe == Spec => []NoUseAfterFree
<1>1. IInv => NoUseAfterFree
  <2> SUFFICES ASSUME IInv, NEW t \in Threads, pc[t] \in {"read", "write", "free"}
               PROVE  op[t].o \in live
    BY DEF NoUseAfterFree, IInv, AllLive
  <2>1. /\ Active(t) /\ op[t].do \in {"inc", "dec"} /\ op[t].o \in Objects
        /\ op[t].h \in Handles /\ op[t].from \in Handles
    BY OperationFields DEF IInv, Active
  <2>2. CASE pc[t] = "free"
    BY <2>1, <2>2 DEF IInv, Pinned, Alone, Deleting
  <2>3. CASE pc[t] \in {"read", "write"}
    BY <2>1, <2>3 DEF IInv, Pinned, AllLive, Counting
  <2> QED
    BY <2>2, <2>3
<1> QED
  BY <1>1, Inductive, PTL

=============================================================================
