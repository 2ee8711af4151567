----------------------------- MODULE SyncProofs -----------------------------
(***************************************************************************)
(* Theorems about Sync, for any sets of threads and objects and any number *)
(* of threads that destroy objects. The inductive invariant has three      *)
(* layers: what the calls in progress look like (ShapeInv), who counts as  *)
(* a user of an object (RefInv), and how the books of the module and the   *)
(* primitives agree (BooksInv).                                             *)
(***************************************************************************)
EXTENDS Sync, FiniteSetTheorems, TLAPS

LockPcs == {"locking", "locked", "gaveUp"}
WaitPcs == {"toSleep", "asleep", "relock", "relocked"}

(* TypeOK without the ranges of the counters.                              *)
Shape ==
    /\ life \in [Objects -> {"none", "alive", "freed"}]
    /\ refs \in [Objects -> Int]
    /\ owner \in [Locks -> Threads \cup {None}]
    /\ count \in [RecursiveMutexes -> Int]
    /\ holder \in [Locks -> Threads \cup {None}]
    /\ depth \in [Locks -> Int]
    /\ sleepers \in [Conds -> SUBSET Threads]
    /\ pc \in [Threads -> Pcs]
    /\ lock \in [Threads -> Locks \cup {None}]
    /\ cond \in [Threads -> Conds \cup {None}]
    /\ target \in [Threads -> Objects \cup {None}]

(* A thread inside a call has the call's objects, and only then.           *)
Calls ==
    \A t \in Threads :
        /\ pc[t] \in LockPcs => lock[t] \in Locks /\ cond[t] = None
        /\ pc[t] \in WaitPcs => lock[t] \in Mutexes /\ cond[t] \in Conds
        /\ pc[t] \in {"idle", "destroying"} => lock[t] = None /\ cond[t] = None
        /\ pc[t] = "destroying" => target[t] \in Objects

(* A thread on a condition is one that waits for it.                       *)
Sleeping ==
    \A c \in Conds : \A s \in sleepers[c] : pc[s] = "asleep" /\ cond[s] = c

ShapeInv == Shape /\ Calls /\ Sleeping

LEMMA InitShape == Init => ShapeInv
<1> SUFFICES ASSUME Init PROVE ShapeInv
  OBVIOUS
<1>1. Shape
  BY DEF Init, Shape, Pcs
<1>2. Calls /\ Sleeping
  BY DEF Init, Calls, Sleeping, LockPcs, WaitPcs
<1> QED
  BY <1>1, <1>2 DEF ShapeInv

(* The steps of Util_sync_lock and Util_sync_unlock, and the creation.     *)
LEMMA LockShape ==
    ASSUME ShapeInv, NEW t \in Threads,
           \/ \E o \in Objects : Create(t, o)
           \/ \E m \in Locks : LockEnter(t, m) \/ Unlock(t, m)
           \/ LockStep(t)
    PROVE  ShapeInv'
<1> USE DEF objectVars, primitiveVars, threadVars, Locks, Objects
<1>1. ASSUME NEW o \in Objects, Create(t, o) PROVE ShapeInv'
  BY <1>1 DEF ShapeInv, Create, Shape, Calls, Sleeping
<1>2. ASSUME NEW m \in Locks, LockEnter(t, m) PROVE ShapeInv'
  <2>1. Shape'
    BY <1>2 DEF ShapeInv, LockEnter, Goto, Shape, Pcs
  <2>2. Calls'
    BY <1>2 DEF ShapeInv, LockEnter, Goto, Shape, Calls, LockPcs, WaitPcs
  <2>3. Sleeping'
    BY <1>2 DEF ShapeInv, LockEnter, Goto, Shape, Sleeping
  <2> QED
    BY <2>1, <2>2, <2>3 DEF ShapeInv
<1>3. ASSUME NEW m \in Locks, Unlock(t, m) PROVE ShapeInv'
  <2>1. Shape'
    BY <1>3 DEF ShapeInv, Unlock, DropPrimitive, Shape
  <2> QED
    BY <1>3, <2>1 DEF ShapeInv, Unlock, Calls, Sleeping
<1>4. ASSUME LockStep(t) PROVE ShapeInv'
  <2>1. lock[t] \in Locks
    BY <1>4 DEF LockStep, LockAcquire, LockGiveUp, LockDone, LockFailed, ShapeInv, Calls, LockPcs
  <2>2. Shape'
    BY <1>4, <2>1 DEF LockStep, LockAcquire, LockGiveUp, LockDone, LockFailed, TakePrimitive, Goto,
                      ShapeInv, Shape, Pcs
  <2>3. Calls'
    BY <1>4 DEF LockStep, LockAcquire, LockGiveUp, LockDone, LockFailed, Goto,
                ShapeInv, Shape, Calls, LockPcs, WaitPcs
  <2>4. Sleeping'
    BY <1>4 DEF LockStep, LockAcquire, LockGiveUp, LockDone, LockFailed, TakePrimitive, Goto,
                ShapeInv, Shape, Sleeping
  <2> QED
    BY <2>2, <2>3, <2>4 DEF ShapeInv
<1> QED
  BY <1>1, <1>2, <1>3, <1>4

(* The steps of Util_sync_cond_wait and Util_sync_cond_signal.             *)
LEMMA WaitShape ==
    ASSUME ShapeInv, NEW t \in Threads,
           \/ \E c \in Conds, m \in Mutexes : WaitEnter(t, c, m) \/ WaitWrongOwner(t, c, m)
           \/ WaitStep(t)
           \/ \E c \in Conds : Signal(t, c) \/ Broadcast(t, c)
    PROVE  ShapeInv'
<1> USE DEF objectVars, primitiveVars, threadVars, Locks, Objects
<1>1. ASSUME NEW c \in Conds, NEW m \in Mutexes, WaitEnter(t, c, m) PROVE ShapeInv'
  <2>1. Shape'
    BY <1>1 DEF ShapeInv, WaitEnter, MayWait, CountBoth, Goto, Shape, Pcs
  <2>2. Calls'
    BY <1>1 DEF ShapeInv, WaitEnter, MayWait, Goto, Shape, Calls, LockPcs, WaitPcs
  <2>3. Sleeping'
    BY <1>1 DEF ShapeInv, WaitEnter, MayWait, Goto, Shape, Sleeping
  <2> QED
    BY <2>1, <2>2, <2>3 DEF ShapeInv
<1>2. ASSUME NEW c \in Conds, NEW m \in Mutexes, WaitWrongOwner(t, c, m) PROVE ShapeInv'
  BY <1>2 DEF ShapeInv, WaitWrongOwner, CountBoth, Shape, Calls, Sleeping
<1>3. ASSUME WaitStep(t) PROVE ShapeInv'
  <2>1. lock[t] \in Mutexes /\ cond[t] \in Conds
    BY <1>3 DEF WaitStep, WaitSleep, WaitWake, WaitRelock, WaitDone, ShapeInv, Calls, WaitPcs
  <2>2. Shape'
    BY <1>3, <2>1 DEF WaitStep, WaitSleep, WaitWake, WaitRelock, WaitDone, TakePrimitive,
                      DropPrimitive, DropBoth, Goto, ShapeInv, Shape, Pcs
  <2>3. Calls'
    BY <1>3 DEF WaitStep, WaitSleep, WaitWake, WaitRelock, WaitDone, Goto,
                ShapeInv, Shape, Calls, LockPcs, WaitPcs
  <2>4. Sleeping'
    BY <1>3, <2>1 DEF WaitStep, WaitSleep, WaitWake, WaitRelock, WaitDone, Goto,
                      ShapeInv, Shape, Sleeping
  <2> QED
    BY <2>2, <2>3, <2>4 DEF ShapeInv
<1>4. ASSUME NEW c \in Conds, Signal(t, c) PROVE ShapeInv'
  <2>1. PICK s \in sleepers[c] : sleepers' = [sleepers EXCEPT ![c] = @ \ {s}] /\ Goto(s, "relock")
    BY <1>4 DEF Signal
  <2>2. s \in Threads /\ pc[s] = "asleep" /\ cond[s] = c
    BY <2>1 DEF ShapeInv, Shape, Sleeping
  <2>3. Shape'
    BY <1>4, <2>1, <2>2 DEF Signal, Goto, ShapeInv, Shape, Pcs
  <2>4. Calls'
    BY <1>4, <2>1, <2>2 DEF Signal, Goto, ShapeInv, Shape, Calls, LockPcs, WaitPcs
  <2>5. Sleeping'
    BY <1>4, <2>1, <2>2 DEF Signal, Goto, ShapeInv, Shape, Sleeping
  <2> QED
    BY <2>3, <2>4, <2>5 DEF ShapeInv
<1>5. ASSUME NEW c \in Conds, Broadcast(t, c) PROVE ShapeInv'
  <2>1. \A s \in sleepers[c] : s \in Threads /\ pc[s] = "asleep" /\ cond[s] = c
    BY DEF ShapeInv, Shape, Sleeping
  <2>2. Shape'
    BY <1>5, <2>1 DEF Broadcast, ShapeInv, Shape, Pcs
  <2>3. Calls'
    BY <1>5, <2>1 DEF Broadcast, ShapeInv, Shape, Calls, LockPcs, WaitPcs
  <2>4. Sleeping'
    BY <1>5, <2>1 DEF Broadcast, ShapeInv, Shape, Sleeping
  <2> QED
    BY <2>2, <2>3, <2>4 DEF ShapeInv
<1> QED
  BY <1>1, <1>2, <1>3, <1>4, <1>5

LEMMA DestroyShape ==
    ASSUME ShapeInv, NEW t \in Threads,
           (\E o \in Objects : DestroyEnter(t, o)) \/ DestroyRetry(t)
    PROVE  ShapeInv'
<1> USE DEF objectVars, primitiveVars, threadVars, Locks, Objects
<1>1. ASSUME NEW o \in Objects, DestroyEnter(t, o) PROVE ShapeInv'
  <2>1. Shape'
    BY <1>1 DEF ShapeInv, DestroyEnter, Goto, Shape, Pcs
  <2>2. Calls'
    BY <1>1 DEF ShapeInv, DestroyEnter, Goto, Shape, Calls, LockPcs, WaitPcs
  <2>3. Sleeping'
    BY <1>1 DEF ShapeInv, DestroyEnter, Goto, Shape, Sleeping
  <2> QED
    BY <2>1, <2>2, <2>3 DEF ShapeInv
<1>2. ASSUME DestroyRetry(t) PROVE ShapeInv'
  <2>0. target[t] \in Objects
    BY <1>2 DEF DestroyRetry, ShapeInv, Calls
  <2>1. Shape'
    BY <1>2, <2>0 DEF ShapeInv, DestroyRetry, Goto, Shape, Pcs
  <2>2. Calls'
    BY <1>2 DEF ShapeInv, DestroyRetry, Goto, Shape, Calls, LockPcs, WaitPcs
  <2>3. Sleeping'
    BY <1>2 DEF ShapeInv, DestroyRetry, Goto, Shape, Sleeping
  <2> QED
    BY <2>1, <2>2, <2>3 DEF ShapeInv
<1> QED
  BY <1>1, <1>2

LEMMA NextShape == ShapeInv /\ [Next]_vars => ShapeInv'
<1> SUFFICES ASSUME ShapeInv, [Next]_vars PROVE ShapeInv'
  OBVIOUS
<1>1. CASE UNCHANGED vars
  BY <1>1 DEF vars, objectVars, primitiveVars, threadVars, ShapeInv, Shape, Calls, Sleeping
<1>2. Destroyers \subseteq Threads
  BY SyncAssumption
<1> QED
  BY <1>1, <1>2, LockShape, WaitShape, DestroyShape DEF Next

-----------------------------------------------------------------------------
(* Reference counts. A thread that waits on a condition without owning the *)
(* mutex leaves both counts too large, never too small.                    *)
Counted(o) ==
    /\ refs[o] <= MaxRef
    /\ Cardinality(Users(o)) <= refs[o]
    /\ Careless = {} => refs[o] = Cardinality(Users(o))

RefInv == (\A o \in Objects : Counted(o)) /\ CallersFindObject

LEMMA UsersFinite == ASSUME NEW o PROVE IsFiniteSet(Users(o)) /\ Cardinality(Users(o)) \in Nat
<1>1. IsFiniteSet(Users(o))
  BY SyncAssumption, FS_Subset DEF Users
<1> QED
  BY <1>1, FS_CardinalityType

(* An object without references has no users: what Util_sync_destroy       *)
(* relies on.                                                              *)
LEMMA NoUsers ==
    ASSUME RefInv, ShapeInv, NEW o \in Objects, ~(refs[o] > 0)
    PROVE  Users(o) = {}
<1>1. Cardinality(Users(o)) = 0
  BY UsersFinite DEF RefInv, Counted, ShapeInv, Shape
<1> QED
  BY <1>1, UsersFinite, FS_EmptySet

LEMMA InitRef == Init => RefInv
<1> SUFFICES ASSUME Init PROVE RefInv
  OBVIOUS
<1>1. \A o \in Objects : Users(o) = {}
  BY SyncAssumption DEF Init, Users
<1>2. ASSUME NEW o \in Objects PROVE Counted(o)
  <2>1. Cardinality(Users(o)) = 0 /\ refs[o] = 0
    BY <1>1, FS_EmptySet DEF Init
  <2> QED
    BY <2>1, SyncAssumption DEF Counted
<1> QED
  BY <1>1, <1>2 DEF RefInv, CallersFindObject

(* The three ways a step treats the users: nobody comes or goes, a thread  *)
(* enters a call, a thread leaves one.                                     *)
LEMMA StayRef ==
    ASSUME RefInv, lock' = lock, cond' = cond, refs' = refs,
           \A o \in Objects : life[o] = "alive" /\ life'[o] # "alive" => Users(o) = {}
    PROVE  RefInv'
<1>1. \A o \in Objects : Users(o)' = Users(o)
  BY DEF Users
<1> QED
  BY <1>1 DEF RefInv, Counted, CallersFindObject

LEMMA EnterRef ==
    ASSUME ShapeInv, RefInv, NEW t \in Threads, pc[t] = "idle", life' = life,
           \A s \in Threads \ {t} : lock'[s] = lock[s] /\ cond'[s] = cond[s],
           \A o \in Objects :
             IF o \in {lock'[t], cond'[t]}
             THEN life[o] = "alive" /\ refs[o] < MaxRef /\ refs'[o] = refs[o] + 1
             ELSE refs'[o] = refs[o]
    PROVE  RefInv'
<1> lock[t] = None /\ cond[t] = None /\ None \notin Objects
  BY SyncAssumption DEF ShapeInv, Calls
<1>1. ASSUME NEW o \in Objects, o \in {lock'[t], cond'[t]} PROVE Counted(o)'
  <2>1. Users(o)' = Users(o) \cup {t} /\ t \notin Users(o)
    BY <1>1 DEF Users
  <2>2. Cardinality(Users(o)') = Cardinality(Users(o)) + 1
    BY <2>1, UsersFinite, FS_AddElement
  <2>3. refs[o] \in Int /\ MaxRef \in Nat
    BY SyncAssumption DEF ShapeInv, Shape
  <2> QED
    BY <1>1, <2>2, <2>3, UsersFinite DEF RefInv, Counted
<1>2. ASSUME NEW o \in Objects, o \notin {lock'[t], cond'[t]} PROVE Users(o)' = Users(o)
  BY <1>2 DEF Users
<1> QED
  BY <1>1, <1>2 DEF RefInv, Counted, CallersFindObject

LEMMA LeaveRef ==
    ASSUME ShapeInv, RefInv, NEW t \in Threads, lock'[t] = None, cond'[t] = None, life' = life,
           \A s \in Threads \ {t} : lock'[s] = lock[s] /\ cond'[s] = cond[s],
           \A o \in Objects :
             refs'[o] = IF o \in {lock[t], cond[t]} THEN refs[o] - 1 ELSE refs[o]
    PROVE  RefInv'
<1> None \notin Objects
  BY SyncAssumption
<1>1. ASSUME NEW o \in Objects, o \in {lock[t], cond[t]} PROVE Counted(o)' /\ Users(o) # {}
  <2>1. Users(o)' = Users(o) \ {t} /\ t \in Users(o)
    BY <1>1 DEF Users
  <2>2. Cardinality(Users(o)') = Cardinality(Users(o)) - 1
    BY <2>1, UsersFinite, FS_RemoveElement
  <2>3. refs[o] \in Int /\ MaxRef \in Nat
    BY SyncAssumption DEF ShapeInv, Shape
  <2> QED
    BY <1>1, <2>1, <2>2, <2>3, UsersFinite DEF RefInv, Counted
<1>2. ASSUME NEW o \in Objects, o \notin {lock[t], cond[t]} PROVE Users(o)' = Users(o)
  BY <1>2 DEF Users
<1> QED
  BY <1>1, <1>2 DEF RefInv, Counted, CallersFindObject

LEMMA LockRef ==
    ASSUME ShapeInv, RefInv, NEW t \in Threads,
           (\E m \in Locks : LockEnter(t, m) \/ Unlock(t, m)) \/ LockStep(t)
    PROVE  RefInv'
<1>0. Locks \subseteq Objects
  BY DEF Objects
<1>1. ASSUME NEW m \in Locks, LockEnter(t, m) PROVE RefInv'
  <2>1. /\ pc[t] = "idle" /\ life' = life /\ life[m] = "alive" /\ refs[m] < MaxRef
        /\ lock' = [lock EXCEPT ![t] = m] /\ cond' = cond
        /\ refs' = [refs EXCEPT ![m] = @ + 1]
    BY <1>1 DEF LockEnter
  <2>2. lock'[t] = m /\ cond'[t] = None
    BY <2>1 DEF ShapeInv, Shape, Calls
  <2>3. \A s \in Threads \ {t} : lock'[s] = lock[s] /\ cond'[s] = cond[s]
    BY <2>1 DEF ShapeInv, Shape
  <2>4. \A o \in Objects : refs'[o] = IF o = m THEN refs[o] + 1 ELSE refs[o]
    BY <2>1 DEF ShapeInv, Shape
  <2> QED
    BY <2>1, <2>2, <2>3, <2>4, EnterRef, SyncAssumption
<1>2. ASSUME NEW m \in Locks, Unlock(t, m) PROVE RefInv'
  BY <1>2, StayRef DEF Unlock, threadVars
<1>3. ASSUME LockAcquire(t) \/ LockGiveUp(t) PROVE RefInv'
  BY <1>3, StayRef DEF LockAcquire, LockGiveUp, objectVars
<1>4. ASSUME LockDone(t) \/ LockFailed(t) PROVE RefInv'
  <2>1. /\ life' = life /\ lock' = [lock EXCEPT ![t] = None] /\ cond' = cond
        /\ refs' = [refs EXCEPT ![lock[t]] = @ - 1] /\ pc[t] \in LockPcs
    BY <1>4 DEF LockDone, LockFailed, LockPcs
  <2>2. lock'[t] = None /\ cond'[t] = None /\ cond[t] = None
    BY <2>1 DEF ShapeInv, Shape, Calls
  <2>3. \A s \in Threads \ {t} : lock'[s] = lock[s] /\ cond'[s] = cond[s]
    BY <2>1 DEF ShapeInv, Shape
  <2>4. \A o \in Objects : refs'[o] = IF o \in {lock[t], cond[t]} THEN refs[o] - 1 ELSE refs[o]
    BY <2>1, <2>2, SyncAssumption DEF ShapeInv, Shape
  <2> QED
    BY <2>1, <2>2, <2>3, <2>4, LeaveRef
<1> QED
  BY <1>1, <1>2, <1>3, <1>4 DEF LockStep

LEMMA WaitRef ==
    ASSUME ShapeInv, RefInv, NEW t \in Threads,
           \/ \E c \in Conds, m \in Mutexes : WaitEnter(t, c, m) \/ WaitWrongOwner(t, c, m)
           \/ WaitStep(t)
           \/ \E c \in Conds : Signal(t, c) \/ Broadcast(t, c)
    PROVE  RefInv'
<1>0. Mutexes \subseteq Objects /\ Conds \subseteq Objects /\ Mutexes \cap Conds = {}
  BY SyncAssumption DEF Objects, Locks
<1>1. ASSUME NEW c \in Conds, NEW m \in Mutexes, WaitEnter(t, c, m) PROVE RefInv'
  <2>1. /\ pc[t] = "idle" /\ life' = life /\ life[m] = "alive" /\ life[c] = "alive"
        /\ refs[m] < MaxRef /\ refs[c] < MaxRef
        /\ lock' = [lock EXCEPT ![t] = m] /\ cond' = [cond EXCEPT ![t] = c]
        /\ refs' = [refs EXCEPT ![c] = @ + 1, ![m] = @ + 1]
    BY <1>1 DEF WaitEnter, MayWait, CountBoth
  <2>2. lock'[t] = m /\ cond'[t] = c
    BY <2>1 DEF ShapeInv, Shape
  <2>3. \A s \in Threads \ {t} : lock'[s] = lock[s] /\ cond'[s] = cond[s]
    BY <2>1 DEF ShapeInv, Shape
  <2>4. \A o \in Objects : refs'[o] = IF o \in {m, c} THEN refs[o] + 1 ELSE refs[o]
    BY <1>0, <2>1 DEF ShapeInv, Shape
  <2>5. \A o \in Objects :
          IF o \in {lock'[t], cond'[t]}
          THEN life[o] = "alive" /\ refs[o] < MaxRef /\ refs'[o] = refs[o] + 1
          ELSE refs'[o] = refs[o]
    BY <2>1, <2>2, <2>4
  <2> QED
    BY <2>1, <2>3, <2>5, EnterRef
<1>2. ASSUME NEW c \in Conds, NEW m \in Mutexes, WaitWrongOwner(t, c, m) PROVE RefInv'
  <2>1. /\ Careless # {} /\ life' = life /\ lock' = lock /\ cond' = cond
        /\ refs[m] < MaxRef /\ refs[c] < MaxRef
        /\ refs' = [refs EXCEPT ![c] = @ + 1, ![m] = @ + 1]
    BY <1>2 DEF WaitWrongOwner, MayWait, CountBoth, threadVars
  <2>2. \A o \in Objects : refs'[o] = IF o \in {m, c} THEN refs[o] + 1 ELSE refs[o]
    BY <1>0, <2>1 DEF ShapeInv, Shape
  <2>3. \A o \in Objects : Users(o)' = Users(o)
    BY <2>1 DEF Users
  <2>4. ASSUME NEW o \in Objects PROVE Counted(o)'
    <3>1. refs[o] \in Int /\ MaxRef \in Nat /\ Cardinality(Users(o)) \in Nat
      BY SyncAssumption, UsersFinite DEF ShapeInv, Shape
    <3> refs[o] <= MaxRef /\ (o \in {m, c} => refs[o] < MaxRef)
      BY <2>1 DEF RefInv, Counted
    <3>2. refs'[o] <= MaxRef /\ refs'[o] \in Int /\ refs[o] <= refs'[o]
      BY <2>2, <3>1
    <3>3. Cardinality(Users(o)') = Cardinality(Users(o))
      BY <2>3
    <3>4. Cardinality(Users(o)') <= refs'[o]
      BY <3>1, <3>2, <3>3 DEF RefInv, Counted
    <3> QED
      BY <2>1, <3>2, <3>4 DEF Counted
  <2> QED
    BY <2>1, <2>3, <2>4 DEF RefInv, CallersFindObject
<1>3. ASSUME WaitSleep(t) \/ WaitWake(t) \/ WaitRelock(t) PROVE RefInv'
  BY <1>3, StayRef DEF WaitSleep, WaitWake, WaitRelock, objectVars
<1>4. ASSUME WaitDone(t) PROVE RefInv'
  <2>1. /\ life' = life /\ lock' = [lock EXCEPT ![t] = None] /\ cond' = [cond EXCEPT ![t] = None]
        /\ refs' = [refs EXCEPT ![cond[t]] = @ - 1, ![lock[t]] = @ - 1]
    BY <1>4 DEF WaitDone, DropBoth
  <2>2. lock'[t] = None /\ cond'[t] = None
    BY <2>1 DEF ShapeInv, Shape
  <2>3. lock[t] \in Mutexes /\ cond[t] \in Conds
    BY <1>4 DEF WaitDone, ShapeInv, Calls, WaitPcs
  <2>4. \A s \in Threads \ {t} : lock'[s] = lock[s] /\ cond'[s] = cond[s]
    BY <2>1 DEF ShapeInv, Shape
  <2>5. \A o \in Objects : refs'[o] = IF o \in {lock[t], cond[t]} THEN refs[o] - 1 ELSE refs[o]
    BY <1>0, <2>1, <2>3 DEF ShapeInv, Shape
  <2> QED
    BY <2>1, <2>2, <2>4, <2>5, LeaveRef
<1>5. ASSUME NEW c \in Conds, Signal(t, c) \/ Broadcast(t, c) PROVE RefInv'
  BY <1>5, StayRef DEF Signal, Broadcast, objectVars
<1> QED
  BY <1>1, <1>2, <1>3, <1>4, <1>5 DEF WaitStep

(* Creating and destroying. A destroy frees an object only when its count  *)
(* is zero, when it is first looked at or after any of the sleeps.         *)
LEMMA LifeRef ==
    ASSUME ShapeInv, RefInv, NEW t \in Threads,
           \/ \E o \in Objects : Create(t, o) \/ DestroyEnter(t, o)
           \/ DestroyRetry(t)
    PROVE  RefInv'
<1>1. ASSUME NEW o \in Objects, Create(t, o) PROVE RefInv'
  BY <1>1, StayRef DEF Create, threadVars, ShapeInv, Shape
<1>2. ASSUME NEW o \in Objects, DestroyEnter(t, o) PROVE RefInv'
  <2>1. refs' = refs /\ lock' = lock /\ cond' = cond
    BY <1>2 DEF DestroyEnter
  <2>2. life' = life \/ (life' = [life EXCEPT ![o] = "freed"] /\ ~(refs[o] > 0))
    BY <1>2 DEF DestroyEnter
  <2> QED
    BY <2>1, <2>2, StayRef, NoUsers DEF ShapeInv, Shape
<1>3. ASSUME DestroyRetry(t) PROVE RefInv'
  <2>1. /\ refs' = refs /\ lock' = lock /\ cond' = cond /\ target[t] \in Objects
        /\ refs[target[t]] = 0 /\ life' = [life EXCEPT ![target[t]] = "freed"]
    BY <1>3 DEF DestroyRetry, ShapeInv, Calls
  <2>2. Users(target[t]) = {}
    BY <2>1, NoUsers
  <2> QED
    BY <2>1, <2>2, StayRef DEF ShapeInv, Shape
<1> QED
  BY <1>1, <1>2, <1>3

LEMMA NextRef == ShapeInv /\ RefInv /\ [Next]_vars => RefInv'
<1> SUFFICES ASSUME ShapeInv, RefInv, [Next]_vars PROVE RefInv'
  OBVIOUS
<1>1. CASE UNCHANGED vars
  BY <1>1, StayRef DEF vars, objectVars, threadVars
<1>2. Destroyers \subseteq Threads
  BY SyncAssumption
<1> QED
  BY <1>1, <1>2, LockRef, WaitRef, LifeRef DEF Next

-----------------------------------------------------------------------------
(* The books. Between the primitive operation of a call and its            *)
(* bookkeeping the thread has the primitive although it is not the owner.  *)
Between == {"locked", "toSleep", "relocked"}

Holding == \A t \in Threads : pc[t] \in Between => holder[lock[t]] = t

(* A non-recursive mutex is taken once.                                    *)
MutexBooks == \A m \in Mutexes : depth[m] = IF holder[m] = None THEN 0 ELSE 1

(* The acquisition of a recursive mutex whose bookkeeping is to come.      *)
Pending(m) == IF \E t \in Threads : pc[t] = "locked" /\ lock[t] = m THEN 1 ELSE 0

RecursiveBooks ==
    \A m \in RecursiveMutexes :
        /\ count[m] \in 0 .. MaxRef
        /\ depth[m] = count[m] + Pending(m)
        /\ owner[m] # None <=> count[m] > 0
        /\ holder[m] = None <=> depth[m] = 0

(* The room that Util_sync_lock found in count is still there afterwards.  *)
CountRoom ==
    \A t \in Threads : \A m \in RecursiveMutexes :
        pc[t] \in {"locking", "locked"} /\ lock[t] = m /\ owner[m] = t => count[m] < MaxRef

BooksInv == Holding /\ OwnerHoldsLock /\ MutexBooks /\ RecursiveBooks /\ CountRoom /\ NoSignalGap

LEMMA InitBooks == Init => BooksInv
<1> SUFFICES ASSUME Init PROVE BooksInv
  OBVIOUS
<1>1. Holding /\ OwnerHoldsLock /\ MutexBooks /\ CountRoom /\ NoSignalGap
  BY DEF Init, Holding, Between, OwnerHoldsLock, MutexBooks, CountRoom, NoSignalGap, Locks
<1>2. RecursiveBooks
  BY SyncAssumption DEF Init, RecursiveBooks, Pending, Locks
<1> QED
  BY <1>1, <1>2 DEF BooksInv

(* A step that leaves the books, the primitives and every thread between   *)
(* the two alone.                                                          *)
LEMMA StayBooks ==
    ASSUME BooksInv, owner' = owner, count' = count, holder' = holder, depth' = depth,
           \A s \in Threads :
             /\ pc'[s] \in Between \cup {"locking"} => pc'[s] = pc[s] /\ lock'[s] = lock[s]
             /\ pc[s] = "locked" => pc'[s] = "locked"
    PROVE  BooksInv'
<1>1. Holding' /\ OwnerHoldsLock' /\ MutexBooks'
  BY DEF BooksInv, Holding, OwnerHoldsLock, MutexBooks, Between
<1>2. \A m \in RecursiveMutexes : Pending(m)' = Pending(m)
  BY DEF Pending, Between
<1>3. RecursiveBooks'
  BY <1>2 DEF BooksInv, RecursiveBooks
<1>4. CountRoom' /\ NoSignalGap'
  BY DEF BooksInv, CountRoom, NoSignalGap, Between
<1> QED
  BY <1>1, <1>3, <1>4 DEF BooksInv

LEMMA LockBooks ==
    ASSUME ShapeInv, BooksInv, NEW t \in Threads, LockStep(t)
    PROVE  BooksInv'
<1>0. /\ lock[t] \in Locks /\ Mutexes \cap RecursiveMutexes = {} /\ MaxRef \in Nat \ {0}
      /\ t # None /\ Locks = Mutexes \cup RecursiveMutexes
  BY SyncAssumption DEF LockStep, LockAcquire, LockGiveUp, LockDone, LockFailed, ShapeInv,
                        Calls, LockPcs, Locks
<1> PICK m \in Locks : lock[t] = m
  BY <1>0
<1>1. ASSUME LockAcquire(t) PROVE BooksInv'
  <2>1. /\ owner' = owner /\ count' = count /\ lock' = lock /\ pc[t] = "locking"
        /\ holder' = [holder EXCEPT ![m] = t] /\ depth' = [depth EXCEPT ![m] = @ + 1]
        /\ pc' = [pc EXCEPT ![t] = "locked"]
        /\ holder[m] = None \/ (m \in RecursiveMutexes /\ holder[m] = t)
    BY <1>1 DEF LockAcquire, CanTake, TakePrimitive, Goto, objectVars
  <2>2. pc'[t] = "locked" /\ \A s \in Threads \ {t} : pc'[s] = pc[s]
    BY <2>1 DEF ShapeInv, Shape
  <2>3. holder'[m] = t /\ \A l \in Locks \ {m} : holder'[l] = holder[l]
    BY <1>0, <2>1 DEF ShapeInv, Shape
  <2>4. depth'[m] = depth[m] + 1 /\ \A l \in Locks \ {m} : depth'[l] = depth[l]
    BY <1>0, <2>1 DEF ShapeInv, Shape
  <2>5. \A s \in Threads \ {t} : pc[s] \in Between => lock[s] # m
    BY <1>0, <2>1, SyncAssumption DEF BooksInv, Holding
  <2>6. Holding'
    <3>1. lock'[t] = m
      BY <2>1
    <3>2. \A s \in Threads : pc[s] \in Between => lock[s] \in Locks
      BY DEF ShapeInv, Calls, Between, LockPcs, WaitPcs, Locks
    <3> QED
      BY <2>1, <2>2, <2>3, <2>5, <3>1, <3>2 DEF BooksInv, Holding
  <2>7. OwnerHoldsLock'
    BY <2>1, <2>3 DEF BooksInv, OwnerHoldsLock, ShapeInv, Shape
  <2>8. MutexBooks'
    BY <1>0, <2>1, <2>3, <2>4 DEF BooksInv, MutexBooks
  <2>9. RecursiveBooks'
    <3>1. ASSUME NEW l \in RecursiveMutexes, l # m PROVE Pending(l)' = Pending(l)
      BY <2>1, <2>2, <3>1 DEF Pending
    <3>2. Pending(m) = 0
      BY <2>1, <2>5 DEF Pending, Between
    <3>3. Pending(m)' = 1
      BY <2>1, <2>2 DEF Pending
    <3>4. ASSUME NEW l \in RecursiveMutexes, l # m
          PROVE  /\ count'[l] \in 0 .. MaxRef
                 /\ depth'[l] = count'[l] + Pending(l)'
                 /\ owner'[l] # None <=> count'[l] > 0
                 /\ holder'[l] = None <=> depth'[l] = 0
      BY <1>0, <2>1, <2>3, <2>4, <3>1, <3>4 DEF BooksInv, RecursiveBooks
    <3>5. ASSUME m \in RecursiveMutexes
          PROVE  /\ count'[m] \in 0 .. MaxRef
                 /\ depth'[m] = count'[m] + Pending(m)'
                 /\ owner'[m] # None <=> count'[m] > 0
                 /\ holder'[m] = None <=> depth'[m] = 0
      BY <1>0, <2>1, <2>3, <2>4, <3>2, <3>3, <3>5 DEF BooksInv, RecursiveBooks
    <3> QED
      BY <3>4, <3>5 DEF RecursiveBooks
  <2>10. CountRoom'
    BY <2>1, <2>2 DEF BooksInv, CountRoom
  <2>11. NoSignalGap'
    BY <2>1, <2>2 DEF BooksInv, NoSignalGap
  <2> QED
    BY <2>6, <2>7, <2>8, <2>9, <2>10, <2>11 DEF BooksInv
<1>2. ASSUME LockDone(t) PROVE BooksInv'
  <2>1. /\ holder' = holder /\ depth' = depth /\ pc[t] = "locked"
        /\ owner' = [owner EXCEPT ![m] = t]
        /\ count' = IF m \in RecursiveMutexes THEN [count EXCEPT ![m] = @ + 1] ELSE count
        /\ lock' = [lock EXCEPT ![t] = None]
        /\ pc' = [pc EXCEPT ![t] = "idle"]
    BY <1>2 DEF LockDone, Goto, primitiveVars
  <2>2. /\ pc'[t] = "idle"
        /\ \A s \in Threads \ {t} : pc'[s] = pc[s] /\ lock'[s] = lock[s]
    BY <2>1 DEF ShapeInv, Shape
  <2>3. owner'[m] = t /\ \A l \in Locks \ {m} : owner'[l] = owner[l]
    BY <1>0, <2>1 DEF ShapeInv, Shape
  <2>4. \A l \in RecursiveMutexes : count'[l] = IF l = m THEN count[l] + 1 ELSE count[l]
    BY <2>1 DEF ShapeInv, Shape
  <2>5. holder[m] = t
    BY <2>1 DEF BooksInv, Holding, Between
  <2>6. \A s \in Threads \ {t} : pc[s] \in Between => lock[s] # m
    BY <2>5 DEF BooksInv, Holding
  <2>7. owner[m] \in {None, t}
    BY <1>0, <2>5 DEF BooksInv, OwnerHoldsLock
  <2>8. Pending(m) = 1
    BY <2>1 DEF Pending
  <2>9. Holding'
    BY <2>1, <2>2 DEF BooksInv, Holding, Between
  <2>10. OwnerHoldsLock'
    BY <2>1, <2>3, <2>5 DEF BooksInv, OwnerHoldsLock
  <2>11. MutexBooks'
    BY <2>1 DEF BooksInv, MutexBooks
  <2>12. RecursiveBooks'
    <3>1. ASSUME NEW l \in RecursiveMutexes, l # m PROVE Pending(l)' = Pending(l)
      BY <2>1, <2>2, <3>1 DEF Pending, Between
    <3>2. Pending(m)' = 0
      BY <2>2, <2>6 DEF Pending, Between
    <3>3. ASSUME NEW l \in RecursiveMutexes, l # m
          PROVE  /\ count'[l] \in 0 .. MaxRef
                 /\ depth'[l] = count'[l] + Pending(l)'
                 /\ owner'[l] # None <=> count'[l] > 0
                 /\ holder'[l] = None <=> depth'[l] = 0
      BY <1>0, <2>1, <2>3, <2>4, <3>1, <3>3 DEF BooksInv, RecursiveBooks
    <3>4. ASSUME m \in RecursiveMutexes
          PROVE  /\ count'[m] \in 0 .. MaxRef
                 /\ depth'[m] = count'[m] + Pending(m)'
                 /\ owner'[m] # None <=> count'[m] > 0
                 /\ holder'[m] = None <=> depth'[m] = 0
      <4>1. count[m] < MaxRef
        BY <1>0, <2>1, <2>7, <3>4 DEF BooksInv, RecursiveBooks, CountRoom
      <4>2. /\ count[m] \in 0 .. MaxRef /\ depth[m] = count[m] + 1 /\ holder[m] # None
            /\ count'[m] = count[m] + 1
        BY <1>0, <2>4, <2>5, <2>8, <3>4 DEF BooksInv, RecursiveBooks
      <4> QED
        BY <1>0, <2>1, <2>3, <3>2, <4>1, <4>2
    <3> QED
      BY <3>3, <3>4 DEF RecursiveBooks
  <2>13. CountRoom'
    <3>1. SUFFICES ASSUME NEW s \in Threads, NEW l \in RecursiveMutexes,
                          pc'[s] \in {"locking", "locked"}, lock'[s] = l, owner'[l] = s
                   PROVE  count'[l] < MaxRef
      BY DEF CountRoom
    <3>2. s # t
      BY <2>2, <3>1
    <3>3. l # m
      BY <2>3, <3>1, <3>2
    <3> QED
      BY <1>0, <2>2, <2>3, <2>4, <3>1, <3>2, <3>3 DEF BooksInv, CountRoom
  <2>14. NoSignalGap'
    <3>1. SUFFICES ASSUME NEW s \in Threads, pc'[s] = "toSleep" PROVE owner'[lock'[s]] = None
      BY DEF NoSignalGap
    <3>2. s # t /\ pc[s] = "toSleep" /\ lock'[s] = lock[s]
      BY <2>2, <3>1
    <3>3. lock[s] \in Locks /\ lock[s] # m
      BY <1>0, <2>6, <3>2 DEF Between, ShapeInv, Calls, WaitPcs
    <3> QED
      BY <2>3, <3>2, <3>3 DEF BooksInv, NoSignalGap
  <2> QED
    BY <2>9, <2>10, <2>11, <2>12, <2>13, <2>14 DEF BooksInv
<1>3. ASSUME LockGiveUp(t) \/ LockFailed(t) PROVE BooksInv'
  <2>1. /\ owner' = owner /\ count' = count /\ holder' = holder /\ depth' = depth
        /\ pc[t] \in {"locking", "gaveUp"} /\ pc'[t] \in {"gaveUp", "idle"}
        /\ \A s \in Threads \ {t} : pc'[s] = pc[s] /\ lock'[s] = lock[s]
    BY <1>3 DEF LockGiveUp, LockFailed, Goto, objectVars, primitiveVars, ShapeInv, Shape
  <2> QED
    BY <2>1, StayBooks DEF Between
<1> QED
  BY <1>1, <1>2, <1>3 DEF LockStep

LEMMA EnterBooks ==
    ASSUME ShapeInv, BooksInv, NEW t \in Threads, NEW m \in Locks, LockEnter(t, m)
    PROVE  BooksInv'
<1>1. /\ owner' = owner /\ count' = count /\ holder' = holder /\ depth' = depth
      /\ m \in RecursiveMutexes /\ owner[m] = t => count[m] < MaxRef
      /\ pc[t] = "idle" /\ pc'[t] = "locking" /\ lock'[t] = m
      /\ \A s \in Threads \ {t} : pc'[s] = pc[s] /\ lock'[s] = lock[s]
  BY DEF LockEnter, Goto, primitiveVars, ShapeInv, Shape
<1>2. Holding' /\ OwnerHoldsLock' /\ MutexBooks'
  BY <1>1 DEF BooksInv, Holding, OwnerHoldsLock, MutexBooks, Between
<1>3. \A l \in RecursiveMutexes : Pending(l)' = Pending(l)
  BY <1>1 DEF Pending
<1>4. RecursiveBooks'
  BY <1>1, <1>3 DEF BooksInv, RecursiveBooks
<1>5. CountRoom' /\ NoSignalGap'
  BY <1>1 DEF BooksInv, CountRoom, NoSignalGap
<1> QED
  BY <1>2, <1>4, <1>5 DEF BooksInv

(* An unlock by the owner gives the primitive back exactly when the books  *)
(* forget the owner.                                                       *)
LEMMA UnlockBooks ==
    ASSUME ShapeInv, BooksInv, NEW t \in Threads, NEW m \in Locks, Unlock(t, m)
    PROVE  BooksInv'
<1>0. /\ Mutexes \cap RecursiveMutexes = {} /\ MaxRef \in Nat \ {0} /\ t # None
      /\ Locks = Mutexes \cup RecursiveMutexes
  BY SyncAssumption DEF Locks
<1>1. /\ pc' = pc /\ lock' = lock /\ pc[t] = "idle" /\ owner[m] = t
      /\ depth' = [depth EXCEPT ![m] = @ - 1]
      /\ holder' = [holder EXCEPT ![m] = IF depth[m] = 1 THEN None ELSE @]
  BY DEF Unlock, DropPrimitive, threadVars
<1>2. holder[m] = t
  BY <1>0, <1>1 DEF BooksInv, OwnerHoldsLock
<1>3. /\ depth'[m] = depth[m] - 1 /\ holder'[m] = IF depth[m] = 1 THEN None ELSE t
      /\ \A l \in Locks \ {m} : depth'[l] = depth[l] /\ holder'[l] = holder[l]
  BY <1>1, <1>2 DEF ShapeInv, Shape
<1>4. \A s \in Threads : pc[s] \in Between => lock[s] # m
  BY <1>1, <1>2 DEF BooksInv, Holding, Between
<1>5. \A l \in Locks \ {m} : owner'[l] = owner[l]
  BY DEF Unlock, ShapeInv, Shape
<1>6. \A l \in RecursiveMutexes \ {m} : count'[l] = count[l]
  BY DEF Unlock, ShapeInv, Shape
<1>7. m \in Mutexes => depth[m] = 1 /\ owner'[m] = None
  BY <1>0, <1>2 DEF BooksInv, MutexBooks, Unlock, ShapeInv, Shape
<1>8. m \in RecursiveMutexes =>
        /\ count[m] \in 1 .. MaxRef /\ count'[m] = count[m] - 1 /\ depth[m] = count[m]
        /\ owner'[m] = IF count[m] = 1 THEN None ELSE t
  <2> SUFFICES ASSUME m \in RecursiveMutexes
               PROVE  /\ count[m] \in 1 .. MaxRef /\ count'[m] = count[m] - 1 /\ depth[m] = count[m]
                      /\ owner'[m] = IF count[m] = 1 THEN None ELSE t
    OBVIOUS
  <2>1. Pending(m) = 0
    BY <1>4 DEF Pending, Between
  <2>2. count'[m] = count[m] - 1 /\ owner'[m] = IF count[m] = 1 THEN None ELSE t
    BY <1>0, <1>1 DEF Unlock, ShapeInv, Shape
  <2>3. count[m] \in 0 .. MaxRef /\ depth[m] = count[m] + Pending(m) /\ count[m] > 0
    BY <1>0, <1>1 DEF BooksInv, RecursiveBooks
  <2> QED
    BY <1>0, <2>1, <2>2, <2>3
<1>9. owner'[m] # None => owner'[m] = t /\ holder'[m] = t
  BY <1>0, <1>3, <1>7, <1>8
<1>10. \A s \in Threads : pc[s] \in Between => lock[s] \in Locks \ {m}
  BY <1>0, <1>4 DEF ShapeInv, Calls, Between, LockPcs, WaitPcs
<1>11. Holding'
  BY <1>1, <1>3, <1>10 DEF BooksInv, Holding
<1>12. OwnerHoldsLock'
  BY <1>3, <1>5, <1>9 DEF BooksInv, OwnerHoldsLock
<1>13. MutexBooks'
  BY <1>0, <1>3, <1>7 DEF BooksInv, MutexBooks
<1>14. RecursiveBooks'
  <2>1. \A l \in RecursiveMutexes : Pending(l)' = Pending(l)
    BY <1>1 DEF Pending
  <2>2. m \in RecursiveMutexes => Pending(m) = 0
    BY <1>4 DEF Pending, Between
  <2>3. ASSUME NEW l \in RecursiveMutexes, l # m
        PROVE  /\ count'[l] \in 0 .. MaxRef
               /\ depth'[l] = count'[l] + Pending(l)'
               /\ owner'[l] # None <=> count'[l] > 0
               /\ holder'[l] = None <=> depth'[l] = 0
    BY <1>0, <1>3, <1>5, <1>6, <2>1, <2>3 DEF BooksInv, RecursiveBooks
  <2>4. ASSUME m \in RecursiveMutexes
        PROVE  /\ count'[m] \in 0 .. MaxRef
               /\ depth'[m] = count'[m] + Pending(m)'
               /\ owner'[m] # None <=> count'[m] > 0
               /\ holder'[m] = None <=> depth'[m] = 0
    BY <1>0, <1>3, <1>8, <2>1, <2>2, <2>4
  <2> QED
    BY <2>3, <2>4 DEF RecursiveBooks
<1>15. CountRoom'
  <2>1. SUFFICES ASSUME NEW s \in Threads, NEW l \in RecursiveMutexes,
                        pc'[s] \in {"locking", "locked"}, lock'[s] = l, owner'[l] = s
                 PROVE  count'[l] < MaxRef
    BY DEF CountRoom
  <2>2. s # t /\ s # None
    BY <1>1, <2>1, SyncAssumption
  <2>3. l # m
    BY <1>9, <2>1, <2>2
  <2> QED
    BY <1>0, <1>1, <1>5, <1>6, <2>1, <2>3 DEF BooksInv, CountRoom
<1>16. NoSignalGap'
  BY <1>1, <1>5, <1>10 DEF BooksInv, NoSignalGap, Between
<1> QED
  BY <1>11, <1>12, <1>13, <1>14, <1>15, <1>16 DEF BooksInv

(* Waiting touches non-recursive mutexes only: the other half of the books *)
(* stays as it is.                                                         *)
LEMMA WaitKeepsRecursive ==
    ASSUME BooksInv, NEW t \in Threads, NEW m \in Mutexes,
           count' = count,
           \A l \in RecursiveMutexes :
             owner'[l] = owner[l] /\ holder'[l] = holder[l] /\ depth'[l] = depth[l],
           pc[t] \notin LockPcs, pc'[t] \notin LockPcs,
           \A s \in Threads \ {t} : pc'[s] = pc[s] /\ lock'[s] = lock[s]
    PROVE  RecursiveBooks' /\ CountRoom'
<1>1. \A l \in RecursiveMutexes : Pending(l)' = Pending(l)
  BY DEF Pending, LockPcs
<1>2. RecursiveBooks'
  BY <1>1 DEF BooksInv, RecursiveBooks
<1>3. CountRoom'
  BY DEF BooksInv, CountRoom, LockPcs
<1> QED
  BY <1>2, <1>3

LEMMA WaitBooks ==
    ASSUME ShapeInv, BooksInv, NEW t \in Threads, NEW m \in Mutexes,
           \/ \E c \in Conds : WaitEnter(t, c, m)
           \/ lock[t] = m /\ (WaitSleep(t) \/ WaitRelock(t) \/ WaitDone(t))
    PROVE  BooksInv'
<1>0. /\ m \in Locks /\ m \notin RecursiveMutexes /\ t # None
      /\ Locks = Mutexes \cup RecursiveMutexes
  BY SyncAssumption DEF Locks
<1>1. \A s \in Threads : pc[s] \in Between => lock[s] \in Locks
  BY DEF ShapeInv, Calls, Between, LockPcs, WaitPcs, Locks
<1>2. ASSUME NEW c \in Conds, WaitEnter(t, c, m) PROVE BooksInv'
  <2>1. /\ count' = count /\ holder' = holder /\ depth' = depth /\ owner[m] = t
        /\ pc[t] = "idle" /\ pc'[t] = "toSleep" /\ lock'[t] = m
        /\ \A s \in Threads \ {t} : pc'[s] = pc[s] /\ lock'[s] = lock[s]
        /\ owner'[m] = None /\ \A l \in Locks \ {m} : owner'[l] = owner[l]
    BY <1>0, <1>2 DEF WaitEnter, MayWait, Goto, primitiveVars, ShapeInv, Shape
  <2>2. Holding' /\ OwnerHoldsLock' /\ MutexBooks'
    BY <1>0, <2>1 DEF BooksInv, Holding, OwnerHoldsLock, MutexBooks, Between
  <2>3. RecursiveBooks' /\ CountRoom'
    BY <1>0, <2>1, WaitKeepsRecursive DEF LockPcs
  <2>4. NoSignalGap'
    BY <1>1, <2>1 DEF BooksInv, NoSignalGap, Between
  <2> QED
    BY <2>2, <2>3, <2>4 DEF BooksInv
<1>3. ASSUME lock[t] = m, WaitSleep(t) PROVE BooksInv'
  <2>1. /\ count' = count /\ owner' = owner /\ lock' = lock
        /\ pc[t] = "toSleep" /\ pc'[t] = "asleep"
        /\ \A s \in Threads \ {t} : pc'[s] = pc[s]
        /\ depth'[m] = depth[m] - 1 /\ holder'[m] = IF depth[m] = 1 THEN None ELSE holder[m]
        /\ \A l \in Locks \ {m} : depth'[l] = depth[l] /\ holder'[l] = holder[l]
    BY <1>0, <1>3 DEF WaitSleep, DropPrimitive, Goto, objectVars, ShapeInv, Shape
  <2>2. holder[m] = t /\ owner[m] = None /\ depth[m] = 1
    BY <1>0, <1>3, <2>1 DEF BooksInv, Holding, Between, NoSignalGap, MutexBooks
  <2>3. \A s \in Threads \ {t} : pc[s] \in Between => lock[s] # m
    BY <2>2 DEF BooksInv, Holding
  <2>4. Holding' /\ OwnerHoldsLock'
    BY <1>1, <2>1, <2>2, <2>3 DEF BooksInv, Holding, OwnerHoldsLock, Between
  <2>5. MutexBooks'
    BY <1>0, <2>1, <2>2 DEF BooksInv, MutexBooks
  <2>6. RecursiveBooks' /\ CountRoom'
    BY <1>0, <2>1, WaitKeepsRecursive DEF LockPcs
  <2>7. NoSignalGap'
    BY <2>1 DEF BooksInv, NoSignalGap
  <2> QED
    BY <2>4, <2>5, <2>6, <2>7 DEF BooksInv
<1>4. ASSUME lock[t] = m, WaitRelock(t) PROVE BooksInv'
  <2>1. /\ count' = count /\ owner' = owner /\ lock' = lock /\ holder[m] = None
        /\ pc[t] = "relock" /\ pc'[t] = "relocked"
        /\ \A s \in Threads \ {t} : pc'[s] = pc[s]
        /\ depth'[m] = depth[m] + 1 /\ holder'[m] = t
        /\ \A l \in Locks \ {m} : depth'[l] = depth[l] /\ holder'[l] = holder[l]
    BY <1>0, <1>4 DEF WaitRelock, TakePrimitive, Goto, objectVars, ShapeInv, Shape
  <2>2. \A s \in Threads : pc[s] \in Between => lock[s] # m
    BY <2>1, SyncAssumption DEF BooksInv, Holding
  <2>3. Holding'
    BY <1>1, <1>4, <2>1, <2>2 DEF BooksInv, Holding
  <2>4. OwnerHoldsLock'
    BY <1>0, <2>1, SyncAssumption DEF BooksInv, OwnerHoldsLock
  <2>5. MutexBooks'
    BY <1>0, <2>1 DEF BooksInv, MutexBooks
  <2>6. RecursiveBooks' /\ CountRoom'
    BY <1>0, <2>1, WaitKeepsRecursive DEF LockPcs
  <2>7. NoSignalGap'
    BY <2>1 DEF BooksInv, NoSignalGap
  <2> QED
    BY <2>3, <2>4, <2>5, <2>6, <2>7 DEF BooksInv
<1>5. ASSUME lock[t] = m, WaitDone(t) PROVE BooksInv'
  <2>1. /\ count' = count /\ holder' = holder /\ depth' = depth
        /\ pc[t] = "relocked" /\ pc'[t] = "idle"
        /\ \A s \in Threads \ {t} : pc'[s] = pc[s] /\ lock'[s] = lock[s]
        /\ owner'[m] = t /\ \A l \in Locks \ {m} : owner'[l] = owner[l]
    BY <1>0, <1>5 DEF WaitDone, Goto, primitiveVars, ShapeInv, Shape
  <2>2. holder[m] = t
    BY <1>5, <2>1 DEF BooksInv, Holding, Between
  <2>3. \A s \in Threads \ {t} : pc[s] \in Between => lock[s] # m
    BY <2>2 DEF BooksInv, Holding
  <2>4. Holding' /\ OwnerHoldsLock' /\ MutexBooks'
    BY <1>0, <2>1, <2>2 DEF BooksInv, Holding, OwnerHoldsLock, MutexBooks, Between
  <2>5. RecursiveBooks' /\ CountRoom'
    BY <1>0, <2>1, WaitKeepsRecursive DEF LockPcs
  <2>6. NoSignalGap'
    BY <1>1, <2>1, <2>3 DEF BooksInv, NoSignalGap, Between
  <2> QED
    BY <2>4, <2>5, <2>6 DEF BooksInv
<1> QED
  BY <1>2, <1>3, <1>4, <1>5

(* The steps that move no thread between primitive and books.              *)
LEMMA OtherBooks ==
    ASSUME ShapeInv, BooksInv, NEW t \in Threads,
           \/ \E o \in Objects : Create(t, o) \/ DestroyEnter(t, o)
           \/ DestroyRetry(t) \/ WaitWake(t)
           \/ \E c \in Conds, m \in Mutexes : WaitWrongOwner(t, c, m)
           \/ \E c \in Conds : Signal(t, c) \/ Broadcast(t, c)
    PROVE  BooksInv'
<1> USE DEF objectVars, primitiveVars, threadVars, Between
<1>1. ASSUME NEW o \in Objects, Create(t, o) PROVE BooksInv'
  BY <1>1, StayBooks DEF Create
<1>2. ASSUME NEW o \in Objects, DestroyEnter(t, o) PROVE BooksInv'
  BY <1>2, StayBooks DEF DestroyEnter, Goto, ShapeInv, Shape
<1>3. ASSUME DestroyRetry(t) PROVE BooksInv'
  BY <1>3, StayBooks DEF DestroyRetry, Goto, ShapeInv, Shape
<1>4. ASSUME WaitWake(t) PROVE BooksInv'
  BY <1>4, StayBooks DEF WaitWake, Goto, ShapeInv, Shape
<1>5. ASSUME NEW c \in Conds, NEW m \in Mutexes, WaitWrongOwner(t, c, m) PROVE BooksInv'
  BY <1>5, StayBooks DEF WaitWrongOwner
<1>6. ASSUME NEW c \in Conds, Signal(t, c) PROVE BooksInv'
  <2>1. PICK s \in sleepers[c] : Goto(s, "relock")
    BY <1>6 DEF Signal
  <2>2. s \in Threads /\ pc[s] = "asleep"
    BY DEF ShapeInv, Shape, Sleeping
  <2> QED
    BY <1>6, <2>1, <2>2, StayBooks DEF Signal, Goto, ShapeInv, Shape
<1>7. ASSUME NEW c \in Conds, Broadcast(t, c) PROVE BooksInv'
  <2>1. \A s \in sleepers[c] : pc[s] = "asleep"
    BY DEF ShapeInv, Sleeping
  <2> QED
    BY <1>7, <2>1, StayBooks DEF Broadcast
<1> QED
  BY <1>1, <1>2, <1>3, <1>4, <1>5, <1>6, <1>7

LEMMA NextBooks == ShapeInv /\ BooksInv /\ [Next]_vars => BooksInv'
<1> SUFFICES ASSUME ShapeInv, BooksInv, [Next]_vars PROVE BooksInv'
  OBVIOUS
<1>1. CASE UNCHANGED vars
  BY <1>1, StayBooks DEF vars, objectVars, primitiveVars, threadVars
<1>2. ASSUME NEW t \in Threads, NEW m \in Locks, LockEnter(t, m) \/ Unlock(t, m) PROVE BooksInv'
  BY <1>2, EnterBooks, UnlockBooks
<1>3. ASSUME NEW t \in Threads, WaitStep(t) PROVE BooksInv'
  <2>1. lock[t] \in Mutexes
    BY <1>3 DEF WaitStep, WaitSleep, WaitWake, WaitRelock, WaitDone, ShapeInv, Calls, WaitPcs
  <2> QED
    BY <1>3, <2>1, WaitBooks, OtherBooks DEF WaitStep
<1>4. Destroyers \subseteq Threads
  BY SyncAssumption
<1> QED
  BY <1>1, <1>2, <1>3, <1>4, LockBooks, WaitBooks, OtherBooks DEF Next

-----------------------------------------------------------------------------
Inv == ShapeInv /\ RefInv /\ BooksInv

(* The three layers hold together in every reachable state.                *)
THEOREM Invariant == Spec => []Inv
<1>1. Init => Inv
  BY InitShape, InitRef, InitBooks DEF Inv
<1>2. Inv /\ [Next]_vars => Inv'
  BY NextShape, NextRef, NextBooks DEF Inv
<1> QED
  BY <1>1, <1>2, PTL DEF Spec

(* Every variable of sync.c keeps its type; ref_count and count never wrap *)
(* around at either end, although both are unsigned and every path counts  *)
(* up and down by hand.                                                    *)
THEOREM TypeCorrect == Spec => []TypeOK
<1>1. Inv => TypeOK
  <2> SUFFICES ASSUME Inv PROVE TypeOK
    OBVIOUS
  <2>1. Shape /\ MaxRef \in Nat
    BY SyncAssumption DEF Inv, ShapeInv
  <2>2. \A o \in Objects : refs[o] \in 0 .. MaxRef
    BY <2>1, UsersFinite DEF Inv, RefInv, Counted, Shape
  <2>3. \A m \in RecursiveMutexes : count[m] \in 0 .. MaxRef /\ depth[m] \in Nat
    BY <2>1 DEF Inv, BooksInv, RecursiveBooks, Pending
  <2>4. \A m \in Mutexes : depth[m] \in Nat
    BY DEF Inv, BooksInv, MutexBooks
  <2> QED
    BY <2>1, <2>2, <2>3, <2>4 DEF Shape, TypeOK, Locks
<1> QED
  BY <1>1, Invariant, PTL

(* The owner that sync.c keeps beside the primitive always has it.         *)
THEOREM OwnersHoldTheLock == Spec => []OwnerHoldsLock
<1>1. Inv => OwnerHoldsLock
  BY DEF Inv, BooksInv
<1> QED
  BY <1>1, Invariant, PTL

(* count follows the depth of the primitive recursive lock.                *)
THEOREM CountFollowsDepth == Spec => []CountMatchesDepth
<1>1. Inv => CountMatchesDepth
  <2> SUFFICES ASSUME Inv, NEW m \in RecursiveMutexes
               PROVE  /\ depth[m] = count[m]
                        + Cardinality({t \in Threads : pc[t] = "locked" /\ lock[t] = m})
                      /\ owner[m] # None <=> count[m] > 0
    BY DEF CountMatchesDepth
  <2> DEFINE L == {t \in Threads : pc[t] = "locked" /\ lock[t] = m}
  <2>1. depth[m] = count[m] + Pending(m) /\ (owner[m] # None <=> count[m] > 0)
    BY DEF Inv, BooksInv, RecursiveBooks
  <2>2. CASE L = {}
    BY <2>1, <2>2, FS_EmptySet DEF Pending
  <2>3. CASE L # {}
    <3>1. L = {holder[m]}
      BY <2>3 DEF Inv, BooksInv, Holding, Between
    <3>2. Pending(m) = 1 /\ Cardinality(L) = 1
      BY <2>3, <3>1, FS_Singleton DEF Pending
    <3> QED
      BY <2>1, <3>2
  <2> QED
    BY <2>2, <2>3
<1> QED
  BY <1>1, Invariant, PTL

(* The books and the primitives agree, in every window between the two.    *)
THEOREM BooksAreRight == Spec => []BooksAgree
<1>1. TypeOK /\ OwnerHoldsLock /\ CountMatchesDepth => BooksAgree
  BY DEF BooksAgree
<1> QED
  BY <1>1, TypeCorrect, OwnersHoldTheLock, CountFollowsDepth, PTL

(* No call finds its object freed, with any number of threads destroying.  *)
THEOREM CallersAreSafe == Spec => []CallersFindObject
<1>1. Inv => CallersFindObject
  BY DEF Inv, RefInv
<1> QED
  BY <1>1, Invariant, PTL

(* A waiter is on the condition before anybody can own its mutex.          *)
THEOREM GapIsClosed == Spec => []NoSignalGap
<1>1. Inv => NoSignalGap
  BY DEF Inv, BooksInv
<1> QED
  BY <1>1, Invariant, PTL

(* Only a wait with a mutex that is not owned leaks a reference: without   *)
(* such calls ref_count is the number of calls in progress.                *)
THEOREM CarefulCallersCount ==
    ASSUME Careless = {}
    PROVE  Spec => []RefCountIsUsers
<1>1. Inv => RefCountIsUsers
  BY DEF Inv, RefInv, Counted, RefCountIsUsers
<1> QED
  BY <1>1, Invariant, PTL
=============================================================================
