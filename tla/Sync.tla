-------------------------------- MODULE Sync --------------------------------
(***************************************************************************)
(* The synchronisation objects of src/source/system/util/sync.c: mutexes,  *)
(* recursive mutexes and conditions, each behind a reference count that    *)
(* Util_sync_destroy waits for. A critical section under util_sync_mutex   *)
(* is one action. The libctru primitive inside an object is external: a    *)
(* lock with a holder and a depth, a condition with the set of threads     *)
(* asleep on it; a thread gets the primitive before or after the section   *)
(* that keeps this module's books (owner, count, ref_count), never inside. *)
(*                                                                         *)
(* An object is created once: a later Util_sync_create of the same         *)
(* variable starts over with a fresh allocation.                           *)
(***************************************************************************)
EXTENDS Naturals, FiniteSets

CONSTANTS
    Threads,
    Mutexes,            \* SYNC_TYPE_NON_RECURSIVE_MUTEX objects
    RecursiveMutexes,   \* SYNC_TYPE_RECURSIVE_MUTEX objects
    Conds,              \* SYNC_TYPE_CONDITION objects
    Destroyers,         \* threads that call Util_sync_destroy
    Careless,           \* threads that may wait on a condition with a mutex
                        \* they do not own
    MaxRef,             \* largest ref_count and count (UINT32_MAX)
    None                \* no owner, no object

Locks == Mutexes \cup RecursiveMutexes
Objects == Locks \cup Conds

ASSUME SyncAssumption ==
    /\ IsFiniteSet(Threads)
    /\ MaxRef \in Nat \ {0}
    /\ Mutexes \cap RecursiveMutexes = {}
    /\ Locks \cap Conds = {}
    /\ None \notin Threads \cup Objects
    /\ Destroyers \subseteq Threads
    /\ Careless \subseteq Threads

VARIABLES
    life,       \* "none", "alive" or "freed": internal_object
    refs,       \* ref_count
    owner,      \* owner
    count,      \* count, of recursive mutexes
    holder,     \* thread that has the primitive lock
    depth,      \* how many times it has it
    sleepers,   \* threads asleep on the primitive condition
    pc,         \* where each thread is
    lock,       \* lock object of a thread's pending call
    cond,       \* condition object of a thread's pending call
    target      \* object a thread is destroying

objectVars == <<life, refs, owner, count>>
primitiveVars == <<holder, depth, sleepers>>
threadVars == <<pc, lock, cond, target>>
vars == <<objectVars, primitiveVars, threadVars>>

Init ==
    /\ life = [o \in Objects |-> "none"]
    /\ refs = [o \in Objects |-> 0]
    /\ owner = [m \in Locks |-> None]
    /\ count = [m \in RecursiveMutexes |-> 0]
    /\ holder = [m \in Locks |-> None]
    /\ depth = [m \in Locks |-> 0]
    /\ sleepers = [c \in Conds |-> {}]
    /\ pc = [t \in Threads |-> "idle"]
    /\ lock = [t \in Threads |-> None]
    /\ cond = [t \in Threads |-> None]
    /\ target = [t \in Threads |-> None]

Goto(t, where) == pc' = [pc EXCEPT ![t] = where]

-----------------------------------------------------------------------------
(* The primitives of libctru.                                              *)
CanTake(t, m) == holder[m] = None \/ (m \in RecursiveMutexes /\ holder[m] = t)

TakePrimitive(t, m) ==
    /\ holder' = [holder EXCEPT ![m] = t]
    /\ depth' = [depth EXCEPT ![m] = @ + 1]

DropPrimitive(m) ==
    /\ depth' = [depth EXCEPT ![m] = @ - 1]
    /\ holder' = [holder EXCEPT ![m] = IF depth[m] = 1 THEN None ELSE @]

-----------------------------------------------------------------------------
(* Util_sync_create; ALREADY_INITIALIZED and a failed malloc change nothing. *)
Create(t, o) ==
    /\ pc[t] = "idle"
    /\ life[o] = "none"
    /\ life' = [life EXCEPT ![o] = "alive"]
    /\ UNCHANGED <<refs, owner, count, primitiveVars, threadVars>>

-----------------------------------------------------------------------------
(* Util_sync_lock. It returns at once, with no change, when the object is  *)
(* not there, the reference count or the lock count would overflow, or     *)
(* the thread already owns the non-recursive mutex.                        *)
LockEnter(t, m) ==
    /\ pc[t] = "idle"
    /\ life[m] = "alive"
    /\ refs[m] < MaxRef
    /\ m \in RecursiveMutexes /\ owner[m] = t => count[m] < MaxRef
    /\ m \in Mutexes => owner[m] # t
    /\ refs' = [refs EXCEPT ![m] = @ + 1]
    /\ lock' = [lock EXCEPT ![t] = m]
    /\ Goto(t, "locking")
    /\ UNCHANGED <<life, owner, count, primitiveVars, cond, target>>

(* Mutant: the count only changes for the first lock.                      *)
LockDoneOnce(t) ==
    LET m == lock[t] IN
    /\ pc[t] = "locked"
    /\ owner' = [owner EXCEPT ![m] = t]
    /\ count' = IF m \in RecursiveMutexes THEN [count EXCEPT ![m] = 1] ELSE count
    /\ refs' = [refs EXCEPT ![m] = @ - 1]
    /\ lock' = [lock EXCEPT ![t] = None]
    /\ Goto(t, "idle")
    /\ UNCHANGED <<life, primitiveVars, cond, target>>

LockAcquire(t) ==
    /\ pc[t] = "locking"
    /\ CanTake(t, lock[t])
    /\ TakePrimitive(t, lock[t])
    /\ Goto(t, "locked")
    /\ UNCHANGED <<objectVars, sleepers, lock, cond, target>>

(* A call with a finite wait_us gives up after a TryLock that failed.      *)
LockGiveUp(t) ==
    /\ pc[t] = "locking"
    /\ ~CanTake(t, lock[t])
    /\ Goto(t, "gaveUp")
    /\ UNCHANGED <<objectVars, primitiveVars, lock, cond, target>>

LockDone(t) ==
    LET m == lock[t] IN
    /\ pc[t] = "locked"
    /\ owner' = [owner EXCEPT ![m] = t]
    /\ count' = IF m \in RecursiveMutexes THEN [count EXCEPT ![m] = @ + 1] ELSE count
    /\ refs' = [refs EXCEPT ![m] = @ - 1]
    /\ lock' = [lock EXCEPT ![t] = None]
    /\ Goto(t, "idle")
    /\ UNCHANGED <<life, primitiveVars, cond, target>>

LockFailed(t) ==
    /\ pc[t] = "gaveUp"
    /\ refs' = [refs EXCEPT ![lock[t]] = @ - 1]
    /\ lock' = [lock EXCEPT ![t] = None]
    /\ Goto(t, "idle")
    /\ UNCHANGED <<life, owner, count, primitiveVars, cond, target>>

(* Util_sync_unlock; a caller that is not the owner gets ERR_OTHER.        *)
Unlock(t, m) ==
    /\ pc[t] = "idle"
    /\ life[m] = "alive"
    /\ owner[m] = t
    /\ IF m \in Mutexes
       THEN /\ owner' = [owner EXCEPT ![m] = None]
            /\ UNCHANGED count
       ELSE /\ count[m] # 0
            /\ count' = [count EXCEPT ![m] = @ - 1]
            /\ owner' = [owner EXCEPT ![m] = IF count[m] = 1 THEN None ELSE @]
    /\ DropPrimitive(m)
    /\ UNCHANGED <<life, refs, sleepers, threadVars>>

-----------------------------------------------------------------------------
(* Util_sync_cond_wait. A recursive mutex is INVALID_ARG and changes       *)
(* nothing.                                                                *)
MayWait(t, c, m) ==
    /\ pc[t] = "idle"
    /\ life[c] = "alive" /\ life[m] = "alive"
    /\ refs[c] < MaxRef /\ refs[m] < MaxRef

CountBoth(c, m) == refs' = [refs EXCEPT ![c] = @ + 1, ![m] = @ + 1]
DropBoth(c, m) == refs' = [refs EXCEPT ![c] = @ - 1, ![m] = @ - 1]

(* Mutant: the books keep the owner until the thread wakes up.             *)
WaitEnterOwning(t, c, m) ==
    /\ MayWait(t, c, m)
    /\ owner[m] = t
    /\ CountBoth(c, m)
    /\ lock' = [lock EXCEPT ![t] = m]
    /\ cond' = [cond EXCEPT ![t] = c]
    /\ Goto(t, "toSleep")
    /\ UNCHANGED <<life, owner, count, primitiveVars, target>>

WaitEnter(t, c, m) ==
    /\ MayWait(t, c, m)
    /\ owner[m] = t
    /\ CountBoth(c, m)
    /\ owner' = [owner EXCEPT ![m] = None]
    /\ lock' = [lock EXCEPT ![t] = m]
    /\ cond' = [cond EXCEPT ![t] = c]
    /\ Goto(t, "toSleep")
    /\ UNCHANGED <<life, count, primitiveVars, target>>

(* The caller does not own the mutex: ERR_OTHER, with both reference       *)
(* counts left incremented.                                                *)
WaitWrongOwner(t, c, m) ==
    /\ t \in Careless
    /\ MayWait(t, c, m)
    /\ owner[m] # t
    /\ CountBoth(c, m)
    /\ UNCHANGED <<life, owner, count, primitiveVars, threadVars>>

(* CondVar_Wait: the thread is on the condition before the mutex is free.  *)
WaitSleep(t) ==
    /\ pc[t] = "toSleep"
    /\ sleepers' = [sleepers EXCEPT ![cond[t]] = @ \cup {t}]
    /\ DropPrimitive(lock[t])
    /\ Goto(t, "asleep")
    /\ UNCHANGED <<objectVars, lock, cond, target>>

(* It wakes up because it was signalled, or because its time is over.      *)
WaitWake(t) ==
    /\ pc[t] = "asleep"
    /\ sleepers' = [sleepers EXCEPT ![cond[t]] = @ \ {t}]
    /\ Goto(t, "relock")
    /\ UNCHANGED <<objectVars, holder, depth, lock, cond, target>>

WaitRelock(t) ==
    /\ pc[t] = "relock"
    /\ holder[lock[t]] = None
    /\ TakePrimitive(t, lock[t])
    /\ Goto(t, "relocked")
    /\ UNCHANGED <<objectVars, sleepers, lock, cond, target>>

WaitDone(t) ==
    /\ pc[t] = "relocked"
    /\ owner' = [owner EXCEPT ![lock[t]] = t]
    /\ DropBoth(cond[t], lock[t])
    /\ lock' = [lock EXCEPT ![t] = None]
    /\ cond' = [cond EXCEPT ![t] = None]
    /\ Goto(t, "idle")
    /\ UNCHANGED <<life, count, primitiveVars, target>>

(* Util_sync_cond_signal for one sleeper or, is_broadcast, for all. The    *)
(* woken threads run when they next get the processor.                     *)
Signal(t, c) ==
    /\ pc[t] = "idle"
    /\ life[c] = "alive"
    /\ \E s \in sleepers[c] :
        /\ sleepers' = [sleepers EXCEPT ![c] = @ \ {s}]
        /\ Goto(s, "relock")
    /\ UNCHANGED <<objectVars, holder, depth, lock, cond, target>>

Broadcast(t, c) ==
    /\ pc[t] = "idle"
    /\ life[c] = "alive"
    /\ sleepers' = [sleepers EXCEPT ![c] = {}]
    /\ pc' = [s \in Threads |-> IF s \in sleepers[c] THEN "relock" ELSE pc[s]]
    /\ UNCHANGED <<objectVars, holder, depth, lock, cond, target>>

-----------------------------------------------------------------------------
(* Util_sync_destroy: free the object, or let go of util_sync_mutex, sleep *)
(* and look at the count again. Nothing keeps new calls out meanwhile, and *)
(* the object is not looked up again.                                      *)
DestroyEnter(t, o) ==
    /\ pc[t] = "idle"
    /\ life[o] = "alive"
    /\ IF refs[o] > 0
       THEN /\ target' = [target EXCEPT ![t] = o]
            /\ Goto(t, "destroying")
            /\ UNCHANGED life
       ELSE /\ life' = [life EXCEPT ![o] = "freed"]
            /\ UNCHANGED <<pc, target>>
    /\ UNCHANGED <<refs, owner, count, primitiveVars, lock, cond>>

(* Mutant: the second look at the count is forgotten.                      *)
DestroyAnyway(t) ==
    /\ pc[t] = "destroying"
    /\ life' = [life EXCEPT ![target[t]] = "freed"]
    /\ target' = [target EXCEPT ![t] = None]
    /\ Goto(t, "idle")
    /\ UNCHANGED <<refs, owner, count, primitiveVars, lock, cond>>

DestroyRetry(t) ==
    /\ pc[t] = "destroying"
    /\ refs[target[t]] = 0
    /\ life' = [life EXCEPT ![target[t]] = "freed"]
    /\ target' = [target EXCEPT ![t] = None]
    /\ Goto(t, "idle")
    /\ UNCHANGED <<refs, owner, count, primitiveVars, lock, cond>>

-----------------------------------------------------------------------------
LockStep(t) == LockAcquire(t) \/ LockGiveUp(t) \/ LockDone(t) \/ LockFailed(t)
WaitStep(t) == WaitSleep(t) \/ WaitWake(t) \/ WaitRelock(t) \/ WaitDone(t)

Next ==
    \/ \E t \in Threads :
        \/ \E o \in Objects : Create(t, o)
        \/ \E m \in Locks : LockEnter(t, m) \/ Unlock(t, m)
        \/ LockStep(t)
        \/ \E c \in Conds, m \in Mutexes : WaitEnter(t, c, m) \/ WaitWrongOwner(t, c, m)
        \/ WaitStep(t)
        \/ \E c \in Conds : Signal(t, c) \/ Broadcast(t, c)
    \/ \E t \in Destroyers :
        \/ \E o \in Objects : DestroyEnter(t, o)
        \/ DestroyRetry(t)

Spec == Init /\ [][Next]_vars

-----------------------------------------------------------------------------
Pcs == {"idle", "locking", "locked", "gaveUp", "toSleep", "asleep", "relock",
        "relocked", "destroying"}

TypeOK ==
    /\ life \in [Objects -> {"none", "alive", "freed"}]
    /\ refs \in [Objects -> 0 .. MaxRef]
    /\ owner \in [Locks -> Threads \cup {None}]
    /\ count \in [RecursiveMutexes -> 0 .. MaxRef]
    /\ holder \in [Locks -> Threads \cup {None}]
    /\ depth \in [Locks -> Nat]
    /\ sleepers \in [Conds -> SUBSET Threads]
    /\ pc \in [Threads -> Pcs]
    /\ lock \in [Threads -> Locks \cup {None}]
    /\ cond \in [Threads -> Conds \cup {None}]
    /\ target \in [Threads -> Objects \cup {None}]

(* The thread that the books call the owner really has the primitive, and  *)
(* no other thread is past taking it: what unlock, cond_wait and the       *)
(* already-locked test conclude from owner is true in every window between *)
(* a primitive operation and its bookkeeping.                              *)
OwnerHoldsLock == \A m \in Locks : owner[m] # None => holder[m] = owner[m]

(* count is the depth of the primitive recursive lock except for the one   *)
(* acquisition whose bookkeeping is still to come, so that the unlock that *)
(* forgets the owner is the one that frees the primitive, and count_underflow *)
(* (sync.c:319) is never reached by an owner.                              *)
CountMatchesDepth ==
    \A m \in RecursiveMutexes :
        /\ depth[m] = count[m]
            + Cardinality({t \in Threads : pc[t] = "locked" /\ lock[t] = m})
        /\ owner[m] # None <=> count[m] > 0

(* The books of sync.c and the primitives agree, and no counter of it      *)
(* wraps around.                                                           *)
BooksAgree == TypeOK /\ OwnerHoldsLock /\ CountMatchesDepth

(* The threads inside a call that will still touch the object.             *)
Users(o) == {t \in Threads : o \in {lock[t], cond[t]}}

(* A thread that waits for a lock, sleeps on a condition or is about to    *)
(* write the books never finds the object freed by Util_sync_destroy.      *)
CallersFindObject == \A o \in Objects : Users(o) # {} => life[o] = "alive"

(* Nobody owns a mutex while a waiter that has given it up is not asleep   *)
(* yet: a signal sent by an owner of the mutex cannot fall into the gap    *)
(* and be lost.                                                            *)
NoSignalGap == \A t \in Threads : pc[t] = "toSleep" => owner[lock[t]] = None

(* The reference count is what sync.h:71 says it is, "i.e. other threads   *)
(* don't use it" when it is 0: it counts the calls in progress and nothing *)
(* else, so that Util_sync_destroy does not wait for a call that has       *)
(* returned.                                                               *)
RefCountIsUsers == \A o \in Objects : refs[o] = Cardinality(Users(o))
=============================================================================
