----------------------------- MODULE EventQueue -----------------------------
(***************************************************************************)
(* One event queue, src/source/system/util/queue.c, as the threads that    *)
(* call it see it. Every critical section under util_queue_mutex is one    *)
(* action; between two critical sections of a call the thread's pc says    *)
(* where it is. The two LightEvents are one-shot flags (libctru): Signal   *)
(* sets the flag, a waiter leaves by taking a set flag or by its timeout,  *)
(* and a flag that is set twice before it is taken is still set once.      *)
(*                                                                         *)
(* The list itself is treated by the operators of QueueOps.                *)
(***************************************************************************)
EXTENDS QueueOps, FiniteSets

CONSTANTS
    Producers,  \* threads that call Util_queue_add
    Consumers,  \* threads that call Util_queue_get
    Owners,     \* threads that call Util_queue_create and Util_queue_delete
    Ids,        \* event IDs
    Data,       \* allocations whose pointers go through the queue
    NoData,     \* the NULL pointer
    NoCall,     \* no argument record
    MaxItems    \* max_items of Util_queue_create

Threads == Producers \cup Consumers \cup Owners

(* The arguments of Util_queue_add. Every caller in src/ that asks for     *)
(* DO_NOT_ADD_IF_EXIST passes NULL: the call answers SUCCESS for an event  *)
(* it did not store, so the pointer would have no owner.                   *)
AddCalls == {c \in [id : Ids, data : Data \cup {NoData}, unique : BOOLEAN, front : BOOLEAN] :
                c.unique => c.data = NoData}

ASSUME QueueAssumption ==
    /\ MaxItems \in Nat \ {0}
    /\ IsFiniteSet(Threads)
    /\ NoData \notin Data
    /\ NoCall \notin AddCalls
    /\ {"free", "queued"} \cap Threads = {}

VARIABLES
    exists,         \* data and event_id are allocated
    deleting,       \* deleting
    items,          \* data[] and event_id[] up to next_index
    refCount,       \* reference_count
    receiveEvent,   \* receive_wait_event is signalled
    sendEvent,      \* send_wait_event is signalled
    pc,             \* where each thread is
    call,           \* arguments of a thread's pending Util_queue_add
    keep,           \* whether a pending Util_queue_get has a data pointer
    holder          \* who owns each allocation: a thread, "queued" or "free"

vars == <<exists, deleting, items, refCount, receiveEvent, sendEvent, pc, call, keep, holder>>

Insides == {"addWait", "addRelock", "getWait", "getRelock"}
Deletes == {"delLock", "delReceive", "delSend", "delSleep"}

Init ==
    /\ exists = FALSE
    /\ deleting = FALSE
    /\ items = <<>>
    /\ refCount = 0
    /\ receiveEvent = FALSE
    /\ sendEvent = FALSE
    /\ pc = [t \in Threads |-> "idle"]
    /\ call = [t \in Threads |-> NoCall]
    /\ keep = [t \in Threads |-> FALSE]
    /\ holder = [d \in Data |-> "free"]

Goto(t, where) == pc' = [pc EXCEPT ![t] = where]

Hand(d, to) == holder' = IF d = NoData THEN holder ELSE [holder EXCEPT ![d] = to]

-----------------------------------------------------------------------------
(* The caller's malloc and free; a thread that is inside a call does       *)
(* neither.                                                                *)
Allocate(t, d) ==
    /\ pc[t] = "idle"
    /\ holder[d] = "free"
    /\ holder' = [holder EXCEPT ![d] = t]
    /\ UNCHANGED <<exists, deleting, items, refCount, receiveEvent, sendEvent, pc, call, keep>>

Release(t, d) ==
    /\ pc[t] = "idle"
    /\ holder[d] = t
    /\ holder' = [holder EXCEPT ![d] = "free"]
    /\ UNCHANGED <<exists, deleting, items, refCount, receiveEvent, sendEvent, pc, call, keep>>

-----------------------------------------------------------------------------
(* Util_queue_create. A queue that exists (also one that is being deleted) *)
(* is ALREADY_INITIALIZED and left alone; so is one whose malloc failed.   *)
Create(t) ==
    /\ pc[t] = "idle"
    /\ ~exists
    /\ exists' = TRUE
    /\ deleting' = FALSE
    /\ items' = <<>>
    /\ refCount' = 0
    /\ receiveEvent' = FALSE
    /\ sendEvent' = FALSE
    /\ UNCHANGED <<pc, call, keep, holder>>

-----------------------------------------------------------------------------
(* Util_queue_add. A queue that does not exist or is being deleted answers *)
(* NOT_INITIALIZED and nothing changes, which is no step of this module.   *)

(* Mutant: the list is not looked at again for a free slot.                *)
StoreUnchecked(c) ==
    /\ items' = InsertItem(items, Item(c.id, c.data), c.front)
    /\ Hand(c.data, "queued")
    /\ sendEvent' = FALSE
    /\ receiveEvent' = TRUE

(* The tail of the call, still under the mutex: full is OUT_OF_MEMORY, an  *)
(* event that must not be added twice is SUCCESS, otherwise it is stored,  *)
(* send_wait_event cleared and receive_wait_event signalled.               *)
Store(c) ==
    IF WillStore(items, MaxItems, c.id, c.unique)
    THEN /\ items' = AfterAdd(items, MaxItems, c.id, c.data, c.unique, c.front)
         /\ Hand(c.data, "queued")
         /\ sendEvent' = FALSE
         /\ receiveEvent' = TRUE
    ELSE UNCHANGED <<items, holder, sendEvent, receiveEvent>>

(* First critical section: there is space, or the caller does not wait.    *)
(* reference_count goes up and down again within it.                       *)
AddNow(t, c, wait) ==
    /\ pc[t] = "idle"
    /\ exists /\ ~deleting
    /\ c.data # NoData => holder[c.data] = t
    /\ ~(IsFull(items, MaxItems) /\ wait)
    /\ Store(c)
    /\ UNCHANGED <<exists, deleting, refCount, pc, call, keep>>

(* First critical section: the queue is full and the caller waits.         *)
AddBlock(t, c) ==
    /\ pc[t] = "idle"
    /\ exists /\ ~deleting
    /\ c.data # NoData => holder[c.data] = t
    /\ IsFull(items, MaxItems)
    /\ refCount' = refCount + 1
    /\ call' = [call EXCEPT ![t] = c]
    /\ Goto(t, "addWait")
    /\ UNCHANGED <<exists, deleting, items, receiveEvent, sendEvent, keep, holder>>

(* LightEvent_WaitTimeout(&send_wait_event) returns.                       *)
AddWake(t) ==
    /\ pc[t] = "addWait"
    /\ sendEvent
    /\ sendEvent' = FALSE
    /\ Goto(t, "addRelock")
    /\ UNCHANGED <<exists, deleting, items, refCount, receiveEvent, call, keep, holder>>

AddTimeout(t) ==
    /\ pc[t] = "addWait"
    /\ Goto(t, "addRelock")
    /\ UNCHANGED <<exists, deleting, items, refCount, receiveEvent, sendEvent, call, keep, holder>>

(* Mutant: a delete that began during the wait goes unnoticed.             *)
AddResumeBlind(t) ==
    /\ pc[t] = "addRelock"
    /\ Store(call[t])
    /\ refCount' = refCount - 1
    /\ call' = [call EXCEPT ![t] = NoCall]
    /\ Goto(t, "idle")
    /\ UNCHANGED <<exists, deleting, keep>>

(* Second critical section: a delete that began meanwhile ends the call;   *)
(* otherwise the list is looked at once more, and the call does not wait a *)
(* second time.                                                            *)
AddResume(t) ==
    /\ pc[t] = "addRelock"
    /\ IF deleting
       THEN UNCHANGED <<items, holder, sendEvent, receiveEvent>>
       ELSE Store(call[t])
    /\ refCount' = refCount - 1
    /\ call' = [call EXCEPT ![t] = NoCall]
    /\ Goto(t, "idle")
    /\ UNCHANGED <<exists, deleting, keep>>

-----------------------------------------------------------------------------
(* Util_queue_get, with or without a pointer that receives the data.       *)

(* Mutant: an add that waits for a slot is not woken.                      *)
FetchNoSignal(t, k) ==
    IF items = <<>>
    THEN UNCHANGED <<items, holder, sendEvent, receiveEvent>>
    ELSE /\ items' = Tail(items)
         /\ Hand(Head(items).data, IF k THEN t ELSE "free")
         /\ receiveEvent' = FALSE
         /\ UNCHANGED sendEvent

(* The tail of the call: an empty queue is TRY_AGAIN; otherwise the head   *)
(* leaves, its data goes to the caller or is freed, receive_wait_event is  *)
(* cleared and send_wait_event signalled.                                  *)
Fetch(t, k) ==
    IF items = <<>>
    THEN UNCHANGED <<items, holder, sendEvent, receiveEvent>>
    ELSE /\ items' = Tail(items)
         /\ Hand(Head(items).data, IF k THEN t ELSE "free")
         /\ receiveEvent' = FALSE
         /\ sendEvent' = TRUE

GetNow(t, k, wait) ==
    /\ pc[t] = "idle"
    /\ exists /\ ~deleting
    /\ ~(items = <<>> /\ wait)
    /\ Fetch(t, k)
    /\ UNCHANGED <<exists, deleting, refCount, pc, call, keep>>

GetBlock(t, k) ==
    /\ pc[t] = "idle"
    /\ exists /\ ~deleting
    /\ items = <<>>
    /\ refCount' = refCount + 1
    /\ keep' = [keep EXCEPT ![t] = k]
    /\ Goto(t, "getWait")
    /\ UNCHANGED <<exists, deleting, items, receiveEvent, sendEvent, call, holder>>

GetWake(t) ==
    /\ pc[t] = "getWait"
    /\ receiveEvent
    /\ receiveEvent' = FALSE
    /\ Goto(t, "getRelock")
    /\ UNCHANGED <<exists, deleting, items, refCount, sendEvent, call, keep, holder>>

GetTimeout(t) ==
    /\ pc[t] = "getWait"
    /\ Goto(t, "getRelock")
    /\ UNCHANGED <<exists, deleting, items, refCount, receiveEvent, sendEvent, call, keep, holder>>

(* Mutant: the reference is never given back.                              *)
GetResumeKeepRef(t) ==
    /\ pc[t] = "getRelock"
    /\ IF deleting
       THEN UNCHANGED <<items, holder, sendEvent, receiveEvent>>
       ELSE Fetch(t, keep[t])
    /\ keep' = [keep EXCEPT ![t] = FALSE]
    /\ Goto(t, "idle")
    /\ UNCHANGED <<exists, deleting, refCount, call>>

GetResume(t) ==
    /\ pc[t] = "getRelock"
    /\ IF deleting
       THEN UNCHANGED <<items, holder, sendEvent, receiveEvent>>
       ELSE Fetch(t, keep[t])
    /\ refCount' = refCount - 1
    /\ keep' = [keep EXCEPT ![t] = FALSE]
    /\ Goto(t, "idle")
    /\ UNCHANGED <<exists, deleting, call>>

-----------------------------------------------------------------------------
(* Util_queue_delete. The first test is made without the mutex, so two     *)
(* calls may both pass it.                                                 *)
DeleteCheck(t) ==
    /\ pc[t] = "idle"
    /\ exists /\ ~deleting
    /\ Goto(t, "delLock")
    /\ UNCHANGED <<exists, deleting, items, refCount, receiveEvent, sendEvent, call, keep, holder>>

(* Mutant: only the arrays are freed.                                      *)
FreeArraysOnly ==
    /\ exists' = FALSE
    /\ deleting' = FALSE
    /\ items' = <<>>
    /\ refCount' = 0
    /\ receiveEvent' = FALSE
    /\ sendEvent' = FALSE
    /\ UNCHANGED holder

(* free() of every item's data and of the arrays, and the memset that      *)
(* clears the whole structure.                                             *)
FreeAll ==
    /\ exists' = FALSE
    /\ deleting' = FALSE
    /\ items' = <<>>
    /\ refCount' = 0
    /\ receiveEvent' = FALSE
    /\ sendEvent' = FALSE
    /\ holder' = [d \in Data |-> IF \E i \in 1 .. Len(items) : items[i].data = d
                                 THEN "free" ELSE holder[d]]

DeleteLock(t) ==
    /\ pc[t] = "delLock"
    /\ IF refCount > 0
       THEN /\ deleting' = TRUE
            /\ Goto(t, "delReceive")
            /\ UNCHANGED <<exists, items, refCount, receiveEvent, sendEvent, holder>>
       ELSE /\ FreeAll
            /\ Goto(t, "idle")
    /\ UNCHANGED <<call, keep>>

(* The two LightEvent_Signal calls are made after the mutex is unlocked.   *)
DeleteSignalReceive(t) ==
    /\ pc[t] = "delReceive"
    /\ receiveEvent' = TRUE
    /\ Goto(t, "delSend")
    /\ UNCHANGED <<exists, deleting, items, refCount, sendEvent, call, keep, holder>>

DeleteSignalSend(t) ==
    /\ pc[t] = "delSend"
    /\ sendEvent' = TRUE
    /\ Goto(t, "delSleep")
    /\ UNCHANGED <<exists, deleting, items, refCount, receiveEvent, call, keep, holder>>

(* Mutant: one round of signals is taken for enough.                       *)
DeleteRelockOnce(t) ==
    /\ pc[t] = "delSleep"
    /\ FreeAll
    /\ Goto(t, "idle")
    /\ UNCHANGED <<call, keep>>

(* After the sleep the mutex is taken again and reference_count looked at. *)
DeleteRelock(t) ==
    /\ pc[t] = "delSleep"
    /\ IF refCount > 0
       THEN /\ Goto(t, "delReceive")
            /\ UNCHANGED <<exists, deleting, items, refCount, receiveEvent, sendEvent, holder>>
       ELSE /\ FreeAll
            /\ Goto(t, "idle")
    /\ UNCHANGED <<call, keep>>

-----------------------------------------------------------------------------
AddStep(t) == AddWake(t) \/ AddTimeout(t) \/ AddResume(t)
GetStep(t) == GetWake(t) \/ GetTimeout(t) \/ GetResume(t)
DeleteStep(t) ==
    DeleteLock(t) \/ DeleteSignalReceive(t) \/ DeleteSignalSend(t) \/ DeleteRelock(t)

Next ==
    \/ \E t \in Threads, d \in Data : Allocate(t, d) \/ Release(t, d)
    \/ \E t \in Producers, c \in AddCalls :
        \/ \E wait \in BOOLEAN : AddNow(t, c, wait)
        \/ AddBlock(t, c)
    \/ \E t \in Producers : AddStep(t)
    \/ \E t \in Consumers, k \in BOOLEAN :
        \/ \E wait \in BOOLEAN : GetNow(t, k, wait)
        \/ GetBlock(t, k)
    \/ \E t \in Consumers : GetStep(t)
    \/ \E t \in Owners : Create(t) \/ DeleteCheck(t) \/ DeleteStep(t)

Spec == Init /\ [][Next]_vars

(* A call, once entered, goes on: the scheduler runs every thread again    *)
(* and every wait has a finite timeout. Nothing forces a new call.         *)
Fairness ==
    /\ \A t \in Producers : WF_vars(AddStep(t))
    /\ \A t \in Consumers : WF_vars(GetStep(t))
    /\ \A t \in Owners : WF_vars(DeleteStep(t))

FairSpec == Spec /\ Fairness

-----------------------------------------------------------------------------
Inside == {t \in Threads : pc[t] \in Insides}

TypeOK ==
    /\ exists \in BOOLEAN
    /\ deleting \in BOOLEAN
    /\ items \in Seq([id : Ids, data : Data \cup {NoData}])
    /\ refCount \in Nat
    /\ receiveEvent \in BOOLEAN
    /\ sendEvent \in BOOLEAN
    /\ pc \in [Threads -> {"idle"} \cup Insides \cup Deletes]
    /\ call \in [Threads -> AddCalls \cup {NoCall}]
    /\ keep \in [Threads -> BOOLEAN]
    /\ holder \in [Data -> Threads \cup {"free", "queued"}]

(* reference_count is the number of threads between the two critical       *)
(* sections of an add or a get, and a queue with such a thread is there:   *)
(* Util_queue_delete, even two of them at once, never frees the arrays and *)
(* events a thread is going to look at when it wakes up.                   *)
NoUseAfterDelete ==
    /\ refCount = Cardinality(Inside)
    /\ Inside # {} => exists

(* What a call finds in the queue is there and of its type: refCount, which *)
(* is unsigned and would wrap around, never goes below zero.               *)
UseIsSafe == TypeOK /\ NoUseAfterDelete

(* Every pointer that is in the queue is in it once and is owned by the    *)
(* queue, and the queue owns no other: none is freed twice, none is lost   *)
(* when a call fails, times out or meets a delete.                         *)
OneOwner ==
    /\ \A i, j \in 1 .. Len(items) :
        items[i].data = items[j].data /\ items[i].data # NoData => i = j
    /\ \A d \in Data : holder[d] = "queued" <=> \E i \in 1 .. Len(items) : items[i].data = d

(* With one consumer (every queue of video_player.c and ftp_daemon.c has   *)
(* one) the wake-up of a stored item is never lost, whatever the other     *)
(* threads do: while it waits with an item in the queue its event is set.  *)
ReceiverNotStuck ==
    \A t \in Consumers :
        Consumers = {t} /\ pc[t] = "getWait" /\ items # <<>> => receiveEvent

(* The same for the only producer (the queues of ftp_daemon.c) and a free  *)
(* slot.                                                                   *)
SenderNotStuck ==
    \A t \in Producers :
        Producers = {t} /\ pc[t] = "addWait" /\ ~IsFull(items, MaxItems) => sendEvent

(* A queue that is not being deleted starts a wait only with its event     *)
(* cleared: no signal of an item or a slot that is already gone again.     *)
NoStaleSignal ==
    exists /\ ~deleting /\ (\A t \in Threads : pc[t] \notin Deletes) =>
        /\ items = <<>> => ~receiveEvent
        /\ IsFull(items, MaxItems) => ~sendEvent

(* The two events together.                                                *)
WakeUps == ReceiverNotStuck /\ SenderNotStuck /\ NoStaleSignal

(* Once Util_queue_delete has marked the queue, the list does not change   *)
(* until it is freed: no item is stored or fetched in between.             *)
FrozenWhileDeleting == [][deleting /\ items' # items => ~exists']_vars

(* queue.c implements the mailbox of queue.h, one critical section at a    *)
(* time and the others invisible.                                          *)
Abstract == INSTANCE Mailbox WITH open <- exists, box <- items
AbstractSpec == Abstract!MSpec

(* Every call returns: an add and a get after at most one wait, a delete   *)
(* after the calls inside have left.                                       *)
CallsReturn == \A t \in Threads : pc[t] # "idle" ~> pc[t] = "idle"
=============================================================================
