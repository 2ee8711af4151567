-------------------------- MODULE EventQueueProofs --------------------------
(***************************************************************************)
(* Proofs about EventQueue, for any number of threads, events, allocations *)
(* and any capacity.                                                       *)
(***************************************************************************)
EXTENDS EventQueue, FiniteSetTheorems, TLAPS

Items == [id : Ids, data : Data \cup {NoData}]

(* A thread inside an add has its arguments.                               *)
CallPending ==
    \A t \in Threads : pc[t] \in {"addWait", "addRelock"} => call[t] \in AddCalls

(* A queue that does not exist is all zero, as the memset left it.         *)
Absent == ~exists => items = <<>> /\ ~deleting /\ refCount = 0

IInv == TypeOK /\ NoUseAfterDelete /\ CallPending /\ Absent

-----------------------------------------------------------------------------
(* What the list operators return.                                         *)
LEMMA AfterAddType ==
    ASSUME NEW q \in Seq(Items), NEW c \in AddCalls
    PROVE  AfterAdd(q, MaxItems, c.id, c.data, c.unique, c.front) \in Seq(Items)
<1>1. Item(c.id, c.data) \in Items
  BY DEF AddCalls, Items, Item
<1>2. Append(q, Item(c.id, c.data)) \in Seq(Items)
  BY <1>1
<1>3. <<Item(c.id, c.data)>> \o q \in Seq(Items)
  BY <1>1
<1> QED
  BY <1>2, <1>3 DEF AfterAdd, InsertItem

(* A step that moves no thread into or out of a call.                      *)
LEMMA InsideSame ==
    ASSUME \A s \in Threads : pc'[s] \in Insides <=> pc[s] \in Insides
    PROVE  Inside' = Inside
BY DEF Inside

LEMMA InsideFinite == IsFiniteSet(Inside)
BY QueueAssumption, FS_Subset DEF Inside

(* A thread that enters a call adds one to the number inside, one that     *)
(* leaves takes one off.                                                   *)
LEMMA InsideEnter ==
    ASSUME NEW t \in Threads, pc \in [Threads -> {"idle"} \cup Insides \cup Deletes],
           pc[t] \notin Insides, NEW w \in Insides, Goto(t, w)
    PROVE  Inside' = Inside \cup {t} /\ Cardinality(Inside') = Cardinality(Inside) + 1
<1>1. Inside' = Inside \cup {t} /\ t \notin Inside
  BY DEF Inside, Goto
<1> QED
  BY <1>1, InsideFinite, FS_AddElement

LEMMA InsideLeave ==
    ASSUME NEW t \in Threads, pc \in [Threads -> {"idle"} \cup Insides \cup Deletes],
           pc[t] \in Insides, Goto(t, "idle")
    PROVE  /\ Inside' = Inside \ {t}
           /\ Cardinality(Inside') = Cardinality(Inside) - 1
           /\ Cardinality(Inside) # 0
<1>1. Inside' = Inside \ {t} /\ t \in Inside
  BY DEF Inside, Goto, Insides
<1>2. Cardinality(Inside') = Cardinality(Inside) - 1
  BY <1>1, InsideFinite, FS_RemoveElement
<1>3. Cardinality(Inside) # 0
  BY <1>1, InsideFinite, FS_EmptySet
<1> QED
  BY <1>1, <1>2, <1>3

(* No reference means nobody inside: what Util_queue_delete relies on.     *)
LEMMA NobodyInside ==
    ASSUME IInv, refCount = 0
    PROVE  Inside = {}
BY InsideFinite, FS_EmptySet DEF IInv, NoUseAfterDelete

-----------------------------------------------------------------------------
(* The effect of the two shared tails on the types.                        *)
LEMMA StoreType ==
    ASSUME TypeOK, NEW c \in AddCalls, Store(c)
    PROVE  /\ items' \in Seq(Items)
           /\ holder' \in [Data -> Threads \cup {"free", "queued"}]
           /\ sendEvent' \in BOOLEAN
           /\ receiveEvent' \in BOOLEAN
<1>1. items \in Seq(Items)
  BY DEF TypeOK, Items
<1>2. AfterAdd(items, MaxItems, c.id, c.data, c.unique, c.front) \in Seq(Items)
  BY <1>1, AfterAddType
<1> QED
  BY <1>1, <1>2 DEF TypeOK, Store, Hand

LEMMA FetchType ==
    ASSUME TypeOK, NEW t \in Threads, NEW k \in BOOLEAN, Fetch(t, k)
    PROVE  /\ items' \in Seq(Items)
           /\ holder' \in [Data -> Threads \cup {"free", "queued"}]
           /\ sendEvent' \in BOOLEAN
           /\ receiveEvent' \in BOOLEAN
<1>1. items \in Seq(Items)
  BY DEF TypeOK, Items
<1>2. items # <<>> => Tail(items) \in Seq(Items)
  BY <1>1
<1> QED
  BY <1>1, <1>2 DEF TypeOK, Fetch, Hand

LEMMA EmptyType == <<>> \in Seq(Items)
OBVIOUS

LEMMA FreeAllType ==
    ASSUME TypeOK, FreeAll
    PROVE  /\ items' \in Seq(Items)
           /\ holder' \in [Data -> Threads \cup {"free", "queued"}]
BY EmptyType DEF TypeOK, FreeAll

-----------------------------------------------------------------------------
LEMMA InitIInv == Init => IInv
<1> SUFFICES ASSUME Init PROVE IInv
  OBVIOUS
<1>1. TypeOK
  BY EmptyType DEF Init, TypeOK, Items
<1>2. Inside = {}
  BY DEF Init, Inside, Insides
<1>3. NoUseAfterDelete
  BY <1>2, FS_EmptySet DEF Init, NoUseAfterDelete
<1>4. CallPending /\ Absent
  BY DEF Init, CallPending, Absent
<1> QED
  BY <1>1, <1>3, <1>4 DEF IInv

(* The steps that leave every thread where it is.                          *)
LEMMA StayIInv ==
    ASSUME IInv, pc' = pc, call' = call, keep' = keep,
           exists' = exists, exists, deleting' = deleting, refCount' = refCount,
           items' \in Seq(Items),
           holder' \in [Data -> Threads \cup {"free", "queued"}],
           sendEvent' \in BOOLEAN, receiveEvent' \in BOOLEAN
    PROVE  IInv'
<1>1. TypeOK'
  BY DEF IInv, TypeOK, Items
<1>2. Inside' = Inside
  BY DEF Inside
<1>3. NoUseAfterDelete'
  BY <1>2 DEF IInv, NoUseAfterDelete
<1> QED
  BY <1>1, <1>3 DEF IInv, CallPending, Absent

(* A thread starts to wait in an add or a get.                             *)
LEMMA EnterIInv ==
    ASSUME IInv, NEW t \in Threads, NEW w \in Insides,
           pc[t] \notin Insides, Goto(t, w),
           exists, exists' = exists, deleting' = deleting,
           refCount' = refCount + 1, items' = items, holder' = holder,
           sendEvent' = sendEvent, receiveEvent' = receiveEvent,
           call' \in [Threads -> AddCalls \cup {NoCall}],
           keep' \in [Threads -> BOOLEAN],
           CallPending'
    PROVE  IInv'
<1>1. TypeOK'
  <2>1. refCount' \in Nat
    BY DEF IInv, TypeOK
  <2>2. pc' \in [Threads -> {"idle"} \cup Insides \cup Deletes]
    BY DEF IInv, TypeOK, Goto
  <2> QED
    BY <2>1, <2>2 DEF IInv, TypeOK
<1>2. Cardinality(Inside') = Cardinality(Inside) + 1
  BY InsideEnter DEF IInv, TypeOK
<1>3. NoUseAfterDelete'
  BY <1>2 DEF IInv, NoUseAfterDelete
<1>4. Absent'
  BY DEF Absent
<1> QED
  BY <1>1, <1>3, <1>4 DEF IInv

(* A thread leaves an add or a get.                                        *)
LEMMA LeaveIInv ==
    ASSUME IInv, NEW t \in Threads, pc[t] \in Insides, Goto(t, "idle"),
           exists' = exists, deleting' = deleting, refCount' = refCount - 1,
           items' \in Seq(Items),
           holder' \in [Data -> Threads \cup {"free", "queued"}],
           sendEvent' \in BOOLEAN, receiveEvent' \in BOOLEAN,
           call' \in [Threads -> AddCalls \cup {NoCall}],
           keep' \in [Threads -> BOOLEAN],
           CallPending'
    PROVE  IInv'
<1>1. /\ Inside' = Inside \ {t}
      /\ Cardinality(Inside') = Cardinality(Inside) - 1
      /\ Cardinality(Inside) # 0
  BY InsideLeave DEF IInv, TypeOK
<1>2. refCount \in Nat /\ refCount # 0
  BY <1>1 DEF IInv, TypeOK, NoUseAfterDelete
<1>3. exists
  BY <1>2 DEF IInv, Absent
<1>4. TypeOK'
  <2>1. refCount' \in Nat
    BY <1>2
  <2>2. pc' \in [Threads -> {"idle"} \cup Insides \cup Deletes]
    BY DEF IInv, TypeOK, Goto
  <2> QED
    BY <2>1, <2>2 DEF IInv, TypeOK, Items
<1>5. NoUseAfterDelete'
  BY <1>1, <1>3 DEF IInv, NoUseAfterDelete
<1>6. Absent'
  BY <1>3 DEF Absent
<1> QED
  BY <1>4, <1>5, <1>6 DEF IInv

(* A thread's wait ends.                                                   *)
LEMMA MoveIInv ==
    ASSUME IInv, NEW t \in Threads, NEW w, Goto(t, w),
           <<pc[t], w>> \in {<<"addWait", "addRelock">>, <<"getWait", "getRelock">>},
           exists' = exists, exists, deleting' \in BOOLEAN,
           refCount' = refCount, items' = items, holder' = holder,
           sendEvent' \in BOOLEAN, receiveEvent' \in BOOLEAN,
           call' = call, keep' = keep
    PROVE  IInv'
<1>1. TypeOK'
  BY DEF IInv, TypeOK, Goto, Insides, Deletes
<1>2. Inside' = Inside
  BY DEF IInv, TypeOK, Inside, Goto, Insides, Deletes
<1>3. NoUseAfterDelete'
  BY <1>2 DEF IInv, NoUseAfterDelete
<1>4. CallPending'
  BY DEF IInv, TypeOK, CallPending, Goto, Insides, Deletes
<1>5. Absent'
  BY DEF Absent
<1> QED
  BY <1>1, <1>3, <1>4, <1>5 DEF IInv

(* The queue is freed once nobody is inside.                               *)
LEMMA FreeIInv ==
    ASSUME IInv, NEW t \in Threads, pc[t] \in Deletes, Goto(t, "idle"),
           refCount = 0, FreeAll, call' = call, keep' = keep
    PROVE  IInv'
<1>1. TypeOK'
  BY FreeAllType DEF IInv, TypeOK, Goto, FreeAll, Items
<1>2. Inside' = {}
  BY NobodyInside DEF IInv, TypeOK, Inside, Goto, Insides
<1>3. NoUseAfterDelete'
  BY <1>2, FS_EmptySet DEF NoUseAfterDelete, FreeAll
<1>4. CallPending'
  BY DEF IInv, TypeOK, CallPending, Goto
<1>5. Absent'
  BY DEF Absent, FreeAll
<1> QED
  BY <1>1, <1>3, <1>4, <1>5 DEF IInv

-----------------------------------------------------------------------------
(* One step of the next-state relation, action by action.                  *)
LEMMA HeapIInv ==
    ASSUME IInv, NEW t \in Threads, NEW d \in Data, Allocate(t, d) \/ Release(t, d)
    PROVE  IInv'
<1>1. TypeOK'
  BY DEF IInv, TypeOK, Allocate, Release
<1>2. Inside' = Inside
  BY DEF Allocate, Release, Inside
<1>3. NoUseAfterDelete'
  BY <1>2 DEF IInv, NoUseAfterDelete, Allocate, Release
<1>4. CallPending' /\ Absent'
  BY DEF IInv, CallPending, Absent, Allocate, Release
<1> QED
  BY <1>1, <1>3, <1>4 DEF IInv

LEMMA CreateIInv ==
    ASSUME IInv, NEW t \in Owners, Create(t)
    PROVE  IInv'
<1>1. TypeOK'
  BY EmptyType DEF IInv, TypeOK, Create, Items
<1>2. Inside = {} /\ Inside' = Inside
  BY DEF IInv, NoUseAfterDelete, Create, Inside
<1>3. NoUseAfterDelete'
  BY <1>2, FS_EmptySet DEF NoUseAfterDelete, Create
<1>4. CallPending' /\ Absent'
  BY DEF IInv, CallPending, Absent, Create
<1> QED
  BY <1>1, <1>3, <1>4 DEF IInv

LEMMA AddIInv ==
    ASSUME IInv, NEW t \in Producers
    PROVE  /\ \A c \in AddCalls : (\E wait \in BOOLEAN : AddNow(t, c, wait)) => IInv'
           /\ \A c \in AddCalls : AddBlock(t, c) => IInv'
           /\ AddStep(t) => IInv'
<1> t \in Threads
  BY DEF Threads
<1>1. ASSUME NEW c \in AddCalls, NEW wait \in BOOLEAN, AddNow(t, c, wait) PROVE IInv'
  <2>1. /\ items' \in Seq(Items)
        /\ holder' \in [Data -> Threads \cup {"free", "queued"}]
        /\ sendEvent' \in BOOLEAN
        /\ receiveEvent' \in BOOLEAN
    BY <1>1, StoreType DEF AddNow, IInv
  <2> QED
    BY <1>1, <2>1, StayIInv DEF AddNow
<1>2. ASSUME NEW c \in AddCalls, AddBlock(t, c) PROVE IInv'
  <2>1. call' \in [Threads -> AddCalls \cup {NoCall}] /\ keep' \in [Threads -> BOOLEAN]
    BY <1>2 DEF AddBlock, IInv, TypeOK
  <2>2. CallPending'
    BY <1>2 DEF AddBlock, IInv, TypeOK, CallPending, Goto
  <2> QED
    BY <1>2, <2>1, <2>2, EnterIInv DEF AddBlock, Insides
<1>3. ASSUME AddWake(t) \/ AddTimeout(t) PROVE IInv'
  <2>0. pc[t] = "addWait" /\ Goto(t, "addRelock")
    BY <1>3 DEF AddWake, AddTimeout
  <2>1. exists
    BY <1>3 DEF AddWake, AddTimeout, IInv, NoUseAfterDelete, Inside, Insides
  <2>2. sendEvent' \in BOOLEAN /\ receiveEvent' \in BOOLEAN /\ deleting' \in BOOLEAN
    BY <1>3 DEF AddWake, AddTimeout, IInv, TypeOK
  <2>3. /\ exists' = exists /\ refCount' = refCount /\ items' = items
        /\ holder' = holder /\ call' = call /\ keep' = keep
    BY <1>3 DEF AddWake, AddTimeout
  <2> QED
    BY <2>0, <2>1, <2>2, <2>3, MoveIInv
<1>4. ASSUME AddResume(t) PROVE IInv'
  <2>1. call[t] \in AddCalls
    BY <1>4 DEF AddResume, IInv, CallPending
  <2>2. /\ items' \in Seq(Items)
        /\ holder' \in [Data -> Threads \cup {"free", "queued"}]
        /\ sendEvent' \in BOOLEAN
        /\ receiveEvent' \in BOOLEAN
    <3>1. CASE deleting
      BY <1>4, <3>1 DEF AddResume, IInv, TypeOK, Items
    <3>2. CASE ~deleting
      BY <1>4, <2>1, <3>2, StoreType DEF AddResume, IInv
    <3> QED
      BY <3>1, <3>2
  <2>3. call' \in [Threads -> AddCalls \cup {NoCall}] /\ keep' \in [Threads -> BOOLEAN]
    BY <1>4 DEF AddResume, IInv, TypeOK
  <2>4. CallPending'
    BY <1>4 DEF AddResume, IInv, TypeOK, CallPending, Goto
  <2> QED
    BY <1>4, <2>2, <2>3, <2>4, LeaveIInv DEF AddResume, Insides
<1> QED
  BY <1>1, <1>2, <1>3, <1>4 DEF AddStep

LEMMA GetIInv ==
    ASSUME IInv, NEW t \in Consumers
    PROVE  /\ \A k \in BOOLEAN : (\E wait \in BOOLEAN : GetNow(t, k, wait)) => IInv'
           /\ \A k \in BOOLEAN : GetBlock(t, k) => IInv'
           /\ GetStep(t) => IInv'
<1> t \in Threads
  BY DEF Threads
<1>1. ASSUME NEW k \in BOOLEAN, NEW wait \in BOOLEAN, GetNow(t, k, wait) PROVE IInv'
  <2>1. /\ items' \in Seq(Items)
        /\ holder' \in [Data -> Threads \cup {"free", "queued"}]
        /\ sendEvent' \in BOOLEAN
        /\ receiveEvent' \in BOOLEAN
    BY <1>1, FetchType DEF GetNow, IInv
  <2> QED
    BY <1>1, <2>1, StayIInv DEF GetNow
<1>2. ASSUME NEW k \in BOOLEAN, GetBlock(t, k) PROVE IInv'
  <2>1. call' \in [Threads -> AddCalls \cup {NoCall}] /\ keep' \in [Threads -> BOOLEAN]
    BY <1>2 DEF GetBlock, IInv, TypeOK
  <2>2. CallPending'
    BY <1>2 DEF GetBlock, IInv, TypeOK, CallPending, Goto
  <2> QED
    BY <1>2, <2>1, <2>2, EnterIInv DEF GetBlock, Insides
<1>3. ASSUME GetWake(t) \/ GetTimeout(t) PROVE IInv'
  <2>0. pc[t] = "getWait" /\ Goto(t, "getRelock")
    BY <1>3 DEF GetWake, GetTimeout
  <2>1. exists
    BY <1>3 DEF GetWake, GetTimeout, IInv, NoUseAfterDelete, Inside, Insides
  <2>2. sendEvent' \in BOOLEAN /\ receiveEvent' \in BOOLEAN /\ deleting' \in BOOLEAN
    BY <1>3 DEF GetWake, GetTimeout, IInv, TypeOK
  <2>3. /\ exists' = exists /\ refCount' = refCount /\ items' = items
        /\ holder' = holder /\ call' = call /\ keep' = keep
    BY <1>3 DEF GetWake, GetTimeout
  <2> QED
    BY <2>0, <2>1, <2>2, <2>3, MoveIInv
<1>4. ASSUME GetResume(t) PROVE IInv'
  <2>1. keep[t] \in BOOLEAN
    BY DEF IInv, TypeOK
  <2>2. /\ items' \in Seq(Items)
        /\ holder' \in [Data -> Threads \cup {"free", "queued"}]
        /\ sendEvent' \in BOOLEAN
        /\ receiveEvent' \in BOOLEAN
    <3>1. CASE deleting
      BY <1>4, <3>1 DEF GetResume, IInv, TypeOK, Items
    <3>2. CASE ~deleting
      BY <1>4, <2>1, <3>2, FetchType DEF GetResume, IInv
    <3> QED
      BY <3>1, <3>2
  <2>3. call' \in [Threads -> AddCalls \cup {NoCall}] /\ keep' \in [Threads -> BOOLEAN]
    BY <1>4 DEF GetResume, IInv, TypeOK
  <2>4. CallPending'
    BY <1>4 DEF GetResume, IInv, TypeOK, CallPending, Goto
  <2> QED
    BY <1>4, <2>2, <2>3, <2>4, LeaveIInv DEF GetResume, Insides
<1> QED
  BY <1>1, <1>2, <1>3, <1>4 DEF GetStep

(* A thread inside Util_queue_delete may find the queue freed by another   *)
(* call of Util_queue_delete, so the moves between the rounds say nothing  *)
(* about exists; a queue that is gone has only its events set.             *)
LEMMA DeleteMoveIInv ==
    ASSUME IInv, NEW t \in Threads, NEW w \in Deletes, Goto(t, w), pc[t] \notin Insides,
           exists' = exists, refCount' = refCount, items' = items, holder' = holder,
           deleting' = deleting \/ (exists /\ deleting' \in BOOLEAN),
           sendEvent' \in BOOLEAN, receiveEvent' \in BOOLEAN,
           call' = call, keep' = keep
    PROVE  IInv'
<1>1. TypeOK'
  BY DEF IInv, TypeOK, Goto
<1>2. Inside' = Inside
  BY DEF IInv, TypeOK, Inside, Goto, Insides, Deletes
<1>3. NoUseAfterDelete'
  BY <1>2 DEF IInv, NoUseAfterDelete
<1>4. CallPending'
  BY DEF IInv, TypeOK, CallPending, Goto, Insides, Deletes
<1>5. Absent'
  BY DEF IInv, Absent
<1> QED
  BY <1>1, <1>3, <1>4, <1>5 DEF IInv

LEMMA DeleteIInv ==
    ASSUME IInv, NEW t \in Owners
    PROVE  /\ DeleteCheck(t) => IInv'
           /\ DeleteStep(t) => IInv'
<1> t \in Threads
  BY DEF Threads
<1>1. ASSUME DeleteCheck(t) PROVE IInv'
  BY <1>1, DeleteMoveIInv DEF DeleteCheck, Insides, Deletes, IInv, TypeOK
<1>2. ASSUME DeleteSignalReceive(t) \/ DeleteSignalSend(t) PROVE IInv'
  BY <1>2, DeleteMoveIInv DEF DeleteSignalReceive, DeleteSignalSend, Insides, Deletes, IInv, TypeOK
<1>3. ASSUME DeleteLock(t), refCount > 0 PROVE IInv'
  <2>1. exists
    BY <1>3 DEF IInv, TypeOK, Absent
  <2> QED
    BY <1>3, <2>1, DeleteMoveIInv DEF DeleteLock, Insides, Deletes, IInv, TypeOK
<1>4. ASSUME DeleteRelock(t), refCount > 0 PROVE IInv'
  BY <1>4, DeleteMoveIInv DEF DeleteRelock, Insides, Deletes, IInv, TypeOK
<1>5. ASSUME DeleteLock(t) \/ DeleteRelock(t), ~(refCount > 0) PROVE IInv'
  <2>1. refCount = 0
    BY <1>5 DEF IInv, TypeOK
  <2> QED
    BY <1>5, <2>1, FreeIInv DEF DeleteLock, DeleteRelock, Deletes
<1> QED
  BY <1>1, <1>2, <1>3, <1>4, <1>5 DEF DeleteStep

LEMMA NextIInv == IInv /\ [Next]_vars => IInv'
<1> SUFFICES ASSUME IInv, [Next]_vars PROVE IInv'
  OBVIOUS
<1>1. ASSUME NEW t \in Threads, NEW d \in Data, Allocate(t, d) \/ Release(t, d) PROVE IInv'
  BY <1>1, HeapIInv
<1>2. ASSUME NEW t \in Producers, NEW c \in AddCalls,
             (\E wait \in BOOLEAN : AddNow(t, c, wait)) \/ AddBlock(t, c)
      PROVE  IInv'
  BY <1>2, AddIInv
<1>3. ASSUME NEW t \in Producers, AddStep(t) PROVE IInv'
  BY <1>3, AddIInv
<1>4. ASSUME NEW t \in Consumers, NEW k \in BOOLEAN,
             (\E wait \in BOOLEAN : GetNow(t, k, wait)) \/ GetBlock(t, k)
      PROVE  IInv'
  BY <1>4, GetIInv
<1>5. ASSUME NEW t \in Consumers, GetStep(t) PROVE IInv'
  BY <1>5, GetIInv
<1>6. ASSUME NEW t \in Owners, Create(t) \/ DeleteCheck(t) \/ DeleteStep(t) PROVE IInv'
  BY <1>6, CreateIInv, DeleteIInv
<1>7. CASE UNCHANGED vars
  <2>1. Inside' = Inside
    BY <1>7 DEF vars, Inside
  <2> QED
    BY <1>7, <2>1 DEF vars, IInv, TypeOK, NoUseAfterDelete, CallPending, Absent
<1> QED
  BY <1>1, <1>2, <1>3, <1>4, <1>5, <1>6, <1>7 DEF Next

THEOREM Invariant == Spec => []IInv
BY InitIInv, NextIInv, PTL DEF Spec

(* Every variable of the queue keeps its type, refCount included: it never *)
(* goes below zero.                                                        *)
THEOREM TypeCorrect == Spec => []TypeOK
<1>1. IInv => TypeOK
  BY DEF IInv
<1> QED
  BY <1>1, Invariant, PTL

(* reference_count counts the threads inside, and the queue is there while *)
(* it is not zero, for any number of producers, consumers and deleters.    *)
THEOREM NeverUsedAfterDelete == Spec => []NoUseAfterDelete
<1>1. IInv => NoUseAfterDelete
  BY DEF IInv
<1> QED
  BY <1>1, Invariant, PTL

(* What a call finds in a queue is there and of its type, whatever deletes *)
(* and creates there are in between.                                       *)
THEOREM CallsAreSafe == Spec => []UseIsSafe
<1>1. TypeOK /\ NoUseAfterDelete => UseIsSafe
  BY DEF UseIsSafe
<1> QED
  BY <1>1, TypeCorrect, NeverUsedAfterDelete, PTL
=============================================================================
