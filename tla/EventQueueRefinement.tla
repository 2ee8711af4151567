------------------------ MODULE EventQueueRefinement ------------------------
(***************************************************************************)
(* Theorems about what is in the queue: who owns it, which events are set, *)
(* and that EventQueue implements Mailbox. Like EventQueueProofs they hold *)
(* for any number of threads and deletes at once.                          *)
(***************************************************************************)
EXTENDS EventQueueProofs, SequenceTheorems

(* An add that waits still owns the data it came with.                     *)
CallOwned ==
    \A t \in Threads :
        pc[t] \in {"addWait", "addRelock"} /\ call[t].data # NoData => holder[call[t].data] = t

Capacity == Len(items) <= MaxItems

ContentInv == OneOwner /\ CallOwned /\ Capacity

-----------------------------------------------------------------------------
(* The effects of the shared tails on the content.                         *)

(* r is q grown by the item x at one of its ends.                          *)
Grown(q, r, x, front) ==
    /\ r \in Seq(Items) /\ Len(r) = Len(q) + 1
    /\ front => r[1] = x /\ \A i \in 1 .. Len(q) : r[i + 1] = q[i]
    /\ ~front => r[Len(r)] = x /\ \A i \in 1 .. Len(q) : r[i] = q[i]

LEMMA InsertContent ==
    ASSUME NEW q \in Seq(Items), NEW x \in Items, NEW front \in BOOLEAN
    PROVE  Grown(q, InsertItem(q, x, front), x, front)
<1> DEFINE r == InsertItem(q, x, front)
<1>1. CASE front
  <2> DEFINE s == <<x>>
  <2>1. r = s \o q
    BY <1>1 DEF InsertItem
  <2>2. s \in Seq(Items) /\ Len(s) = 1 /\ s[1] = x
    OBVIOUS
  <2> HIDE DEF s, r
  <2>3. /\ s \o q \in Seq(Items)
        /\ Len(s \o q) = Len(s) + Len(q)
        /\ \A i \in 1 .. Len(s) + Len(q) :
             (s \o q)[i] = IF i <= Len(s) THEN s[i] ELSE q[i - Len(s)]
    BY <2>2, ConcatProperties, Zenon
  <2>4. Len(q) \in Nat
    OBVIOUS
  <2>5. r \in Seq(Items) /\ Len(r) = Len(q) + 1
    BY <2>1, <2>2, <2>3, <2>4
  <2>6. \A i \in 1 .. 1 + Len(q) : r[i] = IF i <= 1 THEN s[i] ELSE q[i - 1]
    BY <2>1, <2>2, <2>3
  <2>7. r[1] = x
    BY <2>2, <2>4, <2>6
  <2>8. ASSUME NEW i \in 1 .. Len(q) PROVE r[i + 1] = q[i]
    <3>1. i + 1 \in 1 .. 1 + Len(q) /\ (i + 1) - 1 = i /\ ~(i + 1 <= 1)
      BY <2>4
    <3> QED
      BY <2>6, <3>1
  <2>9. Grown(q, r, x, front)
    BY <1>1, <2>5, <2>7, <2>8 DEF Grown
  <2> QED
    BY <2>9 DEF r
<1>2. CASE ~front
  <2>1. r = Append(q, x)
    BY <1>2 DEF InsertItem
  <2> HIDE DEF r
  <2>2. Grown(q, r, x, front)
    BY <1>2, <2>1 DEF Grown
  <2> QED
    BY <2>2 DEF r
<1> QED
  BY <1>1, <1>2

(* Storing data of a thread keeps every item owned once; nobody else's     *)
(* data changes hands.                                                     *)
LEMMA StoreContent ==
    ASSUME TypeOK, OneOwner, Capacity, NEW t \in Threads, NEW c \in AddCalls,
           c.data # NoData => holder[c.data] = t, Store(c)
    PROVE  /\ OneOwner' /\ Capacity'
           /\ \A d \in Data : holder'[d] # holder[d] => d = c.data
<1>0. "queued" \notin Threads /\ MaxItems \in Nat \ {0} /\ NoData \notin Data
  BY QueueAssumption
<1>1. CASE ~WillStore(items, MaxItems, c.id, c.unique)
  BY <1>1 DEF Store, OneOwner, Capacity
<1>2. CASE WillStore(items, MaxItems, c.id, c.unique)
  <2> DEFINE x == Item(c.id, c.data)
  <2>1. items \in Seq(Items) /\ x \in Items /\ c.front \in BOOLEAN /\ x.data = c.data
    BY DEF TypeOK, Items, AddCalls, Item
  <2>2. items' = InsertItem(items, x, c.front) /\ Hand(c.data, "queued")
    BY <1>2 DEF Store, AfterAdd
  <2> HIDE DEF x
  <2>3. /\ items' \in Seq(Items) /\ Len(items') = Len(items) + 1
        /\ c.front => items'[1] = x /\ \A i \in 1 .. Len(items) : items'[i + 1] = items[i]
        /\ ~c.front => items'[Len(items')] = x /\ \A i \in 1 .. Len(items) : items'[i] = items[i]
    <3>1. Grown(items, items', x, c.front)
      BY <2>1, <2>2, InsertContent
    <3> QED
      BY <3>1 DEF Grown
  <2>4. Capacity'
    BY <1>0, <1>2, <2>1, <2>3 DEF WillStore, IsFull, Capacity
  <2>5. c.data # NoData => \A i \in 1 .. Len(items) : items[i].data # c.data
    BY <1>0, <2>1 DEF OneOwner, AddCalls
  <2>6. \A i, j \in 1 .. Len(items') :
          items'[i].data = items'[j].data /\ items'[i].data # NoData => i = j
    <3> SUFFICES ASSUME NEW i \in 1 .. Len(items'), NEW j \in 1 .. Len(items'),
                        items'[i].data = items'[j].data, items'[i].data # NoData
                 PROVE  i = j
      OBVIOUS
    <3>1. CASE c.front
      <4>1. i # 1 => i - 1 \in 1 .. Len(items) /\ items'[i] = items[i - 1]
        BY <2>1, <2>3, <3>1
      <4>2. j # 1 => j - 1 \in 1 .. Len(items) /\ items'[j] = items[j - 1]
        BY <2>1, <2>3, <3>1
      <4>3. items'[1].data = c.data
        BY <2>1, <2>3, <3>1
      <4> QED
        BY <2>5, <4>1, <4>2, <4>3 DEF OneOwner
    <3>2. CASE ~c.front
      <4>1. i # Len(items') => i \in 1 .. Len(items) /\ items'[i] = items[i]
        BY <2>1, <2>3, <3>2
      <4>2. j # Len(items') => j \in 1 .. Len(items) /\ items'[j] = items[j]
        BY <2>1, <2>3, <3>2
      <4>3. items'[Len(items')].data = c.data
        BY <2>1, <2>3, <3>2
      <4> QED
        BY <2>5, <4>1, <4>2, <4>3 DEF OneOwner
    <3> QED
      BY <3>1, <3>2
  <2>7. \A d \in Data : (\E i \in 1 .. Len(items') : items'[i].data = d)
          <=> d = c.data \/ \E i \in 1 .. Len(items) : items[i].data = d
    <3> TAKE d \in Data
    <3>1. CASE c.front
      <4>1. \A i \in 1 .. Len(items') :
              i = 1 \/ (i - 1 \in 1 .. Len(items) /\ items'[i] = items[i - 1])
        BY <2>1, <2>3, <3>1
      <4>2. items'[1].data = c.data /\ 1 \in 1 .. Len(items')
        BY <2>1, <2>3, <3>1
      <4>3. \A i \in 1 .. Len(items) : i + 1 \in 1 .. Len(items') /\ items'[i + 1] = items[i]
        BY <2>1, <2>3, <3>1
      <4> QED
        BY <4>1, <4>2, <4>3
    <3>2. CASE ~c.front
      <4>1. \A i \in 1 .. Len(items') :
              i = Len(items') \/ (i \in 1 .. Len(items) /\ items'[i] = items[i])
        BY <2>1, <2>3, <3>2
      <4>2. items'[Len(items')].data = c.data /\ Len(items') \in 1 .. Len(items')
        BY <2>1, <2>3, <3>2
      <4>3. \A i \in 1 .. Len(items) : i \in 1 .. Len(items') /\ items'[i] = items[i]
        BY <2>1, <2>3, <3>2
      <4> QED
        BY <4>1, <4>2, <4>3
    <3> QED
      BY <3>1, <3>2
  <2>8. \A d \in Data : holder'[d] = IF d = c.data THEN "queued" ELSE holder[d]
    BY <1>0, <2>2 DEF Hand, TypeOK
  <2>9. OneOwner'
    BY <2>6, <2>7, <2>8 DEF OneOwner
  <2> QED
    BY <2>4, <2>8, <2>9
<1> QED
  BY <1>1, <1>2

(* Fetching hands out the data of the head and nothing else.               *)
LEMMA FetchContent ==
    ASSUME TypeOK, OneOwner, Capacity, NEW t \in Threads, NEW k \in BOOLEAN, Fetch(t, k)
    PROVE  /\ OneOwner' /\ Capacity'
           /\ \A d \in Data : holder'[d] # holder[d] => holder[d] = "queued"
<1>0. "queued" \notin Threads /\ MaxItems \in Nat \ {0} /\ NoData \notin Data
  BY QueueAssumption
<1>1. CASE items = <<>>
  BY <1>1 DEF Fetch, OneOwner, Capacity
<1>2. CASE items # <<>>
  <2> DEFINE d1 == Head(items).data
             to == IF k THEN t ELSE "free"
  <2>1. items \in Seq(Items) /\ Len(items) \in Nat /\ Len(items) # 0
    BY <1>2 DEF TypeOK, Items
  <2>2. items' = Tail(items) /\ Hand(d1, to)
    BY <1>2 DEF Fetch
  <2>3. /\ Len(items') = Len(items) - 1
        /\ \A i \in 1 .. Len(items') : items'[i] = items[i + 1] /\ i + 1 \in 1 .. Len(items)
    BY <2>1, <2>2
  <2>4. d1 = items[1].data /\ 1 \in 1 .. Len(items)
    BY <2>1
  <2>5. to # "queued"
    BY <1>0
  <2> HIDE DEF d1, to
  <2>6. Capacity'
    BY <1>0, <2>1, <2>3 DEF Capacity
  <2>7. \A d \in Data : holder'[d] = IF d = d1 THEN to ELSE holder[d]
    BY <1>0, <2>2 DEF Hand, TypeOK
  <2>8. d1 \in Data => holder[d1] = "queued"
    BY <2>4 DEF OneOwner
  <2>9. \A i, j \in 1 .. Len(items') :
          items'[i].data = items'[j].data /\ items'[i].data # NoData => i = j
    <3> SUFFICES ASSUME NEW i \in 1 .. Len(items'), NEW j \in 1 .. Len(items'),
                        items'[i].data = items'[j].data, items'[i].data # NoData
                 PROVE  i = j
      OBVIOUS
    <3>1. i + 1 = j + 1
      BY <2>3 DEF OneOwner
    <3> QED
      BY <2>1, <2>3, <3>1
  <2>10. ASSUME NEW d \in Data
         PROVE  holder'[d] = "queued" <=> \E i \in 1 .. Len(items') : items'[i].data = d
    <3>1. CASE d = d1
      <4>1. \A i \in 1 .. Len(items') : items'[i].data # d
        <5> SUFFICES ASSUME NEW i \in 1 .. Len(items'), items'[i].data = d PROVE FALSE
          OBVIOUS
        <5>1. i + 1 = 1
          BY <1>0, <2>3, <2>4, <3>1 DEF OneOwner
        <5> QED
          BY <2>1, <2>3, <5>1
      <4> QED
        BY <2>5, <2>7, <3>1, <4>1
    <3>2. CASE d # d1
      <4>1. (\E i \in 1 .. Len(items') : items'[i].data = d)
              <=> \E i \in 1 .. Len(items) : items[i].data = d
        <5>1. \A i \in 1 .. Len(items) : i = 1 \/ (i - 1 \in 1 .. Len(items') /\ items'[i - 1] = items[i])
          BY <2>1, <2>3
        <5> QED
          BY <2>3, <2>4, <3>2, <5>1
      <4> QED
        BY <2>7, <3>2, <4>1 DEF OneOwner
    <3> QED
      BY <3>1, <3>2
  <2>11. OneOwner'
    BY <2>9, <2>10 DEF OneOwner
  <2> QED
    BY <2>6, <2>7, <2>8, <2>11
<1> QED
  BY <1>1, <1>2

LEMMA FreeAllContent ==
    ASSUME TypeOK, OneOwner, FreeAll
    PROVE  /\ OneOwner' /\ Capacity'
           /\ \A d \in Data : holder'[d] = IF holder[d] = "queued" THEN "free" ELSE holder[d]
<1>1. \A d \in Data : holder'[d] = IF holder[d] = "queued" THEN "free" ELSE holder[d]
  BY DEF FreeAll, OneOwner
<1>2. items' = <<>> /\ Len(items') = 0
  BY DEF FreeAll
<1>3. Capacity'
  BY <1>2, QueueAssumption DEF Capacity
<1>4. OneOwner'
  BY <1>1, <1>2 DEF OneOwner
<1> QED
  BY <1>1, <1>3, <1>4

(* A step of t that takes nothing from the others leaves them their data.  *)
LEMMA CallOwnedKept ==
    ASSUME IInv, CallOwned, NEW t \in Threads,
           \A s \in Threads \ {t} : pc'[s] = pc[s] /\ call'[s] = call[s],
           \/ pc'[t] \notin {"addWait", "addRelock"}
           \/ call'[t].data # NoData => holder'[call'[t].data] = t,
           \A d \in Data : holder'[d] # holder[d] => holder[d] \in {t, "free", "queued"}
    PROVE  CallOwned'
<1> SUFFICES ASSUME NEW s \in Threads, pc'[s] \in {"addWait", "addRelock"}, call'[s].data # NoData
             PROVE  holder'[call'[s].data] = s
  BY DEF CallOwned
<1>1. CASE s = t
  BY <1>1
<1>2. CASE s # t
  <2>1. pc[s] \in {"addWait", "addRelock"} /\ call'[s] = call[s]
    BY <1>2
  <2>2. call[s].data \in Data
    BY <2>1 DEF IInv, CallPending, AddCalls
  <2>3. holder[call[s].data] = s
    BY <2>1 DEF CallOwned
  <2>4. s \notin {t, "free", "queued"}
    BY <1>2, QueueAssumption
  <2> QED
    BY <2>1, <2>2, <2>3, <2>4
<1> QED
  BY <1>1, <1>2

-----------------------------------------------------------------------------
(* ContentInv is inductive together with IInv.                             *)
LEMMA InitContent == Init => ContentInv
<1> SUFFICES ASSUME Init PROVE ContentInv
  OBVIOUS
<1>1. OneOwner
  BY DEF Init, OneOwner
<1>2. CallOwned
  BY DEF Init, CallOwned
<1>3. Capacity
  BY QueueAssumption DEF Init, Capacity
<1> QED
  BY <1>1, <1>2, <1>3 DEF ContentInv

(* Steps that leave the list and the owners as they are.                   *)
LEMMA SameContent ==
    ASSUME IInv, ContentInv, NEW t \in Threads, items' = items, holder' = holder,
           \A s \in Threads \ {t} : pc'[s] = pc[s] /\ call'[s] = call[s],
           \/ pc'[t] \notin {"addWait", "addRelock"}
           \/ call'[t].data # NoData => holder[call'[t].data] = t
    PROVE  ContentInv'
<1>1. OneOwner' /\ Capacity'
  BY DEF ContentInv, OneOwner, Capacity
<1>2. CallOwned'
  BY CallOwnedKept DEF ContentInv
<1> QED
  BY <1>1, <1>2 DEF ContentInv

LEMMA HeapContent ==
    ASSUME IInv, ContentInv, NEW t \in Threads, NEW d \in Data, Allocate(t, d) \/ Release(t, d)
    PROVE  ContentInv'
<1>0. "queued" \notin Threads
  BY QueueAssumption
<1>1. /\ pc' = pc /\ call' = call /\ items' = items /\ pc[t] = "idle"
      /\ holder[d] \in {t, "free"} /\ holder'[d] \in {t, "free"}
      /\ \A e \in Data \ {d} : holder'[e] = holder[e]
  BY DEF Allocate, Release, IInv, TypeOK
<1>2. OneOwner' /\ Capacity'
  BY <1>0, <1>1 DEF ContentInv, OneOwner, Capacity
<1>3. CallOwned'
  BY <1>1, CallOwnedKept DEF ContentInv
<1> QED
  BY <1>2, <1>3 DEF ContentInv

LEMMA AddContent ==
    ASSUME IInv, ContentInv, NEW t \in Producers
    PROVE  /\ \A c \in AddCalls : (\E wait \in BOOLEAN : AddNow(t, c, wait)) => ContentInv'
           /\ \A c \in AddCalls : AddBlock(t, c) => ContentInv'
           /\ AddStep(t) => ContentInv'
<1> t \in Threads
  BY DEF Threads
<1>1. ASSUME NEW c \in AddCalls, NEW wait \in BOOLEAN, AddNow(t, c, wait) PROVE ContentInv'
  <2>1. c.data # NoData => holder[c.data] = t
    BY <1>1 DEF AddNow
  <2>2. /\ OneOwner' /\ Capacity'
        /\ \A d \in Data : holder'[d] # holder[d] => d = c.data
    BY <1>1, <2>1, StoreContent DEF AddNow, IInv, ContentInv
  <2>3. \A d \in Data : holder'[d] # holder[d] => holder[d] = t
    BY <2>1, <2>2, QueueAssumption
  <2>4. CallOwned'
    BY <1>1, <2>3, CallOwnedKept DEF AddNow, ContentInv
  <2> QED
    BY <2>2, <2>4 DEF ContentInv
<1>2. ASSUME NEW c \in AddCalls, AddBlock(t, c) PROVE ContentInv'
  <2>1. \A s \in Threads \ {t} : pc'[s] = pc[s] /\ call'[s] = call[s]
    BY <1>2 DEF AddBlock, Goto, IInv, TypeOK
  <2>2. call'[t] = c
    BY <1>2 DEF AddBlock, IInv, TypeOK
  <2> QED
    BY <1>2, <2>1, <2>2, SameContent DEF AddBlock
<1>3. ASSUME AddWake(t) \/ AddTimeout(t) PROVE ContentInv'
  <2>1. \A s \in Threads \ {t} : pc'[s] = pc[s] /\ call'[s] = call[s]
    BY <1>3 DEF AddWake, AddTimeout, Goto, IInv, TypeOK
  <2>2. call'[t] = call[t] /\ (call[t].data # NoData => holder[call[t].data] = t)
    BY <1>3 DEF AddWake, AddTimeout, ContentInv, CallOwned
  <2>3. items' = items /\ holder' = holder
    BY <1>3 DEF AddWake, AddTimeout
  <2> QED
    BY <2>1, <2>2, <2>3, SameContent
<1>4. ASSUME AddResume(t) PROVE ContentInv'
  <2>1. /\ \A s \in Threads \ {t} : pc'[s] = pc[s] /\ call'[s] = call[s]
        /\ pc'[t] = "idle"
    BY <1>4 DEF AddResume, Goto, IInv, TypeOK
  <2>2. CASE deleting
    BY <1>4, <2>1, <2>2, SameContent DEF AddResume
  <2>3. CASE ~deleting
    <3>1. call[t] \in AddCalls /\ (call[t].data # NoData => holder[call[t].data] = t)
      BY <1>4 DEF AddResume, IInv, CallPending, ContentInv, CallOwned
    <3>2. /\ OneOwner' /\ Capacity'
          /\ \A d \in Data : holder'[d] # holder[d] => d = call[t].data
      BY <1>4, <2>3, <3>1, StoreContent DEF AddResume, IInv, ContentInv
    <3>3. \A d \in Data : holder'[d] # holder[d] => holder[d] = t
      BY <3>1, <3>2, QueueAssumption
    <3>4. CallOwned'
      BY <2>1, <3>3, CallOwnedKept DEF ContentInv
    <3> QED
      BY <3>2, <3>4 DEF ContentInv
  <2> QED
    BY <2>2, <2>3
<1> QED
  BY <1>1, <1>2, <1>3, <1>4 DEF AddStep

LEMMA GetContent ==
    ASSUME IInv, ContentInv, NEW t \in Consumers
    PROVE  /\ \A k \in BOOLEAN : (\E wait \in BOOLEAN : GetNow(t, k, wait)) => ContentInv'
           /\ \A k \in BOOLEAN : GetBlock(t, k) => ContentInv'
           /\ GetStep(t) => ContentInv'
<1> t \in Threads
  BY DEF Threads
<1>1. ASSUME NEW k \in BOOLEAN, NEW wait \in BOOLEAN, GetNow(t, k, wait) PROVE ContentInv'
  <2>1. /\ OneOwner' /\ Capacity'
        /\ \A d \in Data : holder'[d] # holder[d] => holder[d] = "queued"
    BY <1>1, FetchContent DEF GetNow, IInv, ContentInv
  <2>2. pc[t] = "idle" /\ pc' = pc /\ call' = call
    BY <1>1 DEF GetNow
  <2>3. CallOwned'
    BY <2>1, <2>2, CallOwnedKept DEF ContentInv
  <2> QED
    BY <2>1, <2>3 DEF ContentInv
<1>2. ASSUME (\E k \in BOOLEAN : GetBlock(t, k)) \/ GetWake(t) \/ GetTimeout(t) PROVE ContentInv'
  <2>1. /\ \A s \in Threads \ {t} : pc'[s] = pc[s] /\ call'[s] = call[s]
        /\ pc'[t] \in {"getWait", "getRelock"}
    BY <1>2 DEF GetBlock, GetWake, GetTimeout, Goto, IInv, TypeOK
  <2>2. items' = items /\ holder' = holder
    BY <1>2 DEF GetBlock, GetWake, GetTimeout
  <2> QED
    BY <2>1, <2>2, SameContent
<1>3. ASSUME GetResume(t) PROVE ContentInv'
  <2>1. /\ \A s \in Threads \ {t} : pc'[s] = pc[s] /\ call'[s] = call[s]
        /\ pc'[t] = "idle"
    BY <1>3 DEF GetResume, Goto, IInv, TypeOK
  <2>2. CASE deleting
    BY <1>3, <2>1, <2>2, SameContent DEF GetResume
  <2>3. CASE ~deleting
    <3>1. keep[t] \in BOOLEAN
      BY DEF IInv, TypeOK
    <3>2. /\ OneOwner' /\ Capacity'
          /\ \A d \in Data : holder'[d] # holder[d] => holder[d] = "queued"
      BY <1>3, <2>3, <3>1, FetchContent DEF GetResume, IInv, ContentInv
    <3>3. CallOwned'
      BY <2>1, <3>2, CallOwnedKept DEF ContentInv
    <3> QED
      BY <3>2, <3>3 DEF ContentInv
  <2> QED
    BY <2>2, <2>3
<1> QED
  BY <1>1, <1>2, <1>3 DEF GetStep

LEMMA OwnerContent ==
    ASSUME IInv, ContentInv, NEW t \in Owners
    PROVE  Create(t) \/ DeleteCheck(t) \/ DeleteStep(t) => ContentInv'
<1> t \in Threads
  BY DEF Threads
<1>1. ASSUME Create(t) PROVE ContentInv'
  <2>1. items' = items /\ holder' = holder /\ pc' = pc /\ call' = call /\ pc[t] = "idle"
    BY <1>1 DEF Create, IInv, Absent
  <2> QED
    BY <2>1, SameContent
<1>2. ASSUME \/ DeleteCheck(t) \/ DeleteSignalReceive(t) \/ DeleteSignalSend(t)
             \/ (DeleteLock(t) \/ DeleteRelock(t)) /\ refCount > 0
      PROVE  ContentInv'
  <2>1. /\ \A s \in Threads \ {t} : pc'[s] = pc[s] /\ call'[s] = call[s]
        /\ pc'[t] \in Deletes
    BY <1>2 DEF DeleteCheck, DeleteSignalReceive, DeleteSignalSend, DeleteLock, DeleteRelock,
                Deletes, Goto, IInv, TypeOK
  <2>2. items' = items /\ holder' = holder
    BY <1>2 DEF DeleteCheck, DeleteSignalReceive, DeleteSignalSend, DeleteLock, DeleteRelock
  <2> QED
    BY <2>1, <2>2, SameContent DEF Deletes
<1>3. ASSUME DeleteLock(t) \/ DeleteRelock(t), ~(refCount > 0) PROVE ContentInv'
  <2>1. /\ \A s \in Threads \ {t} : pc'[s] = pc[s] /\ call'[s] = call[s]
        /\ pc'[t] = "idle" /\ FreeAll
    BY <1>3 DEF DeleteLock, DeleteRelock, Goto, IInv, TypeOK
  <2>2. /\ OneOwner' /\ Capacity'
        /\ \A d \in Data : holder'[d] = IF holder[d] = "queued" THEN "free" ELSE holder[d]
    BY <2>1, FreeAllContent DEF IInv, ContentInv
  <2>3. CallOwned'
    <3>1. \A d \in Data : holder'[d] # holder[d] => holder[d] \in {t, "free", "queued"}
      BY <2>2
    <3> QED
      BY <2>1, <3>1, CallOwnedKept DEF ContentInv
  <2> QED
    BY <2>2, <2>3 DEF ContentInv
<1> QED
  BY <1>1, <1>2, <1>3 DEF DeleteStep

LEMMA NextContent == IInv /\ ContentInv /\ [Next]_vars => ContentInv'
<1> SUFFICES ASSUME IInv, ContentInv, [Next]_vars PROVE ContentInv'
  OBVIOUS
<1>1. ASSUME NEW t \in Threads, NEW d \in Data, Allocate(t, d) \/ Release(t, d) PROVE ContentInv'
  BY <1>1, HeapContent
<1>2. ASSUME NEW t \in Producers, NEW c \in AddCalls,
             (\E wait \in BOOLEAN : AddNow(t, c, wait)) \/ AddBlock(t, c)
      PROVE  ContentInv'
  BY <1>2, AddContent
<1>3. ASSUME NEW t \in Producers, AddStep(t) PROVE ContentInv'
  BY <1>3, AddContent
<1>4. ASSUME NEW t \in Consumers, NEW k \in BOOLEAN,
             (\E wait \in BOOLEAN : GetNow(t, k, wait)) \/ GetBlock(t, k)
      PROVE  ContentInv'
  BY <1>4, GetContent
<1>5. ASSUME NEW t \in Consumers, GetStep(t) PROVE ContentInv'
  BY <1>5, GetContent
<1>6. ASSUME NEW t \in Owners, Create(t) \/ DeleteCheck(t) \/ DeleteStep(t) PROVE ContentInv'
  BY <1>6, OwnerContent
<1>7. CASE UNCHANGED vars
  BY <1>7 DEF vars, ContentInv, OneOwner, CallOwned, Capacity
<1> QED
  BY <1>1, <1>2, <1>3, <1>4, <1>5, <1>6, <1>7 DEF Next

(* The queue owns what is in it, and never holds more than max_items.      *)
THEOREM ContentInvariant == Spec => [](IInv /\ ContentInv)
<1>1. Init => IInv /\ ContentInv
  BY InitIInv, InitContent
<1>2. IInv /\ ContentInv /\ [Next]_vars => IInv' /\ ContentInv'
  BY NextIInv, NextContent
<1> QED
  BY <1>1, <1>2, PTL DEF Spec

(* Every pointer in the queue is in it once and owned by it, for any       *)
(* number of threads: no double free and no leak.                          *)
THEOREM PointersHaveOneOwner == Spec => []OneOwner
<1>1. IInv /\ ContentInv => OneOwner
  BY DEF ContentInv
<1> QED
  BY <1>1, ContentInvariant, PTL

-----------------------------------------------------------------------------
(* The two wake-up properties and the absence of left-over signals.        *)
EventInv == ReceiverNotStuck /\ SenderNotStuck /\ NoStaleSignal

(* What a step does to the list and the events: nothing, a signal to the   *)
(* receiver with an item put in, or one to the sender with one taken out.  *)
Stored ==
    /\ Len(items') = Len(items) + 1 /\ items' # <<>>
    /\ receiveEvent' /\ ~sendEvent'

Fetched ==
    /\ items # <<>> /\ Len(items') = Len(items) - 1
    /\ ~receiveEvent' /\ sendEvent'

SameList == items' = items /\ receiveEvent' = receiveEvent /\ sendEvent' = sendEvent

LEMMA StoreEffect ==
    ASSUME TypeOK, NEW c \in AddCalls, Store(c)
    PROVE  Stored \/ SameList
<1>1. CASE ~WillStore(items, MaxItems, c.id, c.unique)
  BY <1>1 DEF Store, SameList
<1>2. CASE WillStore(items, MaxItems, c.id, c.unique)
  <2> DEFINE x == Item(c.id, c.data)
  <2>1. items \in Seq(Items) /\ x \in Items /\ c.front \in BOOLEAN
    BY DEF TypeOK, Items, AddCalls, Item
  <2>2. items' = InsertItem(items, x, c.front) /\ ~sendEvent' /\ receiveEvent'
    BY <1>2 DEF Store, AfterAdd
  <2> HIDE DEF x
  <2>3. Grown(items, items', x, c.front)
    BY <2>1, <2>2, InsertContent
  <2>4. items' \in Seq(Items) /\ Len(items') = Len(items) + 1 /\ Len(items) \in Nat
    BY <2>1, <2>3 DEF Grown
  <2> QED
    BY <2>2, <2>4 DEF Stored
<1> QED
  BY <1>1, <1>2

LEMMA FetchEffect ==
    ASSUME TypeOK, NEW t \in Threads, NEW k \in BOOLEAN, Fetch(t, k)
    PROVE  Fetched \/ SameList
<1>1. items \in Seq(Items)
  BY DEF TypeOK, Items
<1> QED
  BY <1>1 DEF Fetch, Fetched, SameList

(* Util_queue_add: only its own thread goes to sleep, and only with the    *)
(* list full.                                                              *)
LEMMA AddEvents ==
    ASSUME IInv, ContentInv, EventInv, NEW t \in Producers,
           \/ \E c \in AddCalls : (\E wait \in BOOLEAN : AddNow(t, c, wait)) \/ AddBlock(t, c)
           \/ AddStep(t)
    PROVE  EventInv'
<1> t \in Threads /\ Len(items) \in Nat /\ MaxItems \in Nat \ {0}
  BY QueueAssumption DEF Threads, IInv, TypeOK
<1>1. ASSUME NEW c \in AddCalls, NEW wait \in BOOLEAN, AddNow(t, c, wait) PROVE EventInv'
  <2>1. Stored \/ SameList
    BY <1>1, StoreEffect DEF AddNow, IInv
  <2>2. pc' = pc /\ exists' = exists /\ deleting' = deleting /\ pc[t] = "idle"
    BY <1>1 DEF AddNow
  <2>3. ReceiverNotStuck'
    BY <2>1, <2>2 DEF EventInv, ReceiverNotStuck, Stored, SameList
  <2>4. SenderNotStuck'
    BY <2>1, <2>2 DEF EventInv, SenderNotStuck, Stored, SameList, IsFull
  <2>5. NoStaleSignal'
    BY <2>1, <2>2 DEF EventInv, NoStaleSignal, Stored, SameList, IsFull
  <2> QED
    BY <2>3, <2>4, <2>5 DEF EventInv
<1>2. ASSUME NEW c \in AddCalls, AddBlock(t, c) PROVE EventInv'
  <2>1. /\ SameList /\ exists' = exists /\ deleting' = deleting
        /\ IsFull(items, MaxItems) /\ pc[t] = "idle"
        /\ pc' = [pc EXCEPT ![t] = "addWait"]
    BY <1>2 DEF AddBlock, SameList, Goto
  <2>2. pc'[t] = "addWait" /\ \A s \in Threads \ {t} : pc'[s] = pc[s]
    BY <2>1 DEF IInv, TypeOK
  <2>3. ReceiverNotStuck'
    BY <2>1, <2>2 DEF EventInv, ReceiverNotStuck, SameList, Threads
  <2>4. SenderNotStuck'
    BY <2>1, <2>2 DEF EventInv, SenderNotStuck, SameList, IsFull, Threads
  <2>5. NoStaleSignal'
    BY <2>1, <2>2 DEF EventInv, NoStaleSignal, SameList, IsFull, Deletes
  <2> QED
    BY <2>3, <2>4, <2>5 DEF EventInv
<1>3. ASSUME AddWake(t) \/ AddTimeout(t) PROVE EventInv'
  <2>1. /\ items' = items /\ receiveEvent' = receiveEvent /\ exists' = exists /\ deleting' = deleting
        /\ sendEvent' \in {sendEvent, FALSE} /\ pc[t] = "addWait"
        /\ pc' = [pc EXCEPT ![t] = "addRelock"]
    BY <1>3 DEF AddWake, AddTimeout, Goto
  <2>2. pc'[t] = "addRelock" /\ \A s \in Threads \ {t} : pc'[s] = pc[s]
    BY <2>1 DEF IInv, TypeOK
  <2>3. ReceiverNotStuck'
    BY <2>1, <2>2 DEF EventInv, ReceiverNotStuck, Threads
  <2>4. SenderNotStuck'
    BY <2>1, <2>2 DEF EventInv, SenderNotStuck, IsFull, Threads
  <2>5. NoStaleSignal'
    BY <2>1, <2>2 DEF EventInv, NoStaleSignal, IsFull, Deletes
  <2> QED
    BY <2>3, <2>4, <2>5 DEF EventInv
<1>4. ASSUME AddResume(t) PROVE EventInv'
  <2>1. /\ exists' = exists /\ deleting' = deleting /\ pc[t] = "addRelock"
        /\ pc' = [pc EXCEPT ![t] = "idle"]
    BY <1>4 DEF AddResume, Goto
  <2>2. pc'[t] = "idle" /\ \A s \in Threads \ {t} : pc'[s] = pc[s]
    BY <2>1 DEF IInv, TypeOK
  <2>3. Stored \/ SameList
    BY <1>4, StoreEffect DEF AddResume, IInv, CallPending, SameList
  <2>4. ReceiverNotStuck'
    BY <2>1, <2>2, <2>3 DEF EventInv, ReceiverNotStuck, Stored, SameList, Threads
  <2>5. SenderNotStuck'
    BY <2>1, <2>2, <2>3 DEF EventInv, SenderNotStuck, Stored, SameList, IsFull, Threads
  <2>6. NoStaleSignal'
    BY <2>1, <2>2, <2>3 DEF EventInv, NoStaleSignal, Stored, SameList, IsFull, Deletes
  <2> QED
    BY <2>4, <2>5, <2>6 DEF EventInv
<1> QED
  BY <1>1, <1>2, <1>3, <1>4 DEF AddStep

LEMMA GetEvents ==
    ASSUME IInv, ContentInv, EventInv, NEW t \in Consumers,
           \/ \E k \in BOOLEAN : (\E wait \in BOOLEAN : GetNow(t, k, wait)) \/ GetBlock(t, k)
           \/ GetStep(t)
    PROVE  EventInv'
<1> t \in Threads /\ Len(items) \in Nat /\ MaxItems \in Nat \ {0} /\ Len(items) <= MaxItems
  BY QueueAssumption DEF Threads, IInv, TypeOK, ContentInv, Capacity
<1>1. ASSUME NEW k \in BOOLEAN, NEW wait \in BOOLEAN, GetNow(t, k, wait) PROVE EventInv'
  <2>1. Fetched \/ SameList
    BY <1>1, FetchEffect DEF GetNow, IInv
  <2>2. pc' = pc /\ exists' = exists /\ deleting' = deleting /\ pc[t] = "idle"
    BY <1>1 DEF GetNow
  <2>3. ReceiverNotStuck'
    BY <2>1, <2>2 DEF EventInv, ReceiverNotStuck, Fetched, SameList
  <2>4. SenderNotStuck'
    BY <2>1, <2>2 DEF EventInv, SenderNotStuck, Fetched, SameList, IsFull
  <2>5. NoStaleSignal'
    BY <2>1, <2>2 DEF EventInv, NoStaleSignal, Fetched, SameList, IsFull
  <2> QED
    BY <2>3, <2>4, <2>5 DEF EventInv
<1>2. ASSUME NEW k \in BOOLEAN, GetBlock(t, k) PROVE EventInv'
  <2>1. /\ SameList /\ exists' = exists /\ deleting' = deleting
        /\ items = <<>> /\ pc[t] = "idle"
        /\ pc' = [pc EXCEPT ![t] = "getWait"]
    BY <1>2 DEF GetBlock, SameList, Goto
  <2>2. pc'[t] = "getWait" /\ \A s \in Threads \ {t} : pc'[s] = pc[s]
    BY <2>1 DEF IInv, TypeOK
  <2>3. ReceiverNotStuck'
    BY <2>1, <2>2 DEF EventInv, ReceiverNotStuck, SameList, Threads
  <2>4. SenderNotStuck'
    BY <2>1, <2>2 DEF EventInv, SenderNotStuck, SameList, IsFull, Threads
  <2>5. NoStaleSignal'
    BY <2>1, <2>2 DEF EventInv, NoStaleSignal, SameList, IsFull, Deletes
  <2> QED
    BY <2>3, <2>4, <2>5 DEF EventInv
<1>3. ASSUME GetWake(t) \/ GetTimeout(t) PROVE EventInv'
  <2>1. /\ items' = items /\ sendEvent' = sendEvent /\ exists' = exists /\ deleting' = deleting
        /\ receiveEvent' \in {receiveEvent, FALSE} /\ pc[t] = "getWait"
        /\ pc' = [pc EXCEPT ![t] = "getRelock"]
    BY <1>3 DEF GetWake, GetTimeout, Goto
  <2>2. pc'[t] = "getRelock" /\ \A s \in Threads \ {t} : pc'[s] = pc[s]
    BY <2>1 DEF IInv, TypeOK
  <2>3. ReceiverNotStuck'
    BY <2>1, <2>2 DEF EventInv, ReceiverNotStuck, Threads
  <2>4. SenderNotStuck'
    BY <2>1, <2>2 DEF EventInv, SenderNotStuck, IsFull, Threads
  <2>5. NoStaleSignal'
    BY <2>1, <2>2 DEF EventInv, NoStaleSignal, IsFull, Deletes
  <2> QED
    BY <2>3, <2>4, <2>5 DEF EventInv
<1>4. ASSUME GetResume(t) PROVE EventInv'
  <2>1. /\ exists' = exists /\ deleting' = deleting /\ pc[t] = "getRelock"
        /\ pc' = [pc EXCEPT ![t] = "idle"]
    BY <1>4 DEF GetResume, Goto
  <2>2. pc'[t] = "idle" /\ \A s \in Threads \ {t} : pc'[s] = pc[s]
    BY <2>1 DEF IInv, TypeOK
  <2>3. Fetched \/ SameList
    BY <1>4, FetchEffect DEF GetResume, IInv, TypeOK, SameList
  <2>4. ReceiverNotStuck'
    BY <2>1, <2>2, <2>3 DEF EventInv, ReceiverNotStuck, Fetched, SameList, Threads
  <2>5. SenderNotStuck'
    BY <2>1, <2>2, <2>3 DEF EventInv, SenderNotStuck, Fetched, SameList, IsFull, Threads
  <2>6. NoStaleSignal'
    BY <2>1, <2>2, <2>3 DEF EventInv, NoStaleSignal, Fetched, SameList, IsFull, Deletes
  <2> QED
    BY <2>4, <2>5, <2>6 DEF EventInv
<1> QED
  BY <1>1, <1>2, <1>3, <1>4 DEF GetStep

(* Create and delete: the events are cleared with nobody inside, and set   *)
(* only while the thread is in its delete.                                 *)
LEMMA OwnerEvents ==
    ASSUME IInv, EventInv, NEW t \in Owners, Create(t) \/ DeleteCheck(t) \/ DeleteStep(t)
    PROVE  EventInv'
<1> t \in Threads
  BY DEF Threads
<1>1. ASSUME Create(t) PROVE EventInv'
  <2>1. /\ Inside = {} /\ pc' = pc /\ items' = <<>> /\ ~receiveEvent' /\ ~sendEvent'
    BY <1>1 DEF Create, IInv, NoUseAfterDelete
  <2>2. \A s \in Threads : pc'[s] \notin Insides
    BY <2>1 DEF Inside
  <2> QED
    BY <2>1, <2>2 DEF EventInv, ReceiverNotStuck, SenderNotStuck, NoStaleSignal, Insides, Threads
<1>2. ASSUME \/ DeleteCheck(t) \/ DeleteSignalReceive(t) \/ DeleteSignalSend(t)
             \/ (DeleteLock(t) \/ DeleteRelock(t)) /\ refCount > 0
      PROVE  EventInv'
  <2>1. /\ items' = items /\ pc'[t] \in Deletes
        /\ (receiveEvent => receiveEvent') /\ (sendEvent => sendEvent')
        /\ \A s \in Threads \ {t} : pc'[s] = pc[s]
    BY <1>2 DEF DeleteCheck, DeleteSignalReceive, DeleteSignalSend, DeleteLock, DeleteRelock,
                Deletes, Goto, IInv, TypeOK
  <2> \A s \in Threads : pc'[s] \in {"addWait", "getWait"} => pc'[s] = pc[s]
    BY <2>1 DEF Deletes
  <2>2. ReceiverNotStuck'
    BY <2>1 DEF EventInv, ReceiverNotStuck, Threads
  <2>3. SenderNotStuck'
    BY <2>1 DEF EventInv, SenderNotStuck, IsFull, Threads
  <2>4. NoStaleSignal'
    BY <2>1 DEF NoStaleSignal
  <2> QED
    BY <2>2, <2>3, <2>4 DEF EventInv
<1>3. ASSUME DeleteLock(t) \/ DeleteRelock(t), ~(refCount > 0) PROVE EventInv'
  <2>1. /\ items' = <<>> /\ ~exists' /\ pc'[t] = "idle"
        /\ \A s \in Threads \ {t} : pc'[s] = pc[s]
    BY <1>3 DEF DeleteLock, DeleteRelock, FreeAll, Goto, IInv, TypeOK
  <2>2. Inside = {}
    BY <1>3, NobodyInside DEF IInv, TypeOK
  <2>3. \A s \in Threads : pc'[s] \notin Insides
    BY <2>1, <2>2 DEF Inside, Insides
  <2> QED
    BY <2>1, <2>3 DEF EventInv, ReceiverNotStuck, SenderNotStuck, NoStaleSignal, Insides, Threads
<1> QED
  BY <1>1, <1>2, <1>3 DEF DeleteStep

LEMMA NextEvents == IInv /\ ContentInv /\ EventInv /\ [Next]_vars => EventInv'
<1> SUFFICES ASSUME IInv, ContentInv, EventInv, [Next]_vars PROVE EventInv'
  OBVIOUS
<1>1. ASSUME NEW t \in Threads, NEW d \in Data, Allocate(t, d) \/ Release(t, d) PROVE EventInv'
  BY <1>1 DEF Allocate, Release, EventInv, ReceiverNotStuck, SenderNotStuck, NoStaleSignal
<1>2. ASSUME NEW t \in Producers,
             \/ \E c \in AddCalls : (\E wait \in BOOLEAN : AddNow(t, c, wait)) \/ AddBlock(t, c)
             \/ AddStep(t)
      PROVE  EventInv'
  BY <1>2, AddEvents
<1>3. ASSUME NEW t \in Consumers,
             \/ \E k \in BOOLEAN : (\E wait \in BOOLEAN : GetNow(t, k, wait)) \/ GetBlock(t, k)
             \/ GetStep(t)
      PROVE  EventInv'
  BY <1>3, GetEvents
<1>4. ASSUME NEW t \in Owners, Create(t) \/ DeleteCheck(t) \/ DeleteStep(t) PROVE EventInv'
  BY <1>4, OwnerEvents
<1>5. CASE UNCHANGED vars
  BY <1>5 DEF vars, EventInv, ReceiverNotStuck, SenderNotStuck, NoStaleSignal
<1> QED
  BY <1>1, <1>2, <1>3, <1>4, <1>5 DEF Next

LEMMA InitEvents == Init => EventInv
BY DEF Init, EventInv, ReceiverNotStuck, SenderNotStuck, NoStaleSignal, Threads

(* The events of queue.c follow its list, whatever is waiting.             *)
THEOREM EventInvariant == Spec => []EventInv
<1>1. Init => IInv /\ ContentInv /\ EventInv
  BY InitIInv, InitContent, InitEvents
<1>2. IInv /\ ContentInv /\ EventInv /\ [Next]_vars => IInv' /\ ContentInv' /\ EventInv'
  BY NextIInv, NextContent, NextEvents
<1> QED
  BY <1>1, <1>2, PTL DEF Spec

(* The only consumer of a queue never waits with an item in the list and   *)
(* its event clear, however many threads add and delete.                   *)
THEOREM ReceiverIsWoken == Spec => []ReceiverNotStuck
<1>1. EventInv => ReceiverNotStuck
  BY DEF EventInv
<1> QED
  BY <1>1, EventInvariant, PTL

(* The same for the only producer of a queue and a free slot.              *)
THEOREM SenderIsWoken == Spec => []SenderNotStuck
<1>1. EventInv => SenderNotStuck
  BY DEF EventInv
<1> QED
  BY <1>1, EventInvariant, PTL

(* No event outlives the item or the slot it announced, unless a delete    *)
(* set it.                                                                 *)
THEOREM SignalsAreFresh == Spec => []NoStaleSignal
<1>1. EventInv => NoStaleSignal
  BY DEF EventInv
<1> QED
  BY <1>1, EventInvariant, PTL

(* Both events: no wake-up is lost and none is late.                       *)
THEOREM WakeUpsAreRight == Spec => []WakeUps
<1>1. EventInv => WakeUps
  BY DEF EventInv, WakeUps
<1> QED
  BY <1>1, EventInvariant, PTL

-----------------------------------------------------------------------------
(* A queue that is being deleted keeps its list until it is freed: only    *)
(* Util_queue_add and Util_queue_get change a list without freeing it, and *)
(* both look at deleting after every wait.                                 *)
THEOREM ListIsFrozen == Spec => FrozenWhileDeleting
<1>1. ASSUME IInv, [Next]_vars, deleting, items' # items PROVE ~exists'
  <2>0. exists
    BY <1>1 DEF IInv, Absent
  <2>1. ASSUME NEW t \in Threads, NEW d \in Data, Allocate(t, d) \/ Release(t, d) PROVE FALSE
    BY <1>1, <2>1 DEF Allocate, Release
  <2>2. ASSUME NEW t \in Producers, NEW c \in AddCalls,
               (\E wait \in BOOLEAN : AddNow(t, c, wait)) \/ AddBlock(t, c)
        PROVE  FALSE
    BY <1>1, <2>2 DEF AddNow, AddBlock
  <2>3. ASSUME NEW t \in Producers, AddStep(t) PROVE FALSE
    BY <1>1, <2>3 DEF AddStep, AddWake, AddTimeout, AddResume
  <2>4. ASSUME NEW t \in Consumers, NEW k \in BOOLEAN,
               (\E wait \in BOOLEAN : GetNow(t, k, wait)) \/ GetBlock(t, k)
        PROVE  FALSE
    BY <1>1, <2>4 DEF GetNow, GetBlock
  <2>5. ASSUME NEW t \in Consumers, GetStep(t) PROVE FALSE
    BY <1>1, <2>5 DEF GetStep, GetWake, GetTimeout, GetResume
  <2>6. ASSUME NEW t \in Owners, Create(t) \/ DeleteCheck(t) \/ DeleteStep(t) PROVE ~exists'
    BY <1>1, <2>0, <2>6 DEF Create, DeleteCheck, DeleteStep, DeleteLock, DeleteSignalReceive,
                            DeleteSignalSend, DeleteRelock, FreeAll
  <2>7. ~UNCHANGED vars
    BY <1>1 DEF vars
  <2> QED
    BY <1>1, <2>1, <2>2, <2>3, <2>4, <2>5, <2>6, <2>7 DEF Next
<1>2. IInv /\ [Next]_vars => [deleting /\ items' # items => ~exists']_vars
  BY <1>1
<1> QED
  BY <1>2, Invariant, PTL DEF Spec, FrozenWhileDeleting

-----------------------------------------------------------------------------
(* The mailbox. A critical section of queue.c is one of its steps, or one  *)
(* that it does not see.                                                   *)
MailboxStep == Abstract!MNext \/ UNCHANGED Abstract!mvars

LEMMA StorePuts ==
    ASSUME IInv, exists, NEW t \in Threads, NEW c \in AddCalls,
           c.data # NoData => holder[c.data] = t, Store(c), exists' = exists
    PROVE  MailboxStep
<1>1. CASE ~WillStore(items, MaxItems, c.id, c.unique)
  BY <1>1 DEF Store, MailboxStep, Abstract!mvars
<1>2. CASE WillStore(items, MaxItems, c.id, c.unique)
  <2>1. c.id \in Ids /\ c.data \in Data \cup {NoData} /\ c.front \in BOOLEAN
    BY DEF AddCalls
  <2>2. /\ ~IsFull(items, MaxItems) /\ Hand(c.data, "queued")
        /\ items' = InsertItem(items, Item(c.id, c.data), c.front)
    BY <1>2 DEF Store, AfterAdd, WillStore
  <2>3. Abstract!Put(t, c.id, c.data, c.front)
    BY <2>2 DEF Hand, IsFull, InsertItem, Item, Abstract!Put, Abstract!Give,
                Abstract!IsFull, Abstract!InsertItem, Abstract!Item
  <2> QED
    BY <2>1, <2>3 DEF MailboxStep, Abstract!MNext
<1> QED
  BY <1>1, <1>2

LEMMA FetchTakes ==
    ASSUME IInv, exists, NEW t \in Threads, NEW k \in BOOLEAN, Fetch(t, k), exists' = exists
    PROVE  MailboxStep
<1>1. CASE items = <<>>
  BY <1>1 DEF Fetch, MailboxStep, Abstract!mvars
<1>2. CASE items # <<>>
  <2>1. Abstract!Take(t)
    BY <1>2 DEF Fetch, Hand, Abstract!Take, Abstract!Give
  <2> QED
    BY <2>1 DEF MailboxStep, Abstract!MNext
<1> QED
  BY <1>1, <1>2

(* The second of two deletes finds a queue that does not exist and frees   *)
(* nothing.                                                                *)
LEMMA FreeAllCloses ==
    ASSUME IInv, OneOwner, FreeAll
    PROVE  MailboxStep
<1>1. /\ ~exists' /\ items' = <<>>
      /\ holder' = [d \in Data |-> IF holder[d] = "queued" THEN "free" ELSE holder[d]]
  <2>1. ~exists' /\ items' = <<>>
    BY DEF FreeAll
  <2>2. \A d \in Data : holder[d] = "queued" <=> \E i \in 1 .. Len(items) : items[i].data = d
    BY DEF OneOwner
  <2> QED
    BY <2>1, <2>2 DEF FreeAll
<1>2. CASE exists
  <2>1. Abstract!Close
    BY <1>1, <1>2 DEF FreeAll, Abstract!Close
  <2> QED
    BY <2>1 DEF MailboxStep, Abstract!MNext
<1>3. CASE ~exists
  <2>1. items = <<>> /\ exists' = exists
    BY <1>1, <1>3 DEF IInv, Absent, TypeOK, FreeAll
  <2>2. \A d \in Data : holder[d] # "queued"
    BY <2>1 DEF OneOwner
  <2>3. holder' = holder
    BY <1>1, <2>2 DEF IInv, TypeOK
  <2> QED
    BY <1>1, <2>1, <2>3 DEF MailboxStep, Abstract!mvars
<1> QED
  BY <1>2, <1>3

LEMMA NextMailbox == IInv /\ ContentInv /\ [Next]_vars => MailboxStep
<1> SUFFICES ASSUME IInv, ContentInv, [Next]_vars PROVE MailboxStep
  OBVIOUS
<1>1. ASSUME NEW t \in Threads, NEW d \in Data, Allocate(t, d) \/ Release(t, d) PROVE MailboxStep
  <2>1. Abstract!Allocate(t, d) \/ Abstract!Release(t, d)
    BY <1>1 DEF Allocate, Release, Abstract!Allocate, Abstract!Release
  <2> QED
    BY <2>1 DEF MailboxStep, Abstract!MNext
<1>2. ASSUME NEW t \in Producers, NEW c \in AddCalls, NEW wait \in BOOLEAN, AddNow(t, c, wait)
      PROVE  MailboxStep
  BY <1>2, StorePuts DEF AddNow, Threads
<1>3. ASSUME NEW t \in Producers, AddResume(t) PROVE MailboxStep
  <2>1. /\ t \in Threads /\ call[t] \in AddCalls /\ exists
        /\ call[t].data # NoData => holder[call[t].data] = t
    BY <1>3 DEF AddResume, Threads, IInv, CallPending, NoUseAfterDelete, Inside, Insides,
                ContentInv, CallOwned
  <2>2. CASE deleting
    BY <1>3, <2>2 DEF AddResume, MailboxStep, Abstract!mvars
  <2>3. CASE ~deleting
    BY <1>3, <2>1, <2>3, StorePuts DEF AddResume
  <2> QED
    BY <2>2, <2>3
<1>4. ASSUME NEW t \in Consumers, NEW k \in BOOLEAN, NEW wait \in BOOLEAN, GetNow(t, k, wait)
      PROVE  MailboxStep
  BY <1>4, FetchTakes DEF GetNow, Threads
<1>5. ASSUME NEW t \in Consumers, GetResume(t) PROVE MailboxStep
  <2>1. t \in Threads /\ keep[t] \in BOOLEAN /\ exists
    BY <1>5 DEF GetResume, Threads, IInv, TypeOK, NoUseAfterDelete, Inside, Insides
  <2>2. CASE deleting
    BY <1>5, <2>2 DEF GetResume, MailboxStep, Abstract!mvars
  <2>3. CASE ~deleting
    BY <1>5, <2>1, <2>3, FetchTakes DEF GetResume
  <2> QED
    BY <2>2, <2>3
<1>6. ASSUME NEW t \in Owners, Create(t) PROVE MailboxStep
  <2>1. Abstract!Open
    BY <1>6 DEF Create, Abstract!Open
  <2> QED
    BY <2>1 DEF MailboxStep, Abstract!MNext
<1>7. ASSUME NEW t \in Owners, DeleteLock(t) \/ DeleteRelock(t), ~(refCount > 0) PROVE MailboxStep
  BY <1>7, FreeAllCloses DEF DeleteLock, DeleteRelock, ContentInv
<1>8. ASSUME UNCHANGED <<exists, items, holder>> PROVE MailboxStep
  BY <1>8 DEF MailboxStep, Abstract!mvars
<1>9. ASSUME NEW t \in Threads,
             \/ \E c \in AddCalls : AddBlock(t, c)
             \/ AddWake(t) \/ AddTimeout(t)
             \/ \E k \in BOOLEAN : GetBlock(t, k)
             \/ GetWake(t) \/ GetTimeout(t)
             \/ DeleteCheck(t) \/ DeleteSignalReceive(t) \/ DeleteSignalSend(t)
             \/ (DeleteLock(t) \/ DeleteRelock(t)) /\ refCount > 0
      PROVE  UNCHANGED <<exists, items, holder>>
  BY <1>9 DEF AddBlock, AddWake, AddTimeout, GetBlock, GetWake, GetTimeout, DeleteCheck,
              DeleteSignalReceive, DeleteSignalSend, DeleteLock, DeleteRelock
<1>10. ASSUME NEW t \in Producers, NEW c \in AddCalls, AddBlock(t, c) PROVE MailboxStep
  BY <1>8, <1>9, <1>10 DEF Threads
<1>11. ASSUME NEW t \in Producers, AddStep(t) PROVE MailboxStep
  BY <1>3, <1>8, <1>9, <1>11 DEF AddStep, Threads
<1>12. ASSUME NEW t \in Consumers, NEW k \in BOOLEAN, GetBlock(t, k) PROVE MailboxStep
  BY <1>8, <1>9, <1>12 DEF Threads
<1>13. ASSUME NEW t \in Consumers, GetStep(t) PROVE MailboxStep
  BY <1>5, <1>8, <1>9, <1>13 DEF GetStep, Threads
<1>14. ASSUME NEW t \in Owners, DeleteCheck(t) \/ DeleteStep(t) PROVE MailboxStep
  BY <1>7, <1>8, <1>9, <1>14 DEF DeleteStep, Threads
<1>15. CASE UNCHANGED vars
  BY <1>8, <1>15 DEF vars
<1> QED
  BY <1>1, <1>2, <1>4, <1>6, <1>10, <1>11, <1>12, <1>13, <1>14, <1>15 DEF Next

(* queue.c implements the mailbox of queue.h: whatever is waiting, timing  *)
(* out or being deleted, items enter, leave and are freed as if each call  *)
(* were one step.                                                          *)
THEOREM QueueIsMailbox == Spec => AbstractSpec
<1>1. Init => Abstract!MInit
  BY DEF Init, Abstract!MInit
<1>2. IInv /\ ContentInv /\ [Next]_vars => [Abstract!MNext]_(Abstract!mvars)
  BY NextMailbox DEF MailboxStep
<1> QED
  BY <1>1, <1>2, ContentInvariant, PTL DEF Spec, AbstractSpec, Abstract!MSpec
=============================================================================
