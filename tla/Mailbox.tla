------------------------------- MODULE Mailbox -------------------------------
(***************************************************************************)
(* What queue.h promises of a queue, with no threads, locks, events or     *)
(* reference counts: a bounded list of items that is open or closed, where *)
(* an item enters at the back or, on demand, at the front, leaves only at  *)
(* the front, and takes the ownership of its data with it. Closing frees   *)
(* whatever is still inside, in the same instant.                          *)
(***************************************************************************)
EXTENDS QueueOps

CONSTANTS
    Threads,    \* threads that may own data
    Ids,        \* event IDs
    Data,       \* allocations passed through the mailbox
    NoData,     \* NULL
    MaxItems    \* capacity

VARIABLES
    open,       \* whether the mailbox exists
    box,        \* the items inside, the front first
    holder      \* who owns each allocation: a thread, "queued" or "free"

mvars == <<open, box, holder>>

MInit ==
    /\ open = FALSE
    /\ box = <<>>
    /\ holder = [d \in Data |-> "free"]

(* Ownership of the data of one item moves to "to"; NULL has no owner.     *)
Give(d, to) == IF d = NoData THEN holder ELSE [holder EXCEPT ![d] = to]

Open ==
    /\ ~open
    /\ open' = TRUE
    /\ box' = <<>>
    /\ UNCHANGED holder

Put(t, id, d, front) ==
    /\ open
    /\ ~IsFull(box, MaxItems)
    /\ d # NoData => holder[d] = t
    /\ box' = InsertItem(box, Item(id, d), front)
    /\ holder' = Give(d, "queued")
    /\ UNCHANGED open

Take(t) ==
    /\ open
    /\ box # <<>>
    /\ box' = Tail(box)
    /\ \E to \in {t, "free"} : holder' = Give(Head(box).data, to)
    /\ UNCHANGED open

(* malloc and free in the code around the calls.                           *)
Allocate(t, d) ==
    /\ holder[d] = "free"
    /\ holder' = [holder EXCEPT ![d] = t]
    /\ UNCHANGED <<open, box>>

Release(t, d) ==
    /\ holder[d] = t
    /\ holder' = [holder EXCEPT ![d] = "free"]
    /\ UNCHANGED <<open, box>>

Close ==
    /\ open
    /\ open' = FALSE
    /\ box' = <<>>
    /\ holder' = [d \in Data |-> IF holder[d] = "queued" THEN "free" ELSE holder[d]]

MNext ==
    \/ Open
    \/ Close
    \/ \E t \in Threads :
        \/ Take(t)
        \/ \E id \in Ids, d \in Data \cup {NoData}, front \in BOOLEAN : Put(t, id, d, front)
        \/ \E d \in Data : Allocate(t, d) \/ Release(t, d)

MSpec == MInit /\ [][MNext]_mvars
=============================================================================
