------------------------------ MODULE QueueOps ------------------------------
(***************************************************************************)
(* The list part of the event queue (src/source/system/util/queue.c): the  *)
(* two arrays data[] and event_id[] up to next_index are one sequence of   *)
(* items, an item being a record with the fields id (event_id) and data.   *)
(* These operators say what the critical sections of Util_queue_add and    *)
(* Util_queue_get do to it. They are used by EventQueue, which adds the    *)
(* locking, waiting and deletion around them, and by Player, which takes a *)
(* call on a queue as one step.                                            *)
(***************************************************************************)
EXTENDS Naturals, Sequences

Item(id, data) == [id |-> id, data |-> data]

IsFull(q, maxItems) == Len(q) >= maxItems

HasEvent(q, id) == \E i \in 1 .. Len(q) : q[i].id = id

(* QUEUE_OPTION_SEND_TO_FRONT moves every item back and stores at index 0; *)
(* otherwise the item goes to next_index.                                  *)
InsertItem(q, item, front) == IF front THEN <<item>> \o q ELSE Append(q, item)

(* Whether Util_queue_add, once it may look at the list, stores the item:  *)
(* not when the list is full (OUT_OF_MEMORY), and not when the caller asked *)
(* for QUEUE_OPTION_DO_NOT_ADD_IF_EXIST and the event is there (SUCCESS).  *)
WillStore(q, maxItems, id, unique) ==
    ~IsFull(q, maxItems) /\ ~(unique /\ HasEvent(q, id))

(* The list after a call of Util_queue_add that does not wait.             *)
AfterAdd(q, maxItems, id, data, unique, front) ==
    IF WillStore(q, maxItems, id, unique)
    THEN InsertItem(q, Item(id, data), front)
    ELSE q
=============================================================================
