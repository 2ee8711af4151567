-------------------------------- MODULE Ring --------------------------------
(***************************************************************************)
(* The ring buffers of src/source/system/util/decoder.c: the cache of      *)
(* packets (Util_decoder_read_packet, Util_decoder_parse_packet) and those *)
(* of raw images (Util_decoder_video_decode, Util_decoder_video_get_image, *)
(* Util_decoder_video_skip_image and their mvd_ counterparts).             *)
(*                                                                         *)
(* One thread produces and another consumes. Each has an index of its own; *)
(* they share the number of items, which is changed under a mutex, but     *)
(* tested before and changed after the slot and the index. Each access is  *)
(* a step. A slot holds a pointer: NULL (Free), an object that was only    *)
(* allocated (Blank), or an item.                                          *)
(***************************************************************************)
EXTENDS Naturals, Sequences

CONSTANTS
    Size,       \* DEF_DECODER_MAX_CACHE_PACKETS, util_video_decoder_max_raw_image
    Items,
    Free, Blank

ASSUME RingAssumption ==
    /\ Size \in Nat \ {0, 1}
    /\ Free \notin Items /\ Blank \notin Items /\ Free # Blank

VARIABLES
    slot,       \* util_decoder_cache_packet, util_video_decoder_raw_image
    in, out,    \* the index of the producer and that of the consumer
    available,  \* util_decoder_available_cache_packet, ..._available_raw_image
    producer, consumer  \* where the two threads are

ringVars == <<slot, in, out, available, producer, consumer>>

Slots == 0 .. Size - 1

(* The index after i in a ring.                                            *)
After(i) == IF i + 1 < Size THEN i + 1 ELSE 0

RingInit ==
    /\ slot = [i \in Slots |-> Free]
    /\ in = 0 /\ out = 0 /\ available = 0
    /\ producer = "idle" /\ consumer = "idle"

-----------------------------------------------------------------------------
(* Mutant: the slot between the two ends is used too.                      *)
FullLate == available >= Size

(* The producer. A full ring (one slot is kept free) is DEF_ERR_TRY_AGAIN. *)
Full == available + 1 >= Size

Look ==
    /\ producer = "idle" /\ ~Full
    /\ producer' = "alloc"
    /\ UNCHANGED <<slot, in, out, available, consumer>>

Alloc ==
    /\ producer = "alloc" /\ producer' = "fill"
    /\ slot' = [slot EXCEPT ![in] = Blank]
    /\ UNCHANGED <<in, out, available, consumer>>

Fill(x) ==
    /\ producer = "fill" /\ producer' = "advance"
    /\ slot' = [slot EXCEPT ![in] = x]
    /\ UNCHANGED <<in, out, available, consumer>>

(* No memory, nothing to read or nothing decoded: the slot is freed.       *)
GiveUp ==
    /\ producer \in {"alloc", "fill"} /\ producer' = "idle"
    /\ slot' = [slot EXCEPT ![in] = Free]
    /\ UNCHANGED <<in, out, available, consumer>>

Advance ==
    /\ producer = "advance" /\ producer' = "count"
    /\ in' = After(in)
    /\ UNCHANGED <<slot, out, available, consumer>>

Count ==
    /\ producer = "count" /\ producer' = "idle"
    /\ available' = available + 1
    /\ UNCHANGED <<slot, in, out, consumer>>

-----------------------------------------------------------------------------
(* The consumer.                                                           *)
See ==
    /\ consumer = "idle" /\ available > 0
    /\ consumer' = "use"
    /\ UNCHANGED <<slot, in, out, available, producer>>

(* No memory for a copy of the item, which stays.                          *)
Leave ==
    /\ consumer = "use" /\ consumer' = "idle"
    /\ UNCHANGED <<slot, in, out, available, producer>>

Release ==
    /\ consumer = "use" /\ consumer' = "advance"
    /\ slot' = [slot EXCEPT ![out] = Free]
    /\ UNCHANGED <<in, out, available, producer>>

Move ==
    /\ consumer = "advance" /\ consumer' = "count"
    /\ out' = After(out)
    /\ UNCHANGED <<slot, in, available, producer>>

Uncount ==
    /\ consumer = "count" /\ consumer' = "idle"
    /\ available' = available - 1
    /\ UNCHANGED <<slot, in, out, producer>>

-----------------------------------------------------------------------------
(* Mutant: the index of the consumer is not reset.                         *)
WipeKeepsOut ==
    /\ slot' = [i \in Slots |-> Free]
    /\ in' = 0 /\ out' = out /\ available' = 0
    /\ UNCHANGED <<producer, consumer>>

(* Util_decoder_clear_cache_packet, Util_decoder_video_clear_raw_image: no *)
(* lock is held. The ring relies on its callers to clear it only while     *)
(* nobody is inside, and a clear nobody can see is one step.               *)
Wipe ==
    /\ slot' = [i \in Slots |-> Free]
    /\ in' = 0 /\ out' = 0 /\ available' = 0
    /\ UNCHANGED <<producer, consumer>>

Clear == producer = "idle" /\ consumer = "idle" /\ Wipe

RingNext ==
    \/ Look \/ Alloc \/ (\E x \in Items : Fill(x)) \/ GiveUp \/ Advance \/ Count
    \/ See \/ Leave \/ Release \/ Move \/ Uncount
    \/ Clear

RingSpec == RingInit /\ [][RingNext]_ringVars

-----------------------------------------------------------------------------
(* Properties.                                                             *)

(* The items between the two indices, from the oldest.                     *)
Distance == IF out <= in THEN in - out ELSE in + Size - out
Nth(k) == IF out + k < Size THEN out + k ELSE out + k - Size
Released == IF consumer = "advance" THEN 1 ELSE 0
Contents == [k \in 1 .. Distance - Released |-> slot[Nth(k - 1 + Released)]]

Buffer == INSTANCE Fifo WITH content <- Contents, Capacity <- Size - 1

(* The ring is a first-in first-out buffer, whatever the order in which    *)
(* the two threads touch slots, indices and the number of items.           *)
IsFifo == Buffer!Spec

RingTypeOK ==
    /\ slot \in [Slots -> Items \cup {Free, Blank}]
    /\ in \in Slots /\ out \in Slots
    /\ available \in Nat
    /\ producer \in {"idle", "alloc", "fill", "advance", "count"}
    /\ consumer \in {"idle", "use", "advance", "count"}

(* The number of items, though late, never claims an item or a free slot   *)
(* that is not there, and never wraps below zero.                          *)
CountIsSafe ==
    /\ available + (IF producer = "count" THEN 1 ELSE 0) =
           Distance + (IF consumer = "count" THEN 1 ELSE 0)
    /\ producer \in {"alloc", "fill", "advance"} => Distance + 1 < Size
    /\ consumer # "idle" => available > 0
    /\ consumer \in {"use", "advance"} => Distance > 0

(* What the consumer uses is a whole item, and the pointer that the        *)
(* producer overwrites is NULL: no item is torn, lost or leaked.           *)
Used(i) == (IF out <= i THEN i - out ELSE i + Size - out) < Distance
SlotsRight ==
    \A i \in Slots :
        /\ Used(i) /\ ~(i = out /\ consumer = "advance") => slot[i] \in Items
        /\ i = out /\ consumer = "advance" => slot[i] = Free
        /\ ~Used(i) /\ (i # in \/ producer \notin {"fill", "advance"}) => slot[i] = Free
        /\ i = in /\ producer = "fill" => slot[i] = Blank
        /\ i = in /\ producer = "advance" => slot[i] \in Items
=============================================================================
