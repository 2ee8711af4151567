-------------------------------- MODULE Fifo --------------------------------
(***************************************************************************)
(* What the rings of src/source/system/util/decoder.c promise to the two   *)
(* threads at their ends: a first-in first-out buffer of a given capacity  *)
(* that may be emptied.                                                    *)
(***************************************************************************)
EXTENDS Naturals, Sequences

CONSTANTS Items, Capacity

VARIABLE content

Init == content = <<>>

Put(x) == Len(content) < Capacity /\ content' = Append(content, x)
Get == content # <<>> /\ content' = Tail(content)
Empty == content' = <<>>

Next == (\E x \in Items : Put(x)) \/ Get \/ Empty

Spec == Init /\ [][Next]_content
=============================================================================
