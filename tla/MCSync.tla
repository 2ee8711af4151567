------------------------------- MODULE MCSync -------------------------------
(* Instances of Sync for TLC.                                              *)
EXTENDS Sync

CONSTANTS t1, t2, t3, m1, r1, c1
=============================================================================
