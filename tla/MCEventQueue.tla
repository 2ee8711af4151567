---------------------------- MODULE MCEventQueue ----------------------------
(* Instances of EventQueue for TLC.                                        *)
EXTENDS EventQueue

CONSTANTS p1, p2, c1, o1, o2, d1
=============================================================================
