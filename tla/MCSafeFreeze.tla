---------------------------- MODULE MCSafeFreeze ----------------------------
(* Three freezers for TLC: two name the same file systems, in opposite     *)
(* orders; the third has one of its own.                                   *)
EXTENDS SafeFreeze, TLC

CONSTANTS p1, p2, p3, m1, m2, m3

OverlappingArgs == (p1 :> <<m1, m2>>) @@ (p2 :> <<m2, m1>>) @@ (p3 :> <<m3>>)
=============================================================================
