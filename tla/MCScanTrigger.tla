---------------------------- MODULE MCScanTrigger ----------------------------
(* Small instances of ScanTrigger. *)
EXTENDS ScanTrigger

CONSTANTS c1, c2, d1, d2

TwoReplicas == [c \in {c1, c2} |-> IF c = c1 THEN d1 ELSE d2]
=============================================================================
