------------------------------ MODULE ScanMutex ------------------------------
(***************************************************************************)
(* What the scan lock promises (docs/architecture.md: "Only one scan runs  *)
(* at a time, whatever started it"): a scan enters when none is running.   *)
(***************************************************************************)
CONSTANT Procs      \* scan processes
VARIABLE running    \* the processes that have the lock

Init == running = {}

Enter(p) == running = {} /\ running' = {p}

(* It finished, was told to stop, lost the lock or died. *)
Leave(p) == p \in running /\ running' = running \ {p}

Next == \E p \in Procs : Enter(p) \/ Leave(p)

Spec == Init /\ [][Next]_running
=============================================================================
