--------------------------- MODULE ExclusiveGuard ---------------------------
(***************************************************************************)
(* What the callers of `create_pid_guard` and `create_pid_file`            *)
(* (crates/core/src/pid.rs) rely on: at most one live process owns the     *)
(* guard, a start succeeds only while nobody owns it, and it is given up   *)
(* by its owner or by its owner's death.  PidFile.tla implements this with *)
(* an flock and a PID file; JobQueue.tla uses it as the worker guard.      *)
(***************************************************************************)
CONSTANT Procs

VARIABLE holders        \* the processes that own the guard

Init == holders = {}

\* A start that succeeds.
Acquire(p) ==
    /\ holders = {}
    /\ holders' = {p}

\* The guard is dropped, or its owner dies.
Release(p) ==
    /\ p \in holders
    /\ holders' = holders \ {p}

Next == \E p \in Procs : Acquire(p) \/ Release(p)

Spec == Init /\ [][Next]_holders
=============================================================================
