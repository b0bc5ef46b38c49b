---------------------------- MODULE JobLifecycle ----------------------------
(***************************************************************************)
(* What the processing queue promises about each job, whatever files it is *)
(* kept in: a submitted recording is never forgotten; only a running job   *)
(* completes or fails; a crash costs one of MaxAutoRetries automatic       *)
(* retries; only the user takes a job out of a failure; and a completed    *)
(* job stays completed.                                                    *)
(***************************************************************************)
EXTENDS Naturals

CONSTANTS Jobs, MaxAutoRetries

VARIABLES status, retries

vars == <<status, retries>>

Init ==
    /\ status = [j \in Jobs |-> "none"]
    /\ retries = [j \in Jobs |-> 0]

Move(j, from, to) ==
    /\ status[j] = from
    /\ status' = [status EXCEPT ![j] = to]

Submit(j)   == Move(j, "none", "queued") /\ UNCHANGED retries
Start(j)    == Move(j, "queued", "running") /\ UNCHANGED retries
Complete(j) == Move(j, "running", "complete") /\ UNCHANGED retries
Fail(j)     == Move(j, "running", "retryable") /\ UNCHANGED retries

\* The worker died: back to the queue while the budget lasts.
Crash(j) ==
    /\ Move(j, "running", IF retries[j] < MaxAutoRetries THEN "queued" ELSE "retryable")
    /\ retries' = [retries EXCEPT ![j] = @ + 1]

\* The user retries a failed job: a fresh budget.
Retry(j) ==
    /\ Move(j, "retryable", "queued")
    /\ retries' = [retries EXCEPT ![j] = 0]

Next ==
    \E j \in Jobs : \/ Submit(j) \/ Start(j) \/ Complete(j)
                    \/ Fail(j) \/ Crash(j) \/ Retry(j)

Spec == Init /\ [][Next]_vars
=============================================================================
