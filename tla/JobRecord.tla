----------------------------- MODULE JobRecord ------------------------------
(***************************************************************************)
(* The processing job record of crates/core/src/jobs.rs and the closures   *)
(* that the callers of `update_job_state` apply to it.  Titles, timestamps,*)
(* errors and stage labels are left out: no guard reads them.              *)
(***************************************************************************)
EXTENDS Naturals

CONSTANTS
    Workers,            \* worker processes (their PIDs)
    NoOwner,            \* owner_pid = None
    MaxAutoRetries      \* MAX_AUTO_RETRIES

ASSUME JobRecordAssumption ==
    /\ MaxAutoRetries \in Nat
    /\ NoOwner \notin Workers

InProgress == {"Transcribing", "TranscriptOnly", "Diarizing", "Summarizing", "Saving"}
Retryable  == {"NeedsReview", "Failed"}
Terminal   == Retryable \cup {"Complete"}
JobState   == {"Queued"} \cup InProgress \cup Terminal

ProcessingJob ==
    [state     : JobState,
     owner     : Workers \cup {NoOwner},
     retries   : Nat,                   \* retry_count
     dismissed : BOOLEAN,               \* notice_dismissed_at is set
     audio     : {"jobs", "output"}]    \* directory that audio_path points into

\* queue_live_capture: a fresh record.
NewJob ==
    [state |-> "Queued", owner |-> NoOwner, retries |-> 0,
     dismissed |-> FALSE, audio |-> "jobs"]

\* Mutants: a stage no state stands for; a transcript update that gives up
\* the claim; a recovery that trusts its caller's snapshot, that compares the
\* old count, that does not count, or that forgets to requeue.
EnterUnknownStage(r, s) == [r EXCEPT !.state = "Enriching"]
DisownTranscript(r) == [r EXCEPT !.state = "TranscriptOnly", !.owner = NoOwner]
RecoverBlindly(r, alive) ==
    [r EXCEPT !.retries = @ + 1, !.owner = NoOwner, !.state = "Queued"]

\* The worker's closures.
Claim(r, w)       == [r EXCEPT !.state = "Transcribing", !.owner = w]
HaveTranscript(r) == [r EXCEPT !.state = "TranscriptOnly"]
EnterStage(r, s)  == [r EXCEPT !.state = s]
Settle(r, s)      == [r EXCEPT !.state = s, !.owner = NoOwner]
MoveAudioPath(r)  == [r EXCEPT !.audio = "output"]

\* list_jobs: a record left in progress by an owner that is no longer alive.
IsStale(r, alive) ==
    r.state \notin Terminal /\ r.owner # NoOwner /\ r.owner \notin alive

RecoverOffByOne(r, alive) ==
    IF ~IsStale(r, alive) THEN r
    ELSE [r EXCEPT !.retries = @ + 1, !.owner = NoOwner,
                   !.state = IF r.retries > MaxAutoRetries THEN "Failed" ELSE "Queued"]
RecoverUncounted(r, alive) ==
    IF ~IsStale(r, alive) THEN r
    ELSE [r EXCEPT !.owner = NoOwner, !.state = "Queued"]
RecoverHalfway(r, alive) ==
    IF ~IsStale(r, alive) THEN r
    ELSE [r EXCEPT !.retries = @ + 1, !.owner = NoOwner]

\* The recovery closure re-checks, then charges a retry.
Recover(r, alive) ==
    IF ~IsStale(r, alive) THEN r
    ELSE [r EXCEPT !.retries = r.retries + 1,
                   !.owner = NoOwner,
                   !.state = IF r.retries + 1 > MaxAutoRetries
                             THEN "Failed" ELSE "Queued"]

\* requeue_job's closure re-checks, then resets the record.
Requeue(r) ==
    IF r.state \notin Retryable THEN r
    ELSE [r EXCEPT !.state = "Queued", !.owner = NoOwner, !.retries = 0,
                   !.dismissed = FALSE]

\* dismiss_job_notice.
Dismiss(r) == IF r.state \in Retryable THEN [r EXCEPT !.dismissed = TRUE] ELSE r
=============================================================================
