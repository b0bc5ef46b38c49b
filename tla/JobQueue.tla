------------------------------ MODULE JobQueue ------------------------------
(***************************************************************************)
(* The background processing queue of crates/core/src/jobs.rs and the      *)
(* processes around it (crates/cli/src/main.rs, the Tauri app): job        *)
(* records are JSON files in jobs/ (active) and jobs/archive/, rewritten   *)
(* by read-modify-write (`update_job_state`) with no lock; one worker at a *)
(* time drains the queue; clients submit, poll, retry, dismiss and start   *)
(* workers; workers crash.                                                 *)
(*                                                                         *)
(* Steps are file system calls.  Four constants say what may go wrong:     *)
(*   Overlap      two updates of one job may interleave;                   *)
(*   TornUpdates  a process may die between publishing a record and the    *)
(*                end of its move between the directories;                 *)
(*   ReadErrors   a record may be unreadable;                              *)
(*   DiskErrors   writes, links and removals may fail.                     *)
(* Bounds: MaxCrashes deaths, MaxManual retries and dismissals.            *)
(***************************************************************************)
EXTENDS JobRecord, FiniteSets

CONSTANTS
    Clients,            \* CLI invocations and threads of the app
    Jobs,               \* job ids, numbered by created_at
    NoJob, NoRecord,
    EnrichStages,       \* the stages enrichment reports, in order
    Overlap, TornUpdates, ReadErrors, DiskErrors,
    MaxCrashes, MaxManual

ASSUME JobQueueAssumption ==
    /\ Jobs \subseteq Nat /\ IsFiniteSet(Jobs) /\ NoJob \notin Jobs
    /\ Workers \cap Clients = {}
    /\ NoRecord \notin ProcessingJob
    /\ EnrichStages \in [DOMAIN EnrichStages -> InProgress]
    /\ DOMAIN EnrichStages \subseteq Nat
    /\ {Overlap, TornUpdates, ReadErrors, DiskErrors} \subseteq BOOLEAN
    /\ MaxCrashes \in Nat /\ MaxManual \in Nat

Procs == Workers \cup Clients
Dirs  == {"active", "archive"}

VARIABLES
    json,       \* json[dir][job]: the record in jobs/<id>.json, jobs/archive/<id>.json
    tmp,        \* tmp[dir][job]: the record in the .json.tmp beside it
    audio,      \* where each job's audio is: current.wav, jobs/ or the output directory
    holders,    \* the worker guard (processing-worker.pid)
    pc,         \* where each process is
    job,        \* the job a worker has in hand, or whose notice a client shows
    upd,        \* the update_job_state call each process is executing
    todo,       \* the stale jobs a process's list_jobs has yet to recover
    after,      \* where a process continues after list_jobs
    stage,      \* the last enrichment stage a worker reported
    claims,     \* history: claims of each job since the user last queued it
    crashes, manuals

files == <<json, tmp>>
vars == <<json, tmp, audio, holders, pc, job, upd, todo, after, stage,
          claims, crashes, manuals>>

\* The guard that PidFile implements.
WorkerGuard == INSTANCE ExclusiveGuard WITH Procs <- Workers

AliveWorkers == {w \in Workers : pc[w] # "off"}

NoUpdate == [kind |-> "none", job |-> NoJob, at |-> "off", src |-> "active",
             rec |-> NoRecord]

Init ==
    /\ json = [d \in Dirs |-> [j \in Jobs |-> NoRecord]]
    /\ tmp = [d \in Dirs |-> [j \in Jobs |-> NoRecord]]
    /\ audio = [j \in Jobs |-> "capture"]
    /\ holders = {}
    /\ pc = [p \in Procs |-> IF p \in Workers THEN "off" ELSE "idle"]
    /\ job = [p \in Procs |-> NoJob]
    /\ upd = [p \in Procs |-> NoUpdate]
    /\ todo = [p \in Procs |-> {}]
    /\ after = [p \in Procs |-> "idle"]
    /\ stage = [w \in Workers |-> 0]
    /\ claims = [j \in Jobs |-> 0]
    /\ crashes = 0
    /\ manuals = 0

\* load_job: the active record, else the archived one.
Visible(j) == IF json["active"][j] # NoRecord THEN json["active"][j]
              ELSE json["archive"][j]

VisibleState(j) == IF Visible(j) = NoRecord THEN "none" ELSE Visible(j).state

Goto(p, l) == pc' = [pc EXCEPT ![p] = l]

-----------------------------------------------------------------------------
(* update_job_state, one file operation at a time *)

\* The closure each kind of update applies to the record it loaded.
Apply(p, kind, r) ==
    CASE kind = "claim"      -> Claim(r, p)
      [] kind = "transcript" -> HaveTranscript(r)
      [] kind = "stage"      -> EnterStage(r, EnrichStages[stage[p]])
      [] kind = "fail"       -> Settle(r, "Failed")
      [] kind = "review"     -> Settle(r, "NeedsReview")
      [] kind = "complete"   -> Settle(r, "Complete")
      [] kind = "audio"      -> MoveAudioPath(r)
      [] kind = "recover"    -> Recover(r, AliveWorkers)
      [] kind = "requeue"    -> Requeue(r)
      [] kind = "dismiss"    -> Dismiss(r)

\* A call of update_job_state by p on job j.
Call(p, kind, j) ==
    upd' = [upd EXCEPT ![p] = [NoUpdate EXCEPT !.kind = kind, !.job = j,
                                               !.at = "load"]]

Returned(p) == upd[p].at \in {"done", "none", "err"}
Return(p)   == upd' = [upd EXCEPT ![p] = NoUpdate]

\* Between its load and its last file operation, an update is in its window.
InWindow(p) == upd[p].at \in {"loadArchive", "write", "rename",
                              "removeArchive", "link", "unlink"}
Published(p) == upd[p].at \in {"removeArchive", "link", "unlink"}

Step(p, from, to) ==
    /\ upd[p].at = from
    /\ upd' = [upd EXCEPT ![p].at = to]
    /\ UNCHANGED <<audio, holders, pc, job, todo, after, stage, crashes, manuals>>

Loaded(p, d) ==
    /\ upd' = [upd EXCEPT ![p].at = "write", ![p].src = d,
                          ![p].rec = Apply(p, upd[p].kind, json[d][upd[p].job])]
    /\ UNCHANGED <<json, tmp, claims, audio, holders, pc, job, todo, after,
                   stage, crashes, manuals>>

\* load_job_with_source: the active record, else the archived one; a read
\* error counts as an absent record.
LoadActive(p) ==
    LET j == upd[p].job IN
    /\ upd[p].at = "load"
    /\ Overlap \/ \A q \in Procs \ {p} : InWindow(q) => upd[q].job # j
    /\ \/ json["active"][j] # NoRecord /\ Loaded(p, "active")
       \/ /\ json["active"][j] = NoRecord \/ ReadErrors
          /\ Step(p, "load", "loadArchive")
          /\ UNCHANGED <<json, tmp, claims>>

LoadArchive(p) ==
    LET j == upd[p].job IN
    /\ upd[p].at = "loadArchive"
    /\ \/ json["archive"][j] # NoRecord /\ Loaded(p, "archive")
       \/ /\ json["archive"][j] = NoRecord \/ ReadErrors
          /\ Step(p, "loadArchive", "none")
          /\ UNCHANGED <<json, tmp, claims>>

\* Mutant of Dest: terminal records stay in jobs/.
DestUnarchived(u) == "active"

\* Where the record belongs, and where write_job_to puts it first.
Dest(u)    == IF u.rec.state \in Terminal THEN "archive" ELSE "active"
Written(u) == IF u.src = "archive" THEN Dest(u) ELSE "active"

\* write_job_to: write the temporary file ...
WriteTmp(p) ==
    LET u == upd[p] IN
    \/ /\ Step(p, "write", "rename")
       /\ tmp' = [tmp EXCEPT ![Written(u)][u.job] = u.rec]
       /\ UNCHANGED <<json, claims>>
    \/ /\ DiskErrors
       /\ Step(p, "write", "err")
       /\ UNCHANGED <<json, tmp, claims>>

\* A record that changed its directory has left a copy behind.
AfterRename(u) == IF u.src = Dest(u) THEN "done"
                  ELSE IF u.src = "archive" THEN "removeArchive" ELSE "link"

\* The claims of u's job, n before the record is published.
Charged(u, n) == IF u.kind = "claim" THEN n + 1
                 ELSE IF u.kind = "requeue" /\ u.rec.state = "Queued" THEN 0 ELSE n

\* ... and rename it over the record: whatever record it holds by then.
Rename(p) ==
    LET u == upd[p]
        d == Written(u)
        r == tmp[d][u.job]
    IN
    /\ u.at = "rename"
    /\ IF r = NoRecord
       THEN Step(p, "rename", "err") /\ UNCHANGED <<json, tmp, claims>>
       ELSE /\ json' = [json EXCEPT ![d][u.job] = r]
            /\ tmp' = [tmp EXCEPT ![d][u.job] = NoRecord]
            /\ claims' = [claims EXCEPT ![u.job] = Charged(u, @)]
            /\ Step(p, "rename", AfterRename(u))

\* Archive to active: the archive copy goes last; a failure is only logged.
RemoveArchive(p) ==
    /\ Step(p, "removeArchive", "done")
    /\ \/ json' = [json EXCEPT !["archive"][upd[p].job] = NoRecord]
       \/ DiskErrors /\ UNCHANGED json
    /\ UNCHANGED <<tmp, claims>>

\* Mutant of AfterLinkError: any error is taken for AlreadyExists.
DropAfterLinkError == "unlink"

\* A link that fails leaves the terminal record in jobs/.
AfterLinkError == "done"

\* move_to_archive: hard_link reserves the archive name, or finds it taken,
\* or finds the active record gone, or fails.
Link(p) ==
    LET j == upd[p].job IN
    /\ upd[p].at = "link"
    /\ \/ /\ json["active"][j] # NoRecord
          /\ json["archive"][j] = NoRecord
          /\ json' = [json EXCEPT !["archive"][j] = json["active"][j]]
          /\ Step(p, "link", "unlink")
       \/ /\ json["active"][j] # NoRecord
          /\ json["archive"][j] # NoRecord
          /\ Step(p, "link", "unlink")
          /\ UNCHANGED json
       \/ /\ json["active"][j] = NoRecord
          /\ Step(p, "link", "done")
          /\ UNCHANGED json
       \/ /\ DiskErrors
          /\ Step(p, "link", AfterLinkError)
          /\ UNCHANGED json
    /\ UNCHANGED <<tmp, claims>>

Unlink(p) ==
    /\ Step(p, "unlink", "done")
    /\ \/ json' = [json EXCEPT !["active"][upd[p].job] = NoRecord]
       \/ DiskErrors /\ UNCHANGED json
    /\ UNCHANGED <<tmp, claims>>

Update(p) == \/ LoadActive(p) \/ LoadArchive(p) \/ WriteTmp(p) \/ Rename(p)
             \/ RemoveArchive(p) \/ Link(p) \/ Unlink(p)

-----------------------------------------------------------------------------
(* list_jobs, called by the worker for its next job and by everyone for the *)
(* processing status: snapshot jobs/, recover each stale job, go on.        *)

First(S) == CHOOSE j \in S : \A k \in S : j <= k

\* Continue at l after a list_jobs (sync_processing_status, active_jobs, ...).
ListThen(p, l) ==
    /\ pc' = [pc EXCEPT ![p] = "list"]
    /\ after' = [after EXCEPT ![p] = l]

Snapshot(p) ==
    LET stale == {j \in Jobs : /\ json["active"][j] # NoRecord
                               /\ IsStale(json["active"][j], AliveWorkers)}
    IN
    /\ pc[p] = "list"
    /\ todo' = [todo EXCEPT ![p] = stale]
    /\ Goto(p, IF stale = {} THEN after[p] ELSE "recover")
    /\ UNCHANGED <<files, audio, holders, job, upd, after, stage, claims,
                   crashes, manuals>>

\* The next recovery update; its result is ignored.
RecoverNext(p) ==
    /\ pc[p] = "recover"
    /\ todo[p] # {}
    /\ upd[p] = NoUpdate \/ Returned(p)
    /\ Call(p, "recover", First(todo[p]))
    /\ todo' = [todo EXCEPT ![p] = @ \ {First(@)}]
    /\ UNCHANGED <<files, audio, holders, pc, job, after, stage, claims,
                   crashes, manuals>>

RecoverEnd(p) ==
    /\ pc[p] = "recover"
    /\ todo[p] = {}
    /\ Returned(p)
    /\ Return(p)
    /\ Goto(p, after[p])
    /\ UNCHANGED <<files, audio, holders, job, todo, after, stage, claims,
                   crashes, manuals>>

ListJobs(p) == Snapshot(p) \/ RecoverNext(p) \/ RecoverEnd(p)

-----------------------------------------------------------------------------
(* The worker: process_pending_jobs_with_transcriber *)

\* Mutant of TakeGuard: the worker starts without looking at the guard.
TakeGuardUnchecked(w) == holders' = holders \cup {w}

\* create_worker_guard.
TakeGuard(w) == WorkerGuard!Acquire(w)

\* The loser of a race to start exits.
StartWorker(w) ==
    /\ pc[w] = "starting"
    /\ \/ TakeGuard(w) /\ ListThen(w, "pick")
       \/ holders # {} /\ Goto(w, "off") /\ UNCHANGED <<holders, after>>
    /\ UNCHANGED <<files, audio, job, upd, todo, stage, claims, crashes, manuals>>

\* next_pending_job: the oldest queued job is claimed; with none left, a last
\* status refresh precedes the end.
PickJob(w) ==
    LET queued == {j \in Jobs : /\ json["active"][j] # NoRecord
                                /\ json["active"][j].state = "Queued"}
    IN
    /\ pc[w] = "pick"
    /\ \/ /\ queued # {}
          /\ job' = [job EXCEPT ![w] = First(queued)]
          /\ Call(w, "claim", First(queued))
          /\ Goto(w, "claim")
          /\ UNCHANGED after
       \/ /\ queued = {}
          /\ job' = [job EXCEPT ![w] = NoJob]
          /\ ListThen(w, "leave")
          /\ UNCHANGED upd
    /\ stage' = [stage EXCEPT ![w] = 0]
    /\ UNCHANGED <<files, audio, holders, todo, claims, crashes, manuals>>

\* The loop ends: the guard is dropped and the process exits.
LeaveQueue(w) ==
    /\ pc[w] = "leave"
    /\ WorkerGuard!Release(w)
    /\ Goto(w, "off")
    /\ UNCHANGED <<files, audio, job, upd, todo, after, stage, claims,
                   crashes, manuals>>

\* `?`: an update that fails with an I/O error ends the worker.
ExitOnError(w) ==
    /\ pc[w] \in {"claim", "transcript", "settle"}
    /\ upd[w].at = "err"
    /\ WorkerGuard!Release(w)
    /\ Goto(w, "off")
    /\ Return(w)
    /\ job' = [job EXCEPT ![w] = NoJob]
    /\ UNCHANGED <<files, audio, todo, after, stage, claims, crashes, manuals>>

\* The job disappeared: straight back to the queue after a failed claim, after
\* a status refresh (a list_jobs) otherwise; both list the jobs again.
JobGone(w) ==
    /\ pc[w] \in {"claim", "transcript", "settle"}
    /\ upd[w].at = "none"
    /\ Return(w)
    /\ ListThen(w, "pick")
    /\ UNCHANGED <<files, audio, holders, job, todo, stage, claims, crashes, manuals>>

\* Mutant of Preserves: the audio of failed jobs is moved away as well.
PreservesFailed(u) == u.kind \in {"complete", "fail"}

\* Only a Complete job has its audio moved next to its output.
Preserves(u) == u.kind = "complete"

\* After a successful update the status is refreshed; then the next phase (a
\* settled job: one list_jobs stands for the refresh and for the next pick's).
Proceed(w) ==
    /\ upd[w].at = "done"
    /\ \/ pc[w] = "claim" /\ ListThen(w, "transcribe")
       \/ pc[w] = "transcript" /\ ListThen(w, "enrich")
       \/ pc[w] = "settle" /\ ~Preserves(upd[w]) /\ ListThen(w, "pick")
    /\ Return(w)
    /\ UNCHANGED <<files, audio, holders, job, todo, stage, claims, crashes, manuals>>

\* Transcription succeeds, finds no speech, or fails (an error or a panic).
Transcribe(w) ==
    /\ pc[w] = "transcribe"
    /\ \/ Call(w, "transcript", job[w]) /\ Goto(w, "transcript")
       \/ Call(w, "review", job[w]) /\ Goto(w, "settle")
       \/ Call(w, "fail", job[w]) /\ Goto(w, "settle")
    /\ UNCHANGED <<files, audio, holders, job, todo, after, stage, claims,
                   crashes, manuals>>

\* enrich_transcript_artifact reports a later stage; stages may be skipped.
ReportStage(w) ==
    /\ pc[w] = "enrich"
    /\ \E s \in DOMAIN EnrichStages :
          /\ s > stage[w]
          /\ stage' = [stage EXCEPT ![w] = s]
    /\ Call(w, "stage", job[w])
    /\ Goto(w, "stage")
    /\ UNCHANGED <<files, audio, holders, job, todo, after, claims, crashes, manuals>>

\* The stage callback ignores failures, and refreshes the status on success.
StageReported(w) ==
    /\ pc[w] = "stage"
    /\ Returned(w)
    /\ Return(w)
    /\ IF upd[w].at = "done" THEN ListThen(w, "enrich")
       ELSE Goto(w, "enrich") /\ UNCHANGED after
    /\ UNCHANGED <<files, audio, holders, job, todo, stage, claims, crashes, manuals>>

\* Enrichment returns an artifact, or fails (an error or a panic).
Enrich(w) ==
    /\ pc[w] = "enrich"
    /\ Call(w, "complete", job[w]) \/ Call(w, "fail", job[w])
    /\ Goto(w, "settle")
    /\ UNCHANGED <<files, audio, holders, job, todo, after, stage, claims,
                   crashes, manuals>>

\* preserve_audio_alongside_output: the recorded audio, if it is there, is
\* moved next to the output, then the record is updated.
PreserveAudio(w) ==
    /\ pc[w] = "settle"
    /\ Preserves(upd[w])
    /\ upd[w].at = "done"
    /\ \/ /\ audio[job[w]] = upd[w].rec.audio
          /\ audio' = [audio EXCEPT ![job[w]] = "output"]
          /\ Call(w, "audio", job[w])
          /\ Goto(w, "preserve")
          /\ UNCHANGED after
       \/ /\ DiskErrors \/ audio[job[w]] # upd[w].rec.audio
          /\ Return(w)
          /\ ListThen(w, "pick")
          /\ UNCHANGED audio
    /\ UNCHANGED <<files, holders, job, todo, stage, claims, crashes, manuals>>

\* The result of the audio_path update is ignored.
AudioPreserved(w) ==
    /\ pc[w] = "preserve"
    /\ Returned(w)
    /\ Return(w)
    /\ ListThen(w, "pick")
    /\ UNCHANGED <<files, audio, holders, job, todo, stage, claims, crashes, manuals>>

Worker(w) ==
    \/ StartWorker(w) \/ PickJob(w) \/ LeaveQueue(w) \/ ExitOnError(w)
    \/ JobGone(w) \/ Proceed(w) \/ Transcribe(w) \/ ReportStage(w)
    \/ StageReported(w) \/ Enrich(w) \/ PreserveAudio(w) \/ AudioPreserved(w)

-----------------------------------------------------------------------------
(* Clients: the CLI and the app *)

\* A status poll.
Poll(c) ==
    /\ pc[c] = "idle"
    /\ ListThen(c, "idle")
    /\ UNCHANGED <<files, audio, holders, job, upd, todo, stage, claims,
                   crashes, manuals>>

\* queue_live_capture: the capture is moved into jobs/, then write_job.
QueueCapture(c, j) ==
    /\ pc[c] = "idle"
    /\ audio[j] = "capture"
    /\ \A k \in Jobs : k < j => audio[k] # "capture"
    /\ audio' = [audio EXCEPT ![j] = "jobs"]
    /\ upd' = [upd EXCEPT ![c] = [kind |-> "new", job |-> j, at |-> "write",
                                  src |-> "active", rec |-> NewJob]]
    /\ Goto(c, "queue")
    /\ UNCHANGED <<files, holders, job, todo, after, stage, claims, crashes, manuals>>

\* Mutant of Rollback: the capture is left in jobs/.
NoRollback(j) == UNCHANGED audio

\* write_job failed: the capture is moved back.
Rollback(j) == audio' = [audio EXCEPT ![j] = "capture"]

\* Queued: refresh the status, then spawn a worker.
CaptureQueued(c) ==
    /\ pc[c] = "queue"
    /\ Returned(c)
    /\ IF upd[c].at = "err"
       THEN /\ Rollback(upd[c].job)
            /\ Goto(c, "idle")
            /\ UNCHANGED after
       ELSE ListThen(c, "spawn") /\ UNCHANGED audio
    /\ Return(c)
    /\ UNCHANGED <<files, holders, job, todo, stage, claims, crashes, manuals>>

\* requeue_job: the record must be retryable and its audio present.
RetryJob(c, j) ==
    /\ pc[c] = "idle"
    /\ manuals < MaxManual
    /\ manuals' = manuals + 1
    /\ VisibleState(j) \in Retryable
    /\ audio[j] = Visible(j).audio
    /\ Call(c, "requeue", j)
    /\ Goto(c, "retry")
    /\ UNCHANGED <<files, audio, holders, job, todo, after, stage, claims, crashes>>

\* A requeued job is reported and a worker spawned for it.
Retried(c) ==
    /\ pc[c] = "retry"
    /\ Returned(c)
    /\ Return(c)
    /\ IF upd[c].at = "done" /\ upd[c].rec.state = "Queued"
       THEN ListThen(c, "spawn")
       ELSE Goto(c, "idle") /\ UNCHANGED after
    /\ UNCHANGED <<files, audio, holders, job, todo, stage, claims, crashes, manuals>>

\* The app shows the notice of a settled job (latest_terminal_job, or the
\* retryable one found at startup); it may outlive the state it was about.
ShowNotice(c, j) ==
    /\ pc[c] = "idle"
    /\ VisibleState(j) \in Terminal
    /\ job' = [job EXCEPT ![c] = j]
    /\ UNCHANGED <<files, audio, holders, pc, upd, todo, after, stage, claims,
                   crashes, manuals>>

\* dismiss_job_notice, for the notice on display.
DismissNotice(c) ==
    /\ pc[c] = "idle"
    /\ job[c] # NoJob
    /\ manuals < MaxManual
    /\ manuals' = manuals + 1
    /\ job' = [job EXCEPT ![c] = NoJob]
    /\ Call(c, "dismiss", job[c])
    /\ Goto(c, "dismiss")
    /\ UNCHANGED <<files, audio, holders, todo, after, stage, claims, crashes>>

Dismissed(c) ==
    /\ pc[c] = "dismiss"
    /\ Returned(c)
    /\ Return(c)
    /\ Goto(c, "idle")
    /\ UNCHANGED <<files, audio, holders, job, todo, after, stage, claims,
                   crashes, manuals>>

\* The app starts: with active jobs left (active_job_count), spawn a worker.
LaunchApp(c) ==
    /\ pc[c] = "idle"
    /\ \E j \in Jobs : /\ json["active"][j] # NoRecord
                       /\ json["active"][j].state \notin Terminal
    /\ ListThen(c, "spawn")
    /\ UNCHANGED <<files, audio, holders, job, upd, todo, stage, claims,
                   crashes, manuals>>

\* A PID that some record still names is not used again.
Mentioned(w) ==
    \/ \E d \in Dirs, j \in Jobs :
          \E r \in {json[d][j], tmp[d][j]} : r # NoRecord /\ r.owner = w
    \/ \E p \in Procs : upd[p].rec # NoRecord /\ upd[p].rec.owner = w

\* spawn_queue_worker, spawn_processing_worker: only when none is active.
SpawnWorker(c) ==
    /\ pc[c] = "spawn"
    /\ \/ /\ holders = {}
          /\ \E w \in Workers :
                /\ pc[w] = "off"
                /\ ~Mentioned(w)
                /\ pc' = [pc EXCEPT ![c] = "idle", ![w] = "starting"]
       \/ /\ holders # {} \/ \A w \in Workers : pc[w] # "off" \/ Mentioned(w)
          /\ Goto(c, "idle")
    /\ UNCHANGED <<files, audio, holders, job, upd, todo, after, stage, claims,
                   crashes, manuals>>

\* What a client does of its own accord, and how it carries it through.
Request(c) ==
    \/ Poll(c) \/ DismissNotice(c)
    \/ \E j \in Jobs : QueueCapture(c, j) \/ RetryJob(c, j) \/ ShowNotice(c, j)
Client(c)  == CaptureQueued(c) \/ Retried(c) \/ Dismissed(c) \/ SpawnWorker(c)

-----------------------------------------------------------------------------
(* Deaths *)

\* p can die here: anywhere, except that without TornUpdates a record that
\* was published also reaches its directory.
MayDie(p) == crashes < MaxCrashes /\ (TornUpdates \/ ~Published(p))

\* A native crash, a kill or a power loss: the guard goes with the process.
CrashWorker(w) ==
    /\ pc[w] # "off"
    /\ MayDie(w)
    /\ Goto(w, "off")
    /\ holders' = holders \ {w}
    /\ Return(w)
    /\ job' = [job EXCEPT ![w] = NoJob]
    /\ todo' = [todo EXCEPT ![w] = {}]
    /\ crashes' = crashes + 1
    /\ UNCHANGED <<files, audio, after, stage, claims, manuals>>

\* A client dies during a retry, a dismissal, a recovery, before it spawns, or
\* between moving a capture and recording it.
CrashClient(c) ==
    /\ pc[c] # "idle"
    /\ MayDie(c)
    /\ Goto(c, "idle")
    /\ Return(c)
    /\ todo' = [todo EXCEPT ![c] = {}]
    /\ crashes' = crashes + 1
    /\ UNCHANGED <<files, audio, holders, job, after, stage, claims, manuals>>

-----------------------------------------------------------------------------
Next ==
    \/ \E p \in Procs : Update(p) \/ ListJobs(p)
    \/ \E w \in Workers : Worker(w) \/ CrashWorker(w)
    \/ \E c \in Clients : Request(c) \/ Client(c) \/ LaunchApp(c) \/ CrashClient(c)

Spec == Init /\ [][Next]_vars

\* Running processes keep running; nobody has to make a request, but the app
\* is opened again while jobs are left.
Fairness ==
    /\ \A p \in Procs : WF_vars(Update(p)) /\ WF_vars(ListJobs(p))
    /\ \A w \in Workers : WF_vars(Worker(w))
    /\ \A c \in Clients : WF_vars(Client(c)) /\ SF_vars(LaunchApp(c))

FairSpec == Spec /\ Fairness

-----------------------------------------------------------------------------
(* Properties *)

\* Types of every variable (jobs.rs: ProcessingJob and the two directories).
TypeOK ==
    /\ json \in [Dirs -> [Jobs -> ProcessingJob \cup {NoRecord}]]
    /\ tmp \in [Dirs -> [Jobs -> ProcessingJob \cup {NoRecord}]]
    /\ audio \in [Jobs -> {"capture", "jobs", "output"}]
    /\ holders \subseteq Workers
    /\ pc \in [Procs -> {"off", "starting", "list", "recover", "pick", "claim",
                         "transcribe", "transcript", "enrich", "stage", "settle",
                         "preserve", "leave", "idle", "queue", "retry",
                         "dismiss", "spawn"}]
    /\ job \in [Procs -> Jobs \cup {NoJob}]
    /\ upd \in [Procs ->
          [kind : {"none", "new", "claim", "transcript", "stage", "fail", "review",
                   "complete", "audio", "recover", "requeue", "dismiss"},
           job  : Jobs \cup {NoJob},
           at   : {"off", "load", "loadArchive", "write", "rename",
                   "removeArchive", "link", "unlink", "done", "none", "err"},
           src  : Dirs,
           rec  : ProcessingJob \cup {NoRecord}]]
    /\ todo \in [Procs -> SUBSET Jobs]
    /\ after \in [Procs -> {"pick", "transcribe", "enrich", "leave", "spawn", "idle"}]
    /\ stage \in [Workers -> DOMAIN EnrichStages \cup {0}]
    /\ claims \in [Jobs -> Nat]
    /\ crashes \in Nat /\ manuals \in Nat

\* A submitted job is never lost: once readable, its record stays readable
\* through every move between jobs/ and jobs/archive/ (update_job_state,
\* move_to_archive).
RecordKept == [][\A j \in Jobs : Visible(j) # NoRecord => Visible(j)' # NoRecord]_vars

\* The audio of a job that may still be processed or retried is where its
\* record says (preserve_audio_alongside_output moves it for Complete only):
\* the worker finds it, and requeue_job does not fail for a missing file.
RetryableHasAudio ==
    \A j \in Jobs :
        VisibleState(j) \notin {"none", "Complete"} => audio[j] = Visible(j).audio

\* A capture that left current.wav for jobs/ has a record, unless the client
\* that moved it is still at it (queue_live_capture's rollback) or a client died
\* at that point: each death strands one capture at most.
NoStrandedCapture ==
    Cardinality({j \in Jobs :
        /\ audio[j] = "jobs"
        /\ Visible(j) = NoRecord
        /\ \A c \in Clients : pc[c] = "queue" => upd[c].job # j}) <= crashes

\* Where worker w has the job in hand, between its claim and the update that
\* settles it.
WorkingOn(w) ==
    \/ pc[w] \in {"transcribe", "transcript", "enrich", "stage"}
    \/ pc[w] \in {"list", "recover"} /\ after[w] \in {"transcribe", "enrich"}

\* No two processes work through the queue at once, whatever becomes of the
\* records: a recording is not transcribed twice in parallel (worker_active,
\* create_worker_guard).
SoleWorker ==
    \A v, w \in Workers :
        {pc[v], pc[w]} \cap {"off", "starting"} = {} => v = w

\* A live worker's claim is not silently clobbered by a poller's crash
\* recovery, a retry or a dismissal (the comment in list_jobs).
LiveClaimKept ==
    \A w \in Workers :
        WorkingOn(w) => /\ Visible(job[w]) # NoRecord
                        /\ Visible(job[w]).owner = w
                        /\ Visible(job[w]).state \in InProgress

\* One live worker means one job in progress under a live owner: the owner's
\* crash is what makes another one recoverable (list_jobs).
OneJobAtATime ==
    \A j, k \in Jobs :
        (\A i \in {j, k} : /\ VisibleState(i) \in InProgress
                           /\ Visible(i).owner \in AliveWorkers) => j = k

\* A record in progress names an owner.  Without one it would be stuck for
\* good: list_jobs recovers only owned records, next_pending_job takes only
\* queued ones, requeue_job only failed ones.
NoOrphanedProgress ==
    \A j \in Jobs : VisibleState(j) \in InProgress => Visible(j).owner # NoOwner

\* A job that crashes its worker is attempted at most MaxAutoRetries + 1 times
\* before the user has to look at it (the retry cap of list_jobs).
CrashLoopBounded == \A j \in Jobs : claims[j] <= MaxAutoRetries + 1

\* At rest, a record is in the directory its state belongs to, and only there:
\* list_jobs_raw never sees terminal jobs, list_archive_jobs never misses one.
Filed ==
    \A j \in Jobs :
        (\A p \in Procs : upd[p].job # j \/ ~Published(p)) =>
            /\ json["active"][j] # NoRecord =>
                  /\ json["archive"][j] = NoRecord
                  /\ json["active"][j].state \notin Terminal
            /\ json["archive"][j] # NoRecord => json["archive"][j].state \in Terminal

\* The queue as its callers see it follows the abstract life of a job.
LifecycleStatus ==
    [j \in Jobs |-> CASE VisibleState(j) = "none"          -> "none"
                      [] VisibleState(j) = "Queued"        -> "queued"
                      [] VisibleState(j) \in InProgress    -> "running"
                      [] VisibleState(j) \in Retryable     -> "retryable"
                      [] VisibleState(j) = "Complete"      -> "complete"]
LifecycleRetries ==
    [j \in Jobs |-> IF Visible(j) = NoRecord THEN 0 ELSE Visible(j).retries]

Lifecycle == INSTANCE JobLifecycle WITH status <- LifecycleStatus,
                                        retries <- LifecycleRetries
ImplementsLifecycle == Lifecycle!Spec

\* Every submitted job is eventually settled, although workers crash and a
\* submission may find a worker that is just about to leave.
EventuallySettled ==
    \A j \in Jobs : VisibleState(j) # "none" ~> VisibleState(j) \in Terminal
=============================================================================
