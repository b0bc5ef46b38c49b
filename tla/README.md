# TLA+ models of minutes

`minutes` records meetings, transcribes them locally and keeps the results as
files under `~/.minutes` and `~/meetings`. It is not one process: CLI
invocations, the desktop app, a background processing worker, a folder watcher,
a live-transcript session and an MCP server all work on the same directories
and coordinate through files: PID files with `flock`, JSON records replaced by
rename, sentinel files, append-only logs. This directory models that
coordination, which unit tests hardly reach: the interleavings of processes,
their crashes, and file operations that fail half-way.

Run `tlc -config <cfg> <MC module>` for a run of `PROJECT.json`, and
`tlapm <module>` for a module with proofs.

## 1. Inventory

Paths are relative to `src/`. *Status*: **M** modelled, **–** not.

| component | state it keeps | operations | status |
|---|---|---|---|
| PID files and guards, `crates/core/src/pid.rs` | a path, the inode it names, its content, its `flock` | `create_pid_guard`, `create_pid_file`, `create`, `PidGuard::drop`, `remove*`, `check_pid_file`, `inspect_pid_file`, `check_recording` | M |
| job queue, `crates/core/src/jobs.rs` | `jobs/<id>.json`, `jobs/archive/<id>.json`, the `.json.tmp` beside them, the audio of each job, the worker guard | `queue_live_capture`, `update_job_state`, `list_jobs` (with recovery), `requeue_job`, `dismiss_job_notice`, `process_pending_jobs` | M |
| queue clients, `crates/cli/src/main.rs`, `tauri/src-tauri/src/commands.rs` | the notice on display | record, `process-queue`, retry, dismiss, status polls, spawning workers | M (the queue's part) |
| capture sessions: recording, live transcript, dictation, sensitive meeting; `capture.rs`, `live_transcript.rs`, `live_session.rs`, `dictation.rs`, `sensitive.rs`, the clients | three PID files, the relay's owner lock, the session file, one stop sentinel, `current.wav`, `live-transcript.jsonl` | start, stop, yield, fail, sensitive start, marker and stop, retry of crashed captures | M, except dual-source and native call capture |
| folder watcher, `watch.rs`, `cmd_watch` | `watch.lock`, the watched, processed and failed directories, pending events | lock, list, settle, batch, transcribe, file, interrupt | M |
| event log, `events.rs` | `events.jsonl`, its rotated parts, the sequence sidecar, `events.lock` | append, rotate, read since, follow | M |
| live assistance reducer, `live_sidekick/session.rs` | phase, generations, corrections, evidence, the turn and the run in flight | `reduce` on its thirteen events | M |
| copilot runner, `copilot/runner.rs` | epoch, evidence revision, current request, state on display, policy; the depth lane's snapshot; two bounded channels | submit, begin session, supersede, retract, pause, resume, tick, feedback, stop; the fast and the depth worker | M |
| copilot control files, `copilot/control.rs`, its users in the CLI and the app | pause, stop and feedback files, the session guard, the app's flags | start, poll, clear, pause, resume, stop, rate | M |
| capture relay, `copilot/relay.rs` | owner lock, ring of frames, a thread and a cursor per client | publish, observe, gap, reconnect, shutdown | M |
| live utterance queue, `bounded_inference.rs`, `live_transcript.rs` | a bounded channel, two counters, the transcript's writer | enqueue or drop the newest, take, transcribe, write, heartbeat, stop | M |
| Parakeet sidecar, `parakeet_sidecar.rs` | child process, fallback, fp16 blacklist | start, transcribe, restart, downgrade, give up, shut down | M |
| call detection, `call_detect.rs` | the active call and its latch, the countdown and its flags | poll, arm, cancel, keep, fire | M, except the probes |
| desktop control, `desktop_control.rs`, its client in `crates/mcp/src/index.ts` | request, claim and response files | write, claim, launch, answer, give up | M |
| the app's recordings, `tauri/src-tauri/src/commands.rs` | `recording`, `starting`, `stop_flag`, the recording PID file | reserve, start, fail, stop, clean up | M, except native call capture |
| documents: `markdown.rs`, `pipeline.rs`, `resummarize.rs`, `notes.rs`, the app's commands | a meeting's Markdown file, its staging files, its backups | create, enrich, give a title, rename, save, update the speaker map, annotate, resummarize | M, except daily notes, the vault's copies, the editor's snapshots |
| voice activity detection, retention | counters on one thread; a decision table | | – |
| transcription, summaries, diarization, capture devices, search, graph, UI, site, tooling | | external programs, models, pure transformations, presentation | – |

`PROJECT.json` lists every component with its sources and, where it is left out, why.

### How they interact

* A recording (CLI or app) owns `recording.pid`; when it stops it moves
  `current.wav` into `jobs/`, writes a job record and, if `worker_active()` says
  that no worker runs, spawns one.
* The worker takes the guard of `processing-worker.pid`, then loops: oldest
  queued job, claim, transcribe, enrich stage by stage, settle, archive.
* Everyone who lists jobs also *recovers*: a record in progress whose owner's
  PID is dead is queued again, or failed when its retries are used up.
* Sessions that want the microphone look at each other's PID files, take their
  own and then the capture relay, whose owner lock is the one thing a recorder
  and a live transcript both must have. A sensitive meeting keeps recordings
  out by its session file; `minutes stop` writes one sentinel that recordings
  and live transcripts poll.
* Everyone who reads a PID file also *cleans up*: a file that names a dead
  process is removed.
* The app shows a notice for settled jobs; the user retries or dismisses.
* A recording feeds a live transcript through its sidecar thread, and the
  copilot and the live assistance session through the relay. Whoever starts a
  recording in the app (window, hotkey, palette, the banner of a detected call,
  the MCP server through request files) goes through the same three flags; the
  end-of-call countdown stops it by one of them.
* Pipelines, commands of the app and commands of the CLI rewrite a meeting's
  document without a lock; a job's record knows it by its path.
* Watcher, jobs and recordings append to the event log; the CLI, the relay and
  the MCP server follow it by sequence number.

### What is hard

Read-modify-write of records with no lock; two directories and no atomic move
between them; a crash between any two file operations; `flock` on an inode
whose path may be unlinked; stale reads acted upon later (a liveness check
before a spawn, a dead PID before a removal, a notice before a dismissal, a
meeting's check before a recording's start); fixed names that several processes
use in turn and a crash leaves behind; write, link and remove errors; a
submission that races the worker's exit; results of models and probes that
take seconds and come back to a state that has moved on; bounded channels that
drop commands; flags that a finished recording's last stores clear for the next
one; a `join` on a thread that waits for something else.
`PROJECT.json` lists each hazard at its line with the properties that cover it
and, in its note, the cases that the property excepts because the code does not
prevent them.

## 2. Modules

| module | what it is |
|---|---|
| `ExclusiveGuard` | what a PID guard promises: one owner, acquired only when free |
| `PidFile` | `pid.rs` for one path, one action per system call; implements `ExclusiveGuard` |
| `PidFileProofs` | its theorems |
| `JobLifecycle` | what the queue promises about each job: its status and retries |
| `JobRecord` | the record and the closures callers pass to `update_job_state`, as operators |
| `JobQueue` | the queue's files and processes; uses `ExclusiveGuard` for the worker guard and implements `JobLifecycle` |
| `JobQueueProofs` | its theorems |
| `CaptureSessions` | the four kinds of session, `minutes stop` and recovery, and the files they agree through; a PID file is taken in one step, whose system calls are the subject of `PidFile` |
| `CaptureSessionsProofs` | its theorems |
| `EventLog` | appends, rotation, the sidecar and the followers |
| `LiveSidekick` | the reducer of live assistance sessions |
| `CopilotRunner`, `CopilotDepth` | the fast worker with its clients; the depth worker with its snapshot |
| `CopilotControl` | the copilot's control files, sessions and commands |
| `CaptureRelay` | the relay's ring, threads and clients, over several owners |
| `CopilotProofs` | the theorems of `LiveSidekick` and of these four |
| `Watcher` | the folder watcher's lock and the life of a file |
| `AppRecording` | the app's recording flags |
| `DesktopControl` | request files; extends `AppRecording`, whose launches it makes |
| `CallEnd` | the end-of-call countdown |
| `DesktopProofs` | the theorems of these three |
| `ParakeetSidecar` | the sidecar's manager |
| `LiveQueue` | the live utterance queue |
| `TranscriptionProofs` | the theorems of `LiveQueue`, `ParakeetSidecar` and `Watcher` |
| `MeetingDocument` | a meeting's document and everybody who writes it |
| `FileProofs` | the theorems of `EventLog` and `MeetingDocument` |
| `MCPidFile`, `MCJobQueue`, `MCCaptureSessions`, `MCServices` | the instances TLC checks |
| `ServicesProofs` | the types of the services side by side |

### PidFile

A process goes `idle → opened → locked → vetted → truncated → held`, one step
for each of `open`, `try_lock_exclusive`, the check of the PID found,
`set_len(0)`, the write. `keepLock`, chosen once, distinguishes `create_pid_guard`, whose
guard keeps the descriptor and at its end unlinks (`unlinked`) and then closes,
from `create` and `create_pid_file`, which drop the lock as they return. A
poller reads a dead PID (`stale`) and removes the path later. A process may die
at any point: its descriptors close, the path stays; its PID may be used again.

The protocol excludes only if two timings are ruled out, and the module has a
constant for each:

* `EarlyExit`: a process dies while another one still has open the inode that
  it unlinked. The other then finds a dead PID in an inode no path names, and
  takes it, next to the owner of the path (set it in `PidFileOwner.cfg`: TLC finds
  `MutualExclusion` violated).
* `LateCleanup`: a poller's removal lands after the stale file was taken over
  (`PidFileLateCleanup`).

With both `FALSE` the protocol is proved correct; with either `TRUE`, TLC shows
two owners: the code does nothing to prevent either.

### JobQueue

`json[dir][job]` and `tmp[dir][job]` are the files, `audio[job]` tells where
the recording is, `upd[p]` is the `update_job_state` call that process `p` is in
and its position: load (active, then archive), write the temporary file, rename,
then, if the record changes directory, remove the archive copy or link and
unlink. `Apply` is the closure. `pc[p]` is the caller's position; `list` and
`recover` are inside `list_jobs`, and `after[p]` is where its caller goes on.
`holders` is the worker guard. Retries, dismissals and status polls are client
actions; `LaunchApp` is the app's start, which spawns a worker for leftover
jobs. `claims` is a history variable that counts attempts since the last
manual retry.

Each run turns on what it studies:

* `Overlap`: two updates of one job may interleave. With `FALSE` the window
  from load to last file operation of one update excludes the load of another.
  The code has no such lock; `FALSE` is the assumption under which the rest of
  the design is examined, and the findings show what happens without it.
* `TornUpdates`: a process may also die after it has published a record and
  before the move is complete.
* `ReadErrors`, `DiskErrors`: a record cannot be read; a write, link or removal
  fails.

Abstractions: transcription and enrichment succeed, find no speech or fail,
freely. `fs::write` of a temporary file is one step, and so is the directory
scan of `list_jobs_raw`. After an update one `list_jobs` stands for those of
`sync_processing_status` (which calls it twice) and of the next pick.
Timestamps, titles, errors, stage labels, notifications, native stem groups and
screenshots are left out. A PID that some record still mentions is not used
again. The one-shot migration of old terminal jobs into the archive is left
out: it runs once per installation and uses the same `move_to_archive`.
`CaptureQueued` reports only after its `list_jobs`; `QueueCapture` takes the
captures in order, as the ids do.

### CaptureSessions

`pc[p]` is where process `p` is in its session; each label follows a system
call or a check in `cmd_record`, `start_recording`,
`record_to_wav_with_lifecycle`, `run_with_partials`, `dictation::run` or
`sensitive::start`. `pid[f]` is the process that a PID file names, `relay` the
owner of the relay's lock, `session` and `torn` the sensitive-session file,
`sentinel` the stop file, `wav` whose audio `current.wav` holds, `jsonl` whose
lines the live transcript holds, `sidecars` and `writers` the threads that are
about to open it and those that have it open, `retry` the recovery job.

* A process runs one session, or is refused and tries again; then it has
  *exited*. Crashes leave all files and release the relay. The CLI's recorder
  that fails leaves its PID file to be found stale; the app's removes it and
  moves `current.wav` to the failed captures.
* Three constants name what a run takes for granted. `RelayErrors`: the relay
  may fail for a reason other than its owner, and the recording goes on without
  it (with `TRUE`, `OneMicrophone` does not hold). `SlowSession`: a recording's
  start may fall between the steps of an update of the session file. `Recovery`:
  the app's "Retry all" is used.
* Three kinds of wait are one step here: taking a PID file, the removal of a
  stale one by its reader (both are `PidFile`'s subject), and the removal of a
  dead host's session.
* `UserStops` is any end but the sentinel: Ctrl-C, silence, the time cap, a
  lost device. Every other failure is a free choice.
* The sidecar of a recording whose stream cannot be opened is not joined by the
  code; the model takes it to end with its channel.
* Left out: dual-source and native call captures, the app's in-process flags
  (`starting` alone is kept, as the guard of `RetryRecovery`), the mute and
  extend sentinels, the streams' contents.

### The services

The thirteen modules below share no variable with one another (but for
`DesktopControl`, which extends `AppRecording`). The prefix of a name says which
module it is from: `Ev`, `Ls`, `Cr`, `Cd`, `Co`, `Rl`, `Wt`, `Ap`, `Dk`, `Ce`,
`Ps`, `Lq`, `Md`. In each, `…Pc` is where a thread is, and an action is what it does
between two points where others may come in: a lock, a channel, a file, a call
that takes time. History variables say what was shown, given or stopped, and
name the exceptions of the properties; no guard reads them.

**EventLog.** `evActive` and `evRotated` are the numbers that can be read in
`events.jsonl` and its rotated parts; `evEnds` says how the file ends: after a
newline, in a line without one, or inside a line. An append takes
`events.lock`, numbers the event from the sidecar and the tail of the active
file, rotates, writes the line and the newline, and the sidecar; each may fail
or be the last thing its process does. A follower lists the files, opens the
active one last, and moves its cursor.

**LiveSidekick.** One action per event of `reduce`; a rejected event changes
nothing, as in the code. Ids, labels and texts are model values, and evidence
has three kinds (live, screen, document), which is what the guards tell apart.
Results may come at any time, in any order, and more than once. `LsLimit`
stands for the largest `u64`, so that exhaustion is reached.

**CopilotRunner.** A client calls `submit`, `begin_session` and so on, each one
step under the runtime's mutex with its `try_send`; the worker's steps lie between its
looks at the mutex, from taking a command over debounce and draining, the model
call, the judgement of its result, to publication. What the policy and the
model say is free.

**CopilotDepth.** The same for the second worker: `begin_session` is four steps
(epoch, cancellation, snapshot, Reset), and the worker reads the shared state,
refreshes the card, asks for a strategy and publishes in between. A final's
epoch stands for its content: what is put into a snapshot or a prompt is the
epoch that it came from.

**CopilotControl.** Sessions of the CLI or of the app, and commands that look
for a session first and write a control file later. A control file holds the
session that its writer saw, so that obeying another's is visible.

**CaptureRelay.** `rlLast` and `RlCapacity` give the ring; each client has a
thread with its cursor, a socket of `RlPipe` frames, and what it was given or
told is missing. A write under the mutex, as a Gap is, holds it until there is
room. Owners end and new ones come; clients break, reconnect and are suspended.
There are two rings of the same kind in the code, of which this is one.

**Watcher.** `wtLock`, and per watcher its queue of names, its batch and its
position. Versions of a file are written in two steps (there, whole) and are
what `processed/` and `failed/` hold. A file's settling is seen as its being
whole: a sender that pauses for longer than the settle time is not modelled.

**AppRecording** and **DesktopControl.** A launch checks, reserves, spawns a
thread, creates the PID file, sets the flags, captures, removes the PID file and
clears the flags; a stop reads the PID file and then sets its flags. Requests
are written, claimed by rename, served in turn and answered; the client gives up
at any time, the app dies at any time.

**CallEnd.** Recordings started from a call's banner or otherwise, the
detector's poll with its flags read before its probes, and up to two
countdowns. Its timing assumptions are those of the code's constants: a
countdown ticks four times a second; a poll sleeps a second or more before it
reads the flags; a recording takes longer than a tick to start; a countdown
fires a second after it was armed at the earliest, when the last stores of an
older recording are over.

**ParakeetSidecar.** One process's manager under its mutex, with servers that
may die or fail, and a successor process that reads the blacklist. A call is
several steps; only panics and shutdown come in between.

**LiveQueue.** The consumer fills a buffer, hands it over and counts; the worker
takes, transcribes, counts and writes. Counters wrap at `LqCounterSize`.

**MeetingDocument.** `mdDoc` and `mdTmp` give the inode of each document and
staging name, `mdInode` what is in it: whose transcript, and the edits, each known
by its writer. A writer's record in `mdAt` says where it is, with what it has
read and the file it has open. Jobs write a document, record its path, enrich it
after minutes (`MdBackground`) and may rename it; the app renames, saves and
resummarizes, the CLI resummarizes, annotates in place and updates the speaker
map. Each writes in the steps of its code: the name that is free, the file that is opened and
thereby truncated, the content, the validation, the swap. All but
`resummarize` stage under one name for each kind of writer. A writer may die at
any step; a job is then tried again, from its record. `mdMet` and `mdClash` keep
who was at one document at one time, in which case the code protects nobody.
Left out: the document's text, the daily note, the vault's copies and the
editor's snapshots.

## 3. What the runs show

| run | bounds | shows |
|---|---|---|
| `PidFileOwner` | 3 processes, 4 inodes, 2 pollers; lock kept and lock dropped | types, one owner, owner visible at the path, `ExclusiveGuard` implemented, also where the PID alone excludes |
| `JobQueueSerial` | 1 job, 2 workers, 1 client, 2 crashes, 1 manual action, cap 1 | lifecycle, retry bound, filing, audio of retryable jobs |
| `JobQueueTwoJobs` | 2 jobs, all stages, 1 crash | one worker, one job in progress at a time, live claims kept |
| `JobQueueDiskErrors` | 1 job, 1 crash, disk errors, torn moves, 1 manual action, cap 0 | no record lost or orphaned, live claims kept, attempts counted, a capture stranded only by a death |
| `JobQueueSettles` | 1 job, 1 crash, 1 manual action, fairness | every job is settled |
| `PidFileLateCleanup` | as above, `LateCleanup` | *violated*: `MutualExclusion` |
| `JobQueueClobberedClaim` | overlapping updates | *violated*: `LiveClaimKept` |
| `JobQueueLostRecord` | overlapping updates, 1 retry | *violated*: `RecordKept` |
| `CaptureSessions` | a CLI and an app recorder, 1 live transcript, 1 dictation, 1 host, 1 stop request, crashes anywhere, fairness | one microphone, one writer of each file, no recording in a sensitive meeting, stop requests heard, dictation gives way |
| `Services` | one component at a time, see below; fairness of the components' own threads | the promises of the thirteen services, and that who waits for one to stop gets on |
| `CaptureSensitiveStart` | same, `SlowSession` | *violated*: `SensitiveExcludesCapture` |
| `CaptureRecoveredAudio` | same | *violated*: `RecoveredIsOwn` |

Why the bounds are enough: the PID races need an old owner, a new owner and one
that holds a stale descriptor (three processes) and one inode more than can be
open at once; two pollers show whether a second cleanup adds anything. In the
queue the guard's races need two workers: one that dies or leaves and its
successor. One client suffices because the worker lists, recovers and updates
as well; two crashes reach a second recovery and, with `MaxAutoRetries = 1`
(2 in the code), the demotion to `Failed`. Jobs interact only through the order
in which they are picked and the guard, so two jobs are used only there. One
enrichment stage stands for the three, except where all are used: their update
is the same. `Symmetry` permutes workers and clients, never jobs, and is not
used for liveness.

Sessions exclude each other pairwise, through one file or lock at a time: one
process of each kind, with two recorders because the two clients check
different files and fail differently, meets every pair and every triple with a
third that removes what the second left. A stopper writes the sentinel once,
which is all that its consumers can compete for.

Fairness of `CaptureSessions`: only that a microphone is opened or refused, and
that the loops that poll (every 100 ms for the sentinel, every audio chunk for
dictation) keep running. Nothing is assumed of users, of a start that hangs at
a prompt, or of crashes. `StopHeard` excepts the time in which another recording
is being started: `pid::create` clears the sentinel before it finds that a
recording runs, so the refused start eats the request (a hazard in
`PROJECT.json`). `CaptureSessions` does not check for deadlock, as sessions end.

Fairness of `JobQueue` (`FairSpec`): a process that runs keeps running, so updates, listings,
the worker's and the clients' steps are weakly fair; a client is never obliged
to make a request. One assumption is about the user: `LaunchApp` is strongly
fair, as the app is opened again while jobs are left. It is needed: a
submission may see a worker that has already found the queue empty, and the
code has no other wake-up.

`Services`: as the components share no state, nothing is learned from running
them side by side. `part`, chosen once, says which component a behaviour is of;
the others stay in their initial states, and the state space is the sum of
theirs, not the product (half a million states). `DesktopControl` and
`AppRecording` are run together and `AppRecording` alone as well, which allows it
larger bounds. Bounds:

* `EventLog`: two writers, a follower, rotation after two lines, three numbers,
  one failure in a row (`EvMaxFaults` bounds how many appends one after
  another may leave the sidecar as it was) or death; a log that may begin with lines of the time before
  numbers: a rotation between any two appends, and a failed one on either side.
* `LiveSidekick`: two event ids, one turn id that is used again, one capture and
  the meeting it becomes, two policy generations, three counts of each kind: a
  result can be overtaken by a message, a posture, a policy or a stop, and come
  back to a new turn of the same name.
* `CopilotRunner`: a channel of one, two revisions, two epochs, one partial, one
  pause or dismissal: the channel is full whenever a second command comes.
  `CopilotDepth`: a channel of two, three requests, two epochs.
* `CopilotControl`: a session of the CLI and one of the app, and a command of
  each.
* `CaptureRelay`: a ring of two, a socket of two, four frames, two owners, one
  client and one broken connection: the client is behind by less and by more
  than the ring. Clients meet only at the mutex, where the owner stands for the
  others.
* `Watcher`: two watchers, of which one at most gets past the lock with files to
  work on (`WtBothWork`), one name, two versions: what matters between files is
  one taking another's name. With `WtBothWork = FALSE`, two watchers that both
  got the lock are followed no further, since `SoleWatcher` excepts them and all
  else would be theirs alone. `AppRecording`: two launches and another process;
  `DesktopControl`: one request, a launch of the window's beside its own, one
  death of the app; with `DkMixed = FALSE` it goes no further once the flags of
  two recordings have got mixed up, which the part of `AppRecording` examines.
* `CallEnd`: two recordings, two calls, two countdowns. `ParakeetSidecar`: two
  calls, two models, both precisions. `LiveQueue`: four utterances for a queue
  of two.
* `MeetingDocument`: two writers at a time (`MdThere`): two pipelines, a pipeline
  that enriches and the app, a pipeline and the CLI, or two editors over a
  document that was summarized again before; losing one another's work takes
  two. Two names for a slug, five files at once, two seconds, one further try
  for a job, and two backups kept for the code's three. What a third writer adds
  was found by the proof, which has any number of them (section 4).

Fairness of `Services`: threads of the program keep running, so their steps are
weakly fair, each component's by itself. Calls to models, engines and servers
end: the first two have timeouts or are cancelled, and the code waits for them
without one only where it says so. Users, clients, failures, crashes and
incoming calls are never obliged. `StopsReturn` says of six kinds of wait (the
copilot's two joins, the relay's, a recording whose call has ended, the
sidecar's shutdown, the utterance worker's join) that they end, each under the
condition that the hazard list names: a `Stop` that found the channel full, a
client suspended while a Gap is written under the mutex, a panic of the thread
that holds the sidecar's mutex. There the code does wait for ever. `Services`
does not check for deadlock, as services end.

Each service's promise is one property, the conjunction of parts that its module
defines and comments one by one:

| property | of | parts |
|---|---|---|
| `EventLogKept` | `EventLog` | `FreshSeq`, `AckedReadable`, `FollowerMissesNothing` |
| `SidekickConsistent` | `LiveSidekick` | `Answered`, `ResultTaken`, `ProvenanceKept`, `RevisionsDistinct`, `EvidenceBound`, and `NothingStale`: only a result of what is in flight is published |
| `GuidanceKept` | `CopilotRunner` | `ShownIsGrounded`, `CancelHeard`, `PausedIsQuiet`, `NothingOfEndedSession`, `NewestKept` |
| `DepthIsOwn` | `CopilotDepth` | `ContextIsOwn`, `SnapshotIsOwn`, `FirstFinalRefreshes`, `CancelledUnpublished` |
| `ControlsHeard` | `CopilotControl` | `ControlsAreOwn`, `RatedOnce`, `StopKept` |
| `RelayComplete` | `CaptureRelay` | `CursorAccounted`, `GivenOnceInOrder` |
| `FilesHandled` | `Watcher` | `SoleWatcher`, `TranscribedOnce`, `FiledAsHandled`, `NothingLeftBehind` |
| `LaunchesApart` | `AppRecording` | `OneStartAtATime`, `NothingStuck`, `StopIsOwn` |
| `RequestsServed` | `DesktopControl` | `RevokedNotServed`, `ServedOnce`, `NotForgotten`, `AnswersAreTrue` |
| `CountdownScoped` | `CallEnd` | `AutoStopScoped`, `KeepHonoured` |
| `SidecarSound` | `ParakeetSidecar` | `ServedAsAsked`, `Fp16NotRetried`, `OneServer`, `FallbackSticks` |
| `BacklogHonest` | `LiveQueue` | `BacklogTold`, `PendingExact`, `DropsTold`, `LinesInOrder` |
| `DocumentsKept` | `MeetingDocument` | `EditsKept`, `TranscriptKept`, `OneDocument`, `DocumentsWhole`, `BackupsApart`, `ReplacesWhatItRead` |
| `ServicesTypeOK` | all | the type invariant of each |
| `StopsReturn` | six of them | the waits for a stop, see below |

Where the code does not prevent a failure, the property names the exact case as
an exception, and holds otherwise. The exceptions are worth as much as
the properties; they are in the notes of the hazards and at the properties: among others, two
watchers that start at once, a sequence number used twice after two failed
sidecar writes around a rotation, a client of a new relay owner that keeps the
old one's number, a topic shift counted for the wrong session, a `stop` for a
recording that had ended which stops the next, a request of a dead app that
nobody answers, an edit of a document whose job is still enriching it, a backup
that another run of `resummarize` removes as it was made in the same second.

Each property of a passing run has a mutant in `PROJECT.json`: a change of one
definition, as a plausible bug would make it, for which TLC finds the property
violated.

## 4. What is proved

TLC checks small instances; `tlapm` checks the following for all values of the
constants that satisfy the `ASSUME`s of the modules.

`PidFileProofs`:

* `Typing`: `Spec => []TypeOK`, with no assumption about the timings.
* `Exclusion`, `Visibility`, `Implementation`: for `~EarlyExit` and
  `~LateCleanup`, `[]MutualExclusion`, `[]HolderVisible` and `ImplementsGuard`.
  None of these is inductive. The strengthening adds two facts: an inode that
  is open and that no path names has a live PID in it or a lock that nobody
  else can take (`UnlinkedNamesLive`), so that a process with a stale
  descriptor is refused; and a process past the check of the old PID has locked
  the inode that the path names, while nobody alive is named in it
  (`PastCheck`). Exclusion follows from visibility, as one inode holds one PID;
  the refinement needs the invariant only where a process enters `held`.

`JobQueueProofs`, for every set of workers, clients and jobs, any number of
stages, retries and crashes:

* `OneWorker`: `Spec => []SoleWorker`, for every combination of overlapping and
  torn updates, errors and crashes. The invariant says that a worker past
  `create_worker_guard` is the only holder; no update of a record touches the
  guard or a program counter.
* `Typing`: `Spec => []TypeOK`, with the same generality. `TypeOK` alone is not
  inductive: what a process has in hand depends on where it is (`Placed`).
* `CrashesBounded`, `ProgressOwned`, `ClaimsKept`, `RecordsKept`, `CapturesKept`:
  the five properties of `JobQueueDiskErrors` and its neighbours that are about
  records, under `Serial`: the updates of one job do not overlap, and if an
  unreadable record may be taken for an absent one (`ReadErrors`), then no move
  between the directories leaves two copies (no torn updates, no disk errors).
  The hypothesis is needed: `JobQueueClobberedClaim` and `JobQueueLostRecord` are
  what happens without it. `OneJob` also needs that records can be read: a worker
  that cannot read its job goes on to the next, and leaves it in progress under
  its own name.
* `RecordsFiled`, `Implementation`, `AudioKept`: `[]Filed`, `ImplementsLifecycle`
  and `[]RetryableHasAudio` under `Tidy`, `Serial` with neither torn updates nor
  disk errors. A move that stops half-way does leave a second copy in the
  archive, until the next update of the job.

The properties share one invariant, `SerialInv`. None of them is inductive,
as an update takes up to six steps, each of which relies on what the
ones before it found: `Window(p)` says, for each position of an update, what the
two directories and the temporary file hold for its job and what the record in
hand makes of the visible one (`Follows`). It is kept because two updates in
their windows are on different jobs (`Apart`). `Fresh` says who may know of a job
before its first record, `Records` that the claims of a job are paid for by its
retries, `Claimed(w)` where the worker's claim must be in the record, `Filing`
how the two copies relate during a move. Each step is either of an update, which
leaves a reader's view as it was, publishes the record in hand or retires the
archive's copy (`VisibleStep`), or it touches no record (`Control`), so that each
part of the invariant is shown twice and not once for each action. The audio and the ownership of the job in progress are invariants of
their own on top of it (`AudioInv`, `OwnedInv`). TLC checked each part on the
bounds of the runs before it was proved.

`CaptureSessionsProofs`, for any number of sessions of each kind:

* `Typing`: `Spec => []TypeOK`, where the relay's owner is a running session.
  It needs where the owner stands (`RelayOwner`).
* `OwnCapture`: `[]CaptureIsOwn`, from `PidHeld`: a recorder's PID file names it
  from `pid::create` on, since others remove or take only what dead ones left.
  Three lemmas say once what dictation, hosts, live transcripts and the rest
  leave alone, so that the other proofs look only at the steps that matter.
* `Microphone`, `OwnTranscript`: for `~RelayErrors`, `[]OneMicrophone` and
  `[]TranscriptIsOwn`, from `RelayHeld`: whoever is between taking and dropping
  the relay owns it, so that all writers and capturers are one process.
* `QuietMeeting`: for `~SlowSession`, `[]SensitiveExcludesCapture`. The
  invariant says that a live host is named by the session file, that a host
  between its check and its write is alone with no recording past
  `pid::create`, and that no recorder is past its second look while one hosts.

`DesktopProofs`, for any number of launches and of other processes'
recordings, from `ApAssumption` (launches are numbered, and zero and the other
processes are none of them):

* `Typing` and `Apart`: `[]LaunchesApart`. Its parts follow from three facts
  about the flags: `starting` and `recording` are each backed by a launch, the
  second unless a stop went astray (`FlagsBacked`); a launch that is pending
  has its reservation unless an older recording's last stores cleared it
  (`PendingReserved`); and whoever was asked to stop has captured
  (`AskedHaveBegun`).

and, for any number of requests and deaths of the app as well, and for both ways
the loop may be fed (`DkMixed`):

* `Served`: `[]RequestsServed`, over the same invariant of the launches. The
  loop's list of claims holds each request once, with its file claimed and not
  listed again (`Claims`); what is in the list, or was taken back, has not been
  served (`Serves`, `Written`, `Waits`); the head of the list while it is being
  launched stands for one launch and a recording since then (`Launching`); and an
  answer is as true in its file and with the client as it was when it was
  written (`Answers`).

and, for any number of calls and recordings and any finite set of countdowns
(`CeAssumption`):

* `Scoped`: `CallEndSpec => []CountdownScoped`, with `CallEndTyping`. Each flag of a
  recording is backed by the recording that has set it and has not yet cleared
  it (`CeBacked`, `CeByCallBacked`); there is one countdown beside a recording
  (`CeOneCountdown`), and a detector that has read the flags arms no other beside
  it (`CeNotRearmed`), so that it is the one that a choice to keep recording
  cancels (`CeKeptNoted`); and a countdown that was armed for a recording stands
  for the banner's recording that still captures (`CeAimed`). That the countdowns
  of an old recording are over when the next one begins is the assumption about
  time of section 2.

`CopilotProofs`, for any sets of sessions and commands; for every capacity of the
depth channel and every number of sessions and requests; for any set of relay
clients and every size of the ring and of a socket, and number of frames, owners and
broken connections; and for any set of partials, every capacity of the fast lane's
channel and every number of revisions, sessions and controls (`CrNoneAssumption`:
no request is `None`):

* `Heard`: `CopilotControlSpec => ControlsHeard`, an invariant and an action
  property. Both need that a session past its guard is the only one that clears
  (`Guarded`), so that after its own clearing every control that found its
  session is its own (`Cleared`, `Obeyed`); a rating that is in the file, or with
  its reader, is not yet applied (`Rated`).
* `DepthOwn`: `CopilotDepthSpec => []DepthIsOwn`, with `DepthTyping`. What the
  worker finds in the snapshot is of its request's session or nothing, since only
  a new session clears it and only that session's requests fill it (`CdWorkOwn`),
  so that neither the prompt nor the prior state needs another look at the epoch.
  Whatever the worker still has of an old session, a Reset is due or was dropped,
  and it stands before the new session's finals (`CdResets`): hence the exception
  for shifts, and the first refresh.
* `Guidance`: `CopilotRunnerSpec => GuidanceKept`, invariants and the action property
  `NewestKept`, with `RunnerTyping`. A call has its token in the runtime exactly
  while it runs (`RnCall`), so that a pause, which cancels what is there, either
  reaches the call or fell after the worker's last look (`RnQuiet`). The channel
  is a line: its requests come in the order of their numbers, none is of the
  future, the worker's own stands before them, and a Stop is in it only once the
  runtime is stopped (`RnLine`); hence whatever displaces the newest request would
  have to be newer still. While no Begin is on its way, or was dropped, the policy and what is
  about to be shown are of this session (`RnOwn`).
* `Complete`: `CaptureRelaySpec => RelayComplete`, an invariant and an action
  property, with `RelayTyping`. The updates in a socket follow each other without
  a hole, up to where the thread is (`RlStream`): a Gap ends where the first frame
  after it begins, since the ring cannot move while the thread keeps its mutex. So
  the client has an account of all that is before the next update, and nothing
  after it (`RlAccount`); and it is not given what was reported missing, for that
  is no longer in the ring and not among the frames already copied (`RlToldRight`).
  A reconnection starts from the cursor, up to which everything is accounted for,
  with nothing left in the socket. The frames that a cursor of an earlier session
  skips are the exception that `rlCarried` names.

and for any sets of ids, speakers, captures and generations and
every largest number, where `None` is no turn and no run (`LsNoneAssumption`):

* `Consistent`: `LiveSidekickSpec => SidekickConsistent`, invariants and the action
  property `NothingStale`, with `SessionTyping`. What is in a slot was issued under
  its own number (`LsSlots`), so that a pending invocation is one in a slot, and
  each event does one of four things to the invocations: it leaves them, cancels
  all, issues the next one into empty slots, or publishes what its slot holds.
  The sources of corrections and turns stay in the evidence because a new policy
  forgets all three together.

`TranscriptionProofs`, for every capacity, number of utterances and width of the
counters that exceeds what can be pending (`LqAssumption`):

* `Honest`: `[]BacklogHonest`, with `QueueTyping`. The counter is exact up to the
  utterance that is in the queue and not yet counted, or counted and not yet in
  work (`LqCounted`), which is what keeps its wrap-around harmless; the numbers of
  lines, of the utterance in work and of those in the queue increase in this
  order (`LqOrdered`), from which the order of the lines and the sums of what was
  dropped follow.

for any set of models that is not empty and any number of calls (`PsAssumption`):

* `Sound`: `[]SidecarSound`, with `SidecarTyping`. The starts of a call are paid for by
  its tries and by the one downgrade that a model gets (`PsPaid`, `PsBudget`); the
  attempt in hand differs from what was asked only where the blacklist that was
  read says so (`PsFrom`, `PsPlanned`), and the blacklist only grows; a shutdown
  leaves the manager disabled and with no call under way (`PsOff`).

and for any set of watchers, any finite set of names and any number of versions,
whether or not two watchers that both got the lock go on:

* `Handled`: `WatcherSpec => []FilesHandled`, with `WatcherTyping`, the whole of the
  promise. Without a contention the lock names the watcher that works
  (`WtLocked`). What the inbox holds was not filed before (`WtSound`); a candidate
  has settled, and what was read under its name is what will be moved, unless
  another file took the name (`WtSettledAt`, `WtReadAt`); a file that is still to be
  transcribed has no transcript, and a name that is twice in a batch is noted
  before its first artifact is made (`WtAheadAt`, `WtRepeatsAt`). A transcript whose
  file is still in the inbox is about to be filed by the watcher that made it
  (`WtLeaves`), which is why a restart finds only what a crash is excused for. Each
  whole file is in the queue or in the rest of the batch of every watcher that
  has listed the inbox, or was finished where nobody looked (`WtCoversAt`).

`FileProofs`, for any sets of writers and followers, every threshold of
rotation, every last number and any number of failed appends in a row:

* `Log`: `[]EventLogKept`, with `LogTyping`. Writers: a number is above the sidecar
  and the active file while it is being written (`EvGrowing`), how the file ends says
  whether the line can be read (`EvEndings`), and what one failed append hides
  from the sidecar is still in the active file (`EvFreshness`). Lost events are
  counted together with the one that the next append is going to spoil
  (`EvCredit`), without which the count is not inductive. Followers: numbers go
  missing only below the sidecar (`EvSolid`), so that what a follower has passed
  without seeing it nobody will ever find (`EvFollowing`). TLC checked these parts
  with three failures in a row and five numbers before they were proved.

and for any set of pipelines that is not empty, any finite sets of editors of the
app and of the command line, any writers at a time, and any numbers of names, files,
seconds and kept backups (`MdAssumption`):

* `Documents`: `MeetingDocumentSpec => DocumentsKept`, invariants and the action
  property `ReplacesWhatItRead`, with `DocumentTyping`. A writer at a document with
  others knows that it met them (`DcNoted`); a staging file is of the writer that
  is about to put it in place, unless two that stage alike met (`DcStaged`), and the
  file that is open to be written is its writer's (`DcOpened`), so that what a
  document's name leads to is whole (`DcWhole`). A document that was compared stays
  as it was until the swap (`DcCompared`), and a pipeline's document is at one name
  (`DcOne`). What a writer has made has a home (`DcHome`): a document that
  has it, or one that was cut for a note by a writer that has read it and is about
  to write it again; and nobody else is about to put there anything without it
  (`DcSpares`, `DcKept`). Where somebody is, the two had met, or a rename brought the
  one to the other's name. A
  run of `resummarize` has its own backup from the copy to the swap, unless another
  has the same second or there are more of them than backups (`DcBackups`).

`ServicesProofs`:

* `ServicesTyping`: `ServicesSpec => []ServicesTypeOK`. A step of the services is a
  step of each or leaves it alone, so that the types proved of each, those of
  `CopilotControl` (`ControlTyping`) and `DesktopControl` (`RequestTyping`) among
  them, hold of the whole; the app's launches are on their own in one part and
  those of `DesktopControl` in another, which is why the theorem looks at `part`.

The proofs changed the models three times. The two branches of `Rename` in `JobQueue`
had guards that overlapped, which allowed an update within the archive to go on
as if it had moved the record out; the branches are now `AfterRename`. And
`FreshSeq` held in the run of `EventLog` but not for three or more failures in
a row: two failures around a rotation hide a number from the sidecar and the
active file for good, which a later success does not repair. `evStreak`
therefore remembers that there were two. In `MeetingDocument`, two properties held
within the bounds of the run and not beyond. `BackupsApart` fails where more runs of
`resummarize` are under way than backups are kept, as each prunes the oldest: TLC
finds it with two runs and one backup. And an edit can be lost without its author
meeting anybody: a third writer still has the old content of a document in hand
while that is renamed, and swaps it in under a name that has been given to the
edited one since. Both are exceptions of the properties now, and what
the run shows is what it showed before.

Only model-checked is liveness, which the proof system cannot reach:
`EventuallySettled`, `StopHeard`, `DictationGivesWay`, `StopsReturn`.

## 5. Plan

Every safety property that a passing run checks is proved, some under the
hypotheses that section 4 names. What would come next are the parts that section
6 leaves out.

## 6. Not modelled

* **Dual-source and native call captures**: the first follows the protocol of
  `CaptureSessions` with a file per source, the second takes no relay and
  belongs to the operating system's capture API; neither adds a guard that the
  modelled recordings lack.
* **Capture devices, recognizers, transcription, diarization, summaries**: their
  control is a sequence of calls to devices, engines and external programs on
  one thread; how these end is a free choice in `JobQueue`, `CaptureSessions`,
  `Watcher` and `LiveQueue`. This is most of the repository's code, and what it
  computes is text and audio, about which nothing short of the code can say more.
* **Search, graph, context store**: SQLite transactions and indexes rebuilt from
  the documents; no modelled decision reads them back.
* **Daily notes, the vault's copies, the knowledge base, the editor's snapshots**:
  written after the document, and a failure is only a warning.
* **Voice activity detection, retention, configuration, evaluation**:
  sequential or pure, and enumerated by their unit tests.
* **User interface, site, SDK, tooling**: presentation, or not part of the
  running system.
