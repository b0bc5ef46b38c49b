--------------------------- MODULE JobQueueProofs ---------------------------
(***************************************************************************)
(* Proofs about JobQueue for every set of workers, clients and jobs and    *)
(* any number of stages, retries and crashes.                              *)
(*                                                                         *)
(* The types and SoleWorker hold whatever overlaps, is torn or fails, since *)
(* no update of a record touches the guard.  What is about the records      *)
(* holds while the updates of one job do not overlap (Serial), where need   *)
(* be without torn updates and disk errors (Tidy).  The invariant follows   *)
(* each update through its file operations (Window); a step is either of an *)
(* update (Update) or touches no record (Control).                          *)
(***************************************************************************)
EXTENDS JobQueue, TLAPS, WellFoundedInduction, FiniteSetTheorems

\* Worker w is past create_worker_guard.
InLoop(w) == pc[w] \notin {"off", "starting"}

\* The strengthening: whoever is past the guard is its only holder.
GuardInv ==
    /\ DOMAIN pc = Procs
    /\ \A w \in Workers : InLoop(w) => holders = {w}

\* Nobody is past the guard at first.
LEMMA GuardInvInit == Init => GuardInv
BY JobQueueAssumption DEF Init, GuardInv, InLoop, Procs

\* Steps of an update leave the guard and every program counter alone.
LEMMA UpdateKeepsGuard ==
    ASSUME NEW p \in Procs, Update(p)
    PROVE  UNCHANGED <<pc, holders>>
<1>1. CASE LoadActive(p)    BY <1>1 DEF LoadActive, Loaded, Step
<1>2. CASE LoadArchive(p)   BY <1>2 DEF LoadArchive, Loaded, Step
<1>3. CASE WriteTmp(p)      BY <1>3 DEF WriteTmp, Step
<1>4. CASE Rename(p)
  <2>1. CASE tmp[Written(upd[p])][upd[p].job] = NoRecord
    BY <1>4, <2>1 DEF Rename, Step
  <2>2. CASE tmp[Written(upd[p])][upd[p].job] # NoRecord
    BY <1>4, <2>2 DEF Rename, Step
  <2> QED BY <2>1, <2>2
<1>5. CASE RemoveArchive(p) BY <1>5 DEF RemoveArchive, Step
<1>6. CASE Link(p)          BY <1>6 DEF Link, Step
<1>7. CASE Unlink(p)        BY <1>7 DEF Unlink, Step
<1> QED
  BY <1>1, <1>2, <1>3, <1>4, <1>5, <1>6, <1>7 DEF Update

\* A step that moves only process p, which was past the guard or is a client,
\* and leaves the guard alone.
LEMMA MoveKeepsGuard ==
    ASSUME GuardInv, NEW p \in Procs, NEW l,
           p \in Clients \/ InLoop(p),
           Goto(p, l), UNCHANGED holders
    PROVE  GuardInv'
BY JobQueueAssumption DEF GuardInv, InLoop, Goto, Procs

\* A step in which worker w leaves the loop and gives up the guard.
LEMMA LeaveKeepsGuard ==
    ASSUME GuardInv, NEW w \in Workers,
           Goto(w, "off"), holders' = holders \ {w}
    PROVE  GuardInv'
BY JobQueueAssumption DEF GuardInv, InLoop, Goto, Procs

\* A worker passes create_worker_guard when there is no holder, and is off when it
\* lets go.
LEMMA WorkerKeepsGuard ==
    ASSUME GuardInv, NEW w \in Workers, Worker(w)
    PROVE  GuardInv'
<1> w \in Procs
  BY DEF Procs
<1>1. CASE StartWorker(w)
  <2>1. CASE TakeGuard(w) /\ ListThen(w, "pick")
    BY <2>1, JobQueueAssumption
       DEF TakeGuard, WorkerGuard!Acquire, ListThen, GuardInv, InLoop, Procs
  <2>2. CASE Goto(w, "off") /\ UNCHANGED holders
    BY <2>2, JobQueueAssumption DEF Goto, GuardInv, InLoop, Procs
  <2> QED BY <1>1, <2>1, <2>2 DEF StartWorker
<1>2. CASE LeaveQueue(w)
  BY <1>2, LeaveKeepsGuard DEF LeaveQueue, WorkerGuard!Release
<1>3. CASE ExitOnError(w)
  BY <1>3, LeaveKeepsGuard DEF ExitOnError, WorkerGuard!Release
<1>4. CASE PickJob(w)
  BY <1>4, MoveKeepsGuard DEF PickJob, ListThen, Goto, InLoop
<1>5. CASE JobGone(w) \/ Proceed(w) \/ Transcribe(w)
  BY <1>5, MoveKeepsGuard DEF JobGone, Proceed, Transcribe, ListThen, Goto, InLoop
<1>6. CASE ReportStage(w) \/ StageReported(w) \/ Enrich(w)
  <2>1. InLoop(w) /\ UNCHANGED holders
    BY <1>6 DEF ReportStage, StageReported, Enrich, InLoop
  <2>2. \E l : Goto(w, l)
    BY <1>6 DEF ReportStage, StageReported, Enrich, ListThen, Goto
  <2> QED BY <2>1, <2>2, MoveKeepsGuard
<1>7. CASE PreserveAudio(w) \/ AudioPreserved(w)
  BY <1>7, MoveKeepsGuard
     DEF PreserveAudio, AudioPreserved, ListThen, Goto, InLoop
<1> QED
  BY <1>1, <1>2, <1>3, <1>4, <1>5, <1>6, <1>7 DEF Worker

\* Whoever lists jobs stays on its side of the guard.
LEMMA ListKeepsGuard ==
    ASSUME GuardInv, NEW p \in Procs, ListJobs(p)
    PROVE  GuardInv'
<1>1. CASE Snapshot(p)
  <2>1. p \in Clients \/ InLoop(p)
    BY <1>1 DEF Snapshot, InLoop, Procs
  <2>2. (\E l : Goto(p, l)) /\ UNCHANGED holders
    BY <1>1 DEF Snapshot
  <2> QED BY <2>1, <2>2, MoveKeepsGuard
<1>2. CASE RecoverNext(p)
  BY <1>2 DEF RecoverNext, GuardInv, InLoop
<1>3. CASE RecoverEnd(p)
  BY <1>3, MoveKeepsGuard DEF RecoverEnd, InLoop
<1> QED
  BY <1>1, <1>2, <1>3 DEF ListJobs

\* Clients never hold the guard.
LEMMA ClientKeepsGuard ==
    ASSUME GuardInv, NEW c \in Clients,
           Request(c) \/ Client(c) \/ LaunchApp(c) \/ CrashClient(c)
    PROVE  GuardInv'
<1> c \in Procs
  BY DEF Procs
<1>1. CASE SpawnWorker(c)
  <2>1. CASE Goto(c, "idle")
    BY <1>1, <2>1, MoveKeepsGuard DEF SpawnWorker
  <2>2. ASSUME NEW w \in Workers, pc[w] = "off",
               pc' = [pc EXCEPT ![c] = "idle", ![w] = "starting"]
        PROVE  GuardInv'
    BY <1>1, <2>2, JobQueueAssumption DEF SpawnWorker, GuardInv, InLoop, Procs
  <2> QED BY <1>1, <2>1, <2>2 DEF SpawnWorker
<1>2. CASE Poll(c) \/ LaunchApp(c)
  BY <1>2, MoveKeepsGuard DEF Poll, LaunchApp, ListThen, Goto
<1>3. CASE \E j \in Jobs : QueueCapture(c, j) \/ RetryJob(c, j)
  BY <1>3, MoveKeepsGuard DEF QueueCapture, RetryJob
<1>4. CASE \E j \in Jobs : ShowNotice(c, j)
  BY <1>4 DEF ShowNotice, GuardInv, InLoop
<1>5. CASE DismissNotice(c) \/ Dismissed(c) \/ CrashClient(c)
  BY <1>5, MoveKeepsGuard DEF DismissNotice, Dismissed, CrashClient
<1>6. CASE CaptureQueued(c) \/ Retried(c)
  <2>1. (\E l : Goto(c, l)) /\ UNCHANGED holders
    BY <1>6 DEF CaptureQueued, Retried, ListThen, Goto
  <2> QED BY <2>1, MoveKeepsGuard
<1> QED
  BY <1>1, <1>2, <1>3, <1>4, <1>5, <1>6 DEF Request, Client

\* So every step keeps the guard to one worker.
LEMMA GuardInvNext == GuardInv /\ [Next]_vars => GuardInv'
<1> SUFFICES ASSUME GuardInv, [Next]_vars
             PROVE  GuardInv'
  OBVIOUS
<1>1. ASSUME NEW p \in Procs, Update(p)
      PROVE  GuardInv'
  BY <1>1, UpdateKeepsGuard DEF GuardInv, InLoop
<1>2. ASSUME NEW p \in Procs, ListJobs(p)
      PROVE  GuardInv'
  BY <1>2, ListKeepsGuard
<1>3. ASSUME NEW w \in Workers, Worker(w)
      PROVE  GuardInv'
  BY <1>3, WorkerKeepsGuard
<1>4. ASSUME NEW w \in Workers, CrashWorker(w)
      PROVE  GuardInv'
  BY <1>4, LeaveKeepsGuard DEF CrashWorker
<1>5. ASSUME NEW c \in Clients,
             Request(c) \/ Client(c) \/ LaunchApp(c) \/ CrashClient(c)
      PROVE  GuardInv'
  BY <1>5, ClientKeepsGuard
<1>6. CASE UNCHANGED vars
  BY <1>6 DEF vars, GuardInv, InLoop
<1> QED
  BY <1>1, <1>2, <1>3, <1>4, <1>5, <1>6 DEF Next

\* At most one process works through the queue, whatever happens to records,
\* files, workers and clients, as long as the guard excludes (PidFile).
THEOREM OneWorker == Spec => []SoleWorker
<1>1. GuardInv => SoleWorker
  BY DEF GuardInv, InLoop, SoleWorker
<1> QED
  BY GuardInvInit, GuardInvNext, <1>1, PTL DEF Spec

-----------------------------------------------------------------------------
(* Types, and where each process is with the update it has in hand.        *)

\* The kinds of update, and the places in the code that wait for them.
Placed(p) ==
    /\ p \in Clients =>
          /\ pc[p] \in {"list", "recover", "idle", "queue", "retry", "dismiss", "spawn"}
          /\ after[p] \in {"idle", "spawn"}
    /\ p \in Workers =>
          /\ pc[p] \in {"off", "starting", "list", "recover", "pick", "claim", "transcribe",
                        "transcript", "enrich", "stage", "settle", "preserve", "leave"}
          /\ pc[p] \in {"list", "recover"} =>
                after[p] \in {"pick", "transcribe", "enrich", "leave"}
          /\ upd[p].kind \notin {"none", "recover"} => upd[p].job = job[p]
          /\ WorkingOn(p) => job[p] \in Jobs
          /\ pc[p] = "stage" => stage[p] \in DOMAIN EnrichStages
    /\ upd[p].kind = "claim" <=> pc[p] = "claim"
    /\ upd[p].kind = "transcript" <=> pc[p] = "transcript"
    /\ upd[p].kind = "stage" <=> pc[p] = "stage"
    /\ upd[p].kind \in {"fail", "review", "complete"} <=> pc[p] = "settle"
    /\ upd[p].kind = "audio" <=> pc[p] = "preserve"
    /\ upd[p].kind = "new" <=> pc[p] = "queue"
    /\ upd[p].kind = "requeue" <=> pc[p] = "retry"
    /\ upd[p].kind = "dismiss" <=> pc[p] = "dismiss"
    /\ upd[p].kind = "recover" => pc[p] = "recover"
    /\ upd[p].kind = "none" <=> upd[p].at = "off"
    /\ upd[p].kind = "none" => upd[p] = NoUpdate
    /\ upd[p].kind # "none" => upd[p].job \in Jobs
    /\ upd[p].at \in {"write", "rename", "removeArchive", "link", "unlink", "done"} =>
          upd[p].rec \in ProcessingJob
    /\ upd[p].kind = "new" =>
          /\ upd[p].src = "active" /\ upd[p].rec = NewJob
          /\ upd[p].at \in {"write", "rename", "done", "err"}

TypeInv ==
    /\ TypeOK
    /\ \A p \in Procs : Placed(p)

\* A step leaves what belongs to process q alone.
Spares(q) ==
    /\ pc'[q] = pc[q] /\ upd'[q] = upd[q] /\ job'[q] = job[q]
    /\ todo'[q] = todo[q] /\ after'[q] = after[q]
    /\ q \in Workers => stage'[q] = stage[q]

\* A step of p alone.
Alone(p) == \A q \in Procs \ {p} : Spares(q)

\* Where a process is depends on its own state alone.
LEMMA SparedPlaced ==
    ASSUME NEW q \in Procs, Placed(q), Spares(q)
    PROVE  Placed(q)'
BY DEF Placed, Spares, WorkingOn

\* So a step of one process keeps the others where they are.
LEMMA AlonePlaced ==
    ASSUME TypeInv, NEW p \in Procs, TypeOK', Alone(p), Placed(p)'
    PROVE  TypeInv'
BY SparedPlaced DEF TypeInv, Alone

\* The types hold at first.
LEMMA TypeInvInit == Init => TypeInv
<1> SUFFICES ASSUME Init
             PROVE  TypeInv
  OBVIOUS
<1> USE JobQueueAssumption DEF Init, NoUpdate
<1>1. TypeOK
  BY DEF TypeOK, Dirs
<1>2. ASSUME NEW p \in Procs
      PROVE  Placed(p)
  BY <1>2 DEF Placed, WorkingOn, Procs
<1> QED BY <1>1, <1>2 DEF TypeInv

\* What each closure returns is a record.
LEMMA ApplyTypes ==
    ASSUME NEW p \in Procs, NEW r \in ProcessingJob, TypeInv,
           upd[p].kind \notin {"none", "new"}
    PROVE  Apply(p, upd[p].kind, r) \in ProcessingJob
<1> DEFINE kind == upd[p].kind
<1>0. /\ kind \in {"claim", "transcript", "stage", "fail", "review", "complete", "audio",
                   "recover", "requeue", "dismiss"}
      /\ kind = "claim" => p \in Workers
      /\ kind = "stage" => EnrichStages[stage[p]] \in InProgress
  BY JobQueueAssumption DEF TypeInv, TypeOK, Placed, Procs
<1> USE DEF ProcessingJob, JobState, Terminal, Retryable, InProgress
<1>1. CASE kind = "claim"
  BY <1>0, <1>1 DEF Apply, Claim
<1>2. CASE kind \in {"transcript", "stage", "audio"}
  BY <1>0, <1>2 DEF Apply, HaveTranscript, EnterStage, MoveAudioPath
<1>3. CASE kind \in {"fail", "review", "complete"}
  BY <1>3 DEF Apply, Settle
<1>4. CASE kind = "recover"
  <2>1. r.retries + 1 \in Nat /\ NoOwner \in Workers \cup {NoOwner}
    OBVIOUS
  <2>2. CASE IsStale(r, AliveWorkers) /\ r.retries + 1 > MaxAutoRetries
    BY <1>4, <2>1, <2>2 DEF Apply, Recover
  <2>3. CASE IsStale(r, AliveWorkers) /\ ~(r.retries + 1 > MaxAutoRetries)
    BY <1>4, <2>1, <2>3 DEF Apply, Recover
  <2>4. CASE ~IsStale(r, AliveWorkers)
    BY <1>4, <2>4 DEF Apply, Recover
  <2> QED BY <2>2, <2>3, <2>4
<1>5. CASE kind \in {"requeue", "dismiss"}
  BY <1>5 DEF Apply, Requeue, Dismiss
<1> HIDE DEF kind
<1> QED BY <1>0, <1>1, <1>2, <1>3, <1>4, <1>5

\* An update in hand is at work on a job, and has a closure unless it is new.
LEMMA UpdateAlone ==
    ASSUME TypeInv, NEW p \in Procs, Update(p)
    PROVE  /\ UNCHANGED <<audio, holders, pc, job, todo, after, stage, crashes, manuals>>
           /\ \A q \in Procs \ {p} : upd'[q] = upd[q]
           /\ Alone(p)
<1>1. UNCHANGED <<audio, holders, pc, job, todo, after, stage, crashes, manuals>>
  <2>1. CASE LoadActive(p)    BY <2>1 DEF LoadActive, Loaded, Step
  <2>2. CASE LoadArchive(p)   BY <2>2 DEF LoadArchive, Loaded, Step
  <2>3. CASE WriteTmp(p)      BY <2>3 DEF WriteTmp, Step
  <2>4. CASE Rename(p)        BY <2>4 DEF Rename, Step
  <2>5. CASE RemoveArchive(p) BY <2>5 DEF RemoveArchive, Step
  <2>6. CASE Link(p)          BY <2>6 DEF Link, Step
  <2>7. CASE Unlink(p)        BY <2>7 DEF Unlink, Step
  <2> QED BY <2>1, <2>2, <2>3, <2>4, <2>5, <2>6, <2>7 DEF Update
<1>2. \A q \in Procs \ {p} : upd'[q] = upd[q]
  <2> USE DEF TypeInv, TypeOK
  <2>1. CASE LoadActive(p)    BY <2>1 DEF LoadActive, Loaded, Step
  <2>2. CASE LoadArchive(p)   BY <2>2 DEF LoadArchive, Loaded, Step
  <2>3. CASE WriteTmp(p)      BY <2>3 DEF WriteTmp, Step
  <2>4. CASE Rename(p)        BY <2>4 DEF Rename, Step
  <2>5. CASE RemoveArchive(p) BY <2>5 DEF RemoveArchive, Step
  <2>6. CASE Link(p)          BY <2>6 DEF Link, Step
  <2>7. CASE Unlink(p)        BY <2>7 DEF Unlink, Step
  <2> QED BY <2>1, <2>2, <2>3, <2>4, <2>5, <2>6, <2>7 DEF Update
<1> QED BY <1>1, <1>2 DEF Alone, Spares

\* What a process has in hand of an update.
Slots ==
    [kind : {"none", "new", "claim", "transcript", "stage", "fail", "review",
             "complete", "audio", "recover", "requeue", "dismiss"},
     job  : Jobs \cup {NoJob},
     at   : {"off", "load", "loadArchive", "write", "rename",
             "removeArchive", "link", "unlink", "done", "none", "err"},
     src  : Dirs,
     rec  : ProcessingJob \cup {NoRecord}]

\* All that TypeOK says but for the files and the history of claims.
RestTypes ==
    /\ audio \in [Jobs -> {"capture", "jobs", "output"}]
    /\ holders \subseteq Workers
    /\ pc \in [Procs -> {"off", "starting", "list", "recover", "pick", "claim",
                         "transcribe", "transcript", "enrich", "stage", "settle",
                         "preserve", "leave", "idle", "queue", "retry",
                         "dismiss", "spawn"}]
    /\ job \in [Procs -> Jobs \cup {NoJob}]
    /\ todo \in [Procs -> SUBSET Jobs]
    /\ after \in [Procs -> {"pick", "transcribe", "enrich", "leave", "spawn", "idle"}]
    /\ stage \in [Workers -> DOMAIN EnrichStages \cup {0}]
    /\ crashes \in Nat /\ manuals \in Nat

FileTypes ==
    /\ json \in [Dirs -> [Jobs -> ProcessingJob \cup {NoRecord}]]
    /\ tmp \in [Dirs -> [Jobs -> ProcessingJob \cup {NoRecord}]]
    /\ claims \in [Jobs -> Nat]

\* The types are those of the files, of the updates and of the rest.
LEMMA TypesSplit == TypeOK <=> FileTypes /\ upd \in [Procs -> Slots] /\ RestTypes
BY DEF TypeOK, FileTypes, Slots, RestTypes

\* A step of an update on its way: only its position changes.
LEMMA StepTypes ==
    ASSUME TypeInv, NEW p \in Procs, NEW from, NEW to, Step(p, from, to),
           to \in {"loadArchive", "write", "rename", "removeArchive", "link", "unlink",
                   "done", "none", "err"},
           from # "off",
           to \in {"rename", "removeArchive", "link", "unlink", "done"} =>
               from \in {"write", "rename", "removeArchive", "link", "unlink", "done"},
           upd[p].kind = "new" => to \in {"rename", "done", "err"}, to # "write"
    PROVE  upd' \in [Procs -> Slots] /\ Placed(p)' /\ RestTypes'
<1>0. upd \in [Procs -> Slots] /\ RestTypes /\ Placed(p)
  BY TypesSplit DEF TypeInv
<1>1. upd' \in [Procs -> Slots]
  BY <1>0 DEF Step, Slots
<1>2. Placed(p)'
  <2>1. /\ upd[p].kind # "none" /\ upd'[p].kind = upd[p].kind /\ upd'[p].job = upd[p].job
        /\ upd'[p].src = upd[p].src /\ upd'[p].rec = upd[p].rec
        /\ upd'[p].at = to /\ upd[p].at = from /\ upd'[p] # NoUpdate
    BY <1>0 DEF Placed, Step, Slots, NoUpdate
  <2>2. UNCHANGED <<pc, job, after, stage>>
    BY DEF Step
  <2> QED BY <1>0, <2>1, <2>2 DEF Placed, WorkingOn
<1>3. RestTypes'
  BY <1>0, Zenon DEF RestTypes, Step
<1> QED BY <1>1, <1>2, <1>3

\* A loaded record and what the closure makes of it are records.
LEMMA LoadedTypes ==
    ASSUME TypeInv, NEW p \in Procs, NEW d \in Dirs, Loaded(p, d),
           upd[p].at \in {"load", "loadArchive"},
           json[d][upd[p].job] # NoRecord
    PROVE  upd' \in [Procs -> Slots] /\ Placed(p)' /\ RestTypes'
<1>0. upd \in [Procs -> Slots] /\ RestTypes /\ FileTypes /\ Placed(p)
  BY TypesSplit DEF TypeInv
<1> DEFINE r == Apply(p, upd[p].kind, json[d][upd[p].job])
<1>1. r \in ProcessingJob
  <2>1. upd[p].job \in Jobs /\ upd[p].kind \notin {"none", "new"}
    BY <1>0 DEF Placed, Slots
  <2>2. json[d][upd[p].job] \in ProcessingJob
    BY <1>0, <2>1 DEF FileTypes
  <2> QED BY <2>1, <2>2, ApplyTypes
<1>2. upd' = [upd EXCEPT ![p].at = "write", ![p].src = d, ![p].rec = r]
  BY DEF Loaded
<1> HIDE DEF r
<1>3. upd' \in [Procs -> Slots]
  <2>1. [upd[p] EXCEPT !.at = "write", !.src = d, !.rec = r] \in Slots
    <3>1. upd[p] \in Slots
      BY <1>0
    <3> QED BY <3>1, <1>1 DEF Slots
  <2>2. upd' = [upd EXCEPT ![p] = [upd[p] EXCEPT !.at = "write", !.src = d, !.rec = r]]
    BY <1>2
  <2> QED BY <1>0, <2>1, <2>2
<1>4. Placed(p)'
  <2>1. /\ upd[p].kind # "none" /\ upd'[p].kind = upd[p].kind /\ upd'[p].job = upd[p].job
        /\ upd'[p].rec = r /\ upd'[p].at = "write" /\ upd[p].kind # "new"
        /\ upd'[p] # NoUpdate
    BY <1>0, <1>2 DEF Placed, Slots, NoUpdate
  <2>2. UNCHANGED <<pc, job, after, stage>>
    BY DEF Loaded
  <2> QED BY <1>0, <1>1, <2>1, <2>2 DEF Placed, WorkingOn
<1>5. RestTypes'
  BY <1>0 DEF RestTypes, Loaded
<1> QED BY <1>3, <1>4, <1>5

\* What becomes of an update whose temporary file is there to rename.
LEMMA RenameTarget ==
    ASSUME NEW p \in Procs, Rename(p), tmp[Written(upd[p])][upd[p].job] # NoRecord
    PROVE  \E to \in {"done", "removeArchive", "link"} :
               /\ Step(p, "rename", to)
               /\ upd[p].src = Dest(upd[p]) => to = "done"
               /\ upd[p].src # Dest(upd[p]) /\ upd[p].src = "archive" => to = "removeArchive"
               /\ upd[p].src # Dest(upd[p]) /\ upd[p].src # "archive" => to = "link"
BY DEF Rename, AfterRename

\* Every step of an update keeps the types and its place.
LEMMA UpdateTypes ==
    ASSUME TypeInv, NEW p \in Procs, Update(p)
    PROVE  TypeInv'
<1>00. upd \in [Procs -> Slots] /\ RestTypes /\ FileTypes /\ Placed(p)
  BY TypesSplit DEF TypeInv
<1>01. upd[p].at # "off" => upd[p].job \in Jobs
  BY <1>00 DEF Placed
<1>0. /\ upd \in [Procs -> Slots] /\ RestTypes /\ FileTypes /\ Placed(p)
      /\ upd[p].at # "off" => upd[p].job \in Jobs
  BY <1>00, <1>01
<1>d. Dirs = {"active", "archive"}
  BY DEF Dirs
<1>a. SUFFICES FileTypes' /\ upd' \in [Procs -> Slots] /\ Placed(p)' /\ RestTypes'
  <2>1. (FileTypes /\ upd \in [Procs -> Slots] /\ RestTypes)' => TypeOK'
    BY DEF TypeOK, FileTypes, Slots, RestTypes
  <2> QED BY <2>1, UpdateAlone, AlonePlaced
<1>1. CASE LoadActive(p)
  <2> USE <1>1 DEF LoadActive
  <2>1. FileTypes'
    BY <1>0, Zenon DEF FileTypes, Loaded
  <2>2. CASE json["active"][upd[p].job] # NoRecord /\ Loaded(p, "active")
    BY <2>1, <2>2, <1>d, LoadedTypes
  <2>3. CASE Step(p, "load", "loadArchive")
    <3>1. upd[p].kind # "new"
      BY <1>0 DEF Placed
    <3> QED BY <2>1, <2>3, <3>1, StepTypes
  <2> QED BY <2>2, <2>3
<1>2. CASE LoadArchive(p)
  <2> USE <1>2 DEF LoadArchive
  <2>1. FileTypes'
    BY <1>0, Zenon DEF FileTypes, Loaded
  <2>2. CASE json["archive"][upd[p].job] # NoRecord /\ Loaded(p, "archive")
    BY <2>1, <2>2, <1>d, LoadedTypes
  <2>3. CASE Step(p, "loadArchive", "none")
    <3>1. upd[p].kind # "new"
      BY <1>0 DEF Placed
    <3> QED BY <2>1, <2>3, <3>1, StepTypes
  <2> QED BY <2>2, <2>3
<1>3. CASE WriteTmp(p)
  <2> USE <1>3 DEF WriteTmp
  <2>1. upd[p].at = "write" /\ upd[p].job \in Jobs /\ upd[p].rec \in ProcessingJob
    BY <1>0 DEF Step, Placed
  <2>2. FileTypes'
    <3>1. UNCHANGED <<json, claims>>
      OBVIOUS
    <3>2. \/ tmp' = tmp
          \/ tmp' = [tmp EXCEPT ![Written(upd[p])][upd[p].job] = upd[p].rec]
      OBVIOUS
    <3> HIDE DEF WriteTmp
    <3>3. tmp' \in [Dirs -> [Jobs -> ProcessingJob \cup {NoRecord}]]
      <4> DEFINE recs == [Jobs -> ProcessingJob \cup {NoRecord}]
                 w == Written(upd[p])
      <4>1. tmp \in [Dirs -> recs]
        BY <1>0 DEF FileTypes
      <4>2. w \in Dirs => [tmp[w] EXCEPT ![upd[p].job] = upd[p].rec] \in recs
        BY <2>1, <4>1
      <4>3. tmp' = tmp \/ tmp' = [tmp EXCEPT ![w] = [tmp[w] EXCEPT ![upd[p].job] = upd[p].rec]]
        BY <3>2
      <4> HIDE DEF recs, w
      <4>4. tmp' \in [Dirs -> recs]
        BY <4>1, <4>2, <4>3
      <4> QED BY <4>4 DEF recs
    <3> QED BY <1>0, <3>1, <3>3 DEF FileTypes
  <2>3. Step(p, "write", "rename") \/ Step(p, "write", "err")
    OBVIOUS
  <2> QED BY <2>2, <2>3, StepTypes
<1>4. CASE Rename(p)
  <2> USE <1>4
  <2> DEFINE d == Written(upd[p])
  <2>1. /\ upd[p].at = "rename" /\ upd[p].job \in Jobs /\ d \in Dirs
        /\ upd[p].kind = "new" => upd[p].src = Dest(upd[p])
    BY <1>0, <1>d DEF Rename, Placed, Written, Dest, NewJob, Terminal, Retryable
  <2>2. claims' \in [Jobs -> Nat]
    BY <1>0, <2>1 DEF Rename, FileTypes, Charged
  <2>3. CASE tmp[d][upd[p].job] = NoRecord
    <3>1. Step(p, "rename", "err") /\ UNCHANGED <<json, tmp>>
      BY <2>3, Zenon DEF Rename
    <3>2. FileTypes'
      BY <1>0, <3>1, <2>2, Zenon DEF FileTypes
    <3> QED BY <3>1, <3>2, StepTypes
  <2>4. CASE tmp[d][upd[p].job] # NoRecord
    <3>1. /\ json' = [json EXCEPT ![d][upd[p].job] = tmp[d][upd[p].job]]
          /\ tmp' = [tmp EXCEPT ![d][upd[p].job] = NoRecord]
      BY <2>4, Zenon DEF Rename
    <3> HIDE DEF d
    <3>2. FileTypes'
      BY <1>0, <3>1, <2>1, <2>2, <2>4 DEF FileTypes
    <3>3. \E to \in {"done", "removeArchive", "link"} :
              Step(p, "rename", to) /\ (upd[p].kind = "new" => to = "done")
      BY <2>1, <2>4, RenameTarget, Zenon DEF d
    <3> QED BY <3>2, <3>3, StepTypes
  <2> QED BY <2>3, <2>4
<1>5. CASE RemoveArchive(p)
  <2> USE <1>5 DEF RemoveArchive
  <2>1. Step(p, "removeArchive", "done") /\ upd[p].job \in Jobs /\ upd[p].kind # "new"
    BY <1>0 DEF Step, Placed
  <2>2. FileTypes'
    BY <1>0, <2>1, <1>d DEF FileTypes
  <2> QED BY <2>1, <2>2, StepTypes
<1>6. CASE Link(p)
  <2> USE <1>6 DEF Link
  <2>1. upd[p].at = "link" /\ upd[p].job \in Jobs /\ upd[p].kind # "new"
    BY <1>0 DEF Placed
  <2>2. FileTypes'
    BY <1>0, <2>1, <1>d DEF FileTypes
  <2>3. Step(p, "link", "unlink") \/ Step(p, "link", "done")
    BY DEF AfterLinkError
  <2> QED BY <2>1, <2>2, <2>3, StepTypes
<1>7. CASE Unlink(p)
  <2> USE <1>7 DEF Unlink
  <2>1. Step(p, "unlink", "done") /\ upd[p].job \in Jobs /\ upd[p].kind # "new"
    BY <1>0 DEF Step, Placed
  <2>2. FileTypes'
    BY <1>0, <2>1, <1>d DEF FileTypes
  <2> QED BY <2>1, <2>2, StepTypes
<1> QED BY <1>1, <1>2, <1>3, <1>4, <1>5, <1>6, <1>7 DEF Update

\* The kinds of update_job_state call.
Calls == {"claim", "transcript", "stage", "fail", "review", "complete", "audio",
          "recover", "requeue", "dismiss"}

\* A call of update_job_state begins at its load, with no record.
LEMMA CallMade ==
    ASSUME upd \in [Procs -> Slots], NEW p \in Procs, NEW kind \in Calls, NEW j \in Jobs,
           Call(p, kind, j)
    PROVE  /\ upd' \in [Procs -> Slots]
           /\ upd'[p].kind = kind /\ upd'[p].job = j /\ upd'[p].at = "load"
           /\ upd'[p].src = "active" /\ upd'[p].rec = NoRecord
           /\ \A q \in Procs \ {p} : upd'[q] = upd[q]
BY DEF Call, NoUpdate, Slots, Calls, Dirs

\* A call that returns leaves nothing of itself, and the others' alone.
LEMMA Reset ==
    ASSUME upd \in [Procs -> Slots], NEW p \in Procs, Return(p)
    PROVE  /\ upd' \in [Procs -> Slots]
           /\ upd'[p] = NoUpdate /\ upd'[p].kind = "none" /\ upd'[p].at = "off"
           /\ \A q \in Procs \ {p} : upd'[q] = upd[q]
BY DEF Return, NoUpdate, Slots, Dirs

\* A step that leaves the files alone keeps the types if what its process p has
\* to hand still has its type and its place.
LEMMA ControlTypes ==
    ASSUME TypeInv, NEW p \in Procs, UNCHANGED <<files, claims>>,
           RestTypes', upd' \in [Procs -> Slots], Alone(p), Placed(p)'
    PROVE  TypeInv'
<1>1. FileTypes'
  BY TypesSplit DEF TypeInv, FileTypes, files
<1>2. TypeOK'
  BY <1>1 DEF TypeOK, FileTypes, Slots, RestTypes
<1> QED BY <1>2, AlonePlaced

\* The least job of a set is in it.
LEMMA FirstIn == ASSUME NEW S \in SUBSET Jobs, S # {} PROVE First(S) \in S
<1>1. \E j \in S : \A k \in S : j <= k
  <2> DEFINE Below(j) == {k \in S : k <= j}
             T == {Below(j) : j \in S}
  <2>1. S \subseteq Nat /\ IsFiniteSet(S)
    BY JobQueueAssumption, FS_Subset
  <2>2. IsWellFoundedOn(StrictSubsetOrdering(S), SUBSET S)
    BY <2>1, FS_StrictSubsetOrderingWellFounded, FS_FiniteSubsetsOfFinite
  <2>3. PICK B \in T : \A C \in T : <<C, B>> \notin StrictSubsetOrdering(S)
    <3>0. PICK j \in S : TRUE
      OBVIOUS
    <3>1. T # {}
      BY <3>0, Below(j) \in T
    <3>2. ASSUME NEW C \in T
          PROVE  C \in SUBSET S
      <4>1. PICK k \in S : C = Below(k)
        OBVIOUS
      <4> QED BY <4>1
    <3> HIDE DEF T
    <3>3. T \subseteq SUBSET S
      BY <3>2
    <3> QED BY <2>2, <3>1, <3>3, WFMin
  <2>4. PICK j \in S : B = Below(j)
    BY <2>3
  <2>5. ASSUME NEW k \in S, k < j
        PROVE  FALSE
    <3>0. Below(k) \in T
      OBVIOUS
    <3>1. ASSUME NEW i \in Below(k)
          PROVE  i \in Below(j)
      <4>1. i \in Nat /\ k \in Nat /\ j \in Nat /\ i <= k
        BY <2>1
      <4> QED BY <2>5, <4>1
    <3>2. j \in Below(j) /\ j \notin Below(k)
      BY <2>1, <2>5
    <3>3. <<Below(k), Below(j)>> \in StrictSubsetOrdering(S)
      BY <3>1, <3>2 DEF StrictSubsetOrdering
    <3> QED BY <2>3, <2>4, <3>0, <3>3
  <2>6. ASSUME NEW k \in S
        PROVE  j <= k
    BY <2>1, <2>5
  <2> QED BY <2>6
<1> QED BY <1>1 DEF First

\* Listing and recovering keep the types.
LEMMA ListTypes ==
    ASSUME TypeInv, NEW p \in Procs, ListJobs(p)
    PROVE  TypeInv' /\ Alone(p)
<1>0. upd \in [Procs -> Slots] /\ RestTypes /\ Placed(p) /\ FileTypes
  BY TypesSplit DEF TypeInv
<1>1. CASE Snapshot(p)
  <2> USE <1>1 DEF Snapshot
  <2>1. upd' \in [Procs -> Slots] /\ UNCHANGED <<files, claims>>
    BY <1>0
  <2>2. RestTypes'
    BY <1>0 DEF RestTypes, Goto
  <2>3. Alone(p)
    BY <1>0 DEF Alone, Spares, RestTypes, Goto
  <2>4. Placed(p)'
    BY <1>0, JobQueueAssumption DEF Placed, RestTypes, Goto, WorkingOn, Procs
  <2> QED BY <2>1, <2>2, <2>3, <2>4, ControlTypes
<1>2. CASE RecoverNext(p)
  <2> USE <1>2 DEF RecoverNext
  <2>0. First(todo[p]) \in Jobs
    BY <1>0, FirstIn DEF RestTypes
  <2>1. /\ upd' \in [Procs -> Slots] /\ UNCHANGED <<files, claims>>
        /\ upd'[p].kind = "recover" /\ upd'[p].job \in Jobs /\ upd'[p].at = "load"
        /\ \A q \in Procs \ {p} : upd'[q] = upd[q]
    BY <1>0, <2>0, CallMade DEF Calls
  <2>2. RestTypes'
    BY <1>0 DEF RestTypes
  <2>3. Alone(p)
    BY <1>0, <2>1 DEF Alone, Spares, RestTypes
  <2>4. Placed(p)'
    BY <1>0, <2>1 DEF Placed, NoUpdate, WorkingOn
  <2> QED BY <2>1, <2>2, <2>3, <2>4, ControlTypes
<1>3. CASE RecoverEnd(p)
  <2> USE <1>3 DEF RecoverEnd
  <2>1. /\ upd' \in [Procs -> Slots] /\ UNCHANGED <<files, claims>>
        /\ upd'[p] = NoUpdate /\ \A q \in Procs \ {p} : upd'[q] = upd[q]
    BY <1>0, Reset
  <2>2. RestTypes'
    BY <1>0 DEF RestTypes, Goto
  <2>3. Alone(p)
    BY <1>0, <2>1 DEF Alone, Spares, RestTypes, Goto
  <2>4. Placed(p)'
    BY <1>0, <2>1, JobQueueAssumption DEF Placed, RestTypes, Goto, NoUpdate, WorkingOn, Procs
  <2> QED BY <2>1, <2>2, <2>3, <2>4, ControlTypes
<1> QED BY <1>1, <1>2, <1>3 DEF ListJobs

\* The worker's own steps keep the types.
LEMMA WorkerTypes ==
    ASSUME TypeInv, NEW w \in Workers, Worker(w)
    PROVE  TypeInv' /\ Alone(w)
<1> w \in Procs /\ w \notin Clients
  BY JobQueueAssumption DEF Procs
<1>0. upd \in [Procs -> Slots] /\ RestTypes /\ Placed(w)
  BY TypesSplit DEF TypeInv
<1>s. 0 \in DOMAIN EnrichStages \cup {0}
  OBVIOUS
<1> SUFFICES ASSUME UNCHANGED <<files, claims>>
             PROVE  upd' \in [Procs -> Slots] /\ RestTypes' /\ Alone(w) /\ Placed(w)'
  <2>1. UNCHANGED <<files, claims>>
    <3> USE DEF files
    <3>1. CASE StartWorker(w) \/ PickJob(w) \/ LeaveQueue(w) \/ ExitOnError(w)
      BY <3>1 DEF StartWorker, PickJob, LeaveQueue, ExitOnError
    <3>2. CASE JobGone(w) \/ Proceed(w) \/ Transcribe(w) \/ ReportStage(w)
      BY <3>2 DEF JobGone, Proceed, Transcribe, ReportStage
    <3>3. CASE StageReported(w) \/ Enrich(w) \/ PreserveAudio(w) \/ AudioPreserved(w)
      BY <3>3 DEF StageReported, Enrich, PreserveAudio, AudioPreserved
    <3> QED BY <3>1, <3>2, <3>3 DEF Worker
  <2> QED BY <2>1, ControlTypes
<1>1. CASE StartWorker(w)
  <2> USE <1>1 DEF StartWorker, ListThen, Goto, TakeGuard, WorkerGuard!Acquire
  <2>1. upd' = upd
    OBVIOUS
  <2>2. RestTypes'
    BY <1>0 DEF RestTypes
  <2>3. Alone(w)
    BY <1>0 DEF Alone, Spares, RestTypes
  <2>4. Placed(w)'
    BY <1>0 DEF Placed, RestTypes, WorkingOn
  <2> QED BY <1>0, <2>1, <2>2, <2>3, <2>4
<1>2. CASE PickJob(w)
  <2> USE <1>2 DEF PickJob, ListThen, Goto
  <2> DEFINE queued == {j \in Jobs : /\ json["active"][j] # NoRecord
                                     /\ json["active"][j].state = "Queued"}
  <2>1. CASE queued # {} /\ Call(w, "claim", First(queued))
    <3>1. First(queued) \in Jobs
      BY <2>1, FirstIn
    <3>2. job' = [job EXCEPT ![w] = First(queued)] /\ pc' = [pc EXCEPT ![w] = "claim"]
          /\ UNCHANGED after /\ stage' = [stage EXCEPT ![w] = 0]
      BY <2>1
    <3> HIDE DEF queued
    <3>3. /\ upd' \in [Procs -> Slots]
          /\ upd'[w].kind = "claim" /\ upd'[w].job = First(queued) /\ upd'[w].at = "load"
          /\ \A q \in Procs \ {w} : upd'[q] = upd[q]
      BY <1>0, <2>1, <3>1, CallMade DEF Calls
    <3>4. RestTypes'
      BY <1>0, <1>s, <3>1, <3>2 DEF RestTypes
    <3>5. Alone(w)
      BY <1>0, <3>2, <3>3 DEF Alone, Spares, RestTypes
    <3>6. Placed(w)'
      BY <1>0, <3>1, <3>2, <3>3 DEF Placed, RestTypes, NoUpdate, WorkingOn
    <3> QED BY <3>3, <3>4, <3>5, <3>6
  <2>2. CASE /\ job' = [job EXCEPT ![w] = NoJob]
             /\ ListThen(w, "leave")
             /\ UNCHANGED upd
    <3>1. /\ pc[w] = "pick" /\ pc' = [pc EXCEPT ![w] = "list"]
          /\ after' = [after EXCEPT ![w] = "leave"] /\ UNCHANGED upd
          /\ job' = [job EXCEPT ![w] = NoJob] /\ stage' = [stage EXCEPT ![w] = 0]
      BY <2>2
    <3>2. RestTypes'
      BY <1>0, <1>s, <2>2, <3>1 DEF RestTypes
    <3>3. Alone(w)
      BY <1>0, <2>2, <3>1 DEF Alone, Spares, RestTypes
    <3> HIDE DEF PickJob, queued
    <3>4. upd[w].kind \in {"none", "recover"}
      BY <1>0, <3>1 DEF Placed, Slots
    <3>5. Placed(w)'
      BY <1>0, <3>1, <3>4 DEF Placed, RestTypes, WorkingOn
    <3> QED BY <1>0, <2>2, <3>2, <3>3, <3>5
  <2> QED BY <2>1, <2>2
<1>3. CASE LeaveQueue(w)
  <2> USE <1>3 DEF LeaveQueue, Goto, WorkerGuard!Release
  <2>1. upd' = upd
    OBVIOUS
  <2>2. RestTypes'
    BY <1>0 DEF RestTypes
  <2>3. Alone(w)
    BY <1>0 DEF Alone, Spares, RestTypes
  <2>4. Placed(w)'
    BY <1>0 DEF Placed, RestTypes, WorkingOn
  <2> QED BY <1>0, <2>1, <2>2, <2>3, <2>4
<1>4. CASE ExitOnError(w)
  <2> USE <1>4 DEF ExitOnError, Goto, WorkerGuard!Release
  <2>1. /\ upd' \in [Procs -> Slots]
        /\ upd'[w] = NoUpdate /\ \A q \in Procs \ {w} : upd'[q] = upd[q]
    BY <1>0, Reset
  <2>2. RestTypes'
    BY <1>0 DEF RestTypes
  <2>3. Alone(w)
    BY <1>0, <2>1 DEF Alone, Spares, RestTypes
  <2>4. Placed(w)'
    BY <1>0, <2>1 DEF Placed, RestTypes, WorkingOn, NoUpdate
  <2> QED BY <2>1, <2>2, <2>3, <2>4
<1>5. CASE JobGone(w) \/ Proceed(w) \/ StageReported(w) \/ AudioPreserved(w)
  <2> USE <1>5 DEF JobGone, Proceed, StageReported, AudioPreserved, ListThen, Goto
  <2>1. /\ upd' \in [Procs -> Slots]
        /\ upd'[w] = NoUpdate /\ \A q \in Procs \ {w} : upd'[q] = upd[q]
    <3>1. Return(w)
      OBVIOUS
    <3> QED BY <1>0, <3>1, Reset
  <2>2. UNCHANGED <<audio, holders, job, todo, stage, crashes, manuals>>
    OBVIOUS
  <2>3. RestTypes'
    BY <1>0, <2>2 DEF RestTypes
  <2>4. Alone(w)
    BY <1>0, <2>1, <2>2 DEF Alone, Spares, RestTypes
  <2>5. Placed(w)'
    BY <1>0, <2>1, <2>2 DEF Placed, RestTypes, WorkingOn, NoUpdate
  <2> QED BY <2>1, <2>3, <2>4, <2>5
<1>6. CASE Transcribe(w) \/ Enrich(w)
  <2> USE <1>6 DEF Transcribe, Enrich, Goto
  <2>1. job[w] \in Jobs
    BY <1>0 DEF Placed, WorkingOn
  <2>2. PICK kind \in {"transcript", "review", "fail", "complete"} :
            Call(w, kind, job[w]) /\ (kind = "transcript" <=> Goto(w, "transcript"))
                                  /\ (kind # "transcript" <=> Goto(w, "settle"))
    BY <1>0 DEF RestTypes
  <2>3. /\ upd' \in [Procs -> Slots]
        /\ upd'[w].kind = kind /\ upd'[w].job = job[w] /\ upd'[w].at = "load"
        /\ \A q \in Procs \ {w} : upd'[q] = upd[q]
    BY <1>0, <2>1, <2>2, CallMade DEF Calls
  <2>4. UNCHANGED <<audio, holders, job, todo, after, stage, crashes, manuals>>
    OBVIOUS
  <2>5. RestTypes'
    BY <1>0, <2>4 DEF RestTypes
  <2>6. Alone(w)
    BY <1>0, <2>3, <2>4 DEF Alone, Spares, RestTypes
  <2>7. Placed(w)'
    BY <1>0, <2>1, <2>2, <2>3, <2>4 DEF Placed, RestTypes, WorkingOn, NoUpdate
  <2> QED BY <2>3, <2>5, <2>6, <2>7
<1>7. CASE ReportStage(w)
  <2> USE <1>7 DEF ReportStage, Goto
  <2>1. job[w] \in Jobs
    BY <1>0 DEF Placed, WorkingOn
  <2>2. PICK s \in DOMAIN EnrichStages : stage' = [stage EXCEPT ![w] = s]
    OBVIOUS
  <2>3. /\ upd' \in [Procs -> Slots]
        /\ upd'[w].kind = "stage" /\ upd'[w].job = job[w] /\ upd'[w].at = "load"
        /\ \A q \in Procs \ {w} : upd'[q] = upd[q]
    BY <1>0, <2>1, CallMade DEF Calls
  <2>5. RestTypes'
    BY <1>0, <2>2 DEF RestTypes
  <2>6. Alone(w)
    BY <1>0, <2>2, <2>3 DEF Alone, Spares, RestTypes
  <2>7. Placed(w)'
    BY <1>0, <2>1, <2>2, <2>3 DEF Placed, RestTypes, WorkingOn, NoUpdate
  <2> QED BY <2>3, <2>5, <2>6, <2>7
<1>8. CASE PreserveAudio(w)
  <2> USE <1>8 DEF PreserveAudio, ListThen, Goto
  <2>1. job[w] \in Jobs
    BY <1>0 DEF Placed, Preserves
  <2>2. CASE /\ audio' = [audio EXCEPT ![job[w]] = "output"]
             /\ Call(w, "audio", job[w])
             /\ Goto(w, "preserve")
             /\ UNCHANGED after
    <3>1. /\ upd' \in [Procs -> Slots]
          /\ upd'[w].kind = "audio" /\ upd'[w].job = job[w] /\ upd'[w].at = "load"
          /\ \A q \in Procs \ {w} : upd'[q] = upd[q]
      BY <1>0, <2>1, <2>2, CallMade DEF Calls
    <3>2. RestTypes'
      BY <1>0, <2>1, <2>2 DEF RestTypes
    <3>3. Alone(w)
      BY <1>0, <2>2, <3>1 DEF Alone, Spares, RestTypes
    <3>4. Placed(w)'
      BY <1>0, <2>1, <2>2, <3>1 DEF Placed, RestTypes, WorkingOn, NoUpdate
    <3> QED BY <3>1, <3>2, <3>3, <3>4
  <2>3. CASE Return(w) /\ ListThen(w, "pick") /\ UNCHANGED audio
    <3>1. /\ upd' \in [Procs -> Slots]
          /\ upd'[w] = NoUpdate /\ \A q \in Procs \ {w} : upd'[q] = upd[q]
      BY <1>0, <2>3, Reset
    <3>2. RestTypes'
      BY <1>0, <2>3 DEF RestTypes
    <3>3. Alone(w)
      BY <1>0, <2>3, <3>1 DEF Alone, Spares, RestTypes
    <3>4. Placed(w)'
      BY <1>0, <2>3, <3>1 DEF Placed, RestTypes, WorkingOn, NoUpdate
    <3> QED BY <3>1, <3>2, <3>3, <3>4
  <2> QED BY <2>2, <2>3
<1> QED BY <1>1, <1>2, <1>3, <1>4, <1>5, <1>6, <1>7, <1>8 DEF Worker

\* The clients' steps keep the types.
LEMMA ClientTypes ==
    ASSUME TypeInv, NEW c \in Clients,
           Request(c) \/ Client(c) \/ LaunchApp(c)
    PROVE  TypeInv'
<1> c \in Procs /\ c \notin Workers
  BY JobQueueAssumption DEF Procs
<1>0. upd \in [Procs -> Slots] /\ RestTypes /\ Placed(c) /\ FileTypes
  BY TypesSplit DEF TypeInv
<1> USE DEF files
<1>1. CASE Poll(c) \/ LaunchApp(c)
  <2> USE <1>1 DEF Poll, LaunchApp, ListThen, Goto
  <2>1. upd' = upd /\ UNCHANGED <<files, claims>>
    OBVIOUS
  <2>2. RestTypes'
    BY <1>0 DEF RestTypes
  <2>3. Alone(c)
    BY <1>0 DEF Alone, Spares, RestTypes
  <2>4. Placed(c)'
    BY <1>0 DEF Placed, RestTypes, WorkingOn
  <2> QED BY <1>0, <2>1, <2>2, <2>3, <2>4, ControlTypes
<1>2. ASSUME NEW j \in Jobs, QueueCapture(c, j)
      PROVE  TypeInv'
  <2> USE <1>2 DEF QueueCapture, Goto
  <2>1. /\ upd' \in [Procs -> Slots]
        /\ upd'[c].kind = "new" /\ upd'[c].job = j /\ upd'[c].at = "write"
        /\ upd'[c].src = "active" /\ upd'[c].rec = NewJob /\ NewJob \in ProcessingJob
        /\ \A q \in Procs \ {c} : upd'[q] = upd[q]
    <3>1. NewJob \in ProcessingJob
      BY DEF NewJob, ProcessingJob, JobState
    <3> QED BY <1>0, <3>1 DEF Slots, Dirs
  <2>2. RestTypes' /\ UNCHANGED <<files, claims>>
    BY <1>0 DEF RestTypes
  <2>3. Alone(c)
    BY <1>0, <2>1 DEF Alone, Spares, RestTypes
  <2>4. Placed(c)'
    BY <1>0, <2>1 DEF Placed, RestTypes, WorkingOn
  <2> QED BY <2>1, <2>2, <2>3, <2>4, ControlTypes
<1>3. ASSUME NEW j \in Jobs, RetryJob(c, j)
      PROVE  TypeInv'
  <2> USE <1>3 DEF RetryJob, Goto
  <2>1. /\ upd' \in [Procs -> Slots]
        /\ upd'[c].kind = "requeue" /\ upd'[c].job = j /\ upd'[c].at = "load"
        /\ \A q \in Procs \ {c} : upd'[q] = upd[q]
    BY <1>0, CallMade DEF Calls
  <2>2. RestTypes' /\ UNCHANGED <<files, claims>>
    BY <1>0 DEF RestTypes
  <2>3. Alone(c)
    BY <1>0, <2>1 DEF Alone, Spares, RestTypes
  <2>4. Placed(c)'
    BY <1>0, <2>1 DEF Placed, RestTypes, WorkingOn
  <2> QED BY <2>1, <2>2, <2>3, <2>4, ControlTypes
<1>4. ASSUME NEW j \in Jobs, ShowNotice(c, j)
      PROVE  TypeInv'
  <2> USE <1>4 DEF ShowNotice
  <2>1. RestTypes' /\ UNCHANGED <<files, claims>> /\ upd' = upd
    BY <1>0 DEF RestTypes
  <2>2. Alone(c)
    BY <1>0 DEF Alone, Spares, RestTypes
  <2>3. Placed(c)'
    BY <1>0 DEF Placed, RestTypes, WorkingOn
  <2> QED BY <1>0, <2>1, <2>2, <2>3, ControlTypes
<1>5. CASE DismissNotice(c)
  <2> USE <1>5 DEF DismissNotice, Goto
  <2>0. job[c] \in Jobs
    BY <1>0 DEF RestTypes
  <2>1. /\ upd' \in [Procs -> Slots]
        /\ upd'[c].kind = "dismiss" /\ upd'[c].job = job[c] /\ upd'[c].at = "load"
        /\ \A q \in Procs \ {c} : upd'[q] = upd[q]
    BY <1>0, <2>0, CallMade DEF Calls
  <2>2. RestTypes' /\ UNCHANGED <<files, claims>>
    BY <1>0 DEF RestTypes
  <2>3. Alone(c)
    BY <1>0, <2>1 DEF Alone, Spares, RestTypes
  <2>4. Placed(c)'
    BY <1>0, <2>0, <2>1 DEF Placed, RestTypes, WorkingOn
  <2> QED BY <2>1, <2>2, <2>3, <2>4, ControlTypes
<1>6. CASE CaptureQueued(c) \/ Retried(c) \/ Dismissed(c)
  <2> USE <1>6 DEF CaptureQueued, Retried, Dismissed, ListThen, Goto, Rollback
  <2>1. /\ upd' \in [Procs -> Slots]
        /\ upd'[c] = NoUpdate /\ \A q \in Procs \ {c} : upd'[q] = upd[q]
    <3>1. Return(c)
      OBVIOUS
    <3> QED BY <1>0, <3>1, Reset
  <2>2. RestTypes'
    BY <1>0 DEF RestTypes
  <2>3. Alone(c)
    BY <1>0, <2>1 DEF Alone, Spares, RestTypes
  <2>4. Placed(c)'
    BY <1>0, <2>1 DEF Placed, RestTypes, WorkingOn, NoUpdate
  <2>5. UNCHANGED <<files, claims>>
    OBVIOUS
  <2> QED BY <2>1, <2>2, <2>3, <2>4, <2>5, ControlTypes
<1>7. CASE SpawnWorker(c)
  <2>1. UNCHANGED <<files, audio, holders, job, upd, todo, after, stage, claims,
                    crashes, manuals>> /\ pc[c] = "spawn"
    BY <1>7 DEF SpawnWorker
  <2>2. CASE Goto(c, "idle")
    <3> USE <2>2 DEF Goto
    <3>1. RestTypes'
      BY <1>0, <2>1 DEF RestTypes
    <3>2. Alone(c)
      BY <1>0, <2>1 DEF Alone, Spares, RestTypes
    <3>3. Placed(c)'
      BY <1>0, <2>1 DEF Placed, RestTypes, WorkingOn
    <3> QED BY <1>0, <2>1, <3>1, <3>2, <3>3, ControlTypes
  <2>3. ASSUME NEW w \in Workers, pc[w] = "off",
               pc' = [pc EXCEPT ![c] = "idle", ![w] = "starting"]
        PROVE  TypeInv'
    <3> w \in Procs /\ w \notin Clients
      BY JobQueueAssumption DEF Procs
    <3>1. TypeOK'
      BY <1>0, <2>1, <2>3 DEF TypeOK, FileTypes, Slots, RestTypes
    <3>2. Placed(w) /\ \A q \in Procs : Placed(q)
      BY DEF TypeInv
    <3>3. Placed(c)' /\ Placed(w)'
      BY <1>0, <2>1, <2>3, <3>2 DEF Placed, RestTypes, WorkingOn
    <3>4. ASSUME NEW q \in Procs \ {c, w}
          PROVE  Placed(q)'
      <4>1. Spares(q)
        BY <1>0, <2>1, <2>3 DEF Spares, RestTypes
      <4> QED BY <3>2, <4>1, SparedPlaced
    <3> QED BY <3>1, <3>3, <3>4 DEF TypeInv
  <2> QED BY <1>7, <2>2, <2>3 DEF SpawnWorker
<1> QED BY <1>1, <1>2, <1>3, <1>4, <1>5, <1>6, <1>7 DEF Request, Client

\* A death keeps the types.
LEMMA CrashTypes ==
    ASSUME TypeInv, NEW p \in Procs,
           \/ p \in Workers /\ CrashWorker(p)
           \/ p \in Clients /\ CrashClient(p)
    PROVE  TypeInv' /\ Alone(p)
<1>0. upd \in [Procs -> Slots] /\ RestTypes /\ Placed(p)
  BY TypesSplit DEF TypeInv
<1> USE DEF CrashWorker, CrashClient, Goto
<1>1. /\ upd' \in [Procs -> Slots]
      /\ upd'[p] = NoUpdate /\ \A q \in Procs \ {p} : upd'[q] = upd[q]
  <2>1. Return(p)
    OBVIOUS
  <2> QED BY <1>0, <2>1, Reset
<1>2. RestTypes' /\ UNCHANGED <<files, claims>>
  BY <1>0 DEF RestTypes
<1>3. Alone(p)
  BY <1>0, <1>1 DEF Alone, Spares, RestTypes
<1>4. Placed(p)'
  BY <1>0, <1>1, JobQueueAssumption DEF Placed, RestTypes, WorkingOn, NoUpdate
<1> QED BY <1>1, <1>2, <1>3, <1>4, ControlTypes

\* So every step keeps the types.
LEMMA TypeInvNext == TypeInv /\ [Next]_vars => TypeInv'
<1> SUFFICES ASSUME TypeInv, [Next]_vars
             PROVE  TypeInv'
  OBVIOUS
<1>1. ASSUME NEW p \in Procs, Update(p) \/ ListJobs(p)
      PROVE  TypeInv'
  BY <1>1, UpdateTypes, ListTypes
<1>2. ASSUME NEW w \in Workers, Worker(w) \/ CrashWorker(w)
      PROVE  TypeInv'
  <2> w \in Procs
    BY DEF Procs
  <2>1. CASE Worker(w)      BY <2>1, WorkerTypes
  <2>2. CASE CrashWorker(w) BY <2>2, CrashTypes
  <2> QED BY <1>2, <2>1, <2>2
<1>3. ASSUME NEW c \in Clients, Request(c) \/ Client(c) \/ LaunchApp(c) \/ CrashClient(c)
      PROVE  TypeInv'
  <2> c \in Procs
    BY DEF Procs
  <2>1. CASE CrashClient(c) BY <2>1, CrashTypes
  <2>2. CASE Request(c) \/ Client(c) \/ LaunchApp(c)
    BY <2>2, ClientTypes
  <2> QED BY <1>3, <2>1, <2>2
<1>4. CASE UNCHANGED vars
  <2>1. \A q \in Procs : Spares(q)
    BY <1>4 DEF vars, Spares
  <2>2. TypeOK'
    BY <1>4 DEF vars, files, TypeInv, TypeOK
  <2> QED BY <2>1, <2>2, SparedPlaced DEF TypeInv
<1> QED BY <1>1, <1>2, <1>3, <1>4 DEF Next

\* Every record a process reads, has in hand or leaves on disk is a job record,
\* and every process is at a place of its own code, whatever overlaps or fails.
THEOREM Typing == Spec => []TypeOK
<1>1. TypeInv => TypeOK
  BY DEF TypeInv
<1> QED BY TypeInvInit, TypeInvNext, <1>1, PTL DEF Spec

-----------------------------------------------------------------------------
(* What holds while the updates of one job do not overlap.  An unreadable   *)
(* record may be taken for an absent one; where that can happen, Serial     *)
(* also excludes what leaves two copies of a record: torn updates and disk  *)
(* errors.  Tidy excludes them altogether.                                  *)

Serial == ~Overlap /\ (ReadErrors => ~TornUpdates /\ ~DiskErrors)
Tidy   == Serial /\ ~TornUpdates /\ ~DiskErrors

Known(j) == Visible(j) # NoRecord

\* Two updates in their windows are on different jobs.
Apart ==
    \A p, q \in Procs : p # q /\ InWindow(p) /\ InWindow(q) => upd[p].job # upd[q].job

\* Nothing that the queue decides on differs between V and r.
Agree(V, r) == r.state = V.state /\ r.owner = V.owner /\ r.retries = V.retries

\* r is what the update that p has in hand makes of record V.
Follows(p, V, r) ==
    \/ /\ upd[p].kind = "claim"
       /\ r.state = "Transcribing" /\ r.owner = p /\ r.retries = V.retries /\ r.audio = V.audio
    \/ /\ upd[p].kind \in {"transcript", "stage"}
       /\ r.state \in InProgress /\ r.owner = V.owner /\ r.retries = V.retries
       /\ r.audio = V.audio
    \/ /\ upd[p].kind \in {"fail", "review", "complete"}
       /\ r.state \in Terminal /\ (r.state = "Complete" <=> upd[p].kind = "complete")
       /\ r.owner = NoOwner /\ r.retries = V.retries /\ r.audio = V.audio
    \/ upd[p].kind = "audio" /\ Agree(V, r)
    \/ upd[p].kind \in {"requeue", "dismiss", "recover"} /\ Agree(V, r) /\ r.audio = V.audio
    \/ /\ upd[p].kind = "requeue" /\ V.state \in Retryable
       /\ r.state = "Queued" /\ r.owner = NoOwner /\ r.retries = 0 /\ r.audio = V.audio
    \/ /\ upd[p].kind = "recover" /\ IsStale(V, AliveWorkers)
       /\ r.state = IF V.retries + 1 > MaxAutoRetries THEN "Failed" ELSE "Queued"
       /\ r.owner = NoOwner /\ r.retries = V.retries + 1 /\ r.audio = V.audio

\* While p is in its window, the files of its job are as p left or found them.
Window(p) ==
    LET u == upd[p]
        a == json["active"][u.job]
        z == json["archive"][u.job]
    IN
    /\ u.at = "loadArchive" => a = NoRecord \/ (ReadErrors /\ z = NoRecord)
    /\ u.at = "none" => ReadErrors
    /\ u.at \in {"write", "rename"} /\ u.kind # "new" =>
          /\ u.src = "active" => a # NoRecord
          /\ u.src = "archive" => a = NoRecord /\ z # NoRecord
          /\ Follows(p, Visible(u.job), u.rec)
    /\ u.at = "rename" => tmp[Written(u)][u.job] = u.rec
    /\ u.at = "removeArchive" => a = u.rec /\ a.state \notin Terminal
    /\ u.at \in {"link", "unlink"} => a = u.rec /\ a.state \in Terminal
    /\ u.at = "unlink" => z # NoRecord

\* A capture is nobody's job; one being queued is its queuer's alone; every
\* other job that somebody has in hand is known.
Fresh ==
    /\ \A j \in Jobs :
          audio[j] = "capture" => ~Known(j) /\ \A p \in Procs : upd[p].job # j
    /\ \A p \in Procs : upd[p].kind = "new" /\ upd[p].at # "done" =>
          /\ ~Known(upd[p].job) /\ audio[upd[p].job] = "jobs"
          /\ \A q \in Procs \ {p} : upd[q].job # upd[p].job
    /\ \A p \in Procs :
          /\ upd[p].kind # "none" /\ (upd[p].kind = "new" => upd[p].at = "done")
                => Known(upd[p].job)
          /\ \A j \in todo[p] : Known(j)
          /\ job[p] # NoJob => Known(job[p])

\* The claims of a job that the worker may take, or has taken, are paid for by
\* its retries.
Accounted(j, r) ==
    /\ r.state = "Queued" => /\ r.owner = NoOwner
                             /\ claims[j] <= r.retries /\ r.retries <= MaxAutoRetries
    /\ r.state \in InProgress => /\ r.owner # NoOwner
                                 /\ claims[j] <= r.retries + 1
                                 /\ r.retries <= MaxAutoRetries

Records ==
    \A j \in Jobs :
        /\ claims[j] <= MaxAutoRetries + 1
        /\ ~Known(j) => claims[j] = 0
        /\ json["active"][j] # NoRecord => Accounted(j, json["active"][j])
        /\ json["archive"][j] # NoRecord => json["archive"][j].state \in Terminal

\* Worker w owns its job.
Holds(w) ==
    /\ Known(job[w])
    /\ Visible(job[w]).owner = w /\ Visible(job[w]).state \in InProgress

\* p's update has changed nothing yet.
Early(p) == upd[p].at \in {"load", "loadArchive", "write", "rename"}

Claimed(w) ==
    /\ WorkingOn(w) => Holds(w)
    /\ pc[w] = "settle" /\ Early(w) => Holds(w)
    /\ pc[w] = "claim" /\ upd[w].at = "done" => Holds(w)
    /\ pc[w] = "claim" /\ Early(w) => Known(job[w]) /\ Visible(job[w]).state = "Queued"
    /\ pc[w] = "claim" => ~Published(w)

\* No stage of a move between the directories leaves a second copy behind.
Filing ==
    /\ Filed
    /\ \A p \in Procs :
          /\ upd[p].at = "link" => json["archive"][upd[p].job] = NoRecord
          /\ upd[p].at = "unlink" => json["archive"][upd[p].job] = upd[p].rec

SerialInv ==
    /\ TypeInv
    /\ GuardInv
    /\ Apart
    /\ \A p \in Procs : Window(p)
    /\ Fresh
    /\ Records
    /\ \A w \in Workers : Claimed(w)
    /\ Tidy => Filing

\* Nothing is queued at first, and nothing is under way.
LEMMA SerialInvInit == Init => SerialInv
<1> SUFFICES ASSUME Init
             PROVE  SerialInv
  OBVIOUS
<1>1. TypeInv /\ GuardInv
  BY TypeInvInit, GuardInvInit
<1>2. /\ \A p \in Procs : upd[p] = NoUpdate /\ todo[p] = {} /\ job[p] = NoJob
      /\ \A j \in Jobs : /\ json["active"][j] = NoRecord /\ json["archive"][j] = NoRecord
                         /\ claims[j] = 0 /\ ~Known(j)
      /\ \A p \in Procs : pc[p] \in {"off", "idle"}
      /\ \A w \in Workers : w \in Procs
  BY DEF Init, Dirs, Known, Visible, Procs
<1>3. NoJob \notin Jobs /\ MaxAutoRetries \in Nat
  BY JobQueueAssumption, JobRecordAssumption
<1>4. Apart /\ \A p \in Procs : Window(p)
  BY <1>2 DEF Apart, InWindow, Window, NoUpdate
<1>5. Fresh
  BY <1>2, <1>3 DEF Fresh, NoUpdate
<1>6. Records
  BY <1>2, <1>3 DEF Records
<1>7. \A w \in Workers : Claimed(w)
  BY <1>2 DEF Claimed, WorkingOn
<1>8. Filing
  BY <1>2 DEF Filing, Filed, NoUpdate
<1> QED BY <1>1, <1>4, <1>5, <1>6, <1>7, <1>8 DEF SerialInv

\* What each closure makes of the record it is given.
LEMMA ApplyFollows ==
    ASSUME TypeInv, NEW p \in Procs, NEW V \in ProcessingJob,
           upd[p].kind \in Calls
    PROVE  Follows(p, V, Apply(p, upd[p].kind, V))
<1> DEFINE kind == upd[p].kind
<1>0. kind = "stage" => EnrichStages[stage[p]] \in InProgress
  <2>1. Placed(p) /\ p \in Workers \cup Clients
    BY DEF TypeInv, Procs
  <2>2. kind = "stage" => pc[p] = "stage"
    BY <2>1 DEF Placed
  <2>3. pc[p] = "stage" => p \in Workers /\ stage[p] \in DOMAIN EnrichStages
    BY <2>1 DEF Placed
  <2> QED BY <2>2, <2>3, JobQueueAssumption
<1> USE DEF ProcessingJob, Agree, Follows, Terminal, Retryable
<1>1. CASE kind = "claim"
  BY <1>1 DEF Apply, Claim
<1>2. CASE kind \in {"transcript", "stage"}
  BY <1>0, <1>2 DEF Apply, HaveTranscript, EnterStage, InProgress
<1>3. CASE kind \in {"fail", "review", "complete"}
  BY <1>3 DEF Apply, Settle
<1>4. CASE kind \in {"audio", "dismiss"}
  BY <1>4 DEF Apply, MoveAudioPath, Dismiss
<1>5. CASE kind = "requeue"
  BY <1>5 DEF Apply, Requeue
<1>6. CASE kind = "recover"
  BY <1>6 DEF Apply, Recover
<1> HIDE DEF kind
<1> QED BY <1>1, <1>2, <1>3, <1>4, <1>5, <1>6 DEF Calls, kind

-----------------------------------------------------------------------------
(* Steps that change no file. *)

\* p's call on a job that is known.
Calling(p) ==
    /\ ~InWindow(p)
    /\ upd'[p].at = "load" /\ upd'[p].kind \in Calls
    /\ Known(upd'[p].job)

\* p takes a capture into the queue, or puts it back, or moves audio away.
Taking(p) ==
    /\ ~InWindow(p)
    /\ upd'[p].kind = "new" /\ upd'[p].at = "write" /\ upd'[p].job \in Jobs
    /\ audio[upd'[p].job] = "capture"
    /\ audio' = [audio EXCEPT ![upd'[p].job] = "jobs"]
PuttingBack(p) ==
    /\ upd[p].kind = "new" /\ upd[p].at = "err"
    /\ audio' = [audio EXCEPT ![upd[p].job] = "capture"]
Preserving(p) ==
    /\ upd[p].kind = "complete" /\ upd[p].at = "done" /\ p \in Workers
    /\ audio' = [audio EXCEPT ![job[p]] = "output"]

\* A step of p that changes no file: others keep their jobs and updates, and a
\* worker that starts is one that no record names.
Control(p) ==
    /\ json' = json /\ tmp' = tmp /\ claims' = claims
    /\ \A q \in Procs \ {p} : upd'[q] = upd[q] /\ job'[q] = job[q] /\ todo'[q] = todo[q]
    /\ \/ upd'[p] = upd[p] /\ ~InWindow(p)
       \/ upd'[p] = NoUpdate /\ (Published(p) => TornUpdates)
       \/ Calling(p)
       \/ Taking(p)
    /\ audio' = audio \/ Taking(p) \/ (PuttingBack(p) /\ upd'[p] = NoUpdate) \/ Preserving(p)
    /\ job'[p] # NoJob => Known(job'[p])
    /\ \A j \in todo'[p] : Known(j)
    /\ \A w \in AliveWorkers' : w \in AliveWorkers \/ ~Mentioned(w)

\* Where a process has no update in hand.
LEMMA NoneInHand ==
    ASSUME TypeInv, NEW p \in Procs,
           pc[p] \in {"off", "starting", "list", "pick", "transcribe", "enrich", "leave",
                      "idle", "spawn"}
    PROVE  upd[p] = NoUpdate /\ ~InWindow(p)
<1>1. upd[p] \in Slots /\ Placed(p)
  BY TypesSplit DEF TypeInv
<1>2. upd[p].kind = "none"
  BY <1>1 DEF Slots, Placed
<1>3. upd[p] = NoUpdate
  BY <1>1, <1>2 DEF Placed
<1> QED BY <1>3 DEF InWindow, NoUpdate

\* A step that moves p alone, to where no worker is started.
LEMMA AliveKept ==
    ASSUME TypeInv, NEW p \in Procs, NEW l, Goto(p, l),
           p \in Clients \/ pc[p] # "off"
    PROVE  \A w \in AliveWorkers' : w \in AliveWorkers
BY JobQueueAssumption DEF TypeInv, TypeOK, Goto, AliveWorkers, Procs

\* Listing decides whom to recover and touches no record.
LEMMA ListControl ==
    ASSUME TypeInv, Fresh, NEW p \in Procs, ListJobs(p)
    PROVE  Control(p)
<1>0. /\ upd \in [Procs -> Slots] /\ RestTypes /\ Placed(p)
      /\ \A j \in todo[p] : Known(j)
      /\ job[p] # NoJob => Known(job[p])
  BY TypesSplit DEF TypeInv, Fresh
<1> USE DEF files
<1>1. CASE Snapshot(p)
  <2> USE <1>1 DEF Snapshot
  <2>1. upd'[p] = upd[p] /\ ~InWindow(p)
    BY NoneInHand
  <2>2. \A j \in todo'[p] : Known(j)
    BY <1>0 DEF RestTypes, Known, Visible
  <2>3. \A w \in AliveWorkers' : w \in AliveWorkers
    <3>1. p \in Clients \/ pc[p] # "off"
      OBVIOUS
    <3>2. PICK l : Goto(p, l)
      OBVIOUS
    <3> QED BY <3>1, <3>2, AliveKept
  <2>4. \A q \in Procs \ {p} : upd'[q] = upd[q] /\ job'[q] = job[q] /\ todo'[q] = todo[q]
    BY <1>0 DEF RestTypes
  <2>5. job'[p] # NoJob => Known(job'[p])
    BY <1>0
  <2> QED BY <2>1, <2>2, <2>3, <2>4, <2>5 DEF Control
<1>2. CASE RecoverNext(p)
  <2> USE <1>2 DEF RecoverNext
  <2>1. First(todo[p]) \in todo[p] /\ First(todo[p]) \in Jobs
    BY <1>0, FirstIn DEF RestTypes
  <2>2. /\ upd'[p].kind = "recover" /\ upd'[p].job = First(todo[p]) /\ upd'[p].at = "load"
        /\ \A q \in Procs \ {p} : upd'[q] = upd[q]
    BY <1>0, <2>1, CallMade DEF Calls
  <2>3. ~InWindow(p)
    BY DEF InWindow, Returned, NoUpdate
  <2>4. Calling(p)
    BY <1>0, <2>1, <2>2, <2>3 DEF Calling, Calls
  <2>5. \A q \in Procs \ {p} : job'[q] = job[q] /\ todo'[q] = todo[q]
    BY <1>0 DEF RestTypes
  <2>6. \A j \in todo'[p] : Known(j)
    BY <1>0 DEF RestTypes
  <2>7. AliveWorkers' = AliveWorkers
    BY DEF AliveWorkers
  <2> QED BY <1>0, <2>2, <2>4, <2>5, <2>6, <2>7 DEF Control
<1>3. CASE RecoverEnd(p)
  <2> USE <1>3 DEF RecoverEnd
  <2>1. upd'[p] = NoUpdate /\ \A q \in Procs \ {p} : upd'[q] = upd[q]
    BY <1>0, Reset
  <2>2. ~Published(p)
    BY DEF Published, Returned
  <2>3. \A w \in AliveWorkers' : w \in AliveWorkers
    <3>1. p \in Clients \/ pc[p] # "off"
      OBVIOUS
    <3> QED BY <3>1, AliveKept
  <2> QED BY <1>0, <2>1, <2>2, <2>3 DEF Control
<1> QED BY <1>1, <1>2, <1>3 DEF ListJobs

\* The worker's own steps touch no record.
LEMMA WorkerControl ==
    ASSUME TypeInv, Fresh, NEW w \in Workers, Worker(w)
    PROVE  Control(w)
<1> w \in Procs /\ w \notin Clients
  BY JobQueueAssumption DEF Procs
<1>0. /\ upd \in [Procs -> Slots] /\ RestTypes /\ Placed(w)
      /\ \A j \in todo[w] : Known(j)
      /\ job[w] # NoJob => Known(job[w])
  BY TypesSplit DEF TypeInv, Fresh
<1>k. job[w] \in Jobs => Known(job[w])
  BY <1>0, JobQueueAssumption
<1>a. /\ json' = json /\ tmp' = tmp /\ claims' = claims /\ todo' = todo
      /\ \A q \in Procs \ {w} : upd'[q] = upd[q] /\ job'[q] = job[q]
  <2>1. CASE StartWorker(w) \/ PickJob(w) \/ LeaveQueue(w) \/ ExitOnError(w)
    BY <1>0, <2>1 DEF StartWorker, PickJob, LeaveQueue, ExitOnError, files, Call, Return,
                      RestTypes
  <2>2. CASE JobGone(w) \/ Proceed(w) \/ Transcribe(w) \/ ReportStage(w)
    BY <1>0, <2>2 DEF JobGone, Proceed, Transcribe, ReportStage, files, Call, Return
  <2>3. CASE StageReported(w) \/ Enrich(w) \/ PreserveAudio(w) \/ AudioPreserved(w)
    BY <1>0, <2>3 DEF StageReported, Enrich, PreserveAudio, AudioPreserved, files, Call, Return
  <2> QED BY <2>1, <2>2, <2>3 DEF Worker
<1>b. \A v \in AliveWorkers' : v \in AliveWorkers
  <2>1. CASE StartWorker(w) \/ PickJob(w) \/ LeaveQueue(w) \/ ExitOnError(w)
    <3>1. pc[w] # "off" /\ \E l : Goto(w, l)
      BY <2>1 DEF StartWorker, PickJob, LeaveQueue, ExitOnError, ListThen, Goto
    <3> QED BY <3>1, AliveKept
  <2>2. CASE JobGone(w) \/ Proceed(w) \/ Transcribe(w) \/ ReportStage(w)
    <3>1. pc[w] # "off" /\ \E l : Goto(w, l)
      BY <2>2 DEF JobGone, Proceed, Transcribe, ReportStage, ListThen, Goto
    <3> QED BY <3>1, AliveKept
  <2>3. CASE StageReported(w) \/ Enrich(w) \/ PreserveAudio(w) \/ AudioPreserved(w)
    <3>1. pc[w] # "off" /\ \E l : Goto(w, l)
      BY <2>3 DEF StageReported, Enrich, PreserveAudio, AudioPreserved, ListThen, Goto
    <3> QED BY <3>1, AliveKept
  <2> QED BY <2>1, <2>2, <2>3 DEF Worker
<1> SUFFICES /\ \/ upd'[w] = upd[w] /\ ~InWindow(w)
                \/ upd'[w] = NoUpdate /\ ~Published(w)
                \/ Calling(w)
             /\ audio' = audio \/ Preserving(w)
             /\ job'[w] # NoJob => Known(job'[w])
  BY <1>0, <1>a, <1>b DEF Control
<1>1. CASE StartWorker(w) \/ LeaveQueue(w)
  BY <1>0, <1>1, NoneInHand DEF StartWorker, LeaveQueue
<1>2. CASE PickJob(w)
  <2> USE <1>2 DEF PickJob
  <2> DEFINE queued == {j \in Jobs : /\ json["active"][j] # NoRecord
                                     /\ json["active"][j].state = "Queued"}
  <2>1. audio' = audio /\ ~InWindow(w)
    BY NoneInHand
  <2>2. CASE /\ queued # {} /\ job' = [job EXCEPT ![w] = First(queued)]
             /\ Call(w, "claim", First(queued))
    <3>1. First(queued) \in queued
      BY <2>2, FirstIn
    <3>2. First(queued) \in Jobs /\ Known(First(queued))
      BY <3>1 DEF Known, Visible
    <3> HIDE DEF queued
    <3>3. upd'[w].kind = "claim" /\ upd'[w].job = First(queued) /\ upd'[w].at = "load"
      BY <1>0, <2>2, <3>2, CallMade DEF Calls
    <3>4. job'[w] = First(queued)
      BY <1>0, <2>2 DEF RestTypes
    <3> QED BY <2>1, <3>2, <3>3, <3>4 DEF Calling, Calls
  <2>3. CASE job' = [job EXCEPT ![w] = NoJob] /\ UNCHANGED upd
    BY <1>0, <2>1, <2>3 DEF RestTypes
  <2> QED BY <2>2, <2>3
<1>3. CASE ExitOnError(w)
  <2> USE <1>3 DEF ExitOnError
  <2>1. upd'[w] = NoUpdate
    BY <1>0, Reset
  <2> QED BY <1>0, <2>1 DEF Published, RestTypes
<1>4. CASE JobGone(w) \/ Proceed(w) \/ StageReported(w) \/ AudioPreserved(w)
  <2> USE <1>4 DEF JobGone, Proceed, StageReported, AudioPreserved
  <2>1. Return(w) /\ audio' = audio /\ job' = job /\ ~Published(w)
    BY DEF Published, Returned
  <2>2. upd'[w] = NoUpdate
    BY <1>0, <2>1, Reset
  <2> QED BY <1>0, <2>1, <2>2
<1>5. CASE Transcribe(w) \/ Enrich(w) \/ ReportStage(w)
  <2> USE <1>5 DEF Transcribe, Enrich, ReportStage
  <2>1. job[w] \in Jobs
    BY <1>0 DEF Placed, WorkingOn
  <2>2. ~InWindow(w)
    BY NoneInHand
  <2>3. audio' = audio /\ job' = job
    OBVIOUS
  <2>4. PICK kind \in Calls : Call(w, kind, job[w])
    BY DEF Calls
  <2>5. upd'[w].kind = kind /\ upd'[w].job = job[w] /\ upd'[w].at = "load"
    BY <1>0, <2>1, <2>4, CallMade
  <2> QED BY <1>0, <1>k, <2>1, <2>2, <2>3, <2>5 DEF Calling
<1>6. CASE PreserveAudio(w)
  <2> USE <1>6 DEF PreserveAudio
  <2>1. upd[w].kind = "complete" /\ upd[w].at = "done" /\ job' = job /\ job[w] \in Jobs
    BY <1>0 DEF Preserves, Placed
  <2>2. ~InWindow(w) /\ ~Published(w)
    BY <2>1 DEF InWindow, Published
  <2>3. CASE audio' = [audio EXCEPT ![job[w]] = "output"] /\ Call(w, "audio", job[w])
    <3>1. upd'[w].kind = "audio" /\ upd'[w].job = job[w] /\ upd'[w].at = "load"
      BY <1>0, <2>1, <2>3, CallMade DEF Calls
    <3>2. Calling(w) /\ Preserving(w)
      BY <1>k, <2>1, <2>2, <2>3, <3>1 DEF Calling, Preserving, Calls
    <3> QED BY <1>k, <2>1, <3>2
  <2>4. CASE Return(w) /\ UNCHANGED audio
    <3>1. upd'[w] = NoUpdate
      BY <1>0, <2>4, Reset
    <3> QED BY <1>k, <2>1, <2>2, <2>4, <3>1
  <2> QED BY <2>3, <2>4
<1> QED BY <1>1, <1>2, <1>3, <1>4, <1>5, <1>6 DEF Worker

\* Nor do the clients'.
LEMMA ClientControl ==
    ASSUME TypeInv, Fresh, NEW c \in Clients,
           Request(c) \/ Client(c) \/ LaunchApp(c)
    PROVE  Control(c)
<1> c \in Procs /\ c \notin Workers
  BY JobQueueAssumption DEF Procs
<1>0. /\ upd \in [Procs -> Slots] /\ RestTypes /\ Placed(c)
      /\ \A j \in todo[c] : Known(j)
      /\ job[c] # NoJob => Known(job[c])
  BY TypesSplit DEF TypeInv, Fresh
<1>1. CASE SpawnWorker(c)
  <2> USE <1>1 DEF SpawnWorker
  <2>1. upd' = upd /\ job' = job /\ todo' = todo /\ audio' = audio /\ ~InWindow(c)
        /\ json' = json /\ tmp' = tmp /\ claims' = claims
    BY NoneInHand DEF files
  <2>2. ASSUME NEW w \in AliveWorkers'
        PROVE  w \in AliveWorkers \/ ~Mentioned(w)
    <3>1. w \in Workers /\ w \in Procs /\ w # c /\ pc'[w] # "off"
      BY <2>2, JobQueueAssumption DEF AliveWorkers, Procs
    <3>2. CASE Goto(c, "idle")
      BY <1>0, <3>1, <3>2 DEF AliveWorkers, RestTypes, Goto
    <3>3. ASSUME NEW v \in Workers, ~Mentioned(v),
                 pc' = [pc EXCEPT ![c] = "idle", ![v] = "starting"]
          PROVE  w \in AliveWorkers \/ ~Mentioned(w)
      BY <1>0, <3>1, <3>3 DEF AliveWorkers, RestTypes
    <3>4. \/ Goto(c, "idle")
          \/ \E v \in Workers : /\ ~Mentioned(v)
                               /\ pc' = [pc EXCEPT ![c] = "idle", ![v] = "starting"]
      BY Zenon
    <3> QED BY <3>2, <3>3, <3>4
  <2> QED BY <1>0, <2>1, <2>2 DEF Control
<1> SUFFICES ASSUME ~SpawnWorker(c)
             PROVE  Control(c)
  BY <1>1
<1>a. /\ json' = json /\ tmp' = tmp /\ claims' = claims /\ todo' = todo
      /\ \A q \in Procs \ {c} : upd'[q] = upd[q] /\ job'[q] = job[q]
  <2>1. CASE Poll(c) \/ LaunchApp(c) \/ DismissNotice(c)
    BY <1>0, <2>1 DEF Poll, LaunchApp, DismissNotice, files, Call, RestTypes
  <2>2. CASE \E j \in Jobs : QueueCapture(c, j) \/ RetryJob(c, j) \/ ShowNotice(c, j)
    BY <1>0, <2>2 DEF QueueCapture, RetryJob, ShowNotice, files, Call, RestTypes
  <2>3. CASE CaptureQueued(c) \/ Retried(c) \/ Dismissed(c)
    BY <1>0, <2>3 DEF CaptureQueued, Retried, Dismissed, files, Return
  <2> QED BY <2>1, <2>2, <2>3 DEF Request, Client
<1>b. \A v \in AliveWorkers' : v \in AliveWorkers
  <2> USE DEF AliveWorkers
  <2>1. pc' = pc \/ \E l : Goto(c, l)
    <3>1. CASE Poll(c) \/ LaunchApp(c) \/ DismissNotice(c)
      BY <3>1 DEF Poll, LaunchApp, DismissNotice, ListThen, Goto
    <3>2. ASSUME NEW j \in Jobs, QueueCapture(c, j) \/ RetryJob(c, j) \/ ShowNotice(c, j)
          PROVE  pc' = pc \/ \E l : Goto(c, l)
      BY <3>2 DEF QueueCapture, RetryJob, ShowNotice
    <3>3. CASE CaptureQueued(c) \/ Retried(c) \/ Dismissed(c)
      BY <3>3 DEF CaptureQueued, Retried, Dismissed, ListThen, Goto
    <3> QED BY <3>1, <3>2, <3>3 DEF Request, Client
  <2> QED BY <2>1, AliveKept
<1> SUFFICES /\ \/ upd'[c] = upd[c] /\ ~InWindow(c)
                \/ upd'[c] = NoUpdate /\ ~Published(c)
                \/ Calling(c)
                \/ Taking(c)
             /\ audio' = audio \/ Taking(c) \/ (PuttingBack(c) /\ upd'[c] = NoUpdate)
             /\ job'[c] # NoJob => Known(job'[c])
  BY <1>0, <1>a, <1>b DEF Control
<1>2. CASE Poll(c) \/ LaunchApp(c)
  BY <1>0, <1>2, NoneInHand DEF Poll, LaunchApp
<1>3. ASSUME NEW j \in Jobs, QueueCapture(c, j)
      PROVE  Taking(c) /\ job' = job
  <2> USE <1>3 DEF QueueCapture
  <2>1. ~InWindow(c)
    BY NoneInHand
  <2> QED BY <1>0, <2>1 DEF Taking
<1>4. ASSUME NEW j \in Jobs, RetryJob(c, j)
      PROVE  Calling(c) /\ audio' = audio /\ job' = job
  <2> USE <1>4 DEF RetryJob
  <2>1. ~InWindow(c)
    BY NoneInHand
  <2>2. Known(j)
    BY DEF VisibleState, Known, Retryable
  <2>3. upd'[c].kind = "requeue" /\ upd'[c].job = j /\ upd'[c].at = "load"
    BY <1>0, CallMade DEF Calls
  <2> QED BY <2>1, <2>2, <2>3 DEF Calling, Calls
<1>5. ASSUME NEW j \in Jobs, ShowNotice(c, j)
      PROVE  /\ upd'[c] = upd[c] /\ ~InWindow(c) /\ audio' = audio
             /\ job'[c] # NoJob => Known(job'[c])
  <2> USE <1>5 DEF ShowNotice
  <2>1. ~InWindow(c)
    BY NoneInHand
  <2>2. Known(j)
    BY DEF VisibleState, Known, Terminal, Retryable
  <2> QED BY <1>0, <2>1, <2>2 DEF RestTypes
<1>6. CASE DismissNotice(c)
  <2> USE <1>6 DEF DismissNotice
  <2>1. ~InWindow(c) /\ job[c] \in Jobs
    BY <1>0, NoneInHand DEF RestTypes
  <2>2. upd'[c].kind = "dismiss" /\ upd'[c].job = job[c] /\ upd'[c].at = "load"
    BY <1>0, <2>1, CallMade DEF Calls
  <2> QED BY <1>0, <2>1, <2>2 DEF Calling, Calls, RestTypes
<1>7. CASE CaptureQueued(c) \/ Retried(c) \/ Dismissed(c)
  <2> USE <1>7 DEF CaptureQueued, Retried, Dismissed, Rollback
  <2>1. Return(c) /\ job' = job /\ ~Published(c)
    BY DEF Published, Returned
  <2>2. upd'[c] = NoUpdate
    BY <1>0, <2>1, Reset
  <2>3. audio' = audio \/ PuttingBack(c)
    BY <1>0 DEF PuttingBack, Placed
  <2> QED BY <1>0, <2>1, <2>2, <2>3
<1> QED BY <1>0, <1>2, <1>3, <1>4, <1>5, <1>6, <1>7 DEF Request, Client

\* Nor does a death, which ends the update its process was in.
LEMMA CrashControl ==
    ASSUME TypeInv, Fresh, NEW p \in Procs,
           \/ p \in Workers /\ CrashWorker(p)
           \/ p \in Clients /\ CrashClient(p)
    PROVE  Control(p)
<1>0. /\ upd \in [Procs -> Slots] /\ RestTypes /\ Placed(p)
      /\ job[p] # NoJob => Known(job[p])
  BY TypesSplit DEF TypeInv, Fresh
<1> USE DEF CrashWorker, CrashClient, MayDie
<1>1. upd'[p] = NoUpdate /\ \A q \in Procs \ {p} : upd'[q] = upd[q]
  <2>1. Return(p)
    OBVIOUS
  <2> QED BY <1>0, <2>1, Reset
<1>2. /\ json' = json /\ tmp' = tmp /\ claims' = claims /\ audio' = audio
      /\ Published(p) => TornUpdates
  BY DEF files
<1>3. \A q \in Procs \ {p} : job'[q] = job[q] /\ todo'[q] = todo[q]
  BY <1>0 DEF RestTypes
<1>4. todo'[p] = {} /\ (job'[p] # NoJob => Known(job'[p]))
  BY <1>0 DEF RestTypes
<1>5. \A w \in AliveWorkers' : w \in AliveWorkers
  <2>1. p \in Clients \/ pc[p] # "off"
    OBVIOUS
  <2>2. PICK l : Goto(p, l)
    OBVIOUS
  <2> QED BY <2>1, <2>2, AliveKept
<1> QED BY <1>1, <1>2, <1>3, <1>4, <1>5 DEF Control

\* Steps that change no file keep what every update expects to find.
LEMMA ControlApart ==
    ASSUME TypeInv, Apart, Fresh, NEW p \in Procs, Control(p)
    PROVE  Apart'
<1>1. ASSUME NEW q \in Procs, InWindow(q)'
      PROVE  \/ InWindow(q) /\ upd'[q] = upd[q]
             \/ Taking(p) /\ q = p
  BY <1>1 DEF Control, InWindow, Calling, Taking, NoUpdate
<1>2. ASSUME NEW q \in Procs \ {p}, Taking(p)
      PROVE  upd[q].job # upd'[p].job
  BY <1>2 DEF Taking, Fresh
<1>3. ASSUME NEW q \in Procs \ {p}
      PROVE  upd'[q] = upd[q]
  BY DEF Control
<1> QED BY <1>1, <1>2, <1>3 DEF Apart

\* An update under way is not disturbed by a step that touches no record.
LEMMA ControlWindow ==
    ASSUME TypeInv, NEW p \in Procs, Control(p), NEW q \in Procs, Window(q)
    PROVE  Window(q)'
<1>0. json' = json /\ tmp' = tmp
  BY DEF Control
<1>1. CASE upd'[q] = upd[q]
  <2>1. ASSUME NEW V, V = Visible(upd[q].job), V # NoRecord, upd[q].job \in Jobs,
               Follows(q, V, upd[q].rec)
        PROVE  Follows(q, V, upd[q].rec)'
    <3>1. IsStale(V, AliveWorkers) => IsStale(V, AliveWorkers')
      <4>1. \E d \in Dirs, j \in Jobs : V \in {json[d][j], tmp[d][j]}
        BY <2>1 DEF Visible, Dirs
      <4>2. ASSUME IsStale(V, AliveWorkers), V.owner \in AliveWorkers'
            PROVE  FALSE
        <5>1. Mentioned(V.owner)
          BY <2>1, <4>1 DEF Mentioned
        <5> QED BY <4>2, <5>1 DEF IsStale, Control
      <4> QED BY <4>2 DEF IsStale
    <3> QED BY <1>1, <2>1, <3>1 DEF Follows
  <2>2. upd[q].kind # "none" => upd[q].job \in Jobs
    BY DEF TypeInv, Placed
  <2>4. upd[q].at \in {"write", "rename"} => upd[q].src \in {"active", "archive"}
    BY DEF TypeInv, TypeOK, Dirs
  <2>3. ASSUME upd[q].at \in {"write", "rename"}, upd[q].kind # "new"
        PROVE  Follows(q, Visible(upd[q].job), upd[q].rec)'
    <3>1. Visible(upd[q].job) # NoRecord /\ Visible(upd[q].job)' = Visible(upd[q].job)
      BY <1>0, <1>1, <2>3, <2>4 DEF Window, Visible
    <3>2. upd[q].job \in Jobs /\ Follows(q, Visible(upd[q].job), upd[q].rec)
      BY <2>2, <2>3 DEF Window, TypeInv, Placed
    <3> QED BY <1>1, <2>1, <3>1, <3>2
  <2> QED BY <1>0, <1>1, <2>3 DEF Window, Written, Dest
<1>2. CASE upd'[q] # upd[q]
  <2>1. q = p /\ upd'[q].at \in {"off", "load", "write"}
        /\ (upd'[q].at = "write" => upd'[q].kind = "new")
    BY <1>2 DEF Control, Calling, Taking, NoUpdate
  <2> QED BY <2>1 DEF Window
<1> QED BY <1>1, <1>2

\* Only submission uses a job's name for the first time.
LEMMA ControlFresh ==
    ASSUME TypeInv, Fresh, NEW p \in Procs, Control(p)
    PROVE  Fresh'
<1>0. /\ audio \in [Jobs -> {"capture", "jobs", "output"}] /\ NoJob \notin Jobs
      /\ \A q \in Procs : upd[q].kind # "none" => upd[q].job \in Jobs
  BY JobQueueAssumption DEF TypeInv, TypeOK, Placed
<1>1. /\ \A j : Visible(j)' = Visible(j) /\ Known(j)' = Known(j)
      /\ \A q \in Procs \ {p} : upd'[q] = upd[q] /\ job'[q] = job[q] /\ todo'[q] = todo[q]
  BY DEF Control, Visible, Known
<1>2. ASSUME NEW j \in Jobs, audio'[j] = "capture"
      PROVE  ~Known(j) /\ \A q \in Procs : upd'[q].job # j
  <2>1. CASE audio[j] = "capture"
    <3>1. upd'[p].job # j
      BY <1>0, <1>2, <2>1 DEF Control, Calling, Taking, PuttingBack, Preserving, Fresh, NoUpdate
    <3> QED BY <1>1, <2>1, <3>1 DEF Fresh
  <2>2. CASE audio[j] # "capture"
    <3>1. PuttingBack(p) /\ upd'[p] = NoUpdate /\ j = upd[p].job
      BY <1>0, <1>2, <2>2 DEF Control, Taking, PuttingBack, Preserving
    <3>2. ~Known(j) /\ \A q \in Procs \ {p} : upd[q].job # j
      BY <3>1 DEF PuttingBack, Fresh
    <3>3. upd'[p].job # j
      BY <1>0, <3>1 DEF NoUpdate
    <3> QED BY <1>1, <3>2, <3>3
  <2> QED BY <2>1, <2>2
<1>3. ASSUME NEW q \in Procs, upd'[q].kind = "new", upd'[q].at # "done"
      PROVE  /\ ~Known(upd'[q].job) /\ audio'[upd'[q].job] = "jobs"
             /\ \A r \in Procs \ {q} : upd'[r].job # upd'[q].job
  <2>1. CASE upd'[q] = upd[q]
    <3>1. /\ ~Known(upd[q].job) /\ audio[upd[q].job] = "jobs" /\ upd[q].job \in Jobs
          /\ \A r \in Procs \ {q} : upd[r].job # upd[q].job
      BY <1>0, <1>3, <2>1 DEF Fresh
    <3>2. audio'[upd[q].job] = "jobs"
      <4>1. CASE Taking(p)
        BY <1>0, <3>1, <4>1 DEF Taking
      <4>2. CASE PuttingBack(p) /\ upd'[p] = NoUpdate
        <5>1. q # p
          BY <1>3, <4>2 DEF NoUpdate
        <5> QED BY <1>0, <3>1, <4>2, <5>1 DEF PuttingBack
      <4>3. CASE Preserving(p)
        <5>1. q # p /\ upd[p].job = job[p]
          BY <1>3, <2>1, <4>3 DEF Preserving, TypeInv, Placed
        <5> QED BY <1>0, <3>1, <4>3, <5>1 DEF Preserving
      <4> QED BY <3>1, <4>1, <4>2, <4>3 DEF Control
    <3>3. \A r \in Procs \ {q} : upd'[r].job # upd[q].job
      <4>1. CASE upd'[p].job = upd[q].job /\ p # q
        <5>1. CASE Calling(p)
          BY <3>1, <4>1, <5>1 DEF Calling
        <5>2. CASE Taking(p)
          BY <1>0, <3>1, <4>1, <5>2 DEF Taking
        <5>3. CASE upd'[p] = upd[p] \/ upd'[p] = NoUpdate
          BY <1>0, <3>1, <4>1, <5>3 DEF NoUpdate
        <5> QED BY <5>1, <5>2, <5>3 DEF Control
      <4> QED BY <1>1, <3>1, <4>1
    <3> QED BY <2>1, <3>1, <3>2, <3>3
  <2>2. CASE upd'[q] # upd[q]
    <3>1. q = p /\ Taking(p)
      BY <1>3, <2>2 DEF Control, Calling, Calls, NoUpdate
    <3> QED BY <1>0, <1>1, <3>1 DEF Taking, Fresh
  <2> QED BY <2>1, <2>2
<1>4. ASSUME NEW q \in Procs
      PROVE  /\ upd'[q].kind # "none" /\ (upd'[q].kind = "new" => upd'[q].at = "done")
                    => Known(upd'[q].job)
             /\ \A j \in todo'[q] : Known(j)
             /\ job'[q] # NoJob => Known(job'[q])
  <2>1. CASE q # p
    BY <1>1, <2>1 DEF Fresh
  <2>2. CASE q = p
    BY <2>2 DEF Fresh, Control, Calling, Taking, NoUpdate
  <2> QED BY <2>1, <2>2
<1> QED BY <1>1, <1>2, <1>3, <1>4 DEF Fresh

\* Records stay in their directory while nobody writes.
LEMMA ControlFiling ==
    ASSUME TypeInv, Filing, ~TornUpdates, NEW p \in Procs, Control(p)
    PROVE  Filing'
<1>1. /\ json' = json
      /\ \A q \in Procs : (~Published(q) /\ ~Published(q)') \/ upd'[q] = upd[q]
  BY DEF Control, Calling, Taking, Published, InWindow, NoUpdate
<1>2. \A q \in Procs : Published(q) => Published(q)' /\ upd'[q] = upd[q]
  BY <1>1 DEF Published
<1>3. Filed'
  BY <1>1, <1>2 DEF Filing, Filed, Published
<1>4. \A q \in Procs : upd'[q].at \in {"link", "unlink"} => upd'[q] = upd[q]
  BY <1>1 DEF Published
<1> QED BY <1>1, <1>3, <1>4 DEF Filing

\* Records stay accounted for while nobody writes and owners die at most.
LEMMA ControlRecords ==
    ASSUME Records, NEW p \in Procs, Control(p)
    PROVE  Records'
BY DEF Control, Records, Accounted, Known, Visible

\* A client's request leaves the workers alone, but for the one it starts.
LEMMA ClientSpares ==
    ASSUME TypeInv, NEW c \in Clients, Request(c) \/ Client(c) \/ LaunchApp(c),
           NEW w \in Workers
    PROVE  Spares(w) \/ (pc[w] = "off" /\ pc'[w] = "starting")
<1>0. RestTypes /\ upd \in [Procs -> Slots] /\ c \in Procs /\ w \in Procs \ {c}
  BY TypesSplit, JobQueueAssumption DEF TypeInv, Procs
<1> USE DEF Spares, RestTypes
<1>1. CASE SpawnWorker(c)
  <2>1. UNCHANGED <<upd, job, todo, after, stage>>
    BY <1>1 DEF SpawnWorker
  <2>2. CASE Goto(c, "idle")
    BY <1>0, <2>1, <2>2 DEF Goto
  <2>3. ASSUME NEW v \in Workers, pc[v] = "off",
               pc' = [pc EXCEPT ![c] = "idle", ![v] = "starting"]
        PROVE  Spares(w) \/ (pc[w] = "off" /\ pc'[w] = "starting")
    <3>1. w # c /\ w \in Procs /\ v \in Procs
      BY <1>0, JobQueueAssumption DEF Procs
    <3>2. CASE w = v
      BY <1>0, <2>3, <3>1, <3>2
    <3>3. CASE w # v
      BY <1>0, <2>1, <2>3, <3>1, <3>3
    <3> QED BY <3>2, <3>3
  <2> QED BY <1>1, <2>2, <2>3 DEF SpawnWorker
<1>2. CASE Poll(c) \/ LaunchApp(c) \/ DismissNotice(c)
  BY <1>0, <1>2 DEF Poll, LaunchApp, DismissNotice, ListThen, Goto, Call
<1>3. CASE \E j \in Jobs : QueueCapture(c, j) \/ RetryJob(c, j) \/ ShowNotice(c, j)
  BY <1>0, <1>3 DEF QueueCapture, RetryJob, ShowNotice, Goto, Call
<1>4. CASE CaptureQueued(c) \/ Retried(c) \/ Dismissed(c)
  BY <1>0, <1>4 DEF CaptureQueued, Retried, Dismissed, ListThen, Goto, Return
<1> QED BY <1>1, <1>2, <1>3, <1>4 DEF Request, Client

\* A worker's claim does not depend on what others do, as long as its job's
\* record stays.
LEMMA SparedClaim ==
    ASSUME NEW w \in Workers, Claimed(w), Spares(w),
           Visible(job[w])' = Visible(job[w])
    PROVE  Claimed(w)'
BY DEF Claimed, Spares, WorkingOn, Holds, Known, Early, Published

\* A worker that works on no job claims nothing.
LEMMA IdleClaim ==
    ASSUME NEW w \in Workers,
           \/ pc[w] \in {"off", "starting", "pick", "leave", "preserve"}
           \/ pc[w] \in {"list", "recover"} /\ after[w] \in {"pick", "leave"}
    PROVE  Claimed(w)
BY DEF Claimed, WorkingOn

\* A worker keeps its claim from one update to the next.
LEMMA WorkerClaim ==
    ASSUME TypeInv, NEW w \in Workers, Claimed(w), Worker(w) \/ ListJobs(w), Control(w)
    PROVE  Claimed(w)'
<1> w \in Procs /\ w \notin Clients
  BY JobQueueAssumption DEF Procs
<1>0. upd \in [Procs -> Slots] /\ RestTypes /\ Placed(w)
  BY TypesSplit DEF TypeInv
<1>1. \A j : Visible(j)' = Visible(j) /\ Known(j)' = Known(j)
  BY DEF Control, Visible, Known
<1>2. ASSUME WorkingOn(w)', job'[w] = job[w], Holds(w), pc'[w] \notin {"settle", "claim"}
      PROVE  Claimed(w)'
  BY <1>1, <1>2 DEF Claimed, Holds, Known
<1>3. CASE ListJobs(w)
  <2>1. job' = job /\ pc[w] \in {"list", "recover"}
    BY <1>3 DEF ListJobs, Snapshot, RecoverNext, RecoverEnd
  <2>2. \/ pc'[w] \in {"list", "recover"} /\ after'[w] = after[w]
        \/ pc'[w] = after[w]
    BY <1>0, <1>3 DEF ListJobs, Snapshot, RecoverNext, RecoverEnd, RestTypes, Goto
  <2>3. CASE after[w] \in {"transcribe", "enrich"}
    <3>1. WorkingOn(w) /\ WorkingOn(w)' /\ pc'[w] \notin {"settle", "claim"}
      BY <2>1, <2>2, <2>3 DEF WorkingOn
    <3> QED BY <1>2, <2>1, <3>1 DEF Claimed
  <2>4. CASE after[w] \in {"pick", "leave"}
    BY <2>1, <2>2, <2>4 DEF Claimed, WorkingOn
  <2> QED BY <1>0, <2>1, <2>3, <2>4 DEF Placed
<1>4. CASE StartWorker(w) \/ LeaveQueue(w) \/ ExitOnError(w) \/ JobGone(w) \/ AudioPreserved(w)
  <2>1. pc'[w] = "off" \/ (pc'[w] = "list" /\ after'[w] = "pick")
    BY <1>0, <1>4 DEF StartWorker, LeaveQueue, ExitOnError, JobGone, AudioPreserved, ListThen,
                      Goto, RestTypes
  <2> QED BY <2>1 DEF Claimed, WorkingOn
<1>5. CASE PickJob(w)
  <2> DEFINE queued == {j \in Jobs : /\ json["active"][j] # NoRecord
                                     /\ json["active"][j].state = "Queued"}
  <2>1. CASE /\ queued # {} /\ job' = [job EXCEPT ![w] = First(queued)]
             /\ Call(w, "claim", First(queued)) /\ Goto(w, "claim")
    <3>1. First(queued) \in queued
      BY <2>1, FirstIn
    <3>2. First(queued) \in Jobs /\ Known(First(queued)) /\ Visible(First(queued)).state = "Queued"
      BY <3>1 DEF Known, Visible
    <3> HIDE DEF queued
    <3>3. job'[w] = First(queued) /\ pc'[w] = "claim"
      BY <1>0, <2>1 DEF RestTypes, Goto
    <3>4. upd'[w].at = "load"
      BY <1>0, <2>1, <3>2, CallMade DEF Calls
    <3> QED BY <1>1, <3>2, <3>3, <3>4 DEF Claimed, WorkingOn, Published
  <2>2. CASE ListThen(w, "leave")
    BY <1>0, <2>2 DEF ListThen, RestTypes, Claimed, WorkingOn
  <2> QED BY <1>5, <2>1, <2>2 DEF PickJob
<1>6. CASE Proceed(w)
  <2>1. job' = job
    BY <1>6 DEF Proceed
  <2>2. CASE \/ pc[w] = "claim" /\ ListThen(w, "transcribe")
             \/ pc[w] = "transcript" /\ ListThen(w, "enrich")
    <3>1. Holds(w)
      BY <1>6, <2>2 DEF Proceed, Claimed, WorkingOn
    <3>2. pc'[w] = "list" /\ after'[w] \in {"transcribe", "enrich"}
      BY <1>0, <2>2 DEF RestTypes, ListThen
    <3> QED BY <1>2, <2>1, <3>1, <3>2 DEF WorkingOn
  <2>3. CASE ListThen(w, "pick")
    BY <1>0, <2>3 DEF ListThen, RestTypes, Claimed, WorkingOn
  <2> QED BY <1>6, <2>2, <2>3 DEF Proceed
<1>7. CASE Transcribe(w) \/ Enrich(w) \/ ReportStage(w)
  <2>1. job' = job /\ Holds(w)
    BY <1>7 DEF Transcribe, Enrich, ReportStage, Claimed, WorkingOn
  <2>2. pc'[w] \in {"transcript", "stage", "settle"}
    BY <1>0, <1>7 DEF Transcribe, Enrich, ReportStage, Goto, RestTypes
  <2> QED BY <1>1, <2>1, <2>2 DEF Claimed, WorkingOn, Holds, Known
<1>8. CASE StageReported(w)
  <2>1. job' = job /\ Holds(w)
    BY <1>8 DEF StageReported, Claimed, WorkingOn
  <2>2. pc'[w] = "enrich" \/ (pc'[w] = "list" /\ after'[w] = "enrich")
    BY <1>0, <1>8 DEF StageReported, Goto, ListThen, RestTypes
  <2> QED BY <1>2, <2>1, <2>2 DEF WorkingOn
<1>9. CASE PreserveAudio(w)
  <2>1. pc'[w] = "preserve" \/ (pc'[w] = "list" /\ after'[w] = "pick")
    BY <1>0, <1>9 DEF PreserveAudio, Goto, ListThen, RestTypes
  <2> QED BY <2>1 DEF Claimed, WorkingOn
<1> QED BY <1>3, <1>4, <1>5, <1>6, <1>7, <1>8, <1>9 DEF Worker

\* Everything that no file is changed for.
LEMMA ControlSerial ==
    ASSUME SerialInv, TypeInv', GuardInv', NEW p \in Procs, Control(p),
           \A w \in Workers : Claimed(w)'
    PROVE  SerialInv'
<1>1. Apart' /\ Fresh' /\ Records' /\ \A q \in Procs : Window(q)'
  BY ControlApart, ControlFresh, ControlRecords, ControlWindow DEF SerialInv
<1>2. Tidy => Filing'
  BY ControlFiling DEF SerialInv, Tidy
<1> QED BY <1>1, <1>2 DEF SerialInv, Tidy, Serial

-----------------------------------------------------------------------------
(* Steps of an update. *)

\* p's update touches its own job only, and stays what it is.
LEMMA UpdateFrame ==
    ASSUME TypeInv, NEW p \in Procs, Update(p)
    PROVE  /\ upd[p].job \in Jobs /\ upd[p].kind # "none"
           /\ upd'[p].kind = upd[p].kind /\ upd'[p].job = upd[p].job
           /\ upd[p].at \in {"load", "loadArchive", "write", "rename", "removeArchive",
                             "link", "unlink"}
           /\ \A k \in Jobs : k # upd[p].job =>
                 /\ \A d \in Dirs : json'[d][k] = json[d][k] /\ tmp'[d][k] = tmp[d][k]
                 /\ claims'[k] = claims[k] /\ Visible(k)' = Visible(k) /\ Known(k)' = Known(k)
<1>0. /\ upd \in [Procs -> Slots] /\ FileTypes /\ Placed(p) /\ Dirs = {"active", "archive"}
  BY TypesSplit DEF TypeInv, Dirs
<1>1. upd[p].at \in {"load", "loadArchive", "write", "rename", "removeArchive", "link", "unlink"}
  BY DEF Update, LoadActive, LoadArchive, WriteTmp, Rename, RemoveArchive, Link, Unlink, Step
<1>2. upd[p].job \in Jobs /\ upd[p].kind # "none"
  BY <1>0, <1>1 DEF Placed
<1>3. upd'[p].kind = upd[p].kind /\ upd'[p].job = upd[p].job
  <2>1. CASE LoadActive(p)    BY <1>0, <2>1 DEF LoadActive, Loaded, Step, Slots
  <2>2. CASE LoadArchive(p)   BY <1>0, <2>2 DEF LoadArchive, Loaded, Step, Slots
  <2>3. CASE WriteTmp(p)      BY <1>0, <2>3 DEF WriteTmp, Step, Slots
  <2>4. CASE Rename(p)        BY <1>0, <2>4 DEF Rename, Step, Slots
  <2>5. CASE RemoveArchive(p) BY <1>0, <2>5 DEF RemoveArchive, Step, Slots
  <2>6. CASE Link(p)          BY <1>0, <2>6 DEF Link, Step, Slots
  <2>7. CASE Unlink(p)        BY <1>0, <2>7 DEF Unlink, Step, Slots
  <2> QED BY <2>1, <2>2, <2>3, <2>4, <2>5, <2>6, <2>7 DEF Update
<1>4. ASSUME NEW k \in Jobs, k # upd[p].job
      PROVE  /\ \A d \in Dirs : json'[d][k] = json[d][k] /\ tmp'[d][k] = tmp[d][k]
             /\ claims'[k] = claims[k]
  <2> USE <1>0, <1>2, <1>4 DEF FileTypes
  <2>1. CASE LoadActive(p)    BY <2>1 DEF LoadActive, Loaded, Step
  <2>2. CASE LoadArchive(p)   BY <2>2 DEF LoadArchive, Loaded, Step
  <2>3. CASE WriteTmp(p)      BY <2>3 DEF WriteTmp
  <2>4. CASE Rename(p)        BY <2>4 DEF Rename
  <2>5. CASE RemoveArchive(p) BY <2>5 DEF RemoveArchive
  <2>6. CASE Link(p)          BY <2>6 DEF Link
  <2>7. CASE Unlink(p)        BY <2>7 DEF Unlink
  <2> QED BY <2>1, <2>2, <2>3, <2>4, <2>5, <2>6, <2>7 DEF Update
<1>5. \A k \in Jobs : k # upd[p].job => Visible(k)' = Visible(k) /\ Known(k)' = Known(k)
  BY <1>0, <1>4 DEF Visible, Known
<1> QED BY <1>1, <1>2, <1>3, <1>4, <1>5

\* A record whose temporary file is still p's own is published as p wrote it.
LEMMA Publication ==
    ASSUME TypeInv, NEW p \in Procs, Window(p), Rename(p), NEW j \in Jobs, j = upd[p].job
    PROVE  /\ Written(upd[p]) = "active" => /\ json'["active"][j] = upd[p].rec
                                            /\ json'["archive"][j] = json["archive"][j]
           /\ Written(upd[p]) = "archive" => /\ json'["archive"][j] = upd[p].rec
                                             /\ json'["active"][j] = json["active"][j]
           /\ claims'[j] = Charged(upd[p], claims[j])
           /\ Written(upd[p]) \in Dirs /\ upd[p].rec \in ProcessingJob
           /\ upd'[p].src = upd[p].src /\ upd'[p].rec = upd[p].rec
           /\ \/ upd[p].src = Dest(upd[p]) /\ upd'[p].at = "done"
              \/ upd[p].src = "archive" /\ Dest(upd[p]) = "active" /\ upd'[p].at = "removeArchive"
              \/ upd[p].src = "active" /\ Dest(upd[p]) = "archive" /\ upd'[p].at = "link"
<1>0. /\ upd \in [Procs -> Slots] /\ FileTypes /\ Placed(p) /\ Dirs = {"active", "archive"}
  BY TypesSplit DEF TypeInv, Dirs
<1>1. upd[p].at = "rename" /\ upd[p].job \in Jobs /\ upd[p].rec \in ProcessingJob
  BY <1>0 DEF Rename, Placed
<1>2. /\ tmp[Written(upd[p])][upd[p].job] = upd[p].rec /\ upd[p].rec # NoRecord
  BY <1>1, JobQueueAssumption DEF Window
<1>3. Written(upd[p]) \in Dirs /\ upd[p].src \in Dirs /\ Dest(upd[p]) \in Dirs
  BY <1>0 DEF Written, Dest, Slots
<1>4. /\ json' = [json EXCEPT ![Written(upd[p])][upd[p].job] = upd[p].rec]
      /\ claims' = [claims EXCEPT ![upd[p].job] = Charged(upd[p], @)]
      /\ Step(p, "rename", AfterRename(upd[p]))
  BY <1>2 DEF Rename
<1>5. /\ upd'[p].src = upd[p].src /\ upd'[p].rec = upd[p].rec
      /\ upd'[p].at = AfterRename(upd[p])
  BY <1>0, <1>4 DEF Step, Slots
<1> QED BY <1>0, <1>1, <1>3, <1>4, <1>5 DEF FileTypes, AfterRename

\* How p's update may change what the others see of its job: not at all; by
\* publishing its own record; or, once that is terminal, by leaving the archived
\* one.
Publishes(p, j) ==
    /\ Rename(p)
    /\ Visible(j)' = upd[p].rec /\ upd[p].rec \in ProcessingJob
    /\ claims'[j] = Charged(upd[p], claims[j])
    /\ \/ upd[p].kind = "new" /\ ~Known(j)
       \/ upd[p].kind # "new" /\ Known(j) /\ Follows(p, Visible(j), upd[p].rec)
Retires(p, j) ==
    /\ Unlink(p)
    /\ Visible(j) = upd[p].rec /\ upd[p].rec.state \in Terminal
    /\ Visible(j)' = json["archive"][j] /\ json["archive"][j] # NoRecord
    /\ claims' = claims

\* A rename whose temporary file is still p's own publishes its record.
LEMMA RenamePublishes ==
    ASSUME TypeInv, Fresh, NEW p \in Procs, Window(p), Rename(p),
           NEW j \in Jobs, j = upd[p].job
    PROVE  Publishes(p, j)
<1>0. /\ upd \in [Procs -> Slots] /\ FileTypes /\ Placed(p) /\ Dirs = {"active", "archive"}
      /\ NoRecord \notin ProcessingJob
  BY TypesSplit, JobQueueAssumption DEF TypeInv, Dirs
<1>1. upd[p].at = "rename" /\ upd[p].src \in Dirs
  BY <1>0 DEF Rename, Slots
<1>2. upd[p].kind = "new" => ~Known(j) /\ upd[p].src = "active"
  BY <1>0, <1>1 DEF Fresh, Placed
<1>3. upd[p].kind # "new" =>
         /\ Follows(p, Visible(j), upd[p].rec)
         /\ upd[p].src = "active" => json["active"][j] # NoRecord
         /\ upd[p].src = "archive" => json["active"][j] = NoRecord
         /\ Known(j)
  BY <1>0, <1>1 DEF Window, Known, Visible
<1>4. /\ Visible(j)' = upd[p].rec /\ upd[p].rec \in ProcessingJob
      /\ claims'[j] = Charged(upd[p], claims[j])
  <2>1. /\ upd[p].rec \in ProcessingJob /\ Written(upd[p]) \in {"active", "archive"}
        /\ claims'[j] = Charged(upd[p], claims[j])
        /\ Written(upd[p]) = "active" => json'["active"][j] = upd[p].rec
        /\ Written(upd[p]) = "archive" =>
              json'["archive"][j] = upd[p].rec /\ json'["active"][j] = json["active"][j]
    BY <1>0, Publication
  <2>2. CASE Written(upd[p]) = "active"
    BY <1>0, <2>1, <2>2 DEF Visible
  <2>3. CASE Written(upd[p]) = "archive"
    <3>1. json["active"][j] = NoRecord
      BY <1>0, <1>1, <1>2, <1>3, <2>3 DEF Written
    <3> QED BY <2>1, <2>3, <3>1 DEF Visible
  <2> QED BY <2>1, <2>2, <2>3
<1> QED BY <1>2, <1>3, <1>4 DEF Publishes

\* What a step of an update does to what a reader sees: nothing, or its record is
\* published, or the archive's copy is retired.
LEMMA VisibleStep ==
    ASSUME TypeInv, Fresh, NEW p \in Procs, Window(p), Update(p),
           NEW j \in Jobs, j = upd[p].job
    PROVE  \/ Visible(j)' = Visible(j) /\ claims' = claims
           \/ Publishes(p, j)
           \/ Retires(p, j)
<1>0. /\ upd \in [Procs -> Slots] /\ FileTypes /\ Placed(p) /\ Dirs = {"active", "archive"}
      /\ NoRecord \notin ProcessingJob
  BY TypesSplit, JobQueueAssumption DEF TypeInv, Dirs
<1>1. CASE LoadActive(p) \/ LoadArchive(p) \/ WriteTmp(p)
  <2>1. UNCHANGED <<json, claims>>
    BY <1>1 DEF LoadActive, LoadArchive, WriteTmp, Loaded
  <2> QED BY <2>1 DEF Visible
<1>2. CASE Rename(p)
  BY <1>2, RenamePublishes
<1>3. CASE RemoveArchive(p)
  <2>1. upd[p].at = "removeArchive" /\ claims' = claims
    BY <1>3 DEF RemoveArchive, Step
  <2>2. json["active"][j] # NoRecord
    BY <1>0, <2>1 DEF Window, Placed
  <2>3. json'["active"][j] = json["active"][j]
    BY <1>0, <1>3 DEF RemoveArchive, FileTypes
  <2> QED BY <2>1, <2>2, <2>3 DEF Visible
<1>4. CASE Link(p)
  <2>1. upd[p].at = "link" /\ claims' = claims
    BY <1>4 DEF Link
  <2>2. json["active"][j] # NoRecord
    BY <1>0, <2>1 DEF Window, Placed
  <2>3. json'["active"][j] = json["active"][j]
    BY <1>0, <1>4 DEF Link, FileTypes
  <2> QED BY <2>1, <2>2, <2>3 DEF Visible
<1>5. CASE Unlink(p)
  <2>1. upd[p].at = "unlink" /\ claims' = claims
    BY <1>5 DEF Unlink, Step
  <2>2. /\ json["active"][j] = upd[p].rec /\ upd[p].rec # NoRecord
        /\ upd[p].rec.state \in Terminal /\ json["archive"][j] # NoRecord
    BY <1>0, <2>1 DEF Window, Placed
  <2>3. CASE UNCHANGED json
    BY <2>1, <2>3 DEF Visible
  <2>4. CASE json' = [json EXCEPT !["active"][j] = NoRecord]
    <3>1. json'["active"][j] = NoRecord /\ json'["archive"][j] = json["archive"][j]
      BY <1>0, <2>4 DEF FileTypes
    <3>2. Visible(j) = upd[p].rec /\ Visible(j)' = json["archive"][j]
      BY <2>2, <3>1 DEF Visible
    <3> QED BY <1>5, <2>1, <2>2, <3>2 DEF Retires
  <2> QED BY <1>5, <2>3, <2>4 DEF Unlink
<1> QED BY <1>1, <1>2, <1>3, <1>4, <1>5 DEF Update

\* Known jobs stay known.
LEMMA KnownKept ==
    ASSUME TypeInv, Fresh, NEW p \in Procs, Window(p), Update(p), NEW j \in Jobs, Known(j)
    PROVE  Known(j)'
<1>1. CASE j # upd[p].job
  BY <1>1, UpdateFrame
<1>2. CASE j = upd[p].job
  <2>1. \/ Visible(j)' = Visible(j)
        \/ Visible(j)' \in ProcessingJob
        \/ Visible(j)' = json["archive"][j] /\ json["archive"][j] # NoRecord
    BY <1>2, VisibleStep DEF Publishes, Retires
  <2> QED BY <2>1, JobQueueAssumption DEF Known
<1> QED BY <1>1, <1>2

\* An update enters its window only when no other is in one on its job.
LEMMA UpdateApart ==
    ASSUME ~Overlap, TypeInv, Apart, NEW p \in Procs, Update(p)
    PROVE  Apart'
<1>1. ASSUME NEW q \in Procs \ {p}, InWindow(q), InWindow(p)'
      PROVE  upd[q].job # upd'[p].job
  <2>1. upd'[p].job = upd[p].job
    BY UpdateFrame
  <2>2. CASE InWindow(p)
    BY <1>1, <2>1, <2>2 DEF Apart
  <2>3. CASE ~InWindow(p)
    <3>1. LoadActive(p)
      BY <2>3 DEF InWindow, Update, LoadArchive, WriteTmp, Rename, RemoveArchive, Link, Unlink,
                  Step
    <3> QED BY <1>1, <2>1, <3>1 DEF LoadActive
  <2> QED BY <2>2, <2>3
<1>2. \A q \in Procs \ {p} : upd'[q] = upd[q]
  BY UpdateAlone
<1> QED BY <1>1, <1>2 DEF Apart, InWindow

\* Where the steps of an update lead.
LEMMA UpdatePlaces ==
    ASSUME TypeInv, NEW p \in Procs, Update(p)
    PROVE  /\ LoadActive(p) => upd'[p].at \in {"write", "loadArchive"}
           /\ LoadArchive(p) => upd'[p].at \in {"write", "none"}
           /\ WriteTmp(p) => /\ upd[p].at = "write" /\ upd'[p].at \in {"rename", "err"}
                             /\ upd'[p].src = upd[p].src /\ upd'[p].rec = upd[p].rec
                             /\ upd'[p].at = "err" => DiskErrors
           /\ Rename(p) => /\ upd[p].at = "rename"
                           /\ upd'[p].at \in {"done", "removeArchive", "link", "err"}
           /\ RemoveArchive(p) => upd[p].at = "removeArchive" /\ upd'[p].at = "done"
           /\ Link(p) => /\ upd[p].at = "link" /\ upd'[p].at \in {"unlink", "done"}
                         /\ upd'[p].src = upd[p].src /\ upd'[p].rec = upd[p].rec
           /\ Unlink(p) => upd[p].at = "unlink" /\ upd'[p].at = "done"
<1>0. upd \in [Procs -> Slots]
  BY TypesSplit DEF TypeInv
<1> USE <1>0 DEF Step, Slots
<1>1. LoadActive(p) => upd'[p].at \in {"write", "loadArchive"}
  BY DEF LoadActive, Loaded
<1>2. LoadArchive(p) => upd'[p].at \in {"write", "none"}
  BY DEF LoadArchive, Loaded
<1>3. WriteTmp(p) => /\ upd[p].at = "write" /\ upd'[p].at \in {"rename", "err"}
                     /\ upd'[p].src = upd[p].src /\ upd'[p].rec = upd[p].rec
                     /\ upd'[p].at = "err" => DiskErrors
  BY DEF WriteTmp
<1>4. Rename(p) => /\ upd[p].at = "rename"
                   /\ upd'[p].at \in {"done", "removeArchive", "link", "err"}
  BY DEF Rename, AfterRename
<1>5. RemoveArchive(p) => upd[p].at = "removeArchive" /\ upd'[p].at = "done"
  BY DEF RemoveArchive
<1>6. Link(p) => /\ upd[p].at = "link" /\ upd'[p].at \in {"unlink", "done"}
                 /\ upd'[p].src = upd[p].src /\ upd'[p].rec = upd[p].rec
  BY DEF Link, AfterLinkError
<1>7. Unlink(p) => upd[p].at = "unlink" /\ upd'[p].at = "done"
  BY DEF Unlink
<1> QED BY <1>1, <1>2, <1>3, <1>4, <1>5, <1>6, <1>7

\* A process in the middle of an update makes the same of a record later on.
LEMMA FollowsKept ==
    ASSUME NEW p \in Procs, NEW V, NEW r, Follows(p, V, r),
           upd'[p].kind = upd[p].kind, AliveWorkers' = AliveWorkers
    PROVE  Follows(p, V, r)'
BY DEF Follows

\* A record that was found is loaded for p's closure.
LEMMA LoadedWindow ==
    ASSUME TypeInv, NEW p \in Procs, NEW d \in Dirs, Loaded(p, d),
           Update(p), upd[p].kind \in Calls,
           NEW j \in Jobs, j = upd[p].job,
           d = "active" => json["active"][j] # NoRecord,
           d = "archive" => json["active"][j] = NoRecord /\ json["archive"][j] # NoRecord
    PROVE  Window(p)'
<1>0. /\ upd \in [Procs -> Slots] /\ FileTypes /\ Dirs = {"active", "archive"}
      /\ upd'[p].job = j /\ upd'[p].kind = upd[p].kind
  BY TypesSplit, UpdateFrame DEF TypeInv, Dirs
<1>1. PICK r : /\ r = Apply(p, upd[p].kind, json[d][j])
               /\ upd' = [upd EXCEPT ![p].at = "write", ![p].src = d, ![p].rec = r]
  BY DEF Loaded
<1>2. json' = json /\ AliveWorkers' = AliveWorkers
  BY DEF Loaded, AliveWorkers
<1>3. d \in {"active", "archive"} /\ json[d][j] # NoRecord
  BY <1>0
<1>4. json[d][j] \in ProcessingJob
  BY <1>0, <1>3 DEF FileTypes
<1>5. PICK V : V = json[d][j]
  OBVIOUS
<1>6. Visible(j)' = V
  BY <1>0, <1>2, <1>3, <1>5 DEF Visible
<1>7. Follows(p, V, r)
  BY <1>1, <1>4, <1>5, ApplyFollows
<1>8. Follows(p, V, r)'
  BY <1>0, <1>2, <1>7, FollowsKept
<1>9. upd'[p].at = "write" /\ upd'[p].src = d /\ upd'[p].rec = r
  BY <1>0, <1>1 DEF Slots
<1> QED BY <1>0, <1>2, <1>3, <1>6, <1>8, <1>9 DEF Window

\* An update stays in its window until it is over: what it loaded is what is there.
LEMMA OwnWindow ==
    ASSUME SerialInv, Serial, NEW p \in Procs, Update(p)
    PROVE  Window(p)'
<1>0. PICK j \in Jobs : j = upd[p].job
  BY UpdateFrame DEF SerialInv
<1>1. /\ TypeInv /\ Placed(p) /\ Window(p) /\ Fresh
      /\ upd \in [Procs -> Slots] /\ FileTypes /\ Dirs = {"active", "archive"}
      /\ upd'[p].job = j /\ upd'[p].kind = upd[p].kind /\ upd[p].kind # "none"
      /\ pc' = pc
  BY <1>0, TypesSplit, UpdateFrame, UpdateAlone DEF SerialInv, TypeInv, Dirs
<1>2. AliveWorkers' = AliveWorkers
  BY <1>1 DEF AliveWorkers
<1>3. upd[p].at \in {"load", "loadArchive"} => upd[p].kind \in Calls /\ Known(j)
  BY <1>0, <1>1 DEF Placed, Slots, Calls, Fresh
<1>4. CASE LoadActive(p)
  <2> USE <1>4 DEF LoadActive
  <2>1. upd[p].kind \in Calls /\ Known(j)
    BY <1>3
  <2>2. CASE json["active"][j] # NoRecord /\ Loaded(p, "active")
    BY <1>0, <1>1, <2>1, <2>2, LoadedWindow
  <2>3. CASE /\ json["active"][j] = NoRecord \/ ReadErrors
             /\ Step(p, "load", "loadArchive") /\ UNCHANGED <<json, tmp, claims>>
    <3>1. upd'[p].at = "loadArchive"
      BY <1>1, <2>3 DEF Step, Slots
    <3>2. ASSUME json["active"][j] # NoRecord
          PROVE  ReadErrors /\ json["archive"][j] = NoRecord
      <4>1. ReadErrors /\ Filing
        BY <2>3, <3>2 DEF SerialInv, Serial, Tidy
      <4>2. \A q \in Procs : upd[q].job # j \/ ~Published(q)
        BY <1>0 DEF Published, InWindow, Serial
      <4> QED BY <3>2, <4>1, <4>2 DEF Filing, Filed
    <3> QED BY <1>1, <2>3, <3>1, <3>2 DEF Window
  <2> QED BY <1>0, <2>2, <2>3
<1>5. CASE LoadArchive(p)
  <2> USE <1>5 DEF LoadArchive
  <2>1. /\ upd[p].kind \in Calls /\ Known(j)
        /\ json["active"][j] = NoRecord \/ (ReadErrors /\ json["archive"][j] = NoRecord)
    BY <1>0, <1>1, <1>3 DEF Window
  <2>2. CASE json["archive"][j] # NoRecord /\ Loaded(p, "archive")
    BY <1>0, <1>1, <2>1, <2>2, LoadedWindow
  <2>3. CASE /\ json["archive"][j] = NoRecord \/ ReadErrors
             /\ Step(p, "loadArchive", "none")
    <3>1. upd'[p].at = "none"
      BY <1>1, <2>3 DEF Step, Slots
    <3>2. ReadErrors
      BY <2>1, <2>3 DEF Known, Visible
    <3> QED BY <3>1, <3>2 DEF Window
  <2> QED BY <1>0, <2>2, <2>3
<1>6. CASE WriteTmp(p)
  <2>1. /\ upd[p].at = "write" /\ upd'[p].at \in {"rename", "err"} /\ json' = json
        /\ upd'[p].src = upd[p].src /\ upd'[p].rec = upd[p].rec
    BY <1>1, <1>6, UpdatePlaces DEF WriteTmp
  <2>2. CASE upd'[p].at = "rename"
    <3>1. tmp' = [tmp EXCEPT ![Written(upd[p])][j] = upd[p].rec]
      BY <1>0, <1>1, <1>6, <2>2 DEF WriteTmp, Step, Slots
    <3>2. Written(upd[p]) \in Dirs
      BY <1>1 DEF Written, Dest, Slots
    <3>3. tmp'[Written(upd[p])][j] = upd[p].rec
      BY <1>1, <3>1, <3>2 DEF FileTypes
    <3>4. Written(upd'[p]) = Written(upd[p])
      BY <2>1 DEF Written, Dest
    <3>5. PICK V, r : V = Visible(j) /\ r = upd[p].rec
      OBVIOUS
    <3>6. upd[p].kind # "new" => Follows(p, V, r)'
      BY <1>0, <1>1, <1>2, <2>1, <3>5, FollowsKept DEF Window
    <3>7. Visible(j)' = V
      BY <2>1, <3>5 DEF Visible
    <3>8. upd[p].kind # "new" =>
             /\ upd[p].src = "active" => json["active"][j] # NoRecord
             /\ upd[p].src = "archive" =>
                   json["active"][j] = NoRecord /\ json["archive"][j] # NoRecord
      BY <1>0, <1>1, <2>1 DEF Window
    <3> QED BY <1>1, <2>1, <2>2, <3>3, <3>4, <3>5, <3>6, <3>7, <3>8 DEF Window
  <2>3. CASE upd'[p].at = "err"
    BY <2>3 DEF Window
  <2> QED BY <2>1, <2>2, <2>3
<1>7. CASE Rename(p)
  <2>1. /\ Written(upd[p]) = "active" => json'["active"][j] = upd[p].rec
        /\ upd'[p].src = upd[p].src /\ upd'[p].rec = upd[p].rec
        /\ \/ upd'[p].at = "done"
           \/ upd[p].src = "archive" /\ Dest(upd[p]) = "active" /\ upd'[p].at = "removeArchive"
           \/ upd[p].src = "active" /\ Dest(upd[p]) = "archive" /\ upd'[p].at = "link"
    BY <1>0, <1>1, <1>7, Publication
  <2> QED BY <1>1, <2>1 DEF Window, Written, Dest
<1>8. CASE RemoveArchive(p) \/ Unlink(p)
  BY <1>1, <1>8, UpdatePlaces DEF Window
<1>9. CASE Link(p)
  <2>1. /\ upd[p].at = "link" /\ upd'[p].at \in {"unlink", "done"}
        /\ upd'[p].src = upd[p].src /\ upd'[p].rec = upd[p].rec
    BY <1>1, <1>9, UpdatePlaces
  <2>2. json["active"][j] = upd[p].rec /\ json["active"][j].state \in Terminal
        /\ json["active"][j] # NoRecord
    BY <1>0, <1>1, <2>1, JobQueueAssumption DEF Window, Placed
  <2>3. /\ json'["active"][j] = json["active"][j]
        /\ upd'[p].at = "unlink" => json'["archive"][j] # NoRecord
    BY <1>0, <1>1, <1>9, <2>2 DEF Link, FileTypes, Step, Slots, AfterLinkError
  <2> QED BY <1>1, <2>1, <2>2, <2>3 DEF Window
<1> QED BY <1>1, <1>4, <1>5, <1>6, <1>7, <1>8, <1>9 DEF Update

\* And it leaves the windows of the others alone, whose jobs are not its own.
LEMMA OtherWindow ==
    ASSUME SerialInv, NEW p \in Procs, Update(p), NEW q \in Procs \ {p}
    PROVE  Window(q)'
<1>0. /\ TypeInv /\ Placed(q) /\ Window(q) /\ upd'[q] = upd[q] /\ pc' = pc
      /\ Dirs = {"active", "archive"} /\ upd[q] \in Slots
  BY UpdateAlone, TypesSplit DEF SerialInv, TypeInv, Dirs
<1>1. AliveWorkers' = AliveWorkers
  BY <1>0 DEF AliveWorkers
<1>2. ASSUME InWindow(q)
      PROVE  Window(q)'
  <2>1. PICK j \in Jobs : j = upd[q].job
    BY <1>0, <1>2 DEF InWindow, Placed
  <2>2. \A d \in Dirs : json'[d][j] = json[d][j] /\ tmp'[d][j] = tmp[d][j]
    <3>1. CASE upd[p].job # j
      BY <1>0, <3>1, UpdateFrame
    <3>2. CASE upd[p].job = j
      <4>1. ~InWindow(p)
        BY <1>2, <2>1, <3>2 DEF SerialInv, Apart
      <4>2. upd[p].at = "load"
        BY <1>0, <4>1, UpdateFrame DEF InWindow
      <4>3. LoadActive(p)
        BY <4>2 DEF Update, LoadArchive, WriteTmp, Rename, RemoveArchive, Link, Unlink, Step
      <4> QED BY <4>3 DEF LoadActive, Loaded
    <3> QED BY <3>1, <3>2
  <2>3. Written(upd[q]) \in Dirs
    BY <1>0 DEF Written, Dest, Slots
  <2>4. PICK V, r : V = Visible(j) /\ r = upd[q].rec
    OBVIOUS
  <2>5. Visible(j)' = V
    BY <1>0, <2>2, <2>4 DEF Visible
  <2>6. upd[q].at \in {"write", "rename"} /\ upd[q].kind # "new" => Follows(q, V, r)'
    BY <1>0, <1>1, <2>1, <2>4, FollowsKept DEF Window
  <2> QED BY <1>0, <2>1, <2>2, <2>3, <2>4, <2>5, <2>6 DEF Window
<1>3. CASE ~InWindow(q)
  BY <1>0, <1>3 DEF InWindow, Window
<1> QED BY <1>2, <1>3

\* An update is of a job that is known.
LEMMA UpdateFresh ==
    ASSUME SerialInv, NEW p \in Procs, Update(p)
    PROVE  Fresh'
<1>0. PICK j \in Jobs : j = upd[p].job
  BY UpdateFrame DEF SerialInv
<1>1. /\ TypeInv /\ Placed(p) /\ Fresh /\ Window(p)
      /\ upd'[p].job = j /\ upd'[p].kind = upd[p].kind /\ upd[p].kind # "none"
      /\ UNCHANGED <<audio, job, todo>>
      /\ \A q \in Procs \ {p} : upd'[q] = upd[q]
      /\ \A q \in Procs : todo[q] \subseteq Jobs /\ job[q] \in Jobs \cup {NoJob}
      /\ \A q \in Procs : upd[q].kind # "none" => upd[q].job \in Jobs
  BY <1>0, UpdateFrame, UpdateAlone DEF SerialInv, TypeInv, TypeOK, Placed
<1>2. \A k \in Jobs : Known(k) => Known(k)'
  BY <1>1, KnownKept
<1>3. \A k \in Jobs : k # j => Known(k)' = Known(k)
  BY <1>0, <1>1, UpdateFrame
<1>4. ASSUME NEW k \in Jobs, audio'[k] = "capture"
      PROVE  ~Known(k)' /\ \A q \in Procs : upd'[q].job # k
  BY <1>0, <1>1, <1>3, <1>4 DEF Fresh
<1>5. upd[p].kind = "new" /\ upd'[p].at # "done" =>
         /\ ~Known(j)' /\ audio[j] = "jobs"
         /\ \A q \in Procs \ {p} : upd[q].job # j
  <2>1. CASE WriteTmp(p)
    <3>1. upd[p].at = "write" /\ json' = json
      BY <1>1, <2>1, UpdatePlaces DEF WriteTmp
    <3> QED BY <1>0, <1>1, <3>1 DEF Fresh, Known, Visible
  <2>2. CASE Rename(p)
    <3>1. upd[p].at = "rename"
      BY <2>2 DEF Rename
    <3>2. upd[p].kind = "new" => upd[p].src = Dest(upd[p])
      BY <1>1 DEF Placed, Dest, NewJob, Terminal, Retryable
    <3>3. upd[p].kind = "new" => upd'[p].at = "done"
      BY <1>0, <1>1, <2>2, <3>2, Publication
    <3> QED BY <3>3
  <2>3. CASE upd[p].at \notin {"write", "rename"}
    BY <1>1, <2>3, UpdateFrame DEF Placed
  <2> QED BY <2>1, <2>2, <2>3 DEF Update, LoadActive, LoadArchive, RemoveArchive, Link, Unlink, Step
<1>6. ASSUME NEW q \in Procs, NEW k \in Jobs, upd'[q].job = k,
             upd'[q].kind = "new", upd'[q].at # "done"
      PROVE  /\ ~Known(k)' /\ audio'[k] = "jobs"
             /\ \A r \in Procs \ {q} : upd'[r].job # k
  <2>1. CASE q = p
    BY <1>1, <1>5, <1>6, <2>1
  <2>2. CASE q # p
    <3>1. ~Known(k) /\ audio[k] = "jobs" /\ \A r \in Procs \ {q} : upd[r].job # k
      BY <1>1, <1>6, <2>2 DEF Fresh
    <3>2. k # j
      BY <1>0, <2>2, <3>1
    <3> QED BY <1>1, <1>3, <2>2, <3>1, <3>2
  <2> QED BY <2>1, <2>2
<1>7. upd[p].kind = "new" /\ upd'[p].at = "done" => Known(j)'
  <2>1. ASSUME upd[p].kind = "new", upd'[p].at = "done"
        PROVE  Known(j)'
    <3>1. Rename(p)
      BY <1>1, <2>1, UpdatePlaces, UpdateFrame DEF Update, Placed
    <3>2. Written(upd[p]) = "active" /\ upd[p].rec \in ProcessingJob
      BY <1>0, <1>1, <2>1, <3>1, Publication DEF Written, Placed
    <3>3. json'["active"][j] # NoRecord
      BY <1>0, <1>1, <3>1, <3>2, Publication, JobQueueAssumption
    <3> QED BY <3>3 DEF Known, Visible
  <2> QED BY <2>1
<1>8. ASSUME NEW q \in Procs, NEW k \in Jobs, upd'[q].job = k, upd'[q].kind # "none",
             upd'[q].kind = "new" => upd'[q].at = "done"
      PROVE  Known(k)'
  <2>1. CASE q = p
    <3>1. CASE upd[p].kind = "new"
      BY <1>1, <1>7, <1>8, <2>1, <3>1
    <3>2. CASE upd[p].kind # "new"
      BY <1>0, <1>1, <1>2, <1>8, <2>1, <3>2 DEF Fresh
    <3> QED BY <3>1, <3>2
  <2>2. CASE q # p
    BY <1>1, <1>2, <1>8, <2>2 DEF Fresh
  <2> QED BY <2>1, <2>2
<1>9. ASSUME NEW q \in Procs, NEW k \in Jobs, k \in todo[q] \/ k = job[q]
      PROVE  Known(k)'
  BY <1>1, <1>2, <1>9, JobQueueAssumption DEF Fresh
<1>10. \A q \in Procs : upd'[q].kind # "none" => upd'[q].job \in Jobs
  BY <1>0, <1>1
<1>11. \A q \in Procs : /\ \A k \in todo'[q] : Known(k)'
                        /\ job[q] # NoJob => job[q] \in Jobs
  BY <1>1, <1>9
<1> QED BY <1>1, <1>4, <1>6, <1>8, <1>9, <1>10, <1>11 DEF Fresh

\* What everyone may assume of the record they see.
LEMMA SeenRecord ==
    ASSUME SerialInv, NEW j \in Jobs, Known(j)
    PROVE  Visible(j) \in ProcessingJob /\ Accounted(j, Visible(j))
<1>1. FileTypes /\ Records /\ "active" \in Dirs /\ "archive" \in Dirs
  BY TypesSplit DEF SerialInv, TypeInv, Dirs
<1>2. CASE json["active"][j] # NoRecord
  BY <1>1, <1>2 DEF Visible, Records, FileTypes
<1>3. CASE json["active"][j] = NoRecord
  <2>1. Visible(j) \in ProcessingJob /\ Visible(j).state \in Terminal
    BY <1>1, <1>3 DEF Visible, Known, Records, FileTypes
  <2> QED BY <2>1 DEF Accounted, Terminal, Retryable, InProgress
<1> QED BY <1>2, <1>3

\* Whose update it is that p has in hand, and what p knows of the record.
LEMMA Updater ==
    ASSUME SerialInv, NEW p \in Procs, NEW j \in Jobs, j = upd[p].job, Early(p)
    PROVE  /\ upd[p].kind \in {"claim", "transcript", "stage", "fail", "review", "complete",
                               "audio"}
                 => p \in Workers /\ InLoop(p) /\ job[p] = j
           /\ upd[p].kind = "claim" => Known(j) /\ Visible(j).state = "Queued"
           /\ upd[p].kind \in {"transcript", "stage", "fail", "review", "complete"}
                 => Known(j) /\ Visible(j).owner = p /\ Visible(j).state \in InProgress
           /\ upd[p].kind = "new" => upd[p].rec = NewJob
<1>0. Placed(p) /\ p \in Workers \cup Clients /\ Workers \cap Clients = {}
  BY JobQueueAssumption DEF SerialInv, TypeInv, Procs
<1>1. upd[p].kind \in {"claim", "transcript", "stage", "fail", "review", "complete", "audio"}
      => p \in Workers /\ InLoop(p) /\ job[p] = j
  BY <1>0 DEF Placed, InLoop
<1>2. p \in Workers => Claimed(p)
  BY DEF SerialInv
<1>3. upd[p].kind = "claim" => Known(j) /\ Visible(j).state = "Queued"
  BY <1>0, <1>1, <1>2 DEF Claimed, Placed
<1>4. upd[p].kind \in {"transcript", "stage", "fail", "review", "complete"} => Holds(p)
  BY <1>0, <1>1, <1>2 DEF Claimed, Placed, WorkingOn
<1>5. upd[p].kind = "new" => upd[p].rec = NewJob
  BY <1>0 DEF Placed
<1> QED BY <1>1, <1>3, <1>4, <1>5 DEF Holds

\* The claims of a record that is published are paid for by its retries, one less
\* while it is in progress.
LEMMA PublishedAccounted ==
    ASSUME SerialInv, NEW p \in Procs, NEW j \in Jobs, j = upd[p].job, Publishes(p, j)
    PROVE  /\ claims'[j] <= MaxAutoRetries + 1
           /\ upd[p].rec.state = "Queued" =>
                 /\ upd[p].rec.owner = NoOwner
                 /\ claims'[j] <= upd[p].rec.retries /\ upd[p].rec.retries <= MaxAutoRetries
           /\ upd[p].rec.state \in InProgress =>
                 /\ upd[p].rec.owner # NoOwner
                 /\ claims'[j] <= upd[p].rec.retries + 1
                 /\ upd[p].rec.retries <= MaxAutoRetries
<1>0. /\ claims[j] \in Nat /\ MaxAutoRetries \in Nat /\ claims[j] <= MaxAutoRetries + 1
      /\ NoOwner \notin Workers
      /\ ~Known(j) => claims[j] = 0
  BY JobRecordAssumption DEF SerialInv, TypeInv, TypeOK, Records
<1>1. Early(p)
  BY DEF Publishes, Rename, Early
<1> DEFINE r == upd[p].rec
           V == Visible(j)
<1>2. \/ upd[p].kind = "new" /\ r = NewJob /\ claims[j] = 0
      \/ /\ upd[p].kind # "new" /\ Known(j) /\ Follows(p, V, r)
         /\ V \in ProcessingJob /\ Accounted(j, V)
  <2>1. CASE upd[p].kind = "new"
    <3>1. r = NewJob
      BY <1>1, <2>1, Updater
    <3>2. ~Known(j)
      BY <2>1 DEF Publishes
    <3> QED BY <1>0, <2>1, <3>1, <3>2
  <2>2. CASE upd[p].kind # "new"
    <3>1. Known(j) /\ Follows(p, V, r)
      BY <2>2 DEF Publishes
    <3>2. V \in ProcessingJob /\ Accounted(j, V)
      BY <3>1, SeenRecord
    <3> QED BY <2>2, <3>1, <3>2
  <2> QED BY <2>1, <2>2
<1>3. claims'[j] = Charged(upd[p], claims[j]) /\ r \in ProcessingJob
  BY DEF Publishes
<1>4. CASE upd[p].kind = "new"
  BY <1>0, <1>2, <1>3, <1>4 DEF NewJob, Charged, InProgress
<1>5. CASE upd[p].kind = "claim"
  <2>1. V.state = "Queued" /\ p \in Workers
    BY <1>1, <1>5, Updater
  <2> QED BY <1>0, <1>2, <1>3, <1>5, <2>1 DEF Follows, Charged, Accounted, ProcessingJob, InProgress
<1>6. CASE upd[p].kind \in {"transcript", "stage", "fail", "review", "complete"}
  <2>1. V.state \in InProgress
    BY <1>1, <1>6, Updater
  <2> QED BY <1>0, <1>2, <1>3, <1>6, <2>1
          DEF Follows, Charged, Accounted, ProcessingJob, InProgress, Terminal, Retryable
<1>7. CASE upd[p].kind \in {"audio", "dismiss"}
  BY <1>0, <1>2, <1>3, <1>7 DEF Follows, Agree, Charged, Accounted, ProcessingJob
<1>8. CASE upd[p].kind = "requeue"
  BY <1>0, <1>2, <1>3, <1>8
     DEF Follows, Agree, Charged, Accounted, ProcessingJob, InProgress
<1>9. CASE upd[p].kind = "recover"
  <2>1. CASE Agree(V, r)
    BY <1>0, <1>2, <1>3, <1>9, <2>1 DEF Agree, Charged, Accounted, ProcessingJob
  <2>2. CASE ~Agree(V, r)
    <3>1. IsStale(V, AliveWorkers)
      BY <1>2, <1>9, <2>2 DEF Follows
    <3>0. V \in ProcessingJob /\ Accounted(j, V)
      BY <1>2, <1>9
    <3>2. V.state \in InProgress
      <4>1. V.state \in JobState
        BY <3>0 DEF ProcessingJob
      <4>2. V.state \notin Terminal /\ V.state # "Queued"
        BY <3>0, <3>1 DEF IsStale, Accounted
      <4> QED BY <4>1, <4>2 DEF JobState
    <3> QED BY <1>0, <1>2, <1>3, <1>9, <2>2, <3>2
            DEF Follows, Charged, Accounted, ProcessingJob, InProgress
  <2> QED BY <2>1, <2>2
<1> HIDE DEF r, V
<1> QED BY <1>2, <1>4, <1>5, <1>6, <1>7, <1>8, <1>9 DEF Follows

\* So every step of an update keeps the records accounted for.
LEMMA UpdateRecords ==
    ASSUME SerialInv, NEW p \in Procs, Update(p)
    PROVE  Records'
<1>0. PICK j \in Jobs : j = upd[p].job
  BY UpdateFrame DEF SerialInv
<1>1. /\ TypeInv /\ Fresh /\ Window(p) /\ Placed(p) /\ Records
      /\ upd[p] \in Slots /\ FileTypes /\ Dirs = {"active", "archive"}
  BY TypesSplit DEF SerialInv, TypeInv, Dirs
<1>2. ASSUME NEW k \in Jobs, k # j
      PROVE  /\ claims'[k] <= MaxAutoRetries + 1
             /\ ~Known(k)' => claims'[k] = 0
             /\ json'["active"][k] # NoRecord => Accounted(k, json["active"][k])'
             /\ json'["archive"][k] # NoRecord => json'["archive"][k].state \in Terminal
  BY <1>0, <1>1, <1>2, UpdateFrame DEF Records, Accounted
<1>3. json'["archive"][j] # NoRecord => json'["archive"][j].state \in Terminal
  <2>1. json["archive"][j] # NoRecord => json["archive"][j].state \in Terminal
    BY <1>1 DEF Records
  <2>2. CASE LoadActive(p) \/ LoadArchive(p) \/ WriteTmp(p)
    BY <2>1, <2>2 DEF LoadActive, LoadArchive, Loaded, WriteTmp
  <2>3. CASE Rename(p)
    BY <1>0, <1>1, <2>1, <2>3, Publication DEF Written, Dest
  <2>4. CASE RemoveArchive(p) \/ Unlink(p)
    BY <1>0, <1>1, <2>1, <2>4 DEF RemoveArchive, Unlink, FileTypes
  <2>5. CASE Link(p)
    <3>1. json["active"][j].state \in Terminal
      BY <1>0, <1>1, <2>5 DEF Link, Window
    <3> QED BY <1>0, <1>1, <2>1, <2>5, <3>1 DEF Link, FileTypes
  <2> QED BY <2>2, <2>3, <2>4, <2>5 DEF Update
<1>4. json'["active"][j] # NoRecord => Accounted(j, json["active"][j])'
  <2>1. ASSUME json'["active"][j] # NoRecord
        PROVE  Accounted(j, json["active"][j])'
    <3>1. json'["active"][j] = Visible(j)'
      BY <2>1 DEF Visible
    <3>2. CASE Visible(j)' = Visible(j) /\ claims' = claims
      <4>1. Accounted(j, Visible(j))
        BY <2>1, <3>1, <3>2, SeenRecord DEF Known
      <4> QED BY <3>1, <3>2, <4>1 DEF Accounted
    <3>3. CASE Publishes(p, j)
      <4>1. json'["active"][j] = upd[p].rec
        BY <3>1, <3>3 DEF Publishes
      <4> QED BY <1>0, <3>3, <4>1, PublishedAccounted DEF Accounted
    <3>4. CASE Retires(p, j)
      <4>1. json'["active"][j].state \in Terminal
        BY <1>1, <3>1, <3>4 DEF Retires, Records
      <4> QED BY <4>1 DEF Accounted, Terminal, Retryable, InProgress
    <3> QED BY <1>0, <1>1, <3>2, <3>3, <3>4, VisibleStep
  <2> QED BY <2>1
<1>5. claims'[j] <= MaxAutoRetries + 1 /\ (~Known(j)' => claims'[j] = 0)
  <2>1. CASE Publishes(p, j)
    <3>1. Known(j)'
      BY <2>1, JobQueueAssumption DEF Publishes, Known
    <3> QED BY <1>0, <2>1, <3>1, PublishedAccounted
  <2>2. CASE claims' = claims
    BY <1>1, <2>2, KnownKept DEF Records
  <2> QED BY <1>0, <1>1, <2>1, <2>2, VisibleStep DEF Retires
<1> QED BY <1>2, <1>3, <1>4, <1>5 DEF Records

\* With no torn update and no disk error, a record is in one directory at a time
\* but for the moves in progress.
LEMMA UpdateFiling ==
    ASSUME SerialInv, Tidy, NEW p \in Procs, Update(p)
    PROVE  Filing'
<1>0. PICK j \in Jobs : j = upd[p].job
  BY UpdateFrame DEF SerialInv
<1>1. /\ TypeInv /\ Window(p) /\ Placed(p) /\ Records /\ Filing /\ Apart /\ Fresh
      /\ upd[p] \in Slots /\ FileTypes /\ Dirs = {"active", "archive"}
      /\ ~DiskErrors
  BY TypesSplit DEF SerialInv, TypeInv, Dirs, Tidy
<1>2. /\ upd'[p].job = j /\ upd'[p].kind = upd[p].kind
      /\ \A q \in Procs \ {p} : upd'[q] = upd[q]
      /\ \A k \in Jobs : k # j => \A d \in Dirs : json'[d][k] = json[d][k]
      /\ InWindow(p) \/ upd[p].at = "load"
  BY <1>0, <1>1, UpdateFrame, UpdateAlone DEF InWindow
<1> DEFINE a == json["active"][j]
           z == json["archive"][j]
           Rests(b, y) == /\ b # NoRecord => y = NoRecord /\ b.state \notin Terminal
                          /\ y # NoRecord => y.state \in Terminal
           Kept(q) == /\ upd[q].at = "link" => json["archive"][upd[q].job] = NoRecord
                      /\ upd[q].at = "unlink" => json["archive"][upd[q].job] = upd[q].rec
<1>3. ASSUME NEW q \in Procs \ {p}, Published(q), UNCHANGED json \/ InWindow(p)
      PROVE  Kept(q)'
  <2>1. Kept(q) /\ upd'[q] = upd[q]
    BY <1>1, <1>2 DEF Filing
  <2>2. CASE UNCHANGED json
    BY <2>1, <2>2
  <2>3. CASE InWindow(p)
    <3>1. upd[q].job # j
      BY <1>0, <1>1, <1>3, <2>3 DEF Apart, Published, InWindow
    <3>2. upd[q].job \in Jobs
      BY <1>1, <1>3 DEF TypeInv, Placed, Published
    <3> QED BY <1>1, <1>2, <2>1, <3>1, <3>2
  <2> QED BY <1>3, <2>2, <2>3
<1>4. InWindow(p) \/ UNCHANGED json
  BY <1>2 DEF Update, LoadActive, LoadArchive, Loaded, WriteTmp, Rename, RemoveArchive, Link,
              Unlink, Step
<1>5. \A q \in Procs \ {p} : Kept(q)'
  <2>1. ASSUME NEW q \in Procs \ {p}, ~Published(q)
        PROVE  Kept(q)'
    <3>1. upd'[q] = upd[q]
      BY <1>2
    <3> QED BY <2>1, <3>1 DEF Published
  <2> QED BY <1>3, <1>4, <2>1
<1>6. ASSUME NEW k \in Jobs, k # j, \A q \in Procs : (upd[q].job # k \/ ~Published(q))'
      PROVE  Rests(json["active"][k], json["archive"][k])'
  <2>1. \A q \in Procs : upd[q].job # k \/ ~Published(q)
    BY <1>0, <1>2, <1>6 DEF Published
  <2>2. Rests(json["active"][k], json["archive"][k])
    BY <1>1, <2>1 DEF Filing, Filed
  <2> QED BY <1>1, <1>2, <1>6, <2>2
\* What the step leaves of p's own job.
<1>7. Kept(p)' /\ (~Published(p)' /\ (Published(p) \/ Rests(a, z)) => Rests(a, z)')
  <2>1. CASE LoadActive(p) \/ LoadArchive(p) \/ WriteTmp(p)
    <3>1. UNCHANGED json /\ ~Published(p) /\ ~Published(p)'
      BY <2>1, <1>1, UpdatePlaces
         DEF LoadActive, LoadArchive, Loaded, WriteTmp, Published, Step
    <3> QED BY <1>2, <3>1 DEF Published
  <2>2. CASE Rename(p)
    <3>1. upd[p].at = "rename" /\ upd[p].src \in Dirs /\ ~Published(p)
      BY <1>1, <2>2 DEF Rename, Slots, Published, Step
    <3>2. /\ upd[p].kind = "new" => a = NoRecord /\ z = NoRecord
          /\ upd[p].kind = "new" => upd[p].src = "active" /\ upd[p].rec = NewJob
          /\ upd[p].kind # "new" /\ upd[p].src = "active" => a # NoRecord
          /\ upd[p].kind # "new" /\ upd[p].src = "archive" => a = NoRecord /\ z # NoRecord
      BY <1>0, <1>1, <3>1 DEF Fresh, Known, Visible, Window, Placed
    <3>3. /\ Written(upd[p]) = "active" => a' = upd[p].rec /\ z' = z
          /\ Written(upd[p]) = "archive" => z' = upd[p].rec /\ a' = a
          /\ upd'[p].rec = upd[p].rec
          /\ \/ upd[p].src = Dest(upd[p]) /\ upd'[p].at = "done"
             \/ upd[p].src = "archive" /\ Dest(upd[p]) = "active" /\ upd'[p].at = "removeArchive"
             \/ upd[p].src = "active" /\ Dest(upd[p]) = "archive" /\ upd'[p].at = "link"
      BY <1>0, <1>1, <2>2, Publication
    <3>4. ASSUME Rests(a, z)
          PROVE  Kept(p)' /\ (~Published(p)' => Rests(a, z)')
      <4>1. CASE upd'[p].at = "done"
        <5>1. upd[p].src = Dest(upd[p])
          BY <3>3, <4>1
        <5>2. CASE upd[p].src = "active"
          <6>1. a' = upd[p].rec /\ z' = z /\ z = NoRecord /\ upd[p].rec.state \notin Terminal
            BY <3>2, <3>3, <3>4, <5>1, <5>2 DEF Written, Dest
          <6> QED BY <4>1, <6>1
        <5>3. CASE upd[p].src = "archive"
          <6>1. a' = a /\ z' = upd[p].rec /\ a = NoRecord /\ upd[p].rec.state \in Terminal
            BY <3>2, <3>3, <5>1, <5>3 DEF Written, Dest
          <6> QED BY <4>1, <6>1
        <5> QED BY <1>1, <3>1, <5>2, <5>3
      <4>2. CASE upd'[p].at = "removeArchive"
        BY <4>2 DEF Published
      <4>3. CASE upd'[p].at = "link"
        <5>1. upd[p].src = "active" /\ z' = z
          BY <3>3, <4>3 DEF Written
        <5>2. z = NoRecord
          BY <3>2, <3>4, <5>1
        <5> QED BY <1>2, <4>3, <5>1, <5>2 DEF Published
      <4> QED BY <3>3, <4>1, <4>2, <4>3
    <3>5. Rests(a, z)
      <4>1. \A q \in Procs : upd[q].job # j \/ ~Published(q)
        BY <1>0, <1>1, <3>1 DEF Apart, InWindow, Published
      <4> QED BY <1>1, <4>1 DEF Filing, Filed
    <3> QED BY <3>1, <3>4, <3>5
  <2>3. CASE RemoveArchive(p)
    <3>1. upd[p].at = "removeArchive" /\ upd'[p].at = "done"
      BY <1>1, <2>3, UpdatePlaces
    <3>2. a = upd[p].rec /\ a.state \notin Terminal
      BY <1>0, <1>1, <3>1 DEF Window
    <3>3. json' = [json EXCEPT !["archive"][j] = NoRecord]
      BY <1>0, <1>1, <2>3 DEF RemoveArchive
    <3>4. a' = a /\ z' = NoRecord
      BY <1>1, <3>3 DEF FileTypes
    <3> QED BY <1>2, <3>1, <3>2, <3>4
  <2>4. CASE Link(p)
    <3>1. upd[p].at = "link" /\ upd'[p].rec = upd[p].rec
      BY <1>1, <2>4, UpdatePlaces
    <3>2. a = upd[p].rec /\ a \in ProcessingJob /\ z = NoRecord
      BY <1>0, <1>1, <3>1 DEF Window, Placed, Filing
    <3>3. json' = [json EXCEPT !["archive"][j] = a] /\ Step(p, "link", "unlink")
      BY <1>0, <1>1, <2>4, <3>2, JobQueueAssumption DEF Link
    <3>4. upd'[p].at = "unlink" /\ z' = a
      BY <1>1, <3>3 DEF FileTypes, Step, Slots, TypeInv, TypeOK
    <3> QED BY <1>2, <3>1, <3>2, <3>4 DEF Published
  <2>5. CASE Unlink(p)
    <3>1. upd[p].at = "unlink" /\ upd'[p].at = "done"
      BY <1>1, <2>5, UpdatePlaces
    <3>2. z = upd[p].rec /\ z.state \in Terminal
      BY <1>0, <1>1, <3>1 DEF Window, Filing
    <3>3. json' = [json EXCEPT !["active"][j] = NoRecord]
      BY <1>0, <1>1, <2>5 DEF Unlink
    <3>4. a' = NoRecord /\ z' = z
      BY <1>1, <3>3 DEF FileTypes
    <3> QED BY <1>2, <3>1, <3>2, <3>4
  <2> QED BY <2>1, <2>2, <2>3, <2>4, <2>5 DEF Update
<1>8. ASSUME \A q \in Procs : (upd[q].job # j \/ ~Published(q))'
      PROVE  Rests(a, z)'
  <2>1. ~Published(p)'
    BY <1>2, <1>8
  <2>2. CASE Published(p)
    BY <1>7, <2>1, <2>2
  <2>3. CASE ~Published(p)
    <3>1. \A q \in Procs : upd[q].job # j \/ ~Published(q)
      BY <1>2, <1>8, <2>3 DEF Published
    <3>2. Rests(a, z)
      BY <1>1, <3>1 DEF Filing, Filed
    <3> QED BY <1>7, <2>1, <3>2
  <2> QED BY <2>2, <2>3
<1>9. ASSUME NEW k \in Jobs, \A q \in Procs : (upd[q].job # k \/ ~Published(q))'
      PROVE  Rests(json["active"][k], json["archive"][k])'
  BY <1>6, <1>8, <1>9
<1>10. Filed'
  BY <1>9 DEF Filed
<1> QED BY <1>5, <1>7, <1>10 DEF Filing

\* A queued record, and the record of a job that worker w owns, are safe from
\* everyone else's updates while w is past the guard.
LEMMA RecordSpared ==
    ASSUME SerialInv, NEW p \in Procs, Update(p),
           NEW w \in Workers \ {p}, InLoop(w), NEW k \in Jobs, Known(k),
           \/ Visible(k).state = "Queued"
           \/ Visible(k).state \in InProgress /\ Visible(k).owner = w
    PROVE  /\ Known(k)'
           /\ Visible(k)'.state = Visible(k).state
           /\ Visible(k)'.owner = Visible(k).owner
<1>0. TypeInv /\ GuardInv /\ Fresh /\ Window(p)
  BY DEF SerialInv
<1>1. CASE k # upd[p].job
  BY <1>0, <1>1, UpdateFrame
<1>2. CASE k = upd[p].job
  <2>1. CASE Visible(k)' = Visible(k)
    BY <1>0, <2>1, KnownKept
  <2>2. CASE Publishes(p, k)
    <3> DEFINE V == Visible(k)
               r == upd[p].rec
    <3>1. Early(p) /\ upd[p].kind # "new" /\ Follows(p, V, r)
      BY <2>2 DEF Publishes, Rename, Early, Step
    <3>2. upd[p].kind \notin {"claim", "transcript", "stage", "fail", "review", "complete"}
      <4>1. ASSUME p \in Workers, InLoop(p)
            PROVE  FALSE
        BY <1>0, <4>1 DEF GuardInv
      <4> QED BY <1>2, <3>1, <4>1, Updater
    <3>3. V.state \notin Retryable
      BY DEF InProgress, Retryable
    <3>4. ~IsStale(V, AliveWorkers)
      <4>1. CASE V.state = "Queued"
        BY <4>1, SeenRecord DEF Accounted, IsStale
      <4>2. CASE V.owner = w
        <5>1. w \in AliveWorkers
          BY DEF AliveWorkers, InLoop
        <5> QED BY <4>2, <5>1 DEF IsStale
      <4> QED BY <4>1, <4>2
    <3>5. Agree(V, r)
      BY <3>1, <3>2, <3>3, <3>4 DEF Follows
    <3>6. Visible(k)' = r /\ r # NoRecord
      BY <2>2, JobQueueAssumption DEF Publishes
    <3> QED BY <3>5, <3>6 DEF Agree, Known
  <2>3. CASE Retires(p, k)
    BY <2>3 DEF Retires, Terminal, Retryable, InProgress
  <2> QED BY <1>0, <1>2, <2>1, <2>2, <2>3, VisibleStep
<1> QED BY <1>1, <1>2

\* So nobody takes a worker's claim away.
LEMMA OthersClaim ==
    ASSUME SerialInv, NEW p \in Procs, Update(p), NEW w \in Workers \ {p}
    PROVE  Claimed(w)'
<1>0. /\ Placed(w) /\ Claimed(w) /\ w \in Procs /\ Spares(w)
  BY UpdateAlone DEF SerialInv, TypeInv, Procs, Alone
<1>1. /\ WorkingOn(w) \/ pc[w] \in {"settle", "claim"} => InLoop(w)
      /\ WorkingOn(w) \/ (pc[w] \in {"settle", "claim"} /\ Early(w)) => job[w] \in Jobs
      /\ pc[w] = "claim" /\ upd[w].at = "done" => job[w] \in Jobs
  BY <1>0 DEF WorkingOn, InLoop, Placed, Early
<1>2. ASSUME InLoop(w), job[w] \in Jobs, Holds(w)
      PROVE  Holds(w)'
  BY <1>0, <1>2, RecordSpared DEF Holds, Spares, Known
<1>3. ASSUME InLoop(w), job[w] \in Jobs, Known(job[w]), Visible(job[w]).state = "Queued"
      PROVE  (Known(job[w]) /\ Visible(job[w]).state = "Queued")'
  BY <1>0, <1>3, RecordSpared DEF Spares, Known
<1> QED BY <1>0, <1>1, <1>2, <1>3 DEF Claimed, Spares, WorkingOn, Early, Published

\* A worker's own updates keep its claim until they settle the job.
LEMMA OwnClaim ==
    ASSUME SerialInv, NEW w \in Workers, Update(w)
    PROVE  Claimed(w)'
<1>0. PICK j \in Jobs : j = upd[w].job
  BY UpdateFrame DEF SerialInv, Procs
<1>1. /\ w \in Procs /\ w \notin Clients
      /\ TypeInv /\ GuardInv /\ Fresh /\ Window(w) /\ Placed(w) /\ Claimed(w) /\ Records
      /\ pc' = pc /\ job' = job /\ after' = after
      /\ upd'[w].kind = upd[w].kind
  BY UpdateAlone, UpdateFrame, JobQueueAssumption DEF SerialInv, TypeInv, Procs
<1>2. /\ Early(w)' => Early(w)
      /\ Rename(w) => ~Early(w)'
      /\ Published(w)' => Published(w) \/ Rename(w)
      /\ upd'[w].at = "done" => Published(w) \/ Rename(w)
  <2>1. CASE LoadActive(w) \/ LoadArchive(w) \/ WriteTmp(w)
    <3>1. Early(w) /\ ~Rename(w)
      BY <2>1 DEF LoadActive, LoadArchive, WriteTmp, Rename, Step, Early
    <3>2. upd'[w].at \in {"write", "loadArchive", "none", "rename", "err"}
      BY <1>1, <2>1, UpdatePlaces
    <3> QED BY <3>1, <3>2 DEF Published
  <2>2. CASE Rename(w)
    <3>1. /\ upd[w].at = "rename"
          /\ upd'[w].at \in {"done", "removeArchive", "link", "err"}
      BY <1>1, <2>2, UpdatePlaces
    <3> QED BY <2>2, <3>1 DEF Early
  <2>3. CASE RemoveArchive(w) \/ Link(w) \/ Unlink(w)
    <3>1. Published(w) /\ ~Rename(w)
      BY <2>3 DEF RemoveArchive, Link, Unlink, Rename, Step, Published
    <3>2. upd'[w].at \in {"done", "unlink"}
      BY <1>1, <2>3, UpdatePlaces
    <3> QED BY <3>1, <3>2 DEF Early
  <2> QED BY <2>1, <2>2, <2>3 DEF Update
<1>3. WorkingOn(w)' <=> WorkingOn(w)
  BY <1>1 DEF WorkingOn
<1>4. CASE job[w] # j
  <2>1. upd[w].kind = "recover" /\ pc[w] = "recover"
    BY <1>0, <1>1, <1>4, UpdateFrame DEF Placed
  <2>2. WorkingOn(w) => job[w] \in Jobs /\ Holds(w)
    BY <1>1 DEF Placed, Claimed
  <2>3. WorkingOn(w) => Holds(w)'
    BY <1>0, <1>1, <1>4, <2>2, UpdateFrame DEF Holds
  <2> QED BY <1>1, <1>3, <2>1, <2>3 DEF Claimed
<1>5. CASE job[w] = j /\ Rename(w)
  <2> DEFINE V == Visible(j)
             r == upd[w].rec
  <2>1. Early(w) /\ Publishes(w, j)
    BY <1>0, <1>1, <1>5, RenamePublishes DEF Early, Rename, Step
  <2>2. Visible(j)' = r /\ r # NoRecord /\ r \in ProcessingJob
    BY <2>1, JobQueueAssumption DEF Publishes
  <2>3. CASE upd[w].kind = "claim"
    <3>1. pc[w] = "claim" /\ Known(j) /\ V.state = "Queued" /\ Follows(w, V, r)
      BY <1>0, <1>1, <2>1, <2>3, Updater DEF Placed, Publishes
    <3>2. r.owner = w /\ r.state = "Transcribing"
      BY <2>3, <3>1 DEF Follows
    <3>3. Holds(w)'
      BY <1>1, <1>5, <2>2, <3>2 DEF Holds, Known, InProgress
    <3>4. upd[w].src = "active"
      <4>1. json["active"][j] # NoRecord
        BY <1>1, <3>1 DEF Records, Visible, Known, Terminal, Retryable
      <4>2. upd[w].src \in {"active", "archive"} /\ upd[w].at = "rename"
        BY <1>1, <1>5, TypesSplit DEF TypeInv, Slots, Dirs, Rename, Step
      <4> QED BY <1>0, <2>3, <4>1, <4>2, <1>1 DEF Window
    <3>5. upd'[w].at = "done"
      BY <1>0, <1>1, <1>5, <3>2, <3>4, Publication DEF Dest, Terminal, Retryable
    <3> QED BY <1>1, <3>1, <3>3, <3>5 DEF Claimed, WorkingOn, Early, Published
  <2>4. CASE upd[w].kind \in {"transcript", "stage"}
    <3>1. WorkingOn(w) /\ pc[w] \notin {"settle", "claim"}
      BY <1>1, <2>4 DEF Placed, WorkingOn
    <3>2. Follows(w, V, r) /\ V.owner = w
      <4>1. Follows(w, V, r)
        BY <2>1, <2>4 DEF Publishes
      <4>2. V.owner = w
        BY <1>0, <1>1, <2>1, <2>4, Updater
      <4> QED BY <4>1, <4>2
    <3>3. Holds(w)'
      BY <1>1, <1>5, <2>2, <2>4, <3>2 DEF Follows, Holds, Known
    <3> QED BY <1>1, <3>1, <3>3 DEF Claimed
  <2>5. CASE upd[w].kind = "recover"
    <3>1. pc[w] = "recover" /\ Follows(w, V, r) /\ Known(j)
      BY <1>1, <2>1, <2>5 DEF Placed, Publishes
    <3>2. ASSUME WorkingOn(w)
          PROVE  Holds(w)'
      <4>1. V.owner = w /\ V.state \in InProgress
        BY <1>1, <1>5, <3>2 DEF Claimed, Holds
      <4>2. ~IsStale(V, AliveWorkers)
        BY <3>1, <4>1 DEF IsStale, AliveWorkers
      <4>3. Agree(V, r)
        BY <2>5, <3>1, <4>2 DEF Follows
      <4> QED BY <1>1, <1>5, <2>2, <4>1, <4>3 DEF Agree, Holds, Known
    <3> QED BY <1>1, <1>3, <3>1, <3>2 DEF Claimed
  <2>6. CASE upd[w].kind \in {"fail", "review", "complete", "audio", "new", "requeue", "dismiss"}
    <3>1. pc[w] \in {"settle", "preserve"}
      BY <1>1, <2>6 DEF Placed
    <3> QED BY <1>1, <1>2, <1>5, <3>1 DEF Claimed, WorkingOn
  <2> QED BY <1>1, <2>3, <2>4, <2>5, <2>6, TypesSplit, UpdateFrame DEF TypeInv, Slots
<1>6. CASE job[w] = j /\ ~Rename(w)
  <2>1. ~Publishes(w, j)
    BY <1>6 DEF Publishes
  <2>2. CASE Visible(j)' = Visible(j)
    <3>1. Visible(job[w])' = Visible(job[w]) /\ Known(job[w])' = Known(job[w])
      BY <1>1, <1>6, <2>2 DEF Known
    <3>2. Holds(w)' <=> Holds(w)
      BY <1>1, <3>1 DEF Holds
    <3> QED BY <1>1, <1>2, <1>3, <1>6, <3>1, <3>2 DEF Claimed
  <2>3. CASE Retires(w, j)
    <3>1. Visible(j).state \notin InProgress /\ Published(w) /\ ~Early(w)
      BY <2>3 DEF Retires, Unlink, Step, Published, Early, Terminal, Retryable, InProgress
    <3>2. ~Holds(w)
      BY <1>6, <3>1 DEF Holds
    <3> QED BY <1>1, <1>2, <1>3, <3>1, <3>2 DEF Claimed
  <2> QED BY <1>0, <1>1, <2>1, <2>2, <2>3, VisibleStep
<1> QED BY <1>4, <1>5, <1>6

\* An update keeps everything that holds.
LEMMA UpdateSerial ==
    ASSUME SerialInv, Serial, NEW p \in Procs, Update(p)
    PROVE  SerialInv'
<1>1. TypeInv' /\ GuardInv'
  BY UpdateTypes, GuardInvNext DEF SerialInv, Next
<1>2. Apart' /\ Fresh' /\ Records'
  BY UpdateApart, UpdateFresh, UpdateRecords DEF SerialInv, Serial
<1>3. \A q \in Procs : Window(q)'
  BY OwnWindow, OtherWindow
<1>4. \A w \in Workers : Claimed(w)'
  BY OwnClaim, OthersClaim
<1>5. Tidy => Filing'
  BY UpdateFiling
<1> QED BY <1>1, <1>2, <1>3, <1>4, <1>5 DEF SerialInv, Tidy, Serial

\* Every step keeps the invariant.
LEMMA SerialInvNext ==
    ASSUME Serial, SerialInv, [Next]_vars
    PROVE  SerialInv'
<1>0. TypeInv' /\ GuardInv' /\ TypeInv /\ Fresh /\ \A w \in Workers : Claimed(w)
  BY TypeInvNext, GuardInvNext DEF SerialInv
<1>1. ASSUME NEW p \in Procs, Control(p), \A w \in Workers : Claimed(w)'
      PROVE  SerialInv'
  BY <1>0, <1>1, ControlSerial
<1>2. ASSUME NEW p \in Procs, Update(p)
      PROVE  SerialInv'
  BY <1>2, UpdateSerial
<1>3. ASSUME NEW p \in Procs, NEW w \in Workers, Control(p), Spares(w)
      PROVE  Claimed(w)'
  <2>1. Visible(job[w])' = Visible(job[w])
    BY <1>3 DEF Control, Spares, Visible
  <2> QED BY <1>0, <1>3, <2>1, SparedClaim
<1>4. ASSUME NEW p \in Procs, ListJobs(p)
      PROVE  SerialInv'
  <2>1. Control(p) /\ Alone(p)
    BY <1>0, <1>4, ListControl, ListTypes
  <2>2. \A w \in Workers : Claimed(w)'
    BY <1>0, <1>3, <1>4, <2>1, WorkerClaim DEF Alone, Procs
  <2> QED BY <1>1, <2>1, <2>2
<1>5. ASSUME NEW v \in Workers, Worker(v)
      PROVE  SerialInv'
  <2>1. Control(v) /\ Alone(v) /\ v \in Procs
    BY <1>0, <1>5, WorkerControl, WorkerTypes DEF Procs
  <2>2. \A w \in Workers : Claimed(w)'
    BY <1>0, <1>3, <1>5, <2>1, WorkerClaim DEF Alone, Procs
  <2> QED BY <1>1, <2>1, <2>2
<1>6. ASSUME NEW c \in Clients, Request(c) \/ Client(c) \/ LaunchApp(c)
      PROVE  SerialInv'
  <2>1. Control(c) /\ c \in Procs
    BY <1>0, <1>6, ClientControl DEF Procs
  <2>2. ASSUME NEW w \in Workers
        PROVE  Claimed(w)'
    <3>1. CASE Spares(w)
      BY <1>3, <2>1, <3>1
    <3>2. CASE pc'[w] = "starting"
      BY <3>2 DEF Claimed, WorkingOn
    <3> QED BY <1>0, <1>6, <3>1, <3>2, ClientSpares
  <2> QED BY <1>1, <2>1, <2>2
<1>7. ASSUME NEW p \in Procs, \/ p \in Workers /\ CrashWorker(p)
                              \/ p \in Clients /\ CrashClient(p)
      PROVE  SerialInv'
  <2>1. Control(p) /\ Alone(p)
    BY <1>0, <1>7, CrashControl, CrashTypes
  <2>2. ASSUME NEW w \in Workers
        PROVE  Claimed(w)'
    <3>1. CASE w # p
      BY <1>3, <2>1, <3>1 DEF Alone, Procs
    <3>2. CASE w = p
      <4>1. pc'[w] = "off"
        BY <1>0, <1>7, <3>2, JobQueueAssumption DEF CrashWorker, Goto, TypeInv, TypeOK
      <4> QED BY <4>1 DEF Claimed, WorkingOn
    <3> QED BY <3>1, <3>2
  <2> QED BY <1>1, <2>1, <2>2
<1>8. CASE UNCHANGED vars
  <2> USE <1>8 DEF vars
  <2>1. Apart'
    BY <1>0 DEF SerialInv, Apart, InWindow
  <2>2. \A p \in Procs : Window(p)'
    <3>1. AliveWorkers' = AliveWorkers
      BY DEF AliveWorkers
    <3>2. \A p \in Procs : \A V, r : Follows(p, V, r)' <=> Follows(p, V, r)
      BY <3>1 DEF Follows
    <3>3. \A p \in Procs : Visible(upd[p].job)' = Visible(upd[p].job)
      BY DEF Visible
    <3>4. ASSUME NEW p \in Procs, NEW V, NEW r, V = Visible(upd[p].job), r = upd[p].rec
          PROVE  Window(p)'
      <4>1. Window(p)
        BY DEF SerialInv
      <4>2. V = Visible(upd[p].job)' /\ r = upd'[p].rec
        BY <3>3, <3>4
      <4>3. Follows(p, V, r)' <=> Follows(p, V, r)
        BY <3>2
      <4> QED BY <3>4, <4>1, <4>2, <4>3 DEF Window
    <3> QED BY <3>4
  <2>3. Fresh' /\ Records'
    BY DEF SerialInv, Fresh, Records, Accounted, Known, Visible
  <2>4. \A w \in Workers : Claimed(w)'
    BY DEF SerialInv, Claimed, WorkingOn, Holds, Known, Visible, Early, Published
  <2>5. Tidy => Filing'
    BY DEF SerialInv, Filing, Filed, Published
  <2> QED BY <1>0, <2>1, <2>2, <2>3, <2>4, <2>5 DEF SerialInv, Tidy, Serial
<1> QED BY <1>2, <1>4, <1>5, <1>6, <1>7, <1>8 DEF Next, Procs

-----------------------------------------------------------------------------
(* What the users of the queue may rely on while the updates of one job do  *)
(* not overlap.                                                             *)

\* So it holds always.
LEMMA SerialSafe == ASSUME Serial PROVE Spec => []SerialInv
BY SerialInvInit, SerialInvNext, PTL DEF Spec

\* A job that crashes its workers is attempted MaxAutoRetries + 1 times at most
\* before the user looks at it, in spite of torn updates and failing disks: every
\* claim is paid for by a retry that list_jobs charged to the record.
THEOREM CrashesBounded == ASSUME Serial PROVE Spec => []CrashLoopBounded
<1>1. SerialInv => CrashLoopBounded
  BY DEF SerialInv, Records, CrashLoopBounded
<1> QED BY SerialSafe, <1>1, PTL

\* No update leaves a record in progress that names no owner, which nobody would
\* ever recover, claim or retry.
THEOREM ProgressOwned == ASSUME Serial PROVE Spec => []NoOrphanedProgress
<1>1. ASSUME SerialInv, NEW j \in Jobs, VisibleState(j) \in InProgress
      PROVE  Visible(j).owner # NoOwner
  <2>1. Known(j) /\ Visible(j).state \in InProgress
    BY <1>1 DEF VisibleState, Known, InProgress
  <2> QED BY <1>1, <2>1, SeenRecord DEF Accounted
<1>2. SerialInv => NoOrphanedProgress
  BY <1>1 DEF NoOrphanedProgress
<1> QED BY SerialSafe, <1>2, PTL

\* Whatever list_jobs, requeue_job and dismiss_job_notice do elsewhere, a worker
\* finds its claim in the record for as long as it works on the job.
THEOREM ClaimsKept == ASSUME Serial PROVE Spec => []LiveClaimKept
<1>1. SerialInv => LiveClaimKept
  BY DEF SerialInv, Claimed, Holds, Known, LiveClaimKept
<1> QED BY SerialSafe, <1>1, PTL

\* A control step leaves the record of every job where it is.
LEMMA KnownStep ==
    ASSUME SerialInv, [Next]_vars, NEW j \in Jobs, Known(j)
    PROVE  Known(j)'
<1>0. TypeInv /\ Fresh /\ \A p \in Procs : Window(p)
  BY DEF SerialInv
<1>1. CASE \E p \in Procs : Update(p)
  BY <1>0, <1>1, KnownKept
<1>2. CASE \E p \in Procs : Control(p)
  BY <1>2 DEF Control, Known, Visible
<1>3. CASE UNCHANGED vars
  BY <1>3 DEF vars, Known, Visible
<1> QED BY <1>0, <1>1, <1>2, <1>3, ListControl, WorkerControl, ClientControl, CrashControl
        DEF Next, Procs

\* A submitted job is never lost: no step of anyone leaves it without a readable
\* record, wherever processes die on its way between jobs/ and jobs/archive/.
THEOREM RecordsKept == ASSUME Serial PROVE Spec => RecordKept
<1>1. ASSUME SerialInv, [Next]_vars
      PROVE  [\A j \in Jobs : Visible(j) # NoRecord => Visible(j)' # NoRecord]_vars
  BY <1>1, KnownStep DEF Known
<1> QED BY SerialSafe, <1>1, PTL DEF Spec, RecordKept

\* Between updates, jobs/ holds the records that are not terminal, the archive
\* those that are, and no job is in both.
THEOREM RecordsFiled == ASSUME Tidy PROVE Spec => []Filed
<1>1. SerialInv => Filed
  BY DEF SerialInv, Filing
<1>2. Serial
  BY DEF Tidy
<1> QED BY SerialSafe, <1>1, <1>2, PTL

-----------------------------------------------------------------------------
(* The queue implements the abstract life of its jobs. *)

\* What JobLifecycle sees of a record: none, or its state and its retries.
StatusOf(s) ==
    CASE s = "none"        -> "none"
      [] s = "Queued"      -> "queued"
      [] s \in InProgress  -> "running"
      [] s \in Retryable   -> "retryable"
      [] s = "Complete"    -> "complete"
StateIn(r)   == IF r = NoRecord THEN "none" ELSE r.state
RetriesIn(r) == IF r = NoRecord THEN 0 ELSE r.retries

\* The status that the lifecycle gives to each state.
LEMMA Statuses ==
    /\ StatusOf("none") = "none" /\ StatusOf("Queued") = "queued"
    /\ StatusOf("Complete") = "complete"
    /\ \A s \in InProgress : StatusOf(s) = "running"
    /\ \A s \in Retryable : StatusOf(s) = "retryable"
BY DEF StatusOf, InProgress, Retryable

\* The abstract variables are functions of what a reader sees.
LEMMA LifecycleView ==
    /\ LifecycleStatus = [j \in Jobs |-> StatusOf(StateIn(Visible(j)))]
    /\ LifecycleRetries = [j \in Jobs |-> RetriesIn(Visible(j))]
    /\ LifecycleStatus' = [j \in Jobs |-> StatusOf(StateIn(Visible(j)'))]
    /\ LifecycleRetries' = [j \in Jobs |-> RetriesIn(Visible(j)')]
BY DEF LifecycleStatus, LifecycleRetries, VisibleState, StatusOf, StateIn, RetriesIn

\* When only the record V of job j becomes r, only j's abstract job moves.
LEMMA OneMoves ==
    ASSUME NEW j \in Jobs, NEW V, NEW r, V = Visible(j), r = Visible(j)',
           \A k \in Jobs \ {j} : Visible(k)' = Visible(k)
    PROVE  /\ LifecycleStatus[j] = StatusOf(StateIn(V))
           /\ LifecycleRetries[j] = RetriesIn(V)
           /\ LifecycleStatus' = [LifecycleStatus EXCEPT ![j] = StatusOf(StateIn(r))]
           /\ LifecycleRetries' = [LifecycleRetries EXCEPT ![j] = RetriesIn(r)]
           /\ StatusOf(StateIn(r)) = StatusOf(StateIn(V)) => LifecycleStatus' = LifecycleStatus
           /\ RetriesIn(r) = RetriesIn(V) => LifecycleRetries' = LifecycleRetries
<1>1. \A k \in Jobs \ {j} : /\ StatusOf(StateIn(Visible(k)')) = StatusOf(StateIn(Visible(k)))
                            /\ RetriesIn(Visible(k)') = RetriesIn(Visible(k))
  OBVIOUS
<1>2. /\ StatusOf(StateIn(Visible(j))) = StatusOf(StateIn(V))
      /\ RetriesIn(Visible(j)) = RetriesIn(V)
      /\ StatusOf(StateIn(Visible(j)')) = StatusOf(StateIn(r))
      /\ RetriesIn(Visible(j)') = RetriesIn(r)
  OBVIOUS
<1> QED BY <1>1, <1>2, LifecycleView

\* A record that is published is a move of the abstract job.
LEMMA PublicationMoves ==
    ASSUME SerialInv, NEW p \in Procs, Update(p), NEW j \in Jobs, j = upd[p].job,
           Publishes(p, j)
    PROVE  [Lifecycle!Next]_(Lifecycle!vars)
<1> DEFINE V == Visible(j)
           r == upd[p].rec
<1>0. /\ Early(p) /\ TypeInv /\ r \in ProcessingJob /\ r # NoRecord /\ Visible(j)' = r
      /\ upd[p] \in Slots
  BY TypesSplit, JobQueueAssumption DEF Publishes, Rename, Step, Early, SerialInv, TypeInv
<1>1. \A k \in Jobs \ {j} : Visible(k)' = Visible(k)
  BY <1>0, UpdateFrame
<1>2. /\ LifecycleStatus[j] = StatusOf(StateIn(V))
      /\ LifecycleRetries[j] = RetriesIn(V)
      /\ LifecycleStatus' = [LifecycleStatus EXCEPT ![j] = StatusOf(r.state)]
      /\ LifecycleRetries' = [LifecycleRetries EXCEPT ![j] = r.retries]
      /\ StatusOf(r.state) = StatusOf(StateIn(V)) => LifecycleStatus' = LifecycleStatus
      /\ r.retries = RetriesIn(V) => LifecycleRetries' = LifecycleRetries
  <2>1. StateIn(r) = r.state /\ RetriesIn(r) = r.retries
    BY <1>0 DEF StateIn, RetriesIn
  <2> QED BY <1>0, <1>1, <2>1, OneMoves
<1> DEFINE Moves(from, to) == /\ LifecycleStatus[j] = from
                              /\ LifecycleStatus' = [LifecycleStatus EXCEPT ![j] = to]
<1> HIDE DEF V, r
<1>3. CASE upd[p].kind = "new"
  <2>1. V = NoRecord /\ r = NewJob
    BY <1>0, <1>3, Updater DEF Publishes, Known, V, r
  <2>2. StateIn(V) = "none" /\ RetriesIn(V) = 0 /\ r.state = "Queued" /\ r.retries = 0
    BY <2>1 DEF StateIn, RetriesIn, NewJob
  <2>3. Moves("none", "queued") /\ UNCHANGED LifecycleRetries
    BY <1>2, <2>2, Statuses
  <2>4. Lifecycle!Submit(j)
    BY <2>3 DEF Lifecycle!Submit, Lifecycle!Move
  <2> QED BY <2>4 DEF Lifecycle!Next
<1>4. CASE upd[p].kind # "new"
  <2>1. Known(j) /\ Follows(p, V, r)
    BY <1>4 DEF Publishes, V, r
  <2>2. /\ V \in ProcessingJob /\ Accounted(j, V) /\ V # NoRecord
        /\ StateIn(V) = V.state /\ RetriesIn(V) = V.retries
        /\ V.state \in JobState /\ V.retries \in Nat /\ MaxAutoRetries \in Nat
    <3>1. V \in ProcessingJob /\ Accounted(j, V) /\ V # NoRecord
      BY <2>1, SeenRecord, JobQueueAssumption DEF V
    <3> QED BY <3>1, JobRecordAssumption DEF StateIn, RetriesIn, ProcessingJob
  <2>3. ASSUME Agree(V, r)
        PROVE  UNCHANGED <<LifecycleStatus, LifecycleRetries>>
    BY <1>2, <2>2, <2>3 DEF Agree
  <2>4. CASE upd[p].kind = "claim"
    <3>1. V.state = "Queued"
      BY <1>0, <2>4, Updater DEF V
    <3>2. r.state \in InProgress /\ r.retries = V.retries
      BY <2>1, <2>4 DEF Follows, InProgress
    <3>3. Moves("queued", "running") /\ UNCHANGED LifecycleRetries
      BY <1>2, <2>2, <3>1, <3>2, Statuses
    <3>4. Lifecycle!Start(j)
      BY <3>3 DEF Lifecycle!Start, Lifecycle!Move
    <3> QED BY <3>4 DEF Lifecycle!Next
  <2>5. CASE upd[p].kind \in {"transcript", "stage"}
    <3>1. V.state \in InProgress
      BY <1>0, <2>5, Updater DEF V
    <3>2. r.state \in InProgress /\ r.retries = V.retries
      BY <2>1, <2>5 DEF Follows
    <3>3. UNCHANGED <<LifecycleStatus, LifecycleRetries>>
      BY <1>2, <2>2, <3>1, <3>2, Statuses
    <3> QED BY <3>3 DEF Lifecycle!vars
  <2>6. CASE upd[p].kind \in {"fail", "review", "complete"}
    <3>1. V.state \in InProgress
      BY <1>0, <2>6, Updater DEF V
    <3>2. /\ r.state \in Terminal /\ (r.state = "Complete" <=> upd[p].kind = "complete")
          /\ r.retries = V.retries
      BY <2>1, <2>6 DEF Follows
    <3>3. CASE r.state = "Complete"
      <4>1. Moves("running", "complete") /\ UNCHANGED LifecycleRetries
        BY <1>2, <2>2, <3>1, <3>2, <3>3, Statuses
      <4>2. Lifecycle!Complete(j)
        BY <4>1 DEF Lifecycle!Complete, Lifecycle!Move
      <4> QED BY <4>2 DEF Lifecycle!Next
    <3>4. CASE r.state \in Retryable
      <4>1. Moves("running", "retryable") /\ UNCHANGED LifecycleRetries
        BY <1>2, <2>2, <3>1, <3>2, <3>4, Statuses
      <4>2. Lifecycle!Fail(j)
        BY <4>1 DEF Lifecycle!Fail, Lifecycle!Move
      <4> QED BY <4>2 DEF Lifecycle!Next
    <3> QED BY <3>2, <3>3, <3>4 DEF Terminal
  <2>7. CASE upd[p].kind \in {"audio", "dismiss"}
    <3>1. Agree(V, r)
      BY <2>1, <2>7 DEF Follows
    <3> QED BY <2>3, <3>1 DEF Lifecycle!vars
  <2>8. CASE upd[p].kind = "requeue"
    <3>1. CASE Agree(V, r)
      BY <2>3, <3>1 DEF Lifecycle!vars
    <3>2. CASE ~Agree(V, r)
      <4>1. V.state \in Retryable /\ r.state = "Queued" /\ r.retries = 0
        BY <2>1, <2>8, <3>2 DEF Follows
      <4>2. Moves("retryable", "queued")
        BY <1>2, <2>2, <4>1, Statuses
      <4>3. Lifecycle!Retry(j)
        BY <1>2, <4>1, <4>2 DEF Lifecycle!Retry, Lifecycle!Move
      <4> QED BY <4>3 DEF Lifecycle!Next
    <3> QED BY <3>1, <3>2
  <2>9. CASE upd[p].kind = "recover"
    <3>1. CASE Agree(V, r)
      BY <2>3, <3>1 DEF Lifecycle!vars
    <3>2. CASE ~Agree(V, r)
      <4>1. /\ IsStale(V, AliveWorkers) /\ r.retries = V.retries + 1
            /\ r.state = IF V.retries + 1 > MaxAutoRetries THEN "Failed" ELSE "Queued"
        BY <2>1, <2>9, <3>2 DEF Follows
      <4>2. V.state \in InProgress
        <5>1. V.state \notin Terminal /\ V.state # "Queued"
          BY <2>2, <4>1 DEF IsStale, Accounted
        <5> QED BY <2>2, <5>1 DEF JobState
      <4>3. LifecycleRetries[j] = V.retries
        BY <1>2, <2>2
      <4>4. StatusOf(r.state) = IF V.retries < MaxAutoRetries THEN "queued" ELSE "retryable"
        <5>1. CASE V.retries < MaxAutoRetries
          <6>1. r.state = "Queued"
            BY <2>2, <4>1, <5>1
          <6> QED BY <5>1, <6>1, Statuses
        <5>2. CASE ~(V.retries < MaxAutoRetries)
          <6>1. r.state = "Failed"
            BY <2>2, <4>1, <5>2
          <6> QED BY <5>2, <6>1, Statuses DEF Retryable
        <5> QED BY <5>1, <5>2
      <4>5. Moves("running", IF LifecycleRetries[j] < MaxAutoRetries THEN "queued"
                             ELSE "retryable")
        BY <1>2, <2>2, <4>2, <4>3, <4>4, Statuses
      <4>6. LifecycleRetries' = [LifecycleRetries EXCEPT ![j] = LifecycleRetries[j] + 1]
        BY <1>2, <4>1, <4>3
      <4>7. Lifecycle!Crash(j)
        BY <4>5, <4>6 DEF Lifecycle!Crash, Lifecycle!Move
      <4> QED BY <4>7 DEF Lifecycle!Next
    <3> QED BY <3>1, <3>2
  <2> QED BY <1>0, <1>4, <2>4, <2>5, <2>6, <2>7, <2>8, <2>9, UpdateFrame DEF Slots
<1> QED BY <1>3, <1>4

\* Every step is one of the lifecycle or leaves it as it was.
LEMMA LifecycleStep ==
    ASSUME Tidy, SerialInv, [Next]_vars
    PROVE  [Lifecycle!Next]_(Lifecycle!vars)
<1>0. TypeInv /\ Fresh /\ \A p \in Procs : Window(p)
  BY DEF SerialInv
<1>1. ASSUME \A j \in Jobs : Visible(j)' = Visible(j)
      PROVE  UNCHANGED <<LifecycleStatus, LifecycleRetries>>
  BY <1>1, LifecycleView
<1>2. ASSUME NEW p \in Procs, Update(p)
      PROVE  [Lifecycle!Next]_(Lifecycle!vars)
  <2>0. PICK j \in Jobs : j = upd[p].job
    BY <1>0, <1>2, UpdateFrame
  <2>1. \A k \in Jobs \ {j} : Visible(k)' = Visible(k)
    BY <1>0, <1>2, <2>0, UpdateFrame
  <2>2. CASE Visible(j)' = Visible(j)
    BY <1>1, <2>1, <2>2 DEF Lifecycle!vars
  <2>3. CASE Publishes(p, j)
    BY <1>2, <2>0, <2>3, PublicationMoves
  <2>4. CASE Retires(p, j)
    <3>1. json["archive"][j] = upd[p].rec
      BY <2>0, <2>4 DEF SerialInv, Filing, Retires, Unlink, Step
    <3>2. Visible(j)' = Visible(j)
      BY <2>4, <3>1 DEF Retires
    <3> QED BY <1>1, <2>1, <3>2 DEF Lifecycle!vars
  <2> QED BY <1>0, <1>2, <2>0, <2>2, <2>3, <2>4, VisibleStep
<1>3. CASE \E p \in Procs : Control(p)
  <2>1. \A j \in Jobs : Visible(j)' = Visible(j)
    BY <1>3 DEF Control, Visible
  <2> QED BY <1>1, <2>1 DEF Lifecycle!vars
<1>4. CASE UNCHANGED vars
  <2>1. \A j \in Jobs : Visible(j)' = Visible(j)
    BY <1>4 DEF vars, Visible
  <2> QED BY <1>1, <2>1 DEF Lifecycle!vars
<1> QED BY <1>0, <1>2, <1>3, <1>4, ListControl, WorkerControl, ClientControl, CrashControl
        DEF Next, Procs

\* As its callers see it, the queue is the abstract life of each job: every
\* rewriting of a record by anyone, and every move between the directories, is
\* one step of that life or none.
THEOREM Implementation == ASSUME Tidy PROVE Spec => ImplementsLifecycle
<1>0. Serial
  BY DEF Tidy
<1>1. Init => Lifecycle!Init
  <2> SUFFICES ASSUME Init PROVE Lifecycle!Init
    OBVIOUS
  <2>1. \A j \in Jobs : Visible(j) = NoRecord
    BY DEF Init, Visible, Dirs
  <2>2. \A j \in Jobs : StateIn(Visible(j)) = "none" /\ RetriesIn(Visible(j)) = 0
    BY <2>1 DEF StateIn, RetriesIn
  <2> QED BY <2>2, LifecycleView, Statuses DEF Lifecycle!Init
<1>2. SerialInv /\ [Next]_vars => [Lifecycle!Next]_(Lifecycle!vars)
  BY LifecycleStep
<1> QED BY <1>0, <1>1, <1>2, SerialSafe, PTL DEF Spec, ImplementsLifecycle, Lifecycle!Spec

-----------------------------------------------------------------------------
(* The audio of a job is moved away only once its record is Complete. *)

\* Job j's record and its audio agree while the job may still be processed.
Sound(j) ==
    Known(j) /\ Visible(j).state # "Complete" => audio[j] = "jobs" /\ Visible(j).audio = "jobs"

\* An update that moves the audio, or after which it will be moved, finds a
\* Complete record.
Completed(p) ==
    \/ upd[p].kind = "audio"
    \/ upd[p].kind = "complete" /\ (Published(p) \/ upd[p].at = "done")
    => Known(upd[p].job) /\ Visible(upd[p].job).state = "Complete"

AudioInv == /\ \A j \in Jobs : Sound(j)
            /\ \A p \in Procs : Completed(p)

\* There is no audio to lose at first.
LEMMA AudioInvInit == Init => AudioInv
<1> SUFFICES ASSUME Init PROVE AudioInv
  OBVIOUS
<1>1. \A j \in Jobs : ~Known(j)
  BY DEF Init, Known, Visible, Dirs
<1>2. \A p \in Procs : upd[p].kind = "none"
  BY DEF Init, NoUpdate
<1> QED BY <1>1, <1>2 DEF AudioInv, Sound, Completed

\* Once published as Complete, a record stays so.
LEMMA CompleteKept ==
    ASSUME Tidy, SerialInv, AudioInv, NEW p \in Procs, Update(p), NEW k \in Jobs,
           Known(k), Visible(k).state = "Complete"
    PROVE  Known(k)' /\ Visible(k)'.state = "Complete"
<1>0. TypeInv /\ Fresh /\ Window(p)
  BY DEF SerialInv
<1>1. CASE k # upd[p].job
  BY <1>0, <1>1, UpdateFrame
<1>2. CASE k = upd[p].job /\ Publishes(p, k)
  <2> DEFINE V == Visible(k)
             r == upd[p].rec
  <2>1. Follows(p, V, r) /\ upd[p].kind # "new" /\ Early(p)
    BY <1>2 DEF Publishes, Rename, Step, Early
  <2>2. V.state = "Complete" /\ V.state \notin InProgress /\ V.state \notin Retryable
    BY DEF InProgress, Retryable
  <2>3. ~IsStale(V, AliveWorkers)
    BY <2>2 DEF IsStale, Terminal
  <2>4. upd[p].kind \notin {"claim", "transcript", "stage", "fail", "review", "complete"}
    BY <1>2, <2>1, <2>2, Updater
  <2>5. Agree(V, r)
    BY <2>1, <2>2, <2>3, <2>4 DEF Follows
  <2>6. Visible(k)' = r /\ r # NoRecord
    BY <1>2, JobQueueAssumption DEF Publishes
  <2> QED BY <2>2, <2>5, <2>6 DEF Agree, Known
<1>3. CASE k = upd[p].job /\ ~Publishes(p, k)
  <2>1. Retires(p, k) => Visible(k)' = Visible(k)
    BY <1>3 DEF SerialInv, Filing, Retires, Unlink, Step
  <2>2. Visible(k)' = Visible(k)
    BY <1>0, <1>3, <2>1, VisibleStep
  <2> QED BY <2>2 DEF Known
<1> QED BY <1>1, <1>2, <1>3

\* An update moves no audio, and makes a job retryable only where its audio is.
LEMMA UpdateAudio ==
    ASSUME Tidy, SerialInv, AudioInv, NEW p \in Procs, Update(p)
    PROVE  AudioInv'
<1>0. PICK j \in Jobs : j = upd[p].job
  BY UpdateFrame DEF SerialInv
<1>1. /\ TypeInv /\ Fresh /\ Window(p) /\ Placed(p)
      /\ audio' = audio /\ \A q \in Procs \ {p} : upd'[q] = upd[q]
      /\ upd'[p].job = j /\ upd'[p].kind = upd[p].kind
  BY <1>0, UpdateAlone, UpdateFrame DEF SerialInv, TypeInv
<1>2. ASSUME NEW k \in Jobs, Visible(k)' = Visible(k)
      PROVE  Sound(k)'
  BY <1>1, <1>2 DEF AudioInv, Sound, Known
<1>3. ASSUME Publishes(p, j)
      PROVE  Sound(j)'
  <2> DEFINE V == Visible(j)
             r == upd[p].rec
  <2>1. Early(p) /\ Visible(j)' = r
    BY <1>3 DEF Publishes, Rename, Step, Early
  <2>2. SUFFICES ASSUME r.state # "Complete"
                 PROVE  audio[j] = "jobs" /\ r.audio = "jobs"
    BY <1>1, <2>1 DEF Sound
  <2>3. CASE upd[p].kind = "new"
    <3>1. audio[j] = "jobs"
      BY <1>0, <1>1, <2>1, <2>3 DEF Fresh, Early
    <3>2. r = NewJob
      BY <1>0, <2>1, <2>3, Updater
    <3> QED BY <3>1, <3>2 DEF NewJob
  <2>4. CASE upd[p].kind # "new"
    <3>1. Known(j) /\ Follows(p, V, r)
      BY <1>3, <2>4 DEF Publishes
    <3>2. V.state # "Complete"
      <4>1. ASSUME V.state = "Complete"
            PROVE  FALSE
        <5>1. Visible(j)'.state = "Complete"
          BY <3>1, <4>1, CompleteKept
        <5> QED BY <2>1, <2>2, <5>1
      <4> QED BY <4>1
    <3>3. upd[p].kind # "audio"
      BY <1>0, <3>2 DEF AudioInv, Completed
    <3>4. r.audio = V.audio
      BY <3>1, <3>3 DEF Follows
    <3> QED BY <3>1, <3>2, <3>4 DEF AudioInv, Sound
  <2> QED BY <2>3, <2>4
<1>4. ASSUME NEW k \in Jobs
      PROVE  Sound(k)'
  <2>1. CASE k # j
    BY <1>0, <1>1, <1>2, <2>1, UpdateFrame
  <2>2. CASE k = j
    <3>1. Retires(p, j) => Visible(j)' = Visible(j)
      BY <1>0 DEF SerialInv, Filing, Retires, Unlink, Step
    <3> QED BY <1>0, <1>1, <1>2, <1>3, <2>2, <3>1, VisibleStep
  <2> QED BY <2>1, <2>2
<1>5. ASSUME NEW q \in Procs, upd[q].kind \in {"audio", "complete"},
             Known(upd[q].job), Visible(upd[q].job).state = "Complete"
      PROVE  Completed(q)'
  <2>1. upd[q].job \in Jobs /\ upd'[q].job = upd[q].job
    BY <1>0, <1>1, <1>5 DEF TypeInv, Placed
  <2>2. PICK k \in Jobs : k = upd[q].job
    BY <2>1
  <2>3. Known(k)' /\ Visible(k)'.state = "Complete"
    BY <1>5, <2>2, CompleteKept
  <2> QED BY <2>1, <2>2, <2>3 DEF Completed, Known
<1>6. ASSUME NEW q \in Procs \ {p}
      PROVE  Completed(q)'
  <2>1. CASE Known(upd[q].job) /\ Visible(upd[q].job).state = "Complete"
    BY <1>1, <1>5, <2>1 DEF Completed
  <2>2. CASE ~(Known(upd[q].job) /\ Visible(upd[q].job).state = "Complete")
    BY <1>1, <2>2 DEF AudioInv, Completed, Published
  <2> QED BY <2>1, <2>2
<1>7. Completed(p)'
  <2>1. CASE upd[p].kind = "audio"
    BY <1>5, <2>1 DEF AudioInv, Completed
  <2>2. CASE upd[p].kind = "complete" /\ Rename(p)
    <3>1. Publishes(p, j) /\ Early(p)
      BY <1>0, <1>1, <2>2, RenamePublishes DEF Rename, Step, Early
    <3>2. /\ Visible(j)' = upd[p].rec /\ upd[p].rec # NoRecord
          /\ Follows(p, Visible(j), upd[p].rec)
      BY <2>2, <3>1, JobQueueAssumption DEF Publishes
    <3>3. upd[p].rec.state = "Complete"
      BY <2>2, <3>2 DEF Follows
    <3> QED BY <1>1, <3>2, <3>3 DEF Completed, Known
  <2>3. CASE upd[p].kind = "complete" /\ ~Rename(p)
    <3>1. Published(p)' \/ upd'[p].at = "done" => Published(p)
      <4>1. CASE LoadActive(p) \/ LoadArchive(p) \/ WriteTmp(p)
        BY <1>1, <4>1, UpdatePlaces DEF Published
      <4>2. CASE RemoveArchive(p) \/ Link(p) \/ Unlink(p)
        BY <4>2 DEF RemoveArchive, Link, Unlink, Step, Published
      <4> QED BY <2>3, <4>1, <4>2 DEF Update
    <3>2. CASE Published(p)
      BY <1>5, <2>3, <3>2 DEF AudioInv, Completed
    <3>3. CASE ~Published(p)
      BY <1>1, <2>3, <3>1, <3>3 DEF Completed
    <3> QED BY <3>2, <3>3
  <2>4. CASE upd[p].kind \notin {"audio", "complete"}
    BY <1>1, <2>4 DEF Completed
  <2> QED BY <2>1, <2>2, <2>3, <2>4
<1> QED BY <1>4, <1>6, <1>7 DEF AudioInv

\* An audio_path update is called where the audio was moved, and only there.
LEMMA AudioCall ==
    ASSUME TypeInv, TypeInv', NEW p \in Procs, upd'[p].kind = "audio",
           \/ ListJobs(p)
           \/ p \in Workers /\ (Worker(p) \/ CrashWorker(p))
           \/ p \in Clients /\ (Request(p) \/ Client(p) \/ LaunchApp(p) \/ CrashClient(p))
    PROVE  p \in Workers /\ PreserveAudio(p)
<1>0. RestTypes /\ Placed(p) /\ Placed(p)' /\ p \in Workers \cup Clients
  BY TypesSplit DEF TypeInv, Procs
<1>1. p \in Workers /\ p \notin Clients /\ pc'[p] = "preserve"
  BY <1>0, JobQueueAssumption DEF Placed
<1>2. ~ListJobs(p)
  BY <1>0, <1>1 DEF ListJobs, Snapshot, RecoverNext, RecoverEnd, Goto, RestTypes, Placed
<1>3. ~CrashWorker(p)
  BY <1>0, <1>1 DEF CrashWorker, Goto, RestTypes
<1>4. CASE StartWorker(p) \/ PickJob(p) \/ LeaveQueue(p) \/ ExitOnError(p)
  BY <1>0, <1>1, <1>4 DEF StartWorker, PickJob, LeaveQueue, ExitOnError, ListThen, Goto,
                          RestTypes
<1>5. CASE JobGone(p) \/ Proceed(p) \/ Transcribe(p) \/ ReportStage(p)
  BY <1>0, <1>1, <1>5 DEF JobGone, Proceed, Transcribe, ReportStage, ListThen, Goto, RestTypes
<1>6. CASE StageReported(p) \/ Enrich(p) \/ AudioPreserved(p)
  BY <1>0, <1>1, <1>6 DEF StageReported, Enrich, AudioPreserved, ListThen, Goto, RestTypes
<1> QED BY <1>1, <1>2, <1>3, <1>4, <1>5, <1>6 DEF Worker

\* Audio moves before a job is known, or once it is complete.
LEMMA ControlAudio ==
    ASSUME SerialInv, AudioInv, TypeInv', NEW p \in Procs, Control(p),
           upd'[p].kind = "audio" => p \in Workers /\ PreserveAudio(p)
    PROVE  AudioInv'
<1>1. /\ TypeInv /\ Fresh /\ Placed(p) /\ RestTypes /\ upd \in [Procs -> Slots]
      /\ \A j : Visible(j)' = Visible(j) /\ Known(j)' = Known(j)
      /\ \A q \in Procs \ {p} : upd'[q] = upd[q]
  BY TypesSplit DEF SerialInv, TypeInv, Control, Visible, Known
<1>2. ASSUME NEW j \in Jobs, Known(j), Visible(j).state # "Complete"
      PROVE  audio'[j] = audio[j]
  <2>1. CASE Taking(p)
    <3>1. j # upd'[p].job
      BY <1>1, <1>2, <2>1 DEF Taking, Fresh
    <3> QED BY <1>1, <2>1, <3>1 DEF Taking, RestTypes
  <2>2. CASE PuttingBack(p)
    <3>1. j # upd[p].job
      BY <1>1, <1>2, <2>2 DEF PuttingBack, Fresh
    <3> QED BY <1>1, <2>2, <3>1 DEF PuttingBack, RestTypes
  <2>3. CASE Preserving(p)
    <3>1. upd[p].kind = "complete" /\ upd[p].at = "done" /\ job[p] = upd[p].job
      BY <1>1, <2>3 DEF Preserving, Placed
    <3>2. Visible(job[p]).state = "Complete"
      BY <3>1 DEF AudioInv, Completed
    <3>3. j # job[p]
      BY <1>2, <3>2
    <3> QED BY <1>1, <2>3, <3>3 DEF Preserving, RestTypes
  <2> QED BY <2>1, <2>2, <2>3 DEF Control
<1>3. \A j \in Jobs : Sound(j)'
  BY <1>1, <1>2 DEF AudioInv, Sound
<1>4. \A q \in Procs \ {p} : Completed(q)'
  BY <1>1 DEF AudioInv, Completed, Published
<1>5. Completed(p)'
  <2>1. CASE upd'[p].kind = "audio"
    <3>1. PreserveAudio(p) /\ p \in Workers
      BY <2>1
    <3>2. upd[p].kind = "complete" /\ upd[p].at = "done" /\ upd[p].job = job[p] /\ job' = job
      BY <1>1, <3>1 DEF PreserveAudio, Preserves, Placed
    <3>3. upd'[p].job = job'[p]
      BY <2>1, <3>1 DEF TypeInv, Placed
    <3> QED BY <1>1, <3>2, <3>3 DEF AudioInv, Completed
  <2>2. CASE upd'[p].kind # "audio" /\ upd'[p] = upd[p]
    BY <1>1, <2>2 DEF AudioInv, Completed, Published
  <2>3. CASE upd'[p] = NoUpdate \/ Calling(p) \/ Taking(p)
    BY <2>3, <1>1, <2>1 DEF Completed, Published, NoUpdate, Calling, Taking
  <2> QED BY <2>1, <2>2, <2>3 DEF Control
<1> QED BY <1>3, <1>4, <1>5 DEF AudioInv

\* So every step keeps the audio of what can be retried.
LEMMA AudioInvNext ==
    ASSUME Tidy, SerialInv, AudioInv, [Next]_vars
    PROVE  AudioInv'
<1>0. TypeInv /\ TypeInv' /\ Fresh
  BY TypeInvNext DEF SerialInv
<1>1. ASSUME NEW p \in Procs, Update(p)
      PROVE  AudioInv'
  BY <1>1, UpdateAudio
<1>2. ASSUME NEW p \in Procs,
             \/ ListJobs(p)
             \/ p \in Workers /\ (Worker(p) \/ CrashWorker(p))
             \/ p \in Clients /\ (Request(p) \/ Client(p) \/ LaunchApp(p) \/ CrashClient(p))
      PROVE  AudioInv'
  <2>1. Control(p)
    BY <1>0, <1>2, ListControl, WorkerControl, ClientControl, CrashControl
  <2> QED BY <1>0, <1>2, <2>1, ControlAudio, AudioCall
<1>3. CASE UNCHANGED vars
  BY <1>3 DEF vars, AudioInv, Sound, Completed, Known, Visible, Published
<1> QED BY <1>1, <1>2, <1>3 DEF Next, Procs

\* A job that is queued, being processed or retryable has its audio where its
\* record says: processing finds it and a retry does not fail for a missing file.
THEOREM AudioKept == ASSUME Tidy PROVE Spec => []RetryableHasAudio
<1>0. Serial
  BY DEF Tidy
<1>1. SerialInv /\ AudioInv /\ [Next]_vars => AudioInv'
  BY AudioInvNext
<1>2. AudioInv => RetryableHasAudio
  BY DEF AudioInv, Sound, RetryableHasAudio, VisibleState, Known
<1> QED BY <1>0, <1>1, <1>2, AudioInvInit, SerialSafe, PTL DEF Spec

-----------------------------------------------------------------------------
(* Captures on their way into the queue. *)

\* The captures in jobs/ that no record tells of and no live client is at.
Stranded ==
    {j \in Jobs : /\ audio[j] = "jobs"
                  /\ Visible(j) = NoRecord
                  /\ \A c \in Clients : pc[c] = "queue" => upd[c].job # j}

\* The stranded captures can be counted.
LEMMA StrandedFinite ==
    /\ IsFiniteSet(Stranded) /\ Cardinality(Stranded) \in Nat
    /\ \A S \in SUBSET Jobs : IsFiniteSet(S) /\ Cardinality(S) \in Nat
    /\ Stranded' \subseteq Jobs
<1>1. Stranded \subseteq Jobs /\ Stranded' \subseteq Jobs
  BY DEF Stranded
<1>2. \A S \in SUBSET Jobs : IsFiniteSet(S) /\ Cardinality(S) \in Nat
  BY JobQueueAssumption, FS_Subset, FS_CardinalityType
<1> QED BY <1>1, <1>2

\* A client that queues a capture goes on by itself only once the capture is
\* recorded or put back.
LEMMA QueueLeft ==
    ASSUME SerialInv, NEW c \in Clients, pc[c] = "queue",
           ListJobs(c) \/ Request(c) \/ Client(c) \/ LaunchApp(c)
    PROVE  audio'[upd[c].job] # "jobs" \/ Known(upd[c].job)
<1>0. /\ upd[c] \in Slots /\ RestTypes /\ Placed(c) /\ Fresh /\ c \in Procs
      /\ upd[c].kind = "new" /\ upd[c].job \in Jobs
  BY TypesSplit DEF SerialInv, TypeInv, Procs, Placed
<1>1. CaptureQueued(c)
  <2>1. ~ListJobs(c) /\ ~LaunchApp(c) /\ ~Request(c)
    BY DEF ListJobs, Snapshot, RecoverNext, RecoverEnd, LaunchApp, Request, Poll, DismissNotice,
           QueueCapture, RetryJob, ShowNotice
  <2>2. ~Retried(c) /\ ~Dismissed(c) /\ ~SpawnWorker(c)
    BY DEF Retried, Dismissed, SpawnWorker
  <2> QED BY <2>1, <2>2 DEF Client
<1>2. upd[c].at \in {"done", "err"}
  BY <1>0, <1>1 DEF CaptureQueued, Returned, Placed
<1>3. CASE upd[c].at = "err"
  <2>1. audio' = [audio EXCEPT ![upd[c].job] = "capture"]
    BY <1>1, <1>3 DEF CaptureQueued, Rollback
  <2> QED BY <1>0, <2>1 DEF RestTypes
<1>4. CASE upd[c].at = "done"
  BY <1>0, <1>4 DEF Fresh
<1> QED BY <1>2, <1>3, <1>4

\* A step of p that changes no file strands at most the capture that p is at.
LEMMA ControlStrands ==
    ASSUME SerialInv, SerialInv', NEW p \in Procs, Control(p),
           NEW j \in Stranded', j \notin Stranded
    PROVE  p \in Clients /\ pc[p] = "queue" /\ j = upd[p].job /\ audio'[j] = "jobs" /\ ~Known(j)
<1>0. /\ j \in Jobs /\ audio'[j] = "jobs" /\ Visible(j)' = NoRecord
      /\ \A c \in Clients : pc'[c] = "queue" => upd'[c].job # j
  BY DEF Stranded
<1>1. /\ TypeInv /\ TypeInv' /\ Fresh /\ RestTypes /\ Placed(p) /\ Placed(p)'
      /\ p \in Workers \cup Clients /\ Workers \cap Clients = {}
  BY TypesSplit, JobQueueAssumption DEF SerialInv, TypeInv, Procs
<1>2. Visible(j) = NoRecord
  BY <1>0 DEF Control, Visible
<1>3. audio[j] = "jobs"
  <2>1. CASE audio' = audio
    BY <1>0, <2>1
  <2>2. CASE Taking(p)
    <3>1. pc'[p] = "queue" /\ p \in Clients
      BY <1>1, <2>2 DEF Taking, Placed
    <3>2. j # upd'[p].job
      BY <1>0, <3>1
    <3> QED BY <1>0, <1>1, <2>2, <3>2 DEF Taking, RestTypes
  <2>3. CASE PuttingBack(p) \/ Preserving(p)
    BY <1>0, <1>1, <2>3 DEF PuttingBack, Preserving, RestTypes
  <2> QED BY <2>1, <2>2, <2>3 DEF Control
<1>4. PICK c \in Clients : pc[c] = "queue" /\ upd[c].job = j
  BY <1>0, <1>2, <1>3 DEF Stranded
<1>5. c = p
  <2>1. ASSUME c # p
        PROVE  FALSE
    <3>1. c \in Procs /\ upd'[c] = upd[c] /\ upd[c].kind = "new"
      BY <1>1, <1>4, <2>1 DEF Control, Procs, TypeInv, Placed
    <3>2. pc'[c] = "queue"
      BY <1>1, <3>1 DEF TypeInv, Placed
    <3> QED BY <1>0, <1>4, <3>1, <3>2
  <2> QED BY <2>1
<1> QED BY <1>0, <1>2, <1>4, <1>5 DEF Known

\* Only a death strands a capture.
LEMMA NoneStranded ==
    ASSUME SerialInv, SerialInv', [Next]_vars,
           ~\E p \in Procs : \/ p \in Workers /\ CrashWorker(p)
                             \/ p \in Clients /\ CrashClient(p)
    PROVE  Stranded' \subseteq Stranded /\ crashes' = crashes
<1>0. TypeInv /\ TypeInv' /\ Fresh /\ \A p \in Procs : Window(p)
  BY DEF SerialInv
<1>1. ASSUME NEW p \in Procs, Update(p)
      PROVE  Stranded' \subseteq Stranded /\ crashes' = crashes
  <2>1. audio' = audio /\ pc' = pc /\ crashes' = crashes
    BY <1>0, <1>1, UpdateAlone
  <2>2. \A c \in Clients : upd'[c].job = upd[c].job
    BY <1>0, <1>1, UpdateAlone, UpdateFrame DEF Procs
  <2>3. \A j \in Jobs : Visible(j)' = NoRecord => Visible(j) = NoRecord
    BY <1>0, <1>1, KnownKept DEF Known
  <2> QED BY <2>1, <2>2, <2>3 DEF Stranded
<1>2. ASSUME NEW p \in Procs,
             \/ ListJobs(p)
             \/ p \in Workers /\ Worker(p)
             \/ p \in Clients /\ (Request(p) \/ Client(p) \/ LaunchApp(p))
      PROVE  Stranded' \subseteq Stranded /\ crashes' = crashes
  <2>1. Control(p)
    BY <1>0, <1>2, ListControl, WorkerControl, ClientControl
  <2>2. ASSUME NEW j \in Stranded', j \notin Stranded
        PROVE  FALSE
    <3>1. p \in Clients /\ pc[p] = "queue" /\ j = upd[p].job /\ audio'[j] = "jobs" /\ ~Known(j)
      BY <2>1, <2>2, ControlStrands
    <3>2. p \notin Workers
      BY <3>1, JobQueueAssumption
    <3> QED BY <1>2, <3>1, <3>2, QueueLeft
  <2>3. crashes' = crashes
    <3>1. CASE ListJobs(p)
      BY <3>1 DEF ListJobs, Snapshot, RecoverNext, RecoverEnd
    <3>2. CASE Worker(p)
      BY <3>2 DEF Worker, StartWorker, PickJob, LeaveQueue, ExitOnError, JobGone, Proceed,
                  Transcribe, ReportStage, StageReported, Enrich, PreserveAudio, AudioPreserved
    <3>3. CASE Request(p) \/ Client(p) \/ LaunchApp(p)
      BY <3>3 DEF Request, Client, LaunchApp, Poll, DismissNotice, QueueCapture, RetryJob,
                  ShowNotice, CaptureQueued, Retried, Dismissed, SpawnWorker
    <3> QED BY <1>2, <3>1, <3>2, <3>3
  <2> QED BY <2>2, <2>3
<1>3. CASE UNCHANGED vars
  BY <1>3 DEF vars, Stranded, Visible
<1> QED BY <1>1, <1>2, <1>3 DEF Next, Procs

\* And each death strands one at most.
LEMMA StrandedNext ==
    ASSUME SerialInv, SerialInv', [Next]_vars, NoStrandedCapture
    PROVE  NoStrandedCapture'
<1>0. /\ Cardinality(Stranded) <= crashes /\ crashes \in Nat
      /\ Stranded \subseteq Jobs /\ Stranded' \subseteq Jobs
      /\ TypeInv /\ Fresh
  BY DEF NoStrandedCapture, Stranded, SerialInv, TypeInv, TypeOK
<1>1. SUFFICES Cardinality(Stranded') <= crashes'
  BY DEF NoStrandedCapture, Stranded
<1>2. CASE Stranded' \subseteq Stranded /\ crashes' = crashes
  <2>1. Cardinality(Stranded') <= Cardinality(Stranded)
    BY <1>2, StrandedFinite, FS_Subset
  <2> QED BY <1>0, <1>2, <2>1, StrandedFinite
<1>3. ASSUME NEW p \in Procs, \/ p \in Workers /\ CrashWorker(p)
                              \/ p \in Clients /\ CrashClient(p)
      PROVE  Cardinality(Stranded') <= crashes'
  <2>1. Control(p)
    BY <1>0, <1>3, CrashControl
  <2>2. crashes' = crashes + 1
    BY <1>3 DEF CrashWorker, CrashClient
  <2> DEFINE S == Stranded \cup {upd[p].job}
  <2>3. Stranded' \subseteq S
    BY <2>1, ControlStrands
  <2>4. IsFiniteSet(S) /\ Cardinality(S) <= Cardinality(Stranded) + 1
    <3>1. /\ IsFiniteSet(S)
          /\ \/ Cardinality(S) = Cardinality(Stranded)
             \/ Cardinality(S) = Cardinality(Stranded) + 1
      BY StrandedFinite, FS_AddElement
    <3> QED BY <3>1, StrandedFinite
  <2>5. Cardinality(Stranded') <= Cardinality(S) /\ Cardinality(S) \in Nat
    BY <2>3, <2>4, FS_Subset, FS_CardinalityType
  <2> QED BY <1>0, <2>2, <2>4, <2>5, StrandedFinite
<1> QED BY <1>2, <1>3, NoneStranded

\* A capture taken out of current.wav is recorded or put back, unless its client
\* died in between: however writes fail, each death costs one capture at most.
THEOREM CapturesKept == ASSUME Serial PROVE Spec => []NoStrandedCapture
<1>1. Init => NoStrandedCapture
  <2> SUFFICES ASSUME Init PROVE NoStrandedCapture
    OBVIOUS
  <2>1. Stranded = {} /\ crashes = 0
    BY DEF Init, Stranded
  <2>2. Cardinality(Stranded) = 0
    BY <2>1, FS_EmptySet
  <2> QED BY <2>1, <2>2 DEF NoStrandedCapture, Stranded
<1>2. SerialInv /\ SerialInv' /\ [Next]_vars /\ NoStrandedCapture => NoStrandedCapture'
  BY StrandedNext
<1> QED BY <1>1, <1>2, SerialSafe, PTL DEF Spec

-----------------------------------------------------------------------------
(* Where no record is taken for an absent one, a worker never leaves a job  *)
(* behind that names it.                                                    *)

\* Worker w has a job in hand that it owns.
Keeping(w) ==
    \/ WorkingOn(w)
    \/ pc[w] = "claim" /\ upd[w].at = "done"
    \/ pc[w] = "settle" /\ (Early(w) \/ upd[w].at = "err")

\* A job in progress that names a live worker is the one this worker has in hand.
Owned(j) ==
    \A w \in AliveWorkers :
        Known(j) /\ Visible(j).state \in InProgress /\ Visible(j).owner = w
            => job[w] = j /\ Keeping(w)

OwnedInv == \A j \in Jobs : Owned(j)

\* Updates of w on other jobs are recoveries, which do not interrupt its work.
LEMMA KeptOn ==
    ASSUME SerialInv, ~ReadErrors, NEW p \in Procs, Update(p), NEW w \in Workers, Keeping(w),
           w = p /\ job[w] = upd[p].job => ~Rename(p) \/ upd[p].kind = "recover"
    PROVE  Keeping(w)'
<1>0. /\ pc' = pc /\ job' = job /\ after' = after /\ w \in Procs
      /\ \A q \in Procs \ {p} : upd'[q] = upd[q]
      /\ TypeInv /\ Placed(w) /\ Window(p)
  BY UpdateAlone DEF SerialInv, TypeInv, Procs
<1>1. WorkingOn(w)' <=> WorkingOn(w)
  BY <1>0 DEF WorkingOn
<1>2. CASE WorkingOn(w)
  BY <1>1, <1>2 DEF Keeping
<1>3. CASE w # p
  BY <1>0, <1>1, <1>3 DEF Keeping, Early
<1>4. CASE w = p /\ ~WorkingOn(w)
  <2>1. upd[p].at # "done" /\ upd[p].at # "err"
    BY <1>0, UpdateFrame
  <2>2. pc[w] = "settle" /\ Early(w)
    BY <1>4, <2>1 DEF Keeping
  <2>3. ~Rename(p)
    BY <1>0, <1>4, <2>2 DEF Placed
  <2>4. upd'[p].at \in {"write", "loadArchive", "none", "rename", "err"}
    <3>1. LoadActive(p) \/ LoadArchive(p) \/ WriteTmp(p)
      BY <1>4, <2>2, <2>3 DEF Update, RemoveArchive, Link, Unlink, Step, Early
    <3> QED BY <1>0, <3>1, UpdatePlaces
  <2>5. upd'[p].at # "none"
    <3>1. ASSUME upd'[p].at = "none"
          PROVE  FALSE
      <4>1. LoadArchive(p)
        BY <1>0, <2>3, <3>1, UpdatePlaces DEF Update
      <4>2. upd[p].at = "loadArchive" /\ json["archive"][upd[p].job] = NoRecord
        BY <1>0, <3>1, <4>1, TypesSplit DEF LoadArchive, Loaded, TypeInv, Slots, Step
      <4>3. json["active"][upd[p].job] = NoRecord
        BY <1>0, <4>2 DEF Window
      <4>4. Known(upd[p].job)
        BY <1>0, <1>4, <2>2 DEF SerialInv, Fresh, Placed
      <4> QED BY <4>2, <4>3, <4>4 DEF Known, Visible
    <3> QED BY <3>1
  <2> QED BY <1>0, <1>4, <2>2, <2>4, <2>5 DEF Keeping, Early
<1> QED BY <1>2, <1>3, <1>4

\* Progress is published by the worker that has claimed the job, or not at all.
LEMMA UpdateOwned ==
    ASSUME Serial, ~ReadErrors, SerialInv, SerialInv', OwnedInv, NEW p \in Procs, Update(p)
    PROVE  OwnedInv'
<1>0. PICK j \in Jobs : j = upd[p].job
  BY UpdateFrame DEF SerialInv
<1>1. /\ pc' = pc /\ job' = job /\ TypeInv /\ Fresh /\ Window(p) /\ Placed(p) /\ GuardInv
      /\ AliveWorkers' = AliveWorkers /\ upd[p] \in Slots
      /\ upd'[p].job = j /\ upd'[p].kind = upd[p].kind
  BY <1>0, UpdateAlone, UpdateFrame, TypesSplit DEF SerialInv, TypeInv, AliveWorkers
\* The record of job k is not replaced.
<1>2. ASSUME NEW k \in Jobs, Visible(k)' = Visible(k), k # j \/ ~Rename(p)
      PROVE  Owned(k)'
  <2>1. ASSUME NEW w \in AliveWorkers, Known(k), Visible(k).state \in InProgress,
               Visible(k).owner = w
        PROVE  job[w] = k /\ Keeping(w)'
    <3>1. job[w] = k /\ Keeping(w) /\ w \in Workers
      BY <2>1 DEF OwnedInv, Owned, AliveWorkers
    <3> QED BY <1>0, <1>2, <3>1, KeptOn
  <2> QED BY <1>1, <1>2, <2>1 DEF Owned, Known
<1>3. CASE Retires(p, j)
  <2>1. Visible(j)'.state \notin InProgress
    BY <1>3 DEF Retires, SerialInv, Records, Terminal, Retryable, InProgress
  <2> QED
    <3>1. Owned(j)'
      BY <2>1 DEF Owned
    <3>2. \A k \in Jobs \ {j} : Owned(k)'
      BY <1>0, <1>1, <1>2, UpdateFrame
    <3> QED BY <3>1, <3>2 DEF OwnedInv
<1>4. CASE Publishes(p, j)
  <2> DEFINE V == Visible(j)
             r == upd[p].rec
  <2>1. Early(p) /\ Rename(p) /\ Visible(j)' = r
    BY <1>4 DEF Publishes, Rename, Step, Early
  <2>2. ASSUME NEW w \in AliveWorkers, r.state \in InProgress, r.owner = w
        PROVE  job[w] = j /\ Keeping(w)'
    <3>0. w \in Workers /\ w \in Procs /\ w # NoOwner
      BY JobRecordAssumption DEF AliveWorkers, Procs
    <3>1. upd[p].kind # "new"
      <4>1. upd[p].kind = "new" => r = NewJob
        BY <1>0, <2>1, Updater
      <4> QED BY <2>2, <4>1 DEF NewJob, InProgress
    <3>2. Known(j) /\ Follows(p, V, r)
      BY <1>4, <3>1 DEF Publishes
    <3>3. CASE upd[p].kind = "claim"
      <4>1. w = p /\ job[p] = j /\ pc[p] = "claim"
        BY <1>0, <1>1, <2>1, <2>2, <3>2, <3>3, Updater DEF Follows, Placed
      <4>2. upd'[p].at \in {"done", "removeArchive", "link"}
        BY <1>0, <1>1, <2>1, Publication
      <4>3. ~Published(p)'
        BY <1>1, <3>0, <4>1 DEF SerialInv, Claimed
      <4> QED BY <1>1, <4>1, <4>2, <4>3 DEF Keeping, Published
    <3>4. CASE upd[p].kind \in {"transcript", "stage"}
      <4>1. V.owner = p /\ job[p] = j
        BY <1>0, <2>1, <3>4, Updater
      <4>2. w = p /\ pc'[p] \in {"transcript", "stage"}
        BY <1>1, <2>2, <3>2, <3>4, <4>1 DEF Follows, Placed
      <4> QED BY <4>1, <4>2 DEF Keeping, WorkingOn
    <3>5. CASE upd[p].kind \notin {"claim", "transcript", "stage"}
      <4>1. upd[p].kind \notin {"fail", "review", "complete"}
        BY <2>2, <3>2 DEF Follows, Terminal, Retryable, InProgress
      <4>2. Agree(V, r)
        BY <2>2, <3>2, <3>5, <4>1 DEF Follows, InProgress
      <4>3. job[w] = j /\ Keeping(w)
        BY <2>2, <3>2, <4>2 DEF Agree, OwnedInv, Owned
      <4>4. w = p => upd[p].kind = "recover"
        <5>1. upd[p].kind \in {"audio", "requeue", "dismiss", "recover"}
          BY <3>2, <3>5, <4>1 DEF Follows
        <5>2. w = p => upd[p].kind \notin {"audio", "requeue", "dismiss"}
          BY <1>1, <4>3 DEF Keeping, WorkingOn, Placed
        <5> QED BY <5>1, <5>2
      <4> QED BY <1>1, <3>0, <4>3, <4>4, KeptOn
    <3> QED BY <3>3, <3>4, <3>5
  <2>3. Owned(j)'
    BY <1>1, <2>1, <2>2 DEF Owned
  <2>4. \A k \in Jobs \ {j} : Owned(k)'
    BY <1>0, <1>1, <1>2, UpdateFrame
  <2> QED BY <2>3, <2>4 DEF OwnedInv
<1>5. CASE Visible(j)' = Visible(j) /\ ~Publishes(p, j)
  <2>1. ~Rename(p)
    BY <1>0, <1>1, <1>5, RenamePublishes
  <2>2. \A k \in Jobs : Visible(k)' = Visible(k)
    BY <1>0, <1>1, <1>5, UpdateFrame
  <2> QED BY <1>2, <2>1, <2>2 DEF OwnedInv
<1> QED BY <1>0, <1>1, <1>3, <1>4, <1>5, VisibleStep

\* A worker goes on with the job that it owns, or ends.
LEMMA KeptInHand ==
    ASSUME SerialInv, ~ReadErrors, NEW w \in Workers, Keeping(w),
           Worker(w) \/ ListJobs(w) \/ CrashWorker(w)
    PROVE  pc'[w] = "off" \/ (Keeping(w)' /\ job'[w] = job[w])
<1>0. /\ upd \in [Procs -> Slots] /\ RestTypes /\ Placed(w) /\ w \in Procs /\ w \notin Clients
      /\ upd[w].at # "none"
  BY TypesSplit, JobQueueAssumption DEF SerialInv, TypeInv, Procs, Window
<1> USE DEF Keeping
<1>1. CASE ListJobs(w)
  <2>1. job' = job /\ pc[w] \in {"list", "recover"}
    BY <1>1 DEF ListJobs, Snapshot, RecoverNext, RecoverEnd
  <2>2. \/ pc'[w] \in {"list", "recover"} /\ after'[w] = after[w]
        \/ pc'[w] = after[w]
    BY <1>0, <1>1 DEF ListJobs, Snapshot, RecoverNext, RecoverEnd, RestTypes, Goto
  <2>3. after[w] \in {"transcribe", "enrich"}
    BY <2>1 DEF WorkingOn
  <2> QED BY <2>1, <2>2, <2>3 DEF WorkingOn
<1>2. CASE CrashWorker(w) \/ ExitOnError(w)
  BY <1>0, <1>2 DEF CrashWorker, ExitOnError, Goto, RestTypes
<1>3. ~(\/ StartWorker(w) \/ PickJob(w) \/ LeaveQueue(w) \/ JobGone(w) \/ PreserveAudio(w)
        \/ AudioPreserved(w))
  BY <1>0 DEF StartWorker, PickJob, LeaveQueue, JobGone, PreserveAudio, AudioPreserved, WorkingOn,
              Early
<1>4. CASE Proceed(w)
  <2>1. pc'[w] = "list" /\ after'[w] \in {"transcribe", "enrich"} /\ job' = job
    BY <1>0, <1>4 DEF Proceed, ListThen, RestTypes, WorkingOn, Early
  <2> QED BY <2>1 DEF WorkingOn
<1>5. CASE Transcribe(w) \/ Enrich(w) \/ ReportStage(w)
  <2>1. job' = job /\ pc'[w] \in {"transcript", "stage", "settle"} /\ job[w] \in Jobs
    BY <1>0, <1>5 DEF Transcribe, Enrich, ReportStage, Goto, RestTypes, Placed, WorkingOn
  <2>2. PICK kind \in Calls : Call(w, kind, job[w])
    BY <1>5 DEF Transcribe, Enrich, ReportStage, Calls
  <2>3. upd'[w].at = "load"
    BY <1>0, <2>1, <2>2, CallMade
  <2> QED BY <2>1, <2>3 DEF WorkingOn, Early
<1>6. CASE StageReported(w)
  <2>1. job' = job /\ (pc'[w] = "enrich" \/ (pc'[w] = "list" /\ after'[w] = "enrich"))
    BY <1>0, <1>6 DEF StageReported, Goto, ListThen, RestTypes
  <2> QED BY <2>1 DEF WorkingOn
<1> QED BY <1>1, <1>2, <1>3, <1>4, <1>5, <1>6 DEF Worker

\* No other step takes a job from its worker.
LEMMA ControlOwned ==
    ASSUME ~ReadErrors, SerialInv, OwnedInv, NEW p \in Procs, Control(p),
           \A w \in Workers : \/ Spares(w)
                              \/ pc[w] = "off"
                              \/ pc'[w] = "off"
                              \/ Worker(w) \/ ListJobs(w) \/ CrashWorker(w)
    PROVE  OwnedInv'
<1>1. \A j : Visible(j)' = Visible(j) /\ Known(j)' = Known(j)
  BY DEF Control, Visible, Known
<1>2. ASSUME NEW j \in Jobs, NEW w \in AliveWorkers', Known(j), Visible(j).state \in InProgress,
             Visible(j).owner = w
      PROVE  job'[w] = j /\ Keeping(w)'
  <2>1. w \in Workers /\ pc'[w] # "off"
    BY DEF AliveWorkers
  <2>2. Mentioned(w)
    BY <1>2 DEF Mentioned, Known, Visible, Dirs
  <2>3. w \in AliveWorkers
    BY <2>2 DEF Control
  <2>4. job[w] = j /\ Keeping(w) /\ pc[w] # "off"
    BY <1>2, <2>3 DEF OwnedInv, Owned, AliveWorkers
  <2>5. CASE Spares(w)
    BY <2>1, <2>4, <2>5 DEF Spares, Keeping, WorkingOn, Early
  <2>6. CASE Worker(w) \/ ListJobs(w) \/ CrashWorker(w)
    BY <2>1, <2>4, <2>6, KeptInHand
  <2> QED BY <2>1, <2>4, <2>5, <2>6
<1> QED BY <1>1, <1>2 DEF OwnedInv, Owned

\* So every step leaves each job in progress with its owner.
LEMMA OwnedNext ==
    ASSUME Serial, ~ReadErrors, SerialInv, SerialInv', OwnedInv, [Next]_vars
    PROVE  OwnedInv'
<1>0. TypeInv /\ Fresh
  BY DEF SerialInv
<1>1. ASSUME NEW p \in Procs, Update(p)
      PROVE  OwnedInv'
  BY <1>1, UpdateOwned
<1>2. ASSUME NEW p \in Procs, ListJobs(p)
      PROVE  OwnedInv'
  <2>1. Control(p) /\ Alone(p)
    BY <1>0, <1>2, ListControl, ListTypes
  <2> QED BY <1>2, <2>1, ControlOwned DEF Alone, Procs
<1>3. ASSUME NEW v \in Workers, Worker(v) \/ CrashWorker(v)
      PROVE  OwnedInv'
  <2>1. Control(v) /\ Alone(v) /\ v \in Procs
    BY <1>0, <1>3, WorkerControl, WorkerTypes, CrashControl, CrashTypes DEF Procs
  <2> QED BY <1>3, <2>1, ControlOwned DEF Alone, Procs
<1>4. ASSUME NEW c \in Clients, Request(c) \/ Client(c) \/ LaunchApp(c)
      PROVE  OwnedInv'
  <2>1. Control(c) /\ c \in Procs
    BY <1>0, <1>4, ClientControl DEF Procs
  <2> QED BY <1>0, <1>4, <2>1, ClientSpares, ControlOwned
<1>5. ASSUME NEW c \in Clients, CrashClient(c)
      PROVE  OwnedInv'
  <2>1. Control(c) /\ Alone(c) /\ c \in Procs /\ c \notin Workers
    BY <1>0, <1>5, CrashControl, CrashTypes, JobQueueAssumption DEF Procs
  <2> QED BY <2>1, ControlOwned DEF Alone, Procs
<1>6. CASE UNCHANGED vars
  BY <1>6 DEF vars, OwnedInv, Owned, Known, Visible, AliveWorkers, Keeping, WorkingOn, Early
<1> QED BY <1>1, <1>2, <1>3, <1>4, <1>5, <1>6 DEF Next

\* At most one job at a time is in progress under a live owner, so that the death
\* of the one worker makes every other job in progress recoverable.
THEOREM OneJob == ASSUME Serial, ~ReadErrors PROVE Spec => []OneJobAtATime
<1>1. Init => OwnedInv
  BY DEF Init, OwnedInv, Owned, Known, Visible, Dirs
<1>2. SerialInv /\ SerialInv' /\ OwnedInv /\ [Next]_vars => OwnedInv'
  BY OwnedNext
<1>3. ASSUME SerialInv, OwnedInv, NEW j \in Jobs, NEW k \in Jobs,
             \A i \in {j, k} : VisibleState(i) \in InProgress /\ Visible(i).owner \in AliveWorkers
      PROVE  j = k
  <2>1. \A i \in {j, k} : Known(i) /\ Visible(i).state \in InProgress
    BY <1>3 DEF VisibleState, Known, InProgress
  <2>2. \A i \in {j, k} : job[Visible(i).owner] = i /\ Keeping(Visible(i).owner)
    BY <1>3, <2>1 DEF OwnedInv, Owned
  <2>3. \A w \in Workers : Keeping(w) => InLoop(w)
    BY DEF Keeping, WorkingOn, InLoop
  <2>4. Visible(j).owner = Visible(k).owner
    BY <1>3, <2>2, <2>3 DEF SerialInv, GuardInv, AliveWorkers
  <2> QED BY <2>2, <2>4
<1>4. SerialInv /\ OwnedInv => OneJobAtATime
  BY <1>3 DEF OneJobAtATime
<1> QED BY <1>1, <1>2, <1>4, SerialSafe, PTL DEF Spec
=============================================================================
