---------------------------- MODULE CopilotRunner ----------------------------
(***************************************************************************)
(* The fast lane of crates/core/src/copilot/runner.rs: one client thread   *)
(* that submits evidence and controls the session, one worker that asks    *)
(* the model, a bounded command channel between them, and the runtime they *)
(* share under a mutex.  A step takes the mutex at most once; what the     *)
(* worker does between two acquisitions is two steps.                      *)
(*                                                                         *)
(* A request is its session epoch, its evidence revision, whether a final  *)
(* or a partial triggered it, and the newest partial it is grounded in.    *)
(* Clients put no partial into a final's request (cli main.rs:11040).      *)
(* Texts, latencies, thresholds and error messages are left out: the model *)
(* and NudgePolicy::accept give or withhold a nudge freely.                *)
(***************************************************************************)
EXTENDS Naturals, Sequences, FiniteSets

CONSTANTS
    CrPartials,    \* partial identities: <<utterance sequence, revision>>
    CrNone,        \* Option::None
    CrQueueMax,    \* COMMAND_CHANNEL_CAPACITY, 32 in the code
    CrMaxRevision, \* bound: evidence revisions
    CrMaxEpoch,    \* bound: session epochs
    CrMaxControls  \* bound: pauses, resumes and dismissals

ASSUME CrAssumption ==
    /\ CrPartials \subseteq (Nat \X Nat)
    /\ CrNone \notin CrPartials
    /\ CrQueueMax \in Nat \ {0}
    /\ CrMaxRevision \in Nat /\ CrMaxEpoch \in Nat \ {0} /\ CrMaxControls \in Nat

VARIABLES
    crState, crPaused, crStopped,   \* the runtime's state and flags
    crEpoch,      \* session_epoch
    crLatest,     \* latest_evidence_revision, 0 for None
    crPartial,    \* latest_partial_identity
    crRetracted,  \* retracted_through_utterance_sequence
    crCurrent,    \* current_request; current_cancel is Some while it is
    crShown,      \* the nudge that put the runtime into state Nudge, while it is in it
    crCancelled,  \* the worker's cancel token is cancelled
    crQueue,      \* the command channel
    crPc,         \* the worker's position
    crPending,    \* its request
    crSawPaused,  \* what it read of crPaused before it sets the state
    crActive,     \* NudgePolicy: the active nudge
    crIssued,     \* NudgePolicy: nudges that may still get feedback
    crClient,     \* the client's position
    crRevision,   \* its evidence counter
    crDropped,    \* the commands of sessions and stops that found the channel full
    crControls,   \* pauses, resumes and dismissals so far
    crLatePause   \* the last pause fell after the worker's last look at the flag

crRuntime == <<crState, crShown, crPaused, crStopped, crEpoch, crLatest, crPartial, crRetracted,
               crCurrent, crCancelled>>
crPolicy == <<crActive, crIssued>>
crWorker == <<crPc, crPending, crSawPaused, crPolicy>>
crClients == <<crClient, crRevision, crDropped, crControls, crLatePause>>
crVars == <<crRuntime, crQueue, crWorker, crClients>>

CrRequest == [epoch : 1..CrMaxEpoch, rev : 1..CrMaxRevision, final : BOOLEAN,
              partial : CrPartials \cup {CrNone}]

ASSUME CrNoneAssumption == CrNone \notin CrRequest

\* Commands; only Request and Feedback carry anything.
CrCommand ==
    [cmd : {"request"}, req : CrRequest, invalidates : BOOLEAN]
      \cup [cmd : {"feedback"}, req : CrRequest, invalidates : {FALSE}]
      \cup [cmd : {"invalidate", "begin", "wake", "stop"}, req : {CrNone},
            invalidates : {FALSE}]

CrSignal(cmd) == [cmd |-> cmd, req |-> CrNone, invalidates |-> FALSE]

CopilotRunnerTypeOK ==
    /\ crState \in {"arming", "listening", "thinking", "nudge", "paused", "degraded", "off"}
    /\ crPaused \in BOOLEAN /\ crStopped \in BOOLEAN
    /\ crEpoch \in 1..CrMaxEpoch
    /\ crLatest \in 0..CrMaxRevision
    /\ crPartial \in CrPartials \cup {CrNone}
    /\ crRetracted \in Nat
    /\ crCurrent \in CrRequest \cup {CrNone}
    /\ crCancelled \in BOOLEAN
    /\ crQueue \in Seq(CrCommand) /\ Len(crQueue) =< CrQueueMax
    /\ crPc \in {"prewarm", "warm", "idle", "drain", "check", "start", "model", "judge",
                 "withdraw", "verdict", "publish", "ending", "done"}
    /\ crPending \in CrCommand \cup {CrNone}
    /\ crSawPaused \in BOOLEAN
    /\ crActive \in CrRequest \cup {CrNone}
    /\ crIssued \in SUBSET CrRequest
    /\ crShown \in CrRequest \cup {CrNone}
    /\ crClient \in {"idle", "joining", "joined"}
    /\ crRevision \in 0..CrMaxRevision
    /\ crDropped \in SUBSET {"begin", "stop"}
    /\ crControls \in 0..CrMaxControls
    /\ crLatePause \in BOOLEAN

CopilotRunnerInit ==
    /\ crState = "arming" /\ crPaused = FALSE /\ crStopped = FALSE
    /\ crEpoch = 1 /\ crLatest = 0 /\ crPartial = CrNone /\ crRetracted = 0
    /\ crCurrent = CrNone /\ crCancelled = FALSE
    /\ crQueue = <<>>
    /\ crPc = "prewarm" /\ crPending = CrNone /\ crSawPaused = FALSE
    /\ crActive = CrNone /\ crIssued = {}
    /\ crShown = CrNone
    /\ crClient = "idle" /\ crRevision = 0 /\ crDropped = {} /\ crControls = 0
    /\ crLatePause = FALSE

-----------------------------------------------------------------------------
(* Helpers *)

CrBefore(p, q) == p[1] < q[1] \/ (p[1] = q[1] /\ p[2] < q[2])

\* Neither retracted nor superseded.
CrGrounded(r) ==
    r.partial # CrNone => r.partial[1] > crRetracted /\ crPartial = r.partial

\* request_is_current
CrRequestIsCurrent(r) == r.epoch = crEpoch /\ crLatest = r.rev /\ CrGrounded(r)

\* nudge_is_current
CrNudgeIsCurrent(n) == n.epoch = crEpoch /\ crLatest =< n.rev /\ CrGrounded(n)

\* request_replaces
CrReplaces(candidate, pending) ==
    candidate.epoch # pending.epoch \/ candidate.rev >= pending.rev

\* materially_newer_than; partials differ when their identities do
CrMateriallyNewer(r, older) ==
    r.epoch = older.epoch /\ r.rev > older.rev /\ (r.final \/ r.partial # older.partial)

\* try_send: the command is dropped when the channel is full.
CrSend(command) ==
    crQueue' = IF Len(crQueue) < CrQueueMax THEN Append(crQueue, command) ELSE crQueue

CrSendOnce(cmd) ==
    /\ CrSend(CrSignal(cmd))
    /\ crDropped' = IF Len(crQueue) < CrQueueMax THEN crDropped ELSE crDropped \cup {cmd}

\* crShown remembers which nudge the state is about.
CrSetState(state) ==
    /\ crState' = state
    /\ crShown' = IF state = "nudge" THEN crShown ELSE CrNone

CrLeaveNudge(cond) ==
    CrSetState(IF cond /\ crState = "nudge" THEN "listening" ELSE crState)

CrGo(from, to) == crPc = from /\ crPc' = to

-----------------------------------------------------------------------------
(* The client *)

CrSubmit(final, partial) ==
    LET r == [epoch |-> crEpoch, rev |-> crRevision + 1, final |-> final, partial |-> partial]
        refused == /\ crCurrent # CrNone /\ crCurrent.epoch = crEpoch
                   /\ ~CrMateriallyNewer(r, crCurrent)
        drops == final /\ crPartial # CrNone
    IN
    /\ crClient = "idle" /\ ~crStopped /\ ~crPaused
    /\ crRevision < CrMaxRevision
    /\ final <=> partial = CrNone
    /\ partial # CrNone /\ crPartial # CrNone => ~CrBefore(partial, crPartial)
    /\ crRevision' = crRevision + 1
    /\ IF refused
       THEN UNCHANGED <<crRuntime, crQueue>>
       ELSE /\ crCancelled' = (crCancelled \/ crCurrent # CrNone)
            /\ crLatest' = r.rev
            /\ crRetracted' = IF drops /\ crPartial[1] > crRetracted THEN crPartial[1]
                              ELSE crRetracted
            /\ crPartial' = IF final THEN CrNone ELSE partial
            /\ CrLeaveNudge(drops)
            /\ CrSend([cmd |-> "request", req |-> r, invalidates |-> drops])
            /\ UNCHANGED <<crPaused, crStopped, crEpoch, crCurrent>>
    /\ UNCHANGED <<crWorker, crClient, crDropped, crControls, crLatePause>>

CrBeginSession ==
    /\ crClient = "idle" /\ ~crStopped
    /\ crEpoch < CrMaxEpoch
    /\ crCancelled' = (crCancelled \/ crCurrent # CrNone)
    /\ crEpoch' = crEpoch + 1
    /\ crLatest' = 0
    /\ crPartial' = CrNone
    /\ crRetracted' = 0
    /\ CrSetState(IF crPaused THEN "paused" ELSE "listening")
    /\ CrSendOnce("begin")
    /\ UNCHANGED <<crPaused, crStopped, crCurrent, crWorker, crClient, crRevision,
                   crControls, crLatePause>>

CrSupersedePartial(partial) ==
    /\ crClient = "idle" /\ ~crStopped
    /\ crPartial' = IF crPartial # CrNone => CrBefore(crPartial, partial)
                    THEN partial ELSE crPartial
    /\ crCancelled' = (crCancelled \/ ( /\ crCurrent # CrNone
                                        /\ crCurrent.partial # CrNone
                                        /\ CrBefore(crCurrent.partial, partial)))
    /\ UNCHANGED <<crState, crShown, crPaused, crStopped, crEpoch, crLatest, crRetracted, crCurrent,
                   crQueue, crWorker, crClients>>

CrRetractPartials(through) ==
    /\ crClient = "idle" /\ ~crStopped
    /\ crRetracted' = IF through > crRetracted THEN through ELSE crRetracted
    /\ crPartial' = IF crPartial # CrNone /\ crPartial[1] =< through THEN CrNone ELSE crPartial
    /\ CrLeaveNudge(TRUE)
    /\ crCancelled' = (crCancelled \/ ( /\ crCurrent # CrNone
                                        /\ crCurrent.partial # CrNone
                                        /\ crCurrent.partial[1] =< through))
    /\ CrSend(CrSignal("invalidate"))
    /\ UNCHANGED <<crPaused, crStopped, crEpoch, crLatest, crCurrent, crWorker, crClients>>

CrControl ==
    /\ crClient = "idle" /\ ~crStopped
    /\ crControls < CrMaxControls
    /\ crControls' = crControls + 1
    /\ UNCHANGED <<crClient, crRevision, crDropped>>

CrPause ==
    /\ CrControl
    /\ crPaused' = TRUE
    /\ CrSetState("paused")
    /\ crCancelled' = (crCancelled \/ crCurrent # CrNone)
    /\ crLatePause' = (crPc \in {"warm", "start", "judge", "verdict", "publish"})
    /\ CrSend(CrSignal("wake"))
    /\ UNCHANGED <<crStopped, crEpoch, crLatest, crPartial, crRetracted, crCurrent, crWorker>>

CrResume ==
    /\ CrControl
    /\ crPaused' = FALSE
    /\ CrSetState("listening")
    /\ CrSend(CrSignal("wake"))
    /\ UNCHANGED <<crStopped, crEpoch, crLatest, crPartial, crRetracted, crCurrent, crCancelled,
                   crWorker, crLatePause>>

\* record_feedback, Dismissed
CrDismiss(nudge) ==
    /\ CrControl
    /\ CrSend([cmd |-> "feedback", req |-> nudge, invalidates |-> FALSE])
    /\ UNCHANGED <<crRuntime, crWorker, crLatePause>>

\* tick, once the nudge has expired
CrTick ==
    /\ crClient = "idle" /\ crState = "nudge"
    /\ CrSetState("listening")
    /\ UNCHANGED <<crPaused, crStopped, crEpoch, crLatest, crPartial, crRetracted, crCurrent,
                   crCancelled, crQueue, crWorker, crClients>>

\* stop; then it joins the worker
CrStop ==
    /\ crClient = "idle" /\ ~crStopped
    /\ crStopped' = TRUE
    /\ CrSetState("off")
    /\ crCancelled' = (crCancelled \/ crCurrent # CrNone)
    /\ CrSendOnce("stop")
    /\ crClient' = "joining"
    /\ UNCHANGED <<crPaused, crEpoch, crLatest, crPartial, crRetracted, crCurrent, crWorker,
                   crRevision, crControls, crLatePause>>

CrJoin ==
    /\ crClient = "joining" /\ crPc = "done"
    /\ crClient' = "joined"
    /\ UNCHANGED <<crRuntime, crQueue, crWorker, crRevision, crDropped, crControls,
                   crLatePause>>

-----------------------------------------------------------------------------
(* The worker: run_worker *)

\* model.prewarm returns, and the flags are read.
CrPrewarmed ==
    /\ crPc = "prewarm"
    /\ crPc' = IF crStopped THEN "ending" ELSE "warm"
    /\ crSawPaused' = crPaused
    /\ UNCHANGED <<crRuntime, crQueue, crPending, crPolicy, crClients>>

\* set_state: Listening, or Degraded if the prewarming failed, unless paused
CrWarm ==
    /\ CrGo("warm", "idle")
    /\ \E state \in IF crSawPaused THEN {"paused"} ELSE {"listening", "degraded"} :
          CrSetState(state)
    /\ UNCHANGED <<crPaused, crStopped, crEpoch, crLatest, crPartial, crRetracted, crCurrent,
                   crCancelled, crQueue, crPending, crSawPaused, crPolicy, crClients>>

\* What every command but a request and a stop does, wherever it is taken.
CrApply(command) ==
    CASE command.cmd = "invalidate" ->
            crActive' = CrNone /\ UNCHANGED <<crIssued, crState, crShown>>
      [] command.cmd = "begin" ->
            crActive' = CrNone /\ crIssued' = {} /\ UNCHANGED <<crState, crShown>>
      [] command.cmd = "feedback" /\ command.req \in crIssued ->
            /\ crIssued' = crIssued \ {command.req}
            /\ crActive' = IF crActive = command.req THEN CrNone ELSE crActive
            /\ CrLeaveNudge(TRUE)
      [] OTHER -> UNCHANGED <<crPolicy, crState, crShown>>

\* Take the next command: while idle, in the debounce of a partial, or in the
\* loop that empties the channel before the model is asked.
CrTake ==
    /\ crPc \in {"idle", "drain"} /\ crQueue # <<>>
    /\ crQueue' = Tail(crQueue)
    /\ LET c == Head(crQueue) IN
       CASE c.cmd = "request" ->
              /\ crPc' = "drain"
              /\ crPending' = IF crPc = "idle" THEN c
                              ELSE IF CrReplaces(c.req, crPending.req)
                              THEN [c EXCEPT !.invalidates = @ \/ crPending.invalidates]
                              ELSE crPending
              /\ UNCHANGED <<crState, crShown, crPolicy>>
         [] c.cmd = "stop" ->
              crPc' = "ending" /\ crPending' = CrNone /\ UNCHANGED <<crState, crShown, crPolicy>>
         [] OTHER -> CrApply(c) /\ UNCHANGED <<crPc, crPending>>
    /\ UNCHANGED <<crPaused, crStopped, crEpoch, crLatest, crPartial, crRetracted, crCurrent,
                   crCancelled, crSawPaused, crClients>>

CrDrained ==
    /\ crQueue = <<>> /\ CrGo("drain", "check")
    /\ crActive' = IF crPending.invalidates THEN CrNone ELSE crActive
    /\ UNCHANGED <<crRuntime, crQueue, crPending, crSawPaused, crIssued, crClients>>

CrCheck ==
    /\ crPc = "check"
    /\ \/ crStopped /\ crPc' = "ending" /\ crPending' = CrNone
       \/ /\ ~crStopped /\ (crPaused \/ ~CrRequestIsCurrent(crPending.req))
          /\ crPc' = "idle" /\ crPending' = CrNone
       \/ /\ ~crStopped /\ ~crPaused /\ CrRequestIsCurrent(crPending.req)
          /\ crPc' = "start" /\ UNCHANGED crPending
    /\ UNCHANGED <<crRuntime, crQueue, crSawPaused, crPolicy, crClients>>

CrStart ==
    /\ CrGo("start", "model")
    /\ crCurrent' = crPending.req
    /\ crCancelled' = FALSE
    /\ CrSetState("thinking")
    /\ UNCHANGED <<crPaused, crStopped, crEpoch, crLatest, crPartial, crRetracted, crQueue,
                   crPending, crSawPaused, crPolicy, crClients>>

\* stream_structured returns, which it may do with a result although cancelled.
CrModelReturns ==
    /\ CrGo("model", "judge")
    /\ crCurrent' = CrNone
    /\ UNCHANGED <<crState, crShown, crPaused, crStopped, crEpoch, crLatest, crPartial, crRetracted,
                   crCancelled, crQueue, crPending, crSawPaused, crPolicy, crClients>>

\* The result is dropped if it was cancelled (or says so itself) or is stale;
\* then the flag is read, and the state is set afterwards.
CrJudge ==
    /\ crPc = "judge"
    /\ \/ ~crCancelled /\ CrRequestIsCurrent(crPending.req) /\ crPc' = "verdict"
          /\ UNCHANGED crSawPaused
       \/ crPc' = "withdraw" /\ crSawPaused' = crPaused
    /\ UNCHANGED <<crRuntime, crQueue, crPending, crPolicy, crClients>>

CrWithdraw ==
    /\ CrGo("withdraw", "idle")
    /\ CrSetState(IF crSawPaused THEN "paused" ELSE "listening")
    /\ crPending' = CrNone /\ crSawPaused' = FALSE /\ crCancelled' = FALSE
    /\ UNCHANGED <<crPaused, crStopped, crEpoch, crLatest, crPartial, crRetracted, crCurrent,
                   crQueue, crPolicy, crClients>>

\* The policy takes the draft, or filters it, or the model had failed.
CrVerdict ==
    /\ crPc = "verdict"
    /\ \/ /\ crPc' = "publish"
          /\ crActive' = crPending.req
          /\ crIssued' = crIssued \cup {crPending.req}
          /\ UNCHANGED <<crState, crShown, crPending>>
       \/ /\ crPc' = "idle" /\ crPending' = CrNone
          /\ CrSetState("listening")
          /\ UNCHANGED crPolicy
       \/ /\ crPc' = "idle" /\ crPending' = CrNone
          /\ CrSetState("degraded")
          /\ crActive' = CrNone /\ UNCHANGED crIssued
    /\ UNCHANGED <<crPaused, crStopped, crEpoch, crLatest, crPartial, crRetracted, crCurrent,
                   crCancelled, crQueue, crSawPaused, crClients>>

\* Mutant of CrPublish: currency is not looked at once more.
CrPublishUnchecked ==
    /\ CrGo("publish", "idle")
    /\ crPending' = CrNone
    /\ crState' = "nudge" /\ crShown' = crPending.req
    /\ UNCHANGED <<crPaused, crStopped, crEpoch, crLatest, crPartial, crRetracted, crCurrent,
                   crCancelled, crQueue, crSawPaused, crPolicy, crClients>>

CrPublish ==
    /\ CrGo("publish", "idle")
    /\ crPending' = CrNone
    /\ IF CrRequestIsCurrent(crPending.req)
       THEN /\ crState' = "nudge"
            /\ crShown' = crPending.req
            /\ UNCHANGED crActive
       ELSE crActive' = CrNone /\ UNCHANGED <<crState, crShown>>
    /\ UNCHANGED <<crPaused, crStopped, crEpoch, crLatest, crPartial, crRetracted, crCurrent,
                   crCancelled, crQueue, crSawPaused, crIssued, crClients>>

CrEnd ==
    /\ CrGo("ending", "done")
    /\ CrSetState("off")
    /\ UNCHANGED <<crPaused, crStopped, crEpoch, crLatest, crPartial, crRetracted, crCurrent,
                   crCancelled, crQueue, crPending, crSawPaused, crPolicy, crClients>>

-----------------------------------------------------------------------------
CrWorkerNext ==
    \/ CrPrewarmed \/ CrWarm \/ CrTake \/ CrDrained \/ CrCheck \/ CrStart
    \/ CrModelReturns \/ CrJudge \/ CrWithdraw \/ CrVerdict \/ CrPublish \/ CrEnd

CrClientNext ==
    \/ \E final \in BOOLEAN, partial \in CrPartials \cup {CrNone} : CrSubmit(final, partial)
    \/ \E partial \in CrPartials : CrSupersedePartial(partial) \/ CrRetractPartials(partial[1])
    \/ \E nudge \in crIssued : CrDismiss(nudge)
    \/ CrBeginSession \/ CrPause \/ CrResume \/ CrTick \/ CrStop \/ CrJoin

CopilotRunnerNext == CrWorkerNext \/ CrClientNext

CopilotRunnerSpec == CopilotRunnerInit /\ [][CopilotRunnerNext]_crVars

\* The worker keeps running and the model's calls return; join is one call.
CopilotRunnerFairness == WF_crVars(CrWorkerNext) /\ WF_crVars(CrJoin)

-----------------------------------------------------------------------------
(* Properties *)

\* While a nudge is shown, the partial it rests on is not retracted, and it is
\* of this session (runner.rs:547, 580, 994): the worker's late result and the
\* client's retraction may come in any order.
ShownIsGrounded ==
    crState = "nudge" =>
        /\ crShown.epoch = crEpoch
        /\ crShown.partial # CrNone => crShown.partial[1] > crRetracted

\* A call that was cancelled while it ran shows nothing, whatever it returns:
\* the token is looked at after it is out of the runtime's reach.
CancelHeard == crPc \in {"verdict", "publish"} => ~crCancelled

\* Paused is quiet: no nudge is shown, and no model is asked, unless the pause
\* fell after the worker's last look at the flag (runner.rs:926, 946, 968).
PausedIsQuiet ==
    crPaused /\ ~crStopped /\ ~crLatePause =>
        crState \notin {"nudge", "thinking"}

\* The policy holds nothing of a session that the worker has been told has
\* ended: a new session's first nudge does not supersede one of the old.
NothingOfEndedSession ==
    crPc = "publish" /\ crPending.req.epoch = crEpoch =>
        \/ \A n \in crIssued : n.epoch = crEpoch
        \/ \E i \in DOMAIN crQueue : crQueue[i].cmd = "begin"
        \/ "begin" \in crDropped

\* The newest request is not lost between the queue and the model: it leaves
\* the channel and the worker's hands only for the model, or for something
\* newer, a retraction, a pause or the end (runner.rs:836, 871, 1319).
CrWaiting == {crQueue[i].req : i \in {j \in DOMAIN crQueue : crQueue[j].cmd = "request"}}
               \cup IF crPc \in {"drain", "check", "start"} THEN {crPending.req} ELSE {}

NewestKept ==
    [][\A r \in CrWaiting :
          CrRequestIsCurrent(r)' /\ ~crPaused /\ ~crStopped
             => r \in CrWaiting' \/ crCurrent' = r]_crVars

\* What the fast lane shows is grounded, uncancelled, quiet when paused and of this
\* session, and the newest request gets there (runner.rs:771-1035).
GuidanceKept ==
    /\ [](ShownIsGrounded /\ CancelHeard /\ PausedIsQuiet /\ NothingOfEndedSession)
    /\ NewestKept

\* stop waits for the worker, and its command found room in the channel: with a
\* full channel that holds no request the worker goes on waiting (runner.rs:765).
CrStopWaits == crClient = "joining" /\ "stop" \notin crDropped

=============================================================================
