---------------------------- MODULE CopilotDepth -----------------------------
(***************************************************************************)
(* The depth lane of crates/core/src/copilot/runner.rs: a second worker    *)
(* that keeps a strategy and a battle card for the session in a snapshot   *)
(* which the fast worker copies into its requests.  begin_session changes  *)
(* the runtime, cancels the strategy call, changes the snapshot and sends  *)
(* Reset in four steps, and both workers run between them.                 *)
(*                                                                         *)
(* A strategy, a card, a counted topic shift or a timestamp is the session *)
(* epoch it comes from, 0 for none.  Texts, intervals and the answers of   *)
(* the detector, the retrieval and the model are left open.                *)
(***************************************************************************)
EXTENDS Naturals, Sequences

CONSTANTS
    CdQueueMax,   \* DEPTH_CHANNEL_CAPACITY, 16 in the code
    CdMaxEpoch,   \* bound: sessions
    CdMaxRequests \* bound: requests of the fast lane

ASSUME CdAssumption == CdQueueMax \in Nat \ {0} /\ CdMaxEpoch \in Nat \ {0}
                       /\ CdMaxRequests \in Nat

VARIABLES
    cdEpoch,      \* the runtime's session_epoch
    cdShared,     \* DepthShared
    cdQueue,      \* the depth channel
    cdPc,         \* the depth worker's position
    cdReq,        \* the session of its request
    cdShift,      \* topic_shift.is_some()
    cdGroundedAt, \* last_grounding_at
    cdStrategyAt, \* last_strategy_at
    cdPrompt,     \* the prior state and the card of the strategy request
    cdActive,     \* active_cancel is Some
    cdCancelled,  \* the token of the last strategy call is cancelled
    cdClient,     \* the client's position in begin_session and stop
    cdFast,       \* the session of the fast worker's request
    cdContext,    \* the prior state and the card put into it
    cdRequests,   \* fast requests so far
    cdDropped     \* the commands that found the channel full

cdWorkerVars == <<cdPc, cdReq, cdShift, cdGroundedAt, cdStrategyAt, cdPrompt>>
cdFastVars == <<cdFast, cdContext, cdRequests>>
cdVars == <<cdEpoch, cdShared, cdQueue, cdWorkerVars, cdActive, cdCancelled, cdClient, cdFastVars,
            cdDropped>>

CdSession == 0..CdMaxEpoch
CdPrompt == [strategy : CdSession, card : CdSession]
CdNoPrompt == [strategy |-> 0, card |-> 0]
CdCommand == [cmd : {"observe", "reset", "stop"}, epoch : CdSession]

CopilotDepthTypeOK ==
    /\ cdEpoch \in CdSession \ {0}
    /\ cdShared \in [epoch : CdSession \ {0}, strategy : CdSession, card : CdSession,
                     shifts : SUBSET CdSession]
    /\ cdQueue \in Seq(CdCommand) /\ Len(cdQueue) =< CdQueueMax
    /\ cdPc \in {"idle", "shift", "ground", "grounding", "strategy", "prompted", "asking",
                 "answered", "publish", "done"}
    /\ cdReq \in CdSession /\ cdShift \in BOOLEAN
    /\ cdGroundedAt \in CdSession /\ cdStrategyAt \in CdSession
    /\ cdPrompt \in CdPrompt
    /\ cdActive \in BOOLEAN /\ cdCancelled \in BOOLEAN
    /\ cdClient \in {"idle", "cancel", "snapshot", "reset", "stopCancel", "stopSend", "joining",
                     "joined"}
    /\ cdFast \in CdSession /\ cdContext \in CdPrompt
    /\ cdRequests \in 0..CdMaxRequests
    /\ cdDropped \in SUBSET {"observe", "reset", "stop"}

CdFreshShared(epoch) == [epoch |-> epoch, strategy |-> 0, card |-> 0, shifts |-> {}]

CopilotDepthInit ==
    /\ cdEpoch = 1 /\ cdShared = CdFreshShared(1) /\ cdQueue = <<>>
    /\ cdPc = "idle" /\ cdReq = 0 /\ cdShift = FALSE
    /\ cdGroundedAt = 0 /\ cdStrategyAt = 0 /\ cdPrompt = CdNoPrompt
    /\ cdActive = FALSE /\ cdCancelled = FALSE
    /\ cdClient = "idle"
    /\ cdFast = 0 /\ cdContext = CdNoPrompt /\ cdRequests = 0
    /\ cdDropped = {}

-----------------------------------------------------------------------------
\* try_send
CdSend(cmd, epoch) ==
    IF Len(cdQueue) < CdQueueMax
    THEN cdQueue' = Append(cdQueue, [cmd |-> cmd, epoch |-> epoch]) /\ UNCHANGED cdDropped
    ELSE UNCHANGED cdQueue /\ cdDropped' = cdDropped \cup {cmd}

CdCancelActive == cdCancelled' = (cdCancelled \/ cdActive)

CdClientGo(from, to) == cdClient = from /\ cdClient' = to

\* begin_session
CdBeginEpoch ==
    /\ CdClientGo("idle", "cancel")
    /\ cdEpoch < CdMaxEpoch
    /\ cdEpoch' = cdEpoch + 1
    /\ UNCHANGED <<cdShared, cdQueue, cdWorkerVars, cdActive, cdCancelled, cdFastVars, cdDropped>>

CdBeginCancel ==
    /\ CdClientGo("cancel", "snapshot")
    /\ CdCancelActive
    /\ UNCHANGED <<cdEpoch, cdShared, cdQueue, cdWorkerVars, cdActive, cdFastVars, cdDropped>>

CdBeginSnapshot ==
    /\ CdClientGo("snapshot", "reset")
    /\ cdShared' = CdFreshShared(cdEpoch)
    /\ UNCHANGED <<cdEpoch, cdQueue, cdWorkerVars, cdActive, cdCancelled, cdFastVars, cdDropped>>

CdBeginReset ==
    /\ CdClientGo("reset", "idle")
    /\ CdSend("reset", 0)
    /\ UNCHANGED <<cdEpoch, cdShared, cdWorkerVars, cdActive, cdCancelled, cdFastVars>>

\* stop; the fast worker is joined before the depth worker is
CdStopCancel ==
    /\ CdClientGo("idle", "stopSend")
    /\ CdCancelActive
    /\ UNCHANGED <<cdEpoch, cdShared, cdQueue, cdWorkerVars, cdActive, cdFastVars, cdDropped>>

CdStopSend ==
    /\ CdClientGo("stopSend", "joining")
    /\ CdSend("stop", 0)
    /\ UNCHANGED <<cdEpoch, cdShared, cdWorkerVars, cdActive, cdCancelled, cdFastVars>>

CdJoin ==
    /\ CdClientGo("joining", "joined")
    /\ cdPc = "done" /\ cdFast = 0
    /\ UNCHANGED <<cdEpoch, cdShared, cdQueue, cdWorkerVars, cdActive, cdCancelled, cdFastVars,
                   cdDropped>>

-----------------------------------------------------------------------------
(* The fast worker, as far as it meets the depth lane *)

\* A request is submitted, which cancels the strategy call under way, and
\* taken; try_lock may find the snapshot locked.
CdFastTake ==
    /\ cdClient = "idle" /\ cdFast = 0 /\ cdRequests < CdMaxRequests
    /\ cdRequests' = cdRequests + 1
    /\ cdFast' = cdEpoch
    /\ CdCancelActive
    /\ cdContext' \in {CdNoPrompt}
         \cup IF cdShared.epoch = cdEpoch
              THEN {[strategy |-> cdShared.strategy, card |-> cdShared.card]} ELSE {}
    /\ UNCHANGED <<cdEpoch, cdShared, cdQueue, cdWorkerVars, cdActive, cdClient, cdDropped>>

\* The model has answered.  The look at the request's currency came before
\* this send, so a new session may have begun meanwhile; a stale or a partial
\* request is not sent.
CdFastObserve ==
    /\ cdFast # 0
    /\ \/ CdSend("observe", cdFast)
       \/ UNCHANGED <<cdQueue, cdDropped>>
    /\ cdFast' = 0 /\ cdContext' = CdNoPrompt
    /\ UNCHANGED <<cdEpoch, cdShared, cdWorkerVars, cdActive, cdCancelled, cdClient, cdRequests>>

-----------------------------------------------------------------------------
(* run_depth_worker *)

CdGo(from, to) == cdPc = from /\ cdPc' = to

\* Reset clears the snapshot, the detector and the two times.
CdResetWorker ==
    /\ cdShared' = CdFreshShared(cdShared.epoch)
    /\ cdGroundedAt' = 0 /\ cdStrategyAt' = 0
    /\ UNCHANGED <<cdPc, cdReq, cdShift>>

CdTake ==
    /\ cdPc = "idle" /\ cdQueue # <<>>
    /\ cdQueue' = Tail(cdQueue)
    /\ LET c == Head(cdQueue) IN
       CASE c.cmd = "observe" ->
              /\ IF cdShared.epoch = c.epoch
                 THEN cdPc' = "shift" /\ cdReq' = c.epoch /\ cdShift' \in BOOLEAN
                 ELSE UNCHANGED <<cdPc, cdReq, cdShift>>
              /\ UNCHANGED <<cdShared, cdGroundedAt, cdStrategyAt>>
         [] c.cmd = "reset" -> CdResetWorker
         [] c.cmd = "stop" ->
              cdPc' = "done" /\ UNCHANGED <<cdShared, cdReq, cdShift, cdGroundedAt, cdStrategyAt>>
    /\ UNCHANGED <<cdEpoch, cdPrompt, cdActive, cdCancelled, cdClient, cdFastVars, cdDropped>>

\* The shift is counted without another look at the epoch.
CdCountShift ==
    /\ CdGo("shift", "ground")
    /\ cdShared' = IF cdShift THEN [cdShared EXCEPT !.shifts = @ \cup {cdReq}] ELSE cdShared
    /\ UNCHANGED <<cdEpoch, cdQueue, cdReq, cdShift, cdGroundedAt, cdStrategyAt, cdPrompt,
                   cdActive, cdCancelled, cdClient, cdFastVars, cdDropped>>

\* grounding_due; source.refresh runs without a lock
CdGroundingDue ==
    /\ cdPc = "ground"
    /\ \/ cdPc' = "grounding"
       \/ cdGroundedAt # 0 /\ ~cdShift /\ cdPc' = "strategy"
    /\ UNCHANGED <<cdEpoch, cdShared, cdQueue, cdReq, cdShift, cdGroundedAt, cdStrategyAt,
                   cdPrompt, cdActive, cdCancelled, cdClient, cdFastVars, cdDropped>>

\* A card, an error, or a card for a session that is over
CdGrounded ==
    /\ cdPc = "grounding"
    /\ \/ /\ cdShared.epoch = cdReq
          /\ cdShared' = [cdShared EXCEPT !.card = cdReq]
          /\ cdPc' = "strategy" /\ cdGroundedAt' = cdReq
       \/ cdPc' = "strategy" /\ cdGroundedAt' = cdReq /\ UNCHANGED cdShared
       \/ cdShared.epoch # cdReq /\ cdPc' = "idle" /\ UNCHANGED <<cdShared, cdGroundedAt>>
    /\ UNCHANGED <<cdEpoch, cdQueue, cdReq, cdShift, cdStrategyAt, cdPrompt, cdActive,
                   cdCancelled, cdClient, cdFastVars, cdDropped>>

\* strategy_reason; the prior state and the card are read without a look at the
\* epoch.
CdPrompted ==
    /\ CdGo("strategy", "prompted")
    /\ cdPrompt' = [strategy |-> cdShared.strategy, card |-> cdShared.card]
    /\ UNCHANGED <<cdEpoch, cdShared, cdQueue, cdReq, cdShift, cdGroundedAt, cdStrategyAt,
                   cdActive, cdCancelled, cdClient, cdFastVars, cdDropped>>

\* The token is put where submit, begin_session and stop find it.
CdAskStrategy ==
    /\ CdGo("prompted", "asking")
    /\ cdActive' = TRUE /\ cdCancelled' = FALSE
    /\ UNCHANGED <<cdEpoch, cdShared, cdQueue, cdReq, cdShift, cdGroundedAt, cdStrategyAt,
                   cdPrompt, cdClient, cdFastVars, cdDropped>>

\* Neither initial, nor a shift, nor decisive, nor due
CdSkipStrategy ==
    /\ CdGo("strategy", "idle")
    /\ cdStrategyAt # 0 /\ ~cdShift
    /\ UNCHANGED <<cdEpoch, cdShared, cdQueue, cdReq, cdShift, cdGroundedAt, cdStrategyAt,
                   cdPrompt, cdActive, cdCancelled, cdClient, cdFastVars, cdDropped>>

\* refresh_strategy returns and the token is taken back.
CdAnswered ==
    /\ CdGo("asking", "answered")
    /\ cdActive' = FALSE
    /\ UNCHANGED <<cdEpoch, cdShared, cdQueue, cdReq, cdShift, cdGroundedAt, cdStrategyAt,
                   cdPrompt, cdCancelled, cdClient, cdFastVars, cdDropped>>

\* Cancelled or failed, the time is set all the same.
CdJudge ==
    /\ cdPc = "answered"
    /\ \/ ~cdCancelled /\ cdPc' = "publish" /\ UNCHANGED cdStrategyAt
       \/ cdPc' = "idle" /\ cdStrategyAt' = cdReq
    /\ UNCHANGED <<cdEpoch, cdShared, cdQueue, cdReq, cdShift, cdGroundedAt, cdPrompt, cdActive,
                   cdCancelled, cdClient, cdFastVars, cdDropped>>

\* Mutant of CdPublish: the epoch is not looked at again.
CdPublishAnyway ==
    /\ CdGo("publish", "idle")
    /\ cdShared' = [cdShared EXCEPT !.strategy = cdReq]
    /\ cdStrategyAt' = cdReq
    /\ UNCHANGED <<cdEpoch, cdQueue, cdReq, cdShift, cdGroundedAt, cdPrompt, cdActive,
                   cdCancelled, cdClient, cdFastVars, cdDropped>>

CdPublish ==
    /\ CdGo("publish", "idle")
    /\ IF cdShared.epoch = cdReq
       THEN cdShared' = [cdShared EXCEPT !.strategy = cdReq] /\ cdStrategyAt' = cdReq
       ELSE UNCHANGED <<cdShared, cdStrategyAt>>
    /\ UNCHANGED <<cdEpoch, cdQueue, cdReq, cdShift, cdGroundedAt, cdPrompt, cdActive,
                   cdCancelled, cdClient, cdFastVars, cdDropped>>

-----------------------------------------------------------------------------
CdWorkerNext ==
    \/ CdTake \/ CdCountShift \/ CdGroundingDue \/ CdGrounded
    \/ CdPrompted \/ CdAskStrategy \/ CdSkipStrategy \/ CdAnswered \/ CdJudge \/ CdPublish

CdFastNext == CdFastTake \/ CdFastObserve

CdClientNext ==
    \/ CdBeginEpoch \/ CdBeginCancel \/ CdBeginSnapshot \/ CdBeginReset
    \/ CdStopCancel \/ CdStopSend \/ CdJoin

CopilotDepthNext == CdWorkerNext \/ CdFastNext \/ CdClientNext

CopilotDepthSpec == CopilotDepthInit /\ [][CopilotDepthNext]_cdVars

\* The workers run, calls to the models return, and stop is one call.
CopilotDepthFairness ==
    WF_cdVars(CdWorkerNext) /\ WF_cdVars(CdFastObserve) /\ WF_cdVars(CdStopSend \/ CdJoin)

-----------------------------------------------------------------------------
(* Properties *)

\* Nothing of one conversation reaches the model in another: the context of a
\* fast request and the prompt of a strategy call are of their own session,
\* however begin_session's steps fall between the workers' (runner.rs:915,
\* 1141, 1178, 1210).
ContextIsOwn ==
    /\ cdFast # 0 =>
          cdContext.strategy \in {0, cdFast} /\ cdContext.card \in {0, cdFast}
    /\ cdPc = "asking" => cdPrompt.strategy \in {0, cdReq} /\ cdPrompt.card \in {0, cdReq}

\* The snapshot that health and the relay publish is of its session.  A topic
\* shift is counted without a look at the epoch (runner.rs:1100), so an old one
\* may be in it until the worker has taken the Reset, or for good if the Reset
\* was dropped.
SnapshotIsOwn ==
    /\ cdShared.strategy \in {0, cdShared.epoch}
    /\ cdShared.card \in {0, cdShared.epoch}
    /\ \/ cdShared.shifts \subseteq {cdShared.epoch}
       \/ cdClient = "reset"
       \/ \E i \in DOMAIN cdQueue : cdQueue[i].cmd = "reset"
       \/ "reset" \in cdDropped

\* The first final of a session is an initial one: it refreshes the card and
\* the strategy at once.  A Reset that found the channel full leaves the times
\* of the old session, and the new one waits for the interval.
FirstFinalRefreshes ==
    cdPc = "ground" /\ cdReq = cdShared.epoch /\ "reset" \notin cdDropped =>
        cdGroundedAt \in {0, cdReq} /\ cdStrategyAt \in {0, cdReq}

\* A strategy whose call was cancelled is not published, even if it came: the
\* token is out of reach when it is looked at (runner.rs:1205).
CancelledUnpublished == cdPc = "publish" => ~cdCancelled

\* What the depth lane gives the models and publishes is of its own session, from
\* the session's first final on, and nothing cancelled (runner.rs:1059-1266).
DepthIsOwn ==
    /\ ContextIsOwn
    /\ SnapshotIsOwn
    /\ FirstFinalRefreshes
    /\ CancelledUnpublished

\* stop waits for the worker, and its command did not find the channel full:
\* then the worker waits for another one, and join for the worker (runner.rs:755).
CdStopWaits == cdClient = "joining" /\ "stop" \notin cdDropped

=============================================================================
