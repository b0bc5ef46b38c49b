----------------------------- MODULE MCServices ------------------------------
(***************************************************************************)
(* One run for the components that share no state with each other.  "part" *)
(* says which of them a behaviour is about; the others stay as they began, *)
(* in one initial state, since interleaving them would show nothing more.  *)
(***************************************************************************)
EXTENDS EventLog, LiveSidekick, CopilotRunner, CopilotDepth, CopilotControl, CaptureRelay,
        Watcher, AppRecording, DesktopControl, CallEnd, ParakeetSidecar, LiveQueue,
        MeetingDocument, TLC

CONSTANTS w1, w2, r1, e1, e2, t1, c1, m1, p1, p2, s1, d1, q1, q2, k1, a1, a2, f1, g1, n1, n2,
          v1, v2, j1, j2, j3, u1, u2, x1, x2

VARIABLE part

MCEvWriters == {w1, w2}
MCEvReaders == {r1}
MCLsIds == {e1, e2}
MCLsObserved == {e1}
MCLsTurnIds == {t1}
MCLsCaptures == {c1}
MCLsMeetings == {m1}
MCLsLabels == {p1}
MCLsNames == {p2}
MCLsGenerations == {1}
MCCrPartials == {<<1, 1>>}
MCCoSessions == {s1, d1}
MCCoDesktop == {d1}
MCCoCommands == {q1, q2}
MCCoAppCommands == {q1}
MCRlClients == {k1}
MCWtWatchers == {a1, a2}
MCWtNames == {f1}
MCDkRequests == {g1}
MCCeCountdowns == {n1, n2}
MCPsModels == {v1, v2}
MCMdWorker == {j1}
MCMdJobs == {j1, j2, j3}
MCMdApp == {u1, u2}
MCMdCommands == {x1, x2}
MCMdThere == {{}, {j2, j3}, {j1, u1}, {j2, x1}, {u1, u2}, {u1, x1}, {x1, x2}}

servicesVars ==
    <<part, evVars, lsVars, crVars, cdVars, coVars, rlVars, wtVars, apVars, dkVars, ceVars, psVars,
      lqVars, mdVars>>

ServicesInit ==
    /\ part \in {"events", "sidekick", "runner", "depth", "control", "relay", "watcher", "app",
               "desktop", "callend", "parakeet", "livequeue", "documents"}
    /\ EventLogInit /\ (part = "events" \/ evLegacy = 0)
    /\ LiveSidekickInit /\ (part = "sidekick" \/ lsPosture = "on_demand")
    /\ CopilotRunnerInit
    /\ CopilotDepthInit
    /\ CopilotControlInit
    /\ CaptureRelayInit
    /\ WatcherInit /\ (part = "watcher" \/ wtBatching = FALSE)
    /\ DesktopControlInit /\ (part = "app" \/ apOthers = 0)
    /\ CallEndInit
    /\ ParakeetSidecarInit /\ (part = "parakeet" \/ psBlackFile = FALSE)
    /\ LiveQueueInit
    /\ MeetingDocumentInit /\ (part = "documents" <=> DOMAIN mdAt # {})

OnlyEventLog(A) ==
    /\ part = "events"
    /\ A
    /\ UNCHANGED <<part, lsVars, crVars, cdVars, coVars, rlVars, wtVars, apVars, dkVars, ceVars,
                   psVars, lqVars, mdVars>>

OnlyLiveSidekick(A) ==
    /\ part = "sidekick"
    /\ A
    /\ UNCHANGED <<part, evVars, crVars, cdVars, coVars, rlVars, wtVars, apVars, dkVars, ceVars,
                   psVars, lqVars, mdVars>>

OnlyCopilotRunner(A) ==
    /\ part = "runner"
    /\ A
    /\ UNCHANGED <<part, evVars, lsVars, cdVars, coVars, rlVars, wtVars, apVars, dkVars, ceVars,
                   psVars, lqVars, mdVars>>

OnlyCopilotDepth(A) ==
    /\ part = "depth"
    /\ A
    /\ UNCHANGED <<part, evVars, lsVars, crVars, coVars, rlVars, wtVars, apVars, dkVars, ceVars,
                   psVars, lqVars, mdVars>>

OnlyCopilotControl(A) ==
    /\ part = "control"
    /\ A
    /\ UNCHANGED <<part, evVars, lsVars, crVars, cdVars, rlVars, wtVars, apVars, dkVars, ceVars,
                   psVars, lqVars, mdVars>>

OnlyCaptureRelay(A) ==
    /\ part = "relay"
    /\ A
    /\ UNCHANGED <<part, evVars, lsVars, crVars, cdVars, coVars, wtVars, apVars, dkVars, ceVars,
                   psVars, lqVars, mdVars>>

OnlyWatcher(A) ==
    /\ part = "watcher"
    /\ A
    /\ UNCHANGED <<part, evVars, lsVars, crVars, cdVars, coVars, rlVars, apVars, dkVars, ceVars,
                   psVars, lqVars, mdVars>>

OnlyAppRecording(A) ==
    /\ part = "app"
    /\ A
    /\ UNCHANGED <<part, evVars, lsVars, crVars, cdVars, coVars, rlVars, wtVars, dkVars, ceVars,
                   psVars, lqVars, mdVars>>

OnlyDesktopControl(A) ==
    /\ part = "desktop"
    /\ A
    /\ UNCHANGED <<part, evVars, lsVars, crVars, cdVars, coVars, rlVars, wtVars, ceVars, psVars,
                   lqVars, mdVars>>

OnlyCallEnd(A) ==
    /\ part = "callend"
    /\ A
    /\ UNCHANGED <<part, evVars, lsVars, crVars, cdVars, coVars, rlVars, wtVars, apVars, dkVars,
                   psVars, lqVars, mdVars>>

OnlyParakeetSidecar(A) ==
    /\ part = "parakeet"
    /\ A
    /\ UNCHANGED <<part, evVars, lsVars, crVars, cdVars, coVars, rlVars, wtVars, apVars, dkVars,
                   ceVars, lqVars, mdVars>>

OnlyLiveQueue(A) ==
    /\ part = "livequeue"
    /\ A
    /\ UNCHANGED <<part, evVars, lsVars, crVars, cdVars, coVars, rlVars, wtVars, apVars, dkVars,
                   ceVars, psVars, mdVars>>

OnlyMeetingDocument(A) ==
    /\ part = "documents"
    /\ A
    /\ UNCHANGED <<part, evVars, lsVars, crVars, cdVars, coVars, rlVars, wtVars, apVars, dkVars,
                   ceVars, psVars, lqVars>>

ServicesNext ==
    \/ OnlyEventLog(EventLogNext)
    \/ OnlyLiveSidekick(LiveSidekickNext)
    \/ OnlyCopilotRunner(CopilotRunnerNext)
    \/ OnlyCopilotDepth(CopilotDepthNext)
    \/ OnlyCopilotControl(CopilotControlNext)
    \/ OnlyCaptureRelay(CaptureRelayNext)
    \/ OnlyWatcher(WatcherNext)
    \/ OnlyAppRecording(AppRecordingNext)
    \/ OnlyDesktopControl(DesktopControlNext)
    \/ OnlyCallEnd(CallEndNext)
    \/ OnlyParakeetSidecar(ParakeetSidecarNext)
    \/ OnlyLiveQueue(LiveQueueNext)
    \/ OnlyMeetingDocument(MeetingDocumentNext)

\* The fairness of each component, said of its own steps.
ServicesFairness ==
    /\ WF_crVars(part = "runner" /\ CrWorkerNext)
    /\ WF_crVars(part = "runner" /\ CrJoin)
    /\ WF_cdVars(part = "depth" /\ CdWorkerNext)
    /\ WF_cdVars(part = "depth" /\ CdFastObserve)
    /\ WF_cdVars(part = "depth" /\ (CdStopSend \/ CdJoin))
    /\ WF_rlVars(part = "relay" /\ RlStopped)
    /\ \A c \in RlClients : WF_rlVars(part = "relay" /\ RlThreadNext(c))
    /\ \A c \in RlClients : WF_rlVars(part = "relay" /\ RlRead(c))
    /\ WF_ceVars(part = "callend" /\ CeThreadNext)
    /\ WF_ceVars(part = "callend" /\ CeDetectorNext)
    /\ \A c \in CeCountdowns : WF_ceVars(part = "callend" /\ CeCountdownNext(c))
    /\ WF_psVars(part = "parakeet" /\ PsCallNext)
    /\ WF_psVars(part = "parakeet" /\ PsShutdownDone)
    /\ WF_lqVars(part = "livequeue" /\ LqConsumerNext)
    /\ WF_lqVars(part = "livequeue" /\ LqWorkerNext)

ServicesSpec == ServicesInit /\ [][ServicesNext]_servicesVars /\ ServicesFairness

-----------------------------------------------------------------------------
\* Whoever stops the Coach, its depth lane or the capture relay gets it stopped,
\* whatever they were doing, whatever was queued and however often clients come
\* and go (runner.rs:737, relay.rs:378); a recording whose call has ended in good
\* order stops, if nobody keeps it on (call_detect.rs:586); the Parakeet manager
\* can be shut down, unless its holder panicked (parakeet_sidecar.rs:742); and the
\* live sidecar ends with its recording (live_transcript.rs:2367).
StopWaits ==
    CrStopWaits \/ CdStopWaits \/ RlStopWaits \/ CeStopWaits \/ PsStopWaits \/ LqStopWaits

StopsReturn == StopWaits ~> ~StopWaits

\* One type invariant for all: states, slots, counters and channels stay in their
\* ranges, the bounds of the channels and of the retained history among them, and
\* what a step's name says of the files and flags it holds is so.
ServicesTypeOK ==
    /\ part = "events" => EventLogTypeOK
    /\ part = "sidekick" => LiveSidekickTypeOK
    /\ part = "runner" => CopilotRunnerTypeOK
    /\ part = "depth" => CopilotDepthTypeOK
    /\ part = "control" => CopilotControlTypeOK
    /\ part = "relay" => CaptureRelayTypeOK
    /\ part = "watcher" => WatcherTypeOK
    /\ part \in {"app", "desktop"} => AppRecordingTypeOK
    /\ part = "desktop" => DesktopControlTypeOK
    /\ part = "callend" => CallEndTypeOK
    /\ part = "parakeet" => ParakeetSidecarTypeOK
    /\ part = "livequeue" => LiveQueueTypeOK
    /\ part = "documents" => MeetingDocumentTypeOK

==============================================================================
