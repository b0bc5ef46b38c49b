--------------------------- MODULE ServicesProofs ---------------------------
(***************************************************************************)
(* The services run side by side: what is proved of the types of each      *)
(* holds of the whole, whatever the values of their constants.             *)
(***************************************************************************)
EXTENDS MCServices, FileProofs, CopilotProofs, TranscriptionProofs, DesktopProofs, TLAPS

\* The app's launches, without the requests that lead to some of them.
IsApp == part = "app"

\* A part is one for good.
LEMMA PartsApart ==
    [ServicesNext]_servicesVars =>
           /\ part' = part
           /\ part = "app" => [AppRecordingNext]_apVars
           /\ part # "app" => [DesktopControlNext]_<<apVars, dkVars>>
BY DEF ServicesNext, servicesVars, OnlyEventLog, OnlyLiveSidekick, OnlyCopilotRunner,
       OnlyCopilotDepth, OnlyCopilotControl, OnlyCaptureRelay, OnlyWatcher, OnlyAppRecording,
       OnlyDesktopControl, OnlyCallEnd, OnlyParakeetSidecar, OnlyLiveQueue, OnlyMeetingDocument

\* A step of the services is a step of each, or leaves it alone.
LEMMA StepOfEach ==
    [ServicesNext]_servicesVars =>
           /\ [EventLogNext]_evVars /\ [LiveSidekickNext]_lsVars
           /\ [CopilotRunnerNext]_crVars /\ [CopilotDepthNext]_cdVars
           /\ [CopilotControlNext]_coVars /\ [CaptureRelayNext]_rlVars
           /\ [WatcherNext]_wtVars /\ [CallEndNext]_ceVars
           /\ [ParakeetSidecarNext]_psVars /\ [LiveQueueNext]_lqVars
           /\ [MeetingDocumentNext]_mdVars
BY DEF ServicesNext, servicesVars, OnlyEventLog, OnlyLiveSidekick, OnlyCopilotRunner,
       OnlyCopilotDepth, OnlyCopilotControl, OnlyCaptureRelay, OnlyWatcher, OnlyAppRecording,
       OnlyDesktopControl, OnlyCallEnd, OnlyParakeetSidecar, OnlyLiveQueue, OnlyMeetingDocument

\* In a run of the services each keeps its types: states, slots, counters and
\* channels stay in their ranges, and what a step's name says of the files and flags
\* it holds is so.
THEOREM ServicesTyping == ServicesSpec => []ServicesTypeOK
<1>1. ServicesSpec => ServicesInit /\ [][ServicesNext]_servicesVars
  BY DEF ServicesSpec
<1>2. ServicesInit =>
          /\ EventLogInit /\ LiveSidekickInit /\ CopilotRunnerInit /\ CopilotDepthInit
          /\ CopilotControlInit /\ CaptureRelayInit /\ WatcherInit /\ DesktopControlInit
          /\ CallEndInit /\ ParakeetSidecarInit /\ LiveQueueInit /\ MeetingDocumentInit
  BY DEF ServicesInit
<1>3. DesktopControlInit => AppRecordingInit
  BY DEF DesktopControlInit
<1>4. ServicesSpec => [](EventLogTypeOK /\ LiveSidekickTypeOK /\ MeetingDocumentTypeOK)
  BY <1>1, <1>2, StepOfEach, LogTyping, SessionTyping, DocumentTyping, PTL
     DEF EventLogSpec, LiveSidekickSpec, MeetingDocumentSpec
<1>5. ServicesSpec => [](CopilotRunnerTypeOK /\ CopilotDepthTypeOK)
  BY <1>1, <1>2, StepOfEach, RunnerTyping, DepthTyping, PTL
     DEF CopilotRunnerSpec, CopilotDepthSpec
<1>6. ServicesSpec => [](CopilotControlTypeOK /\ CaptureRelayTypeOK)
  BY <1>1, <1>2, StepOfEach, ControlTyping, RelayTyping, PTL
     DEF CopilotControlSpec, CaptureRelaySpec
<1>7. ServicesSpec => [](WatcherTypeOK /\ CallEndTypeOK)
  BY <1>1, <1>2, StepOfEach, WatcherTyping, CeStayTyped, PTL DEF WatcherSpec
<1>8. ServicesSpec => [](ParakeetSidecarTypeOK /\ LiveQueueTypeOK)
  BY <1>1, <1>2, StepOfEach, PsTypes, LqTypes, PTL
<1>9. ServicesSpec => []((IsApp => AppRecordingTypeOK) /\ (~IsApp => DesktopControlTypeOK))
  <2>1. IsApp /\ [ServicesNext]_servicesVars => IsApp' /\ [AppRecordingNext]_apVars
    BY PartsApart DEF IsApp
  <2>2. ~IsApp /\ [ServicesNext]_servicesVars =>
            ~IsApp' /\ [DesktopControlNext]_<<apVars, dkVars>>
    BY PartsApart DEF IsApp
  <2>3. ServicesSpec /\ IsApp => []IsApp /\ []AppRecordingTypeOK
    BY <1>1, <1>2, <1>3, <2>1, Typing, PTL DEF AppRecordingSpec
  <2>4. ServicesSpec /\ ~IsApp => []~IsApp /\ []DesktopControlTypeOK
    BY <1>1, <1>2, <2>2, RequestTyping, PTL DEF DesktopControlSpec
  <2> QED BY <2>3, <2>4, PTL
<1>10. DesktopControlTypeOK => AppRecordingTypeOK
  BY DEF DesktopControlTypeOK
<1>11. /\ EventLogTypeOK /\ LiveSidekickTypeOK /\ MeetingDocumentTypeOK
       /\ CopilotRunnerTypeOK /\ CopilotDepthTypeOK /\ CopilotControlTypeOK /\ CaptureRelayTypeOK
       /\ WatcherTypeOK /\ CallEndTypeOK /\ ParakeetSidecarTypeOK /\ LiveQueueTypeOK
       /\ IsApp => AppRecordingTypeOK
       /\ ~IsApp => DesktopControlTypeOK
       => ServicesTypeOK
  BY <1>10 DEF ServicesTypeOK, IsApp
<1> QED BY <1>4, <1>5, <1>6, <1>7, <1>8, <1>9, <1>11, PTL

=============================================================================
