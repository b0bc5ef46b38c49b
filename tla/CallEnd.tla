------------------------------ MODULE CallEnd -------------------------------
(***************************************************************************)
(* The end of a call (tauri/src-tauri/src/call_detect.rs): a recording     *)
(* that was started from the banner of a detected call is stopped by a     *)
(* countdown once the call is over, unless the user keeps it.  Detector,   *)
(* countdown threads, recording threads and user share flags of AppState.  *)
(*                                                                         *)
(* Recordings are coarse here: one is "over" once its PID file is gone;    *)
(* how they are launched is AppRecording's matter.  Left out: which        *)
(* application a call belongs to, notifications and reminders; call        *)
(* detection and stop_when_call_ends are on.                               *)
(***************************************************************************)
EXTENDS Naturals, FiniteSets, FiniteSetsExt

CONSTANTS
    CeMaxRecordings, \* bound: recordings, numbered in order
    CeMaxCalls,      \* bound: calls
    CeCountdowns     \* countdown threads

ASSUME CeAssumption ==
    CeMaxRecordings \in Nat /\ CeMaxCalls \in Nat /\ IsFiniteSet(CeCountdowns)

VARIABLES
    cePhase,     \* each recording's phase
    ceKind,      \* where it was started from
    ceRecording, ceByCall, ceStopFlag,   \* AppState
    ceActive, ceCancel, ceTerminal,      \* AppState: the countdown's flags
    cePoll,      \* the detector's poll and what it read at its start
    ceKnown,     \* active_call: none, live, or its end was announced
    ceCountdown, \* the countdown threads
    ceCall, ceCalls, \* whether a call is on; calls so far
    ceKept,      \* the user kept the recording on after this call's end
    ceDue        \* a call ended in good order: its recording is to stop

ceRecordings == <<cePhase, ceKind, ceRecording, ceStopFlag>>
ceFlags == <<ceActive, ceCancel, ceTerminal>>
ceDetection == <<cePoll, ceKnown>>
ceCallVars == <<ceCall, ceCalls>>
ceHistory == <<ceKept, ceDue>>
ceVars == <<ceRecordings, ceByCall, ceFlags, ceDetection, ceCountdown, ceCallVars, ceHistory>>

CeAll == 1..CeMaxRecordings
CeCapturing == {i \in CeAll : cePhase[i] = "capturing"}
CeEnding == {i \in CeAll : cePhase[i] \in {"over", "cleared"}}
CeIdle == [pc |-> "idle", for |-> 0, stale |-> FALSE]
CeNoPoll == [on |-> FALSE, watched |-> FALSE, seen |-> 0]

CallEndTypeOK ==
    /\ cePhase \in [CeAll -> {"none", "starting", "capturing", "over", "cleared", "gone"}]
    /\ ceKind \in [CeAll -> {"none", "banner", "window", "direct"}]
    /\ \A flag \in {ceRecording, ceByCall, ceStopFlag, ceActive, ceCancel, ceCall, ceKept, ceDue} :
         flag \in BOOLEAN
    /\ ceTerminal \in {"none", "user", "fired", "stopped"}
    /\ cePoll \in [on : BOOLEAN, watched : BOOLEAN, seen : 0..CeMaxRecordings]
    /\ ceKnown \in {"none", "live", "ended"}
    /\ ceCountdown \in [CeCountdowns -> [pc : {"idle", "ticking", "fired"},
                                         for : 0..CeMaxRecordings, stale : BOOLEAN]]
    /\ ceCalls \in 0..CeMaxCalls
    \* The detector never defers to a countdown that is gone.
    /\ ceActive => \E c \in CeCountdowns : ceCountdown[c].pc # "idle"

CallEndInit ==
    /\ cePhase = [i \in CeAll |-> "none"] /\ ceKind = [i \in CeAll |-> "none"]
    /\ ceRecording = FALSE /\ ceByCall = FALSE /\ ceStopFlag = FALSE
    /\ ceActive = FALSE /\ ceCancel = FALSE /\ ceTerminal = "none"
    /\ cePoll = CeNoPoll /\ ceKnown = "none"
    /\ ceCountdown = [c \in CeCountdowns |-> CeIdle]
    /\ ceCall = FALSE /\ ceCalls = 0
    /\ ceKept = FALSE /\ ceDue = FALSE

-----------------------------------------------------------------------------
(* Recordings *)

CeGo(i, from, to) == cePhase[i] = from /\ cePhase' = [cePhase EXCEPT ![i] = to]

\* A countdown ticks four times a second.  While a recording starts, and during
\* the second that a poll sleeps first, one that is to end has ended.
CeTicked ==
    \A c \in CeCountdowns :
        ceCountdown[c].pc = "idle" \/ (ceCountdown[c].pc = "ticking" /\ ~ceCancel /\ ceRecording)

\* prepare_cmd_recording_launch; the palette, a hotkey and desktop control go
\* without it.
CeStart(i, kind) ==
    /\ \A j \in 1..(i - 1) : cePhase[j] \in {"over", "cleared", "gone"}
    /\ ~ceRecording
    /\ CeGo(i, "none", "starting")
    /\ ceKind' = [ceKind EXCEPT ![i] = kind]
    /\ IF kind = "direct" THEN UNCHANGED <<ceByCall, ceFlags, ceKept>>
       ELSE /\ ceByCall' = (kind = "banner")
            /\ ceTerminal' = "none" /\ ceCancel' = TRUE /\ ceActive' = FALSE
            /\ ceKept' = FALSE
    /\ UNCHANGED <<ceRecording, ceStopFlag, ceDetection, ceCountdown, ceCallVars, ceDue>>

CeBegin(i) ==
    /\ CeTicked
    /\ CeGo(i, "starting", "capturing")
    /\ ceRecording' = TRUE /\ ceStopFlag' = FALSE
    /\ UNCHANGED <<ceKind, ceByCall, ceFlags, ceDetection, ceCountdown, ceCallVars, ceHistory>>

\* The start fails, or the capture ends.
CeEnd(i) ==
    /\ CeGo(i, "starting", "over") \/ CeGo(i, "capturing", "over")
    /\ ceRecording' = FALSE /\ ceDue' = FALSE
    /\ UNCHANGED <<ceKind, ceByCall, ceStopFlag, ceFlags, ceDetection, ceCountdown, ceCallVars, ceKept>>

CeStopped(i) == cePhase[i] = "capturing" /\ ceStopFlag /\ CeEnd(i)

\* The last stores, which do not ask whether another recording has begun ...
CeClear(i) ==
    /\ CeGo(i, "over", "cleared")
    /\ ceRecording' = FALSE /\ ceDue' = FALSE
    /\ UNCHANGED <<ceKind, ceByCall, ceStopFlag, ceFlags, ceDetection, ceCountdown, ceCallVars, ceKept>>

\* ... and the drop of CallDetectSessionGuard.
CeDrop(i) ==
    /\ CeGo(i, "cleared", "gone")
    /\ ceByCall' = FALSE /\ ceCancel' = TRUE /\ ceDue' = FALSE
    /\ UNCHANGED <<ceKind, ceRecording, ceStopFlag, ceActive, ceTerminal, ceDetection, ceCountdown,
                   ceCallVars, ceKept>>

-----------------------------------------------------------------------------
(* The call, and the detector *)

CeCallStarts ==
    /\ ~ceCall /\ ceCalls < CeMaxCalls
    /\ ceCall' = TRUE /\ ceCalls' = ceCalls + 1 /\ ceDue' = FALSE
    /\ UNCHANGED <<ceRecordings, ceByCall, ceFlags, ceDetection, ceCountdown, ceKept>>

\* It ends in good order for the recording that its banner started, when the
\* detector knows of both and no older recording is still in its last steps.
CeCallEnds ==
    /\ ceCall
    /\ ceCall' = FALSE
    /\ ceDue' = ( /\ \E i \in CeCapturing : ceKind[i] = "banner"
                  /\ CeEnding = {}
                  /\ ceByCall /\ ceRecording /\ ceKnown = "live" /\ ~ceKept
                  /\ cePoll.on => cePoll.watched)
    /\ UNCHANGED <<ceRecordings, ceByCall, ceFlags, ceDetection, ceCountdown, ceCalls, ceKept>>

\* A poll reads the flags first; a recording that the banner did not start is
\* not watched, and the call is forgotten while there is a dictation.
CePollStarts ==
    /\ ~cePoll.on /\ CeTicked
    /\ ceRecording => ceByCall
    /\ \/ /\ cePoll' = [on |-> TRUE, watched |-> ceRecording /\ ceByCall,
                        seen |-> IF CeCapturing = {} THEN 0 ELSE Max(CeCapturing)]
          /\ UNCHANGED ceKnown
       \/ ~ceByCall /\ ceKnown' = "none" /\ UNCHANGED cePoll
    /\ UNCHANGED <<ceRecordings, ceByCall, ceFlags, ceCountdown, ceCallVars, ceHistory>>

\* The probes, which take seconds, find the call: it is (still, again) on.
CeDetected ==
    /\ cePoll.on /\ ceCall
    /\ cePoll' = CeNoPoll
    /\ IF cePoll.watched
       THEN ceCancel' = (ceCancel \/ ceActive) /\ ceKnown' = "live" /\ ceKept' = FALSE
       ELSE /\ ceKnown' = IF ceKnown = "none" THEN "live" ELSE ceKnown
            /\ UNCHANGED <<ceCancel, ceKept>>
    /\ UNCHANGED <<ceRecordings, ceByCall, ceActive, ceTerminal, ceCountdown, ceCallVars, ceDue>>

\* arm_call_end_countdown
CeArm(c) ==
    /\ ceCountdown[c].pc = "idle"
    /\ ceActive' = TRUE /\ ceTerminal' = "none" /\ ceCancel' = FALSE
    /\ ceCountdown' = [ceCountdown EXCEPT ![c] =
         [pc |-> "ticking", for |-> cePoll.seen,
          stale |-> ~(ceRecording /\ ceByCall /\ cePoll.seen \in CeCapturing)]]

CeMayArm == ceKnown = "live" \/ (ceKnown = "ended" /\ ceTerminal = "none")

\* They find none: decide_no_call_action and what follows from it.
CeNoCall ==
    /\ cePoll.on /\ ~ceCall
    /\ cePoll' = CeNoPoll
    /\ \/ ceActive /\ UNCHANGED <<ceKnown, ceFlags, ceCountdown>> \* DeferToCountdown
       \/ /\ ~ceActive /\ cePoll.watched /\ CeMayArm \* ArmCountdown, RearmCountdown
          /\ ceKnown' = "ended" /\ \E c \in CeCountdowns : CeArm(c)
       \/ /\ ~ceActive /\ (~cePoll.watched \/ ~CeMayArm) \* ClearIfStale
          /\ ceKnown' = "none" /\ UNCHANGED <<ceFlags, ceCountdown>>
    /\ ceKept' = (ceKept /\ ~(ceKnown = "live" /\ ceKnown' = "ended"))
    /\ UNCHANGED <<ceRecordings, ceByCall, ceCallVars, ceDue>>

-----------------------------------------------------------------------------
(* The countdown *)

\* A tick finds it cancelled, or the recording stopped.
CeTick(c) ==
    /\ ceCountdown[c].pc = "ticking" /\ (ceCancel \/ ~ceRecording)
    /\ ceActive' = FALSE
    /\ ceTerminal' = IF ceCancel THEN ceTerminal ELSE "stopped"
    /\ ceCancel' = TRUE
    /\ ceCountdown' = [ceCountdown EXCEPT ![c] = CeIdle]
    /\ UNCHANGED <<ceRecordings, ceByCall, ceDetection, ceCallVars, ceHistory>>

\* The time is up, a second after the arming at least: the last steps of an
\* older recording are done by then ...
CeFire(c) ==
    /\ ceCountdown[c].pc = "ticking" /\ ~ceCancel /\ ceRecording
    /\ CeEnding = {}
    /\ ceStopFlag' = TRUE /\ ceByCall' = FALSE
    /\ ceCountdown' = [ceCountdown EXCEPT ![c].pc = "fired"]
    /\ UNCHANGED <<cePhase, ceKind, ceRecording, ceFlags, ceDetection, ceCallVars, ceHistory>>

\* ... and the countdown's own flags follow.
CeFired(c) ==
    /\ ceCountdown[c].pc = "fired"
    /\ ceTerminal' = "fired" /\ ceCancel' = TRUE /\ ceActive' = FALSE
    /\ ceCountdown' = [ceCountdown EXCEPT ![c] = CeIdle]
    /\ UNCHANGED <<ceRecordings, ceByCall, ceDetection, ceCallVars, ceHistory>>

\* Mutant of CeKeep: the choice is not left for the detector to see.
CeKeepUnmarked ==
    /\ ceActive
    /\ ceCancel' = TRUE /\ ceActive' = FALSE
    /\ ceKept' = TRUE /\ ceDue' = FALSE
    /\ UNCHANGED <<ceRecordings, ceByCall, ceTerminal, ceDetection, ceCountdown, ceCallVars>>

\* cancel_call_end_countdown_by_user: "Keep recording"
CeKeep ==
    /\ ceActive
    /\ ceTerminal' = "user" /\ ceCancel' = TRUE /\ ceActive' = FALSE
    /\ ceKept' = TRUE /\ ceDue' = FALSE
    /\ UNCHANGED <<ceRecordings, ceByCall, ceDetection, ceCountdown, ceCallVars>>

-----------------------------------------------------------------------------
CeDetectorNext == CePollStarts \/ CeDetected \/ CeNoCall
CeCountdownNext(c) == CeTick(c) \/ CeFire(c) \/ CeFired(c)
CeThreadNext == \E i \in CeAll : CeStopped(i) \/ CeClear(i) \/ CeDrop(i)

CallEndNext ==
    \/ \E i \in CeAll :
         (\E kind \in {"banner", "window", "direct"} : CeStart(i, kind)) \/ CeBegin(i) \/ CeEnd(i)
    \/ CeThreadNext
    \/ CeCallStarts \/ CeCallEnds \/ CeDetectorNext \/ CeKeep
    \/ \E c \in CeCountdowns : CeCountdownNext(c)

\* The threads run on; users and calls do as they like.
CallEndFairness ==
    /\ WF_ceVars(CeThreadNext) /\ WF_ceVars(CeDetectorNext)
    /\ \A c \in CeCountdowns : WF_ceVars(CeCountdownNext(c))

CallEndSpec == CallEndInit /\ [][CallEndNext]_ceVars /\ CallEndFairness

-----------------------------------------------------------------------------
(* Properties *)

CeFires(c) == ceCountdown[c].pc = "ticking" /\ ceCountdown'[c].pc = "fired"

\* The countdown stops a recording that the banner of a call started, and the
\* one whose call's end it announced, unless it was armed on flags that had
\* changed during the probes (call_detect.rs:366-382 against 586).
AutoStopScoped ==
    [][\A c \in CeCountdowns : CeFires(c) /\ ~ceCountdown[c].stale =>
         \A i \in CeCapturing : ceKind[i] = "banner" /\ ceCountdown[c].for = i]_ceVars

\* After "Keep recording" no countdown stops the recording, until the call has
\* been detected again and ended again (the latch of call_end_fired and the
\* terminal state, call_detect.rs:139-168).
KeepHonoured == [][\A c \in CeCountdowns : CeFires(c) => ~ceKept]_ceVars

\* The countdown stops only the recording it was armed for, and not against the
\* user's choice (call_detect.rs:496-716).
CountdownScoped ==
    /\ AutoStopScoped
    /\ KeepHonoured

\* A recording whose call has ended in good order ends, unless the user keeps
\* it, the call comes back, or an older recording's end clears the flags.
CeStopWaits == ceDue

=============================================================================
