--------------------------- MODULE CopilotControl ----------------------------
(***************************************************************************)
(* How Coach sessions are stopped, paused and rated: the files of          *)
(* crates/core/src/copilot/control.rs, the sessions that poll them (the    *)
(* CLI's loop and the desktop app's thread), the flags of the desktop app, *)
(* and the commands that look whether Coach is running and then write.     *)
(*                                                                         *)
(* A control remembers for whom it was written and whether that session    *)
(* was still there: a command that looks, waits and writes after the       *)
(* session's end may meet the next one.  The session guard is one of       *)
(* PidFile's, here a lock that a crash frees.                              *)
(***************************************************************************)
EXTENDS Naturals

CONSTANTS
    CoSessions, CoDesktop,  \* all sessions, and those of the desktop app
    CoCommands, CoAppCommands,
    CoNone

ASSUME CoAssumption ==
    /\ CoDesktop \subseteq CoSessions /\ CoAppCommands \subseteq CoCommands
    /\ CoNone \notin CoSessions \cup CoCommands
    /\ "torn" \notin CoCommands \cup {CoNone}
    /\ CoNone \notin [for : CoSessions, there : BOOLEAN]

VARIABLES
    coHolder,   \* who holds copilot.pid
    coPc,       \* the session's position
    coPaused,   \* the control that paused the session
    coEndedBy,  \* the control that ended the session
    coStop,     \* copilot.stop
    coPause,    \* copilot.pause
    coFeedback, \* copilot.feedback.json: the command that wrote it
    coTook,     \* the feedback the session has read and not yet removed
    coActive,   \* copilot_active: the desktop session it stands for
    coFlag,     \* copilot_stop_flag
    coRequest,  \* each command's position, kind and session
    coApplied   \* how often each command's feedback was applied

coSessionVars == <<coHolder, coPc, coPaused, coEndedBy, coTook>>
coVars == <<coSessionVars, coStop, coPause, coFeedback, coActive, coFlag, coRequest, coApplied>>

CoControl == [for : CoSessions, there : BOOLEAN] \cup {CoNone}

CoEnding == {"ending", "clearStop2", "clearFeedback2", "release", "deactivate", "done"}

CopilotControlTypeOK ==
    /\ coHolder \in CoSessions \cup {CoNone}
    /\ coPc \in [CoSessions -> {"new", "armed", "clearPause", "clearStop", "clearFeedback",
                                "resetFlag", "prepare", "loop", "crashed"} \cup CoEnding]
    /\ \A s \in CoSessions :
          coHolder = s <=> coPc[s] \notin {"new", "armed", "deactivate", "done", "crashed"}
    /\ coPaused \in [CoSessions -> CoControl]
    /\ coEndedBy \in [CoSessions -> CoControl]
    /\ coTook \in [CoSessions -> CoCommands \cup {CoNone, "torn"}]
    /\ coStop \in CoControl /\ coPause \in CoControl
    /\ coFeedback \in CoCommands \cup {CoNone, "torn"}
    /\ coActive \in CoDesktop \cup {CoNone}
    /\ coFlag \in CoControl
    /\ coRequest \in [CoCommands ->
            [pc : {"idle", "flag", "write", "torn", "done"},
             kind : {"stop", "pause", "resume", "feedback"}, for : CoSessions \cup {CoNone}]]
    /\ coApplied \in [CoCommands -> 0..2]

CopilotControlInit ==
    /\ coHolder = CoNone /\ coPc = [s \in CoSessions |-> "new"]
    /\ coPaused = [s \in CoSessions |-> CoNone] /\ coEndedBy = [s \in CoSessions |-> CoNone]
    /\ coTook = [s \in CoSessions |-> CoNone]
    /\ coStop = CoNone /\ coPause = CoNone /\ coFeedback = CoNone
    /\ coActive = CoNone /\ coFlag = CoNone
    /\ coRequest = [c \in CoCommands |->
                      [pc |-> "idle", kind |-> "stop", for |-> CoNone]]
    /\ coApplied = [c \in CoCommands |-> 0]

-----------------------------------------------------------------------------
(* A session *)

CoGo(s, from, to) == coPc[s] = from /\ coPc' = [coPc EXCEPT ![s] = to]

\* cmd_start_copilot_surface: one session of the app at a time
CoArm(s) ==
    /\ s \in CoDesktop
    /\ coActive = CoNone
    /\ CoGo(s, "new", "armed")
    /\ coActive' = s
    /\ UNCHANGED <<coHolder, coPaused, coEndedBy, coTook, coStop, coPause, coFeedback, coFlag,
                   coRequest, coApplied>>

\* create_session_guard
CoGuard(s) ==
    /\ coHolder = CoNone
    /\ CoGo(s, IF s \in CoDesktop THEN "armed" ELSE "new", "clearPause")
    /\ coHolder' = s
    /\ UNCHANGED <<coPaused, coEndedBy, coTook, coStop, coPause, coFeedback, coActive, coFlag,
                   coRequest, coApplied>>

CoRefused(s) ==
    /\ coHolder # CoNone
    /\ CoGo(s, IF s \in CoDesktop THEN "armed" ELSE "new", "done")
    /\ coActive' = IF s \in CoDesktop THEN CoNone ELSE coActive
    /\ UNCHANGED <<coHolder, coPaused, coEndedBy, coTook, coStop, coPause, coFeedback, coFlag,
                   coRequest, coApplied>>

\* clear_session_controls, before the loop and after it: pause, stop, feedback
CoClear(s) ==
    /\ \/ CoGo(s, "clearPause", "clearStop") /\ coPause' = CoNone /\ UNCHANGED <<coStop, coFeedback>>
       \/ CoGo(s, "ending", "clearStop2") /\ coPause' = CoNone /\ UNCHANGED <<coStop, coFeedback>>
       \/ CoGo(s, "clearStop", "clearFeedback") /\ coStop' = CoNone
          /\ UNCHANGED <<coPause, coFeedback>>
       \/ CoGo(s, "clearStop2", "clearFeedback2") /\ coStop' = CoNone
          /\ UNCHANGED <<coPause, coFeedback>>
       \/ CoGo(s, "clearFeedback", IF s \in CoDesktop THEN "resetFlag" ELSE "loop")
          /\ coFeedback' = CoNone /\ UNCHANGED <<coPause, coStop>>
       \/ CoGo(s, "clearFeedback2", "release")
          /\ coFeedback' = CoNone /\ UNCHANGED <<coPause, coStop>>
    /\ UNCHANGED <<coHolder, coPaused, coEndedBy, coTook, coActive, coFlag, coRequest, coApplied>>

CoResetFlag(s) ==
    /\ CoGo(s, "resetFlag", "prepare")
    /\ coFlag' = CoNone
    /\ UNCHANGED <<coHolder, coPaused, coEndedBy, coTook, coStop, coPause, coFeedback, coActive,
                   coRequest, coApplied>>

\* The app looks once after the card is assembled; it leaves the files there.
CoPrepared(s) ==
    /\ coPc[s] = "prepare"
    /\ coPc' = [coPc EXCEPT ![s] = IF coStop = CoNone /\ coFlag = CoNone THEN "loop" ELSE "release"]
    /\ coEndedBy' = [coEndedBy EXCEPT ![s] = IF coFlag # CoNone THEN coFlag ELSE coStop]
    /\ UNCHANGED <<coHolder, coPaused, coTook, coStop, coPause, coFeedback, coActive, coFlag,
                   coRequest, coApplied>>

CoStopWanted(s) == coStop # CoNone \/ (s \in CoDesktop /\ coFlag # CoNone)

\* Mutant of CoLeave: the guard is dropped before the controls are cleared.
CoLeaveUnguarded(s) ==
    /\ coTook[s] = CoNone
    /\ CoGo(s, "loop", "ending")
    /\ coHolder' = CoNone
    /\ UNCHANGED <<coPaused, coEndedBy, coTook, coStop, coPause, coFeedback, coActive, coFlag,
                   coRequest, coApplied>>

\* A poll finds a reason to stop, or the session ends by itself.
CoLeave(s) ==
    /\ coTook[s] = CoNone
    /\ CoGo(s, "loop", "ending")
    /\ coEndedBy' = [coEndedBy EXCEPT ![s] = IF s \in CoDesktop /\ coFlag # CoNone THEN coFlag ELSE coStop]
    /\ UNCHANGED <<coHolder, coPaused, coTook, coStop, coPause, coFeedback, coActive, coFlag,
                   coRequest, coApplied>>

\* The pause file is compared with what the loop knows.
CoPollPause(s) ==
    /\ coPc[s] = "loop" /\ coTook[s] = CoNone
    /\ (coPause # CoNone) # (coPaused[s] # CoNone)
    /\ coPaused' = [coPaused EXCEPT ![s] = coPause]
    /\ UNCHANGED <<coHolder, coPc, coEndedBy, coTook, coStop, coPause, coFeedback, coActive,
                   coFlag, coRequest, coApplied>>

\* take_feedback_request: read, remove, parse; the app has no such poll.
CoReadFeedback(s) ==
    /\ coPc[s] = "loop" /\ s \notin CoDesktop /\ coTook[s] = CoNone
    /\ coFeedback # CoNone
    /\ coTook' = [coTook EXCEPT ![s] = coFeedback]
    /\ UNCHANGED <<coHolder, coPc, coPaused, coEndedBy, coStop, coPause, coFeedback, coActive,
                   coFlag, coRequest, coApplied>>

\* A removal that fails leaves the file, and the feedback unapplied.
CoRemoveFeedback(s) ==
    /\ coTook[s] # CoNone
    /\ coTook' = [coTook EXCEPT ![s] = CoNone]
    /\ \/ /\ coFeedback' = CoNone
          /\ coApplied' = [c \in CoCommands |-> coApplied[c] + (IF coTook[s] = c THEN 1 ELSE 0)]
       \/ UNCHANGED <<coFeedback, coApplied>>
    /\ UNCHANGED <<coHolder, coPc, coPaused, coEndedBy, coStop, coPause, coActive, coFlag,
                   coRequest>>

\* The guard goes first, then copilot_active.
CoRelease(s) ==
    /\ CoGo(s, "release", IF s \in CoDesktop THEN "deactivate" ELSE "done")
    /\ coHolder' = CoNone
    /\ UNCHANGED <<coPaused, coEndedBy, coTook, coStop, coPause, coFeedback, coActive, coFlag,
                   coRequest, coApplied>>

CoDeactivate(s) ==
    /\ CoGo(s, "deactivate", "done")
    /\ coActive' = CoNone
    /\ UNCHANGED <<coHolder, coPaused, coEndedBy, coTook, coStop, coPause, coFeedback, coFlag,
                   coRequest, coApplied>>

\* An error after the start leaves without clearing.
CoFail(s) ==
    /\ s \notin CoDesktop /\ coTook[s] = CoNone
    /\ CoGo(s, "loop", "release")
    /\ UNCHANGED <<coHolder, coPaused, coEndedBy, coTook, coStop, coPause, coFeedback, coActive,
                   coFlag, coRequest, coApplied>>

\* The process dies: the lock is freed, the files stay.  The flags of the app
\* die with it, and so do its commands.
CoCrash(s) ==
    /\ coHolder = s /\ coPc[s] # "crashed"
    /\ coPc' = [coPc EXCEPT ![s] = "crashed"]
    /\ coHolder' = CoNone
    /\ coTook' = [coTook EXCEPT ![s] = CoNone]
    /\ IF s \in CoDesktop
       THEN /\ coActive' = CoNone /\ coFlag' = CoNone
            /\ coRequest' = [c \in CoCommands |->
                 IF c \in CoAppCommands /\ coRequest[c].pc # "idle"
                 THEN [coRequest[c] EXCEPT !.pc = "done"] ELSE coRequest[c]]
       ELSE UNCHANGED <<coActive, coFlag, coRequest>>
    /\ UNCHANGED <<coPaused, coEndedBy, coStop, coPause, coFeedback, coApplied>>

-----------------------------------------------------------------------------
(* Commands *)

\* The CLI looks at the PID file, the app at its flag.
CoLook(c) ==
    /\ coRequest[c].pc = "idle"
    /\ \E kind \in {"stop", "pause", "resume", "feedback"} :
         \/ /\ c \notin CoAppCommands /\ coHolder # CoNone
            /\ coRequest' = [coRequest EXCEPT ![c] =
                 [pc |-> "write", kind |-> kind, for |-> coHolder]]
         \/ /\ c \in CoAppCommands /\ coActive # CoNone /\ kind # "feedback"
            /\ coRequest' = [coRequest EXCEPT ![c] =
                 [pc |-> IF kind = "stop" THEN "flag" ELSE "write", kind |-> kind,
                  for |-> coActive]]
    /\ UNCHANGED <<coSessionVars, coStop, coPause, coFeedback, coActive, coFlag, coApplied>>

CoControlOf(c) ==
    [for |-> coRequest[c].for, there |-> coHolder = coRequest[c].for]

CoSetFlag(c) ==
    /\ coRequest[c].pc = "flag"
    /\ coFlag' = CoControlOf(c)
    /\ coRequest' = [coRequest EXCEPT ![c].pc = "write"]
    /\ UNCHANGED <<coSessionVars, coStop, coPause, coFeedback, coActive, coApplied>>

CoWrite(c) ==
    /\ coRequest[c].pc = "write" /\ coRequest[c].kind # "feedback"
    /\ CASE coRequest[c].kind = "stop" -> coStop' = CoControlOf(c) /\ UNCHANGED coPause
         [] coRequest[c].kind = "pause" -> coPause' = CoControlOf(c) /\ UNCHANGED coStop
         [] coRequest[c].kind = "resume" -> coPause' = CoNone /\ UNCHANGED coStop
    /\ coRequest' = [coRequest EXCEPT ![c].pc = "done"]
    /\ UNCHANGED <<coSessionVars, coFeedback, coActive, coFlag, coApplied>>

\* fs::write truncates and then writes.
CoWriteFeedback(c) ==
    /\ coRequest[c].kind = "feedback"
    /\ \/ /\ coRequest[c].pc = "write"
          /\ coFeedback' = "torn"
          /\ coRequest' = [coRequest EXCEPT ![c].pc = "torn"]
       \/ /\ coRequest[c].pc = "torn"
          /\ coFeedback' = IF coFeedback = CoNone THEN CoNone ELSE c
          /\ coRequest' = [coRequest EXCEPT ![c].pc = "done"]
    /\ UNCHANGED <<coSessionVars, coStop, coPause, coActive, coFlag, coApplied>>

-----------------------------------------------------------------------------
CoSessionNext(s) ==
    \/ CoArm(s) \/ CoGuard(s) \/ CoRefused(s) \/ CoClear(s) \/ CoResetFlag(s) \/ CoPrepared(s)
    \/ CoLeave(s) \/ CoPollPause(s) \/ CoReadFeedback(s) \/ CoRemoveFeedback(s)
    \/ CoRelease(s) \/ CoDeactivate(s) \/ CoFail(s) \/ CoCrash(s)

CopilotControlNext ==
    \/ \E s \in CoSessions : CoSessionNext(s)
    \/ \E c \in CoCommands : CoLook(c) \/ CoSetFlag(c) \/ CoWrite(c) \/ CoWriteFeedback(c)

CopilotControlSpec == CopilotControlInit /\ [][CopilotControlNext]_coVars

-----------------------------------------------------------------------------
(* Properties *)

\* A session obeys only what was said to it: a stop or a pause written while
\* another session was there, and left behind by its crash or its early return,
\* is cleared before the first poll (control.rs:131).
ControlsAreOwn ==
    \A s \in CoSessions :
        \A control \in {coEndedBy[s], coPaused[s]} \ {CoNone} :
            control.there => control.for = s

\* A stop that was written to a session once it had cleared its controls stays
\* until that session ends: nobody else's clearing removes it.
CoListens(s) == coPc[s] \in {"clearFeedback", "resetFlag", "prepare", "loop"}

StopKept ==
    [][\A s \in CoSessions :
          CoListens(s) /\ CoListens(s)' /\ coStop # CoNone /\ coStop.there /\ coStop.for = s
             => coStop' # CoNone]_coVars

\* A rating is applied at most once, also when its file cannot be removed.
RatedOnce == \A c \in CoCommands : coApplied[c] =< 1

\* A control reaches the session it was written to, and no other, once
\* (control.rs:138-190).
ControlsHeard ==
    /\ [](ControlsAreOwn /\ RatedOnce)
    /\ StopKept

=============================================================================
