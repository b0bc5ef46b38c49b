---------------------------- MODULE AppRecording ----------------------------
(***************************************************************************)
(* Recordings of the desktop app: how they are launched, and the flags of  *)
(* AppState that the launching commands, the recording threads and the     *)
(* stopping commands share (tauri/src-tauri/src/commands.rs).              *)
(*                                                                         *)
(* The capture itself, the PID file's lock, sensitive meetings, dictation  *)
(* and live transcripts are those of CaptureSessions; the flags of call    *)
(* detection are those of CallEnd.                                         *)
(***************************************************************************)
EXTENDS Naturals

CONSTANTS
    ApMaxLaunches,  \* bound: launches, numbered in order
    ApMaxOthers,    \* bound: recordings of other processes
    ApOther         \* another process, as owner of the PID file

ASSUME ApAssumption ==
    /\ ApMaxLaunches \in Nat /\ ApMaxOthers \in Nat
    /\ ApOther \notin Nat

VARIABLES
    apPid,       \* recording.pid: a launch of this app, another process, or 0
    apStarting, apRecording, apStopFlag, \* AppState
    apPc,        \* each launch's position
    apStopper,   \* the launch whose PID request_stop has read
    apOthers,    \* recordings of other processes still to come
    apAsked,     \* launches that were asked to stop while they captured
    apStrayStop, \* a stop was carried out for a launch that did not capture
    apOverlap    \* a launch cleared the flags under another one, or reserved
                 \* after another one had begun since it looked

apHistory == <<apAsked, apStrayStop, apOverlap>>
apVars == <<apPid, apStarting, apRecording, apStopFlag, apPc, apStopper, apOthers, apHistory>>

ApLaunches == 1..ApMaxLaunches
ApPending == {"spawned", "created"}
ApEnding == {"captured", "removed"}

AppRecordingTypeOK ==
    /\ apPid \in ApLaunches \cup {0, ApOther}
    /\ apStarting \in BOOLEAN /\ apRecording \in BOOLEAN /\ apStopFlag \in BOOLEAN
    /\ apPc \in [ApLaunches -> {"none", "checked", "refused", "capturing", "done"}
                                  \cup ApPending \cup ApEnding]
    /\ apStopper \in ApLaunches \cup {0}
    /\ apOthers \in 0..ApMaxOthers
    /\ apAsked \subseteq ApLaunches
    /\ apStrayStop \in BOOLEAN /\ apOverlap \in BOOLEAN
    /\ \A i \in ApLaunches : apPid = i <=> apPc[i] \in {"created", "capturing", "captured"}

AppRecordingInit ==
    /\ apPid = 0
    /\ apStarting = FALSE /\ apRecording = FALSE /\ apStopFlag = FALSE
    /\ apPc = [i \in ApLaunches |-> "none"]
    /\ apStopper = 0 /\ apOthers \in 0..ApMaxOthers
    /\ apAsked = {} /\ apStrayStop = FALSE /\ apOverlap = FALSE

-----------------------------------------------------------------------------
(* Launching *)

ApGo(i, from, to) == apPc[i] = from /\ apPc' = [apPc EXCEPT ![i] = to]

\* recording_active
ApActive == apRecording \/ apPid # 0

\* validate_recording_launch_state
ApMayLaunch == ~ApActive /\ ~apStarting

\* The launch that comes next; their threads may overlap.
ApFirst(i) == apPc[i] = "none" /\ \A j \in 1..(i - 1) : apPc[j] # "none"

ApCheck(i) ==
    /\ ApFirst(i)
    /\ ApGo(i, "none", IF ApMayLaunch THEN "checked" ELSE "refused")
    /\ UNCHANGED <<apPid, apStarting, apRecording, apStopFlag, apStopper, apOthers, apHistory>>

\* Mutant of ApReserve: a plain store instead of compare_exchange.
ApReserveByStore(i) ==
    /\ ApGo(i, "checked", "spawned")
    /\ apStarting' = TRUE
    /\ apOverlap' = (apOverlap \/ ApActive)
    /\ UNCHANGED <<apPid, apRecording, apStopFlag, apStopper, apOthers, apAsked, apStrayStop>>

\* reserve_recording_launch, and the thread is spawned
ApReserve(i) ==
    /\ ApGo(i, "checked", IF apStarting THEN "refused" ELSE "spawned")
    /\ apStarting' = TRUE
    /\ apOverlap' = (apOverlap \/ (~apStarting /\ ApActive))
    /\ UNCHANGED <<apPid, apRecording, apStopFlag, apStopper, apOthers, apAsked, apStrayStop>>

\* A thread that clears the flags clears them for whoever set them.
ApUnder(i) ==
    apOverlap' = (apOverlap \/ \E j \in ApLaunches \ {i} : apPc[j] \in ApPending \cup {"capturing"})

\* start_recording: preflight fails, or somebody else has the PID file.
ApStartFails(i) ==
    /\ ApGo(i, "spawned", "done")
    /\ apStarting' = FALSE /\ apRecording' = FALSE
    /\ ApUnder(i)
    /\ UNCHANGED <<apPid, apStopFlag, apStopper, apOthers, apAsked, apStrayStop>>

\* pid::create
ApCreate(i) ==
    /\ apPid = 0
    /\ ApGo(i, "spawned", "created")
    /\ apPid' = i
    /\ UNCHANGED <<apStarting, apRecording, apStopFlag, apStopper, apOthers, apHistory>>

\* A sensitive meeting began meanwhile: the PID file goes, and the reservation.
ApSensitive(i) ==
    /\ ApGo(i, "created", "done")
    /\ apPid' = 0 /\ apStarting' = FALSE
    /\ ApUnder(i)
    /\ UNCHANGED <<apRecording, apStopFlag, apStopper, apOthers, apAsked, apStrayStop>>

\* The flags, and the capture starts.
ApBegin(i) ==
    /\ ApGo(i, "created", "capturing")
    /\ apStarting' = FALSE /\ apRecording' = TRUE /\ apStopFlag' = FALSE
    /\ UNCHANGED <<apPid, apStopper, apOthers, apHistory>>

\* The capture ends: by the flag, or by the sentinel, a limit or an error.
ApEnd(i) ==
    /\ ApGo(i, "capturing", "captured")
    /\ apRecording' = FALSE
    /\ UNCHANGED <<apPid, apStarting, apStopFlag, apStopper, apOthers, apHistory>>

\* Mutant of ApRemove: the PID file goes at the very end, with the flags.
ApRemoveLate(i) ==
    /\ ApGo(i, "captured", "removed")
    /\ UNCHANGED <<apPid, apStarting, apRecording, apStopFlag, apStopper, apOthers, apHistory>>

\* The capture has been queued or preserved: pid::remove.
ApRemove(i) ==
    /\ ApGo(i, "captured", "removed")
    /\ apPid' = 0
    /\ UNCHANGED <<apStarting, apRecording, apStopFlag, apStopper, apOthers, apHistory>>

\* The last stores; a native call recording leaves `recording` alone here.
ApClear(i) ==
    /\ ApGo(i, "removed", "done")
    /\ apStarting' = FALSE
    /\ apRecording' \in {FALSE, apRecording}
    /\ ApUnder(i)
    /\ UNCHANGED <<apPid, apStopFlag, apStopper, apOthers, apAsked, apStrayStop>>

-----------------------------------------------------------------------------
(* Stopping, and other processes *)

\* request_stop reads the PID file ...
ApStopLook ==
    /\ apStopper = 0
    /\ \/ /\ apPid \in ApLaunches
          /\ apStopper' = apPid /\ UNCHANGED apRecording
       \/ /\ apPid = 0
          /\ apRecording' = FALSE /\ UNCHANGED apStopper
    /\ UNCHANGED <<apPid, apStarting, apStopFlag, apPc, apOthers, apHistory>>

\* ... and then sets two flags.
ApStopDo ==
    /\ apStopper # 0
    /\ apStopFlag' = TRUE /\ apRecording' = TRUE
    /\ apAsked' = IF apPc[apStopper] = "capturing" THEN apAsked \cup {apStopper} ELSE apAsked
    /\ apStrayStop' = (apStrayStop \/ apPc[apStopper] # "capturing")
    /\ apStopper' = 0
    /\ UNCHANGED <<apPid, apStarting, apPc, apOthers, apOverlap>>

ApOtherStarts ==
    /\ apPid = 0 /\ apOthers > 0
    /\ apPid' = ApOther /\ apOthers' = apOthers - 1
    /\ UNCHANGED <<apStarting, apRecording, apStopFlag, apPc, apStopper, apHistory>>

\* By itself, or by the sentinel and the signal of a request_stop.
ApOtherEnds ==
    /\ apPid = ApOther
    /\ apPid' = 0
    /\ UNCHANGED <<apStarting, apRecording, apStopFlag, apPc, apStopper, apOthers, apHistory>>

-----------------------------------------------------------------------------
\* What the thread of a launch does once it is spawned.
ApThreadNext(i) ==
    \/ ApStartFails(i) \/ ApCreate(i) \/ ApSensitive(i) \/ ApBegin(i)
    \/ ApEnd(i) \/ ApRemove(i) \/ ApClear(i)

ApEnvironment == ApStopLook \/ ApStopDo \/ ApOtherStarts \/ ApOtherEnds

AppRecordingNext ==
    \/ \E i \in ApLaunches : ApCheck(i) \/ ApReserve(i) \/ ApThreadNext(i)
    \/ ApEnvironment

AppRecordingSpec == AppRecordingInit /\ [][AppRecordingNext]_apVars

-----------------------------------------------------------------------------
(* Properties *)

\* Two recordings are not being started at once, unless the tail of an older
\* one cleared the reservation of a newer one (commands.rs:5979 comes after the
\* PID file is gone), or a launch reserved on a look that was old by then.
OneStartAtATime ==
    ~apOverlap => \A i, j \in ApLaunches :
        apPc[i] \in ApPending /\ apPc[j] \in ApPending => i = j

\* Once every launch is over, the app takes itself neither for recording nor
\* for starting, unless a stop was carried out before the flags were set or
\* after the capture's end (commands.rs:3757 sets `recording` for a PID it read
\* before).
NothingStuck ==
    (\A i \in ApLaunches : apPc[i] \in {"none", "refused", "done"}) /\ ~apStrayStop =>
        ~apRecording /\ ~apStarting

\* The one stop flag stops the recording that it was raised for, and no later
\* one, with the same exception; and once raised for it, it is not lost.
StopIsOwn ==
    \A i \in ApLaunches : apPc[i] = "capturing" =>
        /\ i \in apAsked => apStopFlag
        /\ apStopFlag /\ ~apStrayStop => i \in apAsked

\* Launches of recordings, though their threads overlap, do not get in each other's
\* way: in starting, in stopping, and in what they leave (commands.rs:4150-5985).
LaunchesApart ==
    /\ OneStartAtATime
    /\ NothingStuck
    /\ StopIsOwn

=============================================================================
