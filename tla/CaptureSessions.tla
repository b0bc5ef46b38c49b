-------------------------- MODULE CaptureSessions --------------------------
(***************************************************************************)
(* The sessions that compete for the microphone and for the fixed files    *)
(* of ~/.minutes: batch recordings (CLI and desktop app), standalone live  *)
(* transcripts, dictation, and the no-capture sensitive meetings.  They    *)
(* are separate processes that agree through files only: three PID files,  *)
(* the capture relay's owner lock, the sensitive-session file, the stop    *)
(* sentinel, current.wav and live-transcript.jsonl.                        *)
(*                                                                         *)
(* A PID file is taken in one step (PidFile.tla has its system calls), and *)
(* a check that meets a dead process's file removes it in the same step.   *)
(* Every process runs one session and has then exited; an app that lives   *)
(* on after its session counts as exited, since no file names it any more. *)
(* A start that is refused leaves its process idle, free to try again.     *)
(***************************************************************************)
EXTENDS FiniteSets

CONSTANTS
    CliRecorders,   \* `minutes record`
    AppRecorders,   \* start_recording in the desktop app
    Lives,          \* `minutes live`, run_live_session
    Dictators,      \* dictation::run
    Hosts,          \* callers of sensitive::start
    Stoppers,       \* `minutes stop`, request_stop
    NoProc,
    RelayErrors,    \* the relay may fail for a reason other than its owner
    SlowSession,    \* a recording may start between the steps of an update of
                    \* the sensitive-session file
    Recovery        \* the desktop app retries recovery items

Recorders == CliRecorders \cup AppRecorders
Procs == Recorders \cup Lives \cup Dictators \cup Hosts \cup Stoppers
Guards == {"recording", "live", "dictation"}

ASSUME CaptureAssumption ==
    /\ NoProc \notin Procs
    /\ CliRecorders \cap AppRecorders = {}
    /\ Lives \cap Recorders = {}
    /\ Hosts \cap (Recorders \cup Lives) = {}
    /\ Dictators \cap (Recorders \cup Lives \cup Hosts) = {}
    /\ Stoppers \cap (Recorders \cup Lives \cup Hosts \cup Dictators) = {}
    /\ {RelayErrors, SlowSession, Recovery} \subseteq BOOLEAN

VARIABLES
    pc,         \* where each process is in its session
    pid,        \* the process each PID file names
    relay,      \* the process that holds the capture relay's owner lock
    session,    \* the process that the sensitive-session file names
    torn,       \* that file is truncated: a marker is being added
    sentinel,   \* recording.stop exists
    wav,        \* the recorder whose audio is in current.wav
    jsonl,      \* the process whose lines are in live-transcript.jsonl
    sidecars,   \* the recorders whose sidecar thread has yet to open it
    writers,    \* the processes that have it open
    retry       \* the capture whose current.wav a queued recovery job names

files == <<wav, jsonl, sidecars, writers, retry>>
vars == <<pc, pid, relay, session, torn, sentinel, files>>

Init ==
    /\ pc = [p \in Procs |-> "idle"]
    /\ pid = [f \in Guards |-> NoProc]
    /\ relay = NoProc
    /\ session = NoProc
    /\ torn = FALSE
    /\ sentinel = FALSE
    /\ wav = NoProc
    /\ jsonl = NoProc
    /\ sidecars = {}
    /\ writers = {}
    /\ retry = NoProc

Alive(p) == pc[p] # "exited"

\* The PID file names a live process.
Active(f) == pid[f] # NoProc /\ Alive(pid[f])

\* A check of the files fs finds no live process, and removes what dead ones left.
Inactive(fs) ==
    /\ \A f \in fs : ~Active(f)
    /\ pid' = [f \in Guards |-> IF f \in fs THEN NoProc ELSE pid[f]]

\* active_session: a truncated file does not parse and reads as no session.
SessionActive == session # NoProc /\ ~torn /\ Alive(session)

\* Nobody holds sensitive-session.lock: no start is between its check and its
\* write, and no marker is being added.
SessionUnlocked == ~torn /\ \A h \in Hosts : pc[h] # "cleared"

\* No session; that of a dead owner is removed.
SessionInactive ==
    /\ ~SessionActive
    /\ session' = IF torn THEN session ELSE NoProc

Goto(p, label) == pc' = [pc EXCEPT ![p] = label]

\* Mutant of TakePid: a live holder is not noticed.
TakeAnyPid(p, f) == pid' = [pid EXCEPT ![f] = p]

\* p takes the PID file f when no live process holds it.
TakePid(p, f) ==
    /\ ~Active(f)
    /\ pid' = [pid EXCEPT ![f] = p]

RemovePid(f) == pid' = [pid EXCEPT ![f] = NoProc]

\* Mutant of RelayRefuses: the owner lock is not tried.
RelayNeverRefuses == FALSE

\* CaptureRelayServer::start finds another owner (AlreadyOwned, OwnershipBusy).
RelayRefuses == relay # NoProc

\* The relay starts; or it fails otherwise, and capture goes on without it.
TakeRelay(p) ==
    /\ ~RelayRefuses \/ RelayErrors
    /\ relay' \in IF RelayRefuses THEN {relay}
                  ELSE IF RelayErrors THEN {p, NoProc} ELSE {p}

\* Mutant of DropRelay: an early return leaks the relay.
LeakRelay(p) == UNCHANGED relay

DropRelay(p) == relay' = IF relay = p THEN NoProc ELSE relay

-----------------------------------------------------------------------------
(* A recording: cmd_record, start_recording, record_to_wav_with_lifecycle. *)

\* The checks before the start: the CLI looks for a live transcript, the app
\* for a recording and a dictation of another process; both for a session.
Launch(p) ==
    /\ pc[p] = "idle"
    /\ Inactive(IF p \in CliRecorders THEN {"live"} ELSE {"recording", "dictation"})
    /\ SessionInactive
    /\ Goto(p, "launched")
    /\ UNCHANGED <<relay, torn, sentinel, files>>

\* Whether a recording's start may run now: always, unless updates of the
\* session are taken to be immediate.
SessionSettled == SlowSession \/ SessionUnlocked

\* pid::create clears the sentinel, whomever it is for, and takes the PID file ...
CreatePid(p) ==
    /\ pc[p] = "launched"
    /\ SessionSettled
    /\ sentinel' = FALSE
    /\ TakePid(p, "recording")
    /\ Goto(p, "created")
    /\ UNCHANGED <<relay, session, torn, files>>

\* ... or clears the sentinel and finds a recording.
CreateRefused(p) ==
    /\ pc[p] = "launched"
    /\ sentinel' = FALSE
    /\ Active("recording")
    /\ Goto(p, "idle")
    /\ UNCHANGED <<pid, relay, session, torn, files>>

\* Mutant of Recheck: only the check before the PID file is made.
NoRecheck(p) ==
    /\ pc[p] = "created"
    /\ Goto(p, "checked")
    /\ UNCHANGED <<pid, relay, session, torn, sentinel, files>>

\* The sensitive session is checked again with the PID held ...
Recheck(p) ==
    /\ pc[p] = "created"
    /\ SessionSettled
    /\ SessionInactive
    /\ Goto(p, "checked")
    /\ UNCHANGED <<pid, relay, torn, sentinel, files>>

\* ... and wins over the recording.
YieldToSession(p) ==
    /\ pc[p] = "created"
    /\ SessionActive
    /\ RemovePid("recording")
    /\ Goto(p, "idle")
    /\ UNCHANGED <<relay, session, torn, sentinel, files>>

StartRelay(p) ==
    /\ pc[p] = "checked"
    /\ TakeRelay(p)
    /\ Goto(p, "relayed")
    /\ UNCHANGED <<pid, session, torn, sentinel, files>>

\* How a recording fails: the CLI exits and its PID file stays; the app moves
\* current.wav, whosever it is, to failed-captures and removes the PID file.
Fail(p) ==
    /\ Goto(p, "exited")
    /\ IF p \in CliRecorders
          THEN UNCHANGED <<pid, wav>>
          ELSE RemovePid("recording") /\ wav' = NoProc

RelayRefused(p) ==
    /\ pc[p] = "checked"
    /\ RelayRefuses
    /\ Fail(p)
    /\ UNCHANGED <<relay, session, torn, sentinel, jsonl, sidecars, writers, retry>>

\* The stale sentinel is cleared, current.wav truncated, the sidecar started ...
BeginCapture(p) ==
    /\ pc[p] = "relayed"
    /\ sentinel' = FALSE
    /\ wav' = p
    /\ sidecars' = sidecars \cup {p}
    /\ Goto(p, "capturing")
    /\ UNCHANGED <<pid, relay, session, torn, jsonl, writers, retry>>

\* ... and the microphone opened.
OpenStream(p) ==
    /\ pc[p] = "capturing"
    /\ Goto(p, "recording")
    /\ UNCHANGED <<pid, relay, session, torn, sentinel, files>>

\* It cannot be opened: the error returns past the sidecar thread, which is not
\* joined, but taken to end as its channel closes.
StreamFails(p) ==
    /\ pc[p] = "capturing"
    /\ Fail(p)
    /\ DropRelay(p)
    /\ sidecars' = sidecars \ {p}
    /\ writers' = writers \ {p}
    /\ UNCHANGED <<session, torn, sentinel, jsonl, retry>>

\* The sidecar thread writes the live transcript unless a live session runs.
SidecarOpens(p) ==
    /\ p \in sidecars
    /\ sidecars' = sidecars \ {p}
    /\ IF Active("live")
          THEN UNCHANGED <<pid, jsonl, writers>>
          ELSE /\ Inactive({"live"})
               /\ jsonl' = p
               /\ writers' = writers \cup {p}
    /\ UNCHANGED <<pc, relay, session, torn, sentinel, wav, retry>>

\* The sentinel is polled every 100 ms; Ctrl-C, silence and the time cap also stop.
SentinelStops(p) ==
    /\ pc[p] = "recording"
    /\ sentinel
    /\ sentinel' = FALSE
    /\ Goto(p, "stopping")
    /\ UNCHANGED <<pid, relay, session, torn, files>>

UserStops(p) ==
    /\ pc[p] = "recording"
    /\ Goto(p, "stopping")
    /\ UNCHANGED <<pid, relay, session, torn, sentinel, files>>

\* Mutant of EndCapture: the sidecar thread is not joined.
EndCaptureUnjoined(p) ==
    /\ pc[p] = "stopping"
    /\ Goto(p, "captured")
    /\ DropRelay(p)
    /\ UNCHANGED <<pid, session, torn, sentinel, files>>

\* The stream is gone, the sidecar joined and, on return, the relay dropped.
EndCapture(p) ==
    /\ pc[p] = "stopping"
    /\ p \notin sidecars
    /\ Goto(p, "captured")
    /\ DropRelay(p)
    /\ writers' = writers \ {p}
    /\ UNCHANGED <<pid, session, torn, sentinel, wav, jsonl, sidecars, retry>>

\* The same, but nothing was captured, or the file cannot be finalized.
CaptureFails(p) ==
    /\ pc[p] = "stopping"
    /\ p \notin sidecars
    /\ Fail(p)
    /\ DropRelay(p)
    /\ writers' = writers \ {p}
    /\ UNCHANGED <<session, torn, sentinel, jsonl, sidecars, retry>>

\* queue_live_capture moves current.wav to the job, or fails and it stays.
QueueCapture(p) ==
    /\ pc[p] = "captured"
    /\ wav' \in {wav, NoProc}
    /\ Goto(p, "queued")
    /\ UNCHANGED <<pid, relay, session, torn, sentinel, jsonl, sidecars, writers, retry>>

\* cleanup_live_capture_state.
EndRecording(p) ==
    /\ pc[p] = "queued"
    /\ RemovePid("recording")
    /\ Goto(p, "exited")
    /\ UNCHANGED <<relay, session, torn, sentinel, files>>

-----------------------------------------------------------------------------
(* A live transcript: cmd_live, live_transcript::run_with_partials. *)

LiveRelay(p) ==
    /\ pc[p] = "idle"
    /\ TakeRelay(p)
    /\ Goto(p, "relayed")
    /\ UNCHANGED <<pid, session, torn, sentinel, files>>

LiveCheckRecording(p) ==
    /\ pc[p] = "relayed"
    /\ Inactive({"recording"})
    /\ Goto(p, "checked")
    /\ UNCHANGED <<relay, session, torn, sentinel, files>>

\* The dictation file is checked, then the stale sentinel cleared.
LiveCheckDictation(p) ==
    /\ pc[p] = "checked"
    /\ Inactive({"dictation"})
    /\ sentinel' = FALSE
    /\ Goto(p, "cleared")
    /\ UNCHANGED <<relay, session, torn, files>>

LiveGuard(p) ==
    /\ pc[p] = "cleared"
    /\ TakePid(p, "live")
    /\ Goto(p, "guarded")
    /\ UNCHANGED <<relay, session, torn, sentinel, files>>

\* Another session is active: the relay is dropped with the error.
LiveRefused(p) ==
    /\ \/ pc[p] = "relayed" /\ Active("recording")
       \/ pc[p] = "checked" /\ Active("dictation")
       \/ pc[p] = "cleared" /\ Active("live")
    /\ DropRelay(p)
    /\ Goto(p, "idle")
    /\ UNCHANGED <<pid, session, torn, sentinel, files>>

\* The microphone is opened, then the transcript truncated ...
LiveOpen(p) ==
    /\ pc[p] = "guarded"
    /\ jsonl' = p
    /\ writers' = writers \cup {p}
    /\ Goto(p, "live")
    /\ UNCHANGED <<pid, relay, session, torn, sentinel, wav, sidecars, retry>>

\* ... or cannot be: the guard and the relay are dropped with the error.
LiveFails(p) ==
    /\ pc[p] = "guarded"
    /\ RemovePid("live")
    /\ DropRelay(p)
    /\ Goto(p, "idle")
    /\ UNCHANGED <<session, torn, sentinel, files>>

LiveSentinelStops(p) ==
    /\ pc[p] = "live"
    /\ sentinel
    /\ sentinel' = FALSE
    /\ writers' = writers \ {p}
    /\ Goto(p, "stopped")
    /\ UNCHANGED <<pid, relay, session, torn, wav, jsonl, sidecars, retry>>

LiveUserStops(p) ==
    /\ pc[p] = "live"
    /\ writers' = writers \ {p}
    /\ Goto(p, "stopped")
    /\ UNCHANGED <<pid, relay, session, torn, sentinel, wav, jsonl, sidecars, retry>>

\* The pair is preserved (promote_on_stop), or left in place (Off, no WAV).
LivePreserve(p) ==
    /\ pc[p] = "stopped"
    /\ jsonl' \in {jsonl, NoProc}
    /\ Goto(p, "preserved")
    /\ UNCHANGED <<pid, relay, session, torn, sentinel, wav, sidecars, writers, retry>>

\* The guard goes before the meeting pipeline runs, the relay after it.
LiveRelease(p) ==
    /\ pc[p] = "preserved"
    /\ RemovePid("live")
    /\ Goto(p, "processing")
    /\ UNCHANGED <<relay, session, torn, sentinel, files>>

LiveEnd(p) ==
    /\ pc[p] = "processing"
    /\ DropRelay(p)
    /\ Goto(p, "exited")
    /\ UNCHANGED <<pid, session, torn, sentinel, files>>

-----------------------------------------------------------------------------
(* Dictation: dictation::run. *)

DictationCheck(p) ==
    /\ pc[p] = "idle"
    /\ Inactive({"recording"})
    /\ Goto(p, "checked")
    /\ UNCHANGED <<relay, session, torn, sentinel, files>>

DictationStart(p) ==
    /\ pc[p] = "checked"
    /\ Inactive({"live"})
    /\ Goto(p, "cleared")
    /\ UNCHANGED <<relay, session, torn, sentinel, files>>

DictationPid(p) ==
    /\ pc[p] = "cleared"
    /\ TakePid(p, "dictation")
    /\ Goto(p, "dictating")
    /\ UNCHANGED <<relay, session, torn, sentinel, files>>

DictationRefused(p) ==
    /\ \/ pc[p] = "checked" /\ Active("live")
       \/ pc[p] = "cleared" /\ Active("dictation")
    /\ Goto(p, "idle")
    /\ UNCHANGED <<pid, relay, session, torn, sentinel, files>>

\* Mutant of DictationYields: the loop looks at the other PID file.
DictationYieldsToLive(p) ==
    /\ pc[p] = "dictating"
    /\ Active("live")
    /\ Goto(p, "yielding")
    /\ UNCHANGED <<pid, relay, session, torn, sentinel, files>>

\* The loop sees a recording, and yields to it ...
DictationYields(p) ==
    /\ pc[p] = "dictating"
    /\ Active("recording")
    /\ Goto(p, "yielding")
    /\ UNCHANGED <<pid, relay, session, torn, sentinel, files>>

\* ... or the user, or silence, ends it.
DictationEnds(p) ==
    /\ pc[p] = "dictating"
    /\ Goto(p, "yielding")
    /\ UNCHANGED <<pid, relay, session, torn, sentinel, files>>

DictationCleanup(p) ==
    /\ pc[p] = "yielding"
    /\ RemovePid("dictation")
    /\ Goto(p, "exited")
    /\ UNCHANGED <<relay, session, torn, sentinel, files>>

-----------------------------------------------------------------------------
(* Sensitive meetings: sensitive.rs. *)

\* start: no recording and no session ...
SessionCheck(h) ==
    /\ pc[h] = "idle"
    /\ SessionUnlocked
    /\ Inactive({"recording"})
    /\ SessionInactive
    /\ Goto(h, "cleared")
    /\ UNCHANGED <<relay, torn, sentinel, files>>

\* ... then the file is written with the caller's PID.  The app lives on
\* (cmd_sensitive_start), `minutes sensitive start` exits at once.
SessionWrite(h) ==
    /\ pc[h] = "cleared"
    /\ session' = h
    /\ Goto(h, "hosting") \/ Goto(h, "exited")
    /\ UNCHANGED <<pid, relay, torn, sentinel, files>>

\* add_marker rewrites the file: truncated ...
MarkerBegin ==
    /\ SessionUnlocked
    /\ SessionActive
    /\ torn' = TRUE
    /\ UNCHANGED <<pc, pid, relay, session, sentinel, files>>

\* ... then written back.
MarkerEnd ==
    /\ torn
    /\ torn' = FALSE
    /\ UNCHANGED <<pc, pid, relay, session, sentinel, files>>

SessionStop(h) ==
    /\ pc[h] = "hosting"
    /\ SessionUnlocked
    /\ SessionActive
    /\ session' = NoProc
    /\ Goto(h, "exited")
    /\ UNCHANGED <<pid, relay, torn, sentinel, files>>

-----------------------------------------------------------------------------
(* Stopping: cmd_stop, request_stop. *)

\* A recording, or else a live transcript, is found ...
StopRequest(s) ==
    /\ pc[s] = "idle"
    /\ Active("recording") \/ Active("live")
    /\ Goto(s, "stopping")
    /\ UNCHANGED <<pid, relay, session, torn, sentinel, files>>

\* ... and the sentinel is written.
WriteSentinel(s) ==
    /\ pc[s] = "stopping"
    /\ sentinel' = TRUE
    /\ Goto(s, "exited")
    /\ UNCHANGED <<pid, relay, session, torn, files>>

-----------------------------------------------------------------------------
(* Recovery: the app's "Retry all", and the queue worker. *)

\* A current.wav with no recording and no job becomes a job in place.
RetryRecovery ==
    /\ Recovery
    /\ Inactive({"recording"})
    /\ \A p \in AppRecorders : pc[p] # "launched"
    /\ wav # NoProc
    /\ retry = NoProc
    /\ retry' = wav
    /\ UNCHANGED <<pc, relay, session, torn, sentinel, wav, jsonl, sidecars, writers>>

\* The worker transcribes current.wav and moves it next to its output, or the
\* job fails and the file stays.
ProcessRecovered ==
    /\ retry # NoProc
    /\ retry' = NoProc
    /\ wav' \in {wav, NoProc}
    /\ UNCHANGED <<pc, pid, relay, session, torn, sentinel, jsonl, sidecars, writers>>

-----------------------------------------------------------------------------
\* A process dies at any point; its files stay, its locks do not.  (A `stop`
\* that dies is one that takes no further step.)
Crash(p) ==
    /\ pc[p] \notin {"idle", "exited"}
    /\ Goto(p, "exited")
    /\ DropRelay(p)
    /\ sidecars' = sidecars \ {p}
    /\ writers' = writers \ {p}
    /\ UNCHANGED <<pid, session, torn, sentinel, wav, jsonl, retry>>

-----------------------------------------------------------------------------
Record(p) ==
    \/ Launch(p) \/ CreatePid(p) \/ CreateRefused(p) \/ Recheck(p)
    \/ YieldToSession(p) \/ StartRelay(p) \/ RelayRefused(p) \/ BeginCapture(p)
    \/ OpenStream(p) \/ StreamFails(p) \/ SidecarOpens(p)
    \/ SentinelStops(p) \/ UserStops(p) \/ EndCapture(p) \/ CaptureFails(p)
    \/ QueueCapture(p) \/ EndRecording(p)

Transcribe(p) ==
    \/ LiveRelay(p) \/ LiveCheckRecording(p) \/ LiveCheckDictation(p)
    \/ LiveGuard(p) \/ LiveRefused(p) \/ LiveOpen(p) \/ LiveFails(p)
    \/ LiveSentinelStops(p) \/ LiveUserStops(p) \/ LivePreserve(p)
    \/ LiveRelease(p) \/ LiveEnd(p)

Dictate(p) ==
    \/ DictationCheck(p) \/ DictationStart(p) \/ DictationPid(p)
    \/ DictationRefused(p) \/ DictationYields(p) \/ DictationEnds(p)
    \/ DictationCleanup(p)

Next ==
    \/ \E p \in Recorders : Record(p)
    \/ \E p \in Lives : Transcribe(p)
    \/ \E p \in Dictators : Dictate(p)
    \/ \E h \in Hosts : SessionCheck(h) \/ SessionWrite(h) \/ SessionStop(h)
    \/ MarkerBegin \/ MarkerEnd
    \/ \E s \in Stoppers : StopRequest(s) \/ WriteSentinel(s)
    \/ RetryRecovery \/ ProcessRecovered
    \/ \E p \in Procs \ Stoppers : Crash(p)

Spec == Init /\ [][Next]_vars

\* A microphone is opened or fails to open, and the loops that poll keep running;
\* nothing is assumed of users, of crashes or of the steps before.
Fairness ==
    /\ \A p \in Recorders : /\ WF_vars(OpenStream(p))
                            /\ WF_vars(SentinelStops(p))
    /\ \A p \in Lives : WF_vars(LiveSentinelStops(p))
    /\ \A p \in Dictators : WF_vars(DictationYields(p))

FairSpec == Spec /\ Fairness

-----------------------------------------------------------------------------
(* Properties *)

\* Types; the relay and the live transcript are held by running sessions only.
TypeOK ==
    /\ pc \in [Procs -> {"idle", "launched", "created", "checked", "relayed",
                         "capturing", "recording", "stopping", "captured",
                         "queued", "cleared", "guarded", "live", "stopped",
                         "preserved", "processing", "dictating", "yielding",
                         "hosting", "exited"}]
    /\ pid \in [Guards -> Procs \cup {NoProc}]
    /\ relay \in Recorders \cup Lives \cup {NoProc}
    /\ relay # NoProc => pc[relay] \notin {"idle", "exited"}
    /\ session \in Hosts \cup {NoProc}
    /\ torn \in BOOLEAN
    /\ sentinel \in BOOLEAN
    /\ wav \in Recorders \cup {NoProc}
    /\ jsonl \in Recorders \cup Lives \cup {NoProc}
    /\ sidecars \subseteq
          {p \in Recorders : pc[p] \in {"capturing", "recording", "stopping"}}
    /\ writers \subseteq
          {p \in Recorders \cup Lives :
              pc[p] \in {"capturing", "recording", "stopping", "live"}}
    /\ retry \in Recorders \cup {NoProc}

Capturing == {p \in Recorders \cup Lives : pc[p] \in {"capturing", "recording", "live"}}

\* A recording and a live transcript never both hold the microphone, whichever
\* processes they run in ("this process did not open a second microphone",
\* capture.rs; the checks of the PID files alone do not give it).
OneMicrophone == \A p, q \in Capturing : p = q

\* Whoever writes live-transcript.jsonl is its only writer, and truncated it last.
TranscriptIsOwn == \A p \in writers : jsonl = p /\ writers = {p}

\* From its start until it hands current.wav to the job queue, a recorder finds
\* there its own audio or (moved by a recovery job) nothing, never another's,
\* though all recorders use that one file and crashed ones leave it behind.
CaptureIsOwn ==
    \A p \in Recorders :
        pc[p] \in {"capturing", "recording", "stopping", "captured"}
            => wav \in {p, NoProc}

\* "A sensitive session and a recording cannot run simultaneously"
\* (docs/plans/consent-layer-phase2-wave1-spec-2026-06-10.md).
SensitiveExcludesCapture ==
    (\E h \in Hosts : pc[h] = "hosting") => Recorders \cap Capturing = {}

\* A queued recovery job finds in current.wav the audio of the capture that was
\* offered for retry: "the worker processes it where it lives" (commands.rs).
RecoveredIsOwn == retry # NoProc => wav \in {retry, NoProc}

\* A stop request written while a session captures ends that capture, unless a
\* recording is being started: of all other sessions none consumes the sentinel
\* ("avoiding the thread-join and double-consume race", main.rs).
StopHeard ==
    \A p \in Recorders \cup Lives :
        (sentinel /\ p \in Capturing)
            ~> (p \notin Capturing \/ \E q \in Recorders : pc[q] = "launched")

\* Dictation gives way to a recording that goes on.
DictationGivesWay ==
    \A d \in Dictators, p \in Recorders :
        (pc[d] = "dictating" /\ pid["recording"] = p /\ p \in Capturing)
            ~> (pc[d] # "dictating" \/ p \notin Capturing)
=============================================================================
