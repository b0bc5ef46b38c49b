----------------------- MODULE CaptureSessionsProofs ------------------------
(***************************************************************************)
(* Proofs about CaptureSessions for every set of processes.                *)
(***************************************************************************)
EXTENDS CaptureSessions, TLAPS

\* The relay's owner is a session that has started it and not yet ended.
RelayOwner ==
    relay # NoProc =>
        \/ /\ relay \in Recorders
           /\ pc[relay] \in {"relayed", "capturing", "recording", "stopping"}
        \/ /\ relay \in Lives
           /\ pc[relay] \in {"relayed", "checked", "cleared", "guarded", "live",
                             "stopped", "preserved", "processing"}

TypeInv == TypeOK /\ RelayOwner

-----------------------------------------------------------------------------
(* Typing *)

LEMMA TypeInvInit == Init => TypeInv
BY CaptureAssumption
   DEF Init, TypeInv, TypeOK, RelayOwner, Procs, Recorders, Guards

LEMMA TypeInvNext == TypeInv /\ [Next]_vars => TypeInv'
<1> SUFFICES ASSUME TypeInv, [Next]_vars
             PROVE  TypeInv'
  OBVIOUS
<1> USE CaptureAssumption
    DEF TypeInv, TypeOK, RelayOwner, Procs, Recorders, Guards, files, Goto
<1>1. ASSUME NEW p \in Recorders, Record(p)
      PROVE  TypeInv'
  <2>1. CASE Launch(p)
    BY <2>1 DEF Launch, Inactive, SessionInactive
  <2>2. CASE CreatePid(p)
    <3>1. sentinel' \in BOOLEAN
      BY <2>2 DEF CreatePid
    <3> QED
      BY <2>2, <3>1 DEF CreatePid, TakePid
  <2>3. CASE CreateRefused(p)
    <3>1. sentinel' \in BOOLEAN
      BY <2>3 DEF CreateRefused
    <3> QED
      BY <2>3, <3>1 DEF CreateRefused
  <2>4. CASE Recheck(p)
    BY <2>4 DEF Recheck, SessionInactive
  <2>5. CASE YieldToSession(p)
    BY <2>5 DEF YieldToSession, RemovePid
  <2>6. CASE StartRelay(p)
    BY <2>6 DEF StartRelay, TakeRelay, RelayRefuses
  <2>7. CASE RelayRefused(p)
    BY <2>7 DEF RelayRefused, RelayRefuses, Fail, RemovePid
  <2>8. CASE BeginCapture(p)
    <3>1. sentinel' \in BOOLEAN
      BY <2>8 DEF BeginCapture
    <3> QED
      BY <2>8, <3>1 DEF BeginCapture
  <2>9. CASE OpenStream(p)
    BY <2>9 DEF OpenStream
  <2>10. CASE StreamFails(p)
    BY <2>10 DEF StreamFails, Fail, RemovePid, DropRelay
  <2>11. CASE SidecarOpens(p)
    BY <2>11 DEF SidecarOpens, Inactive
  <2>12. CASE SentinelStops(p)
    <3>1. sentinel' \in BOOLEAN
      BY <2>12 DEF SentinelStops
    <3> QED
      BY <2>12, <3>1 DEF SentinelStops
  <2>13. CASE UserStops(p)
    BY <2>13 DEF UserStops
  <2>14. CASE EndCapture(p)
    BY <2>14 DEF EndCapture, DropRelay
  <2>15. CASE CaptureFails(p)
    BY <2>15 DEF CaptureFails, Fail, RemovePid, DropRelay
  <2>16. CASE QueueCapture(p)
    BY <2>16 DEF QueueCapture
  <2>17. CASE EndRecording(p)
    BY <2>17 DEF EndRecording, RemovePid
  <2> QED
    BY <1>1, <2>1, <2>2, <2>3, <2>4, <2>5, <2>6, <2>7, <2>8, <2>9, <2>10,
       <2>11, <2>12, <2>13, <2>14, <2>15, <2>16, <2>17 DEF Record
<1>2. ASSUME NEW p \in Lives, Transcribe(p)
      PROVE  TypeInv'
  <2>1. CASE LiveRelay(p)
    BY <2>1 DEF LiveRelay, TakeRelay, RelayRefuses
  <2>2. CASE LiveCheckRecording(p)
    BY <2>2 DEF LiveCheckRecording, Inactive
  <2>3. CASE LiveCheckDictation(p)
    <3>1. sentinel' \in BOOLEAN
      BY <2>3 DEF LiveCheckDictation
    <3> QED
      BY <2>3, <3>1 DEF LiveCheckDictation, Inactive
  <2>4. CASE LiveGuard(p)
    BY <2>4 DEF LiveGuard, TakePid
  <2>5. CASE LiveRefused(p)
    BY <2>5 DEF LiveRefused, DropRelay
  <2>6. CASE LiveOpen(p)
    BY <2>6 DEF LiveOpen
  <2>7. CASE LiveFails(p)
    BY <2>7 DEF LiveFails, RemovePid, DropRelay
  <2>8. CASE LiveSentinelStops(p)
    <3>1. sentinel' \in BOOLEAN
      BY <2>8 DEF LiveSentinelStops
    <3> QED
      BY <2>8, <3>1 DEF LiveSentinelStops
  <2>9. CASE LiveUserStops(p)
    BY <2>9 DEF LiveUserStops
  <2>10. CASE LivePreserve(p)
    BY <2>10 DEF LivePreserve
  <2>11. CASE LiveRelease(p)
    BY <2>11 DEF LiveRelease, RemovePid
  <2>12. CASE LiveEnd(p)
    BY <2>12 DEF LiveEnd, DropRelay
  <2> QED
    BY <1>2, <2>1, <2>2, <2>3, <2>4, <2>5, <2>6, <2>7, <2>8, <2>9, <2>10,
       <2>11, <2>12 DEF Transcribe
<1>3. ASSUME NEW p \in Dictators, Dictate(p)
      PROVE  TypeInv'
  <2>1. CASE DictationCheck(p)
    BY <2>1 DEF DictationCheck, Inactive
  <2>2. CASE DictationStart(p)
    BY <2>2 DEF DictationStart, Inactive
  <2>3. CASE DictationPid(p)
    BY <2>3 DEF DictationPid, TakePid
  <2>4. CASE DictationRefused(p)
    BY <2>4 DEF DictationRefused
  <2>5. CASE DictationYields(p)
    BY <2>5 DEF DictationYields
  <2>6. CASE DictationEnds(p)
    BY <2>6 DEF DictationEnds
  <2>7. CASE DictationCleanup(p)
    BY <2>7 DEF DictationCleanup, RemovePid
  <2> QED
    BY <1>3, <2>1, <2>2, <2>3, <2>4, <2>5, <2>6, <2>7 DEF Dictate
<1>4. ASSUME NEW h \in Hosts, SessionCheck(h) \/ SessionWrite(h) \/ SessionStop(h)
      PROVE  TypeInv'
  <2>1. CASE SessionCheck(h)
    BY <2>1 DEF SessionCheck, Inactive, SessionInactive
  <2>2. CASE SessionWrite(h)
    BY <2>2 DEF SessionWrite
  <2>3. CASE SessionStop(h)
    BY <2>3 DEF SessionStop
  <2> QED
    BY <1>4, <2>1, <2>2, <2>3
<1>5. ASSUME NEW s \in Stoppers, StopRequest(s) \/ WriteSentinel(s)
      PROVE  TypeInv'
  <2>1. CASE StopRequest(s)
    BY <2>1 DEF StopRequest
  <2>2. CASE WriteSentinel(s)
    <3>1. sentinel' \in BOOLEAN
      BY <2>2 DEF WriteSentinel
    <3> QED
      BY <2>2, <3>1 DEF WriteSentinel
  <2> QED
    BY <1>5, <2>1, <2>2
<1>6. CASE MarkerBegin \/ MarkerEnd
  <2>1. torn' \in BOOLEAN /\ UNCHANGED <<pc, pid, relay, session, sentinel, files>>
    BY <1>6 DEF MarkerBegin, MarkerEnd
  <2> QED
    BY <2>1
<1>7. CASE RetryRecovery
  BY <1>7 DEF RetryRecovery, Inactive
<1>8. CASE ProcessRecovered
  BY <1>8 DEF ProcessRecovered
<1>9. ASSUME NEW p \in Procs, Crash(p)
      PROVE  TypeInv'
  BY <1>9 DEF Crash, DropRelay
<1>10. CASE UNCHANGED vars
  BY <1>10 DEF vars
<1> QED
  BY <1>1, <1>2, <1>3, <1>4, <1>5, <1>6, <1>7, <1>8, <1>9, <1>10 DEF Next

\* Types, and the relay is held by running sessions only.
THEOREM Typing == Spec => []TypeOK
<1>1. TypeInv => TypeOK
  BY DEF TypeInv
<1> QED
  BY TypeInvInit, TypeInvNext, <1>1, PTL DEF Spec
-----------------------------------------------------------------------------
(* What the steps of one kind of session leave alone.                      *)

Leaves(P) == \A p \in P : pc'[p] = pc[p]

\* The recording PID file is not touched while its process lives.
RecordingKept == pid'["recording"] = pid["recording"] \/ ~Active("recording")

LEMMA LivesStand ==
    ASSUME TypeInv, NEW p \in Lives, Transcribe(p)
    PROVE  /\ Leaves(Recorders \cup Hosts)
           /\ UNCHANGED <<session, wav>>
           /\ RecordingKept
<1> USE CaptureAssumption
    DEF TypeInv, TypeOK, Procs, Guards, files, Goto, Leaves, RecordingKept
<1>1. CASE LiveRelay(p)
  BY <1>1 DEF LiveRelay, TakeRelay, RelayRefuses
<1>2. CASE LiveCheckRecording(p)
  BY <1>2 DEF LiveCheckRecording, Inactive
<1>3. CASE LiveCheckDictation(p)
  BY <1>3 DEF LiveCheckDictation, Inactive
<1>4. CASE LiveGuard(p)
  BY <1>4 DEF LiveGuard, TakePid
<1>5. CASE LiveRefused(p)
  BY <1>5 DEF LiveRefused, DropRelay
<1>6. CASE LiveOpen(p)
  BY <1>6 DEF LiveOpen
<1>7. CASE LiveFails(p)
  BY <1>7 DEF LiveFails, RemovePid, DropRelay
<1>8. CASE LiveSentinelStops(p)
  BY <1>8 DEF LiveSentinelStops
<1>9. CASE LiveUserStops(p)
  BY <1>9 DEF LiveUserStops
<1>10. CASE LivePreserve(p)
  BY <1>10 DEF LivePreserve
<1>11. CASE LiveRelease(p)
  BY <1>11 DEF LiveRelease, RemovePid
<1>12. CASE LiveEnd(p)
  BY <1>12 DEF LiveEnd, DropRelay
<1> QED
  BY <1>1, <1>2, <1>3, <1>4, <1>5, <1>6, <1>7, <1>8, <1>9, <1>10,
       <1>11, <1>12 DEF Transcribe

LEMMA DictatorsStand ==
    ASSUME TypeInv, NEW p \in Dictators, Dictate(p)
    PROVE  /\ Leaves(Recorders \cup Lives \cup Hosts)
           /\ UNCHANGED <<relay, session, wav, jsonl, sidecars, writers>>
           /\ RecordingKept
<1> USE CaptureAssumption
    DEF TypeInv, TypeOK, Procs, Guards, files, Goto, Leaves, RecordingKept
<1>1. CASE DictationCheck(p)
  BY <1>1 DEF DictationCheck, Inactive
<1>2. CASE DictationStart(p)
  BY <1>2 DEF DictationStart, Inactive
<1>3. CASE DictationPid(p)
  BY <1>3 DEF DictationPid, TakePid
<1>4. CASE DictationRefused(p)
  BY <1>4 DEF DictationRefused
<1>5. CASE DictationYields(p)
  BY <1>5 DEF DictationYields
<1>6. CASE DictationEnds(p)
  BY <1>6 DEF DictationEnds
<1>7. CASE DictationCleanup(p)
  BY <1>7 DEF DictationCleanup, RemovePid
<1> QED
  BY <1>1, <1>2, <1>3, <1>4, <1>5, <1>6, <1>7 DEF Dictate

LEMMA HostsStand ==
    ASSUME TypeInv, NEW h \in Hosts,
           SessionCheck(h) \/ SessionWrite(h) \/ SessionStop(h)
    PROVE  /\ Leaves(Recorders \cup Lives)
           /\ UNCHANGED <<relay, wav, jsonl, sidecars, writers>>
           /\ RecordingKept
<1> USE CaptureAssumption
    DEF TypeInv, TypeOK, Procs, Guards, files, Goto, Leaves, RecordingKept
<1>1. CASE SessionCheck(h)
  BY <1>1 DEF SessionCheck, Inactive, SessionInactive
<1>2. CASE SessionWrite(h)
  BY <1>2 DEF SessionWrite
<1>3. CASE SessionStop(h)
  BY <1>3 DEF SessionStop
<1> QED
  BY <1>1, <1>2, <1>3

\* Stop requests, markers and recovery.
Aside ==
    \/ \E s \in Stoppers : StopRequest(s) \/ WriteSentinel(s)
    \/ MarkerBegin \/ MarkerEnd
    \/ RetryRecovery \/ ProcessRecovered

LEMMA AsideStands ==
    ASSUME TypeInv, Aside
    PROVE  /\ Leaves(Recorders \cup Lives \cup Hosts)
           /\ UNCHANGED <<relay, session, jsonl, sidecars, writers>>
           /\ wav' \in {wav, NoProc}
           /\ RecordingKept
<1> USE CaptureAssumption
    DEF TypeInv, TypeOK, Procs, Guards, files, Goto, Leaves, RecordingKept
<1>1. ASSUME NEW s \in Stoppers, StopRequest(s) \/ WriteSentinel(s)
      PROVE  /\ Leaves(Recorders \cup Lives \cup Hosts)
             /\ UNCHANGED <<pid, relay, session, wav, jsonl, sidecars, writers>>
  BY <1>1 DEF StopRequest, WriteSentinel
<1>2. CASE MarkerBegin
  BY <1>2 DEF MarkerBegin
<1>3. CASE MarkerEnd
  BY <1>3 DEF MarkerEnd
<1>4. CASE RetryRecovery
  BY <1>4 DEF RetryRecovery, Inactive
<1>5. CASE ProcessRecovered
  BY <1>5 DEF ProcessRecovered
<1> QED
  BY <1>1, <1>2, <1>3, <1>4, <1>5 DEF Aside

-----------------------------------------------------------------------------
(* Recordings: the PID file, and current.wav. *)

\* A recorder holds the PID file from pid::create until it removes it.
PidHeld ==
    \A p \in Recorders :
        pc[p] \in {"created", "checked", "relayed", "capturing", "recording",
                   "stopping", "captured", "queued"} => pid["recording"] = p

RecordingInv == PidHeld /\ CaptureIsOwn

LEMMA RecordingInit == Init => RecordingInv
BY CaptureAssumption DEF Init, RecordingInv, PidHeld, CaptureIsOwn, Procs, Recorders

LEMMA RecordingNext == TypeInv /\ RecordingInv /\ [Next]_vars => RecordingInv'
<1> SUFFICES ASSUME TypeInv, RecordingInv, [Next]_vars
             PROVE  RecordingInv'
  OBVIOUS
<1> USE CaptureAssumption DEF RecordingInv, PidHeld, CaptureIsOwn, Alive, Active, Procs
<1>1. ASSUME NEW p \in Recorders, Record(p)
      PROVE  RecordingInv'
  <2> USE DEF TypeInv, TypeOK, Procs, Recorders, Guards, files, Goto
  <2>1. CASE Launch(p)
    BY <2>1 DEF Launch, Inactive, SessionInactive
  <2>2. CASE CreatePid(p)
    BY <2>2 DEF CreatePid, TakePid
  <2>3. CASE CreateRefused(p)
    BY <2>3 DEF CreateRefused
  <2>4. CASE Recheck(p)
    BY <2>4 DEF Recheck, SessionInactive
  <2>5. CASE YieldToSession(p)
    BY <2>5 DEF YieldToSession, RemovePid
  <2>6. CASE StartRelay(p)
    BY <2>6 DEF StartRelay, TakeRelay, RelayRefuses
  <2>7. CASE RelayRefused(p)
    BY <2>7 DEF RelayRefused, RelayRefuses, Fail, RemovePid
  <2>8. CASE BeginCapture(p)
    BY <2>8 DEF BeginCapture
  <2>9. CASE OpenStream(p)
    BY <2>9 DEF OpenStream
  <2>10. CASE StreamFails(p)
    BY <2>10 DEF StreamFails, Fail, RemovePid, DropRelay
  <2>11. CASE SidecarOpens(p)
    BY <2>11 DEF SidecarOpens, Inactive
  <2>12. CASE SentinelStops(p)
    BY <2>12 DEF SentinelStops
  <2>13. CASE UserStops(p)
    BY <2>13 DEF UserStops
  <2>14. CASE EndCapture(p)
    BY <2>14 DEF EndCapture, DropRelay
  <2>15. CASE CaptureFails(p)
    BY <2>15 DEF CaptureFails, Fail, RemovePid, DropRelay
  <2>16. CASE QueueCapture(p)
    BY <2>16 DEF QueueCapture
  <2>17. CASE EndRecording(p)
    BY <2>17 DEF EndRecording, RemovePid
  <2> QED
    BY <1>1, <2>1, <2>2, <2>3, <2>4, <2>5, <2>6, <2>7, <2>8, <2>9, <2>10,
       <2>11, <2>12, <2>13, <2>14, <2>15, <2>16, <2>17 DEF Record
<1>2. ASSUME NEW p \in Lives, Transcribe(p)
      PROVE  RecordingInv'
  BY <1>2, LivesStand DEF Leaves, RecordingKept
<1>3. ASSUME NEW p \in Dictators, Dictate(p)
      PROVE  RecordingInv'
  BY <1>3, DictatorsStand DEF Leaves, RecordingKept
<1>4. ASSUME NEW h \in Hosts, SessionCheck(h) \/ SessionWrite(h) \/ SessionStop(h)
      PROVE  RecordingInv'
  BY <1>4, HostsStand DEF Leaves, RecordingKept
<1>5. CASE Aside
  BY <1>5, AsideStands DEF Leaves, RecordingKept
<1>6. ASSUME NEW p \in Procs, Crash(p)
      PROVE  RecordingInv'
  BY <1>6 DEF Crash, Goto, TypeInv, TypeOK
<1>7. CASE UNCHANGED vars
  BY <1>7 DEF vars, files
<1> QED
  BY <1>1, <1>2, <1>3, <1>4, <1>5, <1>6, <1>7 DEF Next, Aside

\* A recorder finds in current.wav its own audio or nothing, however many
\* recorders start, crash and leave their files behind.
THEOREM OwnCapture == Spec => []CaptureIsOwn
<1>1. RecordingInv => CaptureIsOwn
  BY DEF RecordingInv
<1> QED
  BY TypeInvInit, TypeInvNext, RecordingInit, RecordingNext, <1>1, PTL DEF Spec

-----------------------------------------------------------------------------
(* The relay: one session captures at a time, and one writes the transcript. *)

\* p has started the relay and not yet dropped it.
Relaying(p) ==
    \/ pc[p] \in {"relayed", "capturing", "recording", "stopping", "cleared",
                  "guarded", "live", "stopped", "preserved", "processing"}
    \/ p \in Lives /\ pc[p] = "checked"

RelayHeld == \A p \in Recorders \cup Lives : Relaying(p) => relay = p

RelayInv == RelayHeld /\ TranscriptIsOwn

LEMMA RelayInit == Init => RelayInv
BY CaptureAssumption
   DEF Init, RelayInv, RelayHeld, Relaying, TranscriptIsOwn, Procs, Recorders

LEMMA RelayNext ==
    ASSUME ~RelayErrors
    PROVE  TypeInv /\ RelayInv /\ [Next]_vars => RelayInv'
<1> SUFFICES ASSUME TypeInv, RelayInv, [Next]_vars
             PROVE  RelayInv'
  OBVIOUS
<1> USE ~RelayErrors, CaptureAssumption
    DEF RelayInv, RelayHeld, Relaying, TranscriptIsOwn, Procs
<1>1. ASSUME NEW p \in Recorders, Record(p)
      PROVE  RelayInv'
  <2> USE DEF TypeInv, TypeOK, Procs, files, Goto
  <2>1. CASE Launch(p)
    BY <2>1 DEF Launch, Inactive, SessionInactive
  <2>2. CASE CreatePid(p)
    BY <2>2 DEF CreatePid, TakePid
  <2>3. CASE CreateRefused(p)
    BY <2>3 DEF CreateRefused
  <2>4. CASE Recheck(p)
    BY <2>4 DEF Recheck, SessionInactive
  <2>5. CASE YieldToSession(p)
    BY <2>5 DEF YieldToSession, RemovePid
  <2>6. CASE StartRelay(p)
    BY <2>6 DEF StartRelay, TakeRelay, RelayRefuses
  <2>7. CASE RelayRefused(p)
    BY <2>7 DEF RelayRefused, RelayRefuses, Fail, RemovePid
  <2>8. CASE BeginCapture(p)
    BY <2>8 DEF BeginCapture
  <2>9. CASE OpenStream(p)
    BY <2>9 DEF OpenStream
  <2>10. CASE StreamFails(p)
    BY <2>10 DEF StreamFails, Fail, RemovePid, DropRelay
  <2>11. CASE SidecarOpens(p)
    BY <2>11 DEF SidecarOpens, Inactive
  <2>12. CASE SentinelStops(p)
    BY <2>12 DEF SentinelStops
  <2>13. CASE UserStops(p)
    BY <2>13 DEF UserStops
  <2>14. CASE EndCapture(p)
    BY <2>14 DEF EndCapture, DropRelay
  <2>15. CASE CaptureFails(p)
    BY <2>15 DEF CaptureFails, Fail, RemovePid, DropRelay
  <2>16. CASE QueueCapture(p)
    BY <2>16 DEF QueueCapture
  <2>17. CASE EndRecording(p)
    BY <2>17 DEF EndRecording, RemovePid
  <2> QED
    BY <1>1, <2>1, <2>2, <2>3, <2>4, <2>5, <2>6, <2>7, <2>8, <2>9, <2>10,
       <2>11, <2>12, <2>13, <2>14, <2>15, <2>16, <2>17 DEF Record
<1>2. ASSUME NEW p \in Lives, Transcribe(p)
      PROVE  RelayInv'
  <2> USE DEF TypeInv, TypeOK, Procs, files, Goto
  <2>1. CASE LiveRelay(p)
    BY <2>1 DEF LiveRelay, TakeRelay, RelayRefuses
  <2>2. CASE LiveCheckRecording(p)
    BY <2>2 DEF LiveCheckRecording, Inactive
  <2>3. CASE LiveCheckDictation(p)
    BY <2>3 DEF LiveCheckDictation, Inactive
  <2>4. CASE LiveGuard(p)
    BY <2>4 DEF LiveGuard, TakePid
  <2>5. CASE LiveRefused(p)
    BY <2>5 DEF LiveRefused, DropRelay
  <2>6. CASE LiveOpen(p)
    BY <2>6 DEF LiveOpen
  <2>7. CASE LiveFails(p)
    BY <2>7 DEF LiveFails, RemovePid, DropRelay
  <2>8. CASE LiveSentinelStops(p)
    BY <2>8 DEF LiveSentinelStops
  <2>9. CASE LiveUserStops(p)
    BY <2>9 DEF LiveUserStops
  <2>10. CASE LivePreserve(p)
    BY <2>10 DEF LivePreserve
  <2>11. CASE LiveRelease(p)
    BY <2>11 DEF LiveRelease, RemovePid
  <2>12. CASE LiveEnd(p)
    BY <2>12 DEF LiveEnd, DropRelay
  <2> QED
    BY <1>2, <2>1, <2>2, <2>3, <2>4, <2>5, <2>6, <2>7, <2>8, <2>9, <2>10,
       <2>11, <2>12 DEF Transcribe
<1>3. ASSUME NEW p \in Dictators, Dictate(p)
      PROVE  RelayInv'
  BY <1>3, DictatorsStand DEF Leaves
<1>4. ASSUME NEW h \in Hosts, SessionCheck(h) \/ SessionWrite(h) \/ SessionStop(h)
      PROVE  RelayInv'
  BY <1>4, HostsStand DEF Leaves
<1>5. CASE Aside
  BY <1>5, AsideStands DEF Leaves
<1>6. ASSUME NEW p \in Procs, Crash(p)
      PROVE  RelayInv'
  BY <1>6 DEF Crash, DropRelay, Goto, TypeInv, TypeOK
<1>7. CASE UNCHANGED vars
  BY <1>7 DEF vars, files
<1> QED
  BY <1>1, <1>2, <1>3, <1>4, <1>5, <1>6, <1>7 DEF Next, Aside

\* When the relay fails for no reason but its owner, sessions of any processes
\* never capture two at a time: the relay is what excludes the ones that the
\* PID files miss.
THEOREM Microphone == ASSUME ~RelayErrors PROVE Spec => []OneMicrophone
<1>1. RelayInv => OneMicrophone
  BY DEF RelayInv, RelayHeld, Relaying, OneMicrophone, Capturing
<1> QED
  BY TypeInvInit, TypeInvNext, RelayInit, RelayNext, <1>1, PTL DEF Spec

\* Under the same assumption the live transcript is only ever written by the
\* process that truncated it last.
THEOREM OwnTranscript == ASSUME ~RelayErrors PROVE Spec => []TranscriptIsOwn
<1>1. RelayInv => TranscriptIsOwn
  BY DEF RelayInv
<1> QED
  BY TypeInvInit, TypeInvNext, RelayInit, RelayNext, <1>1, PTL DEF Spec

-----------------------------------------------------------------------------
(* Sensitive meetings *)

\* Recorders whose second look at the session found none.
Past(p) == pc[p] \in {"checked", "relayed", "capturing", "recording",
                      "stopping", "captured", "queued"}

\* The session names its live host, and while one is being started ...
HostNamed == \A h \in Hosts : pc[h] = "hosting" => session = h

\* ... the lock keeps out other hosts, markers, and recordings' PID files.
StartAlone ==
    \A h \in Hosts : pc[h] = "cleared" =>
        /\ ~torn
        /\ \A g \in Hosts : pc[g] \in {"cleared", "hosting"} => g = h
        /\ \A p \in Recorders : ~Past(p) /\ pc[p] # "created"

NoneRecorded == \A h \in Hosts, p \in Recorders : pc[h] = "hosting" => ~Past(p)

\* Recorders are never where only live transcripts are.
NoRecorderLive == \A p \in Recorders : pc[p] # "live"

QuietInv == HostNamed /\ StartAlone /\ NoneRecorded /\ NoRecorderLive

LEMMA QuietInit == Init => QuietInv
BY CaptureAssumption
   DEF Init, QuietInv, HostNamed, StartAlone, NoneRecorded, NoRecorderLive, Past,
       Procs, Recorders

LEMMA QuietNext ==
    ASSUME ~SlowSession
    PROVE  TypeInv /\ RecordingInv /\ QuietInv /\ [Next]_vars => QuietInv'
<1> SUFFICES ASSUME TypeInv, RecordingInv, QuietInv, [Next]_vars
             PROVE  QuietInv'
  OBVIOUS
<1> USE ~SlowSession, CaptureAssumption
    DEF QuietInv, HostNamed, StartAlone, NoneRecorded, NoRecorderLive, Past,
        Procs, Alive
<1>1. ASSUME NEW p \in Recorders, Record(p)
      PROVE  QuietInv'
  <2> USE DEF TypeInv, TypeOK, Goto, SessionSettled, SessionUnlocked, SessionActive
  <2>1. CASE Launch(p)
    BY <2>1 DEF Launch, Inactive, SessionInactive
  <2>2. CASE CreatePid(p)
    BY <2>2 DEF CreatePid, TakePid
  <2>3. CASE CreateRefused(p)
    BY <2>3 DEF CreateRefused
  <2>4. CASE Recheck(p)
    BY <2>4 DEF Recheck, SessionInactive
  <2>5. CASE YieldToSession(p)
    BY <2>5 DEF YieldToSession, RemovePid
  <2>6. CASE StartRelay(p)
    BY <2>6 DEF StartRelay, TakeRelay, RelayRefuses
  <2>7. CASE RelayRefused(p)
    BY <2>7 DEF RelayRefused, RelayRefuses, Fail, RemovePid
  <2>8. CASE BeginCapture(p)
    BY <2>8 DEF BeginCapture
  <2>9. CASE OpenStream(p)
    BY <2>9 DEF OpenStream
  <2>10. CASE StreamFails(p)
    BY <2>10 DEF StreamFails, Fail, RemovePid, DropRelay
  <2>11. CASE SidecarOpens(p)
    BY <2>11 DEF SidecarOpens, Inactive
  <2>12. CASE SentinelStops(p)
    BY <2>12 DEF SentinelStops
  <2>13. CASE UserStops(p)
    BY <2>13 DEF UserStops
  <2>14. CASE EndCapture(p)
    BY <2>14 DEF EndCapture, DropRelay
  <2>15. CASE CaptureFails(p)
    BY <2>15 DEF CaptureFails, Fail, RemovePid, DropRelay
  <2>16. CASE QueueCapture(p)
    BY <2>16 DEF QueueCapture
  <2>17. CASE EndRecording(p)
    BY <2>17 DEF EndRecording, RemovePid
  <2> QED
    BY <1>1, <2>1, <2>2, <2>3, <2>4, <2>5, <2>6, <2>7, <2>8, <2>9, <2>10,
       <2>11, <2>12, <2>13, <2>14, <2>15, <2>16, <2>17 DEF Record
<1>2. ASSUME NEW p \in Lives, Transcribe(p)
      PROVE  QuietInv'
  <2>1. UNCHANGED torn
    BY <1>2 DEF Transcribe, LiveRelay, LiveCheckRecording, LiveCheckDictation,
       LiveGuard, LiveRefused, LiveOpen, LiveFails, LiveSentinelStops,
       LiveUserStops, LivePreserve, LiveRelease, LiveEnd
  <2> QED
    BY <1>2, <2>1, LivesStand DEF Leaves
<1>3. ASSUME NEW p \in Dictators, Dictate(p)
      PROVE  QuietInv'
  <2>1. UNCHANGED torn
    BY <1>3 DEF Dictate, DictationCheck, DictationStart, DictationPid,
       DictationRefused, DictationYields, DictationEnds, DictationCleanup
  <2> QED
    BY <1>3, <2>1, DictatorsStand DEF Leaves
<1>4. ASSUME NEW h \in Hosts, SessionCheck(h) \/ SessionWrite(h) \/ SessionStop(h)
      PROVE  QuietInv'
  <2> USE DEF TypeInv, TypeOK, Goto, SessionUnlocked, SessionActive
  <2>1. CASE SessionCheck(h)
    <3>1. \A p \in Recorders : ~Past(p) /\ pc[p] # "created"
      BY <2>1 DEF SessionCheck, Inactive, Active, RecordingInv, PidHeld
    <3> QED
      BY <2>1, <3>1 DEF SessionCheck, SessionInactive
  <2>2. CASE SessionWrite(h)
    BY <2>2 DEF SessionWrite
  <2>3. CASE SessionStop(h)
    BY <2>3 DEF SessionStop
  <2> QED
    BY <1>4, <2>1, <2>2, <2>3
<1>5. CASE Aside
  <2>1. torn' # torn => SessionUnlocked \/ ~torn'
    BY <1>5 DEF Aside, StopRequest, WriteSentinel, MarkerBegin, MarkerEnd,
       RetryRecovery, ProcessRecovered
  <2> QED
    BY <1>5, <2>1, AsideStands DEF Leaves, SessionUnlocked
<1>6. ASSUME NEW p \in Procs, Crash(p)
      PROVE  QuietInv'
  BY <1>6 DEF Crash, Goto, TypeInv, TypeOK
<1>7. CASE UNCHANGED vars
  BY <1>7 DEF vars
<1> QED
  BY <1>1, <1>2, <1>3, <1>4, <1>5, <1>6, <1>7 DEF Next, Aside

\* When no recording starts between the steps of an update of the session file
\* (CaptureSensitiveStart.cfg shows what happens then), a session whose host
\* lives excludes recordings, whatever crashes, is refused or removes files
\* that dead processes left.
THEOREM QuietMeeting ==
    ASSUME ~SlowSession PROVE Spec => []SensitiveExcludesCapture
<1>1. QuietInv => SensitiveExcludesCapture
  BY DEF QuietInv, NoneRecorded, NoRecorderLive, Past, SensitiveExcludesCapture,
     Capturing
<1> QED
  BY TypeInvInit, TypeInvNext, RecordingInit, RecordingNext, QuietInit, QuietNext,
     <1>1, PTL DEF Spec
=============================================================================
