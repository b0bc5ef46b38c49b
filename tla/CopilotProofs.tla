--------------------------- MODULE CopilotProofs ----------------------------
(***************************************************************************)
(* Proofs about CopilotControl for every set of sessions and of commands,  *)
(* about CopilotDepth for every capacity of its channel and every number   *)
(* of sessions and requests, about CaptureRelay for every set of clients,  *)
(* ring, socket, and number of frames, owners and broken connections, and  *)
(* about CopilotRunner for every set of partials, capacity of its channel, *)
(* and number of revisions, sessions and controls, and about LiveSidekick  *)
(* for every set of ids, speakers and generations and every largest number *)
(***************************************************************************)
EXTENDS CopilotControl, CopilotDepth, CaptureRelay, CopilotRunner, LiveSidekick,
    TLAPS, SequenceTheorems

-----------------------------------------------------------------------------
(* CopilotControl: the control files *)

\* A control that its session was there to get is of session s.
OwnOf(control, s) == control # CoNone /\ control.there => control.for = s

\* Types, but for the bound of coApplied.
CoTyped ==
    /\ coHolder \in CoSessions \cup {CoNone}
    /\ coPc \in [CoSessions -> {"new", "armed", "clearPause", "clearStop", "clearFeedback",
                                "resetFlag", "prepare", "loop", "crashed"} \cup CoEnding]
    /\ coPaused \in [CoSessions -> CoControl] /\ coEndedBy \in [CoSessions -> CoControl]
    /\ coTook \in [CoSessions -> CoCommands \cup {CoNone, "torn"}]
    /\ coStop \in CoControl /\ coPause \in CoControl /\ coFlag \in CoControl
    /\ coFeedback \in CoCommands \cup {CoNone, "torn"}
    /\ coRequest \in [CoCommands ->
            [pc : {"idle", "flag", "write", "torn", "done"},
             kind : {"stop", "pause", "resume", "feedback"}, for : CoSessions \cup {CoNone}]]
    /\ \A c \in CoCommands : coRequest[c].pc # "idle" => coRequest[c].for # CoNone
    /\ coApplied \in [CoCommands -> {0, 1}]
    /\ coActive \in CoDesktop \cup {CoNone}

\* The session guard is held from its creation to its release.
Guarded ==
    \A s \in CoSessions :
        coHolder = s <=> coPc[s] \notin {"new", "armed", "deactivate", "done", "crashed"}

\* Once cleared, a control is of the session that cleared it.
Cleared ==
    \A s \in CoSessions :
        /\ coPc[s] \in {"clearStop", "clearFeedback", "resetFlag", "prepare", "loop"} =>
              OwnOf(coPause, s)
        /\ coPc[s] \in {"clearFeedback", "resetFlag", "prepare", "loop"} => OwnOf(coStop, s)
        /\ coPc[s] = "prepare" \/ (coPc[s] = "loop" /\ s \in CoDesktop) => OwnOf(coFlag, s)

\* What a session obeyed was its own.
Obeyed == \A s \in CoSessions : OwnOf(coEndedBy[s], s) /\ OwnOf(coPaused[s], s)

\* A rating is in the file or with its reader after it was written, and in neither
\* after it was applied.
Rated ==
    /\ \A s \in CoSessions : coTook[s] # CoNone => coPc[s] = "loop"
    /\ \A c \in CoCommands :
          /\ coFeedback = c \/ (\E s \in CoSessions : coTook[s] = c) =>
                coRequest[c].pc = "done" /\ coApplied[c] = 0
          /\ coApplied[c] # 0 => coRequest[c].pc = "done"

CoInv == CoTyped /\ Guarded /\ Cleared /\ Obeyed /\ Rated

-----------------------------------------------------------------------------
\* At first there is nothing to obey.
LEMMA CoInvInit == CopilotControlInit => CoInv
<1> SUFFICES ASSUME CopilotControlInit
             PROVE  CoInv
  OBVIOUS
<1> USE CoAssumption DEF CoAssumption, CopilotControlInit
<1>1. CoTyped
  BY DEF CoTyped, CoControl
<1>2. Guarded /\ Cleared
  BY DEF Guarded, Cleared
<1>3. Obeyed /\ Rated
  BY DEF Obeyed, Rated, OwnOf
<1> QED
  BY <1>1, <1>2, <1>3 DEF CoInv

\* A control written now, if its session is there, is of the holder.
LEMMA WrittenNow ==
    ASSUME CoInv, NEW c \in CoCommands
    PROVE  /\ coRequest[c].pc # "idle" => CoControlOf(c) \in CoControl \ {CoNone}
           /\ \A s \in CoSessions : coHolder = s => OwnOf(CoControlOf(c), s)
<1>1. coRequest[c].pc # "idle" => coRequest[c].for \in CoSessions
  BY DEF CoInv, CoTyped
<1>2. coRequest[c].for \in CoSessions =>
         CoControlOf(c) \in [for : CoSessions, there : BOOLEAN]
  BY DEF CoControlOf
<1>3. \A s \in CoSessions : coHolder = s => OwnOf(CoControlOf(c), s)
  BY DEF CoControlOf, OwnOf
<1> QED
  BY <1>1, <1>2, <1>3, CoAssumption DEF CoAssumption, CoControl

\* Starting, clearing and ending of a session.
LEMMA SessionKeepsInv ==
    ASSUME CoInv, NEW s \in CoSessions,
           \/ CoArm(s) \/ CoGuard(s) \/ CoRefused(s) \/ CoClear(s) \/ CoResetFlag(s)
           \/ CoRelease(s) \/ CoDeactivate(s) \/ CoFail(s)
    PROVE  CoInv'
<1> USE CoAssumption DEF CoInv, CoAssumption
<1>1. /\ coPc' = [coPc EXCEPT ![s] = coPc'[s]]
      /\ UNCHANGED <<coPaused, coEndedBy, coTook, coRequest, coApplied>>
      /\ coStop' \in {coStop, CoNone} /\ coPause' \in {coPause, CoNone} /\ coFlag' \in {coFlag, CoNone}
      /\ coFeedback' \in {coFeedback, CoNone}
  BY DEF CoTyped, CoArm, CoGuard, CoRefused, CoClear, CoResetFlag, CoRelease, CoDeactivate, CoFail, CoGo
<1>2. coTook[s] = CoNone
  BY DEF Rated, CoArm, CoGuard, CoRefused, CoClear, CoResetFlag, CoRelease, CoDeactivate, CoFail, CoGo
<1>3. CoTyped' /\ Guarded'
  <2>1. CASE CoArm(s) BY <2>1 DEF CoArm, CoGo, CoTyped, Guarded
  <2>2. CASE CoGuard(s) BY <2>2 DEF CoGuard, CoGo, CoTyped, Guarded
  <2>3. CASE CoRefused(s) BY <2>3 DEF CoRefused, CoGo, CoTyped, Guarded, CoEnding
  <2>4. CASE CoClear(s) BY <2>4 DEF CoClear, CoGo, CoTyped, Guarded, CoEnding, CoControl
  <2>5. CASE CoResetFlag(s) BY <2>5 DEF CoResetFlag, CoGo, CoTyped, Guarded, CoControl
  <2>6. CASE CoRelease(s) BY <2>6 DEF CoRelease, CoGo, CoTyped, Guarded, CoEnding
  <2>7. CASE CoDeactivate(s) BY <2>7 DEF CoDeactivate, CoGo, CoTyped, Guarded, CoEnding
  <2>8. CASE CoFail(s) BY <2>8 DEF CoFail, CoGo, CoTyped, Guarded, CoEnding
  <2> QED BY <2>1, <2>2, <2>3, <2>4, <2>5, <2>6, <2>7, <2>8
<1>4. Cleared'
  <2>1. CASE CoArm(s) BY <2>1, <1>1 DEF CoArm, CoGo, CoTyped, Cleared, OwnOf
  <2>2. CASE CoGuard(s) BY <2>2, <1>1 DEF CoGuard, CoGo, CoTyped, Cleared, OwnOf
  <2>3. CASE CoRefused(s) BY <2>3, <1>1 DEF CoRefused, CoGo, CoTyped, Cleared, OwnOf
  <2>4. CASE CoClear(s) BY <2>4, <1>1 DEF CoClear, CoGo, CoTyped, Cleared, OwnOf
  <2>5. CASE CoResetFlag(s) BY <2>5, <1>1 DEF CoResetFlag, CoGo, CoTyped, Cleared, OwnOf
  <2>6. CASE CoRelease(s) BY <2>6, <1>1 DEF CoRelease, CoGo, CoTyped, Cleared, OwnOf
  <2>7. CASE CoDeactivate(s) BY <2>7, <1>1 DEF CoDeactivate, CoGo, CoTyped, Cleared, OwnOf
  <2>8. CASE CoFail(s) BY <2>8, <1>1 DEF CoFail, CoGo, CoTyped, Cleared, OwnOf
  <2> QED BY <2>1, <2>2, <2>3, <2>4, <2>5, <2>6, <2>7, <2>8
<1>5. Obeyed'
  BY <1>1 DEF Obeyed, OwnOf
<1>6. Rated'
  BY <1>1, <1>2 DEF Rated, CoTyped
<1> QED
  BY <1>3, <1>4, <1>5, <1>6

\* The polls of a session: what it obeys.
LEMMA PollKeepsInv ==
    ASSUME CoInv, NEW s \in CoSessions, CoPrepared(s) \/ CoLeave(s) \/ CoPollPause(s)
    PROVE  CoInv'
<1> USE CoAssumption DEF CoInv, CoAssumption
<1>1. UNCHANGED <<coHolder, coTook, coStop, coPause, coFeedback, coActive, coFlag, coRequest, coApplied>>
  BY DEF CoPrepared, CoLeave, CoPollPause
<1>2. coTook[s] = CoNone \/ UNCHANGED coPc
  BY DEF Rated, CoPrepared, CoLeave, CoPollPause
<1>3. OwnOf(coPause, s) /\ OwnOf(coStop, s) /\ (s \in CoDesktop \/ coPc[s] = "prepare" => OwnOf(coFlag, s))
  BY DEF Cleared, CoPrepared, CoLeave, CoPollPause, CoGo
<1>4. CoTyped' /\ Guarded'
  <2>1. CASE CoPrepared(s) BY <2>1 DEF CoPrepared, CoTyped, Guarded, CoEnding
  <2>2. CASE CoLeave(s) BY <2>2 DEF CoLeave, CoGo, CoTyped, Guarded, CoEnding
  <2>3. CASE CoPollPause(s) BY <2>3 DEF CoPollPause, CoTyped, Guarded
  <2> QED BY <2>1, <2>2, <2>3
<1>5. Cleared'
  <2>1. CASE CoPrepared(s) BY <2>1, <1>1, <1>3 DEF CoPrepared, CoTyped, Cleared, OwnOf
  <2>2. CASE CoLeave(s) BY <2>2, <1>1 DEF CoLeave, CoGo, CoTyped, Cleared, OwnOf
  <2>3. CASE CoPollPause(s) BY <2>3, <1>1 DEF CoPollPause, Cleared, OwnOf
  <2> QED BY <2>1, <2>2, <2>3
<1>6. Obeyed'
  <2>1. CASE CoPrepared(s) BY <2>1, <1>3 DEF CoPrepared, CoTyped, Obeyed, OwnOf
  <2>2. CASE CoLeave(s) BY <2>2, <1>3 DEF CoLeave, CoTyped, Obeyed, OwnOf
  <2>3. CASE CoPollPause(s) BY <2>3, <1>3 DEF CoPollPause, CoTyped, Obeyed, OwnOf
  <2> QED BY <2>1, <2>2, <2>3
<1>7. Rated'
  <2>1. coPc' = [coPc EXCEPT ![s] = coPc'[s]]
    BY DEF CoPrepared, CoLeave, CoPollPause, CoGo, CoTyped
  <2> QED BY <1>1, <1>2, <2>1 DEF Rated, CoTyped
<1> QED
  BY <1>4, <1>5, <1>6, <1>7

\* A rating is read and removed.
LEMMA FeedbackKeepsInv ==
    ASSUME CoInv, NEW s \in CoSessions, CoReadFeedback(s) \/ CoRemoveFeedback(s)
    PROVE  CoInv'
<1> USE CoAssumption DEF CoInv, CoAssumption
<1>1. UNCHANGED <<coHolder, coPc, coPaused, coEndedBy, coStop, coPause, coActive, coFlag, coRequest>>
  BY DEF CoReadFeedback, CoRemoveFeedback
<1>2. coPc[s] = "loop" /\ coFeedback' \in {coFeedback, CoNone}
  BY DEF CoReadFeedback, CoRemoveFeedback, Rated
<1>3. \A t \in CoSessions : t # s => coTook[t] = CoNone
  BY <1>2 DEF Rated, Guarded, CoTyped
<1>4. Guarded' /\ Cleared' /\ Obeyed'
  BY <1>1 DEF Guarded, Cleared, Obeyed, OwnOf
<1>5. CASE CoReadFeedback(s)
  <2>1. coFeedback # CoNone /\ coTook' = [coTook EXCEPT ![s] = coFeedback]
        /\ UNCHANGED <<coFeedback, coApplied>>
    BY <1>5 DEF CoReadFeedback
  <2>2. CoTyped'
    BY <1>1, <2>1 DEF CoTyped
  <2>3. Rated'
    BY <1>1, <1>2, <1>3, <2>1 DEF Rated, CoTyped
  <2> QED BY <1>4, <2>2, <2>3
<1>6. CASE CoRemoveFeedback(s)
  <2>1. /\ coTook' = [coTook EXCEPT ![s] = CoNone]
        /\ \/ /\ coFeedback' = CoNone
              /\ coApplied' = [c \in CoCommands |-> coApplied[c] + (IF coTook[s] = c THEN 1 ELSE 0)]
           \/ UNCHANGED <<coFeedback, coApplied>>
    BY <1>6 DEF CoRemoveFeedback
  <2>2. CASE coFeedback' = CoNone
             /\ coApplied' = [c \in CoCommands |-> coApplied[c] + (IF coTook[s] = c THEN 1 ELSE 0)]
    <3>1. \A c \in CoCommands : coApplied'[c] = IF coTook[s] = c THEN 1 ELSE coApplied[c]
      BY <2>2 DEF Rated, CoTyped
    <3>2. coApplied' \in [CoCommands -> {0, 1}]
      <4>1. \A c \in CoCommands : coApplied'[c] \in {0, 1}
        BY <3>1 DEF CoTyped
      <4> QED BY <2>2, <4>1
    <3>3. CoTyped'
      BY <1>1, <2>1, <2>2, <3>2 DEF CoTyped
    <3>4. Rated'
      BY <1>1, <1>2, <1>3, <2>1, <2>2, <3>1 DEF Rated, CoTyped
    <3> QED BY <1>4, <3>3, <3>4
  <2>3. CASE UNCHANGED <<coFeedback, coApplied>>
    <3>1. CoTyped'
      BY <1>1, <2>1, <2>3 DEF CoTyped
    <3>2. Rated'
      BY <1>1, <1>2, <2>1, <2>3 DEF Rated, CoTyped
    <3> QED BY <1>4, <3>1, <3>2
  <2> QED BY <2>1, <2>2, <2>3
<1> QED
  BY <1>5, <1>6

\* A crash: the session's guard is freed and the flags of the app die.
LEMMA CrashKeepsInv ==
    ASSUME CoInv, NEW s \in CoSessions, CoCrash(s)
    PROVE  CoInv'
<1> USE CoAssumption DEF CoInv, CoAssumption
<1>1. /\ coHolder = s /\ coHolder' = CoNone /\ coPc' = [coPc EXCEPT ![s] = "crashed"]
      /\ coTook' = [coTook EXCEPT ![s] = CoNone]
      /\ UNCHANGED <<coPaused, coEndedBy, coStop, coPause, coFeedback, coApplied>>
      /\ coFlag' \in {coFlag, CoNone} /\ coActive' \in {coActive, CoNone}
  BY DEF CoCrash
<1>2. /\ coRequest' \in [CoCommands ->
            [pc : {"idle", "flag", "write", "torn", "done"},
             kind : {"stop", "pause", "resume", "feedback"}, for : CoSessions \cup {CoNone}]]
      /\ \A c \in CoCommands :
            /\ coRequest[c].pc = "done" => coRequest'[c].pc = "done"
            /\ coRequest'[c].pc # "idle" => coRequest'[c].for # CoNone
  <2>1. CASE s \in CoDesktop
    <3> DEFINE Gone(c) == IF c \in CoAppCommands /\ coRequest[c].pc # "idle"
                          THEN [coRequest[c] EXCEPT !.pc = "done"] ELSE coRequest[c]
    <3>1. coRequest' = [c \in CoCommands |-> Gone(c)]
      BY <2>1 DEF CoCrash
    <3>2. ASSUME NEW c \in CoCommands
          PROVE  /\ Gone(c) \in [pc : {"idle", "flag", "write", "torn", "done"},
                        kind : {"stop", "pause", "resume", "feedback"}, for : CoSessions \cup {CoNone}]
                 /\ coRequest[c].pc = "done" => Gone(c).pc = "done"
                 /\ Gone(c).pc # "idle" => Gone(c).for # CoNone
      BY DEF CoTyped
    <3> HIDE DEF Gone
    <3> QED BY <3>1, <3>2
  <2>2. CASE s \notin CoDesktop
    BY <2>2 DEF CoCrash, CoTyped
  <2> QED BY <2>1, <2>2
<1>3. CoTyped'
  BY <1>1, <1>2 DEF CoTyped, CoControl
<1>4. Guarded'
  BY <1>1 DEF Guarded, CoTyped
<1>5. Cleared' /\ Obeyed'
  BY <1>1 DEF Cleared, Obeyed, OwnOf, CoTyped
<1>6. Rated'
  BY <1>1, <1>2 DEF Rated, CoTyped
<1> QED
  BY <1>3, <1>4, <1>5, <1>6

\* The commands: what they write now is of the holder, or of a session that is gone.
LEMMA CommandKeepsInv ==
    ASSUME CoInv, NEW c \in CoCommands, CoLook(c) \/ CoSetFlag(c) \/ CoWrite(c) \/ CoWriteFeedback(c)
    PROVE  CoInv'
<1> USE CoAssumption DEF CoInv, CoAssumption
<1>1. UNCHANGED <<coHolder, coPc, coPaused, coEndedBy, coTook, coActive, coApplied>>
  BY DEF CoLook, CoSetFlag, CoWrite, CoWriteFeedback, coSessionVars
<1>2. Guarded' /\ Obeyed'
  BY <1>1 DEF Guarded, Obeyed, OwnOf
<1>3. \A d \in CoCommands : d # c => coRequest'[d] = coRequest[d]
  <2>0. DOMAIN coRequest = CoCommands
    BY DEF CoTyped
  <2>1. CASE CoLook(c) BY <2>0, <2>1 DEF CoLook
  <2>2. CASE CoSetFlag(c) BY <2>0, <2>2 DEF CoSetFlag
  <2>3. CASE CoWrite(c) BY <2>0, <2>3 DEF CoWrite
  <2>4. CASE CoWriteFeedback(c) BY <2>0, <2>4 DEF CoWriteFeedback
  <2> QED BY <2>1, <2>2, <2>3, <2>4
<1>4. CASE CoLook(c)
  <2>1. CoTyped'
    <3>1. PICK new \in [pc : {"flag", "write"}, kind : {"stop", "pause", "resume", "feedback"},
                        for : CoSessions] :
             coRequest' = [coRequest EXCEPT ![c] = new]
      BY <1>4 DEF CoLook, CoTyped
    <3> QED BY <1>1, <1>4, <3>1 DEF CoLook, CoTyped
  <2>2. Cleared'
    BY <1>1, <1>4 DEF CoLook, Cleared, OwnOf
  <2>3. coRequest[c].pc # "done" /\ coFeedback' = coFeedback
    BY <1>4 DEF CoLook
  <2>4. Rated'
    BY <1>1, <1>3, <2>3 DEF Rated
  <2> QED BY <1>2, <2>1, <2>2, <2>4
<1>5. CASE ~CoLook(c)
  <2>1. /\ coRequest[c].pc \notin {"idle", "done"}
        /\ \E pc \in {"write", "torn", "done"} : coRequest' = [coRequest EXCEPT ![c].pc = pc]
    BY <1>5 DEF CoSetFlag, CoWrite, CoWriteFeedback
  <2>2. /\ coRequest' \in [CoCommands ->
              [pc : {"idle", "flag", "write", "torn", "done"},
               kind : {"stop", "pause", "resume", "feedback"}, for : CoSessions \cup {CoNone}]]
        /\ coRequest'[c].for = coRequest[c].for
    BY <2>1 DEF CoTyped
  <2>3. /\ coStop' \in {coStop, CoControlOf(c)} /\ coFlag' \in {coFlag, CoControlOf(c)}
        /\ coPause' \in {coPause, CoControlOf(c), CoNone}
    <3>1. CASE CoSetFlag(c) BY <3>1 DEF CoSetFlag
    <3>2. CASE CoWrite(c) BY <3>2 DEF CoWrite, CoTyped
    <3>3. CASE CoWriteFeedback(c) BY <3>3 DEF CoWriteFeedback
    <3> QED BY <1>5, <3>1, <3>2, <3>3
  <2>4. \/ coFeedback' \in {coFeedback, CoNone, "torn"}
        \/ coFeedback' = c /\ coRequest'[c].pc = "done"
    <3>1. CASE CoSetFlag(c) \/ CoWrite(c) BY <3>1 DEF CoSetFlag, CoWrite
    <3>2. CASE CoWriteFeedback(c) BY <3>2 DEF CoWriteFeedback, CoTyped
    <3> QED BY <1>5, <3>1, <3>2
  <2>5. CoTyped'
    <3> DEFINE Now == CoControlOf(c)
    <3>1. Now \in CoControl /\ CoNone \in CoControl
      BY <2>1, WrittenNow DEF CoControl
    <3>2. coStop' \in CoControl /\ coPause' \in CoControl /\ coFlag' \in CoControl
      BY <2>3, <3>1 DEF CoTyped
    <3>3. \A d \in CoCommands : coRequest'[d].pc # "idle" => coRequest'[d].for # CoNone
      BY <1>3, <2>1, <2>2 DEF CoTyped
    <3> QED BY <1>1, <2>2, <2>4, <3>2, <3>3 DEF CoTyped
  <2>6. Cleared'
    <3>1. ASSUME NEW s \in CoSessions,
                 coPc[s] \in {"clearStop", "clearFeedback", "resetFlag", "prepare", "loop"}
          PROVE  OwnOf(CoControlOf(c), s) /\ OwnOf(CoNone, s)
      BY <3>1, WrittenNow DEF Guarded, OwnOf
    <3>2. ASSUME NEW s \in CoSessions
          PROVE  /\ OwnOf(coStop, s) /\ OwnOf(CoControlOf(c), s) => OwnOf(coStop, s)'
                 /\ OwnOf(coFlag, s) /\ OwnOf(CoControlOf(c), s) => OwnOf(coFlag, s)'
                 /\ OwnOf(coPause, s) /\ OwnOf(CoControlOf(c), s) => OwnOf(coPause, s)'
      BY <2>3 DEF OwnOf
    <3> QED BY <1>1, <3>1, <3>2 DEF Cleared
  <2>7. Rated'
    BY <1>1, <1>3, <2>1, <2>4 DEF Rated, CoTyped
  <2> QED BY <1>2, <2>5, <2>6, <2>7
<1> QED
  BY <1>4, <1>5

\* Every step keeps what holds of the control files.
LEMMA CoInvNext == CoInv /\ [CopilotControlNext]_coVars => CoInv'
<1> SUFFICES ASSUME CoInv, [CopilotControlNext]_coVars
             PROVE  CoInv'
  OBVIOUS
<1>1. ASSUME NEW s \in CoSessions, CoSessionNext(s)
      PROVE  CoInv'
  BY <1>1, SessionKeepsInv, PollKeepsInv, FeedbackKeepsInv, CrashKeepsInv DEF CoSessionNext
<1>2. ASSUME NEW c \in CoCommands, CoLook(c) \/ CoSetFlag(c) \/ CoWrite(c) \/ CoWriteFeedback(c)
      PROVE  CoInv'
  BY <1>2, CommandKeepsInv
<1>3. CASE UNCHANGED coVars
  BY <1>3 DEF coVars, coSessionVars, CoInv, CoTyped, Guarded, Cleared, Obeyed, Rated, OwnOf
<1> QED
  BY <1>1, <1>2, <1>3 DEF CopilotControlNext

-----------------------------------------------------------------------------
\* Nobody clears the stop of a session that listens: whoever clears holds the guard.
StopStep ==
    \A s \in CoSessions :
        CoListens(s) /\ CoListens(s)' /\ coStop # CoNone /\ coStop.there /\ coStop.for = s
           => coStop' # CoNone

\* Only its own end removes a stop that a session was told.
LEMMA StopStays == CoInv /\ [CopilotControlNext]_coVars => StopStep
<1> SUFFICES ASSUME CoInv, [CopilotControlNext]_coVars, NEW s \in CoSessions,
                    CoListens(s), CoListens(s)', coStop # CoNone, coStop' = CoNone
             PROVE  FALSE
  BY DEF StopStep
<1> USE CoAssumption DEF CoAssumption
<1>1. coHolder = s
  BY DEF CoInv, Guarded, CoListens
<1>2. ASSUME NEW c \in CoCommands
      PROVE  coRequest[c].pc = "write" => CoControlOf(c) # CoNone
  BY WrittenNow
<1>3. PICK t \in CoSessions : CoClear(t) /\ coPc[t] \in {"clearStop", "clearStop2"}
  <2>1. CASE \E t \in CoSessions : CoSessionNext(t)
    BY <2>1 DEF CoSessionNext, CoArm, CoGuard, CoRefused, CoClear, CoResetFlag, CoPrepared,
                CoLeave, CoPollPause, CoReadFeedback, CoRemoveFeedback, CoRelease, CoDeactivate,
                CoFail, CoCrash, CoGo
  <2>2. CASE \E c \in CoCommands : CoLook(c) \/ CoSetFlag(c) \/ CoWrite(c) \/ CoWriteFeedback(c)
    <3>1. PICK c \in CoCommands : CoLook(c) \/ CoSetFlag(c) \/ CoWrite(c) \/ CoWriteFeedback(c)
      BY <2>2
    <3>2. CASE CoWrite(c)
      BY <1>2, <3>2 DEF CoWrite, CoInv, CoTyped
    <3>3. CASE ~CoWrite(c)
      BY <3>1, <3>3 DEF CoLook, CoSetFlag, CoWriteFeedback
    <3> QED BY <3>2, <3>3
  <2>3. CASE UNCHANGED coVars
    BY <2>3 DEF coVars
  <2> QED BY <2>1, <2>2, <2>3 DEF CopilotControlNext
<1>4. t = s
  BY <1>1, <1>3 DEF CoInv, Guarded, CoTyped
<1> QED
  BY <1>3, <1>4 DEF CoListens

\* Sessions, control files and commands are in their ranges, the session guard is
\* held from its creation to its release, and a rating is applied no more than
\* once (copilot/control.rs:30-191, cli main.rs:11074).
THEOREM ControlTyping == CopilotControlSpec => []CopilotControlTypeOK
<1>1. CoInv => CopilotControlTypeOK
  BY DEF CoInv, CoTyped, Guarded, CopilotControlTypeOK
<1> QED BY <1>1, CoInvInit, CoInvNext, PTL DEF CopilotControlSpec

(* What the theorem says: a session obeys only the controls that were written   *)
(* to it, a stop it was told stays until it ends, and a rating is applied once  *)
(* (control.rs:120-190), for any number of sessions and commands and crashes.   *)
THEOREM Heard == CopilotControlSpec => ControlsHeard
<1>1. CopilotControlSpec => []CoInv
  BY CoInvInit, CoInvNext, PTL DEF CopilotControlSpec
<1>2. CoInv => ControlsAreOwn /\ RatedOnce
  BY DEF CoInv, CoTyped, Obeyed, OwnOf, ControlsAreOwn, RatedOnce
<1>3. CoInv /\ [CopilotControlNext]_coVars => [StopStep]_coVars
  BY StopStays
<1>4. CopilotControlSpec => [][StopStep]_coVars
  BY <1>1, <1>3, PTL DEF CopilotControlSpec
<1>5. StopKept <=> [][StopStep]_coVars
  BY DEF StopKept, StopStep
<1> QED
  BY <1>1, <1>2, <1>4, <1>5, PTL DEF ControlsHeard


-----------------------------------------------------------------------------
(* CopilotDepth: the depth lane *)

\* The depth worker has a request in hand.
CdBusy == cdPc \notin {"idle", "done"}

CdResetQueued == \E i \in DOMAIN cdQueue : cdQueue[i].cmd = "reset"

\* A Reset is still to come, or was lost.
CdResetDue == cdClient = "reset" \/ CdResetQueued \/ "reset" \in cdDropped

\* The depth worker has something of a session that is over.
CdStale ==
    \/ CdBusy /\ cdReq # cdShared.epoch
    \/ cdGroundedAt \notin {0, cdShared.epoch}
    \/ cdStrategyAt \notin {0, cdShared.epoch}

\* The snapshot's session is the runtime's, or begin_session is about to make it
\* so; nobody has anything of a later one.
CdEpochs ==
    /\ cdEpoch = cdShared.epoch + (IF cdClient \in {"cancel", "snapshot"} THEN 1 ELSE 0)
    /\ cdFast =< cdShared.epoch
    /\ \A i \in DOMAIN cdQueue : cdQueue[i].epoch =< cdShared.epoch
    /\ CdBusy => cdReq # 0 /\ cdReq =< cdShared.epoch
    /\ \A i \in DOMAIN cdQueue : cdQueue[i].cmd = "observe" => cdQueue[i].epoch # 0

\* What the worker finds in the snapshot is of its request's session: a new
\* session clears it, and nobody else fills it.
CdWorkOwn ==
    /\ CdBusy => cdShared.strategy \in {0, cdReq} /\ cdShared.card \in {0, cdReq}
    /\ cdPc \in {"prompted", "asking"} =>
          cdPrompt.strategy \in {0, cdReq} /\ cdPrompt.card \in {0, cdReq}

\* The token can be reached only while the model is asked.
CdToken == cdActive => cdPc = "asking"

\* No final of the new session is sent before its Reset; and the worker meets
\* none while it has something old, unless it meets the Reset first.
CdResets ==
    /\ cdClient = "reset" =>
          cdFast # cdShared.epoch /\ \A i \in DOMAIN cdQueue : cdQueue[i].epoch # cdShared.epoch
    /\ CdStale => CdResetDue
    /\ CdStale /\ "reset" \notin cdDropped =>
          \A i \in DOMAIN cdQueue :
              cdQueue[i].cmd = "observe" /\ cdQueue[i].epoch = cdShared.epoch =>
                  \E k \in DOMAIN cdQueue : k < i /\ cdQueue[k].cmd = "reset"

\* Once it has met the new session it has nothing old.
CdMet ==
    CdBusy /\ cdReq = cdShared.epoch /\ "reset" \notin cdDropped =>
        cdGroundedAt \in {0, cdReq} /\ cdStrategyAt \in {0, cdReq}

CdInv ==
    /\ CopilotDepthTypeOK
    /\ ContextIsOwn /\ SnapshotIsOwn /\ CancelledUnpublished
    /\ CdEpochs /\ CdWorkOwn /\ CdToken /\ CdResets /\ CdMet

\* A command that is sent is the last one, or is dropped.
LEMMA CdSent ==
    ASSUME CopilotDepthTypeOK, NEW cmd \in {"observe", "reset", "stop"}, NEW epoch \in CdSession,
           CdSend(cmd, epoch)
    PROVE  /\ cdQueue' \in Seq(CdCommand) /\ Len(cdQueue') =< CdQueueMax
           /\ cdDropped' \in SUBSET {"observe", "reset", "stop"}
           /\ cdDropped \subseteq cdDropped'
           /\ \A i \in DOMAIN cdQueue : i \in DOMAIN cdQueue' /\ cdQueue'[i] = cdQueue[i]
           /\ \A i \in DOMAIN cdQueue' \ DOMAIN cdQueue :
                 /\ cdQueue'[i].cmd = cmd /\ cdQueue'[i].epoch = epoch
                 /\ \A k \in DOMAIN cdQueue : k < i
           /\ cmd \in cdDropped' \/ \E i \in DOMAIN cdQueue' : cdQueue'[i].cmd = cmd
<1> DEFINE c == [cmd |-> cmd, epoch |-> epoch]
<1>0. /\ cdQueue \in Seq(CdCommand) /\ Len(cdQueue) \in Nat /\ Len(cdQueue) =< CdQueueMax
      /\ CdQueueMax \in Nat /\ DOMAIN cdQueue = 1..Len(cdQueue)
      /\ cdDropped \in SUBSET {"observe", "reset", "stop"}
      /\ c \in CdCommand /\ c.cmd = cmd /\ c.epoch = epoch
  BY CdAssumption DEF CopilotDepthTypeOK, CdCommand
<1> HIDE DEF c
<1>1. CASE Len(cdQueue) < CdQueueMax
  <2>1. cdQueue' = Append(cdQueue, c) /\ cdDropped' = cdDropped
    BY <1>1 DEF CdSend, c
  <2>2. /\ cdQueue' \in Seq(CdCommand) /\ Len(cdQueue') = Len(cdQueue) + 1
        /\ DOMAIN cdQueue' = 1..(Len(cdQueue) + 1)
        /\ cdQueue'[Len(cdQueue) + 1] = c
        /\ \A i \in 1..Len(cdQueue) : cdQueue'[i] = cdQueue[i]
    BY <1>0, <2>1
  <2>3. \A i \in DOMAIN cdQueue' \ DOMAIN cdQueue : i = Len(cdQueue) + 1
    BY <1>0, <2>2
  <2>4. Len(cdQueue) + 1 \in DOMAIN cdQueue' /\ \A k \in DOMAIN cdQueue : k < Len(cdQueue) + 1
    BY <1>0, <2>2
  <2>5. Len(cdQueue') =< CdQueueMax
    BY <1>0, <1>1, <2>2
  <2> QED BY <1>0, <2>1, <2>2, <2>3, <2>4, <2>5
<1>2. CASE ~(Len(cdQueue) < CdQueueMax)
  <2>1. cdQueue' = cdQueue /\ cdDropped' = cdDropped \cup {cmd}
    BY <1>2 DEF CdSend
  <2> QED BY <1>0, <2>1
<1> QED BY <1>1, <1>2

\* At first there is nothing old.
LEMMA CdInitOk == CopilotDepthInit => CdInv
<1> SUFFICES ASSUME CopilotDepthInit PROVE CdInv
  OBVIOUS
<1> USE CdAssumption DEF CopilotDepthInit
<1>1. CopilotDepthTypeOK
  <2>1. 0 \in CdSession /\ 1 \in CdSession \ {0} /\ CdNoPrompt \in CdPrompt
    BY DEF CdSession, CdPrompt, CdNoPrompt
  <2>2. cdShared \in [epoch : CdSession \ {0}, strategy : CdSession, card : CdSession,
                      shifts : SUBSET CdSession]
    BY <2>1 DEF CdFreshShared
  <2>3. cdQueue \in Seq(CdCommand) /\ Len(cdQueue) =< CdQueueMax
    OBVIOUS
  <2>4. cdRequests \in 0..CdMaxRequests /\ cdDropped \in SUBSET {"observe", "reset", "stop"}
    OBVIOUS
  <2>5. cdPc = "idle" /\ cdClient = "idle" /\ cdShift = FALSE /\ cdActive = FALSE
        /\ cdCancelled = FALSE
    OBVIOUS
  <2>6. /\ cdEpoch \in CdSession \ {0} /\ cdReq \in CdSession /\ cdGroundedAt \in CdSession
        /\ cdStrategyAt \in CdSession /\ cdPrompt \in CdPrompt /\ cdFast \in CdSession
        /\ cdContext \in CdPrompt
    BY <2>1
  <2> HIDE DEF CopilotDepthInit
  <2> QED BY <2>2, <2>3, <2>4, <2>5, <2>6 DEF CopilotDepthTypeOK
<1>2. /\ cdShared.epoch = 1 /\ cdShared.strategy = 0 /\ cdShared.card = 0 /\ cdShared.shifts = {}
      /\ DOMAIN cdQueue = {} /\ ~CdBusy /\ ~CdStale
  BY DEF CdFreshShared, CdBusy, CdStale
<1>3. ContextIsOwn /\ SnapshotIsOwn /\ CancelledUnpublished
  BY <1>2 DEF ContextIsOwn, SnapshotIsOwn, CancelledUnpublished
<1>4. CdEpochs /\ CdWorkOwn /\ CdToken /\ CdResets /\ CdMet
  BY <1>2 DEF CdEpochs, CdWorkOwn, CdToken, CdResets, CdMet
<1> QED BY <1>1, <1>3, <1>4 DEF CdInv

-----------------------------------------------------------------------------
\* The client's steps but the one that changes the snapshot.
LEMMA CdClientStep ==
    ASSUME CdInv,
           CdBeginEpoch \/ CdBeginCancel \/ CdBeginReset \/ CdStopCancel \/ CdStopSend \/ CdJoin
    PROVE  CdInv'
<1>0. /\ CopilotDepthTypeOK /\ cdEpoch \in Nat /\ cdShared.epoch \in Nat
      /\ cdShared.epoch # 0 /\ 0 \in CdSession /\ CdMaxEpoch \in Nat
      /\ cdQueue \in Seq(CdCommand) /\ DOMAIN cdQueue = 1..Len(cdQueue)
      /\ cdShared.epoch \in CdSession
  BY CdAssumption DEF CdInv, CopilotDepthTypeOK, CdSession
<1>1. /\ UNCHANGED <<cdShared, cdWorkerVars, cdActive, cdFastVars>>
      /\ cdClient' \in {"idle", "cancel", "snapshot", "reset", "stopCancel", "stopSend", "joining",
                        "joined"}
      /\ cdClient' # "reset"
      /\ cdClient = "reset" => CdBeginReset
      /\ cdCancelled' \in {cdCancelled, cdCancelled \/ cdActive}
      /\ cdEpoch' = cdShared.epoch + (IF cdClient' \in {"cancel", "snapshot"} THEN 1 ELSE 0)
      /\ cdEpoch' \in CdSession \ {0}
  BY <1>0 DEF CdBeginEpoch, CdBeginCancel, CdBeginReset, CdStopCancel, CdStopSend, CdJoin,
              CdClientGo, CdCancelActive, CdInv, CdEpochs, CopilotDepthTypeOK, CdSession
<1>2. /\ cdQueue' \in Seq(CdCommand) /\ Len(cdQueue') =< CdQueueMax
      /\ cdDropped' \in SUBSET {"observe", "reset", "stop"}
      /\ cdDropped \subseteq cdDropped'
      /\ \A i \in DOMAIN cdQueue : i \in DOMAIN cdQueue' /\ cdQueue'[i] = cdQueue[i]
      /\ \A i \in DOMAIN cdQueue' \ DOMAIN cdQueue :
            cdQueue'[i].cmd \in {"reset", "stop"} /\ cdQueue'[i].epoch = 0
      /\ CdBeginReset =>
            "reset" \in cdDropped' \/ \E i \in DOMAIN cdQueue' : cdQueue'[i].cmd = "reset"
  <2>1. CASE CdBeginReset
    BY <1>0, <2>1, CdSent DEF CdBeginReset
  <2>2. CASE CdStopSend
    <3>1. ~CdBeginReset
      BY <2>2 DEF CdBeginReset, CdStopSend, CdClientGo
    <3> QED BY <1>0, <2>2, <3>1, CdSent DEF CdStopSend
  <2>3. CASE CdBeginEpoch \/ CdBeginCancel \/ CdStopCancel \/ CdJoin
    <3>1. ~CdBeginReset /\ cdQueue' = cdQueue /\ cdDropped' = cdDropped
      BY <2>3 DEF CdBeginEpoch, CdBeginCancel, CdStopCancel, CdJoin, CdBeginReset, CdClientGo
    <3> QED BY <1>0, <3>1 DEF CopilotDepthTypeOK
  <2> QED BY <2>1, <2>2, <2>3
<1>3. CopilotDepthTypeOK'
  <2>1. cdCancelled' \in BOOLEAN
    BY <1>0, <1>1 DEF CopilotDepthTypeOK
  <2> QED BY <1>0, <1>1, <1>2, <2>1 DEF CopilotDepthTypeOK, cdWorkerVars, cdFastVars
<1>4. ContextIsOwn' /\ CdWorkOwn' /\ CdToken' /\ CdMet'
  BY <1>1, <1>2 DEF CdInv, ContextIsOwn, CdWorkOwn, CdToken, CdMet, CdBusy, cdWorkerVars, cdFastVars
<1>5. CancelledUnpublished'
  <2>1. cdPc = "publish" => ~cdCancelled /\ ~cdActive
    BY DEF CdInv, CancelledUnpublished, CdToken
  <2> QED BY <1>1, <2>1 DEF CancelledUnpublished, cdWorkerVars
<1>6. CdResetDue => CdResetDue'
  BY <1>1, <1>2 DEF CdResetDue, CdResetQueued
<1>7. SnapshotIsOwn'
  BY <1>1, <1>6 DEF CdInv, SnapshotIsOwn, CdResetDue, CdResetQueued
<1>8. CdEpochs'
  <2>1. UNCHANGED <<cdShared, cdPc, cdReq, cdFast>>
    BY <1>1 DEF cdWorkerVars, cdFastVars
  <2>2. \A i \in DOMAIN cdQueue' :
            /\ cdQueue'[i].epoch =< cdShared.epoch
            /\ cdQueue'[i].cmd = "observe" => cdQueue'[i].epoch # 0
    BY <1>0, <1>2 DEF CdInv, CdEpochs
  <2> QED BY <1>1, <2>1, <2>2 DEF CdInv, CdEpochs, CdBusy
<1>9. CdResets'
  <2>1. CdStale' <=> CdStale
    BY <1>1 DEF CdStale, CdBusy, cdWorkerVars
  <2>2. CdStale' => CdResetDue'
    BY <1>6, <2>1 DEF CdInv, CdResets
  <2>3. ASSUME CdStale', "reset" \notin cdDropped', NEW i \in DOMAIN cdQueue',
               cdQueue'[i].cmd = "observe", cdQueue'[i].epoch = cdShared'.epoch
        PROVE  \E k \in DOMAIN cdQueue' : k < i /\ cdQueue'[k].cmd = "reset"
    <3>1. i \in DOMAIN cdQueue /\ cdQueue[i].cmd = "observe" /\ cdQueue[i].epoch = cdShared.epoch
      BY <1>1, <1>2, <2>3
    <3>2. CdStale /\ "reset" \notin cdDropped
      BY <1>2, <2>1, <2>3
    <3>3. PICK k \in DOMAIN cdQueue : k < i /\ cdQueue[k].cmd = "reset"
      BY <3>1, <3>2 DEF CdInv, CdResets
    <3> QED BY <1>2, <3>3
  <2> QED BY <1>1, <2>2, <2>3 DEF CdResets
<1> QED BY <1>3, <1>4, <1>5, <1>7, <1>8, <1>9 DEF CdInv

\* A new session clears the snapshot before any of its finals is sent.
LEMMA CdSnapshotStep ==
    ASSUME CdInv, CdBeginSnapshot
    PROVE  CdInv'
<1> USE DEF CdBeginSnapshot, CdClientGo
<1>0. /\ cdEpoch = cdShared.epoch + 1 /\ cdShared.epoch \in Nat /\ cdEpoch \in CdSession \ {0}
      /\ \A i \in DOMAIN cdQueue : cdQueue[i] \in CdCommand
      /\ cdFast \in Nat /\ CdMaxEpoch \in Nat
  BY CdAssumption DEF CdInv, CdEpochs, CopilotDepthTypeOK, CdSession
<1>1. /\ cdShared'.epoch = cdEpoch /\ cdShared'.strategy = 0 /\ cdShared'.card = 0
      /\ cdShared'.shifts = {} /\ cdClient' = "reset"
      /\ UNCHANGED <<cdEpoch, cdQueue, cdWorkerVars, cdActive, cdCancelled, cdFastVars, cdDropped>>
      /\ cdShared' \in [epoch : CdSession \ {0}, strategy : CdSession, card : CdSession,
                        shifts : SUBSET CdSession]
  BY <1>0 DEF CdFreshShared, CdSession
<1>2. CopilotDepthTypeOK'
  BY <1>1 DEF CdInv, CopilotDepthTypeOK, cdWorkerVars, cdFastVars
<1>3. ContextIsOwn' /\ SnapshotIsOwn' /\ CancelledUnpublished' /\ CdWorkOwn' /\ CdToken'
  BY <1>1 DEF CdInv, ContextIsOwn, SnapshotIsOwn, CancelledUnpublished, CdWorkOwn, CdToken, CdBusy,
              cdWorkerVars, cdFastVars
<1>4. \A i \in DOMAIN cdQueue : cdQueue[i].epoch \in Nat /\ cdQueue[i].epoch < cdEpoch
  BY <1>0 DEF CdInv, CdEpochs, CdCommand, CdSession
<1>5. cdFast < cdEpoch
  BY <1>0 DEF CdInv, CdEpochs
<1>6. CdEpochs'
  <2>1. cdReq \in Nat /\ (CdBusy => cdReq # 0 /\ cdReq =< cdShared.epoch)
    BY DEF CdInv, CdEpochs, CopilotDepthTypeOK, CdSession
  <2>2. CdBusy => cdReq # 0 /\ cdReq =< cdEpoch
    BY <1>0, <2>1
  <2>3. \A i \in DOMAIN cdQueue :
            cdQueue[i].epoch =< cdEpoch /\ (cdQueue[i].cmd = "observe" => cdQueue[i].epoch # 0)
    BY <1>0, <1>4 DEF CdInv, CdEpochs
  <2>4. cdFast =< cdEpoch
    BY <1>0, <1>5
  <2> QED BY <1>0, <1>1, <2>2, <2>3, <2>4 DEF CdEpochs, CdBusy, cdWorkerVars, cdFastVars
<1>7. CdResets'
  BY <1>0, <1>1, <1>4, <1>5 DEF CdResets, CdResetDue, cdFastVars
<1>8. CdMet'
  <2>1. cdReq \in Nat /\ (CdBusy => cdReq =< cdShared.epoch)
    BY DEF CdInv, CdEpochs, CopilotDepthTypeOK, CdSession
  <2>2. CdBusy => cdReq # cdEpoch
    BY <1>0, <2>1
  <2> QED BY <1>1, <2>2 DEF CdMet, CdBusy, cdWorkerVars
<1> QED BY <1>2, <1>3, <1>6, <1>7, <1>8 DEF CdInv

-----------------------------------------------------------------------------
(* The fast worker's steps *)

\* A request takes what is of its own session, and a cancellation finds a call
\* only while the model is asked.
LEMMA CdFastTakeStep ==
    ASSUME CdInv, CdFastTake
    PROVE  CdInv'
<1> USE DEF CdFastTake
<1>0. /\ cdEpoch = cdShared.epoch /\ cdShared.epoch \in Nat \ {0} /\ cdEpoch \in CdSession \ {0}
      /\ cdShared.strategy \in CdSession /\ cdShared.card \in CdSession /\ 0 \in CdSession
      /\ cdShared.strategy \in {0, cdEpoch} /\ cdShared.card \in {0, cdEpoch}
      /\ cdRequests' \in 0..CdMaxRequests
  BY CdAssumption DEF CdInv, CdEpochs, CopilotDepthTypeOK, CdSession, SnapshotIsOwn
<1>1. cdContext' \in CdPrompt
  BY <1>0 DEF CdPrompt, CdNoPrompt
<1>2. cdContext'.strategy \in {0, cdEpoch} /\ cdContext'.card \in {0, cdEpoch}
  BY <1>0 DEF CdNoPrompt
<1>3. cdCancelled' \in {cdCancelled, cdCancelled \/ cdActive} /\ cdFast' = cdEpoch
      /\ UNCHANGED <<cdEpoch, cdShared, cdQueue, cdWorkerVars, cdActive, cdClient, cdDropped>>
      /\ cdClient = "idle"
  BY DEF CdCancelActive
<1>4. CopilotDepthTypeOK'
  <2>1. cdCancelled' \in BOOLEAN
    BY <1>3 DEF CdInv, CopilotDepthTypeOK
  <2> QED BY <1>0, <1>1, <1>3, <2>1 DEF CdInv, CopilotDepthTypeOK, cdWorkerVars
<1>5. ContextIsOwn' /\ CdWorkOwn' /\ CdToken' /\ CdMet' /\ SnapshotIsOwn'
  BY <1>2, <1>3 DEF CdInv, ContextIsOwn, CdWorkOwn, CdToken, CdMet, CdBusy, SnapshotIsOwn,
                    cdWorkerVars
<1>6. CancelledUnpublished'
  <2>1. cdPc = "publish" => ~cdCancelled /\ ~cdActive
    BY DEF CdInv, CancelledUnpublished, CdToken
  <2> QED BY <1>3, <2>1 DEF CancelledUnpublished, cdWorkerVars
<1>7. CdEpochs'
  BY <1>0, <1>3 DEF CdInv, CdEpochs, CdBusy, cdWorkerVars
<1>8. CdResets'
  BY <1>3 DEF CdInv, CdResets, CdResetDue, CdResetQueued, CdStale, CdBusy, cdWorkerVars
<1> QED BY <1>4, <1>5, <1>6, <1>7, <1>8 DEF CdInv

\* A final is sent behind its session's Reset: there was no request of the
\* session before it.
LEMMA CdFastObserveStep ==
    ASSUME CdInv, CdFastObserve
    PROVE  CdInv'
<1>a. CopilotDepthTypeOK /\ cdFast # 0 /\ cdFast =< cdShared.epoch
  BY DEF CdInv, CdEpochs, CdFastObserve
<1>0. /\ CopilotDepthTypeOK /\ cdShared.epoch \in Nat /\ cdFast \in CdSession /\ cdFast # 0
      /\ cdFast =< cdShared.epoch /\ 0 \in CdSession
  BY <1>a, CdAssumption DEF CopilotDepthTypeOK, CdSession
<1>1. /\ cdFast' = 0 /\ cdContext' = CdNoPrompt
      /\ UNCHANGED <<cdEpoch, cdShared, cdWorkerVars, cdActive, cdCancelled, cdClient, cdRequests>>
  BY DEF CdFastObserve
<1>2. /\ cdQueue' \in Seq(CdCommand) /\ Len(cdQueue') =< CdQueueMax
      /\ cdDropped' \in SUBSET {"observe", "reset", "stop"}
      /\ cdDropped \subseteq cdDropped'
      /\ \A i \in DOMAIN cdQueue : i \in DOMAIN cdQueue' /\ cdQueue'[i] = cdQueue[i]
      /\ \A i \in DOMAIN cdQueue' \ DOMAIN cdQueue :
            /\ cdQueue'[i].cmd = "observe" /\ cdQueue'[i].epoch = cdFast
            /\ \A k \in DOMAIN cdQueue : k < i
  <2>1. CASE CdSend("observe", cdFast)
    BY <1>0, <2>1, CdSent
  <2>2. CASE UNCHANGED <<cdQueue, cdDropped>>
    BY <1>0, <2>2 DEF CopilotDepthTypeOK
  <2> QED BY <2>1, <2>2 DEF CdFastObserve
<1>3. CopilotDepthTypeOK'
  <2>1. CdNoPrompt \in CdPrompt
    BY <1>0 DEF CdNoPrompt, CdPrompt
  <2> QED BY <1>0, <1>1, <1>2, <2>1 DEF CopilotDepthTypeOK, cdWorkerVars
<1>4. ContextIsOwn' /\ CdWorkOwn' /\ CdToken' /\ CdMet' /\ CancelledUnpublished'
  BY <1>1, <1>2 DEF CdInv, ContextIsOwn, CdWorkOwn, CdToken, CdMet, CdBusy, CancelledUnpublished,
                    cdWorkerVars
<1>5. CdResetDue => CdResetDue'
  BY <1>1, <1>2 DEF CdResetDue, CdResetQueued
<1>6. SnapshotIsOwn'
  BY <1>1, <1>5 DEF CdInv, SnapshotIsOwn, CdResetDue, CdResetQueued
<1>7. CdEpochs'
  BY <1>0, <1>1, <1>2 DEF CdInv, CdEpochs, CdBusy, cdWorkerVars
<1>8. CdStale' <=> CdStale
  BY <1>1 DEF CdStale, CdBusy, cdWorkerVars
<1>9. cdClient' = "reset" => /\ cdFast' # cdShared'.epoch
                             /\ \A i \in DOMAIN cdQueue' : cdQueue'[i].epoch # cdShared'.epoch
  <2>1. cdClient = "reset" =>
            /\ cdFast # cdShared.epoch
            /\ \A i \in DOMAIN cdQueue : cdQueue[i].epoch # cdShared.epoch
    BY DEF CdInv, CdResets
  <2>2. cdShared.epoch # 0
    BY DEF CdInv, CopilotDepthTypeOK
  <2> QED BY <1>1, <1>2, <2>1, <2>2
<1>10. ASSUME CdStale', "reset" \notin cdDropped', NEW i \in DOMAIN cdQueue',
              cdQueue'[i].cmd = "observe", cdQueue'[i].epoch = cdShared'.epoch
       PROVE  \E k \in DOMAIN cdQueue' : k < i /\ cdQueue'[k].cmd = "reset"
  <2>1. CdStale /\ "reset" \notin cdDropped
    BY <1>2, <1>8, <1>10
  <2>2. CASE i \in DOMAIN cdQueue
    <3>1. cdQueue[i].cmd = "observe" /\ cdQueue[i].epoch = cdShared.epoch
      BY <1>1, <1>2, <1>10, <2>2
    <3>2. PICK k \in DOMAIN cdQueue : k < i /\ cdQueue[k].cmd = "reset"
      BY <2>1, <2>2, <3>1 DEF CdInv, CdResets
    <3> QED BY <1>2, <3>2
  <2>3. CASE i \notin DOMAIN cdQueue
    <3>1. cdFast = cdShared.epoch /\ \A k \in DOMAIN cdQueue : k < i
      BY <1>1, <1>2, <1>10, <2>3
    <3>2. CdResetDue /\ cdClient # "reset"
      BY <2>1, <3>1 DEF CdInv, CdResets
    <3>3. PICK k \in DOMAIN cdQueue : cdQueue[k].cmd = "reset"
      BY <2>1, <3>2 DEF CdResetDue, CdResetQueued
    <3> QED BY <1>2, <3>1, <3>3
  <2> QED BY <2>2, <2>3
<1>11. CdResets'
  <2>1. CdStale' => CdResetDue'
    BY <1>5, <1>8 DEF CdInv, CdResets
  <2> QED BY <1>9, <1>10, <2>1 DEF CdResets
<1> QED BY <1>3, <1>4, <1>6, <1>7, <1>11 DEF CdInv

-----------------------------------------------------------------------------
(* The depth worker's steps *)

\* What is left behind the first command.
LEMMA CdTailIs ==
    ASSUME CopilotDepthTypeOK, cdQueue # <<>>
    PROVE  /\ Head(cdQueue) \in CdCommand /\ Head(cdQueue) = cdQueue[1] /\ 1 \in DOMAIN cdQueue
           /\ Tail(cdQueue) \in Seq(CdCommand) /\ Len(Tail(cdQueue)) =< CdQueueMax
           /\ \A i \in DOMAIN Tail(cdQueue) :
                 /\ i \in Nat \ {0} /\ i + 1 \in DOMAIN cdQueue /\ Tail(cdQueue)[i] = cdQueue[i + 1]
           /\ \A i \in DOMAIN cdQueue :
                 i # 1 => /\ i \in Nat /\ i > 1 /\ i - 1 \in DOMAIN Tail(cdQueue)
                          /\ Tail(cdQueue)[i - 1] = cdQueue[i]
<1>1. /\ cdQueue \in Seq(CdCommand) /\ Len(cdQueue) \in Nat \ {0} /\ Len(cdQueue) =< CdQueueMax
      /\ CdQueueMax \in Nat /\ DOMAIN cdQueue = 1..Len(cdQueue)
  BY CdAssumption DEF CopilotDepthTypeOK
<1>2. /\ Tail(cdQueue) \in Seq(CdCommand) /\ Len(Tail(cdQueue)) = Len(cdQueue) - 1
      /\ DOMAIN Tail(cdQueue) = 1..(Len(cdQueue) - 1)
      /\ \A i \in 1..(Len(cdQueue) - 1) : Tail(cdQueue)[i] = cdQueue[i + 1]
      /\ Head(cdQueue) = cdQueue[1]
  BY <1>1
<1>3. Head(cdQueue) \in CdCommand /\ 1 \in DOMAIN cdQueue
  BY <1>1, <1>2
<1>4. ASSUME NEW i \in DOMAIN cdQueue, i # 1
      PROVE  /\ i \in Nat /\ i > 1 /\ i - 1 \in DOMAIN Tail(cdQueue)
             /\ Tail(cdQueue)[i - 1] = cdQueue[i]
  <2>1. i - 1 \in 1..(Len(cdQueue) - 1) /\ (i - 1) + 1 = i /\ i \in Nat /\ i > 1
    BY <1>1, <1>4
  <2> QED BY <1>2, <2>1
<1>5. ASSUME NEW i \in DOMAIN Tail(cdQueue)
      PROVE  /\ i \in Nat \ {0} /\ i + 1 \in DOMAIN cdQueue /\ Tail(cdQueue)[i] = cdQueue[i + 1]
  BY <1>1, <1>2
<1>6. Len(Tail(cdQueue)) =< CdQueueMax
  BY <1>1, <1>2
<1> QED BY <1>2, <1>3, <1>4, <1>5, <1>6

\* The parts of the invariant that are about the command taken.
LEMMA CdTakeStep ==
    ASSUME CdInv, CdTake
    PROVE  CdInv'
<1> DEFINE c == Head(cdQueue)
<1>0. /\ CopilotDepthTypeOK /\ cdShared.epoch \in Nat \ {0} /\ cdShared.epoch \in CdSession
      /\ CdMaxEpoch \in Nat /\ 0 \in CdSession /\ cdQueue # <<>> /\ cdPc = "idle"
      /\ cdQueue' = Tail(cdQueue) /\ ~CdBusy
      /\ UNCHANGED <<cdEpoch, cdPrompt, cdActive, cdCancelled, cdClient, cdFastVars, cdDropped>>
  BY CdAssumption DEF CdInv, CopilotDepthTypeOK, CdSession, CdTake, CdBusy
<1>1. /\ c \in CdCommand /\ c = cdQueue[1] /\ 1 \in DOMAIN cdQueue
      /\ cdQueue' \in Seq(CdCommand) /\ Len(cdQueue') =< CdQueueMax
      /\ \A i \in DOMAIN cdQueue' :
            i \in Nat \ {0} /\ i + 1 \in DOMAIN cdQueue /\ cdQueue'[i] = cdQueue[i + 1]
      /\ \A i \in DOMAIN cdQueue :
            i # 1 => /\ i \in Nat /\ i > 1 /\ i - 1 \in DOMAIN cdQueue'
                     /\ cdQueue'[i - 1] = cdQueue[i]
  BY <1>0, CdTailIs
<1>2. \/ /\ c.cmd = "observe" /\ cdShared.epoch = c.epoch /\ cdPc' = "shift" /\ cdReq' = c.epoch
         /\ cdShift' \in BOOLEAN
         /\ UNCHANGED <<cdShared, cdGroundedAt, cdStrategyAt>>
      \/ /\ c.cmd # "reset" /\ cdPc' \in {"idle", "done"}
         /\ UNCHANGED <<cdReq, cdShift, cdShared, cdGroundedAt, cdStrategyAt>>
      \/ /\ c.cmd = "reset" /\ CdResetWorker
  <2>1. c.cmd \in {"observe", "reset", "stop"}
    BY <1>1 DEF CdCommand
  <2>2. CASE c.cmd = "observe"
    BY <1>0, <2>2 DEF CdTake
  <2>3. CASE c.cmd = "reset"
    BY <2>3 DEF CdTake
  <2>4. CASE c.cmd = "stop"
    BY <1>0, <2>4 DEF CdTake
  <2> QED BY <2>1, <2>2, <2>3, <2>4
<1> HIDE DEF c
<1>3. cdShared' = cdShared \/ cdShared' = CdFreshShared(cdShared.epoch)
  BY <1>2 DEF CdResetWorker
<1>4. /\ cdShared'.epoch = cdShared.epoch
      /\ cdShared'.strategy \in {0, cdShared.strategy} /\ cdShared'.card \in {0, cdShared.card}
      /\ cdShared'.shifts \in {{}, cdShared.shifts}
      /\ cdShared' \in [epoch : CdSession \ {0}, strategy : CdSession, card : CdSession,
                        shifts : SUBSET CdSession]
  <2>1. CASE cdShared' = cdShared
    BY <1>0, <2>1 DEF CopilotDepthTypeOK
  <2>2. CASE cdShared' = CdFreshShared(cdShared.epoch)
    BY <1>0, <2>2 DEF CdFreshShared
  <2> QED BY <1>3, <2>1, <2>2
<1>5. CopilotDepthTypeOK'
  <2>1. /\ cdPc' \in {"idle", "shift", "done"} /\ cdReq' \in CdSession /\ cdShift' \in BOOLEAN
        /\ cdGroundedAt' \in CdSession /\ cdStrategyAt' \in CdSession
    BY <1>0, <1>2 DEF CopilotDepthTypeOK, CdResetWorker
  <2> QED BY <1>0, <1>1, <1>4, <2>1 DEF CopilotDepthTypeOK, cdFastVars
<1>6. cdPc' \in {"idle", "shift", "done"} /\ (CdBusy' => cdReq' = cdShared.epoch)
  BY <1>0, <1>2 DEF CdResetWorker, CdBusy
<1>7. ContextIsOwn' /\ CancelledUnpublished' /\ CdToken'
  BY <1>0, <1>6 DEF CdInv, ContextIsOwn, CancelledUnpublished, CdToken, cdFastVars
<1>8. CdWorkOwn'
  BY <1>4, <1>6 DEF CdInv, SnapshotIsOwn, CdWorkOwn
<1>9. CdEpochs'
  <2>1. \A i \in DOMAIN cdQueue' :
            /\ cdQueue'[i].epoch =< cdShared.epoch
            /\ cdQueue'[i].cmd = "observe" => cdQueue'[i].epoch # 0
    BY <1>1 DEF CdInv, CdEpochs
  <2> QED BY <1>0, <1>4, <1>6, <2>1 DEF CdInv, CdEpochs, cdFastVars
<1>10. cdClient' = "reset" => /\ cdFast' # cdShared'.epoch
                              /\ \A i \in DOMAIN cdQueue' : cdQueue'[i].epoch # cdShared'.epoch
  BY <1>0, <1>1, <1>4 DEF CdInv, CdResets, cdFastVars
<1>11. CASE c.cmd = "reset"
  <2>1. /\ cdPc' = "idle" /\ cdShared'.shifts = {} /\ cdGroundedAt' = 0 /\ cdStrategyAt' = 0
    BY <1>0, <1>2, <1>11 DEF CdResetWorker, CdFreshShared
  <2>2. ~CdStale' /\ ~CdBusy'
    BY <2>1 DEF CdStale, CdBusy
  <2>3. SnapshotIsOwn' /\ CdResets' /\ CdMet'
    BY <1>4, <1>10, <2>1, <2>2 DEF CdInv, SnapshotIsOwn, CdResets, CdMet
  <2> QED BY <1>5, <1>7, <1>8, <1>9, <2>3 DEF CdInv
<1>12. CASE c.cmd # "reset"
  <2>1. UNCHANGED <<cdShared, cdGroundedAt, cdStrategyAt>>
    BY <1>2, <1>12
  <2>2. CdResetDue => CdResetDue'
    <3>1. ASSUME NEW i \in DOMAIN cdQueue, cdQueue[i].cmd = "reset"
          PROVE  \E k \in DOMAIN cdQueue' : cdQueue'[k].cmd = "reset"
      <4>1. i - 1 \in DOMAIN cdQueue' /\ cdQueue'[i - 1].cmd = "reset"
        BY <1>1, <1>12, <3>1
      <4> QED BY <4>1
    <3> QED BY <1>0, <3>1 DEF CdResetDue, CdResetQueued
  <2>3. CdStale' => CdStale
    BY <1>6, <2>1 DEF CdStale
  <2>4. SnapshotIsOwn'
    BY <2>1, <2>2 DEF CdInv, SnapshotIsOwn, CdResetDue, CdResetQueued
  <2>5. ASSUME CdStale', "reset" \notin cdDropped', NEW i \in DOMAIN cdQueue',
               cdQueue'[i].cmd = "observe", cdQueue'[i].epoch = cdShared'.epoch
        PROVE  \E k \in DOMAIN cdQueue' : k < i /\ cdQueue'[k].cmd = "reset"
    <3>1. /\ i + 1 \in DOMAIN cdQueue /\ i \in Nat
          /\ cdQueue[i + 1].cmd = "observe" /\ cdQueue[i + 1].epoch = cdShared.epoch
      BY <1>1, <2>1, <2>5
    <3>2. PICK k \in DOMAIN cdQueue : k < i + 1 /\ cdQueue[k].cmd = "reset"
      BY <1>0, <2>3, <2>5, <3>1 DEF CdInv, CdResets
    <3>3. k - 1 \in DOMAIN cdQueue' /\ cdQueue'[k - 1].cmd = "reset" /\ k - 1 < i
      BY <1>1, <1>12, <3>1, <3>2
    <3> QED BY <3>3
  <2>6. CdResets'
    <3>1. CdStale' => CdResetDue'
      BY <2>2, <2>3 DEF CdInv, CdResets
    <3> QED BY <1>10, <2>5, <3>1 DEF CdResets
  <2>7. CdMet'
    <3>1. ASSUME CdBusy', "reset" \notin cdDropped'
          PROVE  ~CdStale
      <4>1. c.cmd = "observe" /\ c.epoch = cdShared.epoch
        BY <1>2, <1>12, <3>1 DEF CdBusy
      <4>2. ASSUME NEW k \in DOMAIN cdQueue PROVE ~(k < 1)
        BY <1>1
      <4> QED BY <1>0, <1>1, <3>1, <4>1, <4>2 DEF CdInv, CdResets
    <3> QED BY <1>6, <2>1, <3>1 DEF CdMet, CdStale
  <2> QED BY <1>5, <1>7, <1>8, <1>9, <2>4, <2>6, <2>7 DEF CdInv
<1> QED BY <1>11, <1>12

\* The steps on a request leave the channel and the sessions.
cdOthers == <<cdEpoch, cdQueue, cdReq, cdShift, cdClient, cdFastVars, cdDropped>>

\* The worker makes nothing stale that was not.
CdWorks ==
    /\ UNCHANGED cdOthers
    /\ cdShared'.epoch = cdShared.epoch
    /\ cdPc' \in {"idle", "ground", "grounding", "strategy", "prompted", "asking", "answered",
                  "publish"}
    /\ CdBusy
    /\ cdGroundedAt' \in {cdGroundedAt, cdReq}
    /\ cdStrategyAt' \in {cdStrategyAt, cdReq}

\* It keeps what holds of the epochs, of the resets and of what was met.
LEMMA CdWorkKeeps ==
    ASSUME CdInv, CdWorks
    PROVE  CdEpochs' /\ CdResets' /\ CdMet'
<1>1. CdStale' => CdStale
  BY DEF CdWorks, CdStale, cdOthers
<1>2. CdResetDue' <=> CdResetDue
  BY DEF CdWorks, CdResetDue, CdResetQueued, cdOthers
<1>3. CdResets'
  <2>1. UNCHANGED <<cdQueue, cdClient, cdFast, cdDropped>> /\ cdShared'.epoch = cdShared.epoch
    BY DEF CdWorks, cdOthers, cdFastVars
  <2> QED BY <1>1, <1>2, <2>1 DEF CdInv, CdResets
<1>4. CdEpochs'
  BY DEF CdInv, CdEpochs, CdWorks, cdOthers, cdFastVars, CdBusy
<1>5. CdMet'
  BY DEF CdInv, CdMet, CdWorks, cdOthers, CdBusy
<1> QED BY <1>3, <1>4, <1>5

\* The steps that leave the snapshot.
LEMMA CdQuietStep ==
    ASSUME CdInv,
           \/ CdGroundingDue \/ CdPrompted \/ CdAskStrategy \/ CdSkipStrategy \/ CdAnswered
           \/ CdJudge
    PROVE  CdInv'
<1> USE DEF CdGroundingDue, CdPrompted, CdAskStrategy, CdSkipStrategy, CdAnswered, CdJudge, CdGo
<1>0. CopilotDepthTypeOK
  BY DEF CdInv
<1>1. UNCHANGED <<cdShared, cdGroundedAt>> /\ CdWorks
  BY DEF CdWorks, cdOthers, CdBusy
<1>2. cdPrompt' \in {cdPrompt, [strategy |-> cdShared.strategy, card |-> cdShared.card]}
  OBVIOUS
<1>3. cdPrompt' \in CdPrompt
  BY <1>0, <1>2 DEF CopilotDepthTypeOK, CdPrompt
<1>4. cdActive' \in BOOLEAN /\ cdCancelled' \in BOOLEAN
  BY <1>0 DEF CopilotDepthTypeOK
<1>5. CopilotDepthTypeOK'
  BY <1>0, <1>1, <1>3, <1>4 DEF CopilotDepthTypeOK, CdWorks, cdOthers, cdFastVars
<1>6. CdWorkOwn'
  <2>1. CdBusy => cdShared.strategy \in {0, cdReq} /\ cdShared.card \in {0, cdReq}
    BY DEF CdInv, CdWorkOwn
  <2>2. cdPc' \in {"prompted", "asking"} =>
            cdPrompt'.strategy \in {0, cdReq} /\ cdPrompt'.card \in {0, cdReq}
    BY <1>1, <2>1 DEF CdInv, CdWorkOwn, CdWorks
  <2> QED BY <1>1, <2>1, <2>2 DEF CdWorkOwn, CdWorks, cdOthers
<1>7. ContextIsOwn'
  BY <1>1, <1>6 DEF CdInv, ContextIsOwn, CdWorkOwn, CdWorks, cdOthers, cdFastVars
<1>8. SnapshotIsOwn'
  BY <1>1 DEF CdInv, SnapshotIsOwn, CdWorks, cdOthers
<1>9. CdToken' /\ CancelledUnpublished'
  BY DEF CdInv, CdToken, CancelledUnpublished
<1> QED BY <1>1, <1>5, <1>6, <1>7, <1>8, <1>9, CdWorkKeeps DEF CdInv

\* The steps that change the snapshot: a card or a strategy comes into the session
\* of its request, and a shift may come into a later one while the Reset is due.
LEMMA CdFillStep ==
    ASSUME CdInv, CdCountShift \/ CdGrounded \/ CdPublish
    PROVE  CdInv'
<1> USE DEF CdCountShift, CdGrounded, CdPublish, CdGo
<1>0. CopilotDepthTypeOK /\ CdBusy
  BY DEF CdInv, CdBusy
<1>1. \/ cdShared' = cdShared
      \/ CdCountShift /\ cdShared' = [cdShared EXCEPT !.shifts = @ \cup {cdReq}]
      \/ cdShared.epoch = cdReq /\ cdShared' = [cdShared EXCEPT !.card = cdReq]
      \/ cdShared.epoch = cdReq /\ cdShared' = [cdShared EXCEPT !.strategy = cdReq]
  OBVIOUS
<1>2. /\ cdShared' \in [epoch : CdSession \ {0}, strategy : CdSession, card : CdSession,
                        shifts : SUBSET CdSession]
      /\ cdShared'.epoch = cdShared.epoch
      /\ \/ cdShared'.strategy = cdShared.strategy
         \/ cdShared'.strategy = cdReq /\ cdReq = cdShared.epoch
      /\ \/ cdShared'.card = cdShared.card
         \/ cdShared'.card = cdReq /\ cdReq = cdShared.epoch
      /\ cdShared'.shifts = cdShared.shifts \/ cdShared'.shifts = cdShared.shifts \cup {cdReq}
  BY <1>0, <1>1 DEF CopilotDepthTypeOK
<1>3. CdWorks
  BY <1>0, <1>2 DEF CdWorks, cdOthers
<1>4. UNCHANGED <<cdPrompt, cdActive, cdCancelled>>
      /\ cdPc \notin {"prompted", "asking"} /\ cdPc' \notin {"prompted", "asking", "publish"}
  OBVIOUS
<1>5. CopilotDepthTypeOK'
  BY <1>0, <1>2, <1>3, <1>4 DEF CopilotDepthTypeOK, CdWorks, cdOthers, cdFastVars
<1>6. CdWorkOwn'
  BY <1>0, <1>2, <1>3, <1>4 DEF CdInv, CdWorkOwn, CdWorks, cdOthers
<1>7. ContextIsOwn' /\ CdToken' /\ CancelledUnpublished'
  BY <1>3, <1>4 DEF CdInv, ContextIsOwn, CdToken, CancelledUnpublished, CdWorks, cdOthers,
                    cdFastVars
<1>8. SnapshotIsOwn'
  <2>1. CdResetDue' <=> CdResetDue
    BY <1>3 DEF CdWorks, CdResetDue, CdResetQueued, cdOthers
  <2>2. cdReq = cdShared.epoch \/ CdResetDue
    BY <1>0 DEF CdInv, CdResets, CdStale
  <2>3. cdShared'.shifts \subseteq {cdShared'.epoch} \/ CdResetDue'
    BY <1>2, <2>1, <2>2 DEF CdInv, SnapshotIsOwn, CdResetDue, CdResetQueued
  <2> QED BY <1>2, <2>3 DEF CdInv, SnapshotIsOwn, CdResetDue, CdResetQueued
<1> QED BY <1>3, <1>5, <1>6, <1>7, <1>8, CdWorkKeeps DEF CdInv

-----------------------------------------------------------------------------
\* Every step keeps the invariant.
LEMMA CdNextKeeps == CdInv /\ [CopilotDepthNext]_cdVars => CdInv'
<1> SUFFICES ASSUME CdInv, [CopilotDepthNext]_cdVars
             PROVE  CdInv'
  OBVIOUS
<1>1. CASE CdWorkerNext
  BY <1>1, CdTakeStep, CdQuietStep, CdFillStep DEF CdWorkerNext
<1>2. CASE CdFastNext
  BY <1>2, CdFastTakeStep, CdFastObserveStep DEF CdFastNext
<1>3. CASE CdClientNext
  BY <1>3, CdClientStep, CdSnapshotStep DEF CdClientNext
<1>4. CASE UNCHANGED cdVars
  <2>1. CopilotDepthTypeOK'
    BY <1>4 DEF CdInv, CopilotDepthTypeOK, cdVars, cdWorkerVars, cdFastVars
  <2>2. ContextIsOwn' /\ SnapshotIsOwn' /\ CancelledUnpublished'
    BY <1>4 DEF CdInv, ContextIsOwn, SnapshotIsOwn, CancelledUnpublished, cdVars, cdWorkerVars,
                cdFastVars
  <2>3. CdEpochs' /\ CdWorkOwn' /\ CdToken' /\ CdMet'
    BY <1>4 DEF CdInv, CdEpochs, CdWorkOwn, CdToken, CdMet, CdBusy, cdVars, cdWorkerVars, cdFastVars
  <2>4. CdResets'
    BY <1>4 DEF CdInv, CdResets, CdResetDue, CdResetQueued, CdStale, CdBusy, cdVars, cdWorkerVars,
                cdFastVars
  <2> QED BY <2>1, <2>2, <2>3, <2>4 DEF CdInv
<1> QED BY <1>1, <1>2, <1>3, <1>4 DEF CopilotDepthNext

\* The types of the depth lane.
THEOREM DepthTyping == CopilotDepthSpec => []CopilotDepthTypeOK
<1>1. CdInv => CopilotDepthTypeOK
  BY DEF CdInv
<1> QED BY <1>1, CdInitOk, CdNextKeeps, PTL DEF CopilotDepthSpec

\* What the depth lane gives the models and publishes is of its own session, from
\* the session's first final on, and nothing cancelled: however begin_session's
\* steps fall between the workers', and whatever the channel drops
\* (runner.rs:1059-1266).
THEOREM DepthOwn == CopilotDepthSpec => []DepthIsOwn
<1>1. CdInv => DepthIsOwn
  BY DEF CdInv, DepthIsOwn, FirstFinalRefreshes, CdMet, CdBusy
<1> QED BY <1>1, CdInitOk, CdNextKeeps, PTL DEF CopilotDepthSpec

-----------------------------------------------------------------------------
(* CaptureRelay: the ring, the threads and the sockets *)

RlRingTyped ==
    /\ rlOwner \in {"up", "stopping", "stopped", "down"}
    /\ rlSession \in 1..RlMaxSessions /\ rlLast \in 0..RlMaxSeq
    /\ rlBreaks \in 0..RlMaxBreaks

RlThreadsTyped ==
    /\ rlLock \in RlClients \cup {RlNobody}
    /\ rlPc \in [RlClients -> {"none", "loop", "gap", "send", "bye", "closed"}]
    /\ rlSent \in [RlClients -> 0..RlMaxSeq] /\ rlBatch \in [RlClients -> 0..RlMaxSeq]
    /\ \A c \in RlClients : rlLock = c <=> rlPc[c] = "gap"

RlSocketsTyped ==
    /\ rlSocket \in [RlClients -> Seq(RlFrame)]
    /\ \A c \in RlClients : Len(rlSocket[c]) =< RlPipe

RlClientsTyped ==
    /\ rlAttached \in [RlClients -> BOOLEAN]
    /\ rlCursor \in [RlClients -> [session : 0..RlMaxSessions, seq : 0..RlMaxSeq]]
    /\ rlGot \in [RlClients -> SUBSET RlSeq] /\ rlTold \in [RlClients -> SUBSET RlSeq]
    /\ rlCarried \in [RlClients -> BOOLEAN] /\ rlSuspended \in [RlClients -> BOOLEAN]

RlTyped == RlRingTyped /\ RlThreadsTyped /\ RlSocketsTyped /\ RlClientsTyped

\* A thread that may still write a frame or a Gap.
RlBusy(c) == rlPc[c] \in {"loop", "gap", "send"}

\* A thread is of the owner's session, a connection of one session.
RlLinked(c) ==
    /\ rlPc[c] # "none" => rlOwner # "down"
    /\ RlBusy(c) \/ rlPc[c] = "bye" => rlAttached[c] /\ rlCursor[c].session = rlSession
    /\ ~rlAttached[c] => rlSocket[c] = <<>>
    /\ rlCursor[c].session =< rlSession

\* What it is about to write is missing, or is there.
RlThread(c) ==
    /\ rlPc[c] = "gap" => RlMissed(c)
    /\ rlPc[c] = "send" => rlSent[c] < rlBatch[c]

\* The frames that an update stands for are those after RlBefore, up to RlAfter.
RlBefore(f) == IF f.kind = "frame" THEN f.seq - 1 ELSE f.seq

RlAfter(f) == IF f.kind = "gap" THEN f.from - 1 ELSE f.seq

\* The updates in a socket follow each other without a hole, up to where the thread
\* is; nothing comes after a Shutdown.
RlStream(c) ==
    LET s == rlSocket[c] IN
    /\ \A i \in 1..Len(s) :
          /\ s[i].kind = "shutdown" => i = Len(s) /\ ~RlBusy(c) /\ rlPc[c] # "bye"
          /\ s[i].kind = "gap" => s[i].seq + 1 < s[i].from
          /\ RlBusy(c) => RlAfter(s[i]) =< rlSent[c] /\ (i = Len(s) => RlAfter(s[i]) = rlSent[c])
    /\ \A i, j \in 1..Len(s) :
          i < j /\ s[j].kind # "shutdown" =>
              RlAfter(s[i]) =< RlBefore(s[j]) /\ (j = i + 1 => RlAfter(s[i]) = RlBefore(s[j]))

\* Where the next update that the client reads begins, if one may come.
RlReached(c) == IF rlSocket[c] = <<>> THEN rlSent[c] ELSE RlBefore(rlSocket[c][1])

RlExpects(c) == RlBusy(c) \/ (rlSocket[c] # <<>> /\ rlSocket[c][1].kind # "shutdown")

\* The client has an account of all before that, and nothing after it.
RlAccount(c) ==
    /\ RlExpects(c) =>
          /\ \A n \in rlGot[c] : n =< RlReached(c)
          /\ ~rlCarried[c] => 1..RlReached(c) \subseteq rlGot[c] \cup rlTold[c]
    /\ \A n \in rlGot[c] : n =< rlCursor[c].seq
    /\ CursorAccounted(c)

\* What was reported missing is no longer in the ring, and will not be written.
RlToldRight(c) ==
    /\ rlCursor[c].session = rlSession => \A t \in rlTold[c] : t < RlFront
    /\ rlPc[c] = "send" => \A t \in rlTold[c] : t =< rlSent[c]
    /\ \A i \in 1..Len(rlSocket[c]) :
          /\ rlSocket[c][i].kind = "gap" /\ rlCursor[c].session = rlSession
                => rlSocket[c][i].from =< RlFront
          /\ rlSocket[c][i].kind = "frame" => \A t \in rlTold[c] : t < rlSocket[c][i].seq

\* All of this, of a client.
RlKept(c) == RlLinked(c) /\ RlThread(c) /\ RlStream(c) /\ RlAccount(c) /\ RlToldRight(c)

RlInv == RlTyped /\ \A c \in RlClients : RlKept(c)

\* The larger of two numbers.
LEMMA RlLarger ==
    ASSUME NEW a \in Nat, NEW b \in Nat
    PROVE  Max({a, b}) = IF a >= b THEN a ELSE b
<1> DEFINE m == IF a >= b THEN a ELSE b
<1>1. m \in {a, b} /\ \A y \in {a, b} : m >= y
  OBVIOUS
<1>2. \A x \in {a, b} : (\A y \in {a, b} : x >= y) => x = m
  OBVIOUS
<1> HIDE DEF m
<1>3. (CHOOSE x \in {a, b} : \A y \in {a, b} : x >= y) = m
  BY <1>1, <1>2
<1> QED BY <1>3 DEF Max, m

\* The numbers of the ring and of the threads.
LEMMA RlNumbers ==
    ASSUME RlTyped
    PROVE  /\ RlFront \in Nat /\ RlFront >= 1 /\ rlLast \in Nat /\ rlLast =< RlMaxSeq
           /\ RlMaxSeq \in Nat /\ (rlLast # 0 => RlFront =< rlLast)
           /\ \A c \in RlClients :
                 /\ rlSent[c] \in Nat /\ rlSent[c] =< RlMaxSeq
                 /\ rlBatch[c] \in Nat /\ rlBatch[c] =< RlMaxSeq
                 /\ rlCursor[c].seq \in Nat /\ rlCursor[c].session \in Nat
                 /\ rlGot[c] \subseteq Nat /\ rlTold[c] \subseteq Nat
<1>1. RlMaxSeq \in Nat /\ RlMaxSessions \in Nat /\ RlCapacity \in Nat /\ RlCapacity >= 1
  BY RlAssumption
<1>2. rlLast \in Nat /\ rlLast =< RlMaxSeq
  BY <1>1 DEF RlTyped, RlRingTyped
<1>3. RlFront \in Nat /\ RlFront >= 1 /\ (rlLast # 0 => RlFront =< rlLast)
  BY <1>1, <1>2 DEF RlFront
<1>4. ASSUME NEW c \in RlClients
      PROVE  /\ rlSent[c] \in Nat /\ rlSent[c] =< RlMaxSeq
             /\ rlBatch[c] \in Nat /\ rlBatch[c] =< RlMaxSeq
  BY <1>1 DEF RlTyped, RlThreadsTyped
<1>5. ASSUME NEW c \in RlClients
      PROVE  /\ rlCursor[c].seq \in Nat /\ rlCursor[c].session \in Nat
             /\ rlGot[c] \subseteq Nat /\ rlTold[c] \subseteq Nat
  <2>1. rlCursor[c] \in [session : 0..RlMaxSessions, seq : 0..RlMaxSeq]
    BY DEF RlTyped, RlClientsTyped
  <2>2. rlCursor[c].seq \in 0..RlMaxSeq /\ rlCursor[c].session \in 0..RlMaxSessions
    BY <2>1
  <2>3. rlGot[c] \subseteq RlSeq /\ rlTold[c] \subseteq RlSeq
    BY DEF RlTyped, RlClientsTyped
  <2> QED BY <1>1, <2>2, <2>3 DEF RlSeq
<1> QED BY <1>1, <1>2, <1>3, <1>4, <1>5

\* What an update is.
LEMMA RlFrames ==
    ASSUME NEW f \in RlFrame
    PROVE  /\ f.kind \in {"frame", "gap", "shutdown"}
           /\ f.seq \in Nat /\ f.from \in Nat
           /\ f.kind = "frame" => f.seq \in RlSeq /\ f.seq >= 1
           /\ f.kind = "gap" => f.from \in RlSeq /\ f.from >= 1
           /\ RlBefore(f) \in Nat /\ RlAfter(f) \in Nat
<1>1. RlMaxSeq \in Nat
  BY RlAssumption
<1>2. CASE f \in [kind : {"frame"}, seq : RlSeq, from : {0}]
  <2>1. f.kind = "frame" /\ f.seq \in RlSeq /\ f.from = 0
    BY <1>2
  <2> QED BY <1>1, <2>1 DEF RlSeq, RlBefore, RlAfter
<1>3. CASE f \in [kind : {"gap"}, seq : 0..RlMaxSeq, from : RlSeq]
  <2>1. f.kind = "gap" /\ f.seq \in 0..RlMaxSeq /\ f.from \in RlSeq
    BY <1>3
  <2> QED BY <1>1, <2>1 DEF RlSeq, RlBefore, RlAfter
<1>4. CASE f = [kind |-> "shutdown", seq |-> 0, from |-> 0]
  BY <1>4 DEF RlBefore, RlAfter
<1> QED BY <1>2, <1>3, <1>4 DEF RlFrame

\* What is in a socket.
LEMMA RlSockets ==
    ASSUME RlTyped, NEW c \in RlClients
    PROVE  /\ rlSocket[c] \in Seq(RlFrame) /\ Len(rlSocket[c]) \in Nat
           /\ \A i \in 1..Len(rlSocket[c]) : rlSocket[c][i] \in RlFrame
BY DEF RlTyped, RlSocketsTyped

\* The front of the ring only moves on.
LEMMA RlFrontGrows ==
    ASSUME rlLast \in Nat, rlLast' \in Nat, rlLast' >= rlLast
    PROVE  RlFront \in Nat /\ RlFront' \in Nat /\ RlFront' >= RlFront
<1>1. RlCapacity \in Nat /\ RlCapacity >= 1
  BY RlAssumption
<1>2. ASSUME NEW last \in Nat
      PROVE  (IF last > RlCapacity THEN last - RlCapacity + 1 ELSE 1) \in Nat
  BY <1>1
<1>3. ASSUME NEW a \in Nat, NEW b \in Nat, b >= a
      PROVE  (IF b > RlCapacity THEN b - RlCapacity + 1 ELSE 1)
                >= (IF a > RlCapacity THEN a - RlCapacity + 1 ELSE 1)
  BY <1>1, <1>3
<1>4. RlFront \in Nat /\ RlFront' \in Nat
  BY <1>2 DEF RlFront
<1>5. RlFront' >= RlFront
  BY <1>3 DEF RlFront
<1> QED BY <1>4, <1>5

\* A client that a step leaves alone, in a ring that only grows.
RlSame(c) ==
    /\ rlPc'[c] = rlPc[c] /\ rlSent'[c] = rlSent[c] /\ rlBatch'[c] = rlBatch[c]
    /\ rlSocket'[c] = rlSocket[c] /\ rlAttached'[c] = rlAttached[c] /\ rlCursor'[c] = rlCursor[c]
    /\ rlGot'[c] = rlGot[c] /\ rlTold'[c] = rlTold[c] /\ rlCarried'[c] = rlCarried[c]

\* It keeps what it had.
LEMMA RlUntouched ==
    ASSUME RlInv, NEW c \in RlClients, RlSame(c), rlSession' = rlSession,
           rlLast' \in Nat, rlLast' >= rlLast, rlPc[c] = "gap" => rlLast' = rlLast,
           rlOwner' = "down" => rlOwner = "down"
    PROVE  RlKept(c)'
<1> USE DEF RlSame
<1>0. RlTyped /\ RlKept(c)
  BY DEF RlInv
<1>1. RlLinked(c)'
  BY <1>0 DEF RlKept, RlLinked, RlBusy
<1>2. RlThread(c)'
  BY <1>0 DEF RlKept, RlThread, RlMissed, RlFront
<1>3. RlStream(c)'
  BY <1>0 DEF RlKept, RlStream, RlBusy, RlAfter, RlBefore
<1>4. RlAccount(c)'
  BY <1>0 DEF RlKept, RlAccount, RlExpects, RlReached, RlBusy, RlBefore, CursorAccounted
<1>5. RlToldRight(c)'
  <2>1. RlFront \in Nat /\ RlFront' \in Nat /\ RlFront' >= RlFront
    BY <1>0, RlNumbers, RlFrontGrows
  <2>2. rlTold[c] \subseteq Nat
    BY <1>0, RlNumbers
  <2>3. \A i \in 1..Len(rlSocket[c]) : rlSocket[c][i].from \in Nat
    BY <1>0, RlSockets, RlFrames
  <2> HIDE DEF RlSame
  <2>4. rlCursor[c].session = rlSession =>
            /\ \A t \in rlTold[c] : t < RlFront'
            /\ \A i \in 1..Len(rlSocket[c]) :
                  rlSocket[c][i].kind = "gap" => rlSocket[c][i].from =< RlFront'
    BY <1>0, <2>1, <2>2, <2>3 DEF RlKept, RlToldRight
  <2> QED BY <1>0, <2>4 DEF RlKept, RlToldRight, RlSame
<1> QED BY <1>1, <1>2, <1>3, <1>4, <1>5 DEF RlKept

\* A step of one client, or of its thread.
LEMMA RlOneClient ==
    ASSUME RlInv, NEW c \in RlClients, UNCHANGED rlRing,
           \A x \in RlClients \ {c} : RlSame(x), RlTyped', RlKept(c)'
    PROVE  RlInv'
<1>1. ASSUME NEW x \in RlClients \ {c} PROVE RlKept(x)'
  <2>1. rlLast \in Nat
    BY RlNumbers DEF RlInv
  <2>2. rlLast' = rlLast /\ rlSession' = rlSession /\ rlOwner' = rlOwner
    BY DEF rlRing
  <2>3. rlLast' \in Nat /\ rlLast' >= rlLast
    BY <2>1, <2>2
  <2> QED BY <2>2, <2>3, RlUntouched
<1> QED BY <1>1 DEF RlInv

\* At first nobody is attached.
LEMMA RlInitOk == CaptureRelayInit => RlInv
<1> SUFFICES ASSUME CaptureRelayInit PROVE RlInv
  OBVIOUS
<1> USE DEF CaptureRelayInit
<1>0. /\ RlMaxSeq \in Nat /\ RlMaxSessions \in Nat \ {0} /\ RlMaxBreaks \in Nat
      /\ RlPipe \in Nat /\ RlNobody \notin RlClients
  BY RlAssumption
<1>1. RlTyped
  <2>1. RlRingTyped
    BY <1>0 DEF RlRingTyped
  <2>2. RlThreadsTyped
    BY <1>0 DEF RlThreadsTyped
  <2>3. RlSocketsTyped
    BY <1>0 DEF RlSocketsTyped
  <2>4. RlClientsTyped
    <3>1. [session |-> 0, seq |-> 0] \in [session : 0..RlMaxSessions, seq : 0..RlMaxSeq]
      BY <1>0
    <3> QED BY <3>1 DEF RlClientsTyped
  <2> QED BY <2>1, <2>2, <2>3, <2>4 DEF RlTyped
<1>2. ASSUME NEW c \in RlClients PROVE RlKept(c)
  <2>1. /\ rlPc[c] = "none" /\ rlSocket[c] = <<>> /\ ~rlAttached[c] /\ rlGot[c] = {}
        /\ rlTold[c] = {} /\ rlCursor[c].session = 0 /\ rlCursor[c].seq = 0
    OBVIOUS
  <2>2. RlLinked(c) /\ RlThread(c)
    BY <2>1 DEF RlLinked, RlThread, RlBusy
  <2>3. 1..Len(rlSocket[c]) = {}
    BY <2>1
  <2>4. RlStream(c) /\ RlToldRight(c)
    BY <2>1, <2>3 DEF RlStream, RlToldRight
  <2>5. RlAccount(c)
    BY <2>1 DEF RlAccount, RlExpects, RlBusy, CursorAccounted
  <2> QED BY <2>2, <2>4, <2>5 DEF RlKept
<1> QED BY <1>1, <1>2 DEF RlInv

-----------------------------------------------------------------------------
\* The owner pushes, is stopped, or is done with it.
LEMMA RlOwnerStep ==
    ASSUME RlInv, RlPush \/ RlStop \/ RlStopped
    PROVE  RlInv'
<1>0. /\ UNCHANGED <<rlSession, rlThreads, rlSocket, rlClient, rlBreaks>>
      /\ rlOwner' \in {"up", "stopping", "stopped"}
      /\ rlOwner # "down"
      /\ \/ rlLast' = rlLast
         \/ rlLock = RlNobody /\ rlLast < RlMaxSeq /\ rlLast' = rlLast + 1
  BY DEF RlPush, RlStop, RlStopped
<1>1. rlLast \in Nat /\ rlLast' \in Nat /\ rlLast' >= rlLast /\ RlMaxSeq \in Nat
      /\ rlLast =< RlMaxSeq /\ rlLast' =< RlMaxSeq
  <2>1. rlLast \in Nat /\ RlMaxSeq \in Nat /\ rlLast =< RlMaxSeq
    BY RlNumbers DEF RlInv
  <2>2. CASE rlLast' = rlLast
    BY <2>1, <2>2
  <2>3. CASE rlLast < RlMaxSeq /\ rlLast' = rlLast + 1
    BY <2>1, <2>3
  <2> QED BY <1>0, <2>2, <2>3
<1>2. RlTyped'
  <2>1. RlRingTyped'
    BY <1>0, <1>1 DEF RlInv, RlTyped, RlRingTyped
  <2>2. RlThreadsTyped' /\ RlSocketsTyped'
    BY <1>0 DEF RlInv, RlTyped, RlThreadsTyped, RlSocketsTyped, rlThreads
  <2>3. RlClientsTyped'
    BY <1>0 DEF RlInv, RlTyped, RlClientsTyped, rlClient
  <2> QED BY <2>1, <2>2, <2>3 DEF RlTyped
<1>3. ASSUME NEW c \in RlClients PROVE RlKept(c)'
  <2>1. RlSame(c)
    BY <1>0 DEF RlSame, rlThreads, rlClient
  <2>2. rlPc[c] = "gap" => rlLast' = rlLast
    BY <1>0, RlAssumption DEF RlInv, RlTyped, RlThreadsTyped
  <2> QED BY <1>0, <1>1, <2>1, <2>2, RlUntouched
<1> QED BY <1>2, <1>3 DEF RlInv

\* Its process ends, and its threads with it; or another one begins, with an empty
\* ring and no thread.
LEMMA RlThreadless ==
    ASSUME RlInv, NEW c \in RlClients, rlPc'[c] = "none",
           UNCHANGED <<rlSent, rlBatch, rlSocket, rlClient>>,
           \/ rlSession' = rlSession /\ rlLast' = rlLast
           \/ rlSession' = rlSession + 1
    PROVE  RlKept(c)'
<1>0. RlKept(c) /\ RlTyped
  BY DEF RlInv
<1> USE DEF rlClient
<1>1. rlSession \in Nat /\ rlCursor[c].session \in Nat /\ rlCursor[c].session =< rlSession
  <2>1. RlMaxSessions \in Nat
    BY RlAssumption
  <2> QED BY <1>0, <2>1, RlNumbers DEF RlKept, RlLinked, RlTyped, RlRingTyped
<1>2. RlLinked(c)'
  BY <1>0, <1>1 DEF RlKept, RlLinked, RlBusy
<1>3. RlThread(c)'
  BY DEF RlThread
<1>4. RlStream(c)'
  BY <1>0 DEF RlKept, RlStream, RlBusy, RlAfter, RlBefore
<1>5. RlAccount(c)'
  BY <1>0 DEF RlKept, RlAccount, RlExpects, RlReached, RlBusy, RlBefore, CursorAccounted
<1>6. RlToldRight(c)'
  <2>1. CASE rlSession' = rlSession /\ rlLast' = rlLast
    BY <1>0, <2>1 DEF RlKept, RlToldRight, RlFront
  <2>2. CASE rlSession' = rlSession + 1
    <3>1. rlCursor'[c].session # rlSession'
      BY <1>1, <2>2
    <3> QED BY <1>0, <3>1 DEF RlKept, RlToldRight
  <2> QED BY <2>1, <2>2
<1> QED BY <1>2, <1>3, <1>4, <1>5, <1>6 DEF RlKept

\* The owner's process ends.
LEMMA RlExitStep ==
    ASSUME RlInv, RlExit
    PROVE  RlInv'
<1>0. /\ rlOwner' = "down" /\ rlLock' = RlNobody /\ rlPc' = [c \in RlClients |-> "none"]
      /\ UNCHANGED <<rlSession, rlLast, rlSent, rlBatch, rlSocket, rlClient, rlBreaks>>
  BY DEF RlExit
<1>1. RlTyped'
  <2>1. RlRingTyped'
    BY <1>0 DEF RlInv, RlTyped, RlRingTyped
  <2>2. RlThreadsTyped'
    BY <1>0, RlAssumption DEF RlInv, RlTyped, RlThreadsTyped
  <2>3. RlSocketsTyped' /\ RlClientsTyped'
    BY <1>0 DEF RlInv, RlTyped, RlSocketsTyped, RlClientsTyped, rlClient
  <2> QED BY <2>1, <2>2, <2>3 DEF RlTyped
<1> QED BY <1>0, <1>1, RlThreadless DEF RlInv

\* Another owner begins.
LEMMA RlStartStep ==
    ASSUME RlInv, RlStart
    PROVE  RlInv'
<1>0. /\ rlOwner = "down" /\ rlSession < RlMaxSessions /\ rlOwner' = "up"
      /\ rlSession' = rlSession + 1 /\ rlLast' = 0
      /\ UNCHANGED <<rlThreads, rlSocket, rlClient, rlBreaks>>
  BY DEF RlStart
<1>1. RlTyped'
  <2>1. RlRingTyped'
    BY <1>0, RlAssumption DEF RlInv, RlTyped, RlRingTyped
  <2>2. RlThreadsTyped'
    BY <1>0 DEF RlInv, RlTyped, RlThreadsTyped, rlThreads
  <2>3. RlSocketsTyped' /\ RlClientsTyped'
    BY <1>0 DEF RlInv, RlTyped, RlSocketsTyped, RlClientsTyped, rlClient
  <2> QED BY <2>1, <2>2, <2>3 DEF RlTyped
<1>2. \A c \in RlClients : rlPc[c] = "none"
  BY <1>0 DEF RlInv, RlKept, RlLinked
<1>3. ASSUME NEW c \in RlClients PROVE RlKept(c)'
  <2>1. rlPc'[c] = "none" /\ UNCHANGED <<rlSent, rlBatch, rlSocket, rlClient>>
    BY <1>0, <1>2 DEF rlThreads
  <2> QED BY <1>0, <2>1, RlThreadless
<1> QED BY <1>1, <1>3 DEF RlInv

-----------------------------------------------------------------------------
\* One update more in a socket.
LEMMA RlWritten ==
    ASSUME RlInv, NEW c \in RlClients, NEW f \in RlFrame, RlWrite(c, f)
    PROVE  /\ rlSocket'[c] = Append(rlSocket[c], f)
           /\ Len(rlSocket'[c]) = Len(rlSocket[c]) + 1
           /\ \A i \in 1..Len(rlSocket[c]) : rlSocket'[c][i] = rlSocket[c][i]
           /\ rlSocket'[c][Len(rlSocket[c]) + 1] = f
           /\ \A x \in RlClients \ {c} : rlSocket'[x] = rlSocket[x]
           /\ RlSocketsTyped'
<1>1. rlSocket[c] \in Seq(RlFrame) /\ Len(rlSocket[c]) \in Nat /\ RlPipe \in Nat
  BY RlSockets, RlAssumption DEF RlInv
<1>2. /\ rlSocket'[c] = Append(rlSocket[c], f)
      /\ \A x \in RlClients \ {c} : rlSocket'[x] = rlSocket[x]
      /\ Len(rlSocket[c]) < RlPipe
  BY DEF RlWrite, RlInv, RlTyped, RlSocketsTyped
<1>3. /\ Append(rlSocket[c], f) \in Seq(RlFrame)
      /\ Len(Append(rlSocket[c], f)) = Len(rlSocket[c]) + 1
      /\ \A i \in 1..Len(rlSocket[c]) : Append(rlSocket[c], f)[i] = rlSocket[c][i]
      /\ Append(rlSocket[c], f)[Len(rlSocket[c]) + 1] = f
  BY <1>1
<1>4. RlSocketsTyped'
  <2>1. rlSocket' \in [RlClients -> Seq(RlFrame)]
    BY <1>3 DEF RlWrite, RlInv, RlTyped, RlSocketsTyped
  <2>2. Len(rlSocket'[c]) =< RlPipe
    BY <1>1, <1>2, <1>3
  <2> QED BY <1>2, <2>1, <2>2 DEF RlInv, RlTyped, RlSocketsTyped
<1> QED BY <1>2, <1>3, <1>4

\* A frame or a Gap that goes on where the thread is.
LEMMA RlTells ==
    ASSUME RlInv, NEW c \in RlClients, NEW f \in RlFrame, f.kind # "shutdown", RlWrite(c, f),
           RlBusy(c), RlBusy(c)', RlBefore(f) = rlSent[c], RlAfter(f) = rlSent'[c],
           rlSent'[c] \in Nat, rlSent'[c] >= rlSent[c], f.kind = "gap" => f.seq + 1 < f.from
    PROVE  RlStream(c)' /\ RlReached(c)' = RlReached(c) /\ RlExpects(c)
<1> DEFINE s == rlSocket[c]
           t == rlSocket'[c]
           n == Len(rlSocket[c])
<1>1. /\ Len(t) = n + 1 /\ n \in Nat /\ t[n + 1] = f
      /\ \A i \in 1..n : t[i] = s[i] /\ s[i] \in RlFrame
  BY RlWritten, RlSockets DEF RlInv
<1>2. rlSent[c] \in Nat
  BY RlNumbers DEF RlInv
<1>3. \A i \in 1..n : /\ s[i].kind # "shutdown" /\ (s[i].kind = "gap" => s[i].seq + 1 < s[i].from)
                      /\ RlAfter(s[i]) \in Nat /\ RlAfter(s[i]) =< rlSent[c]
                      /\ i = n => RlAfter(s[i]) = rlSent[c]
  BY <1>1, RlFrames DEF RlInv, RlKept, RlStream
<1>4. \A i, j \in 1..n : i < j => /\ RlAfter(s[i]) =< RlBefore(s[j])
                                  /\ j = i + 1 => RlAfter(s[i]) = RlBefore(s[j])
  BY <1>3 DEF RlInv, RlKept, RlStream
<1>5. \A i \in 1..(n + 1) : i \in 1..n \/ i = n + 1
  BY <1>1
<1> HIDE DEF s, t, n
<1>6. ASSUME NEW i \in 1..(n + 1)
      PROVE  /\ t[i].kind # "shutdown" /\ (t[i].kind = "gap" => t[i].seq + 1 < t[i].from)
             /\ RlAfter(t[i]) =< rlSent'[c] /\ (i = n + 1 => RlAfter(t[i]) = rlSent'[c])
  <2>1. CASE i \in 1..n
    <3>1. t[i] = s[i] /\ i # n + 1
      BY <1>1, <2>1
    <3>2. RlAfter(s[i]) \in Nat /\ RlAfter(s[i]) =< rlSent[c]
      BY <1>3, <2>1
    <3>3. RlAfter(s[i]) =< rlSent'[c]
      BY <1>2, <3>2
    <3> QED BY <1>3, <2>1, <3>1, <3>3
  <2>2. CASE i = n + 1
    BY <1>1, <2>2
  <2> QED BY <1>5, <2>1, <2>2
<1>7. ASSUME NEW i \in 1..(n + 1), NEW j \in 1..(n + 1), i < j
      PROVE  RlAfter(t[i]) =< RlBefore(t[j]) /\ (j = i + 1 => RlAfter(t[i]) = RlBefore(t[j]))
  <2>1. i \in 1..n /\ t[i] = s[i]
    BY <1>1, <1>5, <1>7
  <2>2. CASE j \in 1..n
    BY <1>1, <1>4, <1>7, <2>1, <2>2
  <2>3. CASE j = n + 1
    <3>1. j = i + 1 => i = n
      BY <1>1, <2>1, <2>3
    <3> QED BY <1>1, <1>3, <2>1, <2>3, <3>1
  <2> QED BY <1>5, <2>2, <2>3
<1>8. RlStream(c)'
  <2>1. Len(t) = n + 1
    BY <1>1
  <2>2. \A i \in 1..Len(t) :
          /\ t[i].kind = "shutdown" => i = Len(t) /\ ~RlBusy(c)' /\ rlPc'[c] # "bye"
          /\ t[i].kind = "gap" => t[i].seq + 1 < t[i].from
          /\ RlBusy(c)' => RlAfter(t[i]) =< rlSent'[c] /\ (i = Len(t) => RlAfter(t[i]) = rlSent'[c])
    BY <1>6, <2>1
  <2>3. \A i, j \in 1..Len(t) :
          i < j /\ t[j].kind # "shutdown" =>
              RlAfter(t[i]) =< RlBefore(t[j]) /\ (j = i + 1 => RlAfter(t[i]) = RlBefore(t[j]))
    BY <1>7, <2>1
  <2> QED BY <2>2, <2>3 DEF RlStream, RlAfter, RlBefore, t
<1>9. RlReached(c)' = RlReached(c)
  <2>1. CASE s = <<>>
    <3>0. n = 0
      BY <2>1 DEF n, s
    <3>2. t[1] = f /\ Len(t) # 0
      BY <1>1, <3>0
    <3>1. t[1] = f /\ t # <<>>
      BY <3>2
    <3> QED BY <2>1, <3>1 DEF RlReached, s, t, RlBefore
  <2>2. CASE s # <<>>
    <3>1. 1 \in 1..n
      <4>1. s \in Seq(RlFrame)
        BY RlSockets DEF RlInv, s
      <4> QED BY <2>2, <4>1 DEF n, s
    <3>2. t[1] = s[1] /\ t # <<>>
      BY <1>1, <3>1
    <3> QED BY <2>2, <3>2 DEF RlReached, s, t, RlBefore
  <2> QED BY <2>1, <2>2
<1>10. RlExpects(c)
  BY DEF RlExpects
<1> QED BY <1>8, <1>9, <1>10

-----------------------------------------------------------------------------
\* The thread takes the mutex: what it finds to do follows from the ring.
LEMMA RlLookStep ==
    ASSUME RlInv, NEW c \in RlClients, RlLook(c)
    PROVE  RlInv'
<1>0. /\ rlPc[c] = "loop" /\ rlLock = RlNobody
      /\ UNCHANGED <<rlRing, rlSocket, rlClient, rlBreaks>>
  BY DEF RlLook
<1>k. RlTyped /\ RlKept(c) /\ RlBusy(c)
  BY <1>0 DEF RlInv, RlBusy
<1>1. PICK to \in {"bye", "gap", "send"} :
          /\ rlPc' = [rlPc EXCEPT ![c] = to]
          /\ rlLock' = IF to = "gap" THEN c ELSE RlNobody
          /\ to = "gap" => RlMissed(c) /\ rlSent' = rlSent
          /\ to = "bye" => rlSent' = rlSent
          /\ to = "send" => /\ ~RlMissed(c) /\ rlSent[c] < rlLast
                            /\ rlSent' = [rlSent EXCEPT ![c] = Max({rlSent[c], RlFront - 1})]
          /\ rlBatch' = IF to = "send" THEN [rlBatch EXCEPT ![c] = rlLast] ELSE rlBatch
  BY <1>0 DEF RlLook, RlCopy
<1>2. /\ rlSent[c] \in Nat /\ rlLast \in Nat /\ RlFront \in Nat /\ RlFront >= 1
      /\ rlLast \in 0..RlMaxSeq /\ rlTold[c] \subseteq Nat
  BY <1>k, RlNumbers DEF RlTyped, RlRingTyped
<1>3. rlSent' = rlSent
  <2>1. CASE to = "send"
    <3>1. rlSent[c] >= RlFront - 1 /\ RlFront - 1 \in Nat
      BY <1>1, <1>2, <2>1 DEF RlMissed
    <3>2. Max({rlSent[c], RlFront - 1}) = rlSent[c]
      BY <1>2, <3>1, RlLarger
    <3> QED BY <1>1, <2>1, <3>2 DEF RlInv, RlTyped, RlThreadsTyped
  <2> QED BY <1>1, <2>1
<1>4. /\ rlPc'[c] = to /\ (to = "send" => rlBatch'[c] = rlLast)
      /\ \A x \in RlClients \ {c} : rlPc'[x] = rlPc[x] /\ rlBatch'[x] = rlBatch[x]
  BY <1>1 DEF RlInv, RlTyped, RlThreadsTyped
<1>5. RlTyped'
  <2>1. RlThreadsTyped'
    <3>1. rlPc' \in [RlClients -> {"none", "loop", "gap", "send", "bye", "closed"}]
          /\ rlBatch' \in [RlClients -> 0..RlMaxSeq]
      BY <1>1, <1>2 DEF RlInv, RlTyped, RlThreadsTyped
    <3>2. \A x \in RlClients : rlLock' = x <=> rlPc'[x] = "gap"
      BY <1>0, <1>1, <1>4, RlAssumption DEF RlInv, RlTyped, RlThreadsTyped
    <3> QED BY <1>1, <1>3, <3>1, <3>2 DEF RlInv, RlTyped, RlThreadsTyped
  <2>2. RlRingTyped' /\ RlSocketsTyped' /\ RlClientsTyped'
    BY <1>0, <1>k DEF RlTyped, RlRingTyped, RlSocketsTyped, RlClientsTyped, rlRing, rlClient
  <2> QED BY <2>1, <2>2 DEF RlTyped
<1>6. \A x \in RlClients \ {c} : RlSame(x)
  BY <1>0, <1>3, <1>4 DEF RlSame, rlClient
<1>7. UNCHANGED <<rlOwner, rlSession, rlLast, rlSocket, rlAttached, rlCursor, rlGot, rlTold,
                  rlCarried, rlSent>>
  BY <1>0, <1>3 DEF rlRing, rlClient
<1>8. RlLinked(c)'
  BY <1>0, <1>4, <1>7, <1>k DEF RlKept, RlLinked, RlBusy
<1>9. RlThread(c)'
  BY <1>1, <1>4, <1>7 DEF RlThread, RlMissed, RlFront
<1>10. RlStream(c)'
  BY <1>0, <1>4, <1>7, <1>k DEF RlKept, RlStream, RlBusy, RlAfter, RlBefore
<1>11. RlAccount(c)'
  <2>1. RlReached(c)' = RlReached(c) /\ RlExpects(c) /\ CursorAccounted(c)'
    BY <1>7, <1>k DEF RlReached, RlBefore, RlExpects, RlKept, RlAccount, CursorAccounted
  <2> QED BY <1>7, <1>k, <2>1 DEF RlKept, RlAccount
<1>12. RlToldRight(c)'
  <2>1. RlFront' = RlFront /\ rlCursor[c].session = rlSession
    BY <1>7, <1>k DEF RlFront, RlKept, RlLinked
  <2>2. to = "send" => \A t \in rlTold[c] : t =< rlSent[c]
    <3> SUFFICES ASSUME to = "send", NEW t \in rlTold[c] PROVE t =< rlSent[c]
      OBVIOUS
    <3>1. t < RlFront /\ t \in Nat
      BY <1>2, <1>k, <2>1 DEF RlKept, RlToldRight
    <3>2. rlSent[c] + 1 >= RlFront
      BY <1>1, <1>2 DEF RlMissed
    <3> QED BY <1>2, <3>1, <3>2
  <2> QED BY <1>4, <1>7, <1>k, <2>1, <2>2 DEF RlKept, RlToldRight
<1> QED BY <1>0, <1>5, <1>6, <1>8, <1>9, <1>10, <1>11, <1>12, RlOneClient DEF RlKept

\* The Gap is written, and the frames from there on are copied.
LEMMA RlWriteGapStep ==
    ASSUME RlInv, NEW c \in RlClients, RlWriteGap(c)
    PROVE  RlInv'
<1>k. RlTyped /\ RlKept(c) /\ rlPc[c] = "gap" /\ RlBusy(c)
  BY DEF RlInv, RlWriteGap, RlBusy
<1>1. /\ rlSent[c] \in Nat /\ rlLast \in Nat /\ RlFront \in Nat /\ RlFront >= 1
      /\ rlLast # 0 /\ rlSent[c] + 1 < RlFront /\ RlFront =< rlLast
      /\ rlLast \in 0..RlMaxSeq /\ rlLast =< RlMaxSeq /\ RlMaxSeq \in Nat /\ rlTold[c] \subseteq Nat
      /\ rlSent[c] =< RlMaxSeq
  BY <1>k, RlNumbers DEF RlTyped, RlRingTyped, RlKept, RlThread, RlMissed
<1>2. RlFront - 1 \in Nat /\ RlFront - 1 > rlSent[c] /\ RlFront - 1 < rlLast
      /\ RlFront - 1 \in 0..RlMaxSeq /\ RlFront \in RlSeq /\ rlSent[c] \in 0..RlMaxSeq
  BY <1>1 DEF RlSeq
<1> DEFINE f == [kind |-> "gap", seq |-> rlSent[c], from |-> RlFront]
<1>3. Max({rlSent[c], RlFront - 1}) = RlFront - 1
  BY <1>1, <1>2, RlLarger
<1>0. /\ RlWrite(c, f)
      /\ rlPc' = [rlPc EXCEPT ![c] = "send"] /\ rlSent' = [rlSent EXCEPT ![c] = RlFront - 1]
      /\ rlBatch' = [rlBatch EXCEPT ![c] = rlLast] /\ rlLock' = RlNobody
      /\ UNCHANGED <<rlRing, rlClient, rlBreaks>>
  BY <1>3 DEF RlWriteGap, RlCopy
<1>4. /\ f \in RlFrame /\ f.kind = "gap" /\ f.seq = rlSent[c] /\ f.from = RlFront
      /\ RlBefore(f) = rlSent[c] /\ RlAfter(f) = RlFront - 1
  BY <1>2 DEF RlFrame, RlBefore, RlAfter
<1> HIDE DEF f
<1>5. /\ rlPc'[c] = "send" /\ rlSent'[c] = RlFront - 1 /\ rlBatch'[c] = rlLast
      /\ \A x \in RlClients \ {c} :
            rlPc'[x] = rlPc[x] /\ rlSent'[x] = rlSent[x] /\ rlBatch'[x] = rlBatch[x]
  BY <1>0 DEF RlInv, RlTyped, RlThreadsTyped
<1>6. /\ Len(rlSocket'[c]) = Len(rlSocket[c]) + 1 /\ Len(rlSocket[c]) \in Nat
      /\ \A i \in 1..Len(rlSocket[c]) : rlSocket'[c][i] = rlSocket[c][i]
      /\ rlSocket'[c][Len(rlSocket[c]) + 1] = f
      /\ \A x \in RlClients \ {c} : rlSocket'[x] = rlSocket[x]
      /\ RlSocketsTyped'
  BY <1>0, <1>4, <1>k, RlWritten, RlSockets
<1>7. RlStream(c)' /\ RlReached(c)' = RlReached(c) /\ RlExpects(c)
  <2>1. RlBusy(c)'
    BY <1>5 DEF RlBusy
  <2> QED BY <1>0, <1>1, <1>2, <1>4, <1>5, <1>k, <2>1, RlTells
<1>8. RlTyped'
  <2>1. RlThreadsTyped'
    <3>1. /\ rlPc' \in [RlClients -> {"none", "loop", "gap", "send", "bye", "closed"}]
          /\ rlSent' \in [RlClients -> 0..RlMaxSeq]
          /\ rlBatch' \in [RlClients -> 0..RlMaxSeq]
      BY <1>0, <1>1, <1>2 DEF RlInv, RlTyped, RlThreadsTyped
    <3>2. \A x \in RlClients : rlLock' = x <=> rlPc'[x] = "gap"
      BY <1>0, <1>5, <1>k, RlAssumption DEF RlInv, RlTyped, RlThreadsTyped
    <3> QED BY <1>0, <3>1, <3>2 DEF RlInv, RlTyped, RlThreadsTyped
  <2>2. RlRingTyped' /\ RlClientsTyped'
    BY <1>0, <1>k DEF RlTyped, RlRingTyped, RlClientsTyped, rlRing, rlClient
  <2> QED BY <1>6, <2>1, <2>2 DEF RlTyped
<1>9. \A x \in RlClients \ {c} : RlSame(x)
  BY <1>0, <1>5, <1>6 DEF RlSame, rlClient
<1>10. UNCHANGED <<rlOwner, rlSession, rlLast, rlAttached, rlCursor, rlGot, rlTold, rlCarried>>
  BY <1>0 DEF rlRing, rlClient
<1>11. RlLinked(c)'
  BY <1>5, <1>10, <1>k DEF RlKept, RlLinked, RlBusy
<1>12. RlThread(c)'
  BY <1>2, <1>5 DEF RlThread
<1>13. RlAccount(c)'
  <2>1. CursorAccounted(c)'
    BY <1>10, <1>k DEF RlKept, RlAccount, CursorAccounted
  <2> QED BY <1>7, <1>10, <1>k, <2>1 DEF RlKept, RlAccount
<1>14. RlToldRight(c)'
  <2>1. RlFront' = RlFront /\ rlCursor[c].session = rlSession
    BY <1>10, <1>k DEF RlFront, RlKept, RlLinked
  <2>2. \A t \in rlTold[c] : t < RlFront /\ t =< RlFront - 1
    BY <1>1, <1>2, <1>k, <2>1 DEF RlKept, RlToldRight
  <2>3. ASSUME NEW i \in 1..Len(rlSocket'[c])
        PROVE  /\ rlSocket'[c][i].kind = "gap" => rlSocket'[c][i].from =< RlFront
               /\ rlSocket'[c][i].kind = "frame" =>
                     \A t \in rlTold[c] : t < rlSocket'[c][i].seq
    <3>1. CASE i \in 1..Len(rlSocket[c])
      BY <1>6, <1>k, <2>1, <3>1 DEF RlKept, RlToldRight
    <3>2. CASE i = Len(rlSocket[c]) + 1
      <4>1. rlSocket'[c][i] = f
        BY <1>6, <3>2
      <4> QED BY <1>1, <1>4, <4>1
    <3> QED BY <1>6, <3>1, <3>2
  <2> QED BY <1>5, <1>10, <2>1, <2>2, <2>3 DEF RlToldRight
<1> QED BY <1>0, <1>7, <1>8, <1>9, <1>11, <1>12, <1>13, <1>14, RlOneClient DEF RlKept

\* One of the frames that were copied is written.
LEMMA RlSendStep ==
    ASSUME RlInv, NEW c \in RlClients, RlSend(c)
    PROVE  RlInv'
<1>k. RlTyped /\ RlKept(c) /\ rlPc[c] = "send" /\ RlBusy(c)
  BY DEF RlInv, RlSend, RlBusy
<1>1. /\ rlSent[c] \in Nat /\ rlSent[c] < rlBatch[c] /\ rlBatch[c] \in Nat
      /\ rlBatch[c] =< RlMaxSeq /\ RlMaxSeq \in Nat /\ rlTold[c] \subseteq Nat
  BY <1>k, RlNumbers DEF RlKept, RlThread
<1>2. rlSent[c] + 1 \in Nat /\ rlSent[c] + 1 \in 0..RlMaxSeq /\ rlSent[c] + 1 \in RlSeq
      /\ rlSent[c] + 1 =< rlBatch[c]
  BY <1>1 DEF RlSeq
<1> DEFINE f == [kind |-> "frame", seq |-> rlSent[c] + 1, from |-> 0]
           to == IF rlSent[c] + 1 = rlBatch[c] THEN "loop" ELSE "send"
<1>0. /\ RlWrite(c, f) /\ rlSent' = [rlSent EXCEPT ![c] = rlSent[c] + 1]
      /\ rlPc' = [rlPc EXCEPT ![c] = to]
      /\ UNCHANGED <<rlRing, rlLock, rlBatch, rlClient, rlBreaks>>
  BY DEF RlSend
<1>4. /\ f \in RlFrame /\ f.kind = "frame" /\ f.seq = rlSent[c] + 1
      /\ RlBefore(f) = rlSent[c] /\ RlAfter(f) = rlSent[c] + 1
  BY <1>1, <1>2 DEF RlFrame, RlBefore, RlAfter
<1>t. to \in {"loop", "send"} /\ (to = "send" => rlSent[c] + 1 < rlBatch[c])
  BY <1>1, <1>2
<1> HIDE DEF f, to
<1>5. /\ rlPc'[c] = to /\ rlSent'[c] = rlSent[c] + 1
      /\ \A x \in RlClients \ {c} : rlPc'[x] = rlPc[x] /\ rlSent'[x] = rlSent[x]
  BY <1>0 DEF RlInv, RlTyped, RlThreadsTyped
<1>6. /\ Len(rlSocket'[c]) = Len(rlSocket[c]) + 1 /\ Len(rlSocket[c]) \in Nat
      /\ \A i \in 1..Len(rlSocket[c]) : rlSocket'[c][i] = rlSocket[c][i]
      /\ rlSocket'[c][Len(rlSocket[c]) + 1] = f
      /\ \A x \in RlClients \ {c} : rlSocket'[x] = rlSocket[x]
      /\ RlSocketsTyped'
  BY <1>0, <1>4, <1>k, RlWritten, RlSockets
<1>7. RlStream(c)' /\ RlReached(c)' = RlReached(c) /\ RlExpects(c)
  <2>1. RlBusy(c)'
    BY <1>5, <1>t DEF RlBusy
  <2>2. rlSent[c] + 1 >= rlSent[c]
    BY <1>1
  <2> QED BY <1>0, <1>2, <1>4, <1>5, <1>k, <2>1, <2>2, RlTells
<1>8. RlTyped'
  <2>1. RlThreadsTyped'
    <3>1. /\ rlPc' \in [RlClients -> {"none", "loop", "gap", "send", "bye", "closed"}]
          /\ rlSent' \in [RlClients -> 0..RlMaxSeq]
      BY <1>0, <1>2, <1>t DEF RlInv, RlTyped, RlThreadsTyped
    <3>2. \A x \in RlClients : rlLock' = x <=> rlPc'[x] = "gap"
      BY <1>0, <1>5, <1>k, <1>t DEF RlInv, RlTyped, RlThreadsTyped
    <3> QED BY <1>0, <3>1, <3>2 DEF RlInv, RlTyped, RlThreadsTyped
  <2>2. RlRingTyped' /\ RlClientsTyped'
    BY <1>0, <1>k DEF RlTyped, RlRingTyped, RlClientsTyped, rlRing, rlClient
  <2> QED BY <1>6, <2>1, <2>2 DEF RlTyped
<1>9. \A x \in RlClients \ {c} : RlSame(x)
  BY <1>0, <1>5, <1>6 DEF RlSame, rlClient
<1>10. UNCHANGED <<rlOwner, rlSession, rlLast, rlBatch, rlAttached, rlCursor, rlGot, rlTold,
                   rlCarried>>
  BY <1>0 DEF rlRing, rlClient
<1>11. RlLinked(c)'
  BY <1>5, <1>10, <1>k, <1>t DEF RlKept, RlLinked, RlBusy
<1>12. RlThread(c)'
  BY <1>5, <1>10, <1>t DEF RlThread
<1>13. RlAccount(c)'
  <2>1. CursorAccounted(c)'
    BY <1>10, <1>k DEF RlKept, RlAccount, CursorAccounted
  <2> QED BY <1>7, <1>10, <1>k, <2>1 DEF RlKept, RlAccount
<1>14. RlToldRight(c)'
  <2>1. RlFront' = RlFront /\ rlCursor[c].session = rlSession
    BY <1>10, <1>k DEF RlFront, RlKept, RlLinked
  <2>2. \A t \in rlTold[c] : t < rlSent[c] + 1 /\ t =< rlSent[c] + 1
    <3>1. \A t \in rlTold[c] : t =< rlSent[c] /\ t \in Nat
      BY <1>1, <1>k DEF RlKept, RlToldRight
    <3> QED BY <1>1, <3>1
  <2>3. ASSUME NEW i \in 1..Len(rlSocket'[c])
        PROVE  /\ rlSocket'[c][i].kind = "gap" => rlSocket'[c][i].from =< RlFront
               /\ rlSocket'[c][i].kind = "frame" =>
                     \A t \in rlTold[c] : t < rlSocket'[c][i].seq
    <3>1. CASE i \in 1..Len(rlSocket[c])
      BY <1>6, <1>k, <2>1, <3>1 DEF RlKept, RlToldRight
    <3>2. CASE i = Len(rlSocket[c]) + 1
      <4>1. rlSocket'[c][i] = f
        BY <1>6, <3>2
      <4> QED BY <1>4, <2>2, <4>1
    <3> QED BY <1>6, <3>1, <3>2
  <2>4. \A t \in rlTold[c] : t < RlFront
    BY <1>k, <2>1 DEF RlKept, RlToldRight
  <2> QED BY <1>5, <1>10, <2>1, <2>2, <2>3, <2>4 DEF RlToldRight
<1> QED BY <1>0, <1>7, <1>8, <1>9, <1>11, <1>12, <1>13, <1>14, RlOneClient DEF RlKept

\* The last word.
LEMMA RlSayShutdownStep ==
    ASSUME RlInv, NEW c \in RlClients, RlSayShutdown(c)
    PROVE  RlInv'
<1>k. RlTyped /\ RlKept(c) /\ rlPc[c] = "bye"
  BY DEF RlInv, RlSayShutdown
<1> DEFINE f == [kind |-> "shutdown", seq |-> 0, from |-> 0]
<1>0. /\ RlWrite(c, f) /\ rlPc' = [rlPc EXCEPT ![c] = "closed"]
      /\ UNCHANGED <<rlRing, rlLock, rlSent, rlBatch, rlClient, rlBreaks>>
  BY DEF RlSayShutdown
<1>4. f \in RlFrame /\ f.kind = "shutdown"
  BY DEF RlFrame
<1> HIDE DEF f
<1>5. rlPc'[c] = "closed" /\ \A x \in RlClients \ {c} : rlPc'[x] = rlPc[x]
  BY <1>0 DEF RlInv, RlTyped, RlThreadsTyped
<1>6. /\ Len(rlSocket'[c]) = Len(rlSocket[c]) + 1 /\ Len(rlSocket[c]) \in Nat
      /\ \A i \in 1..Len(rlSocket[c]) : rlSocket'[c][i] = rlSocket[c][i]
      /\ rlSocket'[c][Len(rlSocket[c]) + 1] = f
      /\ \A x \in RlClients \ {c} : rlSocket'[x] = rlSocket[x]
      /\ RlSocketsTyped'
  BY <1>0, <1>4, <1>k, RlWritten, RlSockets
<1>8. RlTyped'
  <2>1. RlThreadsTyped'
    <3>1. rlPc' \in [RlClients -> {"none", "loop", "gap", "send", "bye", "closed"}]
      BY <1>0 DEF RlInv, RlTyped, RlThreadsTyped
    <3>2. \A x \in RlClients : rlLock' = x <=> rlPc'[x] = "gap"
      BY <1>0, <1>5, <1>k DEF RlInv, RlTyped, RlThreadsTyped
    <3> QED BY <1>0, <3>1, <3>2 DEF RlInv, RlTyped, RlThreadsTyped
  <2>2. RlRingTyped' /\ RlClientsTyped'
    BY <1>0, <1>k DEF RlTyped, RlRingTyped, RlClientsTyped, rlRing, rlClient
  <2> QED BY <1>6, <2>1, <2>2 DEF RlTyped
<1>9. \A x \in RlClients \ {c} : RlSame(x)
  BY <1>0, <1>5, <1>6 DEF RlSame, rlClient
<1>10. UNCHANGED <<rlOwner, rlSession, rlLast, rlSent, rlBatch, rlAttached, rlCursor, rlGot, rlTold,
                   rlCarried>>
  BY <1>0 DEF rlRing, rlClient
<1>11. RlLinked(c)'
  BY <1>5, <1>10, <1>k DEF RlKept, RlLinked, RlBusy
<1>12. RlThread(c)'
  BY <1>5 DEF RlThread
<1>i. \A i \in 1..Len(rlSocket'[c]) :
          \/ i \in 1..Len(rlSocket[c]) /\ rlSocket'[c][i] = rlSocket[c][i]
             /\ rlSocket[c][i].kind # "shutdown"
          \/ i = Len(rlSocket'[c]) /\ rlSocket'[c][i].kind = "shutdown"
  <2>1. \A i \in 1..Len(rlSocket[c]) : rlSocket[c][i].kind # "shutdown"
    BY <1>k DEF RlKept, RlStream
  <2>2. \A i \in 1..(Len(rlSocket[c]) + 1) : i \in 1..Len(rlSocket[c]) \/ i = Len(rlSocket[c]) + 1
    BY <1>6
  <2> QED BY <1>4, <1>6, <2>1, <2>2
<1>13. RlStream(c)'
  <2>1. \A i \in 1..Len(rlSocket'[c]) :
          /\ rlSocket'[c][i].kind = "shutdown" => i = Len(rlSocket'[c])
          /\ rlSocket'[c][i].kind = "gap" => rlSocket'[c][i].seq + 1 < rlSocket'[c][i].from
    BY <1>i, <1>k DEF RlKept, RlStream
  <2>2. \A i, j \in 1..Len(rlSocket'[c]) :
          i < j /\ rlSocket'[c][j].kind # "shutdown" =>
              /\ RlAfter(rlSocket'[c][i]) =< RlBefore(rlSocket'[c][j])
              /\ j = i + 1 => RlAfter(rlSocket'[c][i]) = RlBefore(rlSocket'[c][j])
    <3> SUFFICES ASSUME NEW i \in 1..Len(rlSocket'[c]), NEW j \in 1..Len(rlSocket'[c]),
                        i < j, rlSocket'[c][j].kind # "shutdown"
                 PROVE  /\ RlAfter(rlSocket'[c][i]) =< RlBefore(rlSocket'[c][j])
                        /\ j = i + 1 => RlAfter(rlSocket'[c][i]) = RlBefore(rlSocket'[c][j])
      OBVIOUS
    <3>1. j \in 1..Len(rlSocket[c]) /\ rlSocket'[c][j] = rlSocket[c][j]
      BY <1>i
    <3>2. i \in 1..Len(rlSocket[c]) /\ rlSocket'[c][i] = rlSocket[c][i]
      BY <1>6, <3>1
    <3> QED BY <1>i, <1>k, <3>1, <3>2 DEF RlKept, RlStream
  <2>3. ~RlBusy(c)' /\ rlPc'[c] # "bye"
    BY <1>5 DEF RlBusy
  <2> QED BY <2>1, <2>2, <2>3 DEF RlStream, RlBefore, RlAfter
<1>14. RlAccount(c)'
  <2>1. CursorAccounted(c)'
    BY <1>10, <1>k DEF RlKept, RlAccount, CursorAccounted
  <2>2. RlExpects(c)' => RlExpects(c) /\ RlReached(c)' = RlReached(c)
    <3> SUFFICES ASSUME RlExpects(c)' PROVE RlExpects(c) /\ RlReached(c)' = RlReached(c)
      OBVIOUS
    <3>1. rlSocket'[c][1].kind # "shutdown"
      BY <1>5 DEF RlExpects, RlBusy
    <3>2. 1 \in 1..Len(rlSocket'[c])
      BY <1>6
    <3>3. 1 \in 1..Len(rlSocket[c]) /\ rlSocket'[c][1] = rlSocket[c][1]
      BY <1>i, <3>1, <3>2
    <3>4. rlSocket[c] # <<>> /\ rlSocket'[c] # <<>>
      BY <3>2, <3>3
    <3> QED BY <3>1, <3>3, <3>4 DEF RlExpects, RlReached, RlBefore
  <2> QED BY <1>10, <1>k, <2>1, <2>2 DEF RlKept, RlAccount
<1>15. RlToldRight(c)'
  <2>1. RlFront' = RlFront
    BY <1>10 DEF RlFront
  <2> QED BY <1>5, <1>10, <1>i, <1>k, <2>1 DEF RlKept, RlToldRight
<1> QED BY <1>0, <1>8, <1>9, <1>11, <1>12, <1>13, <1>14, <1>15, RlOneClient DEF RlKept

-----------------------------------------------------------------------------
\* A client connects: nothing is left in its socket, and the thread starts where the
\* client has an account of all, or anew.
LEMMA RlConnectStep ==
    ASSUME RlInv, NEW c \in RlClients, RlConnect(c)
    PROVE  RlInv'
<1> DEFINE same == rlCursor[c].session = rlSession
           from == IF same THEN rlCursor[c].seq ELSE 0
<1>0. /\ rlOwner \in {"up", "stopping"} /\ rlLock = RlNobody /\ ~rlAttached[c]
      /\ rlAttached' = [rlAttached EXCEPT ![c] = TRUE]
      /\ rlPc' = [rlPc EXCEPT ![c] = "loop"]
      /\ rlCursor' = [rlCursor EXCEPT ![c].session = rlSession]
      /\ rlSent' = [rlSent EXCEPT ![c] = from]
      /\ IF same THEN UNCHANGED <<rlGot, rlTold, rlCarried>>
         ELSE /\ rlGot' = [rlGot EXCEPT ![c] = {}] /\ rlTold' = [rlTold EXCEPT ![c] = {}]
              /\ rlCarried' = [rlCarried EXCEPT ![c] = rlCursor[c].seq > 0]
      /\ UNCHANGED <<rlRing, rlLock, rlBatch, rlSocket, rlSuspended, rlBreaks>>
  BY DEF RlConnect
<1>k. RlTyped /\ RlKept(c)
  BY DEF RlInv
<1>1. /\ rlCursor[c] \in [session : 0..RlMaxSessions, seq : 0..RlMaxSeq]
      /\ rlCursor[c].seq \in 0..RlMaxSeq /\ RlMaxSeq \in Nat /\ RlMaxSessions \in Nat
      /\ rlSession \in 0..RlMaxSessions /\ rlSession \in Nat /\ from \in 0..RlMaxSeq
      /\ from \in Nat /\ rlCursor[c].seq \in Nat
  <2>1. RlMaxSeq \in Nat /\ RlMaxSessions \in Nat
    BY RlAssumption
  <2>2. rlCursor[c] \in [session : 0..RlMaxSessions, seq : 0..RlMaxSeq]
    BY <1>k DEF RlTyped, RlClientsTyped
  <2>3. rlSession \in 0..RlMaxSessions /\ rlSession \in Nat
    BY <1>k, <2>1 DEF RlTyped, RlRingTyped
  <2> QED BY <2>1, <2>2, <2>3
<1>2. rlSocket[c] = <<>> /\ rlSocket'[c] = <<>> /\ 1..Len(rlSocket'[c]) = {}
  BY <1>0, <1>k DEF RlKept, RlLinked
<1>3. /\ rlPc'[c] = "loop" /\ rlAttached'[c] /\ rlSent'[c] = from
      /\ \A x \in RlClients \ {c} :
            rlPc'[x] = rlPc[x] /\ rlAttached'[x] = rlAttached[x] /\ rlSent'[x] = rlSent[x]
  BY <1>0, <1>k DEF RlTyped, RlThreadsTyped, RlClientsTyped
<1>4. /\ rlCursor'[c] \in [session : 0..RlMaxSessions, seq : 0..RlMaxSeq]
      /\ rlCursor'[c].session = rlSession /\ rlCursor'[c].seq = rlCursor[c].seq
      /\ rlCursor' \in [RlClients -> [session : 0..RlMaxSessions, seq : 0..RlMaxSeq]]
      /\ \A x \in RlClients \ {c} : rlCursor'[x] = rlCursor[x]
  <2>1. rlCursor \in [RlClients -> [session : 0..RlMaxSessions, seq : 0..RlMaxSeq]]
    BY <1>k DEF RlTyped, RlClientsTyped
  <2>2. rlCursor'[c] = [rlCursor[c] EXCEPT !.session = rlSession]
    BY <1>0, <2>1
  <2>3. /\ rlCursor'[c] \in [session : 0..RlMaxSessions, seq : 0..RlMaxSeq]
        /\ rlCursor'[c].session = rlSession /\ rlCursor'[c].seq = rlCursor[c].seq
    BY <1>1, <2>2
  <2>4. \A x \in RlClients \ {c} : rlCursor'[x] = rlCursor[x]
    BY <1>0, <2>1
  <2>5. rlCursor' = [rlCursor EXCEPT ![c] = rlCursor'[c]]
    BY <1>0, <2>1, <2>2
  <2>6. rlCursor' \in [RlClients -> [session : 0..RlMaxSessions, seq : 0..RlMaxSeq]]
    BY <2>1, <2>3, <2>5
  <2> QED BY <2>3, <2>4, <2>6
<1>5. /\ same => rlGot'[c] = rlGot[c] /\ rlTold'[c] = rlTold[c] /\ rlCarried'[c] = rlCarried[c]
      /\ ~same => rlGot'[c] = {} /\ rlTold'[c] = {} /\ (~rlCarried'[c] => rlCursor[c].seq = 0)
      /\ \A x \in RlClients \ {c} :
            rlGot'[x] = rlGot[x] /\ rlTold'[x] = rlTold[x] /\ rlCarried'[x] = rlCarried[x]
      /\ rlGot' \in [RlClients -> SUBSET RlSeq] /\ rlTold' \in [RlClients -> SUBSET RlSeq]
      /\ rlCarried' \in [RlClients -> BOOLEAN]
  <2>1. CASE same
    BY <1>0, <1>k, <2>1 DEF RlTyped, RlClientsTyped
  <2>2. CASE ~same
    <3>1. (rlCursor[c].seq > 0) \in BOOLEAN
      OBVIOUS
    <3>2. ~(rlCursor[c].seq > 0) => rlCursor[c].seq = 0
      BY <1>1
    <3>3. rlCarried'[c] = (rlCursor[c].seq > 0)
      BY <1>0, <1>k, <2>2, Zenon DEF RlTyped, RlClientsTyped
    <3>4. rlGot'[c] = {} /\ rlTold'[c] = {}
      BY <1>0, <1>k, <2>2 DEF RlTyped, RlClientsTyped
    <3>5. \A x \in RlClients \ {c} :
            rlGot'[x] = rlGot[x] /\ rlTold'[x] = rlTold[x] /\ rlCarried'[x] = rlCarried[x]
      BY <1>0, <1>k, <2>2 DEF RlTyped, RlClientsTyped
    <3>6. rlGot' \in [RlClients -> SUBSET RlSeq] /\ rlTold' \in [RlClients -> SUBSET RlSeq]
      BY <1>0, <1>k, <2>2 DEF RlTyped, RlClientsTyped
    <3>7. rlCarried' \in [RlClients -> BOOLEAN]
      <4>1. ASSUME NEW b \in BOOLEAN PROVE [rlCarried EXCEPT ![c] = b] \in [RlClients -> BOOLEAN]
        BY <1>k DEF RlTyped, RlClientsTyped
      <4>2. [rlCarried EXCEPT ![c] = rlCursor[c].seq > 0] \in [RlClients -> BOOLEAN]
        BY <3>1, <4>1, Zenon
      <4>3. rlCarried' = [rlCarried EXCEPT ![c] = rlCursor[c].seq > 0]
        BY <1>0, <2>2, Zenon
      <4> QED BY <4>2, <4>3, Zenon
    <3>8. ~rlCarried'[c] => rlCursor[c].seq = 0
      BY <3>2, <3>3
    <3> QED BY <2>2, <3>4, <3>5, <3>6, <3>7, <3>8
  <2> QED BY <2>1, <2>2
<1>6. /\ \A n \in rlGot'[c] : n =< from
      /\ ~rlCarried'[c] => 1..rlCursor[c].seq \subseteq rlGot'[c] \cup rlTold'[c]
      /\ rlGot'[c] \cap rlTold'[c] = {}
  <2>1. CASE same
    BY <1>5, <1>k, <2>1 DEF RlKept, RlAccount, CursorAccounted
  <2>2. CASE ~same
    <3>1. 1..0 = {}
      OBVIOUS
    <3> QED BY <1>5, <2>2, <3>1
  <2> QED BY <2>1, <2>2
<1>s. same \/ ~same
  OBVIOUS
<1>f. from = rlCursor[c].seq \/ (from = 0 /\ ~same)
  OBVIOUS
<1>7. RlTyped'
  <2>1. RlThreadsTyped'
    <3>1. rlPc' \in [RlClients -> {"none", "loop", "gap", "send", "bye", "closed"}]
      BY <1>0, <1>k DEF RlTyped, RlThreadsTyped
    <3>2. rlSent' \in [RlClients -> 0..RlMaxSeq]
      BY <1>0, <1>1, <1>k DEF RlTyped, RlThreadsTyped
    <3>3. \A x \in RlClients : rlLock' = x <=> rlPc'[x] = "gap"
      BY <1>0, <1>3, <1>k, RlAssumption DEF RlTyped, RlThreadsTyped
    <3> QED BY <1>0, <1>k, <3>1, <3>2, <3>3 DEF RlTyped, RlThreadsTyped
  <2>2. RlRingTyped' /\ RlSocketsTyped'
    BY <1>0, <1>k DEF RlTyped, RlRingTyped, RlSocketsTyped, rlRing
  <2>3. rlAttached' \in [RlClients -> BOOLEAN]
    BY <1>0, <1>k DEF RlTyped, RlClientsTyped
  <2>4. RlClientsTyped'
    BY <1>0, <1>4, <1>5, <1>k, <2>3 DEF RlTyped, RlClientsTyped
  <2> QED BY <2>1, <2>2, <2>4 DEF RlTyped
<1> HIDE DEF from
<1>8. \A x \in RlClients \ {c} : RlSame(x)
  BY <1>0, <1>3, <1>4, <1>5 DEF RlSame
<1>9. rlSession' = rlSession /\ rlLast' = rlLast /\ rlOwner' = rlOwner
  BY <1>0 DEF rlRing
<1>10. RlLinked(c)'
  BY <1>0, <1>1, <1>2, <1>3, <1>4, <1>9 DEF RlLinked
<1>11. RlThread(c)' /\ RlStream(c)'
  BY <1>2, <1>3 DEF RlThread, RlStream
<1>12. RlAccount(c)'
  <2>1. RlReached(c)' = from
    BY <1>2, <1>3 DEF RlReached
  <2>2. \A n \in rlGot'[c] : n =< rlCursor[c].seq
    BY <1>5, <1>6, <1>f
  <2>3. ~rlCarried'[c] => 1..from \subseteq rlGot'[c] \cup rlTold'[c]
    <3>1. 1..0 = {}
      OBVIOUS
    <3> QED BY <1>6, <1>f, <3>1
  <2> QED BY <1>4, <1>6, <2>1, <2>2, <2>3 DEF RlAccount, CursorAccounted
<1>13. RlToldRight(c)'
  <2>1. RlFront' = RlFront
    BY <1>9 DEF RlFront
  <2>2. \A t \in rlTold'[c] : t < RlFront
    <3>1. CASE same
      BY <1>5, <1>k, <3>1 DEF RlKept, RlToldRight
    <3>2. CASE ~same
      BY <1>5, <3>2
    <3> QED BY <3>1, <3>2
  <2> QED BY <1>2, <1>3, <2>1, <2>2 DEF RlToldRight
<1> QED BY <1>0, <1>7, <1>8, <1>10, <1>11, <1>12, <1>13, RlOneClient DEF RlKept

-----------------------------------------------------------------------------
\* An update is taken from a socket: the next one begins where it ends, and nothing
\* is expected after a Shutdown.
LEMMA RlTaken ==
    ASSUME RlInv, NEW c \in RlClients, rlSocket[c] # <<>>,
           rlSocket' = [rlSocket EXCEPT ![c] = Tail(@)], UNCHANGED rlThreads
    PROVE  /\ rlSocket[c][1] \in RlFrame /\ Head(rlSocket[c]) = rlSocket[c][1]
           /\ Len(rlSocket[c]) \in Nat /\ Len(rlSocket[c]) >= 1
           /\ Len(rlSocket'[c]) = Len(rlSocket[c]) - 1
           /\ \A i \in 1..Len(rlSocket'[c]) :
                 i + 1 \in 1..Len(rlSocket[c]) /\ rlSocket'[c][i] = rlSocket[c][i + 1]
           /\ \A x \in RlClients \ {c} : rlSocket'[x] = rlSocket[x]
           /\ RlSocketsTyped' /\ RlStream(c)'
           /\ IF rlSocket[c][1].kind = "shutdown" THEN ~RlExpects(c)'
              ELSE RlExpects(c)' => RlReached(c)' = RlAfter(rlSocket[c][1])
<1> DEFINE s == rlSocket[c]
           t == rlSocket'[c]
           n == Len(s)
<1>k. RlTyped /\ RlKept(c) /\ rlPc' = rlPc /\ rlSent' = rlSent
  BY DEF RlInv, rlThreads
<1>1. s \in Seq(RlFrame) /\ n \in Nat /\ RlPipe \in Nat /\ n =< RlPipe
  BY <1>k, RlAssumption DEF RlTyped, RlSocketsTyped
<1>2. n >= 1 /\ s[1] \in RlFrame /\ Head(s) = s[1]
  BY <1>1
<1>3. t = Tail(s) /\ \A x \in RlClients \ {c} : rlSocket'[x] = rlSocket[x]
  BY <1>k DEF RlTyped, RlSocketsTyped
<1>4. Tail(s) \in Seq(RlFrame) /\ Len(Tail(s)) = n - 1
      /\ \A i \in 1..(n - 1) : i + 1 \in 1..n /\ Tail(s)[i] = s[i + 1]
  BY <1>1, <1>2
<1>5. Len(t) = n - 1 /\ \A i \in 1..Len(t) : i + 1 \in 1..n /\ t[i] = s[i + 1]
  BY <1>3, <1>4
<1>6. RlSocketsTyped'
  <2>1. rlSocket' \in [RlClients -> Seq(RlFrame)]
    BY <1>3, <1>4, <1>k DEF RlTyped, RlSocketsTyped
  <2>2. Len(t) =< RlPipe
    BY <1>1, <1>5
  <2> QED BY <1>3, <1>k, <2>1, <2>2 DEF RlTyped, RlSocketsTyped
<1> HIDE DEF s, t, n
<1>st. /\ \A i \in 1..n :
          /\ s[i].kind = "shutdown" => i = n /\ ~RlBusy(c) /\ rlPc[c] # "bye"
          /\ s[i].kind = "gap" => s[i].seq + 1 < s[i].from
          /\ RlBusy(c) => RlAfter(s[i]) =< rlSent[c] /\ (i = n => RlAfter(s[i]) = rlSent[c])
       /\ \A i, j \in 1..n :
          i < j /\ s[j].kind # "shutdown" =>
              RlAfter(s[i]) =< RlBefore(s[j]) /\ (j = i + 1 => RlAfter(s[i]) = RlBefore(s[j]))
  BY <1>k DEF RlKept, RlStream, s, n
<1>7. RlStream(c)'
  <2>1. \A i \in 1..Len(t) : i = Len(t) <=> i + 1 = n
    BY <1>1, <1>5
  <2>2. \A i, j \in 1..Len(t) : (i < j => i + 1 < j + 1) /\ (j = i + 1 => j + 1 = (i + 1) + 1)
    BY <1>1, <1>5
  <2>3. \A i \in 1..Len(t) :
          /\ t[i].kind = "shutdown" => i = Len(t) /\ ~RlBusy(c) /\ rlPc[c] # "bye"
          /\ t[i].kind = "gap" => t[i].seq + 1 < t[i].from
          /\ RlBusy(c) => RlAfter(t[i]) =< rlSent[c] /\ (i = Len(t) => RlAfter(t[i]) = rlSent[c])
    BY <1>5, <1>st, <2>1
  <2>4. \A i, j \in 1..Len(t) :
          i < j /\ t[j].kind # "shutdown" =>
              RlAfter(t[i]) =< RlBefore(t[j]) /\ (j = i + 1 => RlAfter(t[i]) = RlBefore(t[j]))
    BY <1>5, <1>st, <2>2
  <2> QED BY <1>k, <2>3, <2>4 DEF RlStream, RlBusy, RlAfter, RlBefore, t
<1>e. t = <<>> <=> n = 1
  <2>1. t \in Seq(RlFrame)
    BY <1>3, <1>4
  <2>2. t = <<>> <=> Len(t) = 0
    BY <2>1
  <2> QED BY <1>1, <1>2, <1>5, <2>2
<1>8. ASSUME s[1].kind = "shutdown" PROVE ~RlExpects(c)'
  <2>1. n = 1 /\ ~RlBusy(c)
    BY <1>1, <1>2, <1>8, <1>st
  <2> QED BY <1>e, <1>k, <2>1 DEF RlExpects, RlBusy, t
<1>9. ASSUME RlExpects(c)' PROVE RlReached(c)' = RlAfter(s[1])
  <2>1. CASE n = 1
    <3>1. RlBusy(c) /\ RlReached(c)' = rlSent[c]
      BY <1>9, <1>e, <1>k, <2>1 DEF RlExpects, RlBusy, RlReached, t
    <3> QED BY <1>2, <1>st, <2>1, <3>1
  <2>2. CASE n # 1
    <3>1. 2 \in 1..n /\ 1 \in 1..n /\ 1 < 2 /\ 2 = 1 + 1 /\ t[1] = s[2] /\ t # <<>>
      BY <1>1, <1>2, <1>5, <1>e, <2>2
    <3>2. s[2].kind # "shutdown"
      BY <1>9, <1>k, <1>st, <3>1 DEF RlExpects, RlBusy, t
    <3>3. RlAfter(s[1]) = RlBefore(s[2])
      BY <1>st, <3>1, <3>2
    <3>4. RlReached(c)' = RlBefore(s[2])
      BY <3>1 DEF RlReached, RlBefore, t
    <3> QED BY <3>3, <3>4
  <2> QED BY <2>1, <2>2
<1> QED BY <1>1, <1>2, <1>3, <1>5, <1>6, <1>7, <1>8, <1>9 DEF s, t, n

\* An update that is read goes on where the client's account ends.
LEMMA RlNext ==
    ASSUME RlInv, NEW c \in RlClients, rlSocket[c] # <<>>,
           rlSocket[c][1].kind # "shutdown"
    PROVE  /\ \A n \in rlGot[c] : n =< RlBefore(rlSocket[c][1])
           /\ ~rlCarried[c] =>
                 1..RlBefore(rlSocket[c][1]) \subseteq rlGot[c] \cup rlTold[c]
BY DEF RlInv, RlKept, RlAccount, RlExpects, RlReached

\* What a client has after a read.
LEMMA RlReadResult ==
    ASSUME RlInv, NEW c \in RlClients, RlRead(c)
    PROVE  LET h == rlSocket[c][1] IN
           /\ \/ /\ h.kind = "frame"
                 /\ rlGot' = [rlGot EXCEPT ![c] = rlGot[c] \cup {h.seq}]
                 /\ rlCursor' = [rlCursor EXCEPT ![c].seq = Max({rlCursor[c].seq, h.seq})]
                 /\ UNCHANGED <<rlTold, rlSuspended>>
              \/ /\ h.kind = "gap"
                 /\ rlTold' = [rlTold EXCEPT ![c] = rlTold[c] \cup ((h.seq + 1)..(h.from - 1))]
                 /\ UNCHANGED <<rlGot, rlCursor, rlSuspended>>
              \/ /\ h.kind = "shutdown"
                 /\ rlSuspended' = [rlSuspended EXCEPT ![c] = TRUE]
                 /\ UNCHANGED <<rlGot, rlTold, rlCursor>>
           /\ rlSocket[c] # <<>> /\ rlSocket' = [rlSocket EXCEPT ![c] = Tail(@)]
           /\ UNCHANGED <<rlRing, rlThreads, rlAttached, rlCarried, rlBreaks>>
<1> DEFINE h == rlSocket[c][1]
<1>1. rlSocket[c] # <<>> /\ rlSocket' = [rlSocket EXCEPT ![c] = Tail(@)]
      /\ UNCHANGED <<rlRing, rlThreads, rlAttached, rlCarried, rlBreaks>>
  BY DEF RlRead
<1>2. h \in RlFrame /\ Head(rlSocket[c]) = h
  BY <1>1, RlTaken
<1>3. h.kind \in {"frame", "gap", "shutdown"}
  BY <1>2, RlFrames
<1> HIDE DEF h
<1>4. CASE h.kind = "frame"
  BY <1>1, <1>2, <1>4 DEF RlRead, h
<1>5. CASE h.kind = "gap"
  BY <1>1, <1>2, <1>5 DEF RlRead, h
<1>6. CASE h.kind = "shutdown"
  BY <1>1, <1>2, <1>6 DEF RlRead, h
<1> QED BY <1>3, <1>4, <1>5, <1>6 DEF h

\* A read keeps the types.
LEMMA RlReadTyped ==
    ASSUME RlInv, NEW c \in RlClients, RlRead(c)
    PROVE  /\ RlTyped'
           /\ \A x \in RlClients \ {c} : RlSame(x)
<1> DEFINE h == rlSocket[c][1]
<1>0. /\ rlSocket[c] # <<>> /\ rlSocket' = [rlSocket EXCEPT ![c] = Tail(@)]
      /\ UNCHANGED <<rlRing, rlThreads, rlAttached, rlCarried, rlBreaks>>
  BY RlReadResult
<1>1. h \in RlFrame /\ RlSocketsTyped' /\ \A x \in RlClients \ {c} : rlSocket'[x] = rlSocket[x]
  BY <1>0, RlTaken
<1>k. RlTyped /\ RlClientsTyped /\ RlMaxSeq \in Nat
  BY RlAssumption DEF RlInv, RlTyped
<1>f. /\ h.seq \in Nat /\ h.from \in Nat
      /\ h.kind = "frame" => h.seq \in RlSeq /\ h.seq \in 0..RlMaxSeq
      /\ h.kind = "gap" => h.from \in RlSeq
  <2>1. RlSeq \subseteq 0..RlMaxSeq
    BY <1>k DEF RlSeq
  <2> QED BY <1>1, <2>1, RlFrames
<1> HIDE DEF h
<1>2. /\ rlGot' \in [RlClients -> SUBSET RlSeq] /\ rlTold' \in [RlClients -> SUBSET RlSeq]
      /\ rlCursor' \in [RlClients -> [session : 0..RlMaxSessions, seq : 0..RlMaxSeq]]
      /\ rlSuspended' \in [RlClients -> BOOLEAN]
      /\ \A x \in RlClients \ {c} :
            rlGot'[x] = rlGot[x] /\ rlTold'[x] = rlTold[x] /\ rlCursor'[x] = rlCursor[x]
  <2>1. CASE /\ h.kind = "frame"
             /\ rlGot' = [rlGot EXCEPT ![c] = rlGot[c] \cup {h.seq}]
             /\ rlCursor' = [rlCursor EXCEPT ![c].seq = Max({rlCursor[c].seq, h.seq})]
             /\ UNCHANGED <<rlTold, rlSuspended>>
    <3>1. rlGot[c] \cup {h.seq} \in SUBSET RlSeq
      BY <1>f, <1>k, <2>1 DEF RlClientsTyped
    <3>2. PICK m \in 0..RlMaxSeq : m = Max({rlCursor[c].seq, h.seq})
      <4>1. rlCursor[c].seq \in 0..RlMaxSeq
        BY <1>k DEF RlClientsTyped
      <4>2. Max({rlCursor[c].seq, h.seq}) \in {rlCursor[c].seq, h.seq}
        BY <1>f, <4>1, RlLarger
      <4>3. h.seq \in 0..RlMaxSeq
        BY <1>f, <2>1
      <4>4. Max({rlCursor[c].seq, h.seq}) \in 0..RlMaxSeq
        BY <4>1, <4>2, <4>3
      <4> QED BY <4>4
    <3>3. rlCursor' = [rlCursor EXCEPT ![c].seq = m]
      BY <2>1, <3>2
    <3>4. rlCursor' \in [RlClients -> [session : 0..RlMaxSessions, seq : 0..RlMaxSeq]]
      BY <1>k, <3>3 DEF RlClientsTyped
    <3>5. rlGot' \in [RlClients -> SUBSET RlSeq]
      BY <1>k, <2>1, <3>1 DEF RlClientsTyped
    <3>6. \A x \in RlClients \ {c} : rlGot'[x] = rlGot[x] /\ rlCursor'[x] = rlCursor[x]
      BY <1>k, <2>1, <3>3 DEF RlClientsTyped
    <3> QED BY <1>k, <2>1, <3>4, <3>5, <3>6 DEF RlClientsTyped
  <2>2. CASE /\ h.kind = "gap"
             /\ rlTold' = [rlTold EXCEPT ![c] = rlTold[c] \cup ((h.seq + 1)..(h.from - 1))]
             /\ UNCHANGED <<rlGot, rlCursor, rlSuspended>>
    <3>1. (h.seq + 1)..(h.from - 1) \subseteq RlSeq
      BY <1>f, <1>k, <2>2 DEF RlSeq
    <3>2. rlTold[c] \cup ((h.seq + 1)..(h.from - 1)) \in SUBSET RlSeq
      BY <1>k, <3>1 DEF RlClientsTyped
    <3> QED BY <1>k, <2>2, <3>2 DEF RlClientsTyped
  <2>3. CASE /\ h.kind = "shutdown"
             /\ rlSuspended' = [rlSuspended EXCEPT ![c] = TRUE]
             /\ UNCHANGED <<rlGot, rlTold, rlCursor>>
    BY <1>k, <2>3 DEF RlClientsTyped
  <2> QED BY <2>1, <2>2, <2>3, RlReadResult DEF h
<1>3. RlClientsTyped'
  BY <1>0, <1>2, <1>k DEF RlClientsTyped
<1>4. RlRingTyped' /\ RlThreadsTyped'
  BY <1>0, <1>k DEF RlTyped, RlRingTyped, RlThreadsTyped, rlRing, rlThreads
<1>5. \A x \in RlClients \ {c} : RlSame(x)
  BY <1>0, <1>1, <1>2 DEF RlSame, rlThreads
<1> QED BY <1>1, <1>3, <1>4, <1>5 DEF RlTyped

\* A read keeps the account.
LEMMA RlReadStep ==
    ASSUME RlInv, NEW c \in RlClients, RlRead(c)
    PROVE  RlInv'
<1> DEFINE h == rlSocket[c][1]
           n == Len(rlSocket[c])
<1>0. /\ rlSocket[c] # <<>> /\ rlSocket' = [rlSocket EXCEPT ![c] = Tail(@)]
      /\ UNCHANGED <<rlRing, rlThreads, rlAttached, rlCarried, rlBreaks>>
  BY RlReadResult
<1>k. RlTyped /\ RlKept(c) /\ rlPc' = rlPc /\ rlSent' = rlSent /\ rlBatch' = rlBatch
  BY <1>0 DEF RlInv, rlThreads
<1>1. /\ h \in RlFrame /\ n \in Nat /\ n >= 1 /\ Len(rlSocket'[c]) = n - 1
      /\ \A i \in 1..Len(rlSocket'[c]) :
            i + 1 \in 1..n /\ rlSocket'[c][i] = rlSocket[c][i + 1]
      /\ RlStream(c)'
      /\ IF h.kind = "shutdown" THEN ~RlExpects(c)'
         ELSE RlExpects(c)' => RlReached(c)' = RlAfter(h)
  BY <1>0, RlTaken
<1>f. /\ h.seq \in Nat /\ h.from \in Nat /\ h.kind \in {"frame", "gap", "shutdown"}
      /\ h.kind = "frame" => h.seq >= 1
      /\ RlBefore(h) \in Nat /\ RlAfter(h) \in Nat
      /\ h.kind = "gap" => h.seq + 1 < h.from /\ RlBefore(h) = h.seq /\ RlAfter(h) = h.from - 1
      /\ h.kind = "frame" => RlBefore(h) = h.seq - 1 /\ RlAfter(h) = h.seq
  <2>1. h.kind = "gap" => h.seq + 1 < h.from
    BY <1>1, <1>k DEF RlKept, RlStream
  <2> QED BY <1>1, <2>1, RlFrames DEF RlBefore, RlAfter
<1>n. /\ rlCursor[c].seq \in Nat /\ rlGot[c] \subseteq Nat /\ rlTold[c] \subseteq Nat
      /\ rlSent[c] \in Nat /\ RlFront \in Nat
  BY <1>k, RlNumbers
<1>a. h.kind # "shutdown" =>
          /\ \A g \in rlGot[c] : g =< RlBefore(h)
          /\ ~rlCarried[c] => 1..RlBefore(h) \subseteq rlGot[c] \cup rlTold[c]
  BY <1>0, RlNext
<1>old. /\ \A g \in rlGot[c] : g =< rlCursor[c].seq
        /\ ~rlCarried[c] => 1..rlCursor[c].seq \subseteq rlGot[c] \cup rlTold[c]
        /\ rlGot[c] \cap rlTold[c] = {}
  BY <1>k DEF RlKept, RlAccount, CursorAccounted
<1>told. /\ rlCursor[c].session = rlSession => \A t \in rlTold[c] : t < RlFront
         /\ rlPc[c] = "send" => \A t \in rlTold[c] : t =< rlSent[c]
         /\ \A i \in 1..n :
               /\ rlSocket[c][i].kind = "gap" /\ rlCursor[c].session = rlSession
                     => rlSocket[c][i].from =< RlFront
               /\ rlSocket[c][i].kind = "frame" => \A t \in rlTold[c] : t < rlSocket[c][i].seq
  BY <1>k DEF RlKept, RlToldRight
<1>s. /\ rlSession' = rlSession /\ rlLast' = rlLast /\ rlOwner' = rlOwner /\ RlFront' = RlFront
      /\ rlAttached' = rlAttached /\ rlCarried' = rlCarried
  BY <1>0 DEF rlRing, RlFront
<1>j. ASSUME NEW i \in 1..n, i > 1, rlSocket[c][i].kind = "frame"
      PROVE  RlAfter(h) < rlSocket[c][i].seq
  <2>1. RlAfter(h) =< RlBefore(rlSocket[c][i])
    BY <1>1, <1>j, <1>k DEF RlKept, RlStream
  <2>2. rlSocket[c][i].seq \in Nat /\ RlBefore(rlSocket[c][i]) = rlSocket[c][i].seq - 1
    BY <1>j, <1>k, RlSockets, RlFrames DEF RlBefore
  <2> QED BY <1>f, <2>1, <2>2
<1>types. RlTyped' /\ \A x \in RlClients \ {c} : RlSame(x)
  BY RlReadTyped
<1>res. \/ /\ h.kind = "frame"
           /\ rlGot' = [rlGot EXCEPT ![c] = rlGot[c] \cup {h.seq}]
           /\ rlCursor' = [rlCursor EXCEPT ![c].seq = Max({rlCursor[c].seq, h.seq})]
           /\ UNCHANGED <<rlTold, rlSuspended>>
        \/ /\ h.kind = "gap"
           /\ rlTold' = [rlTold EXCEPT ![c] = rlTold[c] \cup ((h.seq + 1)..(h.from - 1))]
           /\ UNCHANGED <<rlGot, rlCursor, rlSuspended>>
        \/ /\ h.kind = "shutdown"
           /\ rlSuspended' = [rlSuspended EXCEPT ![c] = TRUE]
           /\ UNCHANGED <<rlGot, rlTold, rlCursor>>
  BY RlReadResult
<1> HIDE DEF h, n
<1>2. /\ rlCursor'[c].session = rlCursor[c].session
      /\ \/ /\ h.kind = "frame" /\ rlGot'[c] = rlGot[c] \cup {h.seq} /\ rlTold'[c] = rlTold[c]
            /\ rlCursor'[c].seq = IF rlCursor[c].seq >= h.seq THEN rlCursor[c].seq ELSE h.seq
         \/ /\ h.kind = "gap" /\ rlGot'[c] = rlGot[c] /\ rlCursor'[c].seq = rlCursor[c].seq
            /\ rlTold'[c] = rlTold[c] \cup ((h.seq + 1)..(h.from - 1))
         \/ /\ h.kind = "shutdown" /\ rlGot'[c] = rlGot[c] /\ rlTold'[c] = rlTold[c]
            /\ rlCursor'[c].seq = rlCursor[c].seq
  <2>1. Max({rlCursor[c].seq, h.seq})
            = IF rlCursor[c].seq >= h.seq THEN rlCursor[c].seq ELSE h.seq
    BY <1>f, <1>n, RlLarger
  <2>2. PICK m : m = Max({rlCursor[c].seq, h.seq})
    OBVIOUS
  <2>3. rlCursor[c] \in [session : 0..RlMaxSessions, seq : 0..RlMaxSeq]
    BY <1>k DEF RlTyped, RlClientsTyped
  <2>4. CASE /\ h.kind = "frame"
             /\ rlGot' = [rlGot EXCEPT ![c] = rlGot[c] \cup {h.seq}]
             /\ rlCursor' = [rlCursor EXCEPT ![c].seq = m]
             /\ UNCHANGED <<rlTold, rlSuspended>>
    <3>1. rlCursor'[c] = [rlCursor[c] EXCEPT !.seq = m]
      BY <1>k, <2>4 DEF RlTyped, RlClientsTyped
    <3>2. rlCursor'[c].seq = m /\ rlCursor'[c].session = rlCursor[c].session
      BY <2>3, <3>1
    <3> QED BY <1>k, <2>1, <2>2, <2>4, <3>2 DEF RlTyped, RlClientsTyped
  <2>5. CASE /\ h.kind = "gap"
             /\ rlTold' = [rlTold EXCEPT ![c] = rlTold[c] \cup ((h.seq + 1)..(h.from - 1))]
             /\ UNCHANGED <<rlGot, rlCursor, rlSuspended>>
    BY <1>k, <2>5 DEF RlTyped, RlClientsTyped
  <2>6. CASE h.kind = "shutdown" /\ UNCHANGED <<rlGot, rlTold, rlCursor>>
    BY <2>6
  <2> QED BY <1>res, <2>2, <2>4, <2>5, <2>6
<1>3. h.kind # "shutdown" =>
          /\ \A g \in rlGot'[c] : g =< RlAfter(h)
          /\ ~rlCarried[c] => 1..RlAfter(h) \subseteq rlGot'[c] \cup rlTold'[c]
  <2>1. CASE h.kind = "frame"
    <3>1. \A x \in 1..RlAfter(h) : x \in 1..RlBefore(h) \/ x = h.seq
      BY <1>f, <2>1
    <3>2. RlBefore(h) =< RlAfter(h) /\ h.seq =< RlAfter(h)
      BY <1>f, <2>1
    <3>3. \A g \in rlGot[c] : g =< RlAfter(h)
      BY <1>a, <1>f, <1>n, <2>1, <3>2
    <3> QED BY <1>2, <1>a, <2>1, <3>1, <3>2, <3>3
  <2>2. CASE h.kind = "gap"
    <3>1. \A x \in 1..RlAfter(h) : x \in 1..RlBefore(h) \/ x \in (h.seq + 1)..(h.from - 1)
      BY <1>f, <2>2
    <3>2. \A g \in rlGot[c] : g =< RlAfter(h)
      BY <1>a, <1>f, <1>n, <2>2
    <3> QED BY <1>2, <1>a, <2>2, <3>1, <3>2
  <2> QED BY <1>2, <2>1, <2>2
<1>4. CursorAccounted(c)' /\ \A g \in rlGot'[c] : g =< rlCursor'[c].seq
  <2>1. CASE h.kind = "frame"
    <3>1. \A g \in rlGot'[c] : g =< rlCursor'[c].seq
      BY <1>2, <1>f, <1>n, <1>old, <2>1
    <3>2. rlCursor'[c].seq = rlCursor[c].seq \/ rlCursor'[c].seq = RlAfter(h)
      BY <1>2, <1>f, <2>1
    <3>3. ~rlCarried'[c] => 1..rlCursor'[c].seq \subseteq rlGot'[c] \cup rlTold'[c]
      BY <1>2, <1>3, <1>old, <1>s, <2>1, <3>2
    <3>4. h.seq \notin rlTold[c]
      <4>1. \A t \in rlTold[c] : t < h.seq
        BY <1>1, <1>told, <2>1 DEF h
      <4> QED BY <1>f, <4>1
    <3>5. rlGot'[c] \cap rlTold'[c] = {}
      BY <1>2, <1>old, <2>1, <3>4
    <3> QED BY <3>1, <3>3, <3>5 DEF CursorAccounted
  <2>2. CASE h.kind = "gap"
    <3>1. ~rlCarried'[c] => 1..rlCursor'[c].seq \subseteq rlGot'[c] \cup rlTold'[c]
      BY <1>2, <1>old, <1>s, <2>2
    <3>2. \A g \in rlGot[c] : g \notin (h.seq + 1)..(h.from - 1)
      BY <1>a, <1>f, <1>n, <2>2
    <3>3. rlGot'[c] \cap rlTold'[c] = {}
      BY <1>2, <1>old, <2>2, <3>2
    <3> QED BY <1>2, <1>old, <2>2, <3>1, <3>3 DEF CursorAccounted
  <2>3. CASE h.kind = "shutdown"
    BY <1>2, <1>old, <1>s, <2>3 DEF CursorAccounted
  <2> QED BY <1>2, <2>1, <2>2, <2>3
<1>5. RlAccount(c)'
  BY <1>1, <1>3, <1>4, <1>s DEF RlAccount
<1>6. RlLinked(c)'
  BY <1>0, <1>2, <1>k, <1>s DEF RlKept, RlLinked, RlBusy
<1>7. RlThread(c)'
  BY <1>k, <1>s DEF RlKept, RlThread, RlMissed
<1>8. \A t \in rlTold'[c] : t \in rlTold[c] \/ (h.kind = "gap" /\ t \in (h.seq + 1)..(h.from - 1))
  BY <1>2
<1>9. RlToldRight(c)'
  <2>1. ASSUME rlCursor[c].session = rlSession, NEW t \in rlTold'[c] PROVE t < RlFront
    <3>1. CASE t \in rlTold[c]
      BY <1>told, <2>1, <3>1
    <3>2. CASE h.kind = "gap" /\ t \in (h.seq + 1)..(h.from - 1)
      <4>1. h.from =< RlFront
        BY <1>1, <1>told, <2>1, <3>2 DEF h
      <4> QED BY <1>f, <1>n, <3>2, <4>1
    <3> QED BY <1>8, <3>1, <3>2
  <2>2. ASSUME rlPc[c] = "send", NEW t \in rlTold'[c] PROVE t =< rlSent[c]
    <3>1. CASE t \in rlTold[c]
      BY <1>told, <2>2, <3>1
    <3>2. CASE h.kind = "gap" /\ t \in (h.seq + 1)..(h.from - 1)
      <4>1. RlAfter(h) =< rlSent[c]
        BY <1>1, <1>k, <2>2 DEF RlKept, RlStream, RlBusy, h, n
      <4> QED BY <1>f, <1>n, <3>2, <4>1
    <3> QED BY <1>8, <3>1, <3>2
  <2>3. ASSUME NEW i \in 1..Len(rlSocket'[c])
        PROVE  /\ rlSocket'[c][i].kind = "gap" /\ rlCursor[c].session = rlSession
                     => rlSocket'[c][i].from =< RlFront
               /\ rlSocket'[c][i].kind = "frame" =>
                     \A t \in rlTold'[c] : t < rlSocket'[c][i].seq
    <3>1. i + 1 \in 1..n /\ i + 1 > 1 /\ rlSocket'[c][i] = rlSocket[c][i + 1]
      BY <1>1
    <3>2. ASSUME rlSocket[c][i + 1].kind = "frame", NEW t \in rlTold'[c]
          PROVE  t < rlSocket[c][i + 1].seq
      <4>1. CASE t \in rlTold[c]
        BY <1>told, <3>1, <3>2, <4>1
      <4>2. CASE h.kind = "gap" /\ t \in (h.seq + 1)..(h.from - 1)
        <5>1. RlAfter(h) < rlSocket[c][i + 1].seq /\ rlSocket[c][i + 1].seq \in Nat
          BY <1>j, <1>k, <3>1, <3>2, RlSockets, RlFrames DEF n
        <5> QED BY <1>f, <4>2, <5>1
      <4> QED BY <1>8, <4>1, <4>2
    <3> QED BY <1>told, <3>1, <3>2
  <2> QED BY <1>2, <1>k, <1>s, <2>1, <2>2, <2>3 DEF RlToldRight
<1> QED BY <1>0, <1>1, <1>5, <1>6, <1>7, <1>9, <1>types, RlOneClient DEF RlKept

-----------------------------------------------------------------------------
\* The end of the file, or of the connection: nothing is left in the socket.
LEMMA RlGoneStep ==
    ASSUME RlInv, NEW c \in RlClients, RlEof(c) \/ RlBreak(c)
    PROVE  RlInv'
<1>k. RlTyped /\ RlKept(c)
  BY DEF RlInv
<1>0. /\ rlAttached' = [rlAttached EXCEPT ![c] = FALSE]
      /\ UNCHANGED <<rlRing, rlSent, rlBatch, rlCursor, rlGot, rlTold, rlCarried, rlSuspended>>
  BY DEF RlEof, RlBreak, rlThreads
<1>1. /\ rlSocket'[c] = <<>> /\ rlPc'[c] \in {"none", "closed"} /\ rlBreaks' \in 0..RlMaxBreaks
      /\ rlPc'[c] # "none" => rlPc'[c] = rlPc[c]
      /\ \A x \in RlClients \ {c} : rlPc'[x] = rlPc[x] /\ rlSocket'[x] = rlSocket[x]
      /\ RlThreadsTyped' /\ RlSocketsTyped'
  <2>1. CASE RlEof(c)
    BY <1>k, <2>1 DEF RlEof, RlTyped, RlRingTyped, RlThreadsTyped, RlSocketsTyped, rlThreads
  <2>2. CASE RlBreak(c)
    <3>1. /\ rlSocket' = [rlSocket EXCEPT ![c] = <<>>] /\ rlPc' = [rlPc EXCEPT ![c] = "none"]
          /\ rlLock' = (IF rlLock = c THEN RlNobody ELSE rlLock)
          /\ rlBreaks < RlMaxBreaks /\ rlBreaks' = rlBreaks + 1
      BY <2>2 DEF RlBreak
    <3>2. RlSocketsTyped' /\ rlSocket'[c] = <<>>
          /\ \A x \in RlClients \ {c} : rlSocket'[x] = rlSocket[x]
      <4>1. <<>> \in Seq(RlFrame) /\ Len(<<>>) = 0 /\ RlPipe \in Nat
        BY RlAssumption
      <4>2. /\ rlSocket'[c] = <<>> /\ \A x \in RlClients \ {c} : rlSocket'[x] = rlSocket[x]
            /\ rlSocket' \in [RlClients -> Seq(RlFrame)]
        BY <1>k, <3>1, <4>1 DEF RlTyped, RlSocketsTyped
      <4>3. Len(rlSocket'[c]) =< RlPipe
        BY <4>1, <4>2
      <4> QED BY <1>k, <4>2, <4>3 DEF RlTyped, RlSocketsTyped
    <3>3. rlBreaks' \in 0..RlMaxBreaks
      BY <1>k, <3>1, RlAssumption DEF RlTyped, RlRingTyped
    <3>4. /\ rlPc'[c] = "none" /\ \A x \in RlClients \ {c} : rlPc'[x] = rlPc[x]
          /\ rlPc' \in [RlClients -> {"none", "loop", "gap", "send", "bye", "closed"}]
      BY <1>k, <3>1 DEF RlTyped, RlThreadsTyped
    <3>5. rlLock' \in RlClients \cup {RlNobody}
          /\ \A x \in RlClients : rlLock' = x <=> rlPc'[x] = "gap"
      BY <1>k, <3>1, <3>4, RlAssumption DEF RlTyped, RlThreadsTyped
    <3>6. RlThreadsTyped'
      BY <1>0, <1>k, <3>4, <3>5 DEF RlTyped, RlThreadsTyped
    <3> QED BY <3>2, <3>3, <3>4, <3>6
  <2> QED BY <2>1, <2>2
<1>2. /\ ~rlAttached'[c] /\ \A x \in RlClients \ {c} : rlAttached'[x] = rlAttached[x]
      /\ RlClientsTyped'
  BY <1>0, <1>k DEF RlTyped, RlClientsTyped
<1>3. RlTyped'
  BY <1>0, <1>1, <1>2, <1>k DEF RlTyped, RlRingTyped, rlRing
<1>4. \A x \in RlClients \ {c} : RlSame(x)
  BY <1>0, <1>1, <1>2 DEF RlSame
<1>5. 1..Len(rlSocket'[c]) = {}
  BY <1>1
<1>6. RlLinked(c)' /\ RlThread(c)' /\ RlStream(c)'
  BY <1>0, <1>1, <1>2, <1>5, <1>k
     DEF RlKept, RlLinked, RlBusy, RlThread, RlStream, rlRing
<1>7. RlAccount(c)'
  BY <1>0, <1>1, <1>k DEF RlKept, RlAccount, RlExpects, RlBusy, CursorAccounted
<1>8. RlToldRight(c)'
  BY <1>0, <1>1, <1>5, <1>k DEF RlKept, RlToldRight, RlFront, rlRing
<1> QED BY <1>0, <1>3, <1>4, <1>6, <1>7, <1>8, RlOneClient DEF RlKept

\* Whether a client reads is its own affair.
LEMMA RlSuspendStep ==
    ASSUME RlInv,
           UNCHANGED <<rlRing, rlThreads, rlSocket, rlAttached, rlCursor, rlGot, rlTold, rlCarried,
                       rlBreaks>>,
           rlSuspended' \in [RlClients -> BOOLEAN]
    PROVE  RlInv'
<1>1. RlTyped'
  <2>1. RlRingTyped' /\ RlThreadsTyped'
    BY DEF RlInv, RlTyped, RlRingTyped, RlThreadsTyped, rlRing, rlThreads
  <2>2. RlSocketsTyped' /\ RlClientsTyped'
    BY DEF RlInv, RlTyped, RlSocketsTyped, RlClientsTyped
  <2> QED BY <2>1, <2>2 DEF RlTyped
<1>2. ASSUME NEW x \in RlClients PROVE RlKept(x)'
  <2>1. RlSame(x)
    BY DEF RlSame, rlThreads
  <2>2. rlLast \in Nat /\ rlLast' = rlLast /\ rlSession' = rlSession /\ rlOwner' = rlOwner
    BY RlNumbers DEF RlInv, rlRing
  <2>3. rlLast' \in Nat /\ rlLast' >= rlLast
    BY <2>2
  <2> QED BY <2>1, <2>2, <2>3, RlUntouched
<1> QED BY <1>1, <1>2 DEF RlInv

\* Every step keeps the account.
LEMMA RlNextKeeps == RlInv /\ [CaptureRelayNext]_rlVars => RlInv'
<1> SUFFICES ASSUME RlInv, [CaptureRelayNext]_rlVars PROVE RlInv'
  OBVIOUS
<1>t. rlSuspended \in [RlClients -> BOOLEAN]
  BY DEF RlInv, RlTyped, RlClientsTyped
<1>1. CASE RlPush \/ RlStop \/ RlStopped
  BY <1>1, RlOwnerStep
<1>2. CASE RlExit
  BY <1>2, RlExitStep
<1>3. CASE RlStart
  BY <1>3, RlStartStep
<1>4. ASSUME NEW c \in RlClients, RlThreadNext(c) PROVE RlInv'
  BY <1>4, RlLookStep, RlWriteGapStep, RlSendStep, RlSayShutdownStep DEF RlThreadNext
<1>5. ASSUME NEW c \in RlClients, RlConnect(c) PROVE RlInv'
  BY <1>5, RlConnectStep
<1>6. ASSUME NEW c \in RlClients, RlRead(c) PROVE RlInv'
  BY <1>6, RlReadStep
<1>7. ASSUME NEW c \in RlClients, RlEof(c) \/ RlBreak(c) PROVE RlInv'
  BY <1>7, RlGoneStep
<1>8. ASSUME NEW c \in RlClients, RlSuspend(c) PROVE RlInv'
  <2>1. rlSuspended' \in [RlClients -> BOOLEAN]
    BY <1>8, <1>t DEF RlSuspend
  <2> QED BY <1>8, <2>1, RlSuspendStep DEF RlSuspend
<1>9. CASE UNCHANGED rlVars
  BY <1>9, <1>t, RlSuspendStep DEF rlVars, rlClient
<1> QED BY <1>1, <1>2, <1>3, <1>4, <1>5, <1>6, <1>7, <1>8, <1>9 DEF CaptureRelayNext

\* All of it holds always.
LEMMA RlInvariant == CaptureRelaySpec => []RlInv
BY RlInitOk, RlNextKeeps, PTL DEF CaptureRelaySpec

\* Only a read takes something from the socket of a client that stays attached.
LEMMA RlOnlyRead ==
    ASSUME RlInv, [CaptureRelayNext]_rlVars, NEW c \in RlClients,
           Len(rlSocket'[c]) < Len(rlSocket[c]), rlAttached'[c]
    PROVE  RlRead(c)
<1>1. Len(rlSocket[c]) \in Nat /\ rlSocket'[c] # rlSocket[c]
  BY RlSockets DEF RlInv
<1>2. PICK d \in RlClients :
          \/ RlWriteGap(d) \/ RlSend(d) \/ RlSayShutdown(d) \/ RlRead(d) \/ RlBreak(d)
  <2>1. rlSocket' # rlSocket
    BY <1>1
  <2> QED BY <2>1 DEF CaptureRelayNext, RlThreadNext, RlPush, RlStop, RlStopped, RlExit,
                      RlStart, RlLook, RlConnect, RlEof, RlSuspend, rlVars
<1>3. rlSocket \in [RlClients -> Seq(RlFrame)] /\ rlAttached \in [RlClients -> BOOLEAN]
      /\ rlSocket[c] \in Seq(RlFrame)
  BY DEF RlInv, RlTyped, RlSocketsTyped, RlClientsTyped
<1>4. d = c
  <2>1. \A f : RlWrite(d, f) => d = c
    BY <1>1, <1>3 DEF RlWrite
  <2>2. RlRead(d) \/ RlBreak(d) => d = c
    BY <1>1, <1>3 DEF RlRead, RlBreak
  <2> QED BY <1>2, <2>1, <2>2 DEF RlWriteGap, RlSend, RlSayShutdown
<1>5. ~RlBreak(c)
  BY <1>3 DEF RlBreak
<1>6. RlWriteGap(c) \/ RlSend(c) \/ RlSayShutdown(c) => \E f : rlSocket'[c] = Append(rlSocket[c], f)
  BY <1>3 DEF RlWriteGap, RlSend, RlSayShutdown, RlWrite
<1>7. \A f : Len(Append(rlSocket[c], f)) = Len(rlSocket[c]) + 1
  BY <1>3
<1>8. ~(RlWriteGap(c) \/ RlSend(c) \/ RlSayShutdown(c))
  <2> SUFFICES ASSUME NEW f, rlSocket'[c] = Append(rlSocket[c], f) PROVE FALSE
    BY <1>6
  <2>1. Len(rlSocket'[c]) = Len(rlSocket[c]) + 1
    BY <1>7
  <2> QED BY <1>1, <2>1
<1> QED BY <1>2, <1>4, <1>5, <1>8

\* The relay keeps to its types.
THEOREM RelayTyping == CaptureRelaySpec => []CaptureRelayTypeOK
<1>1. RlInv => CaptureRelayTypeOK
  BY DEF RlInv, RlTyped, RlRingTyped, RlThreadsTyped, RlSocketsTyped, RlClientsTyped,
         CaptureRelayTypeOK
<1> QED BY <1>1, RlInvariant, PTL

\* Whatever the ring drops and however often the connection or the owner is lost, a
\* client is given the frames of a session in order and once, and is told of those it
\* does not get, unless its cursor's number is of an earlier session.
THEOREM Complete == CaptureRelaySpec => RelayComplete
<1>1. RlInv => \A c \in RlClients : CursorAccounted(c)
  BY DEF RlInv, RlKept, RlAccount
<1>2. ASSUME RlInv, [CaptureRelayNext]_rlVars, NEW c \in RlClients,
             Len(rlSocket[c]') < Len(rlSocket[c]), rlAttached[c]',
             Head(rlSocket[c]).kind = "frame", NEW n \in rlGot[c]
      PROVE  n < Head(rlSocket[c]).seq
  <2>1. RlRead(c)
    BY <1>2, RlOnlyRead
  <2>2. rlSocket[c] # <<>> /\ Head(rlSocket[c]) = rlSocket[c][1] /\ rlSocket[c][1] \in RlFrame
    <3>1. rlSocket[c] # <<>> /\ rlSocket' = [rlSocket EXCEPT ![c] = Tail(@)] /\ UNCHANGED rlThreads
      BY <1>2, <2>1 DEF RlRead
    <3> QED BY <1>2, <3>1, RlTaken
  <2>3. n =< RlBefore(rlSocket[c][1]) /\ RlBefore(rlSocket[c][1]) = rlSocket[c][1].seq - 1
    BY <1>2, <2>2, RlNext DEF RlBefore
  <2>4. n \in Nat /\ rlSocket[c][1].seq \in Nat
    BY <1>2, <2>2, RlNumbers, RlFrames DEF RlInv
  <2> QED BY <2>2, <2>3, <2>4
<1>3. RlInv /\ [CaptureRelayNext]_rlVars =>
          [\A c \in RlClients :
             Len(rlSocket[c]') < Len(rlSocket[c]) /\ rlAttached[c]'
                /\ Head(rlSocket[c]).kind = "frame"
                   => \A n \in rlGot[c] : n < Head(rlSocket[c]).seq]_rlVars
  BY <1>2
<1>4. CaptureRelaySpec => GivenOnceInOrder
  BY <1>3, RlInvariant, PTL DEF CaptureRelaySpec, GivenOnceInOrder
<1> QED BY <1>1, <1>4, RlInvariant, PTL DEF RelayComplete

-----------------------------------------------------------------------------
(* CopilotRunner: the fast lane *)

\* The commands that carry a request.
RnRequests == [cmd : {"request"}, req : CrRequest, invalidates : BOOLEAN]

\* The worker has a request.
RnHolds == crPc \in {"drain", "check", "start", "model", "judge", "withdraw", "verdict", "publish"}

RnTyped ==
    /\ CopilotRunnerTypeOK
    /\ RnHolds => crPending \in RnRequests

\* A call has its token in the runtime while it runs, and only then.
RnCall == crCurrent = IF crPc = "model" THEN crPending.req ELSE CrNone

\* What is queued has its time: requests come in the order of their numbers and
\* sessions, none from the future, and after a Stop the runtime is stopped.
RnTaken == IF crPc = "drain" THEN {crPending.req} ELSE {}

RnIsRequest(i) == i \in DOMAIN crQueue /\ crQueue[i].cmd = "request"

RnPast(r) ==
    r.rev =< crRevision /\ r.epoch =< crEpoch /\ (r.epoch = crEpoch => r.rev =< crLatest)

RnFollows(r, later) == r.rev < later.rev /\ r.epoch =< later.epoch

RnLine ==
    /\ \A r \in RnTaken : RnPast(r)
    /\ \A i \in DOMAIN crQueue : RnIsRequest(i) => RnPast(crQueue[i].req)
    /\ \A r \in RnTaken, i \in DOMAIN crQueue : RnIsRequest(i) => RnFollows(r, crQueue[i].req)
    /\ \A i, j \in DOMAIN crQueue :
          RnIsRequest(i) /\ RnIsRequest(j) /\ i < j => RnFollows(crQueue[i].req, crQueue[j].req)
    /\ crLatest =< crRevision
    /\ \A i \in DOMAIN crQueue : crQueue[i].cmd = "stop" => crStopped

\* While no Begin is on its way, the worker and the policy are of this session.
RnBegins == "begin" \in crDropped \/ \E i \in DOMAIN crQueue : crQueue[i].cmd = "begin"

RnOwn ==
    ~RnBegins =>
        /\ \A n \in crIssued : n.epoch = crEpoch
        /\ crPc \in {"verdict", "publish"} => crPending.req.epoch = crEpoch

\* A pause that the worker had still to look at leaves it nothing to show.
RnQuiet ==
    crPaused /\ ~crStopped /\ ~crLatePause =>
        /\ crState \notin {"nudge", "thinking"}
        /\ crPc \notin {"start", "verdict", "publish"}
        /\ crPc \in {"model", "judge"} => crCancelled

RnInv == RnTyped /\ RnCall /\ RnLine /\ RnOwn /\ RnQuiet /\ ShownIsGrounded /\ CancelHeard

\* What a command is.
LEMMA RnCommands ==
    /\ \A c \in CrCommand :
          /\ c.cmd \in {"request", "feedback", "invalidate", "begin", "wake", "stop"}
          /\ c.cmd = "request" => c \in RnRequests
          /\ c.invalidates \in BOOLEAN
    /\ \A c \in RnRequests :
          /\ c \in CrCommand /\ c.cmd = "request" /\ c.req \in CrRequest
          /\ c.invalidates \in BOOLEAN
    /\ \A cmd \in {"invalidate", "begin", "wake", "stop"} :
          CrSignal(cmd) \in CrCommand /\ CrSignal(cmd).cmd = cmd
BY DEF CrCommand, RnRequests, CrSignal

\* The counters are numbers under their bounds.
LEMMA RnNumbers ==
    ASSUME RnTyped
    PROVE  /\ crRevision \in Nat /\ crRevision =< CrMaxRevision /\ CrMaxRevision \in Nat
           /\ crLatest \in Nat /\ crRetracted \in Nat /\ crControls \in Nat
           /\ crEpoch \in Nat /\ crEpoch =< CrMaxEpoch /\ crEpoch >= 1 /\ CrMaxEpoch \in Nat
           /\ CrQueueMax \in Nat /\ CrMaxControls \in Nat
           /\ crQueue \in Seq(CrCommand) /\ Len(crQueue) \in Nat
BY CrAssumption DEF RnTyped, CopilotRunnerTypeOK

\* What a request and a partial are made of.
LEMMA RnRequest ==
    ASSUME NEW r \in CrRequest
    PROVE  /\ r.epoch \in 1..CrMaxEpoch /\ r.rev \in 1..CrMaxRevision /\ r.final \in BOOLEAN
           /\ r.partial \in CrPartials \cup {CrNone} /\ r.epoch \in Nat /\ r.rev \in Nat
BY CrAssumption DEF CrRequest

\* A partial is a pair of numbers, and not none.
LEMMA RnPartial ==
    ASSUME NEW p \in CrPartials
    PROVE  p[1] \in Nat /\ p[2] \in Nat /\ p # CrNone
BY CrAssumption

\* A command that is sent is the last in the channel, or dropped.
LEMMA RnSent ==
    ASSUME RnTyped, NEW command \in CrCommand, CrSend(command)
    PROVE  /\ crQueue' \in Seq(CrCommand) /\ Len(crQueue') =< CrQueueMax
           /\ \A i \in DOMAIN crQueue : i \in DOMAIN crQueue' /\ crQueue'[i] = crQueue[i]
           /\ \A i \in DOMAIN crQueue' :
                 \/ i \in DOMAIN crQueue /\ crQueue'[i] = crQueue[i]
                 \/ crQueue'[i] = command /\ \A k \in DOMAIN crQueue : k < i
           /\ \A i, j \in DOMAIN crQueue' : i < j => i \in DOMAIN crQueue
           /\ Len(crQueue) < CrQueueMax => \E i \in DOMAIN crQueue' : crQueue'[i] = command
<1>1. crQueue \in Seq(CrCommand) /\ Len(crQueue) \in Nat /\ CrQueueMax \in Nat
      /\ Len(crQueue) =< CrQueueMax /\ DOMAIN crQueue = 1..Len(crQueue)
  BY RnNumbers DEF RnTyped, CopilotRunnerTypeOK
<1>2. CASE Len(crQueue) < CrQueueMax
  <2>1. crQueue' = Append(crQueue, command)
    BY <1>2 DEF CrSend
  <2>2. /\ crQueue' \in Seq(CrCommand) /\ Len(crQueue') = Len(crQueue) + 1
        /\ \A i \in 1..Len(crQueue) : crQueue'[i] = crQueue[i]
        /\ crQueue'[Len(crQueue) + 1] = command
    BY <1>1, <2>1
  <2>3. DOMAIN crQueue' = 1..(Len(crQueue) + 1)
    BY <2>2
  <2>4. \A i \in 1..(Len(crQueue) + 1) : i \in 1..Len(crQueue) \/ i = Len(crQueue) + 1
    BY <1>1
  <2>5. \A k \in 1..Len(crQueue) : k < Len(crQueue) + 1 /\ k \in 1..(Len(crQueue) + 1)
    BY <1>1
  <2>6. \A i, j \in 1..(Len(crQueue) + 1) : i < j => i \in 1..Len(crQueue)
    BY <1>1
  <2>7. Len(crQueue') =< CrQueueMax /\ Len(crQueue) + 1 \in 1..(Len(crQueue) + 1)
    BY <1>1, <1>2, <2>2
  <2> QED BY <1>1, <2>2, <2>3, <2>4, <2>5, <2>6, <2>7
<1>3. CASE ~(Len(crQueue) < CrQueueMax)
  <2>1. crQueue' = crQueue
    BY <1>3 DEF CrSend
  <2> QED BY <1>1, <1>3, <2>1
<1> QED BY <1>2, <1>3

\* A command that is taken was the first.
LEMMA RnShift ==
    ASSUME RnTyped, crQueue # <<>>, crQueue' = Tail(crQueue)
    PROVE  /\ crQueue' \in Seq(CrCommand) /\ Len(crQueue') =< CrQueueMax
           /\ 1 \in DOMAIN crQueue /\ Head(crQueue) = crQueue[1] /\ crQueue[1] \in CrCommand
           /\ \A i \in DOMAIN crQueue' :
                 i + 1 \in DOMAIN crQueue /\ 1 < i + 1 /\ crQueue'[i] = crQueue[i + 1]
           /\ \A i \in DOMAIN crQueue :
                 i = 1 \/ (i - 1 \in DOMAIN crQueue' /\ crQueue'[i - 1] = crQueue[i])
           /\ \A i, j \in DOMAIN crQueue' : i < j => i + 1 < j + 1
<1>1. crQueue \in Seq(CrCommand) /\ Len(crQueue) \in Nat /\ CrQueueMax \in Nat
      /\ Len(crQueue) =< CrQueueMax /\ DOMAIN crQueue = 1..Len(crQueue)
  BY RnNumbers DEF RnTyped, CopilotRunnerTypeOK
<1>2. Len(crQueue) >= 1 /\ 1 \in DOMAIN crQueue /\ Head(crQueue) = crQueue[1]
      /\ crQueue[1] \in CrCommand
  BY <1>1
<1>3. Tail(crQueue) \in Seq(CrCommand) /\ Len(Tail(crQueue)) = Len(crQueue) - 1
      /\ \A i \in 1..(Len(crQueue) - 1) : Tail(crQueue)[i] = crQueue[i + 1]
  BY <1>1, <1>2
<1>4. DOMAIN crQueue' = 1..(Len(crQueue) - 1)
  BY <1>3
<1>5. \A i \in 1..(Len(crQueue) - 1) : i + 1 \in 1..Len(crQueue) /\ 1 < i + 1
  BY <1>1
<1>6. \A i \in 1..Len(crQueue) : i = 1 \/ (i - 1 \in 1..(Len(crQueue) - 1) /\ (i - 1) + 1 = i)
  BY <1>1
<1>7. \A i, j \in 1..(Len(crQueue) - 1) : i < j => i + 1 < j + 1
  BY <1>1
<1>8. Len(crQueue') =< CrQueueMax
  BY <1>1, <1>2, <1>3
<1>9. \A i \in 1..Len(crQueue) : i = 1 \/ crQueue'[i - 1] = crQueue[i]
  BY <1>3, <1>6
<1> QED BY <1>1, <1>2, <1>3, <1>4, <1>5, <1>6, <1>7, <1>8, <1>9

-----------------------------------------------------------------------------
\* The client's steps keep the types.
LEMMA RnClientTypes ==
    ASSUME RnTyped, CrClientNext
    PROVE  RnTyped'
<1> USE DEF CopilotRunnerTypeOK, RnHolds, crRuntime, crWorker, crPolicy, crClients
<1>n. /\ crRevision \in Nat /\ CrMaxRevision \in Nat /\ crEpoch \in Nat /\ CrMaxEpoch \in Nat
      /\ crControls \in Nat /\ CrMaxControls \in Nat /\ crRetracted \in Nat
  BY RnNumbers
<1>s. \A command \in CrCommand :
          CrSend(command) => crQueue' \in Seq(CrCommand) /\ Len(crQueue') =< CrQueueMax
  BY RnSent
<1>1. ASSUME NEW final \in BOOLEAN, NEW partial \in CrPartials \cup {CrNone},
             CrSubmit(final, partial)
      PROVE  RnTyped'
  <2> DEFINE r == [epoch |-> crEpoch, rev |-> crRevision + 1, final |-> final,
                   partial |-> partial]
             drops == final /\ crPartial # CrNone
             command == [cmd |-> "request", req |-> r, invalidates |-> drops]
  <2>1. crRevision + 1 \in 1..CrMaxRevision /\ crRevision' = crRevision + 1
    BY <1>1, <1>n DEF CrSubmit
  <2>2. r \in CrRequest
    BY <2>1 DEF CrRequest, RnTyped
  <2>3. drops \in BOOLEAN
    OBVIOUS
  <2>4. command \in CrCommand
    BY <2>2, <2>3 DEF CrCommand
  <2>5. UNCHANGED <<crWorker, crClient, crDropped, crControls, crLatePause>>
    BY <1>1 DEF CrSubmit
  <2>6. \/ UNCHANGED <<crRuntime, crQueue>>
        \/ /\ crCancelled' = (crCancelled \/ crCurrent # CrNone) /\ crLatest' = crRevision + 1
           /\ crRetracted' \in {crPartial[1], crRetracted}
           /\ crPartial # CrNone \/ crRetracted' = crRetracted
           /\ crPartial' \in {CrNone, partial}
           /\ crState' \in {"listening", crState} /\ crShown' \in {crShown, CrNone}
           /\ CrSend(command)
           /\ UNCHANGED <<crPaused, crStopped, crEpoch, crCurrent>>
    BY <1>1 DEF CrSubmit, CrLeaveNudge, CrSetState
  <2> HIDE DEF command, r, drops
  <2>7. CASE UNCHANGED <<crRuntime, crQueue>>
    BY <2>1, <2>5, <2>7, <1>n DEF RnTyped
  <2>8. ASSUME crPartial # CrNone PROVE crPartial[1] \in Nat
    BY <2>8, RnPartial DEF RnTyped
  <2>9. CASE /\ crCancelled' = (crCancelled \/ crCurrent # CrNone) /\ crLatest' = crRevision + 1
             /\ crRetracted' \in {crPartial[1], crRetracted}
             /\ crPartial # CrNone \/ crRetracted' = crRetracted
             /\ crPartial' \in {CrNone, partial}
             /\ crState' \in {"listening", crState} /\ crShown' \in {crShown, CrNone}
             /\ CrSend(command)
             /\ UNCHANGED <<crPaused, crStopped, crEpoch, crCurrent>>
    <3>1. crRetracted' \in Nat /\ crLatest' \in 0..CrMaxRevision /\ crRevision' \in 0..CrMaxRevision
      BY <1>n, <2>1, <2>8, <2>9
    <3>2. crQueue' \in Seq(CrCommand) /\ Len(crQueue') =< CrQueueMax
      BY <1>s, <2>4, <2>9
    <3>3. crCancelled' \in BOOLEAN
      BY <2>9
    <3> QED BY <2>5, <2>9, <3>1, <3>2, <3>3 DEF RnTyped
  <2> QED BY <2>6, <2>7, <2>9
<1>2. CASE CrBeginSession
  <2>1. crQueue' \in Seq(CrCommand) /\ Len(crQueue') =< CrQueueMax
    BY <1>2, <1>s, RnCommands DEF CrBeginSession, CrSendOnce
  <2>2. crDropped' \in SUBSET {"begin", "stop"}
    BY <1>2 DEF CrBeginSession, CrSendOnce, RnTyped
  <2>3. crEpoch' \in 1..CrMaxEpoch
    BY <1>2, <1>n DEF CrBeginSession
  <2> QED BY <1>2, <1>n, <2>1, <2>2, <2>3 DEF CrBeginSession, CrSetState, RnTyped
<1>3. ASSUME NEW partial \in CrPartials, CrSupersedePartial(partial) PROVE RnTyped'
  BY <1>3 DEF CrSupersedePartial, RnTyped
<1>4. ASSUME NEW partial \in CrPartials, CrRetractPartials(partial[1]) PROVE RnTyped'
  <2>1. crQueue' \in Seq(CrCommand) /\ Len(crQueue') =< CrQueueMax
    BY <1>4, <1>s, RnCommands DEF CrRetractPartials
  <2>2. crRetracted' \in Nat
    BY <1>4, <1>n, RnPartial DEF CrRetractPartials
  <2> QED BY <1>4, <2>1, <2>2 DEF CrRetractPartials, CrLeaveNudge, CrSetState, RnTyped
<1>5. CASE CrPause \/ CrResume
  <2>1. crQueue' \in Seq(CrCommand) /\ Len(crQueue') =< CrQueueMax
    BY <1>5, <1>s, RnCommands DEF CrPause, CrResume
  <2>2. crControls' \in 0..CrMaxControls
    BY <1>5, <1>n DEF CrPause, CrResume, CrControl
  <2>3. CASE CrPause
    BY <2>1, <2>2, <2>3 DEF CrPause, CrControl, CrSetState, RnTyped
  <2>4. CASE CrResume
    <3>1. /\ crPaused' \in BOOLEAN /\ crState' = "listening" /\ crShown' = CrNone
          /\ UNCHANGED <<crStopped, crEpoch, crLatest, crPartial, crRetracted, crCurrent,
                         crCancelled, crWorker, crLatePause, crClient, crRevision, crDropped>>
      BY <2>4 DEF CrResume, CrControl, CrSetState
    <3> QED BY <2>1, <2>2, <3>1 DEF RnTyped
  <2> QED BY <1>5, <2>3, <2>4
<1>6. ASSUME NEW nudge \in crIssued, CrDismiss(nudge) PROVE RnTyped'
  <2>1. [cmd |-> "feedback", req |-> nudge, invalidates |-> FALSE] \in CrCommand
    BY DEF CrCommand, RnTyped
  <2>2. crQueue' \in Seq(CrCommand) /\ Len(crQueue') =< CrQueueMax
    BY <1>6, <1>s, <2>1 DEF CrDismiss
  <2>3. crControls' \in 0..CrMaxControls
    BY <1>6, <1>n DEF CrDismiss, CrControl
  <2> QED BY <1>6, <2>2, <2>3 DEF CrDismiss, CrControl, RnTyped
<1>7. CASE CrTick
  BY <1>7 DEF CrTick, CrSetState, RnTyped
<1>9. CASE CrJoin
  BY <1>9 DEF CrJoin, RnTyped
<1>8. CASE CrStop
  <2>1. crQueue' \in Seq(CrCommand) /\ Len(crQueue') =< CrQueueMax
    BY <1>8, <1>s, RnCommands DEF CrStop, CrSendOnce
  <2>2. crDropped' \in SUBSET {"begin", "stop"}
    BY <1>8 DEF CrStop, CrSendOnce, RnTyped
  <2> QED BY <1>8, <2>1, <2>2 DEF CrStop, CrSetState, RnTyped
<1> QED BY <1>1, <1>2, <1>3, <1>4, <1>5, <1>6, <1>7, <1>8, <1>9 DEF CrClientNext

\* So do the worker's.
LEMMA RnWorkerTypes ==
    ASSUME RnTyped, CrWorkerNext
    PROVE  RnTyped'
<1> USE DEF CopilotRunnerTypeOK, RnHolds, crRuntime, crWorker, crPolicy, crClients
<1>r. ASSUME RnHolds PROVE crPending \in RnRequests /\ crPending.req \in CrRequest
                           /\ crPending.invalidates \in BOOLEAN
  BY <1>r, RnCommands DEF RnTyped
<1>1. CASE CrPrewarmed \/ CrWarm
  <2>1. CASE CrPrewarmed
    BY <2>1 DEF CrPrewarmed, RnTyped
  <2>2. CASE CrWarm
    BY <2>2 DEF CrWarm, CrGo, CrSetState, RnTyped
  <2> QED BY <1>1, <2>1, <2>2
<1>2. CASE CrTake
  <2>1. /\ crPc \in {"idle", "drain"} /\ crQueue # <<>> /\ crQueue' = Tail(crQueue)
        /\ UNCHANGED <<crPaused, crStopped, crEpoch, crLatest, crPartial, crRetracted, crCurrent,
                       crCancelled, crSawPaused, crClients>>
    BY <1>2 DEF CrTake
  <2> DEFINE c == Head(crQueue)
  <2>2. c \in CrCommand /\ crQueue' \in Seq(CrCommand) /\ Len(crQueue') =< CrQueueMax
    BY <2>1, RnShift
  <2> HIDE DEF c
  <2>3. CASE c.cmd = "request"
    <3>1. /\ crPc' = "drain" /\ UNCHANGED <<crState, crShown, crPolicy>>
          /\ crPending' = IF crPc = "idle" THEN c
                          ELSE IF CrReplaces(c.req, crPending.req)
                          THEN [c EXCEPT !.invalidates = @ \/ crPending.invalidates]
                          ELSE crPending
      BY <1>2, <2>3 DEF CrTake, c
    <3>2. c \in RnRequests /\ c.invalidates \in BOOLEAN
      BY <2>2, <2>3, RnCommands
    <3>3. \A b \in BOOLEAN : [c EXCEPT !.invalidates = b] \in RnRequests
      BY <3>2 DEF RnRequests
    <3>4. crPc = "drain" => (c.invalidates \/ crPending.invalidates) \in BOOLEAN
      OBVIOUS
    <3>5. crPending' \in RnRequests
      <4>1. CASE crPc = "idle"
        BY <3>1, <3>2, <4>1
      <4>2. CASE crPc = "drain"
        BY <1>r, <2>1, <3>1, <3>3, <3>4, <4>2
      <4> QED BY <2>1, <4>1, <4>2
    <3>6. crPending' \in CrCommand
      BY <3>5, RnCommands
    <3> QED BY <2>1, <2>2, <3>1, <3>5, <3>6 DEF RnTyped
  <2>4. CASE c.cmd = "stop"
    <3>1. crPc' = "ending" /\ crPending' = CrNone /\ UNCHANGED <<crState, crShown, crPolicy>>
      BY <1>2, <2>4 DEF CrTake, c
    <3> QED BY <2>1, <2>2, <3>1 DEF RnTyped
  <2>5. CASE c.cmd \notin {"request", "stop"}
    <3>1. CrApply(c) /\ UNCHANGED <<crPc, crPending>>
      BY <1>2, <2>5 DEF CrTake, c
    <3>2. /\ crActive' \in {crActive, CrNone} /\ crIssued' \subseteq crIssued
          /\ crState' \in {crState, "listening"} /\ crShown' \in {crShown, CrNone}
      <4>1. CASE c.cmd = "invalidate"
        BY <3>1, <4>1 DEF CrApply
      <4>2. CASE c.cmd = "begin"
        BY <3>1, <4>2 DEF CrApply
      <4>3. CASE c.cmd = "feedback" /\ c.req \in crIssued
        BY <3>1, <4>3 DEF CrApply, CrLeaveNudge, CrSetState
      <4>4. CASE c.cmd = "wake" \/ (c.cmd = "feedback" /\ c.req \notin crIssued)
        BY <3>1, <4>4 DEF CrApply
      <4> QED BY <2>2, <2>5, <4>1, <4>2, <4>3, <4>4, RnCommands
    <3> QED BY <2>1, <2>2, <3>1, <3>2 DEF RnTyped
  <2> QED BY <2>3, <2>4, <2>5
<1>3. CASE CrDrained
  BY <1>3, <1>r DEF CrDrained, CrGo, RnTyped
<1>4. CASE CrCheck
  BY <1>4, <1>r DEF CrCheck, RnTyped
<1>5. CASE CrStart
  BY <1>5, <1>r DEF CrStart, CrGo, CrSetState, RnTyped
<1>6. CASE CrModelReturns
  BY <1>6, <1>r DEF CrModelReturns, CrGo, RnTyped
<1>7. CASE CrJudge
  BY <1>7, <1>r DEF CrJudge, RnTyped
<1>8. CASE CrWithdraw
  BY <1>8, <1>r DEF CrWithdraw, CrGo, CrSetState, RnTyped
<1>9. CASE CrVerdict
  BY <1>9, <1>r DEF CrVerdict, CrSetState, RnTyped
<1>10. CASE CrPublish
  BY <1>10, <1>r DEF CrPublish, CrGo, RnTyped
<1>11. CASE CrEnd
  BY <1>11 DEF CrEnd, CrGo, CrSetState, RnTyped
<1> QED BY <1>1, <1>2, <1>3, <1>4, <1>5, <1>6, <1>7, <1>8, <1>9, <1>10, <1>11 DEF CrWorkerNext

-----------------------------------------------------------------------------
\* What the client never touches, and what a nudge that is still shown says of its step.
RnClientStep ==
    /\ UNCHANGED <<crPc, crPending, crSawPaused, crActive, crIssued, crCurrent>>
    /\ crCancelled => crCancelled'
    /\ crCurrent = CrNone => crCancelled' = crCancelled
    /\ crStopped => crStopped'
    /\ crState' = "thinking" => crState = "thinking"
    /\ crState' = "nudge" =>
          crState = "nudge" /\ crShown' = crShown /\ UNCHANGED <<crEpoch, crRetracted>>

\* Every step of the client is such a step.
LEMMA RnClientLeaves ==
    ASSUME RnTyped, CrClientNext
    PROVE  RnClientStep
<1> USE DEF RnClientStep, crRuntime, crWorker, crPolicy, crClients, CrSetState, CrLeaveNudge
<1>t. crCancelled \in BOOLEAN /\ crStopped \in BOOLEAN
  BY DEF RnTyped, CopilotRunnerTypeOK
<1>1. ASSUME NEW final \in BOOLEAN, NEW partial \in CrPartials \cup {CrNone},
             CrSubmit(final, partial)
      PROVE  RnClientStep
  BY <1>1, <1>t DEF CrSubmit
<1>2. CASE CrBeginSession
  BY <1>2, <1>t DEF CrBeginSession
<1>3. ASSUME NEW partial \in CrPartials, CrSupersedePartial(partial) PROVE RnClientStep
  BY <1>3, <1>t DEF CrSupersedePartial
<1>4. ASSUME NEW partial \in CrPartials, CrRetractPartials(partial[1]) PROVE RnClientStep
  BY <1>4, <1>t DEF CrRetractPartials
<1>5. CASE CrPause
  BY <1>5, <1>t DEF CrPause, CrControl
<1>6. CASE CrResume
  BY <1>6, <1>t DEF CrResume, CrControl
<1>7. ASSUME NEW nudge \in crIssued, CrDismiss(nudge) PROVE RnClientStep
  BY <1>7, <1>t DEF CrDismiss
<1>8. CASE CrTick
  BY <1>8, <1>t DEF CrTick
<1>9. CASE CrJoin
  BY <1>9, <1>t DEF CrJoin
<1>10. CASE CrStop
  BY <1>10, <1>t DEF CrStop
<1> QED BY <1>1, <1>2, <1>3, <1>4, <1>5, <1>6, <1>7, <1>8, <1>9, <1>10 DEF CrClientNext

\* The worker sets the state, takes the call out of the runtime and forgets its token.
RnWorkerStep ==
    UNCHANGED <<crPaused, crStopped, crEpoch, crLatest, crPartial, crRetracted, crClients>>

\* The worker leaves the session's evidence to the client, and takes from the channel only.
LEMMA RnWorkerLeaves ==
    ASSUME CrWorkerNext
    PROVE  /\ RnWorkerStep
           /\ CrTake \/ UNCHANGED crQueue
<1> USE DEF RnWorkerStep, crRuntime
<1>1. CASE CrPrewarmed \/ CrWarm
  BY <1>1 DEF CrPrewarmed, CrWarm
<1>2. CASE CrTake
  BY <1>2 DEF CrTake
<1>3. CASE CrDrained \/ CrCheck
  BY <1>3 DEF CrDrained, CrCheck
<1>4. CASE CrStart \/ CrModelReturns
  BY <1>4 DEF CrStart, CrModelReturns
<1>5. CASE CrJudge \/ CrWithdraw
  BY <1>5 DEF CrJudge, CrWithdraw
<1>6. CASE CrVerdict \/ CrPublish
  BY <1>6 DEF CrVerdict, CrPublish
<1>7. CASE CrEnd
  BY <1>7 DEF CrEnd
<1> QED BY <1>1, <1>2, <1>3, <1>4, <1>5, <1>6, <1>7 DEF CrWorkerNext

\* What the worker does with a command that is neither a request nor a Stop.
LEMMA RnApplied ==
    ASSUME RnTyped, NEW c \in CrCommand, c.cmd \notin {"request", "stop"}, CrApply(c)
    PROVE  /\ crIssued' \subseteq crIssued /\ (c.cmd = "begin" => crIssued' = {})
           /\ crActive' \in {crActive, CrNone}
           /\ \/ crState' = crState /\ crShown' \in {crShown, CrNone}
                 /\ (crState = "nudge" => crShown' = crShown)
              \/ crState' = "listening"
<1>1. CASE c.cmd = "invalidate"
  BY <1>1 DEF CrApply
<1>2. CASE c.cmd = "begin"
  BY <1>2 DEF CrApply
<1>3. CASE c.cmd = "feedback" /\ c.req \in crIssued
  BY <1>3 DEF CrApply, CrLeaveNudge, CrSetState
<1>4. CASE c.cmd = "wake" \/ (c.cmd = "feedback" /\ c.req \notin crIssued)
  BY <1>4 DEF CrApply, crPolicy
<1> QED BY <1>1, <1>2, <1>3, <1>4, RnCommands

\* Taking a command.
LEMMA RnTake ==
    ASSUME RnTyped, CrTake
    PROVE  /\ crPc \in {"idle", "drain"} /\ crQueue # <<>> /\ crQueue' = Tail(crQueue)
           /\ UNCHANGED <<crCurrent, crCancelled, crSawPaused>>
           /\ crIssued' \subseteq crIssued /\ (crQueue[1].cmd = "begin" => crIssued' = {})
           /\ \/ crState' = crState /\ (crState = "nudge" => crShown' = crShown)
              \/ crState' = "listening"
           /\ \/ /\ crQueue[1].cmd = "request" /\ crPc' = "drain"
                 /\ crPending'.req =
                       IF crPc = "idle" \/ CrReplaces(crQueue[1].req, crPending.req)
                       THEN crQueue[1].req ELSE crPending.req
              \/ crQueue[1].cmd = "stop" /\ crPc' = "ending"
              \/ /\ crQueue[1].cmd \notin {"request", "stop"}
                 /\ crPc' = crPc /\ crPending' = crPending
<1>1. /\ crPc \in {"idle", "drain"} /\ crQueue # <<>> /\ crQueue' = Tail(crQueue)
      /\ UNCHANGED <<crCurrent, crCancelled, crSawPaused>>
  BY DEF CrTake
<1> DEFINE c == crQueue[1]
<1>2. c \in CrCommand /\ Head(crQueue) = c
  BY <1>1, RnShift
<1> HIDE DEF c
<1>3. CASE c.cmd = "request"
  <2>1. /\ crPc' = "drain" /\ UNCHANGED <<crState, crShown, crPolicy>>
        /\ crPending' = IF crPc = "idle" THEN c
                        ELSE IF CrReplaces(c.req, crPending.req)
                        THEN [c EXCEPT !.invalidates = @ \/ crPending.invalidates]
                        ELSE crPending
    BY <1>2, <1>3 DEF CrTake
  <2>2. c \in RnRequests
    BY <1>2, <1>3, RnCommands
  <2>3. \A b : [c EXCEPT !.invalidates = b].req = c.req
    BY <2>2 DEF RnRequests
  <2> QED BY <1>1, <1>3, <2>1, <2>3 DEF crPolicy, c
<1>4. CASE c.cmd = "stop"
  <2>1. crPc' = "ending" /\ UNCHANGED <<crState, crShown, crPolicy>>
    BY <1>2, <1>4 DEF CrTake
  <2> QED BY <1>1, <1>4, <2>1 DEF crPolicy, c
<1>5. CASE c.cmd \notin {"request", "stop"}
  <2>1. CrApply(c) /\ UNCHANGED <<crPc, crPending>>
    BY <1>2, <1>5 DEF CrTake
  <2> QED BY <1>1, <1>2, <1>5, <2>1, RnApplied DEF c
<1> QED BY <1>3, <1>4, <1>5

\* What the client does with the channel.
LEMMA RnClientSends ==
    ASSUME RnTyped, CrClientNext
    PROVE  /\ \A i \in DOMAIN crQueue : i \in DOMAIN crQueue' /\ crQueue'[i] = crQueue[i]
           /\ \/ UNCHANGED crQueue
              \/ \E command \in CrCommand : CrSend(command)
<1>1. UNCHANGED crQueue \/ \E command \in CrCommand : CrSend(command)
  <2>1. ASSUME NEW final \in BOOLEAN, NEW partial \in CrPartials \cup {CrNone},
               CrSubmit(final, partial)
        PROVE  UNCHANGED crQueue \/ \E command \in CrCommand : CrSend(command)
    <3> DEFINE r == [epoch |-> crEpoch, rev |-> crRevision + 1, final |-> final,
                     partial |-> partial]
               drops == final /\ crPartial # CrNone
               command == [cmd |-> "request", req |-> r, invalidates |-> drops]
    <3>1. crRevision + 1 \in 1..CrMaxRevision
      BY <2>1, RnNumbers DEF CrSubmit
    <3>2. r \in CrRequest
      BY <3>1 DEF CrRequest, RnTyped, CopilotRunnerTypeOK
    <3>3. drops \in BOOLEAN
      OBVIOUS
    <3>4. command \in CrCommand
      BY <3>2, <3>3 DEF CrCommand
    <3>5. UNCHANGED crQueue \/ CrSend(command)
      BY <2>1 DEF CrSubmit
    <3> QED BY <3>4, <3>5
  <2>2. CASE CrBeginSession \/ CrStop
    BY <2>2, RnCommands DEF CrBeginSession, CrStop, CrSendOnce
  <2>3. ASSUME NEW partial \in CrPartials, CrRetractPartials(partial[1])
        PROVE  \E command \in CrCommand : CrSend(command)
    BY <2>3, RnCommands DEF CrRetractPartials
  <2>4. CASE CrPause \/ CrResume
    BY <2>4, RnCommands DEF CrPause, CrResume
  <2>5. ASSUME NEW nudge \in crIssued, CrDismiss(nudge)
        PROVE  \E command \in CrCommand : CrSend(command)
    <3>1. [cmd |-> "feedback", req |-> nudge, invalidates |-> FALSE] \in CrCommand
      BY DEF CrCommand, RnTyped, CopilotRunnerTypeOK
    <3> QED BY <2>5, <3>1 DEF CrDismiss
  <2>6. ASSUME NEW partial \in CrPartials, CrSupersedePartial(partial) PROVE UNCHANGED crQueue
    BY <2>6 DEF CrSupersedePartial
  <2>7. CASE CrTick \/ CrJoin
    BY <2>7 DEF CrTick, CrJoin
  <2> QED BY <2>1, <2>2, <2>3, <2>4, <2>5, <2>6, <2>7 DEF CrClientNext
<1>2. CASE UNCHANGED crQueue
  BY <1>1, <1>2
<1>3. ASSUME NEW command \in CrCommand, CrSend(command)
      PROVE  \A i \in DOMAIN crQueue : i \in DOMAIN crQueue' /\ crQueue'[i] = crQueue[i]
  BY <1>3, RnSent
<1> QED BY <1>1, <1>2, <1>3

-----------------------------------------------------------------------------
\* A call keeps its token, and one that was cancelled is heard.
LEMMA RnCallKept ==
    ASSUME RnInv, CopilotRunnerNext
    PROVE  RnCall' /\ CancelHeard'
<1>0. RnTyped /\ RnCall /\ CancelHeard
  BY DEF RnInv
<1>1. CASE CrClientNext
  <2>1. RnClientStep
    BY <1>0, <1>1, RnClientLeaves
  <2> QED BY <1>0, <2>1 DEF RnClientStep, RnCall, CancelHeard
<1> USE DEF RnCall, CancelHeard, CrGo, crRuntime
<1>2. CASE CrPrewarmed \/ CrWarm
  BY <1>0, <1>2 DEF CrPrewarmed, CrWarm
<1>3. CASE CrTake
  BY <1>0, <1>3, RnTake
<1>4. CASE CrDrained \/ CrCheck
  BY <1>0, <1>4 DEF CrDrained, CrCheck
<1>5. CASE CrStart \/ CrModelReturns
  BY <1>0, <1>5 DEF CrStart, CrModelReturns
<1>6. CASE CrJudge \/ CrWithdraw
  BY <1>0, <1>6 DEF CrJudge, CrWithdraw
<1>7. CASE CrVerdict \/ CrPublish
  BY <1>0, <1>7 DEF CrVerdict, CrPublish
<1>8. CASE CrEnd
  BY <1>0, <1>8 DEF CrEnd
<1> QED BY <1>1, <1>2, <1>3, <1>4, <1>5, <1>6, <1>7, <1>8 DEF CopilotRunnerNext, CrWorkerNext

\* A nudge is shown only by Publish, which looks once more.
LEMMA RnShownKept ==
    ASSUME RnInv, CopilotRunnerNext
    PROVE  ShownIsGrounded'
<1>0. RnTyped /\ ShownIsGrounded
  BY DEF RnInv
<1>1. CASE CrClientNext
  <2>1. RnClientStep
    BY <1>0, <1>1, RnClientLeaves
  <2> QED BY <1>0, <2>1 DEF RnClientStep, ShownIsGrounded
<1>w. CASE CrWorkerNext
  <2>w. RnWorkerStep
    BY <1>w, RnWorkerLeaves
  <2> USE DEF ShownIsGrounded, CrGo, CrSetState, RnWorkerStep, crRuntime, crPolicy
  <2>1. CASE CrPrewarmed \/ CrWarm
    BY <1>0, <2>1, <2>w DEF CrPrewarmed, CrWarm
  <2>2. CASE CrTake
    BY <1>0, <2>2, <2>w, RnTake
  <2>3. CASE CrDrained \/ CrCheck
    BY <1>0, <2>3, <2>w DEF CrDrained, CrCheck
  <2>4. CASE CrStart \/ CrModelReturns
    BY <1>0, <2>4, <2>w DEF CrStart, CrModelReturns
  <2>5. CASE CrJudge \/ CrWithdraw
    BY <1>0, <2>5, <2>w DEF CrJudge, CrWithdraw
  <2>6. CASE CrVerdict
    BY <1>0, <2>6, <2>w DEF CrVerdict
  <2>7. CASE CrPublish
    BY <1>0, <2>7, <2>w DEF CrPublish, CrRequestIsCurrent, CrGrounded
  <2>8. CASE CrEnd
    BY <1>0, <2>8, <2>w DEF CrEnd
  <2> QED BY <1>w, <2>1, <2>2, <2>3, <2>4, <2>5, <2>6, <2>7, <2>8 DEF CrWorkerNext
<1> QED BY <1>1, <1>w DEF CopilotRunnerNext

\* A pause cancels the call that runs; where the worker had its last look before it, the
\* pause was late.
LEMMA RnQuietKept ==
    ASSUME RnInv, CopilotRunnerNext
    PROVE  RnQuiet'
<1>0. RnTyped /\ RnQuiet /\ RnCall
  BY DEF RnInv
<1>b. /\ crPaused \in BOOLEAN /\ crStopped \in BOOLEAN /\ crLatePause \in BOOLEAN
      /\ crCancelled \in BOOLEAN
  BY <1>0 DEF RnTyped, CopilotRunnerTypeOK
<1>1. CASE CrClientNext
  <2>1. RnClientStep
    BY <1>0, <1>1, RnClientLeaves
  <2>2. CASE CrPause
    <3>1. /\ crState' = "paused" /\ crCancelled' = (crCancelled \/ crCurrent # CrNone)
          /\ crLatePause' = (crPc \in {"warm", "start", "judge", "verdict", "publish"})
      BY <2>2 DEF CrPause, CrSetState
    <3>2. crPc = "model" => crCurrent # CrNone
      <4> SUFFICES ASSUME crPc = "model" PROVE crCurrent # CrNone
        OBVIOUS
      <4>1. crPending \in RnRequests
        BY <1>0 DEF RnTyped, RnHolds
      <4>2. crCurrent = crPending.req /\ crPending.req \in CrRequest
        BY <1>0, <4>1, RnCommands DEF RnCall
      <4> QED BY <4>2, CrNoneAssumption
    <3>3. crPc' = crPc
      BY <2>1 DEF RnClientStep
    <3>4. ~crLatePause' => crPc \notin {"start", "judge", "verdict", "publish"}
      BY <3>1
    <3>5. crPc = "model" => crCancelled'
      BY <3>1, <3>2
    <3> QED BY <3>1, <3>3, <3>4, <3>5 DEF RnQuiet
  <2>3. CASE ~CrPause
    <3>1. crPaused' /\ ~crStopped' => UNCHANGED <<crPaused, crStopped, crLatePause>>
      BY <1>1, <1>b, <2>3
         DEF CrClientNext, CrSubmit, CrBeginSession, CrSupersedePartial, CrRetractPartials,
             CrResume, CrControl, CrDismiss, CrTick, CrStop, CrJoin, crRuntime, crClients
    <3> QED BY <1>0, <2>1, <3>1 DEF RnClientStep, RnQuiet
  <2> QED BY <2>2, <2>3
<1>w. CASE CrWorkerNext
  <2>w. UNCHANGED <<crPaused, crStopped, crLatePause>>
    BY <1>w, RnWorkerLeaves DEF RnWorkerStep, crClients
  <2> USE DEF RnQuiet, CrGo, CrSetState, crRuntime, crPolicy
  <2>1. CASE CrPrewarmed \/ CrWarm
    BY <1>0, <2>1, <2>w DEF CrPrewarmed, CrWarm
  <2>2. CASE CrTake
    BY <1>0, <2>2, <2>w, RnTake
  <2>3. CASE CrDrained \/ CrCheck
    BY <1>0, <2>3, <2>w DEF CrDrained, CrCheck
  <2>4. CASE CrStart \/ CrModelReturns
    BY <1>0, <2>4, <2>w DEF CrStart, CrModelReturns
  <2>5. CASE CrJudge \/ CrWithdraw
    BY <1>0, <2>5, <2>w DEF CrJudge, CrWithdraw
  <2>6. CASE CrVerdict \/ CrPublish
    BY <1>0, <2>6, <2>w DEF CrVerdict, CrPublish
  <2>8. CASE CrEnd
    BY <1>0, <2>8, <2>w DEF CrEnd
  <2> QED BY <1>w, <2>1, <2>2, <2>3, <2>4, <2>5, <2>6, <2>8 DEF CrWorkerNext
<1> QED BY <1>1, <1>w DEF CopilotRunnerNext

\* A new session is announced to the worker, unless its Begin was dropped.
LEMMA RnOwnKept ==
    ASSUME RnInv, CopilotRunnerNext
    PROVE  RnOwn'
<1>0. RnTyped /\ RnOwn
  BY DEF RnInv
<1>1. CASE CrClientNext
  <2>1. /\ UNCHANGED <<crPc, crPending, crIssued>>
    BY <1>0, <1>1, RnClientLeaves DEF RnClientStep
  <2>2. CASE CrBeginSession
    <3>1. RnBegins'
      <4>1. CrSend(CrSignal("begin")) /\ CrSignal("begin") \in CrCommand
            /\ CrSignal("begin").cmd = "begin"
        BY <2>2, RnCommands DEF CrBeginSession, CrSendOnce
      <4>2. CASE Len(crQueue) < CrQueueMax
        <5>1. \E i \in DOMAIN crQueue' : crQueue'[i] = CrSignal("begin")
          BY <1>0, <4>1, <4>2, RnSent
        <5> QED BY <4>1, <5>1 DEF RnBegins
      <4>3. CASE ~(Len(crQueue) < CrQueueMax)
        BY <2>2, <4>3 DEF CrBeginSession, CrSendOnce, RnBegins
      <4> QED BY <4>2, <4>3
    <3> QED BY <3>1 DEF RnOwn
  <2>3. CASE ~CrBeginSession
    <3>1. crEpoch' = crEpoch
      BY <1>1, <2>3
         DEF CrClientNext, CrSubmit, CrSupersedePartial, CrRetractPartials, CrPause,
             CrResume, CrControl, CrDismiss, CrTick, CrStop, CrJoin, crRuntime
    <3>2. RnBegins => RnBegins'
      <4>1. crDropped \subseteq crDropped'
        BY <1>1, <2>3
           DEF CrClientNext, CrSubmit, CrSupersedePartial, CrRetractPartials, CrPause,
               CrResume, CrControl, CrDismiss, CrTick, CrStop, CrJoin, crClients, CrSendOnce
      <4>2. \A i \in DOMAIN crQueue : i \in DOMAIN crQueue' /\ crQueue'[i] = crQueue[i]
        BY <1>0, <1>1, RnClientSends
      <4> QED BY <4>1, <4>2 DEF RnBegins
    <3> QED BY <1>0, <2>1, <3>1, <3>2 DEF RnOwn
  <2> QED BY <2>2, <2>3
<1>w. CASE CrWorkerNext
  <2>w. UNCHANGED <<crEpoch, crDropped>> /\ (CrTake \/ UNCHANGED crQueue)
    BY <1>w, RnWorkerLeaves DEF RnWorkerStep, crClients
  <2>1. CASE CrTake
    <3>1. crQueue # <<>> /\ crQueue' = Tail(crQueue) /\ crPc' \notin {"verdict", "publish"}
          /\ crIssued' \subseteq crIssued /\ (crQueue[1].cmd = "begin" => crIssued' = {})
      BY <1>0, <2>1, RnTake
    <3>2. RnBegins => crQueue[1].cmd = "begin" \/ RnBegins'
      BY <1>0, <2>w, <3>1, RnShift DEF RnBegins
    <3> QED BY <1>0, <2>w, <3>1, <3>2 DEF RnOwn
  <2>2. CASE ~CrTake
    <3>1. RnBegins' = RnBegins
      BY <2>2, <2>w DEF RnBegins
    <3>2. /\ \/ crIssued' = crIssued
             \/ crPc = "verdict" /\ crIssued' = crIssued \cup {crPending.req}
          /\ crPc' \in {"verdict", "publish"} =>
                crPending' = crPending
                /\ (crPc \in {"verdict", "publish"} \/ crPending.req.epoch = crEpoch)
      BY <1>w, <2>2 DEF CrWorkerNext, CrPrewarmed, CrWarm, CrDrained, CrCheck, CrStart,
            CrModelReturns, CrJudge, CrWithdraw, CrVerdict, CrPublish, CrEnd, CrGo, crPolicy,
            CrRequestIsCurrent
    <3> QED BY <1>0, <2>w, <3>1, <3>2 DEF RnOwn
  <2> QED BY <2>1, <2>2
<1> QED BY <1>1, <1>w DEF CopilotRunnerNext

-----------------------------------------------------------------------------
\* The requests the worker and the channel hold are requests.
LEMMA RnHeld ==
    ASSUME RnTyped
    PROVE  /\ \A r \in RnTaken : r \in CrRequest
           /\ \A i \in DOMAIN crQueue : crQueue[i] \in CrCommand
           /\ \A i \in DOMAIN crQueue : RnIsRequest(i) => crQueue[i].req \in CrRequest
<1>1. \A r \in RnTaken : r \in CrRequest
  BY RnCommands DEF RnTaken, RnTyped, RnHolds
<1>2. \A i \in DOMAIN crQueue : crQueue[i] \in CrCommand
  BY RnNumbers
<1>3. \A i \in DOMAIN crQueue : RnIsRequest(i) => crQueue[i].req \in CrRequest
  BY <1>2, RnCommands DEF RnIsRequest
<1> QED BY <1>1, <1>2, <1>3

\* A command that is sent takes its place in the line.
LEMMA RnLineGrows ==
    ASSUME RnTyped, RnLine, UNCHANGED <<crPc, crPending>>,
           \A r \in CrRequest : RnPast(r) => RnPast(r)',
           crLatest' =< crRevision', crStopped => crStopped',
           NEW command \in CrCommand, UNCHANGED crQueue \/ CrSend(command),
           UNCHANGED crQueue
              \/ /\ command.cmd = "request" =>
                       /\ command.req \in CrRequest /\ RnPast(command.req)'
                       /\ \A r \in CrRequest : RnPast(r) => RnFollows(r, command.req)
                 /\ command.cmd = "stop" => crStopped'
    PROVE  RnLine'
<1>h. /\ \A r \in RnTaken : r \in CrRequest
      /\ \A i \in DOMAIN crQueue : RnIsRequest(i) => crQueue[i].req \in CrRequest
  BY RnHeld
<1>t. RnTaken' = RnTaken
  BY DEF RnTaken
<1>p. ASSUME NEW r \in CrRequest, RnPast(r)
      PROVE  r.rev =< crRevision' /\ r.epoch =< crEpoch'
             /\ (r.epoch = crEpoch' => r.rev =< crLatest')
  BY <1>p DEF RnPast
<1>1. CASE UNCHANGED crQueue
  BY <1>1, <1>h, <1>t, <1>p DEF RnLine, RnPast, RnIsRequest
<1>2. CASE CrSend(command) /\ ~UNCHANGED crQueue
  <2>1. /\ \A i \in DOMAIN crQueue : i \in DOMAIN crQueue' /\ crQueue'[i] = crQueue[i]
        /\ \A i \in DOMAIN crQueue' :
              \/ i \in DOMAIN crQueue /\ crQueue'[i] = crQueue[i]
              \/ crQueue'[i] = command /\ \A k \in DOMAIN crQueue : k < i
        /\ \A i, j \in DOMAIN crQueue' : i < j => i \in DOMAIN crQueue
    BY <1>2, RnSent
  <2>2. /\ command.cmd = "request" =>
              /\ command.req \in CrRequest /\ command.req.rev =< crRevision'
              /\ command.req.epoch =< crEpoch'
              /\ (command.req.epoch = crEpoch' => command.req.rev =< crLatest')
        /\ command.cmd = "request" =>
              \A r \in CrRequest : RnPast(r) => RnFollows(r, command.req)
        /\ command.cmd = "stop" => crStopped'
    BY <1>2 DEF RnPast
  <2>3. \A r \in RnTaken' : RnPast(r)'
    BY <1>h, <1>t, <1>p DEF RnLine, RnPast
  <2>4. ASSUME NEW i \in DOMAIN crQueue', crQueue'[i].cmd = "request"
        PROVE  /\ crQueue'[i].req.rev =< crRevision' /\ crQueue'[i].req.epoch =< crEpoch'
               /\ crQueue'[i].req.epoch = crEpoch' => crQueue'[i].req.rev =< crLatest'
    <3>1. CASE i \in DOMAIN crQueue /\ crQueue'[i] = crQueue[i]
      <4>1. crQueue[i].req \in CrRequest /\ RnPast(crQueue[i].req)
        BY <1>h, <2>4, <3>1 DEF RnLine, RnIsRequest
      <4> QED BY <1>p, <3>1, <4>1
    <3>2. CASE crQueue'[i] = command
      BY <2>2, <2>4, <3>2
    <3> QED BY <2>1, <3>1, <3>2
  <2>5. ASSUME NEW r \in RnTaken', NEW i \in DOMAIN crQueue', crQueue'[i].cmd = "request"
        PROVE  RnFollows(r, crQueue'[i].req)
    <3>1. r \in CrRequest /\ r \in RnTaken /\ RnPast(r)
      BY <1>h, <1>t, <2>5 DEF RnLine
    <3>2. CASE i \in DOMAIN crQueue /\ crQueue'[i] = crQueue[i]
      BY <2>5, <3>1, <3>2 DEF RnLine, RnIsRequest
    <3>3. CASE crQueue'[i] = command
      BY <2>2, <2>5, <3>1, <3>3
    <3> QED BY <2>1, <3>2, <3>3
  <2>6. ASSUME NEW i \in DOMAIN crQueue', NEW j \in DOMAIN crQueue', i < j,
               crQueue'[i].cmd = "request", crQueue'[j].cmd = "request"
        PROVE  RnFollows(crQueue'[i].req, crQueue'[j].req)
    <3>1. i \in DOMAIN crQueue /\ crQueue'[i] = crQueue[i]
      BY <2>1, <2>6
    <3>2. crQueue[i].req \in CrRequest /\ RnPast(crQueue[i].req)
      BY <1>h, <2>6, <3>1 DEF RnLine, RnIsRequest
    <3>3. CASE j \in DOMAIN crQueue /\ crQueue'[j] = crQueue[j]
      BY <2>6, <3>1, <3>3 DEF RnLine, RnIsRequest
    <3>4. CASE crQueue'[j] = command
      BY <2>2, <2>6, <3>1, <3>2, <3>4
    <3> QED BY <2>1, <3>3, <3>4
  <2>7. ASSUME NEW i \in DOMAIN crQueue', crQueue'[i].cmd = "stop"
        PROVE  crStopped'
    BY <2>1, <2>2, <2>7 DEF RnLine
  <2>8. \A i : RnIsRequest(i)' <=> i \in DOMAIN crQueue' /\ crQueue'[i].cmd = "request"
    BY DEF RnIsRequest
  <2>9. \A r \in RnTaken', i \in DOMAIN crQueue' :
            crQueue'[i].cmd = "request" => RnFollows(r, crQueue[i].req)'
    BY <2>5 DEF RnFollows
  <2>10. \A i, j \in DOMAIN crQueue' :
            i < j /\ crQueue'[i].cmd = "request" /\ crQueue'[j].cmd = "request"
               => RnFollows(crQueue[i].req, crQueue[j].req)'
    BY <2>6 DEF RnFollows
  <2>11. \A i \in DOMAIN crQueue' :
            crQueue'[i].cmd = "request" => RnPast(crQueue[i].req)'
    BY <2>4 DEF RnPast
  <2> QED BY <2>3, <2>7, <2>8, <2>9, <2>10, <2>11 DEF RnLine
<1> QED BY <1>1, <1>2

\* The client numbers what it sends.
LEMMA RnClientLine ==
    ASSUME RnInv, CrClientNext
    PROVE  RnLine'
<1>0. RnTyped /\ RnLine /\ crLatest =< crRevision
  BY DEF RnInv, RnLine
<1>n. /\ crRevision \in Nat /\ crLatest \in Nat /\ crEpoch \in Nat /\ CrMaxRevision \in Nat
  BY <1>0, RnNumbers
<1>r. \A r \in CrRequest : r.rev \in Nat /\ r.epoch \in Nat
  BY RnRequest
<1>s. UNCHANGED <<crPc, crPending>> /\ (crStopped => crStopped')
  BY <1>0, RnClientLeaves DEF RnClientStep
<1>c. \A cmd \in {"invalidate", "begin", "wake", "stop"} :
          CrSignal(cmd) \in CrCommand /\ CrSignal(cmd).cmd = cmd
  BY RnCommands
<1>k. ASSUME UNCHANGED <<crEpoch, crLatest, crRevision>>
      PROVE  crLatest' =< crRevision' /\ \A r \in CrRequest : RnPast(r) => RnPast(r)'
  BY <1>0, <1>k DEF RnPast
<1>1. ASSUME NEW final \in BOOLEAN, NEW partial \in CrPartials \cup {CrNone},
             CrSubmit(final, partial)
      PROVE  RnLine'
  <2> DEFINE r == [epoch |-> crEpoch, rev |-> crRevision + 1, final |-> final,
                   partial |-> partial]
             drops == final /\ crPartial # CrNone
             command == [cmd |-> "request", req |-> r, invalidates |-> drops]
  <2>1. /\ crRevision' = crRevision + 1 /\ crEpoch' = crEpoch
        /\ \/ UNCHANGED crQueue /\ crLatest' = crLatest
           \/ CrSend(command) /\ crLatest' = crRevision + 1
    BY <1>1 DEF CrSubmit, crRuntime
  <2>2. crRevision + 1 \in 1..CrMaxRevision
    BY <1>1, <1>n DEF CrSubmit
  <2>3. r \in CrRequest /\ drops \in BOOLEAN
    BY <1>0, <2>2 DEF CrRequest, RnTyped, CopilotRunnerTypeOK
  <2>4. command \in CrCommand /\ command.cmd = "request" /\ command.req = r
        /\ r.rev = crRevision + 1 /\ r.epoch = crEpoch
    BY <2>3 DEF CrCommand
  <2> HIDE DEF command, r
  <2>5. \A x \in CrRequest : RnPast(x) => RnPast(x)'
    BY <1>0, <1>n, <1>r, <2>1 DEF RnPast
  <2>6. \A x \in CrRequest : RnPast(x) => RnFollows(x, r)
    BY <1>n, <1>r, <2>4 DEF RnPast, RnFollows
  <2>7. crLatest' =< crRevision'
    BY <1>0, <1>n, <2>1
  <2>8. CASE UNCHANGED crQueue
    BY <1>0, <1>s, <2>4, <2>5, <2>7, <2>8, RnLineGrows
  <2>9. CASE ~UNCHANGED crQueue
    <3>1. CrSend(command) /\ crLatest' = crRevision + 1
      BY <2>1, <2>9
    <3>2. r.rev =< crRevision' /\ r.epoch =< crEpoch' /\ r.rev =< crLatest'
      BY <1>n, <2>1, <2>4, <3>1
    <3>3. ASSUME NEW q, q = r PROVE q.rev =< crRevision' /\ q.epoch =< crEpoch'
                                    /\ (q.epoch = crEpoch' => q.rev =< crLatest')
      BY <3>2, <3>3
    <3>4. PICK q : q = command
      OBVIOUS
    <3>5. q.req \in CrRequest /\ RnPast(q.req)'
      BY <2>3, <2>4, <3>3, <3>4 DEF RnPast
    <3>6. q.cmd = "request" /\ \A x \in CrRequest : RnPast(x) => RnFollows(x, q.req)
      BY <2>4, <2>6, <3>4
    <3>7. q \in CrCommand /\ CrSend(q)
      BY <2>4, <3>1, <3>4
    <3> QED BY <1>0, <1>s, <2>5, <2>7, <3>5, <3>6, <3>7, RnLineGrows
  <2> QED BY <2>8, <2>9
<1>2. CASE CrBeginSession
  <2>1. /\ crEpoch' = crEpoch + 1 /\ crLatest' = 0 /\ crRevision' = crRevision
        /\ CrSend(CrSignal("begin"))
    BY <1>2 DEF CrBeginSession, CrSendOnce
  <2>2. \A x \in CrRequest : RnPast(x) => RnPast(x)'
    BY <1>n, <1>r, <2>1 DEF RnPast
  <2>3. crLatest' =< crRevision'
    BY <1>n, <2>1
  <2> QED BY <1>0, <1>s, <1>c, <2>1, <2>2, <2>3, RnLineGrows
<1>3. CASE CrStop
  <2>1. /\ UNCHANGED <<crEpoch, crLatest, crRevision>> /\ crStopped'
        /\ CrSend(CrSignal("stop"))
    BY <1>3 DEF CrStop, CrSendOnce
  <2> QED BY <1>0, <1>s, <1>c, <1>k, <2>1, RnLineGrows
<1>4. ASSUME NEW partial \in CrPartials, CrRetractPartials(partial[1]) PROVE RnLine'
  <2>1. UNCHANGED <<crEpoch, crLatest, crRevision>> /\ CrSend(CrSignal("invalidate"))
    BY <1>4 DEF CrRetractPartials, crClients
  <2> QED BY <1>0, <1>s, <1>c, <1>k, <2>1, RnLineGrows
<1>5. CASE CrPause \/ CrResume
  <2>1. UNCHANGED <<crEpoch, crLatest, crRevision>> /\ CrSend(CrSignal("wake"))
    BY <1>5 DEF CrPause, CrResume, CrControl
  <2> QED BY <1>0, <1>s, <1>c, <1>k, <2>1, RnLineGrows
<1>6. ASSUME NEW nudge \in crIssued, CrDismiss(nudge) PROVE RnLine'
  <2> DEFINE command == [cmd |-> "feedback", req |-> nudge, invalidates |-> FALSE]
  <2>1. UNCHANGED <<crEpoch, crLatest, crRevision>> /\ CrSend(command)
    BY <1>6 DEF CrDismiss, CrControl, crRuntime
  <2>2. command \in CrCommand /\ command.cmd = "feedback"
    BY <1>0 DEF CrCommand, RnTyped, CopilotRunnerTypeOK
  <2> QED BY <1>0, <1>s, <1>k, <2>1, <2>2, RnLineGrows
<1>7. CASE CrTick \/ CrJoin \/ \E partial \in CrPartials : CrSupersedePartial(partial)
  <2>1. UNCHANGED <<crEpoch, crLatest, crRevision, crQueue>>
    BY <1>7 DEF CrTick, CrJoin, CrSupersedePartial, crRuntime, crClients
  <2> QED BY <1>0, <1>s, <1>c, <1>k, <2>1, RnLineGrows
<1> QED BY <1>1, <1>2, <1>3, <1>4, <1>5, <1>6, <1>7 DEF CrClientNext

\* Where the worker takes a request from: the head of the channel or its own hands.
LEMMA RnTakenFrom ==
    ASSUME RnTyped, RnLine, CrTake
    PROVE  /\ \A r \in RnTaken' : r \in RnTaken \/ (RnIsRequest(1) /\ r = crQueue[1].req)
           /\ RnIsRequest(1) => crQueue[1].req \in RnTaken'
           /\ crQueue[1].cmd \notin {"request", "stop"} => RnTaken' = RnTaken
<1>1. /\ crPc \in {"idle", "drain"} /\ crQueue # <<>> /\ crQueue' = Tail(crQueue)
      /\ \/ /\ crQueue[1].cmd = "request" /\ crPc' = "drain"
            /\ crPending'.req =
                  IF crPc = "idle" \/ CrReplaces(crQueue[1].req, crPending.req)
                  THEN crQueue[1].req ELSE crPending.req
         \/ crQueue[1].cmd = "stop" /\ crPc' = "ending"
         \/ /\ crQueue[1].cmd \notin {"request", "stop"}
            /\ crPc' = crPc /\ crPending' = crPending
  BY RnTake
<1>2. 1 \in DOMAIN crQueue
  BY <1>1, RnShift
<1>3. CASE crQueue[1].cmd = "request"
  <2>1. RnIsRequest(1) /\ crQueue[1].req \in CrRequest
    BY <1>2, <1>3, RnHeld DEF RnIsRequest
  <2>2. crPc = "drain" => CrReplaces(crQueue[1].req, crPending.req)
    <3> SUFFICES ASSUME crPc = "drain" PROVE CrReplaces(crQueue[1].req, crPending.req)
      OBVIOUS
    <3>1. crPending.req \in RnTaken /\ crPending.req \in CrRequest
      BY RnHeld DEF RnTaken
    <3>2. RnFollows(crPending.req, crQueue[1].req)
      BY <1>2, <2>1, <3>1 DEF RnLine
    <3>3. crPending.req.rev \in Nat /\ crQueue[1].req.rev \in Nat
      BY <2>1, <3>1, RnRequest
    <3> QED BY <3>2, <3>3 DEF RnFollows, CrReplaces
  <2>3. crPc' = "drain" /\ crPending'.req = crQueue[1].req
    BY <1>1, <1>3, <2>2
  <2> QED BY <1>3, <2>1, <2>3 DEF RnTaken
<1>4. CASE crQueue[1].cmd = "stop"
  BY <1>1, <1>4 DEF RnTaken, RnIsRequest
<1>5. CASE crQueue[1].cmd \notin {"request", "stop"}
  BY <1>1, <1>5 DEF RnTaken, RnIsRequest
<1> QED BY <1>3, <1>4, <1>5

\* The worker takes from the front of the line.
LEMMA RnWorkerLine ==
    ASSUME RnInv, CrWorkerNext
    PROVE  RnLine'
<1>0. RnTyped /\ RnLine
  BY DEF RnInv
<1>u. UNCHANGED <<crEpoch, crLatest, crRevision, crStopped>> /\ (CrTake \/ UNCHANGED crQueue)
  BY RnWorkerLeaves DEF RnWorkerStep, crClients
<1>1. CASE CrTake
  <2>1. crQueue # <<>> /\ crQueue' = Tail(crQueue)
    BY <1>0, <1>1, RnTake
  <2>2. /\ 1 \in DOMAIN crQueue
        /\ \A i \in DOMAIN crQueue' :
              i + 1 \in DOMAIN crQueue /\ 1 < i + 1 /\ crQueue'[i] = crQueue[i + 1]
        /\ \A i, j \in DOMAIN crQueue' : i < j => i + 1 < j + 1
    BY <1>0, <2>1, RnShift
  <2>3. \A r \in RnTaken' : r \in RnTaken \/ (RnIsRequest(1) /\ r = crQueue[1].req)
    BY <1>0, <1>1, RnTakenFrom
  <2>4. \A i \in DOMAIN crQueue' : RnIsRequest(i)' => RnIsRequest(i + 1)
    BY <2>2 DEF RnIsRequest
  <2>5. \A r \in RnTaken' : RnPast(r)'
    BY <1>0, <1>u, <2>2, <2>3 DEF RnLine, RnPast
  <2>6. \A i \in DOMAIN crQueue' : RnIsRequest(i)' => RnPast(crQueue[i].req)'
    BY <1>0, <1>u, <2>2, <2>4 DEF RnLine, RnPast
  <2>7. \A r \in RnTaken', i \in DOMAIN crQueue' :
            RnIsRequest(i)' => RnFollows(r, crQueue[i].req)'
    <3> SUFFICES ASSUME NEW r \in RnTaken', NEW i \in DOMAIN crQueue', RnIsRequest(i)'
                 PROVE  RnFollows(r, crQueue'[i].req)
      BY DEF RnFollows
    <3>1. RnIsRequest(i + 1) /\ i + 1 \in DOMAIN crQueue /\ 1 < i + 1
          /\ crQueue'[i] = crQueue[i + 1]
      BY <2>2, <2>4
    <3> QED BY <1>0, <2>2, <2>3, <3>1 DEF RnLine
  <2>8. \A i, j \in DOMAIN crQueue' :
            RnIsRequest(i)' /\ RnIsRequest(j)' /\ i < j
               => RnFollows(crQueue[i].req, crQueue[j].req)'
    <3> SUFFICES ASSUME NEW i \in DOMAIN crQueue', NEW j \in DOMAIN crQueue',
                        RnIsRequest(i)', RnIsRequest(j)', i < j
                 PROVE  RnFollows(crQueue'[i].req, crQueue'[j].req)
      BY DEF RnFollows
    <3>1. /\ RnIsRequest(i + 1) /\ i + 1 \in DOMAIN crQueue /\ crQueue'[i] = crQueue[i + 1]
          /\ RnIsRequest(j + 1) /\ j + 1 \in DOMAIN crQueue /\ crQueue'[j] = crQueue[j + 1]
          /\ i + 1 < j + 1
      BY <2>2, <2>4
    <3> QED BY <1>0, <3>1 DEF RnLine
  <2>9. \A i \in DOMAIN crQueue' : crQueue'[i].cmd = "stop" => crStopped'
    BY <1>0, <1>u, <2>2 DEF RnLine
  <2>10. crLatest' =< crRevision'
    BY <1>0, <1>u DEF RnLine
  <2> QED BY <2>5, <2>6, <2>7, <2>8, <2>9, <2>10 DEF RnLine
<1>2. CASE ~CrTake
  <2>1. crPc' # "drain"
    BY <1>2 DEF CrWorkerNext, CrPrewarmed, CrWarm, CrDrained, CrCheck, CrStart,
       CrModelReturns, CrJudge, CrWithdraw, CrVerdict, CrPublish, CrEnd, CrGo
  <2>2. RnTaken' = {} /\ crQueue' = crQueue
    BY <1>2, <1>u, <2>1 DEF RnTaken
  <2> QED BY <1>0, <1>u, <2>2 DEF RnLine, RnPast, RnIsRequest, RnFollows
<1> QED BY <1>1, <1>2

\* One step of NewestKept.
RnKeepsNewest ==
    \A r \in CrWaiting :
        CrRequestIsCurrent(r)' /\ ~crPaused /\ ~crStopped => r \in CrWaiting' \/ crCurrent' = r

\* The newest request is in nobody's way: what is behind it would be newer.
LEMMA RnTakeKeepsNewest ==
    ASSUME RnInv, CrTake, NEW r \in CrWaiting, r.epoch = crEpoch, crLatest = r.rev, ~crStopped
    PROVE  r \in CrWaiting'
<1>0. RnTyped /\ RnLine
  BY DEF RnInv
<1>1. /\ crPc \in {"idle", "drain"} /\ crQueue # <<>> /\ crQueue' = Tail(crQueue)
  BY <1>0, RnTake
<1>2. /\ 1 \in DOMAIN crQueue /\ crQueue[1] \in CrCommand
      /\ \A i \in DOMAIN crQueue :
            i = 1 \/ (i - 1 \in DOMAIN crQueue' /\ crQueue'[i - 1] = crQueue[i])
  BY <1>0, <1>1, RnShift
<1>3. /\ RnIsRequest(1) => crQueue[1].req \in RnTaken'
      /\ crQueue[1].cmd \notin {"request", "stop"} => RnTaken' = RnTaken
  BY <1>0, RnTakenFrom
<1>4. \A x \in RnTaken' : x \in CrWaiting'
  BY DEF RnTaken, CrWaiting
<1>5. \/ r \in RnTaken
      \/ \E i \in DOMAIN crQueue : RnIsRequest(i) /\ r = crQueue[i].req
  BY <1>1 DEF RnTaken, CrWaiting, RnIsRequest
<1>6. CASE \E i \in DOMAIN crQueue : RnIsRequest(i) /\ r = crQueue[i].req
  <2>1. PICK i \in DOMAIN crQueue : RnIsRequest(i) /\ r = crQueue[i].req
    BY <1>6
  <2>2. CASE i = 1
    BY <1>3, <1>4, <2>1, <2>2
  <2>3. CASE i # 1
    <3>1. i - 1 \in DOMAIN crQueue' /\ crQueue'[i - 1] = crQueue[i]
      BY <1>2, <2>3
    <3>2. crQueue'[i - 1].cmd = "request" /\ r = crQueue'[i - 1].req
      BY <2>1, <3>1 DEF RnIsRequest
    <3> QED BY <3>1, <3>2 DEF CrWaiting
  <2> QED BY <2>2, <2>3
<1>7. CASE r \in RnTaken
  <2>1. CASE crQueue[1].cmd = "stop"
    BY <1>0, <1>2, <2>1 DEF RnLine
  <2>2. CASE crQueue[1].cmd = "request"
    <3>1. RnIsRequest(1) /\ crQueue[1].req \in CrRequest
      BY <1>0, <1>2, <2>2, RnHeld DEF RnIsRequest
    <3>2. RnPast(crQueue[1].req) /\ RnFollows(r, crQueue[1].req)
      BY <1>0, <1>2, <1>7, <3>1 DEF RnLine
    <3>3. r \in CrRequest
      BY <1>0, <1>7, RnHeld
    <3>4. /\ r.epoch \in Nat /\ r.rev \in Nat
          /\ crQueue[1].req.epoch \in Nat /\ crQueue[1].req.rev \in Nat
      BY <3>1, <3>3, RnRequest
    <3>5. crQueue[1].req.epoch = crEpoch
      BY <3>2, <3>4 DEF RnPast, RnFollows
    <3> QED BY <3>2, <3>4, <3>5 DEF RnPast, RnFollows
  <2>3. CASE crQueue[1].cmd \notin {"request", "stop"}
    BY <1>3, <1>4, <1>7, <2>3
  <2> QED BY <2>1, <2>2, <2>3
<1> QED BY <1>5, <1>6, <1>7

\* No step drops the newest request.
LEMMA RnNewestStep ==
    ASSUME RnInv, [CopilotRunnerNext]_crVars
    PROVE  RnKeepsNewest
<1>0. RnTyped
  BY DEF RnInv
<1> SUFFICES ASSUME NEW r \in CrWaiting, CrRequestIsCurrent(r)', ~crPaused, ~crStopped
             PROVE  r \in CrWaiting' \/ crCurrent' = r
  BY DEF RnKeepsNewest
<1>c. /\ r.epoch = crEpoch' /\ crLatest' = r.rev
      /\ r.partial # CrNone => r.partial[1] > crRetracted' /\ crPartial' = r.partial
  BY DEF CrRequestIsCurrent, CrGrounded
<1>1. CASE CrClientNext
  <2>1. UNCHANGED <<crPc, crPending>>
    BY <1>0, <1>1, RnClientLeaves DEF RnClientStep
  <2>2. \A i \in DOMAIN crQueue : i \in DOMAIN crQueue' /\ crQueue'[i] = crQueue[i]
    BY <1>0, <1>1, RnClientSends
  <2> QED BY <2>1, <2>2 DEF CrWaiting
<1>w. ASSUME CrWorkerNext
      PROVE  /\ UNCHANGED <<crPaused, crStopped, crEpoch, crLatest, crPartial, crRetracted>>
             /\ CrTake \/ UNCHANGED crQueue
  BY <1>w, RnWorkerLeaves DEF RnWorkerStep
<1>2. CASE CrTake
  <2>1. crEpoch' = crEpoch /\ crLatest' = crLatest
    BY <1>2, <1>w DEF CrWorkerNext
  <2> QED BY <1>2, <1>c, <2>1, RnTakeKeepsNewest
<1>3. CASE CrDrained
  BY <1>3 DEF CrDrained, CrGo, CrWaiting
<1>4. CASE CrCheck
  <2>1. UNCHANGED <<crEpoch, crLatest, crPartial, crRetracted, crQueue>>
    BY <1>4 DEF CrCheck, crRuntime
  <2>2. CrRequestIsCurrent(r)
    BY <1>c, <2>1 DEF CrRequestIsCurrent, CrGrounded
  <2>3. CASE crPc' = "start" /\ crPending' = crPending
    BY <1>4, <2>1, <2>3 DEF CrCheck, CrWaiting
  <2>4. CASE ~CrRequestIsCurrent(crPending.req)
    <3>1. r # crPending.req
      BY <2>2, <2>4
    <3> QED BY <2>1, <3>1 DEF CrWaiting
  <2> QED BY <1>4, <2>3, <2>4 DEF CrCheck
<1>5. CASE CrStart
  BY <1>5 DEF CrStart, CrGo, CrWaiting
<1>6. CASE CrPrewarmed \/ CrWarm
  BY <1>6 DEF CrPrewarmed, CrWarm, CrGo, CrWaiting
<1>7. CASE CrModelReturns \/ CrJudge
  BY <1>7 DEF CrModelReturns, CrJudge, CrGo, CrWaiting
<1>8. CASE CrWithdraw \/ CrEnd
  BY <1>8 DEF CrWithdraw, CrEnd, CrGo, CrWaiting
<1>9. CASE CrVerdict
  BY <1>9 DEF CrVerdict, CrWaiting
<1>10. CASE CrPublish
  BY <1>10 DEF CrPublish, CrGo, CrWaiting
<1>11. CASE UNCHANGED crVars
  BY <1>11 DEF crVars, crWorker, CrWaiting
<1> QED BY <1>1, <1>2, <1>3, <1>4, <1>5, <1>6, <1>7, <1>8, <1>9, <1>10, <1>11
        DEF CopilotRunnerNext, CrWorkerNext

-----------------------------------------------------------------------------
\* The invariant holds at the start,
LEMMA RnInitOk == CopilotRunnerInit => RnInv
<1> SUFFICES ASSUME CopilotRunnerInit PROVE RnInv
  OBVIOUS
<1>1. CopilotRunnerTypeOK
  <2>1. crQueue \in Seq(CrCommand) /\ Len(crQueue) = 0
    BY DEF CopilotRunnerInit
  <2>2. 1 \in 1..CrMaxEpoch /\ 0 \in 0..CrMaxRevision /\ 0 \in 0..CrMaxControls
        /\ 0 =< CrQueueMax
    BY CrAssumption
  <2> QED BY <2>1, <2>2 DEF CopilotRunnerInit, CopilotRunnerTypeOK
<1>2. DOMAIN crQueue = {} /\ crPc = "prewarm" /\ RnTaken = {}
  BY DEF CopilotRunnerInit, RnTaken
<1>3. RnLine
  BY <1>2 DEF RnLine, CopilotRunnerInit
<1> QED BY <1>1, <1>2, <1>3 DEF RnInv, RnTyped, RnHolds, RnCall, RnOwn, RnQuiet,
        ShownIsGrounded, CancelHeard, CopilotRunnerInit

\* and every step keeps it,
LEMMA RnNextKeeps ==
    ASSUME RnInv, [CopilotRunnerNext]_crVars
    PROVE  RnInv'
<1>1. CASE CopilotRunnerNext
  <2>1. RnTyped'
    BY <1>1, RnClientTypes, RnWorkerTypes DEF RnInv, CopilotRunnerNext
  <2>2. RnLine'
    BY <1>1, RnClientLine, RnWorkerLine DEF CopilotRunnerNext
  <2>3. RnCall' /\ CancelHeard' /\ ShownIsGrounded' /\ RnQuiet' /\ RnOwn'
    BY <1>1, RnCallKept, RnShownKept, RnQuietKept, RnOwnKept
  <2> QED BY <2>1, <2>2, <2>3 DEF RnInv
<1>2. CASE UNCHANGED crVars
  <2>1. RnTyped'
    BY <1>2 DEF RnInv, RnTyped, RnHolds, CopilotRunnerTypeOK, crVars, crRuntime, crWorker,
       crPolicy, crClients
  <2>2. RnLine'
    BY <1>2 DEF RnInv, RnLine, RnTaken, RnIsRequest, RnPast, RnFollows, crVars, crRuntime,
       crWorker, crClients
  <2>3. RnCall' /\ CancelHeard' /\ ShownIsGrounded'
    BY <1>2 DEF RnInv, RnCall, CancelHeard, ShownIsGrounded, crVars, crRuntime, crWorker
  <2>4. RnQuiet' /\ RnOwn'
    BY <1>2 DEF RnInv, RnQuiet, RnOwn, RnBegins, crVars, crRuntime, crWorker, crPolicy, crClients
  <2> QED BY <2>1, <2>2, <2>3, <2>4 DEF RnInv
<1> QED BY <1>1, <1>2

\* so it always holds.
LEMMA RnInvariant == CopilotRunnerSpec => []RnInv
BY RnInitOk, RnNextKeeps, PTL DEF CopilotRunnerSpec

\* The runtime, the channel, the worker and the policy keep their types (runner.rs:218-760).
THEOREM RunnerTyping == CopilotRunnerSpec => []CopilotRunnerTypeOK
<1>1. RnInv => CopilotRunnerTypeOK
  BY DEF RnInv, RnTyped
<1> QED BY <1>1, RnInvariant, PTL

\* What the fast lane shows is grounded in what still stands, comes from no cancelled
\* call, is not shown while paused, and is of this session; and the newest request
\* reaches the model (runner.rs:771-1035).
THEOREM Guidance == CopilotRunnerSpec => GuidanceKept
<1>1. RnInv => ShownIsGrounded /\ CancelHeard /\ PausedIsQuiet /\ NothingOfEndedSession
  <2>1. RnInv => PausedIsQuiet
    BY DEF RnInv, RnQuiet, PausedIsQuiet
  <2>2. RnInv => NothingOfEndedSession
    BY DEF RnInv, RnOwn, RnBegins, NothingOfEndedSession
  <2> QED BY <2>1, <2>2 DEF RnInv
<1>2. CopilotRunnerSpec
          => [](ShownIsGrounded /\ CancelHeard /\ PausedIsQuiet /\ NothingOfEndedSession)
  BY <1>1, RnInvariant, PTL
<1>3. RnInv /\ [CopilotRunnerNext]_crVars => [RnKeepsNewest]_crVars
  BY RnNewestStep
<1>4. CopilotRunnerSpec => [][RnKeepsNewest]_crVars
  BY <1>3, RnInvariant, PTL DEF CopilotRunnerSpec
<1>5. CopilotRunnerSpec => NewestKept
  BY <1>4, PTL DEF NewestKept, RnKeepsNewest
<1> QED BY <1>2, <1>5, PTL DEF GuidanceKept

-----------------------------------------------------------------------------
(* LiveSidekick: a session is consistent after any sequence of events *)

\* What is in a slot was issued, under its own number.
LsSlot(slot) ==
    slot # LsNone =>
        slot.inv.seq \in DOMAIN lsRuns /\ lsRuns[slot.inv.seq].inv = slot.inv

LsSlots == LsSlot(lsForeground) /\ LsSlot(lsBackground)

\* Nothing is retained before the capture, and no meeting known before the end.
LsPhased ==
    /\ lsPhase = "idle" => DOMAIN lsEvidence = {}
    /\ lsPhase # "finalized" => lsMeeting = LsNone

\* The types in four parts: what the phase, the invocations, the corrections
\* and the evidence are.
LsControlTyped ==
    /\ lsPhase \in LsPhases
    /\ lsPosture \in LsPostures
    /\ lsCapture \in LsCaptures \cup {LsNone}
    /\ lsMeeting \in LsMeetings \cup {LsNone}
    /\ lsPolicyGen \in 0..LsLimit
    /\ lsUserGen \in 0..LsLimit

LsRunsTyped ==
    /\ lsForeground \in LsTurn \cup {LsNone}
    /\ lsBackground \in LsRun \cup {LsNone}
    /\ lsNextSeq \in 1..LsLimit
    /\ lsRuns \in Seq(LsIssued)

LsCorrectionsTyped ==
    /\ lsRole \in [value : {0, 1}, revision : 0..LsLimit, source : LsIds \cup {LsNone}]
    /\ lsCorrections \in [DOMAIN lsCorrections -> LsCorrection]
    /\ DOMAIN lsCorrections \subseteq LsLabels
    /\ lsNextRevision \in 1..LsLimit

LsEvidenceTyped ==
    lsEvidence \in [DOMAIN lsEvidence -> LsItem] /\ DOMAIN lsEvidence \subseteq LsIds

LsTyped == LsControlTyped /\ LsRunsTyped /\ LsCorrectionsTyped /\ LsEvidenceTyped

LsInv ==
    /\ LsTyped
    /\ Answered
    /\ LsSlots
    /\ ResultTaken
    /\ ProvenanceKept
    /\ RevisionsDistinct
    /\ EvidenceBound
    /\ LsPhased

-----------------------------------------------------------------------------
(* The helpers of the reducer *)

\* The four parts are the types of the model.
LEMMA LsTypes == LsTyped <=> LiveSidekickTypeOK
<1>1. ASSUME NEW A, NEW B, NEW f
      PROVE  f \in UNION {[D -> B] : D \in SUBSET A}
                <=> f \in [DOMAIN f -> B] /\ DOMAIN f \subseteq A
  OBVIOUS
<1> QED
  BY <1>1 DEF LsTyped, LsControlTyped, LsRunsTyped, LsCorrectionsTyped, LsEvidenceTyped,
              LiveSidekickTypeOK

\* A statement of the user is bound to what the session is about.
LEMMA LsStatementIs ==
    ASSUME LsTyped
    PROVE  /\ LsStatement \in LsItem /\ LsStatement.kind = "statement"
           /\ LsStatement.capture \in {lsCapture, LsNone}
           /\ LsStatement.meeting \in {lsMeeting, LsNone}
BY DEF LsStatement, LsItem, LsKinds, LsTyped, LsControlTyped

\* What is pending is what is in the slots.
LEMMA LsPendingIs ==
    ASSUME LsRunsTyped, Answered, LsSlots
    PROVE  \A s \in DOMAIN lsRuns : s \in LsPending <=> lsRuns[s].fate = "pending"
<1> SUFFICES ASSUME NEW s \in DOMAIN lsRuns
             PROVE  s \in LsPending <=> lsRuns[s].fate = "pending"
  OBVIOUS
<1>1. s \in LsPending <=> \/ lsForeground # LsNone /\ lsForeground.inv.seq = s
                          \/ lsBackground # LsNone /\ lsBackground.inv.seq = s
  BY DEF LsPending
<1>2. lsRuns[s].inv.seq = s
  BY DEF Answered
<1>3. lsForeground # LsNone => (lsForeground.inv.seq = s <=> lsForeground.inv = lsRuns[s].inv)
  BY <1>2 DEF LsSlots, LsSlot
<1>4. lsBackground # LsNone => (lsBackground.inv.seq = s <=> lsBackground.inv = lsRuns[s].inv)
  BY <1>2 DEF LsSlots, LsSlot
<1> QED BY <1>1, <1>3, <1>4 DEF Answered

\* A cancellation changes the fate of what is pending, and nothing else.
LEMMA LsCancelledIs ==
    ASSUME LsRunsTyped, Answered, LsSlots
    PROVE  /\ LsCancelled \in Seq(LsIssued) /\ Len(LsCancelled) = Len(lsRuns)
           /\ DOMAIN LsCancelled = DOMAIN lsRuns
           /\ \A s \in DOMAIN lsRuns :
                 /\ LsCancelled[s].inv = lsRuns[s].inv
                 /\ LsCancelled[s].fate # "pending"
                 /\ LsCancelled[s] # lsRuns[s] =>
                       lsRuns[s].fate = "pending" /\ LsCancelled[s].fate = "cancelled"
<1>1. lsRuns \in Seq(LsIssued) /\ DOMAIN lsRuns = 1..Len(lsRuns) /\ Len(lsRuns) \in Nat
  BY DEF LsRunsTyped
<1>2. ASSUME NEW s \in DOMAIN lsRuns
      PROVE  /\ LsCancelled[s] \in LsIssued
             /\ LsCancelled[s].inv = lsRuns[s].inv
             /\ LsCancelled[s].fate # "pending"
             /\ LsCancelled[s] # lsRuns[s] =>
                   lsRuns[s].fate = "pending" /\ LsCancelled[s].fate = "cancelled"
  <2>1. lsRuns[s] \in LsIssued
    BY <1>1
  <2>2. CASE s \in LsPending
    <3>1. LsCancelled[s] = [lsRuns[s] EXCEPT !.fate = "cancelled"] /\ lsRuns[s].fate = "pending"
      BY <2>2, LsPendingIs DEF LsCancelled
    <3> QED BY <2>1, <3>1 DEF LsIssued
  <2>3. CASE s \notin LsPending
    <3>1. LsCancelled[s] = lsRuns[s] /\ lsRuns[s].fate # "pending"
      BY <2>3, LsPendingIs DEF LsCancelled
    <3> QED BY <2>1, <3>1
  <2> QED BY <2>2, <2>3
<1>3. DOMAIN LsCancelled = 1..Len(lsRuns)
  BY <1>1 DEF LsCancelled
<1>4. LsCancelled = [s \in 1..Len(lsRuns) |-> LsCancelled[s]]
  BY <1>1 DEF LsCancelled
<1> HIDE DEF LsCancelled
<1>5. LsCancelled \in [1..Len(lsRuns) -> LsIssued]
  BY <1>1, <1>2, <1>3, <1>4
<1>6. LsCancelled \in Seq(LsIssued)
  BY <1>1, <1>5, SeqDef
<1>7. Len(LsCancelled) = Len(lsRuns)
  BY <1>1, <1>3, <1>6, LenProperties
<1> QED BY <1>1, <1>2, <1>3, <1>6, <1>7

\* The sources that ProvenanceKept is about, one by one.
LsStated(id) == id # LsNone => id \in DOMAIN lsEvidence /\ lsEvidence[id].kind = "statement"

LsProvided ==
    /\ LsStated(lsRole.source)
    /\ lsForeground # LsNone => LsStated(lsForeground.source)
    /\ \A l \in DOMAIN lsCorrections : LsStated(lsCorrections[l].source)

LEMMA LsProvenance == ProvenanceKept <=> LsProvided
<1> DEFINE turn == IF lsForeground = LsNone THEN LsNone ELSE lsForeground.source
           sources == {lsRole.source, turn}
                        \cup {lsCorrections[l].source : l \in DOMAIN lsCorrections}
<1>1. ProvenanceKept <=> \A id \in sources : LsStated(id)
  BY DEF ProvenanceKept, LsStated
<1>2. \A id : id \in sources <=> \/ id = lsRole.source
                                 \/ id = turn
                                 \/ \E l \in DOMAIN lsCorrections : id = lsCorrections[l].source
  OBVIOUS
<1>3. LsStated(turn) <=> (lsForeground # LsNone => LsStated(lsForeground.source))
  BY DEF LsStated
<1> HIDE DEF sources, turn
<1> QED BY <1>1, <1>2, <1>3 DEF LsProvided

-----------------------------------------------------------------------------
(* What the steps do to the invocations.  LsFreshStep is the step of         *)
(* NothingStale.                                                             *)

LsFreshStep ==
    \A s \in DOMAIN lsRuns :
        lsRuns'[s] # lsRuns[s] =>
            /\ lsRuns[s].fate = "pending"
            /\ lsRuns'[s].fate = "published" =>
                  /\ lsRuns[s].inv.policy = lsPolicyGen'
                  /\ lsRuns[s].inv.user = lsUserGen'

LsRunsKept == LsRunsTyped' /\ Answered' /\ LsSlots' /\ LsFreshStep

\* A cancellation answers all that is in flight.
LEMMA LsCancelKeeps ==
    ASSUME LsInv, LsCancelInFlight, lsNextSeq' = lsNextSeq
    PROVE  LsRunsKept /\ ResultTaken'
<1>0. /\ lsForeground' = LsNone /\ lsBackground' = LsNone /\ lsRuns' = LsCancelled
      /\ LsRunsTyped /\ Answered /\ LsSlots
  BY DEF LsCancelInFlight, LsInv, LsTyped
<1>1. LsRunsTyped'
  BY <1>0, LsCancelledIs DEF LsRunsTyped
<1>2. Answered'
  BY <1>0, LsCancelledIs DEF Answered
<1>3. LsSlots' /\ ResultTaken'
  BY <1>0 DEF LsSlots, LsSlot, ResultTaken
<1>4. LsFreshStep
  BY <1>0, LsCancelledIs DEF LsFreshStep
<1> QED BY <1>1, <1>2, <1>3, <1>4 DEF LsRunsKept

\* An invocation is issued under the next number into an empty session: what was
\* in flight has been cancelled, or there was nothing.
LEMMA LsIssueKeeps ==
    ASSUME LsInv, NEW run \in LsIssued, run.fate = "pending", run.inv.seq = lsNextSeq,
           NEW runs \in Seq(LsIssued), Len(runs) = Len(lsRuns),
           \A s \in DOMAIN lsRuns :
              /\ runs[s].inv = lsRuns[s].inv
              /\ runs[s].fate # "pending"
              /\ runs[s] # lsRuns[s] =>
                    lsRuns[s].fate = "pending" /\ runs[s].fate = "cancelled",
           lsRuns' = Append(runs, run), lsNextSeq' = lsNextSeq + 1, lsNextSeq < LsLimit,
           \/ /\ lsForeground' \in LsTurn /\ lsForeground'.inv = run.inv
              /\ lsBackground' = LsNone
           \/ /\ lsBackground' \in LsRun /\ lsBackground'.inv = run.inv
              /\ lsForeground' = LsNone
    PROVE  LsRunsKept
<1>0. /\ lsRuns \in Seq(LsIssued) /\ Len(lsRuns) \in Nat /\ DOMAIN lsRuns = 1..Len(lsRuns)
      /\ lsNextSeq \in 1..LsLimit /\ lsNextSeq = Len(lsRuns) + 1 /\ LsLimit \in Nat
      /\ LsNone \notin LsTurn /\ LsNone \notin LsRun
  BY LsAssumption, LsNoneAssumption DEF LsInv, LsTyped, LsRunsTyped, Answered
<1>1. /\ lsRuns' \in Seq(LsIssued) /\ Len(lsRuns') = Len(lsRuns) + 1
      /\ lsRuns'[lsNextSeq] = run
      /\ \A s \in DOMAIN lsRuns : lsRuns'[s] = runs[s]
      /\ DOMAIN lsRuns' = DOMAIN lsRuns \cup {lsNextSeq} /\ lsNextSeq \notin DOMAIN lsRuns
  BY <1>0
<1>2. LsRunsTyped'
  <2>1. lsNextSeq' \in 1..LsLimit
    BY <1>0
  <2>2. lsForeground' \in LsTurn \cup {LsNone} /\ lsBackground' \in LsRun \cup {LsNone}
    OBVIOUS
  <2> QED BY <1>1, <2>1, <2>2 DEF LsRunsTyped
<1>3. \A s \in DOMAIN lsRuns : lsRuns'[s].inv.seq = s /\ lsRuns'[s].fate # "pending"
  BY <1>1 DEF LsInv, Answered
<1>4. \A s \in DOMAIN lsRuns' : lsRuns'[s].inv.seq = s
  BY <1>1, <1>3
<1>5. \A s \in DOMAIN lsRuns' : lsRuns'[s].inv = run.inv <=> s = lsNextSeq
  BY <1>1, <1>4
<1>6. \A s \in DOMAIN lsRuns' : lsRuns'[s].fate = "pending" <=> s = lsNextSeq
  BY <1>1, <1>3
<1>7. Answered'
  <2>1. \A s \in DOMAIN lsRuns' :
           (lsRuns'[s].fate = "pending") <=>
              \/ lsForeground' # LsNone /\ lsForeground'.inv = lsRuns'[s].inv
              \/ lsBackground' # LsNone /\ lsBackground'.inv = lsRuns'[s].inv
    BY <1>0, <1>5, <1>6
  <2>2. lsNextSeq' = Len(lsRuns') + 1
    BY <1>0, <1>1
  <2> QED BY <1>4, <2>1, <2>2 DEF Answered
<1>8. LsSlots'
  <2>1. run.inv.seq \in DOMAIN lsRuns' /\ lsRuns'[run.inv.seq].inv = run.inv
    BY <1>1
  <2> QED BY <2>1 DEF LsSlots, LsSlot
<1>9. LsFreshStep
  BY <1>1 DEF LsFreshStep
<1> QED BY <1>2, <1>7, <1>8, <1>9 DEF LsRunsKept

\* A result is published for what is in its slot, and empties it.
LEMMA LsPublishKeeps ==
    ASSUME LsInv, NEW s \in DOMAIN lsRuns,
           \/ LsForegroundCompleted(lsRuns[s])
           \/ LsBackgroundCompleted(lsRuns[s])
    PROVE  LsRunsKept /\ ResultTaken'
<1>0. /\ lsRuns \in Seq(LsIssued) /\ Len(lsRuns) \in Nat /\ DOMAIN lsRuns = 1..Len(lsRuns)
      /\ lsRuns[s] \in LsIssued /\ lsRuns[s].inv.seq = s
      /\ lsForeground \in LsTurn \cup {LsNone} /\ lsBackground \in LsRun \cup {LsNone}
  BY DEF LsInv, LsTyped, LsRunsTyped, Answered
<1>1. /\ lsForeground' = LsNone /\ lsBackground' = LsNone
      /\ lsRuns' = LsEnd(lsRuns[s], "published") /\ lsNextSeq' = lsNextSeq
      /\ LsCurrent(lsRuns[s].inv) /\ UNCHANGED <<lsPolicyGen, lsUserGen>>
      /\ \/ lsForeground # LsNone /\ lsForeground.inv = lsRuns[s].inv /\ lsBackground = LsNone
         \/ lsBackground # LsNone /\ lsBackground.inv = lsRuns[s].inv /\ lsForeground = LsNone
  <2>1. CASE LsForegroundCompleted(lsRuns[s])
    <3>1. lsForeground # LsNone /\ lsBackground = LsNone
      BY <2>1 DEF LsForegroundCompleted, LsTakesForeground, LsInv, ResultTaken, LsTakesBackground
    <3> QED BY <2>1, <3>1 DEF LsForegroundCompleted, LsTakesForeground
  <2>2. CASE LsBackgroundCompleted(lsRuns[s])
    BY <2>2 DEF LsBackgroundCompleted, LsTakesBackground
  <2> QED BY <2>1, <2>2
<1>2. lsRuns' = [lsRuns EXCEPT ![s].fate = "published"]
  BY <1>0, <1>1 DEF LsEnd
<1>3. /\ lsRuns' \in Seq(LsIssued) /\ Len(lsRuns') = Len(lsRuns) /\ DOMAIN lsRuns' = DOMAIN lsRuns
      /\ lsRuns'[s].inv = lsRuns[s].inv /\ lsRuns'[s].fate = "published"
      /\ \A r \in DOMAIN lsRuns \ {s} : lsRuns'[r] = lsRuns[r]
  <2> DEFINE run == [lsRuns[s] EXCEPT !.fate = "published"]
  <2>1. run \in LsIssued /\ run.inv = lsRuns[s].inv /\ run.fate = "published"
    BY <1>0 DEF LsIssued
  <2>2. lsRuns' = [lsRuns EXCEPT ![s] = run]
    BY <1>2
  <2> HIDE DEF run
  <2> QED BY <1>0, <2>1, <2>2
<1>4. LsRunsTyped'
  BY <1>1, <1>3 DEF LsInv, LsTyped, LsRunsTyped
<1>5. \A r \in DOMAIN lsRuns : lsRuns[r].fate = "pending" <=> r = s
  <2>1. \A r \in DOMAIN lsRuns : lsRuns[r].inv = lsRuns[s].inv => r = s
    BY <1>0 DEF LsInv, Answered
  <2> QED BY <1>1, <2>1 DEF LsInv, Answered
<1>6. Answered'
  <2>1. \A r \in DOMAIN lsRuns' : lsRuns'[r].fate # "pending"
    BY <1>3, <1>5
  <2>2. \A r \in DOMAIN lsRuns' : lsRuns'[r].inv.seq = r
    BY <1>3 DEF LsInv, Answered
  <2> QED BY <1>1, <1>3, <2>1, <2>2 DEF LsInv, Answered
<1>7. LsSlots' /\ ResultTaken'
  BY <1>1 DEF LsSlots, LsSlot, ResultTaken
<1>8. LsFreshStep
  BY <1>1, <1>3, <1>5 DEF LsFreshStep, LsCurrent
<1> QED BY <1>4, <1>6, <1>7, <1>8 DEF LsRunsKept

\* Whoever leaves the invocations makes nothing stale.
LEMMA LsIdleKeeps ==
    ASSUME LsInv, UNCHANGED lsInvocations
    PROVE  LsRunsKept
BY DEF LsInv, LsTyped, LsRunsKept, LsRunsTyped, Answered, LsSlots, LsSlot, LsFreshStep,
       lsInvocations

-----------------------------------------------------------------------------
(* What the steps do to the facts *)

LsFactsKept ==
    /\ LsCorrectionsTyped' /\ LsEvidenceTyped'
    /\ ProvenanceKept' /\ RevisionsDistinct' /\ EvidenceBound' /\ LsPhased'

\* Nothing is added: a turn at most ends, and the phase does not go back.
LEMMA LsSameFacts ==
    ASSUME LsInv, UNCHANGED lsFacts, UNCHANGED lsCapture,
           lsForeground' \in {lsForeground, LsNone},
           \/ UNCHANGED lsMeeting
           \/ lsMeeting = LsNone,
           LsPhased'
    PROVE  LsFactsKept
<1>1. LsCorrectionsTyped' /\ LsEvidenceTyped' /\ RevisionsDistinct'
  BY DEF lsFacts, LsInv, LsTyped, LsCorrectionsTyped, LsEvidenceTyped, RevisionsDistinct
<1>2. \A id : LsStated(id)' <=> LsStated(id)
  BY DEF lsFacts, LsStated
<1>3. ProvenanceKept'
  <2>1. /\ lsRole' = lsRole /\ lsCorrections' = lsCorrections
        /\ lsForeground' # LsNone => lsForeground' = lsForeground
    BY DEF lsFacts
  <2>2. LsProvided
    BY LsProvenance DEF LsInv
  <2>3. LsProvided'
    BY <2>1, <2>2 DEF LsProvided, LsStated, lsFacts
  <2> QED BY <2>3, LsProvenance, PTL
<1>4. EvidenceBound'
  BY DEF lsFacts, LsInv, EvidenceBound
<1> QED BY <1>1, <1>3, <1>4 DEF LsFactsKept

\* A new item of evidence leaves what is there.
LEMMA LsEvidenceGrows ==
    ASSUME LsInv, UNCHANGED lsControl, lsPhase # "idle",
           NEW id \in LsIds, id \notin DOMAIN lsEvidence, NEW item \in LsItem,
           item.capture \in {lsCapture, LsNone}, item.meeting \in {lsMeeting, LsNone},
           item.kind \in {"live", "screen"} => item.capture = lsCapture,
           lsEvidence' = LsWith(lsEvidence, id, item)
    PROVE  /\ LsEvidenceTyped' /\ EvidenceBound' /\ LsPhased'
           /\ lsEvidence'[id] = item /\ id \in DOMAIN lsEvidence'
           /\ \A n : LsStated(n) => LsStated(n)'
<1>0. lsEvidence \in [DOMAIN lsEvidence -> LsItem] /\ DOMAIN lsEvidence \subseteq LsIds
  BY DEF LsInv, LsTyped, LsEvidenceTyped
<1>1. /\ DOMAIN lsEvidence' = DOMAIN lsEvidence \cup {id} /\ DOMAIN lsEvidence' \subseteq LsIds
      /\ lsEvidence' \in [DOMAIN lsEvidence' -> LsItem]
      /\ lsEvidence'[id] = item
      /\ \A k \in DOMAIN lsEvidence : lsEvidence'[k] = lsEvidence[k]
  <2> DEFINE f == LsWith(lsEvidence, id, item)
  <2>1. /\ DOMAIN f = DOMAIN lsEvidence \cup {id} /\ f[id] = item
        /\ f = [k \in DOMAIN lsEvidence \cup {id} |-> f[k]]
        /\ \A k \in DOMAIN lsEvidence \ {id} : f[k] = lsEvidence[k]
    BY DEF LsWith
  <2>2. lsEvidence' = f
    OBVIOUS
  <2> HIDE DEF f
  <2>3. \A k \in DOMAIN f : f[k] \in LsItem
    BY <1>0, <2>1
  <2>4. f \in [DOMAIN f -> LsItem] /\ DOMAIN f \subseteq LsIds
    BY <1>0, <2>1, <2>3
  <2> QED BY <2>1, <2>2, <2>4
<1>2. EvidenceBound'
  <2>1. /\ lsCapture' = lsCapture /\ lsMeeting' = lsMeeting
        /\ lsEvidence'[id].capture \in {lsCapture, LsNone}
        /\ lsEvidence'[id].meeting \in {lsMeeting, LsNone}
        /\ lsEvidence'[id].kind \in {"live", "screen"} => lsEvidence'[id].capture = lsCapture
    BY <1>1 DEF lsControl
  <2>2. ASSUME NEW k \in DOMAIN lsEvidence
        PROVE  /\ lsEvidence'[k].capture \in {lsCapture, LsNone}
               /\ lsEvidence'[k].meeting \in {lsMeeting, LsNone}
               /\ lsEvidence'[k].kind \in {"live", "screen"} => lsEvidence'[k].capture = lsCapture
    BY <1>1 DEF LsInv, EvidenceBound
  <2> QED BY <1>1, <2>1, <2>2 DEF EvidenceBound
<1> QED
  BY <1>1, <1>2 DEF LsEvidenceTyped, LsPhased, LsInv, lsControl, LsStated

\* A statement of the user is evidence like this.
LEMMA LsStatementAdded ==
    ASSUME LsInv, UNCHANGED lsControl, LsAcceptsUserControl,
           NEW source \in LsIds, source \notin DOMAIN lsEvidence,
           lsEvidence' = LsWith(lsEvidence, source, LsStatement)
    PROVE  /\ LsEvidenceTyped' /\ EvidenceBound' /\ LsPhased'
           /\ LsStated(source)'
           /\ \A n : LsStated(n) => LsStated(n)'
<1>1. LsStatement \in LsItem /\ LsStatement.kind = "statement"
      /\ LsStatement.capture \in {lsCapture, LsNone} /\ LsStatement.meeting \in {lsMeeting, LsNone}
  BY LsStatementIs DEF LsInv
<1> QED BY <1>1, LsEvidenceGrows DEF LsStated, LsAcceptsUserControl

-----------------------------------------------------------------------------
(* The events, one by one *)

\* A message of the user cancels what is in flight and becomes the evidence of a new
\* turn.
LEMMA LsMessageStep ==
    ASSUME LsInv, NEW turn \in LsTurnIds, NEW source \in LsIds, LsUserMessage(turn, source)
    PROVE  LsInv' /\ LsFreshStep
<1> USE DEF LsUserMessage
<1> DEFINE inv == LsInvocationFor(lsUserGen + 1)
           run == [kind |-> "fg", id |-> turn, fate |-> "pending", inv |-> inv]
<1>0. /\ lsUserGen \in Nat /\ lsPolicyGen \in 0..LsLimit /\ lsNextSeq \in 1..LsLimit
      /\ lsUserGen + 1 \in 0..LsLimit
      /\ lsRuns \in Seq(LsIssued)
  BY LsAssumption DEF LsInv, LsTyped, LsControlTyped, LsRunsTyped, LsMayCount
<1>1. inv \in LsInvocation /\ inv.seq = lsNextSeq /\ inv.user = lsUserGen'
      /\ inv.policy = lsPolicyGen'
  BY <1>0 DEF LsInvocation, LsInvocationFor
<1>2. run \in LsIssued /\ run.fate = "pending" /\ run.inv = inv
  BY <1>1 DEF LsIssued
<1>3. /\ lsForeground' = [id |-> turn, source |-> source, inv |-> inv]
      /\ lsForeground' \in LsTurn /\ lsForeground' # LsNone
      /\ lsForeground'.inv = inv /\ lsForeground'.source = source /\ lsBackground' = LsNone
  BY <1>1, LsNoneAssumption DEF LsTurn
<1>4. lsRuns' = Append(LsCancelled, run) /\ lsNextSeq' = lsNextSeq + 1 /\ lsNextSeq < LsLimit
  BY DEF LsMayCount
<1> HIDE DEF inv, run
<1>5. LsRunsKept
  <2>1. /\ LsCancelled \in Seq(LsIssued) /\ Len(LsCancelled) = Len(lsRuns)
        /\ \A s \in DOMAIN lsRuns :
              /\ LsCancelled[s].inv = lsRuns[s].inv
              /\ LsCancelled[s].fate # "pending"
              /\ LsCancelled[s] # lsRuns[s] =>
                    lsRuns[s].fate = "pending" /\ LsCancelled[s].fate = "cancelled"
    BY LsCancelledIs DEF LsInv, LsTyped
  <2> QED BY <1>1, <1>2, <1>3, <1>4, <2>1, LsIssueKeeps
<1>6. /\ LsEvidenceTyped' /\ EvidenceBound' /\ LsPhased'
      /\ LsStated(source)'
      /\ \A n : LsStated(n) => LsStated(n)'
  BY LsStatementAdded
<1>7. ProvenanceKept'
  <2>1. LsProvided
    BY LsProvenance DEF LsInv
  <2>2. LsProvided'
    BY <1>3, <1>6, <2>1 DEF LsProvided, LsStated
  <2> QED BY <2>2, LsProvenance, PTL
<1>8. LsControlTyped' /\ LsCorrectionsTyped' /\ RevisionsDistinct'
  BY <1>0 DEF lsControl, LsInv, LsTyped, LsControlTyped, LsCorrectionsTyped, RevisionsDistinct
<1>9. ResultTaken'
  BY <1>1, <1>3 DEF ResultTaken, LsTakesForeground, LsCurrent, LsAcceptsUserControl, lsControl
<1> QED BY <1>5, <1>6, <1>7, <1>8, <1>9 DEF LsInv, LsTyped, LsRunsKept

\* An observation becomes evidence, and nothing else.
LEMMA LsObservationStep ==
    ASSUME LsInv, NEW id \in LsIds, NEW item \in LsItem, LsEvidenceObserved(id, item)
    PROVE  LsInv' /\ LsFreshStep
<1> USE DEF LsEvidenceObserved
<1>1. LsRunsKept
  BY LsIdleKeeps
<1>2. /\ item.capture \in {lsCapture, LsNone} /\ item.meeting \in {lsMeeting, LsNone}
      /\ item.kind \in {"live", "screen"} => item.capture = lsCapture
      /\ lsPhase # "idle"
  BY DEF LsBound, LsAcceptsEvidence
<1>3. /\ LsEvidenceTyped' /\ EvidenceBound' /\ LsPhased'
      /\ \A n : LsStated(n) => LsStated(n)'
  BY <1>2, LsEvidenceGrows
<1>4. ProvenanceKept'
  <2>1. LsProvided
    BY LsProvenance DEF LsInv
  <2>2. LsProvided'
    BY <1>3, <2>1 DEF LsProvided, LsStated, lsInvocations
  <2> QED BY <2>2, LsProvenance, PTL
<1>5. LsControlTyped' /\ LsCorrectionsTyped' /\ RevisionsDistinct'
  BY DEF lsControl, LsInv, LsTyped, LsControlTyped, LsCorrectionsTyped, RevisionsDistinct
<1>6. ResultTaken'
  BY DEF LsInv, ResultTaken, LsTakesForeground, LsTakesBackground, LsCurrent,
         LsAcceptsUserControl, lsControl, lsInvocations
<1> QED BY <1>1, <1>3, <1>4, <1>5, <1>6 DEF LsInv, LsTyped, LsRunsKept

\* What the corrections of the role and of a speaker share.
LEMMA LsCorrectStep ==
    ASSUME LsInv, NEW source \in LsIds, LsCorrect(source)
    PROVE  /\ LsRunsKept /\ ResultTaken' /\ LsControlTyped'
           /\ LsEvidenceTyped' /\ EvidenceBound' /\ LsPhased'
           /\ LsStated(source)'
           /\ \A n : LsStated(n) => LsStated(n)'
           /\ lsNextRevision' = lsNextRevision + 1 /\ lsNextRevision' \in 1..LsLimit
           /\ lsForeground' = LsNone
<1> USE DEF LsCorrect
<1>1. LsRunsKept /\ ResultTaken'
  BY LsCancelKeeps
<1>2. /\ LsEvidenceTyped' /\ EvidenceBound' /\ LsPhased'
      /\ LsStated(source)'
      /\ \A n : LsStated(n) => LsStated(n)'
  BY LsStatementAdded
<1>3. LsControlTyped' /\ lsNextRevision' \in 1..LsLimit
  BY LsAssumption DEF lsControl, LsInv, LsTyped, LsControlTyped, LsCorrectionsTyped, LsMayCount
<1> QED BY <1>1, <1>2, <1>3 DEF LsCancelInFlight

\* The role is corrected under the next revision, with the statement as its source.
LEMMA LsRoleStep ==
    ASSUME LsInv, NEW value \in {0, 1}, NEW source \in LsIds, LsRoleCorrected(value, source)
    PROVE  LsInv' /\ LsFreshStep
<1>1. /\ LsCorrect(source) /\ lsCorrections' = lsCorrections
      /\ lsRole' = [value |-> value, revision |-> lsNextRevision, source |-> source]
  BY DEF LsRoleCorrected
<1>2. /\ LsRunsKept /\ ResultTaken' /\ LsControlTyped'
      /\ LsEvidenceTyped' /\ EvidenceBound' /\ LsPhased'
      /\ LsStated(source)'
      /\ \A n : LsStated(n) => LsStated(n)'
      /\ lsNextRevision' = lsNextRevision + 1 /\ lsNextRevision' \in 1..LsLimit
      /\ lsForeground' = LsNone
  BY <1>1, LsCorrectStep
<1>3. LsProvided'
  BY <1>1, <1>2, LsProvenance DEF LsInv, LsProvided, LsStated
<1>4. ProvenanceKept'
  BY <1>3, LsProvenance, PTL
<1>5. /\ lsNextRevision \in 1..LsLimit /\ LsLimit \in Nat
      /\ lsCorrections \in [DOMAIN lsCorrections -> LsCorrection]
      /\ \A l \in DOMAIN lsCorrections : lsCorrections[l].revision \in Nat
  BY LsAssumption DEF LsInv, LsTyped, LsCorrectionsTyped, LsCorrection
<1>6. LsCorrectionsTyped'
  BY <1>1, <1>2, <1>5 DEF LsInv, LsTyped, LsCorrectionsTyped
<1>7. RevisionsDistinct'
  BY <1>1, <1>2, <1>5 DEF LsInv, RevisionsDistinct
<1> QED BY <1>2, <1>4, <1>6, <1>7 DEF LsInv, LsTyped, LsRunsKept

\* A speaker's correction replaces the one of the label, under the next revision.
LEMMA LsSpeakerStep ==
    ASSUME LsInv, NEW label \in LsLabels, NEW name \in LsNames, NEW source \in LsIds,
           LsSpeakerCorrected(label, name, source)
    PROVE  LsInv' /\ LsFreshStep
<1> DEFINE c == [name |-> name, revision |-> lsNextRevision, source |-> source]
<1>1. /\ LsCorrect(source) /\ lsRole' = lsRole
      /\ lsCorrections' = LsWith(lsCorrections, label, c)
  BY DEF LsSpeakerCorrected
<1>2. /\ LsRunsKept /\ ResultTaken' /\ LsControlTyped'
      /\ LsEvidenceTyped' /\ EvidenceBound' /\ LsPhased'
      /\ LsStated(source)'
      /\ \A n : LsStated(n) => LsStated(n)'
      /\ lsNextRevision' = lsNextRevision + 1 /\ lsNextRevision' \in 1..LsLimit
      /\ lsForeground' = LsNone
  BY <1>1, LsCorrectStep
<1>3. /\ lsNextRevision \in 1..LsLimit /\ LsLimit \in Nat
      /\ lsCorrections \in [DOMAIN lsCorrections -> LsCorrection]
      /\ DOMAIN lsCorrections \subseteq LsLabels
      /\ lsRole.revision \in Nat
  BY LsAssumption DEF LsInv, LsTyped, LsCorrectionsTyped
<1>4. \A l \in DOMAIN lsCorrections : lsCorrections[l].revision \in Nat
  BY <1>3 DEF LsCorrection
<1>5. c \in LsCorrection /\ c.revision = lsNextRevision /\ c.source = source
  BY <1>3 DEF LsCorrection
<1> HIDE DEF c
<1>6. /\ DOMAIN lsCorrections' = DOMAIN lsCorrections \cup {label}
      /\ DOMAIN lsCorrections' \subseteq LsLabels
      /\ lsCorrections' \in [DOMAIN lsCorrections' -> LsCorrection]
      /\ lsCorrections'[label] = c
      /\ \A l \in DOMAIN lsCorrections \ {label} : lsCorrections'[l] = lsCorrections[l]
  <2> DEFINE f == LsWith(lsCorrections, label, c)
  <2>1. /\ DOMAIN f = DOMAIN lsCorrections \cup {label} /\ f[label] = c
        /\ f = [k \in DOMAIN lsCorrections \cup {label} |-> f[k]]
        /\ \A k \in DOMAIN lsCorrections \ {label} : f[k] = lsCorrections[k]
    BY DEF LsWith
  <2>2. lsCorrections' = f
    BY <1>1
  <2> HIDE DEF f
  <2>3. \A k \in DOMAIN f : f[k] \in LsCorrection
    BY <1>3, <1>5, <2>1
  <2>4. f \in [DOMAIN f -> LsCorrection] /\ DOMAIN f \subseteq LsLabels
    BY <1>3, <1>5, <2>1, <2>3
  <2> QED BY <2>1, <2>2, <2>4
<1>7. LsProvided'
  <2>1. LsProvided
    BY LsProvenance DEF LsInv
  <2>2. \A l \in DOMAIN lsCorrections' :
           lsCorrections'[l].source = source \/
           (l \in DOMAIN lsCorrections /\ lsCorrections'[l] = lsCorrections[l])
    BY <1>5, <1>6
  <2>3. ASSUME NEW l \in DOMAIN lsCorrections'
        PROVE  LsStated(lsCorrections[l].source)'
    BY <1>2, <2>1, <2>2 DEF LsProvided, LsStated
  <2>4. LsStated(lsRole.source)'
    BY <1>1, <1>2, <2>1 DEF LsProvided, LsStated
  <2> QED BY <1>2, <2>3, <2>4 DEF LsProvided
<1>8. ProvenanceKept'
  BY <1>7, LsProvenance, PTL
<1>9. LsCorrectionsTyped'
  BY <1>1, <1>2, <1>6 DEF LsInv, LsTyped, LsCorrectionsTyped
<1>10. RevisionsDistinct'
  <2>1. \A l \in DOMAIN lsCorrections' :
           \/ l = label /\ lsCorrections'[l].revision = lsNextRevision
           \/ /\ l \in DOMAIN lsCorrections /\ l # label
              /\ lsCorrections'[l].revision = lsCorrections[l].revision
    BY <1>5, <1>6
  <2>2. /\ lsRole'.revision < lsNextRevision
        /\ \A l \in DOMAIN lsCorrections :
              /\ lsCorrections[l].revision < lsNextRevision
              /\ lsCorrections[l].revision # lsRole.revision
              /\ \A m \in DOMAIN lsCorrections \ {l} :
                    lsCorrections[l].revision # lsCorrections[m].revision
    BY <1>1 DEF LsInv, RevisionsDistinct
  <2>3. ASSUME NEW l \in DOMAIN lsCorrections'
        PROVE  /\ lsCorrections'[l].revision < lsNextRevision'
               /\ lsCorrections'[l].revision # lsRole'.revision
    BY <1>1, <1>2, <1>3, <1>4, <2>1, <2>2
  <2>4. ASSUME NEW l \in DOMAIN lsCorrections', NEW m \in DOMAIN lsCorrections' \ {l}
        PROVE  lsCorrections'[l].revision # lsCorrections'[m].revision
    <3>1. CASE l = label
      BY <1>3, <1>4, <2>1, <2>2, <2>4, <3>1
    <3>2. CASE m = label
      BY <1>3, <1>4, <2>1, <2>2, <2>4, <3>2
    <3>3. CASE l # label /\ m # label
      BY <2>1, <2>2, <2>4, <3>3
    <3> QED BY <3>1, <3>2, <3>3
  <2>5. lsRole'.revision < lsNextRevision'
    BY <1>1, <1>2, <1>3, <2>2
  <2> QED BY <2>3, <2>4, <2>5 DEF RevisionsDistinct
<1> QED BY <1>2, <1>8, <1>9, <1>10 DEF LsInv, LsTyped, LsRunsKept

\* The events that add no fact.
LEMMA LsPostureStep ==
    ASSUME LsInv, NEW posture \in LsPostures, LsPostureChanged(posture)
    PROVE  LsInv' /\ LsFreshStep
<1> USE DEF LsPostureChanged
<1>1. LsRunsKept /\ ResultTaken'
  BY LsCancelKeeps
<1>2. LsControlTyped' /\ LsPhased'
  BY LsAssumption, LsSameFacts
  DEF LsInv, LsTyped, LsControlTyped, LsPhased, lsFacts, LsMayCount
<1>3. LsFactsKept
  BY <1>2, LsSameFacts DEF LsCancelInFlight
<1> QED BY <1>1, <1>2, <1>3 DEF LsInv, LsTyped, LsRunsKept, LsFactsKept

\* A background run is issued when nothing is in flight, and its result is published
\* while it is current.
LEMMA LsBackgroundStep ==
    ASSUME LsInv, NEW run \in LsTurnIds, LsBackgroundStarted(run)
    PROVE  LsInv' /\ LsFreshStep
<1> USE DEF LsBackgroundStarted
<1> DEFINE inv == LsInvocationFor(lsUserGen)
           issued == [kind |-> "bg", id |-> run, fate |-> "pending", inv |-> inv]
<1>0. /\ lsUserGen \in 0..LsLimit /\ lsPolicyGen \in 0..LsLimit /\ lsNextSeq \in 1..LsLimit
      /\ lsRuns \in Seq(LsIssued)
  BY DEF LsInv, LsTyped, LsControlTyped, LsRunsTyped
<1>1. inv \in LsInvocation /\ inv.seq = lsNextSeq /\ inv.user = lsUserGen'
      /\ inv.policy = lsPolicyGen'
  BY <1>0 DEF LsInvocation, LsInvocationFor
<1>2. issued \in LsIssued /\ issued.fate = "pending" /\ issued.inv = inv
  BY <1>1 DEF LsIssued
<1>3. /\ lsBackground' = [id |-> run, inv |-> inv]
      /\ lsBackground' \in LsRun /\ lsBackground'.inv = inv
      /\ lsForeground' = LsNone
  BY <1>1 DEF LsRun
<1>4. lsRuns' = Append(lsRuns, issued) /\ lsNextSeq' = lsNextSeq + 1 /\ lsNextSeq < LsLimit
  BY DEF LsMayCount
<1> HIDE DEF inv, issued
<1>5. LsRunsKept
  <2>1. \A s \in DOMAIN lsRuns : lsRuns[s].fate # "pending"
    BY DEF LsInv, Answered
  <2> QED BY <1>0, <1>1, <1>2, <1>3, <1>4, <2>1, LsIssueKeeps
<1>6. LsControlTyped' /\ LsPhased'
  BY DEF LsInv, LsTyped, LsControlTyped, LsPhased, lsFacts, lsControl
<1>7. LsFactsKept
  BY <1>6, LsSameFacts DEF lsControl
<1>8. ResultTaken'
  BY <1>1, <1>3 DEF ResultTaken, LsTakesBackground, LsCurrent, lsControl
<1> QED BY <1>5, <1>6, <1>7, <1>8 DEF LsInv, LsTyped, LsRunsKept, LsFactsKept

\* An answer that is published empties its slot.
LEMMA LsCompletedStep ==
    ASSUME LsInv, NEW s \in DOMAIN lsRuns,
           \/ LsForegroundCompleted(lsRuns[s])
           \/ LsBackgroundCompleted(lsRuns[s])
    PROVE  LsInv' /\ LsFreshStep
<1>1. LsRunsKept /\ ResultTaken'
  BY LsPublishKeeps
<1>2. /\ UNCHANGED <<lsControl, lsFacts, lsPolicyGen, lsUserGen>>
      /\ lsForeground' \in {lsForeground, LsNone}
  BY DEF LsForegroundCompleted, LsBackgroundCompleted
<1>3. LsControlTyped' /\ LsPhased'
  BY <1>2 DEF LsInv, LsTyped, LsControlTyped, LsPhased, lsFacts, lsControl
<1>4. LsFactsKept
  BY <1>2, <1>3, LsSameFacts DEF lsControl
<1> QED BY <1>1, <1>3, <1>4 DEF LsInv, LsTyped, LsRunsKept, LsFactsKept

\* A new policy cancels what is in flight, and the evidence, the corrections and the
\* sources are forgotten together.
LEMMA LsPolicyStep ==
    ASSUME LsInv, NEW generation \in LsGenerations, LsPolicyInvalidated(generation)
    PROVE  LsInv' /\ LsFreshStep
<1> USE DEF LsPolicyInvalidated
<1>1. LsRunsKept /\ ResultTaken'
  BY LsCancelKeeps
<1>2. LsControlTyped' /\ LsPhased'
  BY LsAssumption DEF LsInv, LsTyped, LsControlTyped, LsPhased, lsControl, LsEmpty
<1>3. /\ DOMAIN lsEvidence' = {} /\ DOMAIN lsCorrections' = {}
      /\ lsRole'.source = LsNone /\ lsRole'.revision = lsRole.revision
      /\ lsForeground' = LsNone
  BY DEF LsEmpty, LsInv, LsTyped, LsCorrectionsTyped, LsCancelInFlight
<1>4. LsProvided'
  BY <1>3 DEF LsProvided, LsStated
<1>5. ProvenanceKept'
  BY <1>4, LsProvenance, PTL
<1>6. RevisionsDistinct' /\ EvidenceBound'
  BY <1>3 DEF RevisionsDistinct, EvidenceBound, LsInv
<1>7. LsCorrectionsTyped' /\ LsEvidenceTyped'
  BY <1>3 DEF LsCorrectionsTyped, LsEvidenceTyped, LsEmpty, LsInv, LsTyped
<1> QED BY <1>1, <1>2, <1>5, <1>6, <1>7 DEF LsInv, LsTyped, LsRunsKept

\* When the capture stops, and when its meeting is known, nothing stays in flight.
LEMMA LsLifecycleStep ==
    ASSUME LsInv, LsLifecycle
    PROVE  LsInv' /\ LsFreshStep
<1> PICK capture \in LsCaptures :
      \/ LsCaptureStarted(capture)
      \/ LsCaptureStopped(capture)
      \/ LsProcessingStarted(capture)
      \/ \E meeting \in LsMeetings : LsMeetingFinalized(capture, meeting)
  BY DEF LsLifecycle
<1>1. CASE LsCaptureStarted(capture)
  <2> USE <1>1 DEF LsCaptureStarted
  <2>1. LsRunsKept
    BY LsIdleKeeps
  <2>2. lsForeground = LsNone /\ lsBackground = LsNone /\ DOMAIN lsEvidence = {}
        /\ lsMeeting = LsNone
    BY DEF LsInv, ResultTaken, LsTakesForeground, LsTakesBackground, LsAcceptsUserControl, LsPhased
  <2>3. LsControlTyped' /\ LsPhased'
    BY <2>2 DEF LsInv, LsTyped, LsControlTyped, LsPhased, LsPhases
  <2>4. ResultTaken'
    BY <2>2 DEF ResultTaken, lsInvocations
  <2>5. /\ LsCorrectionsTyped' /\ LsEvidenceTyped' /\ RevisionsDistinct' /\ EvidenceBound'
    BY <2>2
    DEF lsFacts, LsInv, LsTyped, LsCorrectionsTyped, LsEvidenceTyped, RevisionsDistinct,
        EvidenceBound
  <2>6. LsProvided'
    BY LsProvenance DEF LsInv, LsProvided, LsStated, lsFacts, lsInvocations
  <2>7. ProvenanceKept'
    BY <2>6, LsProvenance, PTL
  <2> QED BY <2>1, <2>3, <2>4, <2>5, <2>7 DEF LsInv, LsTyped, LsRunsKept
<1>2. CASE \/ LsCaptureStopped(capture)
           \/ \E meeting \in LsMeetings : LsMeetingFinalized(capture, meeting)
  <2>1. LsRunsKept /\ ResultTaken'
    BY <1>2, LsCancelKeeps DEF LsCaptureStopped, LsMeetingFinalized
  <2>2. LsControlTyped' /\ LsPhased'
    BY <1>2 DEF LsCaptureStopped, LsMeetingFinalized, LsInv, LsTyped, LsControlTyped, LsPhased,
                LsPhases, lsFacts
  <2>3. LsFactsKept
    <3>1. lsMeeting' = lsMeeting \/ lsMeeting = LsNone
      BY <1>2 DEF LsCaptureStopped, LsMeetingFinalized, LsInv, LsPhased
    <3> QED BY <1>2, <2>2, <3>1, LsSameFacts
            DEF LsCaptureStopped, LsMeetingFinalized, LsCancelInFlight
  <2> QED BY <2>1, <2>2, <2>3 DEF LsInv, LsTyped, LsRunsKept, LsFactsKept
<1>3. CASE LsProcessingStarted(capture)
  <2> USE <1>3 DEF LsProcessingStarted
  <2>1. LsRunsKept
    BY LsIdleKeeps
  <2>2. LsControlTyped' /\ LsPhased'
    BY DEF LsInv, LsTyped, LsControlTyped, LsPhased, LsPhases, lsFacts
  <2>3. LsFactsKept
    BY <2>2, LsSameFacts DEF lsInvocations
  <2>4. ResultTaken'
    BY DEF LsInv, ResultTaken, LsTakesForeground, LsTakesBackground, LsCurrent,
           LsAcceptsUserControl, lsInvocations
  <2> QED BY <2>1, <2>2, <2>3, <2>4 DEF LsInv, LsTyped, LsRunsKept, LsFactsKept
<1> QED BY <1>1, <1>2, <1>3

-----------------------------------------------------------------------------
\* An idle session has issued nothing.
LEMMA LsInitOk == LiveSidekickInit => LsInv
<1> SUFFICES ASSUME LiveSidekickInit PROVE LsInv
  OBVIOUS
<1> USE LsAssumption DEF LiveSidekickInit
<1>1. LsControlTyped /\ LsRunsTyped
  BY DEF LsControlTyped, LsRunsTyped, LsPhases
<1>2. DOMAIN lsEvidence = {} /\ DOMAIN lsCorrections = {}
  BY DEF LsEmpty
<1>3. LsCorrectionsTyped /\ LsEvidenceTyped
  BY <1>2 DEF LsCorrectionsTyped, LsEvidenceTyped, LsEmpty
<1>4. Answered /\ LsSlots /\ ResultTaken
  BY DEF Answered, LsSlots, LsSlot, ResultTaken
<1>5. LsProvided
  BY <1>2 DEF LsProvided, LsStated
<1>6. ProvenanceKept
  BY <1>5, LsProvenance
<1>7. RevisionsDistinct /\ EvidenceBound /\ LsPhased
  BY <1>2 DEF RevisionsDistinct, EvidenceBound, LsPhased
<1> QED BY <1>1, <1>3, <1>4, <1>6, <1>7 DEF LsInv, LsTyped

\* Every event keeps the invariant and publishes nothing stale.
LEMMA LsNextKeeps ==
    ASSUME LsInv, [LiveSidekickNext]_lsVars
    PROVE  LsInv' /\ LsFreshStep
<1>1. CASE LsUserEvent
  BY <1>1, LsMessageStep, LsRoleStep, LsSpeakerStep DEF LsUserEvent
<1>2. CASE LsObservation
  BY <1>2, LsAssumption, LsObservationStep DEF LsObservation
<1>3. CASE LsResult
  BY <1>3, LsCompletedStep DEF LsResult
<1>4. CASE LsLifecycle
  BY <1>4, LsLifecycleStep
<1>5. CASE \/ \E posture \in LsPostures : LsPostureChanged(posture)
           \/ \E run \in LsTurnIds : LsBackgroundStarted(run)
           \/ \E generation \in LsGenerations : LsPolicyInvalidated(generation)
  BY <1>5, LsPostureStep, LsBackgroundStep, LsPolicyStep
<1>6. CASE UNCHANGED lsVars
  <2>1. LsRunsKept
    BY <1>6, LsIdleKeeps DEF lsVars
  <2>2. LsControlTyped' /\ LsPhased' /\ ResultTaken'
    BY <1>6 DEF lsVars, lsControl, lsFacts, lsInvocations, LsInv, LsTyped, LsControlTyped, LsPhased,
                ResultTaken, LsTakesForeground, LsTakesBackground, LsCurrent, LsAcceptsUserControl
  <2>3. LsFactsKept
    BY <1>6, <2>2, LsSameFacts DEF lsVars, lsControl, lsInvocations
  <2> QED BY <2>1, <2>2, <2>3 DEF LsInv, LsTyped, LsRunsKept, LsFactsKept
<1> QED BY <1>1, <1>2, <1>3, <1>4, <1>5, <1>6 DEF LiveSidekickNext

\* So the invariant holds always.
LEMMA LsInvariance == LiveSidekickSpec => []LsInv
BY LsInitOk, LsNextKeeps, PTL DEF LiveSidekickSpec

\* The state of a session is of the type TLC checks.
THEOREM SessionTyping == LiveSidekickSpec => []LiveSidekickTypeOK
<1>1. LsInv => LiveSidekickTypeOK
  BY LsTypes DEF LsInv
<1> QED BY <1>1, LsInvariance, PTL

\* After any sequence of events, invocations, their slots, the corrections, their
\* sources and the evidence agree, and no stale result is published, however late
\* or often results come.
THEOREM Consistent == LiveSidekickSpec => SidekickConsistent
<1>1. LsInv => /\ Answered /\ ResultTaken /\ ProvenanceKept /\ RevisionsDistinct
               /\ EvidenceBound
  BY DEF LsInv
<1>2. LsInv /\ [LiveSidekickNext]_lsVars => [LsFreshStep]_lsVars
  BY LsNextKeeps
<1> QED BY <1>1, <1>2, LsInvariance, PTL
        DEF LiveSidekickSpec, SidekickConsistent, NothingStale, LsFreshStep

=============================================================================
