---------------------------- MODULE LiveSidekick ----------------------------
(***************************************************************************)
(* The live assistance session of crates/core/src/live_sidekick/session.rs *)
(* : a reducer of ordered events.  Inference runs outside it, so a result  *)
(* may come late, twice, or not at all, after a cancellation it did not    *)
(* heed, and under a turn or run id that has been used again.              *)
(*                                                                         *)
(* The text, the surface and the display values of events are left out; an *)
(* event that the reducer rejects changes nothing, and only its guard is   *)
(* here.                                                                   *)
(***************************************************************************)
EXTENDS Naturals, Sequences

CONSTANTS
    LsIds,       \* evidence and source event ids
    LsObserved,  \* those that evidence comes with; any id may be a user statement's
    LsTurnIds,   \* ids that callers give to foreground turns and background runs
    LsCaptures,  \* capture sessions
    LsMeetings,  \* finalized meetings
    LsLabels,    \* speaker labels
    LsNames,     \* speaker names
    LsGenerations, \* policy generations that callers announce
    LsNone,      \* Option::None
    LsLimit      \* the largest number of the counters (2^64 - 1 in the code)

ASSUME LsAssumption ==
    /\ LsLimit \in Nat \ {0}
    /\ LsGenerations \subseteq 0..LsLimit
    /\ LsObserved \subseteq LsIds
    /\ LsNone \notin LsIds \cup LsTurnIds \cup LsCaptures \cup LsMeetings

VARIABLES
    lsPhase, lsPosture, lsCapture, lsMeeting,
    lsRole,          \* the role's value, its revision and the event it came from
    lsPolicyGen,     \* source_policy_generation
    lsUserGen,       \* user_generation
    lsForeground,    \* foreground_turn
    lsBackground,    \* background_run
    lsEvidence,      \* evidence: the retained ids and what they are
    lsCorrections,   \* speaker_corrections: label -> revision and source
    lsNextSeq,       \* next_invocation_sequence
    lsNextRevision,  \* next_correction_revision
    lsRuns           \* the invocations issued so far, by sequence, and the fate
                     \* that the emitted actions gave each

lsControl == <<lsPhase, lsPosture, lsCapture, lsMeeting>>
lsFacts == <<lsRole, lsEvidence, lsCorrections, lsNextRevision>>
lsInvocations == <<lsForeground, lsBackground, lsNextSeq, lsRuns>>
lsVars == <<lsControl, lsFacts, lsInvocations, lsPolicyGen, lsUserGen>>

LsPhases == {"idle", "ready", "ended", "processing", "finalized"}
LsPostures == {"on_demand", "watching"}

\* "live" stands for transcript lines, "screen" for images, desktop metadata and
\* nudges, "document" for meeting artifacts and repository results.
LsKinds == {"live", "screen", "document", "statement"}

LsInvocation == [seq : 1..LsLimit, policy : 0..LsLimit, user : 0..LsLimit]
LsTurn == [id : LsTurnIds, source : LsIds, inv : LsInvocation]
LsRun == [id : LsTurnIds, inv : LsInvocation]
LsIssued == [kind : {"fg", "bg"}, id : LsTurnIds, inv : LsInvocation,
             fate : {"pending", "published", "cancelled"}]
LsItem == [kind : LsKinds, capture : LsCaptures \cup {LsNone},
           meeting : LsMeetings \cup {LsNone}]
LsCorrection == [name : LsNames, revision : 1..LsLimit, source : LsIds]

\* Option::None is no turn and no run.
ASSUME LsNoneAssumption == LsNone \notin LsTurn \cup LsRun

LiveSidekickTypeOK ==
    /\ lsPhase \in LsPhases
    /\ lsPosture \in LsPostures
    /\ lsCapture \in LsCaptures \cup {LsNone}
    /\ lsMeeting \in LsMeetings \cup {LsNone}
    /\ lsRole \in [value : {0, 1}, revision : 0..LsLimit, source : LsIds \cup {LsNone}]
    /\ lsPolicyGen \in 0..LsLimit
    /\ lsUserGen \in 0..LsLimit
    /\ lsForeground \in LsTurn \cup {LsNone}
    /\ lsBackground \in LsRun \cup {LsNone}
    /\ lsEvidence \in UNION {[D -> LsItem] : D \in SUBSET LsIds}
    /\ lsCorrections \in UNION {[D -> LsCorrection] : D \in SUBSET LsLabels}
    /\ lsNextSeq \in 1..LsLimit
    /\ lsNextRevision \in 1..LsLimit
    /\ lsRuns \in Seq(LsIssued)

LsEmpty == [x \in {} |-> LsNone]

\* LiveAssistanceSession::new
LiveSidekickInit ==
    /\ lsPhase = "idle"
    /\ lsPosture \in LsPostures
    /\ lsCapture = LsNone
    /\ lsMeeting = LsNone
    /\ lsRole = [value |-> 0, revision |-> 0, source |-> LsNone]
    /\ lsPolicyGen = 0
    /\ lsUserGen = 0
    /\ lsForeground = LsNone
    /\ lsBackground = LsNone
    /\ lsEvidence = LsEmpty
    /\ lsCorrections = LsEmpty
    /\ lsNextSeq = 1
    /\ lsNextRevision = 1
    /\ lsRuns = <<>>

-----------------------------------------------------------------------------
(* Helpers of the reducer *)

LsAcceptsUserControl == lsPhase # "idle"

\* checked_add fails at the largest number: GenerationExhausted.
LsMayCount(n) == n < LsLimit

\* The id that user statements are bound to: capture or finalized meeting.
LsStatement ==
    [kind |-> "statement",
     capture |-> IF lsPhase = "finalized" THEN LsNone ELSE lsCapture,
     meeting |-> IF lsPhase = "finalized" THEN lsMeeting ELSE LsNone]

LsWith(f, key, value) ==
    [k \in DOMAIN f \cup {key} |-> IF k = key THEN value ELSE f[k]]

\* cancel_in_flight, cancel_background: the slots are emptied and a cancellation
\* is emitted for what was in them.
LsPending ==
    {lsForeground.inv.seq : x \in IF lsForeground = LsNone THEN {} ELSE {1}}
      \cup {lsBackground.inv.seq : x \in IF lsBackground = LsNone THEN {} ELSE {1}}

LsCancelled ==
    [s \in DOMAIN lsRuns |->
        IF s \in LsPending THEN [lsRuns[s] EXCEPT !.fate = "cancelled"] ELSE lsRuns[s]]

LsCancelInFlight ==
    /\ lsForeground' = LsNone
    /\ lsBackground' = LsNone
    /\ lsRuns' = LsCancelled

LsEnd(run, fate) == [lsRuns EXCEPT ![run.inv.seq].fate = fate]

-----------------------------------------------------------------------------
(* Events *)

LsCaptureStarted(capture) ==
    /\ lsPhase = "idle"
    /\ lsCapture' = capture
    /\ lsPhase' = "ready"
    /\ UNCHANGED <<lsPosture, lsMeeting, lsFacts, lsInvocations, lsPolicyGen, lsUserGen>>

LsAcceptsEvidence(kind) ==
    \/ lsPhase = "ready"
    \/ lsPhase \in {"ended", "processing"} /\ kind \in {"live", "document"}
    \/ lsPhase = "finalized" /\ kind = "document"

\* Evidence must be of this capture, or, once finalized, of this meeting.
LsBound(item) ==
    IF lsPhase = "finalized"
    THEN item.capture = LsNone /\ item.meeting = lsMeeting
    ELSE /\ item.meeting = LsNone
         /\ \/ item.capture = lsCapture
            \/ item.capture = LsNone /\ item.kind = "document"

LsEvidenceObserved(id, item) ==
    /\ LsAcceptsEvidence(item.kind)
    /\ item.kind # "statement"
    /\ LsBound(item)
    /\ id \notin DOMAIN lsEvidence
    /\ lsEvidence' = LsWith(lsEvidence, id, item)
    /\ UNCHANGED <<lsControl, lsRole, lsCorrections, lsNextRevision, lsInvocations,
                   lsPolicyGen, lsUserGen>>

LsInvocationFor(user) == [seq |-> lsNextSeq, policy |-> lsPolicyGen, user |-> user]

LsUserMessage(turn, source) ==
    /\ LsAcceptsUserControl
    /\ source \notin DOMAIN lsEvidence
    /\ lsForeground # LsNone => lsForeground.id # turn
    /\ LsMayCount(lsUserGen) /\ LsMayCount(lsNextSeq)
    /\ lsUserGen' = lsUserGen + 1
    /\ lsNextSeq' = lsNextSeq + 1
    /\ lsBackground' = LsNone
    /\ lsEvidence' = LsWith(lsEvidence, source, LsStatement)
    /\ lsForeground' = [id |-> turn, source |-> source, inv |-> LsInvocationFor(lsUserGen + 1)]
    /\ lsRuns' = Append(LsCancelled, [kind |-> "fg", id |-> turn, fate |-> "pending",
                                      inv |-> LsInvocationFor(lsUserGen + 1)])
    /\ UNCHANGED <<lsControl, lsRole, lsCorrections, lsNextRevision, lsPolicyGen>>

\* What the two corrections share.
LsCorrect(source) ==
    /\ LsAcceptsUserControl
    /\ source \notin DOMAIN lsEvidence
    /\ LsMayCount(lsUserGen) /\ LsMayCount(lsNextRevision)
    /\ lsUserGen' = lsUserGen + 1
    /\ lsNextRevision' = lsNextRevision + 1
    /\ LsCancelInFlight
    /\ lsEvidence' = LsWith(lsEvidence, source, LsStatement)
    /\ UNCHANGED <<lsControl, lsPolicyGen, lsNextSeq>>

LsRoleCorrected(value, source) ==
    /\ lsRole.value # value
    /\ LsCorrect(source)
    /\ lsRole' = [value |-> value, revision |-> lsNextRevision, source |-> source]
    /\ UNCHANGED lsCorrections

LsSpeakerCorrected(label, name, source) ==
    /\ name # label
    /\ label \in DOMAIN lsCorrections => lsCorrections[label].name # name
    /\ LsCorrect(source)
    /\ lsCorrections' = LsWith(lsCorrections, label,
                          [name |-> name, revision |-> lsNextRevision, source |-> source])
    /\ UNCHANGED lsRole

LsPostureChanged(posture) ==
    /\ LsAcceptsUserControl
    /\ lsPosture # posture
    /\ LsMayCount(lsUserGen)
    /\ lsUserGen' = lsUserGen + 1
    /\ lsPosture' = posture
    /\ LsCancelInFlight
    /\ UNCHANGED <<lsPhase, lsCapture, lsMeeting, lsFacts, lsNextSeq, lsPolicyGen>>

LsBackgroundStarted(run) ==
    /\ lsPhase = "ready"
    /\ lsPosture # "on_demand"
    /\ lsForeground = LsNone
    /\ lsBackground = LsNone
    /\ LsMayCount(lsNextSeq)
    /\ lsNextSeq' = lsNextSeq + 1
    /\ lsBackground' = [id |-> run, inv |-> LsInvocationFor(lsUserGen)]
    /\ lsRuns' = Append(lsRuns, [kind |-> "bg", id |-> run, fate |-> "pending",
                                 inv |-> LsInvocationFor(lsUserGen)])
    /\ UNCHANGED <<lsControl, lsFacts, lsForeground, lsPolicyGen, lsUserGen>>

LsCurrent(inv) == inv.user = lsUserGen /\ inv.policy = lsPolicyGen

LsTakesBackground(id, inv) ==
    /\ lsBackground # LsNone
    /\ lsBackground.id = id /\ lsBackground.inv = inv
    /\ LsCurrent(inv)
    /\ lsForeground = LsNone
    /\ lsPhase = "ready"

LsBackgroundCompleted(run) ==
    /\ LsTakesBackground(run.id, run.inv)
    /\ lsBackground' = LsNone
    /\ lsRuns' = LsEnd(run, "published")
    /\ UNCHANGED <<lsControl, lsFacts, lsForeground, lsNextSeq, lsPolicyGen, lsUserGen>>

\* Mutant of LsTakesForeground: a turn is recognised by its id alone.
LsTakesById(id, inv) ==
    lsForeground # LsNone /\ lsForeground.id = id /\ LsAcceptsUserControl

LsTakesForeground(id, inv) ==
    /\ lsForeground # LsNone
    /\ lsForeground.id = id /\ lsForeground.inv = inv
    /\ LsCurrent(inv)
    /\ LsAcceptsUserControl

LsForegroundCompleted(run) ==
    /\ LsTakesForeground(run.id, run.inv)
    /\ lsForeground' = LsNone
    /\ lsRuns' = LsEnd(run, "published")
    /\ UNCHANGED <<lsControl, lsFacts, lsBackground, lsNextSeq, lsPolicyGen, lsUserGen>>

LsPolicyInvalidated(generation) ==
    /\ lsPhase # "idle"
    /\ generation > lsPolicyGen
    /\ LsCancelInFlight
    /\ lsPolicyGen' = generation
    /\ lsEvidence' = LsEmpty
    /\ lsCorrections' = LsEmpty
    /\ lsRole' = [lsRole EXCEPT !.source = LsNone]
    /\ UNCHANGED <<lsControl, lsNextRevision, lsNextSeq, lsUserGen>>

LsCaptureStopped(capture) ==
    /\ lsCapture = capture
    /\ lsPhase = "ready"
    /\ LsCancelInFlight
    /\ lsPhase' = "ended"
    /\ UNCHANGED <<lsPosture, lsCapture, lsMeeting, lsFacts, lsNextSeq, lsPolicyGen,
                   lsUserGen>>

LsProcessingStarted(capture) ==
    /\ lsCapture = capture
    /\ lsPhase = "ended"
    /\ lsPhase' = "processing"
    /\ UNCHANGED <<lsPosture, lsCapture, lsMeeting, lsFacts, lsInvocations, lsPolicyGen,
                   lsUserGen>>

LsMeetingFinalized(capture, meeting) ==
    /\ lsCapture = capture
    /\ lsPhase \in {"ended", "processing"}
    /\ LsCancelInFlight
    /\ lsPhase' = "finalized"
    /\ lsMeeting' = meeting
    /\ UNCHANGED <<lsPosture, lsCapture, lsFacts, lsNextSeq, lsPolicyGen, lsUserGen>>

-----------------------------------------------------------------------------
LsUserEvent ==
    \E source \in LsIds :
        \/ \E turn \in LsTurnIds : LsUserMessage(turn, source)
        \/ \E value \in {0, 1} : LsRoleCorrected(value, source)
        \/ \E label \in LsLabels, name \in LsNames : LsSpeakerCorrected(label, name, source)

LsObservation == \E id \in LsObserved, item \in LsItem : LsEvidenceObserved(id, item)

\* Any result that was ever asked for may arrive, or arrive again.
LsResult ==
    \E s \in DOMAIN lsRuns :
        \/ lsRuns[s].kind = "bg" /\ LsBackgroundCompleted(lsRuns[s])
        \/ lsRuns[s].kind = "fg" /\ LsForegroundCompleted(lsRuns[s])

LsLifecycle ==
    \E capture \in LsCaptures :
        \/ LsCaptureStarted(capture)
        \/ LsCaptureStopped(capture)
        \/ LsProcessingStarted(capture)
        \/ \E meeting \in LsMeetings : LsMeetingFinalized(capture, meeting)

LiveSidekickNext ==
    \/ LsUserEvent
    \/ LsObservation
    \/ LsResult
    \/ LsLifecycle
    \/ \E posture \in LsPostures : LsPostureChanged(posture)
    \/ \E run \in LsTurnIds : LsBackgroundStarted(run)
    \/ \E generation \in LsGenerations : LsPolicyInvalidated(generation)

LiveSidekickSpec == LiveSidekickInit /\ [][LiveSidekickNext]_lsVars

-----------------------------------------------------------------------------
(* Properties *)

\* Each invocation is answered for once (session.rs:271-274): it is pending
\* exactly while it is in its slot, and published or cancelled after that.
Answered ==
    /\ lsNextSeq = Len(lsRuns) + 1
    /\ \A s \in DOMAIN lsRuns :
        /\ lsRuns[s].inv.seq = s
        /\ (lsRuns[s].fate = "pending") <=>
              \/ lsForeground # LsNone /\ lsForeground.inv = lsRuns[s].inv
              \/ lsBackground # LsNone /\ lsBackground.inv = lsRuns[s].inv

\* What is in flight may still be published: its own result, if it comes, is
\* taken.  Otherwise the slot would stay full, and for a background run nothing
\* could ever replace it (session.rs:602, BackgroundAlreadyRunning).
ResultTaken ==
    /\ lsForeground # LsNone => LsTakesForeground(lsForeground.id, lsForeground.inv)
    /\ lsBackground # LsNone =>
          /\ LsTakesBackground(lsBackground.id, lsBackground.inv)
          /\ lsPosture # "on_demand"

\* Nothing is published that was asked for under an older policy or before the
\* user's last word, and nothing twice or after its cancellation.
NothingStale ==
    [][\A s \in DOMAIN lsRuns :
          lsRuns'[s] # lsRuns[s] =>
              /\ lsRuns[s].fate = "pending"
              /\ lsRuns'[s].fate = "published" =>
                    /\ lsRuns[s].inv.policy = lsPolicyGen'
                    /\ lsRuns[s].inv.user = lsUserGen']_lsVars

\* The retained state has its provenance: each correction, and the turn in
\* flight, names a statement of the user that is still retained, and what was
\* said under a revoked policy is named by nothing.
ProvenanceKept ==
    LET sources == {lsRole.source, IF lsForeground = LsNone THEN LsNone ELSE lsForeground.source}
                     \cup {lsCorrections[l].source : l \in DOMAIN lsCorrections}
    IN  \A id \in sources \ {LsNone} :
            id \in DOMAIN lsEvidence /\ lsEvidence[id].kind = "statement"

\* Revisions order the corrections of the role and of all speakers: no two
\* share one, and none is reused after a policy change has cleared them.
RevisionsDistinct ==
    /\ lsRole.revision < lsNextRevision
    /\ \A l \in DOMAIN lsCorrections :
          /\ lsCorrections[l].revision < lsNextRevision
          /\ lsCorrections[l].revision # lsRole.revision
          /\ \A m \in DOMAIN lsCorrections \ {l} :
                lsCorrections[l].revision # lsCorrections[m].revision

\* Evidence is bound to this capture or this meeting: nothing of another
\* capture is retained, and nothing taken from the screen after the capture.
EvidenceBound ==
    \A id \in DOMAIN lsEvidence :
        /\ lsEvidence[id].capture \in {lsCapture, LsNone}
        /\ lsEvidence[id].meeting \in {lsMeeting, LsNone}
        /\ lsEvidence[id].kind \in {"live", "screen"} => lsEvidence[id].capture = lsCapture

\* The retained state of a session is consistent after any sequence of events:
\* invocations, their slots, the corrections, their sources and the evidence agree,
\* and no stale result is published (session.rs:272).
SidekickConsistent ==
    /\ [](Answered /\ ResultTaken /\ ProvenanceKept /\ RevisionsDistinct /\ EvidenceBound)
    /\ NothingStale

=============================================================================
