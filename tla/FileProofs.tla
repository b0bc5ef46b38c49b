----------------------------- MODULE FileProofs -----------------------------
(***************************************************************************)
(* Proofs about EventLog, for every set of writers and followers, every    *)
(* threshold of rotation and every number of failed appends in a row: the  *)
(* numbers are fresh, what was acknowledged is readable but for one event  *)
(* per torn append, and a follower misses nothing below its cursor; and    *)
(* about MeetingDocument, for any sets of pipelines and of editors,        *)
(* numbers of names, files and seconds, and backups that are kept: what    *)
(* was told is made stays, but where two writers were at one document, and *)
(* a pipeline's document is whole and in one place.                        *)
(***************************************************************************)
EXTENDS EventLog, MeetingDocument, TLAPS, WellFoundedInduction, FiniteSetTheorems, SequenceTheorems

-----------------------------------------------------------------------------
(* EventLog: the log, its sidecar and its followers *)

\* The numbers in the rotated parts, and all that a reader of the whole
\* directory would find.
EvOld == EvParts(Len(evRotated))
EvAll == (1..evLegacy) \cup EvReadable

\* Writer w has written its line, or part of it.
EvWriting(w) == evPc[w] \in {"line", "newline"}

\* Every number is within the bound, and so every set of them has a maximum.
EvBounded ==
    /\ EvAll \subseteq 0..(EvMaxSeq + 1)
    /\ evLegacy =< 1
    /\ evSidecar =< EvMaxSeq
    /\ \A w \in EvWriters : evSeq[w] =< EvMaxSeq

EvTyped == EventLogTypeOK /\ EvBounded

\* The number of a line being written is above the sidecar and above the lines
\* of the active file.
EvGrowing ==
    \A w \in EvWriters :
        /\ evPc[w] # "idle" => evSidecar < evSeq[w] /\ \A n \in evActive : n =< evSeq[w]
        /\ evPc[w] \in {"assigned", "ready"} => evSeq[w] \notin evActive

\* How the active file ends says whether the line being written can be read.
EvEndings ==
    /\ ~evPresent => evActive = {} /\ evEnds = "newline"
    /\ evEnds = "bare" => evActive # {}
    /\ \A w \in EvWriters :
          /\ evPc[w] = "line" =>
                evEnds # "newline" /\ (evEnds = "bare" <=> evSeq[w] \in evActive)
          /\ evPc[w] = "newline" => evEnds = "newline"

\* No number between sidecar s and a number of S is missing from S.
EvSolidAbove(S, s) == \A n \in S : \A m \in Nat : s < m /\ m < n => m \in S

\* Numbers are given out in order, and go missing only when the sidecar has
\* passed them.
EvSolid ==
    /\ EvSolidAbove(EvAll, evSidecar)
    /\ \A k \in 0..Len(evRotated) : EvSolidAbove((1..evLegacy) \cup EvParts(k), evSidecar)
    /\ \A w \in EvWriters :
          evPc[w] \in {"assigned", "ready"} =>
              \A m \in Nat : evSidecar < m /\ m < evSeq[w] => m \in EvAll

\* The lines that the next append cannot spoil: not the one being written, nor
\* the last one when it lacks its newline.
EvFirm ==
    IF evLock # EvNobody /\ EvWriting(evLock) THEN evActive \ {evSeq[evLock]} ELSE EvGlue

\* A torn append that has not cost an event yet: the next line, or the one
\* being written, cannot be read.
EvCredit ==
    IF evLock # EvNobody /\ EvWriting(evLock)
    THEN IF evSeq[evLock] \in evActive THEN 0 ELSE 1
    ELSE IF evEnds = "newline" THEN 0 ELSE 1

EvLost == evAcked \ (EvOld \cup EvFirm)

EvAccounted == IsFiniteSet(evAcked) /\ Cardinality(EvLost) + EvCredit =< evTorn

\* Until two appends in a row leave the sidecar behind, what it has not seen is
\* in the active file, and the last append's.
EvFreshness ==
    evStreak < 2 =>
        /\ evLock = EvNobody /\ evSidecar # 0 =>
              /\ \A n \in EvOld : n =< evSidecar
              /\ evStreak = 0 => \A n \in EvReadable : n =< evSidecar
        /\ \A w \in EvWriters :
              evLock = w =>
                  /\ \A n \in EvReadable : n =< evSeq[w]
                  /\ evPc[w] \in {"assigned", "ready"} => evSeq[w] \notin EvReadable
                  /\ evStreak = 0 /\ evSidecar # 0 =>
                        /\ \A n \in EvOld : n =< evSidecar
                        /\ \A n \in evActive : n =< evSidecar \/ n = evSeq[w]

\* A number nobody will find any more.
EvNeverShown(n) == n =< evSidecar /\ n \notin EvAll

EvListed(r) == (1..evLegacy) \cup EvParts(evList[r].parts)

\* What a follower has passed, it was given or nobody will find; and so for
\* what it will pass, when events.jsonl was not there to be listed.
EvFollowing ==
    \A r \in EvReaders :
        /\ ~evStraddled[r] =>
              \A n \in Nat :
                  evStart[r] < n /\ n =< evCursor[r] => n \in evSeen[r] \/ EvNeverShown(n)
        /\ evList[r].busy => evList[r].parts =< Len(evRotated)
        /\ evList[r].busy /\ ~evList[r].active =>
              \A p \in EvListed(r) : \A n \in Nat :
                  n < p => n \in EvListed(r) \/ EvNeverShown(n)

EvOrder == EvTyped /\ EvGrowing /\ EvEndings

EvInv == EvOrder /\ EvSolid /\ EvAccounted /\ EvFreshness /\ EvFollowing

-----------------------------------------------------------------------------
(* Maxima and unions *)

\* EvMaxOf finds the maximum of a bounded set, 0 if it is empty.
LEMMA EvMaximum ==
    ASSUME NEW b \in Nat, NEW S \in SUBSET (0..b)
    PROVE  /\ EvMaxOf(S) \in S \cup {0}
           /\ \A n \in S \cup {0} : n =< EvMaxOf(S)
           /\ EvMaxOf(S) \in 0..b
<1> DEFINE U == S \cup {0}
           D == {b - m : m \in U}
<1>0. U \subseteq 0..b /\ 0 \in U
  OBVIOUS
<1>1. D \subseteq Nat /\ D # {}
  BY <1>0
<1>2. \E x \in D : \A y \in D : ~ (<<y, x>> \in OpToRel(<, Nat))
  BY <1>1, WFMin, NatLessThanWellFounded
<1>3. PICK x \in D : \A y \in D : ~(y < x)
  BY <1>1, <1>2 DEF OpToRel
<1>4. PICK m \in U : x = b - m
  BY <1>3
<1>5. ASSUME NEW n \in U
      PROVE  m >= n
  <2>1. ~(b - n < b - m)
    BY <1>3, <1>4
  <2> QED BY <1>0, <1>4, <2>1
<1>6. Max(U) \in U /\ \A n \in U : Max(U) >= n
  BY <1>4, <1>5 DEF Max
<1> QED BY <1>0, <1>6 DEF EvMaxOf

\* What latest_event_seq_inner returns: at least the sidecar and every line of
\* the active file, and every line there is when there is no sidecar.
LEMMA EvLatestIs ==
    ASSUME EvTyped
    PROVE  /\ EvLatest \in Nat /\ evSidecar =< EvLatest
           /\ \A n \in evActive : n =< EvLatest
           /\ evSidecar = 0 => \A n \in EvAll : n =< EvLatest
           /\ EvLatest = evSidecar \/ EvLatest \in EvAll
<1> DEFINE b == EvMaxSeq + 1
<1>1. /\ b \in Nat /\ EvAll \in SUBSET (0..b) /\ evActive \in SUBSET (0..b)
      /\ evSidecar \in 0..b /\ evLegacy \in 0..b
      /\ evLegacy # 0 => evLegacy \in EvAll
      /\ evActive \subseteq EvAll /\ EvReadable \subseteq EvAll
  BY EvAssumption DEF EvTyped, EventLogTypeOK, EvBounded, EvAll, EvReadable
<1> HIDE DEF b
<1>2. CASE evSidecar # 0
  <2>1. EvTail \in evActive \cup {0} /\ EvTail \in 0..b /\ \A n \in evActive : n =< EvTail
    BY <1>1, EvMaximum DEF EvTail
  <2>2. {evSidecar, EvTail} \in SUBSET (0..b)
    BY <1>1, <2>1
  <2>3. /\ EvLatest \in {evSidecar, EvTail} \cup {0} /\ EvLatest \in 0..b
        /\ evSidecar =< EvLatest /\ EvTail =< EvLatest
    BY <1>2, <2>2, EvMaximum, <1>1 DEF EvLatest
  <2>4. \A n \in evActive : n =< EvLatest
    BY <1>1, <2>1, <2>3
  <2>5. EvLatest = evSidecar \/ EvLatest \in EvAll
    BY <1>1, <1>2, <2>1, <2>3
  <2> QED BY <1>2, <2>3, <2>4, <2>5
<1>3. CASE evSidecar = 0
  <2>1. EvReadable \cup {evLegacy} \in SUBSET (0..b)
    BY <1>1
  <2>2. /\ EvLatest \in (EvReadable \cup {evLegacy}) \cup {0} /\ EvLatest \in 0..b
        /\ \A n \in (EvReadable \cup {evLegacy}) \cup {0} : n =< EvLatest
    BY <1>1, <1>3, <2>1, EvMaximum DEF EvLatest, EvScan
  <2>3. \A n \in EvAll : n =< EvLatest
    BY <1>1, <2>2 DEF EvAll
  <2> QED BY <1>1, <1>3, <2>2, <2>3
<1> QED BY <1>2, <1>3

\* The last line of a file that has one.
LEMMA EvTailIs ==
    ASSUME EvTyped, evActive # {}
    PROVE  EvTail \in evActive /\ \A n \in evActive : n =< EvTail
<1>1. EvMaxSeq + 1 \in Nat /\ evActive \in SUBSET (0..(EvMaxSeq + 1))
  BY EvAssumption DEF EvTyped, EvBounded, EvAll, EvReadable
<1>2. EvTail \in evActive \cup {0} /\ \A n \in evActive : n =< EvTail
  BY <1>1, EvMaximum DEF EvTail
<1>3. PICK n \in evActive : TRUE
  OBVIOUS
<1> QED BY <1>1, <1>2, <1>3

\* Gluing takes the last line only.
LEMMA EvGlueIs ==
    ASSUME EvTyped
    PROVE  EvGlue \subseteq evActive /\ \A n \in evActive : n \in EvGlue \/ n = EvTail
BY DEF EvGlue

\* Rotation: the parts there were stay, and all lines are in parts.
LEMMA EvPartsRotated ==
    ASSUME EvTyped, evRotated' = Append(evRotated, evActive)
    PROVE  /\ evRotated' \in Seq(SUBSET Nat) /\ Len(evRotated') = Len(evRotated) + 1
           /\ \A k \in 0..Len(evRotated) : EvParts(k)' = EvParts(k)
           /\ EvOld' = EvReadable
<1>1. /\ evRotated \in Seq(SUBSET Nat) /\ evActive \in SUBSET Nat
  BY DEF EvTyped, EventLogTypeOK
<1>2. /\ evRotated' \in Seq(SUBSET Nat) /\ Len(evRotated') = Len(evRotated) + 1
      /\ \A i \in 1..Len(evRotated) : evRotated'[i] = evRotated[i]
      /\ evRotated'[Len(evRotated) + 1] = evActive
  BY <1>1
<1>3. ASSUME NEW k \in 0..Len(evRotated)
      PROVE  EvParts(k)' = EvParts(k)
  <2>1. \A i \in 1..k : evRotated'[i] = evRotated[i]
    BY <1>2
  <2> QED BY <2>1 DEF EvParts
<1>4. EvOld' = EvReadable
  <2>1. EvOld' = UNION {evRotated'[i] : i \in 1..(Len(evRotated) + 1)}
    BY <1>2 DEF EvOld, EvParts
  <2>2. ASSUME NEW n, n \in EvOld'
        PROVE  n \in EvReadable
    <3>1. PICK i \in 1..(Len(evRotated) + 1) : n \in evRotated'[i]
      BY <2>1, <2>2
    <3>2. CASE i = Len(evRotated) + 1
      BY <1>2, <3>1, <3>2 DEF EvReadable
    <3>3. CASE i # Len(evRotated) + 1
      <4>1. i \in 1..Len(evRotated) /\ n \in evRotated[i]
        BY <1>1, <1>2, <3>1, <3>3
      <4> QED BY <4>1 DEF EvReadable, EvParts
    <3> QED BY <3>2, <3>3
  <2>3. ASSUME NEW n, n \in EvReadable
        PROVE  n \in EvOld'
    <3>1. CASE n \in evActive
      <4>1. Len(evRotated) + 1 \in 1..(Len(evRotated) + 1) /\ n \in evRotated'[Len(evRotated) + 1]
        BY <1>1, <1>2, <3>1
      <4> QED BY <2>1, <4>1
    <3>2. CASE n \in EvOld
      <4>1. PICK i \in 1..Len(evRotated) : n \in evRotated[i]
        BY <3>2 DEF EvOld, EvParts
      <4>2. i \in 1..(Len(evRotated) + 1) /\ n \in evRotated'[i]
        BY <1>1, <1>2, <4>1
      <4> QED BY <2>1, <4>2
    <3> QED BY <2>3, <3>1, <3>2 DEF EvReadable, EvOld
  <2> QED BY <2>2, <2>3
<1> QED BY <1>2, <1>3, <1>4

-----------------------------------------------------------------------------
(* The writers *)

EvStep(w) ==
    \/ EvBegin(w) \/ EvRotate(w) \/ EvWriteLine(w) \/ EvWriteNewline(w)
    \/ EvUpdateSidecar(w) \/ EvSidecarFails(w) \/ EvAbandon(w) \/ EvTear(w)

\* The lock: whoever acts is alone.
LEMMA EvAlone ==
    ASSUME EvTyped, NEW w \in EvWriters, EvStep(w)
    PROVE  /\ \/ evLock = EvNobody /\ evPc[w] = "idle"
              \/ evLock = w /\ evPc[w] # "idle"
           /\ \A u \in EvWriters \ {w} : evPc[u] = "idle" /\ evPc'[u] = "idle"
           /\ UNCHANGED <<evLegacy, evReaderVars>>
           /\ evPc' \in [EvWriters -> {"idle", "assigned", "ready", "line", "newline"}]
           /\ evLock' = (IF evPc'[w] = "idle" THEN EvNobody ELSE w)
<1> USE EvAssumption
<1>1. /\ evPc \in [EvWriters -> {"idle", "assigned", "ready", "line", "newline"}]
      /\ \A u \in EvWriters : evLock = u <=> evPc[u] # "idle"
      /\ evLock \in EvWriters \cup {EvNobody}
  BY DEF EvTyped, EventLogTypeOK
<1>2. \/ evLock = EvNobody /\ evPc[w] = "idle"
      \/ evLock = w /\ evPc[w] # "idle"
  <2>1. EvBegin(w) => evLock = EvNobody
    BY DEF EvBegin
  <2>2. ~EvBegin(w) => evPc[w] # "idle"
    BY DEF EvStep, EvRotate, EvWriteLine, EvWriteNewline, EvUpdateSidecar, EvSidecarFails, EvAbandon,
           EvTear, EvGo
  <2>3. w # EvNobody
    OBVIOUS
  <2>4. evLock = EvNobody => evPc[w] = "idle"
    BY <1>1, <2>3
  <2>5. evPc[w] # "idle" => evLock = w
    BY <1>1
  <2>6. CASE EvBegin(w)
    BY <2>1, <2>4, <2>6
  <2>7. CASE ~EvBegin(w)
    BY <2>2, <2>5, <2>7
  <2> QED BY <2>6, <2>7
<1>3. \A u \in EvWriters \ {w} : evPc[u] = "idle"
  BY <1>1, <1>2
<1>4. /\ \E to \in {"idle", "assigned", "ready", "line", "newline"} :
            evPc' = [evPc EXCEPT ![w] = to]
      /\ UNCHANGED <<evLegacy, evReaderVars>>
  BY DEF EvStep, EvBegin, EvRotate, EvWriteLine, EvWriteNewline, EvUpdateSidecar, EvSidecarFails,
         EvAbandon, EvTear, EvGo, evLogVars
<1>5. evPc' \in [EvWriters -> {"idle", "assigned", "ready", "line", "newline"}]
  BY <1>1, <1>4
<1>6. \A u \in EvWriters \ {w} : evPc'[u] = "idle"
  BY <1>1, <1>3, <1>4
<1>7. evLock' = (IF evPc'[w] = "idle" THEN EvNobody ELSE w)
  <2>1. CASE EvBegin(w)
    BY <1>1, <2>1 DEF EvBegin, EvGo
  <2>2. CASE EvRotate(w) \/ EvWriteLine(w) \/ EvWriteNewline(w)
    BY <1>1, <2>2 DEF EvRotate, EvWriteLine, EvWriteNewline, EvGo
  <2>3. CASE EvUpdateSidecar(w) \/ EvSidecarFails(w) \/ EvAbandon(w) \/ EvTear(w)
    BY <1>1, <2>3 DEF EvUpdateSidecar, EvSidecarFails, EvAbandon, EvTear, EvGo, EvRelease
  <2> QED BY <2>1, <2>2, <2>3 DEF EvStep
<1> QED BY <1>2, <1>3, <1>4, <1>5, <1>6, <1>7

\* What the sidecar becomes.
LEMMA EvSidecarIs ==
    ASSUME EvTyped, EvGrowing, NEW w \in EvWriters, EvUpdateSidecar(w)
    PROVE  /\ evSidecar' \in Nat /\ evSidecar' = evSeq[w] /\ evSidecar =< evSidecar'
           /\ \A n \in evActive : n =< evSidecar'
<1>1. /\ evSeq[w] \in Nat /\ evSeq[w] =< EvMaxSeq /\ EvMaxSeq \in Nat
      /\ evSidecar \in Nat /\ evSidecar < evSeq[w] /\ \A n \in evActive : n =< evSeq[w]
      /\ evActive \in SUBSET (0..(EvMaxSeq + 1))
  BY EvAssumption DEF EvTyped, EventLogTypeOK, EvBounded, EvUpdateSidecar, EvGo, EvGrowing, EvAll,
     EvReadable
<1>2. EvTail \in evActive \cup {0}
  BY <1>1, EvMaximum DEF EvTail
<1>3. EvTail \in Nat /\ EvTail =< evSeq[w]
  BY <1>1, <1>2
<1>4. {evSeq[w], evSidecar, EvTail} \in SUBSET (0..(EvMaxSeq + 1))
  BY <1>1, <1>3
<1>5. /\ evSidecar' \in {evSeq[w], evSidecar, EvTail} \cup {0}
      /\ evSeq[w] =< evSidecar' /\ evSidecar' \in 0..(EvMaxSeq + 1)
  BY <1>1, <1>4, EvMaximum DEF EvUpdateSidecar
<1> QED BY <1>1, <1>3, <1>5

\* What a step does to the numbers that can be read.
LEMMA EvAllBecomes ==
    ASSUME EvOrder, NEW w \in EvWriters, EvStep(w)
    PROVE  /\ evRotated' \in Seq(SUBSET Nat)
           /\ evActive' \subseteq evActive \cup {evSeq[w]}
           /\ EvReadable' \subseteq EvReadable \cup {evSeq[w]}
           /\ EvAll' \subseteq EvAll \cup {evSeq[w]}
           /\ EvReadable \ {EvTail} \subseteq EvReadable'
           /\ \/ EvOld' = EvOld /\ evRotated' = evRotated
              \/ EvRotate(w) /\ EvOld' = EvReadable /\ evActive' = {} /\ EvReadable' = EvReadable
           /\ evActive' = evActive \/ EvRotate(w) \/ EvWriteLine(w) \/ EvTear(w)
<1> EvTyped
  BY DEF EvOrder
<1>0. evRotated \in Seq(SUBSET Nat) /\ evLegacy' = evLegacy
  BY EvAlone DEF EvTyped, EventLogTypeOK
<1>1. CASE EvRotate(w) /\ evRotated' = Append(evRotated, evActive)
  <2>1. evActive' = {}
    BY <1>1 DEF EvRotate
  <2>2. EvOld' = EvReadable /\ evRotated' \in Seq(SUBSET Nat)
    BY <1>1, EvPartsRotated
  <2>3. EvReadable' = EvReadable
    BY <2>1, <2>2 DEF EvReadable, EvOld
  <2> QED BY <1>0, <1>1, <2>1, <2>2, <2>3 DEF EvAll
<1>2. CASE UNCHANGED <<evRotated, evActive>>
  <2>1. EvReadable' = EvReadable /\ EvOld' = EvOld
    BY <1>2 DEF EvReadable, EvOld, EvParts
  <2> QED BY <1>0, <1>2, <2>1 DEF EvAll
<1>3. CASE UNCHANGED evRotated /\ evActive' \in {evActive \cup {evSeq[w]}, EvGlue}
                               /\ (EvWriteLine(w) \/ EvTear(w))
  <2>1. EvOld' = EvOld
    BY <1>3 DEF EvOld, EvParts
  <2>2. evActive' \subseteq evActive \cup {evSeq[w]} /\ evActive \ {EvTail} \subseteq evActive'
    BY <1>3, EvGlueIs
  <2>3. EvReadable' = EvOld' \cup evActive' /\ EvReadable = EvOld \cup evActive
    BY DEF EvReadable, EvOld
  <2> QED BY <1>0, <1>3, <2>1, <2>2, <2>3 DEF EvAll
<1> QED
  BY <1>1, <1>2, <1>3
  DEF EvStep, EvBegin, EvRotate, EvWriteLine, EvWriteNewline, EvUpdateSidecar, EvSidecarFails,
      EvAbandon, EvTear, evLogVars

\* A number is given out below the bound and kept with its writer, and sets of
\* numbers stay within it.
LEMMA EvTypedKept ==
    ASSUME EvOrder, NEW w \in EvWriters, EvStep(w)
    PROVE  EvTyped'
<1> EvTyped /\ EventLogTypeOK /\ EvBounded /\ EvGrowing
  BY DEF EvOrder, EvTyped
<1> USE EvAssumption
<1>0. /\ evSeq \in [EvWriters -> Nat] /\ evSidecar \in Nat /\ EvMaxSeq \in Nat
      /\ evSidecar =< EvMaxSeq /\ \A u \in EvWriters : evSeq[u] =< EvMaxSeq
      /\ evStreak \in Nat /\ evTorn \in Nat /\ evActive \in SUBSET Nat /\ evAcked \in SUBSET Nat
  BY DEF EventLogTypeOK, EvBounded
<1>1. /\ evSeq' \in [EvWriters -> Nat]
      /\ \A u \in EvWriters : evSeq'[u] =< EvMaxSeq
  <2>1. CASE EvBegin(w)
    <3>1. EvLatest + 1 \in Nat /\ EvLatest + 1 =< EvMaxSeq
      BY <1>0, <2>1, EvLatestIs DEF EvBegin
    <3> QED BY <1>0, <2>1, <3>1 DEF EvBegin
  <2>2. CASE evSeq' = [evSeq EXCEPT ![w] = 0]
    BY <1>0, <2>2
  <2>3. CASE evSeq' = evSeq
    BY <1>0, <2>3
  <2> QED
    BY <2>1, <2>2, <2>3
    DEF EvStep, EvRotate, EvWriteLine, EvWriteNewline, EvUpdateSidecar, EvSidecarFails, EvAbandon,
        EvTear, EvRelease
<1>2. evSidecar' \in Nat /\ evSidecar' =< EvMaxSeq
  <2>1. CASE EvUpdateSidecar(w)
    BY <1>0, <2>1, EvSidecarIs
  <2>2. CASE evSidecar' = evSidecar
    BY <1>0, <2>2
  <2> QED
    BY <2>1, <2>2
    DEF EvStep, EvBegin, EvRotate, EvWriteLine, EvWriteNewline, EvSidecarFails, EvAbandon, EvTear,
        evLogVars
<1>3. evPresent' \in BOOLEAN /\ evEnds' \in {"newline", "bare", "torn"}
  BY DEF EventLogTypeOK, EvStep, EvBegin, EvRotate, EvWriteLine, EvWriteNewline, EvUpdateSidecar,
         EvSidecarFails, EvAbandon, EvTear, evLogVars
<1>4. evStreak' \in Nat /\ evTorn' \in Nat
  BY <1>0 DEF EvStep, EvBegin, EvRotate, EvWriteLine, EvWriteNewline, EvUpdateSidecar,
              EvSidecarFails, EvAbandon, EvTear
<1>5. evAcked' \in SUBSET Nat
  <2>1. evAcked' \in {evAcked, evAcked \cup {evSeq[w]}}
    BY DEF EvStep, EvBegin, EvRotate, EvWriteLine, EvWriteNewline, EvUpdateSidecar,
           EvSidecarFails, EvAbandon, EvTear
  <2>2. evSeq[w] \in Nat
    BY <1>0
  <2> QED BY <1>0, <2>1, <2>2
<1>6. evActive' \in SUBSET Nat /\ evRotated' \in Seq(SUBSET Nat)
  BY <1>0, EvAllBecomes
<1>7. /\ evLock' \in EvWriters \cup {EvNobody}
      /\ evPc' \in [EvWriters -> {"idle", "assigned", "ready", "line", "newline"}]
      /\ \A u \in EvWriters : evLock' = u <=> evPc'[u] # "idle"
  BY EvAlone
<1>8. EventLogTypeOK'
  BY <1>1, <1>2, <1>3, <1>4, <1>5, <1>6, <1>7, EvAlone DEF EventLogTypeOK, evReaderVars
<1>9. EvBounded'
  <2>1. EvAll' \subseteq 0..(EvMaxSeq + 1)
    <3>1. evSeq[w] \in 0..(EvMaxSeq + 1)
      BY <1>0
    <3> QED BY <3>1, EvAllBecomes DEF EvBounded
  <2> QED BY <1>1, <1>2, <2>1, EvAlone DEF EvBounded
<1> QED BY <1>8, <1>9 DEF EvTyped

\* A number is above the sidecar and the active file when it is given, and nothing
\* else is written while its writer holds the lock.
LEMMA EvGrowingKept ==
    ASSUME EvOrder, NEW w \in EvWriters, EvStep(w)
    PROVE  EvGrowing'
<1> EvTyped /\ EvGrowing
  BY DEF EvOrder
<1>0. /\ evSeq \in [EvWriters -> Nat] /\ evSidecar \in Nat /\ evActive \in SUBSET Nat
      /\ evPc \in [EvWriters -> {"idle", "assigned", "ready", "line", "newline"}]
  BY DEF EvTyped, EventLogTypeOK
<1>1. SUFFICES /\ evPc'[w] # "idle" =>
                     evSidecar' < evSeq'[w] /\ \A n \in evActive' : n =< evSeq'[w]
               /\ evPc'[w] \in {"assigned", "ready"} => evSeq'[w] \notin evActive'
  BY EvAlone DEF EvGrowing
<1>2. CASE EvBegin(w)
  <2>1. /\ evSeq'[w] = EvLatest + 1 /\ UNCHANGED <<evActive, evSidecar>>
    BY <1>0, <1>2 DEF EvBegin, evLogVars
  <2>2. /\ EvLatest \in Nat /\ evSidecar =< EvLatest /\ evSidecar \in Nat
        /\ \A n \in evActive : n =< EvLatest /\ n \in Nat
    BY <1>0, EvLatestIs
  <2>3. /\ evSidecar < EvLatest + 1 /\ \A n \in evActive : n =< EvLatest + 1
        /\ EvLatest + 1 \notin evActive
    BY <2>2
  <2> QED BY <2>1, <2>3
<1>3. CASE EvRotate(w)
  BY <1>0, <1>3 DEF EvRotate, EvGrowing, EvGo
<1>4. CASE EvWriteLine(w)
  <2>1. /\ evSeq'[w] = evSeq[w] /\ evSidecar' = evSidecar /\ evPc'[w] = "line"
        /\ evPc[w] = "ready"
    BY <1>0, <1>4 DEF EvWriteLine, EvGo
  <2>2. evActive' \subseteq evActive \cup {evSeq[w]}
    BY <1>4, EvGlueIs DEF EvWriteLine
  <2>3. evSeq[w] \in Nat /\ evSidecar < evSeq[w] /\ \A n \in evActive : n =< evSeq[w]
    BY <1>0, <2>1 DEF EvGrowing
  <2>4. \A n \in evActive' : n =< evSeq[w]
    BY <2>2, <2>3
  <2> QED BY <2>1, <2>3, <2>4
<1>5. CASE EvWriteNewline(w)
  BY <1>0, <1>5 DEF EvWriteNewline, EvGrowing, EvGo
<1>6. CASE evPc'[w] = "idle"
  BY <1>6
<1> QED
  BY <1>0, <1>2, <1>3, <1>4, <1>5, <1>6
  DEF EvStep, EvUpdateSidecar, EvSidecarFails, EvAbandon, EvTear, EvGo

\* Each write leaves the end of the file that the next one finds.
LEMMA EvEndingsKept ==
    ASSUME EvOrder, NEW w \in EvWriters, EvStep(w)
    PROVE  EvEndings'
<1> EvTyped /\ EvGrowing /\ EvEndings
  BY DEF EvOrder
<1>0. /\ evSeq \in [EvWriters -> Nat] /\ evActive \in SUBSET Nat
      /\ evPc \in [EvWriters -> {"idle", "assigned", "ready", "line", "newline"}]
      /\ evPresent \in BOOLEAN /\ evEnds \in {"newline", "bare", "torn"}
  BY DEF EvTyped, EventLogTypeOK
<1>1. SUFFICES /\ ~evPresent' => evActive' = {} /\ evEnds' = "newline"
               /\ evEnds' = "bare" => evActive' # {}
               /\ evPc'[w] = "line" =>
                     evEnds' # "newline" /\ (evEnds' = "bare" <=> evSeq'[w] \in evActive')
               /\ evPc'[w] = "newline" => evEnds' = "newline"
  BY EvAlone DEF EvEndings
<1>2. CASE EvBegin(w)
  BY <1>0, <1>2 DEF EvBegin, evLogVars, EvGo, EvEndings
<1>3. CASE EvRotate(w)
  BY <1>0, <1>3 DEF EvRotate, EvGo, EvEndings
<1>4. CASE EvWriteLine(w)
  <2>1. evSeq'[w] = evSeq[w] /\ evPc'[w] = "line" /\ evPresent' /\ evSeq[w] \notin EvGlue
    BY <1>0, <1>4, EvGlueIs DEF EvWriteLine, EvGo, EvGrowing
  <2> QED BY <1>4, <2>1 DEF EvWriteLine
<1>5. CASE EvWriteNewline(w)
  BY <1>0, <1>5 DEF EvWriteNewline, EvGo, EvEndings
<1>6. CASE EvUpdateSidecar(w) \/ EvSidecarFails(w) \/ EvAbandon(w)
  BY <1>0, <1>6 DEF EvUpdateSidecar, EvSidecarFails, EvAbandon, evLogVars, EvGo, EvEndings
<1>7. CASE EvTear(w)
  BY <1>0, <1>7 DEF EvTear, EvGo
<1> QED
  BY <1>2, <1>3, <1>4, <1>5, <1>6, <1>7 DEF EvStep

-----------------------------------------------------------------------------
(* No number goes missing above the sidecar *)

\* A number goes missing only with the sidecar passing it: the next one is given
\* above the sidecar, or above the last line.
LEMMA EvSolidKept ==
    ASSUME EvOrder, EvSolid, NEW w \in EvWriters, EvStep(w)
    PROVE  EvSolid'
<1> EvTyped /\ EvGrowing
  BY DEF EvOrder
<1> DEFINE Prefix(k) == (1..evLegacy) \cup EvParts(k)
<1>0. /\ evRotated \in Seq(SUBSET Nat) /\ Len(evRotated) \in Nat
      /\ evSeq \in [EvWriters -> Nat] /\ evSidecar \in Nat /\ evActive \in SUBSET Nat
      /\ evPc \in [EvWriters -> {"idle", "assigned", "ready", "line", "newline"}]
      /\ EvAll \in SUBSET Nat /\ evLegacy' = evLegacy
  BY EvAlone, EvAssumption DEF EvTyped, EventLogTypeOK, EvBounded
<1>1. /\ EvSolidAbove(EvAll, evSidecar)
      /\ \A k \in 0..Len(evRotated) : EvSolidAbove(Prefix(k), evSidecar)
      /\ EvAll = Prefix(Len(evRotated)) \cup evActive
  BY DEF EvSolid, EvAll, EvReadable
<1>2. SUFFICES /\ EvSolidAbove(EvAll', evSidecar')
               /\ \A k \in 0..Len(evRotated)' : EvSolidAbove(Prefix(k)', evSidecar')
               /\ evPc'[w] \in {"assigned", "ready"} =>
                     \A m \in Nat : evSidecar' < m /\ m < evSeq'[w] => m \in EvAll'
  BY EvAlone DEF EvSolid
<1>3. ASSUME NEW S \in SUBSET Nat, EvSolidAbove(S, evSidecar), evSidecar' \in Nat,
             evSidecar =< evSidecar'
      PROVE  EvSolidAbove(S, evSidecar')
  BY <1>0, <1>3 DEF EvSolidAbove
<1>4. CASE UNCHANGED <<evRotated, evActive, evSidecar>>
  <2>1. EvAll' = EvAll /\ \A k \in 0..Len(evRotated) : Prefix(k)' = Prefix(k)
    BY <1>0, <1>4 DEF EvAll, EvReadable, EvParts
  <2>2. CASE EvBegin(w)
    <3>1. evSeq'[w] = EvLatest + 1
      BY <1>0, <2>2 DEF EvBegin
    <3>2. ASSUME NEW m \in Nat, evSidecar < m, m < EvLatest + 1
          PROVE  m \in EvAll
      <4>1. EvLatest \in Nat /\ EvLatest \in EvAll /\ m =< EvLatest
        BY <1>0, <3>2, EvLatestIs
      <4>2. CASE m = EvLatest
        BY <4>1, <4>2
      <4>3. CASE m < EvLatest
        BY <1>1, <3>2, <4>1, <4>3 DEF EvSolidAbove
      <4> QED BY <4>1, <4>2, <4>3
    <3> QED BY <1>1, <1>4, <2>1, <3>1, <3>2
  <2>3. CASE evPc[w] \in {"assigned", "ready"} /\ evSeq'[w] = evSeq[w]
    <3>1. \A m \in Nat : evSidecar < m /\ m < evSeq[w] => m \in EvAll
      BY <2>3 DEF EvSolid
    <3> QED BY <1>1, <1>4, <2>1, <2>3, <3>1
  <2>4. CASE evPc'[w] \notin {"assigned", "ready"}
    BY <1>1, <1>4, <2>1, <2>4
  <2> QED
    BY <1>0, <2>2, <2>3, <2>4
    DEF EvStep, EvRotate, EvWriteLine, EvWriteNewline, EvUpdateSidecar, EvSidecarFails, EvAbandon,
        EvTear, EvGo
<1>5. CASE EvRotate(w) /\ evRotated' = Append(evRotated, evActive)
  <2>1. /\ Len(evRotated') = Len(evRotated) + 1
        /\ \A k \in 0..Len(evRotated) : EvParts(k)' = EvParts(k)
        /\ EvOld' = EvReadable
    BY <1>5, EvPartsRotated
  <2>2. /\ EvAll' = EvAll /\ evSidecar' = evSidecar /\ evSeq' = evSeq
        /\ evPc[w] = "assigned"
    <3>1. evActive' = {} /\ evSidecar' = evSidecar /\ evSeq' = evSeq /\ evPc[w] = "assigned"
      BY <1>0, <1>5 DEF EvRotate, EvGo
    <3>2. EvReadable' = EvReadable
      BY <2>1, <3>1 DEF EvReadable, EvOld
    <3> QED BY <1>0, <3>1, <3>2 DEF EvAll
  <2>3. ASSUME NEW k \in 0..(Len(evRotated) + 1)
        PROVE  EvSolidAbove(Prefix(k)', evSidecar)
    <3>1. CASE k = Len(evRotated) + 1
      <4>1. Prefix(k)' = EvAll
        <5>1. EvParts(k)' = EvOld'
          BY <2>1, <3>1 DEF EvOld
        <5> QED BY <1>0, <2>1, <5>1 DEF EvAll
      <4> QED BY <1>1, <4>1
    <3>2. CASE k # Len(evRotated) + 1
      <4>1. k \in 0..Len(evRotated)
        BY <1>0, <3>2
      <4>2. Prefix(k)' = Prefix(k)
        BY <1>0, <2>1, <4>1
      <4> QED BY <1>1, <4>1, <4>2
    <3> QED BY <3>1, <3>2
  <2>4. \A m \in Nat : evSidecar < m /\ m < evSeq[w] => m \in EvAll
    BY <2>2 DEF EvSolid
  <2> QED BY <1>1, <2>1, <2>2, <2>3, <2>4
<1>6. CASE evRotated' = evRotated /\ evSidecar' = evSidecar
           /\ evPc[w] = "ready" /\ evPc'[w] \notin {"assigned", "ready"}
           /\ evActive' \in {evActive \cup {evSeq[w]}, EvGlue}
  <2>1. \A k \in 0..Len(evRotated) : Prefix(k)' = Prefix(k)
    BY <1>0, <1>6 DEF EvParts
  <2>2. EvAll' = Prefix(Len(evRotated)) \cup evActive'
    BY <1>0, <1>6 DEF EvAll, EvReadable, EvParts
  <2>3. CASE evActive' = evActive \cup {evSeq[w]}
    <3>1. EvAll' = EvAll \cup {evSeq[w]}
      BY <1>1, <2>2, <2>3
    <3>2. \A m \in Nat : evSidecar < m /\ m < evSeq[w] => m \in EvAll
      BY <1>6 DEF EvSolid
    <3>3. EvSolidAbove(EvAll', evSidecar)
      BY <1>1, <3>1, <3>2 DEF EvSolidAbove
    <3> QED BY <1>1, <1>6, <2>1, <3>3
  <2>4. CASE evActive' = EvGlue
    <3>1. ASSUME NEW n \in EvAll', NEW m \in Nat, evSidecar < m, m < n
          PROVE  m \in EvAll'
      <4>1. n \in EvAll
        BY <1>1, <2>2, <2>4, EvGlueIs
      <4>2. m \in EvAll
        BY <1>1, <3>1, <4>1 DEF EvSolidAbove
      <4>3. CASE m \in Prefix(Len(evRotated)) \/ m \in EvGlue
        BY <2>2, <2>4, <4>3
      <4>4. CASE m \notin EvGlue /\ m \in evActive
        <5>1. m = EvTail /\ \A i \in evActive : i =< m
          BY <4>4, EvGlueIs, EvTailIs
        <5>2. n \notin evActive
          BY <1>0, <3>1, <4>1, <5>1
        <5>3. n \in Prefix(Len(evRotated))
          BY <1>1, <4>1, <5>2
        <5>4. m \in Prefix(Len(evRotated))
          BY <1>0, <1>1, <3>1, <5>3 DEF EvSolidAbove
        <5> QED BY <2>2, <5>4
      <4> QED BY <1>1, <4>2, <4>3, <4>4
    <3>2. EvSolidAbove(EvAll', evSidecar)
      BY <3>1 DEF EvSolidAbove
    <3> QED BY <1>1, <1>6, <2>1, <3>2
  <2> QED BY <1>6, <2>3, <2>4
<1>7. CASE EvUpdateSidecar(w)
  <2>1. UNCHANGED <<evRotated, evActive>> /\ evPc'[w] = "idle"
    BY <1>0, <1>7 DEF EvUpdateSidecar, EvGo
  <2>2. EvAll' = EvAll /\ \A k \in 0..Len(evRotated) : Prefix(k)' = Prefix(k)
    BY <1>0, <2>1 DEF EvAll, EvReadable, EvParts
  <2>3. evSidecar' \in Nat /\ evSidecar =< evSidecar'
    BY <1>7, EvSidecarIs
  <2>4. \A k \in 0..Len(evRotated) : Prefix(k) \in SUBSET Nat
    <3>1. \A k \in 0..Len(evRotated) : EvParts(k) \subseteq EvAll
      BY <1>0 DEF EvAll, EvReadable, EvParts
    <3> QED BY <1>0, <3>1 DEF EvAll
  <2>5. \A k \in 0..Len(evRotated) : EvSolidAbove(Prefix(k), evSidecar')
    BY <1>1, <1>3, <2>3, <2>4
  <2>6. EvSolidAbove(EvAll, evSidecar')
    BY <1>0, <1>1, <1>3, <2>3
  <2> QED BY <2>1, <2>2, <2>5, <2>6
<1> QED
  BY <1>0, <1>4, <1>5, <1>6, <1>7
  DEF EvStep, EvBegin, EvRotate, EvWriteLine, EvWriteNewline, EvSidecarFails, EvAbandon, EvTear,
      EvGo, evLogVars

-----------------------------------------------------------------------------
(* Fresh numbers *)

\* One append that leaves the sidecar behind is made good by the tail of the active
\* file; it takes a second one and a rotation to hide a number from both.
LEMMA EvFreshnessKept ==
    ASSUME EvOrder, EvFreshness, NEW w \in EvWriters, EvStep(w)
    PROVE  EvFreshness'
<1> EvTyped /\ EvGrowing
  BY DEF EvOrder
<1>0. /\ evRotated \in Seq(SUBSET Nat) /\ Len(evRotated) \in Nat /\ EvMaxFaults \in Nat
      /\ evSeq \in [EvWriters -> Nat] /\ evSidecar \in Nat /\ evActive \in SUBSET Nat
      /\ evPc \in [EvWriters -> {"idle", "assigned", "ready", "line", "newline"}]
      /\ evStreak \in Nat /\ EvReadable \in SUBSET Nat /\ EvReadable = EvOld \cup evActive
      /\ EvReadable \subseteq EvAll
  BY EvAssumption DEF EvTyped, EventLogTypeOK, EvBounded, EvAll, EvReadable, EvOld
<1>1. /\ \/ evLock = EvNobody /\ evPc[w] = "idle"
         \/ evLock = w /\ evPc[w] # "idle"
      /\ evLock' = (IF evPc'[w] = "idle" THEN EvNobody ELSE w)
      /\ EvReadable' = EvOld' \cup evActive'
      /\ w # EvNobody
  BY EvAlone, EvAssumption DEF EvReadable, EvOld
<1>2. SUFFICES
        ASSUME evStreak' < 2
        PROVE  /\ evPc'[w] = "idle" /\ evSidecar' # 0 =>
                     /\ \A n \in EvOld' : n =< evSidecar'
                     /\ evStreak' = 0 => \A n \in EvReadable' : n =< evSidecar'
               /\ evPc'[w] # "idle" =>
                     /\ \A n \in EvReadable' : n =< evSeq'[w]
                     /\ evPc'[w] \in {"assigned", "ready"} => evSeq'[w] \notin EvReadable'
                     /\ evStreak' = 0 /\ evSidecar' # 0 =>
                           /\ \A n \in EvOld' : n =< evSidecar'
                           /\ \A n \in evActive' : n =< evSidecar' \/ n = evSeq'[w]
  <2>1. evLock' = EvNobody => evPc'[w] = "idle"
    BY <1>1
  <2>2. \A u \in EvWriters : evLock' = u => u = w /\ evPc'[w] # "idle"
    BY <1>1, EvAssumption
  <2> QED BY <2>1, <2>2 DEF EvFreshness
<1>3. evStreak < 2
  <2>1. CASE evStreak' = evStreak
    BY <1>2, <2>1
  <2>2. CASE evStreak' = evStreak + 1
    BY <1>0, <1>2, <2>2
  <2>3. CASE EvUpdateSidecar(w)
    <3>1. evStreak' = IF evStreak < 2 THEN 0 ELSE evStreak
      BY <2>3 DEF EvUpdateSidecar
    <3> QED BY <1>0, <1>2, <3>1
  <2> QED
    BY <2>1, <2>2, <2>3
    DEF EvStep, EvBegin, EvRotate, EvWriteLine, EvWriteNewline, EvSidecarFails, EvAbandon, EvTear
<1>4. evPc[w] = "idle" /\ evSidecar # 0 =>
         /\ \A n \in EvOld : n =< evSidecar
         /\ evStreak = 0 => \A n \in EvReadable : n =< evSidecar
  BY <1>1, <1>3 DEF EvFreshness
<1>5. evPc[w] # "idle" =>
         /\ \A n \in EvReadable : n =< evSeq[w]
         /\ evPc[w] \in {"assigned", "ready"} => evSeq[w] \notin EvReadable
         /\ evStreak = 0 /\ evSidecar # 0 =>
               /\ \A n \in EvOld : n =< evSidecar
               /\ \A n \in evActive : n =< evSidecar \/ n = evSeq[w]
  BY <1>1, <1>3 DEF EvFreshness
<1>6. CASE EvBegin(w)
  <2>1. /\ EvReadable' = EvReadable /\ EvOld' = EvOld /\ evActive' = evActive
        /\ evPc[w] = "idle" /\ evPc'[w] = "assigned" /\ evSeq'[w] = EvLatest + 1
        /\ evSidecar' = evSidecar /\ evStreak' = evStreak
    BY <1>0, <1>6 DEF EvBegin, EvGo, evLogVars, EvReadable, EvOld, EvParts
  <2>2. \A n \in EvReadable : n =< EvLatest
    <3>1. CASE evSidecar = 0
      BY <1>0, <3>1, EvLatestIs
    <3>2. CASE evSidecar # 0
      <4>1. \A n \in EvOld : n =< EvLatest
        BY <1>0, <1>4, <2>1, <3>2, EvLatestIs
      <4> QED BY <1>0, <4>1, EvLatestIs
    <3> QED BY <3>1, <3>2
  <2>3. EvLatest \in Nat /\ \A n \in EvReadable : n < EvLatest + 1
    BY <1>0, <2>2, EvLatestIs
  <2> QED BY <1>0, <1>4, <2>1, <2>3
<1>7. CASE EvRotate(w)
  <2>1. /\ evPc[w] = "assigned" /\ evPc'[w] = "ready" /\ evSeq' = evSeq
        /\ evSidecar' = evSidecar /\ evStreak' = evStreak
    BY <1>0, <1>7 DEF EvRotate, EvGo
  <2>2. \/ EvOld' = EvOld /\ evActive' = evActive
        \/ EvOld' = EvReadable /\ evActive' = {}
    <3>1. CASE evRotated' = Append(evRotated, evActive) /\ evActive' = {}
      BY <3>1, EvPartsRotated
    <3>2. CASE UNCHANGED <<evRotated, evActive>>
      BY <3>2 DEF EvOld, EvParts
    <3> QED BY <1>7, <3>1, <3>2 DEF EvRotate
  <2>3. EvReadable' = EvReadable
    BY <1>0, <1>1, <2>2
  <2>4. evStreak = 0 /\ evSidecar # 0 => \A n \in EvReadable : n =< evSidecar
    BY <1>0, <1>5, <2>1
  <2> QED BY <1>5, <2>1, <2>2, <2>3, <2>4
<1>8. CASE EvWriteLine(w)
  <2>1. /\ evPc[w] = "ready" /\ evPc'[w] = "line" /\ evSeq' = evSeq
        /\ evSidecar' = evSidecar /\ evStreak' = evStreak /\ evRotated' = evRotated
    BY <1>0, <1>8 DEF EvWriteLine, EvGo
  <2>2. EvOld' = EvOld /\ evActive' \subseteq evActive \cup {evSeq[w]}
        /\ EvReadable' \subseteq EvReadable \cup {evSeq[w]}
    BY <2>1, EvAllBecomes DEF EvOld, EvParts
  <2> QED BY <1>0, <1>5, <2>1, <2>2
<1>9. CASE EvWriteNewline(w)
  <2>1. /\ evPc[w] = "line" /\ evPc'[w] = "newline" /\ evSeq' = evSeq
        /\ evSidecar' = evSidecar /\ evStreak' = evStreak
        /\ evRotated' = evRotated /\ evActive' = evActive
    BY <1>0, <1>9 DEF EvWriteNewline, EvGo
  <2>2. EvOld' = EvOld /\ EvReadable' = EvReadable
    BY <2>1 DEF EvOld, EvReadable, EvParts
  <2> QED BY <1>5, <2>1, <2>2
<1>10. CASE EvUpdateSidecar(w)
  <2>1. /\ evPc[w] = "newline" /\ evPc'[w] = "idle"
        /\ EvReadable' = EvReadable /\ EvOld' = EvOld
    BY <1>0, <1>10 DEF EvUpdateSidecar, EvGo, EvOld, EvReadable, EvParts
  <2>2. evSidecar' = evSeq[w] /\ \A n \in EvReadable : n =< evSeq[w]
    BY <1>5, <1>10, <2>1, EvSidecarIs
  <2> QED BY <1>0, <2>1, <2>2
<1>11. CASE EvSidecarFails(w) \/ EvAbandon(w) \/ EvTear(w)
  <2>1. /\ evPc[w] # "idle" /\ evPc'[w] = "idle"
        /\ evSidecar' = evSidecar /\ evStreak' = evStreak + 1 /\ EvOld' = EvOld
    BY <1>0, <1>11 DEF EvSidecarFails, EvAbandon, EvTear, EvGo, evLogVars, EvOld, EvParts
  <2>2. evStreak = 0 /\ evStreak' # 0
    BY <1>0, <1>2, <2>1
  <2> QED BY <1>5, <2>1, <2>2
<1> QED
  BY <1>6, <1>7, <1>8, <1>9, <1>10, <1>11 DEF EvStep

-----------------------------------------------------------------------------
(* What was acknowledged *)

\* A set grows by at most one element.
LEMMA EvOneMore ==
    ASSUME NEW S, NEW T, NEW x, IsFiniteSet(S), T \subseteq S \cup {x}
    PROVE  IsFiniteSet(T) /\ Cardinality(T) =< Cardinality(S) + 1
<1>1. IsFiniteSet(S \cup {x}) /\ Cardinality(S \cup {x}) =< Cardinality(S) + 1
  <2>1. /\ IsFiniteSet(S \cup {x}) /\ Cardinality(S) \in Nat
        /\ Cardinality(S \cup {x}) = IF x \in S THEN Cardinality(S) ELSE Cardinality(S) + 1
    BY FS_AddElement, FS_CardinalityType
  <2> QED BY <2>1
<1>2. IsFiniteSet(T) /\ Cardinality(T) =< Cardinality(S \cup {x})
  BY <1>1, FS_Subset
<1> QED BY <1>1, <1>2, FS_CardinalityType

\* The arithmetic of the next lemma: what is newly lost was owed.
LEMMA EvSlack ==
    ASSUME NEW a \in Nat, NEW b \in Nat, NEW c \in {0, 1}, NEW d \in {0, 1},
           NEW s \in Nat, NEW t \in Nat, b =< a, d - c =< t - s, a + c =< s
    PROVE  b + d =< t
OBVIOUS

\* Every event lost is paid for by a torn append: EvCredit is what is owed so far.
LEMMA EvAccountedKept ==
    ASSUME EvOrder, EvAccounted, NEW w \in EvWriters, EvStep(w)
    PROVE  EvAccounted'
<1> EvTyped /\ EvGrowing /\ EvEndings
  BY DEF EvOrder
<1>0. /\ evRotated \in Seq(SUBSET Nat) /\ evSeq \in [EvWriters -> Nat]
      /\ evActive \in SUBSET Nat /\ evEnds \in {"newline", "bare", "torn"}
      /\ evPc \in [EvWriters -> {"idle", "assigned", "ready", "line", "newline"}]
      /\ evTorn \in Nat /\ EvReadable = EvOld \cup evActive
  BY DEF EvTyped, EventLogTypeOK, EvReadable, EvOld
<1>1. /\ \/ evLock = EvNobody /\ evPc[w] = "idle"
         \/ evLock = w /\ evPc[w] # "idle"
      /\ evLock' = (IF evPc'[w] = "idle" THEN EvNobody ELSE w)
      /\ w # EvNobody
  BY EvAlone, EvAssumption
<1>2. EvFirm = IF EvWriting(w) THEN evActive \ {evSeq[w]} ELSE EvGlue
  BY <1>1 DEF EvFirm, EvWriting
<1>3. EvCredit = IF EvWriting(w) THEN (IF evSeq[w] \in evActive THEN 0 ELSE 1)
                 ELSE (IF evEnds = "newline" THEN 0 ELSE 1)
  BY <1>1 DEF EvCredit, EvWriting
<1>4. EvFirm' = IF EvWriting(w)' THEN evActive' \ {evSeq'[w]} ELSE EvGlue'
  BY <1>1 DEF EvFirm, EvWriting
<1>5. EvCredit' = IF EvWriting(w)' THEN (IF evSeq'[w] \in evActive' THEN 0 ELSE 1)
                  ELSE (IF evEnds' = "newline" THEN 0 ELSE 1)
  BY <1>1 DEF EvCredit, EvWriting
<1>6. /\ IsFiniteSet(evAcked) /\ IsFiniteSet(EvLost)
      /\ Cardinality(EvLost) \in Nat /\ Cardinality(EvLost) + EvCredit =< evTorn
  BY FS_Difference, FS_CardinalityType DEF EvAccounted, EvLost
<1>7. EvGlue' = IF evEnds' = "bare" THEN evActive' \ {EvTail'} ELSE evActive'
  BY DEF EvGlue
\* An append that returns nothing: no line that was safe is lost.
<1>8. ASSUME evAcked' = evAcked, EvOld \cup EvFirm \subseteq EvOld' \cup EvFirm',
             evTorn' \in Nat, EvCredit' - EvCredit =< evTorn' - evTorn,
             EvCredit \in {0, 1}, EvCredit' \in {0, 1}
      PROVE  EvAccounted'
  <2>1. EvLost' \subseteq EvLost
    BY <1>8 DEF EvLost
  <2>2. Cardinality(EvLost') =< Cardinality(EvLost) /\ Cardinality(EvLost') \in Nat
    BY <1>6, <2>1, FS_Subset, FS_CardinalityType
  <2>3. Cardinality(EvLost') + EvCredit' =< evTorn'
    <3>1. Cardinality(EvLost) \in Nat /\ Cardinality(EvLost') \in Nat /\ evTorn \in Nat
      BY <1>0, <1>6, <2>2
    <3> QED BY <1>6, <1>8, <2>2, <3>1, EvSlack
  <2> QED BY <1>6, <1>8, <2>3 DEF EvAccounted
\* An append that returns Ok: its line is safe now, or uses up a torn append.
<1>9. ASSUME evAcked' = evAcked \cup {evSeq[w]}, EvWriting(w), ~EvWriting(w)', evEnds' = "newline",
             EvOld' = EvOld, evActive' = evActive, evTorn' = evTorn
      PROVE  EvAccounted'
  <2>1. IsFiniteSet(evAcked')
    BY <1>6, <1>9, FS_AddElement
  <2>2. EvFirm' = evActive /\ EvFirm = evActive \ {evSeq[w]} /\ EvCredit' = 0
    BY <1>2, <1>4, <1>5, <1>7, <1>9
  <2>3. CASE evSeq[w] \in evActive
    <3>1. EvLost' \subseteq EvLost /\ EvCredit = 0
      BY <1>3, <1>9, <2>2, <2>3 DEF EvLost
    <3>2. Cardinality(EvLost') =< Cardinality(EvLost) /\ Cardinality(EvLost') \in Nat
      BY <1>6, <3>1, FS_Subset, FS_CardinalityType
    <3> QED BY <1>0, <1>6, <1>9, <2>1, <2>2, <3>1, <3>2 DEF EvAccounted
  <2>4. CASE evSeq[w] \notin evActive
    <3>1. EvLost' \subseteq EvLost \cup {evSeq[w]} /\ EvCredit = 1
      BY <1>3, <1>9, <2>2, <2>4 DEF EvLost
    <3>2. Cardinality(EvLost') =< Cardinality(EvLost) + 1 /\ Cardinality(EvLost') \in Nat
      BY <1>6, <3>1, EvOneMore, FS_CardinalityType
    <3> QED BY <1>0, <1>6, <1>9, <2>1, <2>2, <3>1, <3>2 DEF EvAccounted
  <2> QED BY <2>3, <2>4
<1>10. CASE EvBegin(w)
  <2>1. /\ UNCHANGED <<evRotated, evActive, evEnds, evTorn, evAcked>>
        /\ ~EvWriting(w) /\ ~EvWriting(w)'
    BY <1>0, <1>10 DEF EvBegin, EvGo, evLogVars, EvWriting
  <2>2. EvOld' = EvOld /\ EvFirm' = EvFirm /\ EvCredit' = EvCredit
    BY <1>2, <1>3, <1>4, <1>5, <2>1 DEF EvOld, EvParts, EvGlue, EvTail
  <2> QED BY <1>0, <1>3, <1>8, <2>1, <2>2
<1>11. CASE EvRotate(w)
  <2>1. UNCHANGED <<evTorn, evAcked>> /\ ~EvWriting(w) /\ ~EvWriting(w)'
    BY <1>0, <1>11 DEF EvRotate, EvGo, EvWriting
  <2>2. CASE UNCHANGED <<evRotated, evActive, evEnds>>
    <3>1. EvOld' = EvOld /\ EvFirm' = EvFirm /\ EvCredit' = EvCredit
      BY <1>2, <1>3, <1>4, <1>5, <2>1, <2>2 DEF EvOld, EvParts, EvGlue, EvTail
    <3> QED BY <1>0, <1>3, <1>8, <2>1, <3>1
  <2>3. CASE evRotated' = Append(evRotated, evActive) /\ evEnds' = "newline"
    <3>1. EvOld' = EvReadable
      BY <2>3, EvPartsRotated
    <3>2. EvFirm \subseteq evActive /\ EvCredit' = 0
      BY <1>2, <1>5, <2>1, <2>3, EvGlueIs
    <3>3. EvCredit \in {0, 1} /\ evTorn' - evTorn = 0
      BY <1>0, <1>3, <2>1
    <3>4. EvOld \cup EvFirm \subseteq EvOld' \cup EvFirm'
      BY <1>0, <3>1, <3>2
    <3> QED BY <1>0, <1>8, <2>1, <3>2, <3>3, <3>4
  <2> QED BY <1>11, <2>2, <2>3 DEF EvRotate
<1>12. CASE EvWriteLine(w)
  <2>1. /\ UNCHANGED <<evRotated, evTorn, evAcked, evSeq>> /\ evPc[w] = "ready"
        /\ ~EvWriting(w) /\ EvWriting(w)'
    BY <1>0, <1>12 DEF EvWriteLine, EvGo, EvWriting
  <2>2. EvOld' = EvOld /\ evSeq[w] \notin evActive
    BY <2>1 DEF EvOld, EvParts, EvGrowing
  <2>3. CASE evEnds = "newline"
    <3>1. evActive' = evActive \cup {evSeq[w]}
      BY <1>12, <2>3 DEF EvWriteLine
    <3>2. EvFirm' = EvFirm /\ EvCredit' = 0 /\ EvCredit = 0
      BY <1>2, <1>3, <1>4, <1>5, <2>1, <2>2, <2>3, <3>1 DEF EvGlue
    <3> QED BY <1>0, <1>8, <2>1, <2>2, <3>2
  <2>4. CASE evEnds # "newline"
    <3>1. evActive' = EvGlue
      BY <1>12, <2>4 DEF EvWriteLine
    <3>2. EvFirm' = EvFirm /\ EvCredit' = 1 /\ EvCredit = 1
      BY <1>2, <1>3, <1>4, <1>5, <2>1, <2>2, <2>4, <3>1, EvGlueIs
    <3> QED BY <1>0, <1>8, <2>1, <2>2, <3>2
  <2> QED BY <2>3, <2>4
<1>13. CASE EvWriteNewline(w)
  <2>1. /\ UNCHANGED <<evRotated, evActive, evTorn, evAcked, evSeq>>
        /\ EvWriting(w) /\ EvWriting(w)'
    BY <1>0, <1>13 DEF EvWriteNewline, EvGo, EvWriting
  <2>2. EvOld' = EvOld /\ EvFirm' = EvFirm /\ EvCredit' = EvCredit
    BY <1>2, <1>3, <1>4, <1>5, <2>1 DEF EvOld, EvParts
  <2> QED BY <1>0, <1>3, <1>8, <2>1, <2>2
<1>14. CASE EvUpdateSidecar(w) \/ EvSidecarFails(w)
  <2>1. /\ UNCHANGED <<evRotated, evActive, evEnds, evTorn>> /\ evPc[w] = "newline"
        /\ evAcked' = evAcked \cup {evSeq[w]} /\ EvWriting(w) /\ ~EvWriting(w)'
    BY <1>0, <1>14 DEF EvUpdateSidecar, EvSidecarFails, EvGo, EvWriting, evLogVars
  <2>2. EvOld' = EvOld /\ evEnds' = "newline"
    BY <2>1 DEF EvOld, EvParts, EvEndings
  <2> QED BY <1>9, <2>1, <2>2
<1>15. CASE EvAbandon(w)
  <2>1. /\ UNCHANGED <<evRotated, evActive, evEnds, evAcked>> /\ ~EvWriting(w)'
        /\ evTorn' = evTorn + (IF evPc[w] = "line" THEN 1 ELSE 0)
        /\ evPc[w] \in {"assigned", "ready", "line", "newline"}
    BY <1>0, <1>15 DEF EvAbandon, EvWriting, evLogVars
  <2>2. EvOld' = EvOld /\ EvGlue' = EvGlue
    BY <2>1 DEF EvOld, EvParts, EvGlue, EvTail
  <2>3. CASE evPc[w] \in {"assigned", "ready"}
    <3>1. EvFirm' = EvFirm /\ EvCredit' = EvCredit
      BY <1>2, <1>3, <1>4, <1>5, <2>1, <2>2, <2>3 DEF EvWriting
    <3> QED BY <1>0, <1>3, <1>8, <2>1, <2>2, <2>3, <3>1
  <2>4. CASE evPc[w] = "line"
    <3>1. evEnds # "newline" /\ (evEnds = "bare" <=> evSeq[w] \in evActive)
      BY <2>4 DEF EvEndings
    <3>2. EvFirm \subseteq EvGlue
      <4>1. CASE evEnds = "bare"
        <5>1. EvTail = evSeq[w]
          <6>1. EvTail \in evActive /\ evSeq[w] =< EvTail
            BY <3>1, <4>1, EvTailIs
          <6>2. EvTail =< evSeq[w]
            BY <2>4, <6>1 DEF EvGrowing
          <6> QED BY <1>0, <6>1, <6>2
        <5> QED BY <1>2, <2>4, <5>1 DEF EvGlue, EvWriting
      <4>2. CASE evEnds # "bare"
        BY <1>2, <2>4, <4>2 DEF EvGlue, EvWriting
      <4> QED BY <4>1, <4>2
    <3>3. EvFirm' = EvGlue /\ EvCredit' = 1
      BY <1>4, <1>5, <2>1, <2>2, <3>1
    <3>4. EvCredit \in {0, 1} /\ evTorn' = evTorn + 1
      BY <1>3, <2>1, <2>4
    <3> QED BY <1>0, <1>8, <2>1, <2>2, <3>2, <3>3, <3>4
  <2>5. CASE evPc[w] = "newline"
    <3>1. evEnds = "newline"
      BY <2>5 DEF EvEndings
    <3>2. EvFirm \subseteq evActive /\ EvFirm' = evActive /\ EvCredit' = 0
      BY <1>2, <1>4, <1>5, <2>1, <2>2, <2>5, <3>1 DEF EvGlue, EvWriting
    <3>3. EvCredit \in {0, 1} /\ evTorn' = evTorn
      BY <1>0, <1>3, <2>1, <2>5
    <3>4. EvOld \cup EvFirm \subseteq EvOld' \cup EvFirm'
      BY <2>2, <3>2
    <3>5. EvCredit' - EvCredit =< evTorn' - evTorn
      BY <1>0, <3>2, <3>3
    <3> QED BY <1>0, <1>8, <2>1, <3>2, <3>3, <3>4, <3>5
  <2> QED BY <2>1, <2>3, <2>4, <2>5
<1>16. CASE EvTear(w)
  <2>1. /\ UNCHANGED <<evRotated, evAcked>> /\ evPc[w] = "ready" /\ evActive' = EvGlue
        /\ evEnds' = "torn" /\ evTorn' = evTorn + 1 /\ ~EvWriting(w) /\ ~EvWriting(w)'
    BY <1>0, <1>16 DEF EvTear, EvGo, EvWriting
  <2>2. EvOld' = EvOld
    BY <2>1 DEF EvOld, EvParts
  <2>3. EvFirm' = EvFirm /\ EvCredit' = 1 /\ EvCredit \in {0, 1}
    BY <1>2, <1>3, <1>4, <1>5, <1>7, <2>1
  <2> QED BY <1>0, <1>8, <2>1, <2>2, <2>3
<1> QED
  BY <1>10, <1>11, <1>12, <1>13, <1>14, <1>15, <1>16 DEF EvStep

-----------------------------------------------------------------------------
(* The followers *)

\* What nobody will find stays so, whatever is appended.
LEMMA EvNeverShownStays ==
    ASSUME EvOrder, NEW w \in EvWriters, EvStep(w), NEW n \in Nat, EvNeverShown(n)
    PROVE  EvNeverShown(n)'
<1> EvTyped /\ EvGrowing
  BY DEF EvOrder
<1>0. /\ evSidecar \in Nat /\ evSeq \in [EvWriters -> Nat]
      /\ evPc \in [EvWriters -> {"idle", "assigned", "ready", "line", "newline"}]
  BY DEF EvTyped, EventLogTypeOK
<1>1. evSidecar =< evSidecar' /\ evSidecar' \in Nat
  <2>1. CASE EvUpdateSidecar(w)
    BY <2>1, EvSidecarIs
  <2>2. CASE evSidecar' = evSidecar
    BY <1>0, <2>2
  <2> QED
    BY <2>1, <2>2
    DEF EvStep, EvBegin, EvRotate, EvWriteLine, EvWriteNewline, EvSidecarFails, EvAbandon, EvTear,
        evLogVars
<1>2. n \notin EvAll'
  <2>1. CASE EvBegin(w)
    <3>1. EvAll' = EvAll
      BY <2>1 DEF EvBegin, evLogVars, EvAll, EvReadable, EvParts
    <3> QED BY <3>1 DEF EvNeverShown
  <2>2. CASE evPc[w] # "idle"
    <3>1. n # evSeq[w]
      BY <1>0, <2>2 DEF EvGrowing, EvNeverShown
    <3> QED BY <3>1, EvAllBecomes DEF EvNeverShown
  <2> QED
    BY <1>0, <2>1, <2>2
    DEF EvStep, EvRotate, EvWriteLine, EvWriteNewline, EvUpdateSidecar, EvSidecarFails, EvAbandon,
        EvTear, EvGo
<1> QED BY <1>0, <1>1, <1>2 DEF EvNeverShown

\* No append makes up for a number that a follower has passed.
LEMMA EvFollowingAppended ==
    ASSUME EvOrder, EvFollowing, NEW w \in EvWriters, EvStep(w)
    PROVE  EvFollowing'
<1> EvTyped
  BY DEF EvOrder
<1>0. /\ evRotated \in Seq(SUBSET Nat) /\ Len(evRotated) \in Nat
      /\ evList \in [EvReaders -> [busy : BOOLEAN, parts : Nat, active : BOOLEAN]]
  BY DEF EvTyped, EventLogTypeOK
<1>1. UNCHANGED <<evList, evCursor, evStart, evSeen, evStraddled, evLegacy>>
  BY EvAlone DEF evReaderVars
<1>2. /\ Len(evRotated') \in Nat /\ Len(evRotated) =< Len(evRotated')
      /\ \A k \in 0..Len(evRotated) : EvParts(k)' = EvParts(k)
  <2>1. CASE evRotated' = evRotated
    BY <1>0, <2>1 DEF EvParts
  <2>2. CASE evRotated' = Append(evRotated, evActive)
    BY <1>0, <2>2, EvPartsRotated
  <2> QED
    BY <2>1, <2>2
    DEF EvStep, EvBegin, EvRotate, EvWriteLine, EvWriteNewline, EvUpdateSidecar, EvSidecarFails,
        EvAbandon, EvTear, evLogVars
<1>3. ASSUME NEW r \in EvReaders
      PROVE  /\ ~evStraddled'[r] =>
                   \A n \in Nat :
                       evStart'[r] < n /\ n =< evCursor'[r] => n \in evSeen'[r] \/ EvNeverShown(n)'
             /\ evList'[r].busy => evList'[r].parts =< Len(evRotated')
             /\ evList'[r].busy /\ ~evList'[r].active =>
                   \A p \in EvListed(r)' : \A n \in Nat :
                       n < p => n \in EvListed(r)' \/ EvNeverShown(n)'
  <2>1. \A n \in Nat : EvNeverShown(n) => EvNeverShown(n)'
    BY EvNeverShownStays
  <2>2. evList'[r] = evList[r] /\ evList[r].parts \in Nat
    BY <1>0, <1>1
  <2>3. evList[r].busy => evList'[r].parts =< Len(evRotated')
    BY <1>0, <1>2, <2>2 DEF EvFollowing
  <2>4. evList[r].busy => EvListed(r)' = EvListed(r)
    <3>1. evList[r].busy => evList[r].parts \in 0..Len(evRotated)
      BY <1>0, <2>2 DEF EvFollowing
    <3>2. ASSUME NEW k \in 0..Len(evRotated), k = evList[r].parts
          PROVE  EvListed(r)' = EvListed(r)
      <4>1. EvListed(r)' = (1..evLegacy') \cup EvParts(k)'
        BY <2>2, <3>2 DEF EvListed
      <4> QED BY <1>1, <1>2, <3>2, <4>1 DEF EvListed
    <3> QED BY <3>1, <3>2
  <2>5. ~evStraddled'[r] =>
           \A n \in Nat :
               evStart'[r] < n /\ n =< evCursor'[r] => n \in evSeen'[r] \/ EvNeverShown(n)'
    BY <1>1, <2>1 DEF EvFollowing
  <2>6. evList'[r].busy /\ ~evList'[r].active =>
           \A p \in EvListed(r)' : \A n \in Nat :
               n < p => n \in EvListed(r)' \/ EvNeverShown(n)'
    BY <2>1, <2>2, <2>4 DEF EvFollowing
  <2> QED BY <2>2, <2>3, <2>5, <2>6
<1> QED BY <1>3 DEF EvFollowing

\* A page holds every number it could: what is below one of its numbers and
\* above the cursor is in it, if it was found.
LEMMA EvPageIs ==
    ASSUME EvTyped, NEW r \in EvReaders, NEW limit \in Nat,
           EvFound(r) \subseteq 0..(EvMaxSeq + 1)
    PROVE  /\ EvPage(r, limit) \subseteq EvFound(r)
           /\ \A p \in EvPage(r, limit) : p > evCursor[r]
           /\ \A p \in EvPage(r, limit) : \A n \in EvFound(r) :
                 evCursor[r] < n /\ n < p => n \in EvPage(r, limit)
<1>1. IsFiniteSet(EvFound(r)) /\ EvFound(r) \in SUBSET Nat
  <2>1. IsFiniteSet(0..(EvMaxSeq + 1))
    BY EvAssumption, FS_Interval
  <2>2. EvFound(r) \in SUBSET (0..(EvMaxSeq + 1))
    OBVIOUS
  <2>3. IsFiniteSet(EvFound(r))
    BY <2>1, <2>2, FS_Subset
  <2>4. 0..(EvMaxSeq + 1) \subseteq Nat
    BY EvAssumption
  <2> QED BY <2>3, <2>4
<1>2. ASSUME NEW p \in EvPage(r, limit), NEW n \in EvFound(r), evCursor[r] < n, n < p
      PROVE  n \in EvPage(r, limit)
  <2> DEFINE Below(i) == {m \in EvFound(r) : m > evCursor[r] /\ m < i}
  <2>1. p \in EvFound(r) /\ Cardinality(Below(p)) < limit
    BY DEF EvPage
  <2>2. Below(n) \subseteq Below(p)
    BY <1>1, <1>2, <2>1
  <2>3. IsFiniteSet(Below(p))
    <3>1. Below(p) \in SUBSET EvFound(r)
      OBVIOUS
    <3> QED BY <1>1, <3>1, FS_Subset
  <2>4. IsFiniteSet(Below(n)) /\ Cardinality(Below(n)) =< Cardinality(Below(p))
    BY <2>2, <2>3, FS_Subset
  <2>5. Cardinality(Below(n)) \in Nat /\ Cardinality(Below(p)) \in Nat
    BY <2>3, <2>4, FS_CardinalityType
  <2>6. Cardinality(Below(n)) < limit
    BY <2>1, <2>4, <2>5
  <2>7. n > evCursor[r]
    BY <1>1, <1>2 DEF EvTyped, EventLogTypeOK
  <2> QED BY <2>6, <2>7 DEF EvPage
<1> QED BY <1>2 DEF EvPage


\* Between where it began and its cursor a follower has seen all that ever shows.
EvCaughtUp(straddled, start, cursor, seen) ==
    ~straddled =>
        \A n \in Nat : start < n /\ n =< cursor => n \in seen \/ EvNeverShown(n)

\* A listing without events.jsonl lacks nothing below what it has.
EvListSound(list) ==
    /\ list.busy => list.parts =< Len(evRotated)
    /\ list.busy /\ ~list.active =>
          \A p \in (1..evLegacy) \cup EvParts(list.parts) : \A n \in Nat :
              n < p => n \in (1..evLegacy) \cup EvParts(list.parts) \/ EvNeverShown(n)

\* What a follower passes in one read, it is given, or nobody will find it.
LEMMA EvFollowingRead ==
    ASSUME EvOrder, EvSolid, EvFollowing, NEW r \in EvReaders,
           EvFollow(r) \/ EvListPaths(r) \/ EvRead(r) \/ EvReadFails(r)
    PROVE  EvFollowing' /\ EvTyped'
<1> EvTyped /\ EventLogTypeOK /\ EvEndings
  BY DEF EvOrder, EvTyped
<1>0. /\ evRotated \in Seq(SUBSET Nat) /\ Len(evRotated) \in Nat
      /\ evList \in [EvReaders -> [busy : BOOLEAN, parts : Nat, active : BOOLEAN]]
      /\ evCursor \in [EvReaders -> Nat] /\ evStart \in [EvReaders -> Nat]
      /\ evSeen \in [EvReaders -> SUBSET Nat] /\ evStraddled \in [EvReaders -> BOOLEAN]
      /\ evSidecar \in Nat /\ evPresent \in BOOLEAN /\ EvMaxSeq + 1 \in Nat
      /\ EvAll \subseteq 0..(EvMaxSeq + 1)
  BY EvAssumption DEF EventLogTypeOK, EvTyped, EvBounded
<1>1. UNCHANGED evLogVars /\ UNCHANGED evWriterVars
  BY DEF EvFollow, EvListPaths, EvRead, EvReadFails
<1>2. /\ EvAll' = EvAll /\ evSidecar' = evSidecar /\ evRotated' = evRotated
      /\ evLegacy' = evLegacy
      /\ \A k \in Nat : EvParts(k)' = EvParts(k)
      /\ \A n : EvNeverShown(n)' <=> EvNeverShown(n)
  BY <1>1 DEF evLogVars, EvAll, EvReadable, EvParts, EvNeverShown
\* One follower moves: what is left to show is about that one.
<1>3. ASSUME NEW list \in [busy : BOOLEAN, parts : Nat, active : BOOLEAN],
             NEW cursor \in Nat, NEW start \in Nat, NEW seen \in SUBSET Nat, NEW straddled \in BOOLEAN,
             evList' = [evList EXCEPT ![r] = list],
             evCursor' = [evCursor EXCEPT ![r] = cursor],
             evStart' = [evStart EXCEPT ![r] = start],
             evSeen' = [evSeen EXCEPT ![r] = seen],
             evStraddled' = [evStraddled EXCEPT ![r] = straddled],
             EvCaughtUp(straddled, start, cursor, seen), EvListSound(list)
      PROVE  EvFollowing' /\ EvTyped'
  <2>1. EvTyped'
    <3>1. /\ evList' \in [EvReaders -> [busy : BOOLEAN, parts : Nat, active : BOOLEAN]]
          /\ evCursor' \in [EvReaders -> Nat] /\ evStart' \in [EvReaders -> Nat]
          /\ evSeen' \in [EvReaders -> SUBSET Nat] /\ evStraddled' \in [EvReaders -> BOOLEAN]
      BY <1>0, <1>3
    <3>2. EventLogTypeOK'
      BY <1>1, <3>1 DEF EventLogTypeOK, evLogVars, evWriterVars
    <3>3. EvBounded'
      BY <1>1, <1>2 DEF EvTyped, EvBounded, evLogVars, evWriterVars
    <3> QED BY <3>2, <3>3 DEF EvTyped
  <2>2. ASSUME NEW q \in EvReaders
        PROVE  /\ ~evStraddled'[q] =>
                     \A n \in Nat :
                         evStart'[q] < n /\ n =< evCursor'[q] =>
                             n \in evSeen'[q] \/ EvNeverShown(n)'
               /\ evList'[q].busy => evList'[q].parts =< Len(evRotated')
               /\ evList'[q].busy /\ ~evList'[q].active =>
                     \A p \in EvListed(q)' : \A n \in Nat :
                         n < p => n \in EvListed(q)' \/ EvNeverShown(n)'
    <3>1. CASE q = r
      <4>1. /\ evList'[q] = list /\ evCursor'[q] = cursor /\ evStart'[q] = start
            /\ evSeen'[q] = seen /\ evStraddled'[q] = straddled
        BY <1>0, <1>3, <3>1
      <4>2. EvListed(q)' = (1..evLegacy) \cup EvParts(list.parts)
        <5>1. list.parts \in Nat
          OBVIOUS
        <5>2. EvListed(q)' = (1..evLegacy') \cup EvParts(list.parts)'
          BY <4>1 DEF EvListed, EvParts
        <5> QED BY <1>2, <5>1, <5>2
      <4> QED BY <1>2, <1>3, <4>1, <4>2 DEF EvCaughtUp, EvListSound
    <3>2. CASE q # r
      <4>1. /\ evList'[q] = evList[q] /\ evCursor'[q] = evCursor[q]
            /\ evStart'[q] = evStart[q] /\ evSeen'[q] = evSeen[q]
            /\ evStraddled'[q] = evStraddled[q] /\ evList[q].parts \in Nat
        BY <1>0, <1>3, <3>2
      <4>2. EvListed(q)' = EvListed(q)
        BY <1>2, <4>1 DEF EvListed, EvParts
      <4> QED BY <1>2, <4>1, <4>2 DEF EvFollowing
    <3> QED BY <3>1, <3>2
  <2> QED BY <2>1, <2>2 DEF EvFollowing
<1>4. /\ evList[r] \in [busy : BOOLEAN, parts : Nat, active : BOOLEAN]
      /\ evCursor[r] \in Nat /\ evStart[r] \in Nat /\ evSeen[r] \in SUBSET Nat
      /\ evStraddled[r] \in BOOLEAN
  BY <1>0
<1>5. /\ evList = [evList EXCEPT ![r] = evList[r]]
      /\ evCursor = [evCursor EXCEPT ![r] = evCursor[r]]
      /\ evStart = [evStart EXCEPT ![r] = evStart[r]]
      /\ evSeen = [evSeen EXCEPT ![r] = evSeen[r]]
      /\ evStraddled = [evStraddled EXCEPT ![r] = evStraddled[r]]
  BY <1>0
<1>6. /\ EvCaughtUp(evStraddled[r], evStart[r], evCursor[r], evSeen[r])
      /\ EvListSound(evList[r])
  BY DEF EvFollowing, EvListed, EvCaughtUp, EvListSound
<1>7. EvIdle \in [busy : BOOLEAN, parts : Nat, active : BOOLEAN] /\ EvListSound(EvIdle)
  BY DEF EvIdle, EvListSound
<1>8. CASE EvFollow(r)
  <2>1. EvLatest \in Nat
    BY EvLatestIs
  <2>2. /\ evList' = [evList EXCEPT ![r] = evList[r]]
        /\ evCursor' = [evCursor EXCEPT ![r] = EvLatest]
        /\ evStart' = [evStart EXCEPT ![r] = EvLatest]
        /\ evSeen' = [evSeen EXCEPT ![r] = evSeen[r]]
        /\ evStraddled' = [evStraddled EXCEPT ![r] = evStraddled[r]]
    BY <1>5, <1>8 DEF EvFollow
  <2>3. EvCaughtUp(evStraddled[r], EvLatest, EvLatest, evSeen[r])
    <3>1. \A n \in Nat : ~(EvLatest < n /\ n =< EvLatest)
      BY <2>1
    <3> QED BY <3>1 DEF EvCaughtUp
  <2> DEFINE list == evList[r]
             seen == evSeen[r]
             straddled == evStraddled[r]
             latest == EvLatest
  <2>4. /\ list \in [busy : BOOLEAN, parts : Nat, active : BOOLEAN] /\ latest \in Nat
        /\ seen \in SUBSET Nat /\ straddled \in BOOLEAN
        /\ EvCaughtUp(straddled, latest, latest, seen) /\ EvListSound(list)
    BY <1>4, <1>6, <2>1, <2>3
  <2>5. /\ evList' = [evList EXCEPT ![r] = list]
        /\ evCursor' = [evCursor EXCEPT ![r] = latest]
        /\ evStart' = [evStart EXCEPT ![r] = latest]
        /\ evSeen' = [evSeen EXCEPT ![r] = seen]
        /\ evStraddled' = [evStraddled EXCEPT ![r] = straddled]
    BY <2>2
  <2> HIDE DEF list, seen, straddled, latest
  <2> QED BY <1>3, <2>4, <2>5
<1>9. CASE EvListPaths(r)
  <2> DEFINE list == [busy |-> TRUE, parts |-> Len(evRotated), active |-> evPresent]
  <2>1. list \in [busy : BOOLEAN, parts : Nat, active : BOOLEAN]
    BY <1>0
  <2>2. /\ evList' = [evList EXCEPT ![r] = list]
        /\ evCursor' = [evCursor EXCEPT ![r] = evCursor[r]]
        /\ evStart' = [evStart EXCEPT ![r] = evStart[r]]
        /\ evSeen' = [evSeen EXCEPT ![r] = evSeen[r]]
        /\ evStraddled' = [evStraddled EXCEPT ![r] = evStraddled[r]]
    BY <1>5, <1>9 DEF EvListPaths
  <2>3. list.parts = Len(evRotated) /\ list.active = evPresent
    OBVIOUS
  <2>4. ASSUME ~evPresent, NEW p \in (1..evLegacy) \cup EvParts(Len(evRotated)), NEW n \in Nat,
               n < p, n \notin (1..evLegacy) \cup EvParts(Len(evRotated))
        PROVE  EvNeverShown(n)
    <3>1. EvAll = (1..evLegacy) \cup EvParts(Len(evRotated))
      BY <2>4 DEF EvAll, EvReadable, EvEndings
    <3>2. ~(evSidecar < n)
      BY <2>4, <3>1 DEF EvSolid, EvSolidAbove
    <3> QED BY <1>0, <2>4, <3>1, <3>2 DEF EvNeverShown
  <2>5. list.busy => list.parts =< Len(evRotated)
    BY <1>0, <2>3
  <2>6. list.busy /\ ~list.active =>
            \A p \in (1..evLegacy) \cup EvParts(list.parts) : \A n \in Nat :
                n < p => n \in (1..evLegacy) \cup EvParts(list.parts) \/ EvNeverShown(n)
    <3> HIDE DEF list
    <3> SUFFICES ASSUME list.busy, ~list.active,
                        NEW p \in (1..evLegacy) \cup EvParts(list.parts), NEW n \in Nat, n < p,
                        n \notin (1..evLegacy) \cup EvParts(list.parts)
                 PROVE  EvNeverShown(n)
      OBVIOUS
    <3>1. ~evPresent
      BY <2>3
    <3> QED BY <2>3, <2>4, <3>1
  <2> HIDE DEF list
  <2>7. EvListSound(list)
    BY <2>5, <2>6 DEF EvListSound
  <2> QED BY <1>3, <1>4, <1>6, <2>1, <2>2, <2>7
<1>10. CASE EvReadFails(r)
  <2>1. /\ evList' = [evList EXCEPT ![r] = EvIdle]
        /\ evCursor' = [evCursor EXCEPT ![r] = evCursor[r]]
        /\ evStart' = [evStart EXCEPT ![r] = evStart[r]]
        /\ evSeen' = [evSeen EXCEPT ![r] = evSeen[r]]
        /\ evStraddled' = [evStraddled EXCEPT ![r] = evStraddled[r]]
    BY <1>5, <1>10 DEF EvReadFails
  <2> QED BY <1>3, <1>4, <1>6, <1>7, <2>1
<1>11. CASE EvRead(r)
  <2>1. PICK limit \in {1, EvMaxSeq + 1} :
           /\ evCursor' = [evCursor EXCEPT ![r] = EvMaxOf(EvPage(r, limit) \cup {@})]
           /\ evSeen' = [evSeen EXCEPT ![r] = @ \cup EvPage(r, limit)]
    BY <1>11 DEF EvRead
  <2> DEFINE page == EvPage(r, limit)
             cursor == EvMaxOf(page \cup {evCursor[r]})
             straddled == evStraddled[r] \/ (evList[r].active /\ evList[r].parts # Len(evRotated))
  <2>2. /\ evList' = [evList EXCEPT ![r] = EvIdle]
        /\ evCursor' = [evCursor EXCEPT ![r] = cursor]
        /\ evStart' = [evStart EXCEPT ![r] = evStart[r]]
        /\ evSeen' = [evSeen EXCEPT ![r] = evSeen[r] \cup page]
        /\ evStraddled' = [evStraddled EXCEPT ![r] = straddled]
    BY <1>0, <1>5, <1>11, <2>1 DEF EvRead
  <2>3. evList[r].busy /\ (evList[r].active => evPresent) /\ evList[r].parts \in 0..Len(evRotated)
    BY <1>0, <1>4, <1>6, <1>11 DEF EvRead, EvListSound
  <2>4. EvFound(r) = EvListed(r) \cup (IF evList[r].active THEN evActive ELSE {})
    BY DEF EvFound, EvListed
  <2>5. EvFound(r) \subseteq EvAll
    <3>1. EvParts(evList[r].parts) \subseteq EvOld
      BY <1>0, <2>3 DEF EvParts, EvOld
    <3> QED BY <2>4, <3>1 DEF EvAll, EvReadable, EvListed, EvOld
  <2>6. limit \in Nat
    BY <1>0
  <2>7. /\ page \subseteq EvFound(r) /\ \A p \in page : p > evCursor[r]
        /\ \A p \in page : \A n \in EvFound(r) : evCursor[r] < n /\ n < p => n \in page
    BY <1>0, <2>5, <2>6, EvPageIs
  <2>8. page \subseteq 0..(EvMaxSeq + 1)
    BY <1>0, <2>5, <2>7
  <2>9. cursor \in page \cup {evCursor[r]} /\ cursor \in Nat
    <3>1. page \cup {evCursor[r]} \in SUBSET (0..(EvMaxSeq + 1 + evCursor[r]))
      BY <1>0, <1>4, <2>8
    <3>2. EvMaxSeq + 1 + evCursor[r] \in Nat
      BY <1>0, <1>4
    <3> HIDE DEF page
    <3>3. /\ cursor \in (page \cup {evCursor[r]}) \cup {0}
          /\ \A n \in (page \cup {evCursor[r]}) \cup {0} : n =< cursor
          /\ cursor \in Nat
      BY <3>1, <3>2, EvMaximum
    <3> HIDE DEF cursor
    <3>4. CASE cursor = 0
      <4>1. evCursor[r] =< 0
        BY <3>3, <3>4
      <4> QED BY <1>4, <3>4, <4>1
    <3>5. CASE cursor # 0
      BY <3>3, <3>5
    <3> QED BY <3>4, <3>5
  <2> HIDE DEF page, cursor
  <2>10. ASSUME ~straddled, NEW n \in Nat, evStart[r] < n, n =< cursor
         PROVE  n \in evSeen[r] \cup page \/ EvNeverShown(n)
    <3>1. CASE n =< evCursor[r]
      BY <1>6, <2>10, <3>1 DEF EvCaughtUp
    <3>2. CASE ~(n =< evCursor[r])
      <4>1. cursor \in page /\ evCursor[r] < n
        BY <1>4, <2>9, <2>10, <3>2
      <4>2. CASE n = cursor \/ n \in EvFound(r)
        BY <2>7, <2>9, <2>10, <4>1, <4>2
      <4>3. CASE n # cursor /\ n \notin EvFound(r)
        <5>1. n < cursor /\ cursor \in EvFound(r)
          BY <2>7, <2>9, <2>10, <4>1, <4>3
        <5>2. CASE evList[r].active
          <6>1. EvFound(r) = EvAll
            BY <2>4, <2>10, <5>2 DEF EvAll, EvReadable, EvListed
          <6>2. ~(evSidecar < n)
            BY <4>3, <5>1, <6>1 DEF EvSolid, EvSolidAbove
          <6> QED BY <1>0, <4>3, <6>1, <6>2 DEF EvNeverShown
        <5>3. CASE ~evList[r].active
          BY <2>3, <2>4, <4>3, <5>1, <5>3 DEF EvFollowing
        <5> QED BY <5>2, <5>3
      <4> QED BY <4>2, <4>3
    <3> QED BY <3>1, <3>2
  <2>11. evSeen[r] \cup page \in SUBSET Nat
    <3>1. page \subseteq Nat
      BY <1>0, <2>8
    <3> QED BY <1>4, <3>1
  <2>12. straddled \in BOOLEAN
    OBVIOUS
  <2>13. EvCaughtUp(straddled, evStart[r], cursor, evSeen[r] \cup page)
    BY <2>10 DEF EvCaughtUp
  <2> HIDE DEF straddled
  <2> QED BY <1>3, <1>4, <1>7, <2>2, <2>9, <2>11, <2>12, <2>13
<1> QED BY <1>8, <1>9, <1>10, <1>11

-----------------------------------------------------------------------------
\* An empty log has lost nothing.
LEMMA EvInitOk == EventLogInit => EvInv
<1> SUFFICES ASSUME EventLogInit PROVE EvInv
  OBVIOUS
<1> USE EvAssumption DEF EventLogInit
<1>1. EvReadable = {} /\ EvOld = {} /\ EvAll = 1..evLegacy /\ EvGlue = {}
  BY DEF EvReadable, EvOld, EvParts, EvAll, EvGlue
<1>2. EventLogTypeOK
  <2>1. evRotated \in Seq(SUBSET Nat)
    OBVIOUS
  <2>2. /\ evPc \in [EvWriters -> {"idle", "assigned", "ready", "line", "newline"}]
        /\ evSeq \in [EvWriters -> Nat]
        /\ \A w \in EvWriters : evLock = w <=> evPc[w] # "idle"
    OBVIOUS
  <2>3. evList \in [EvReaders -> [busy : BOOLEAN, parts : Nat, active : BOOLEAN]]
    BY DEF EvIdle
  <2>4. /\ evCursor \in [EvReaders -> Nat] /\ evStart \in [EvReaders -> Nat]
        /\ evSeen \in [EvReaders -> SUBSET Nat] /\ evStraddled \in [EvReaders -> BOOLEAN]
    OBVIOUS
  <2>5. evPresent \in BOOLEAN /\ evLegacy \in Nat
    OBVIOUS
  <2> QED BY <2>1, <2>2, <2>3, <2>4, <2>5 DEF EventLogTypeOK
<1>3. EvBounded
  BY <1>1 DEF EvBounded
<1>4. EvGrowing /\ EvEndings
  BY DEF EvGrowing, EvEndings
<1>5. EvSolid
  <2>1. EvSolidAbove(1..evLegacy, 0)
    BY DEF EvSolidAbove
  <2>2. \A k \in 0..Len(evRotated) : EvParts(k) = {}
    BY DEF EvParts
  <2> QED BY <1>1, <2>1, <2>2 DEF EvSolid
<1>6. EvAccounted
  <2>1. EvLost = {} /\ EvCredit = 0
    BY DEF EvLost, EvCredit
  <2> QED BY <2>1, FS_EmptySet DEF EvAccounted
<1>7. EvFreshness
  BY <1>1 DEF EvFreshness
<1>8. EvFollowing
  <2>1. \A r \in EvReaders : ~evList[r].busy
    BY DEF EvIdle
  <2>2. \A r \in EvReaders : \A n \in Nat : ~(evStart[r] < n /\ n =< evCursor[r])
    OBVIOUS
  <2> QED BY <2>1, <2>2 DEF EvFollowing
<1> QED BY <1>2, <1>3, <1>4, <1>5, <1>6, <1>7, <1>8 DEF EvInv, EvOrder, EvTyped

\* Appends keep each part by its lemma; readers touch the last part alone.
LEMMA EvNextKeeps == EvInv /\ [EventLogNext]_evVars => EvInv'
<1> SUFFICES ASSUME EvInv, [EventLogNext]_evVars
             PROVE  EvInv'
  OBVIOUS
<1>1. ASSUME NEW w \in EvWriters, EvStep(w)
      PROVE  EvInv'
  BY <1>1, EvTypedKept, EvGrowingKept, EvEndingsKept, EvSolidKept, EvAccountedKept,
     EvFreshnessKept, EvFollowingAppended DEF EvInv, EvOrder
\* The log and the writers' state are all that the rest is about.
<1>2. ASSUME UNCHANGED evLogVars, UNCHANGED evWriterVars
      PROVE  EvGrowing' /\ EvEndings' /\ EvSolid' /\ EvAccounted' /\ EvFreshness'
  BY <1>2
  DEF EvInv, EvOrder, evLogVars, evWriterVars, EvGrowing, EvEndings, EvSolid, EvSolidAbove, EvAll,
      EvReadable, EvParts, EvOld, EvAccounted, EvLost, EvFirm, EvCredit, EvWriting, EvGlue, EvTail,
      EvFreshness
<1>3. ASSUME NEW r \in EvReaders, EvFollow(r) \/ EvListPaths(r) \/ EvRead(r) \/ EvReadFails(r)
      PROVE  EvInv'
  <2>1. UNCHANGED evLogVars /\ UNCHANGED evWriterVars
    BY <1>3 DEF EvFollow, EvListPaths, EvRead, EvReadFails
  <2>2. EvFollowing' /\ EvTyped'
    BY <1>3, EvFollowingRead DEF EvInv
  <2> QED BY <1>2, <2>1, <2>2 DEF EvInv, EvOrder
<1>4. ASSUME UNCHANGED evVars
      PROVE  EvInv'
  <2>1. UNCHANGED evLogVars /\ UNCHANGED evWriterVars /\ UNCHANGED evReaderVars
    BY <1>4 DEF evVars
  <2>2. EvTyped'
    BY <2>1 DEF EvInv, EvOrder, EvTyped, EventLogTypeOK, EvBounded, EvAll, EvReadable, EvParts,
                evLogVars, evWriterVars, evReaderVars
  <2>3. EvFollowing'
    BY <2>1 DEF EvInv, EvFollowing, EvListed, EvNeverShown, EvAll, EvReadable, EvParts,
                evLogVars, evReaderVars
  <2> QED BY <1>2, <2>1, <2>2, <2>3 DEF EvInv, EvOrder
<1> QED
  BY <1>1, <1>3, <1>4 DEF EventLogNext, EvWriterNext, EvReaderNext, EvStep

\* So the invariant holds always.
LEMMA EvInvariance == EventLogSpec => []EvInv
BY EvInitOk, EvNextKeeps, PTL DEF EventLogSpec

\* The state of the event log is of the type TLC checks.
THEOREM LogTyping == EventLogSpec => []EventLogTypeOK
<1>1. EvInv => EventLogTypeOK
  BY DEF EvInv, EvOrder, EvTyped
<1> QED BY <1>1, EvInvariance, PTL

\* The log is a log: its numbers are fresh, what was acknowledged is in it, and
\* who follows it by number gets all of it (events.rs:435-938).
THEOREM Log == EventLogSpec => []EventLogKept
<1>1. EvInv => FreshSeq
  <2> SUFFICES ASSUME EvInv, NEW w \in EvWriters,
                      evPc[w] \in {"assigned", "ready"}, evStreak < 2,
                      NEW n \in EvReadable
               PROVE  n < evSeq[w]
    BY DEF FreshSeq
  <2>1. evLock = w
    BY DEF EvInv, EvOrder, EvTyped, EventLogTypeOK
  <2>2. n =< evSeq[w] /\ evSeq[w] \notin EvReadable
    BY <2>1 DEF EvInv, EvFreshness
  <2>3. n \in Nat /\ evSeq[w] \in Nat
    BY EvAssumption DEF EvInv, EvOrder, EvTyped, EvBounded, EventLogTypeOK, EvAll
  <2> QED BY <2>2, <2>3
<1>2. EvInv => AckedReadable
  <2> SUFFICES ASSUME EvInv
               PROVE  Cardinality(evAcked \ EvReadable) =< evTorn
    BY DEF AckedReadable
  <2>1. EvTyped /\ IsFiniteSet(evAcked) /\ Cardinality(EvLost) + EvCredit =< evTorn /\ evTorn \in Nat
    BY DEF EvInv, EvOrder, EvTyped, EventLogTypeOK, EvAccounted
  <2>2. evAcked \ EvReadable \subseteq EvLost
    BY <2>1, EvGlueIs DEF EvLost, EvReadable, EvOld, EvFirm
  <2>3. IsFiniteSet(EvLost) /\ EvCredit \in {0, 1}
    BY <2>1, FS_Difference DEF EvLost, EvCredit
  <2>4. /\ Cardinality(evAcked \ EvReadable) =< Cardinality(EvLost)
        /\ Cardinality(evAcked \ EvReadable) \in Nat /\ Cardinality(EvLost) \in Nat
    BY <2>2, <2>3, FS_Subset, FS_CardinalityType
  <2> QED BY <2>1, <2>3, <2>4
<1>3. EvInv => FollowerMissesNothing
  <2> SUFFICES ASSUME EvInv, NEW r \in EvReaders, ~evStraddled[r],
                      NEW n \in evAcked \cap EvReadable, evStart[r] < n, n =< evCursor[r]
               PROVE  n \in evSeen[r]
    BY DEF FollowerMissesNothing
  <2>1. n \in Nat /\ n \in EvAll
    BY DEF EvInv, EvOrder, EvTyped, EventLogTypeOK, EvAll
  <2> QED BY <2>1 DEF EvInv, EvFollowing, EvNeverShown
<1>4. EvInv => EventLogKept
  BY <1>1, <1>2, <1>3 DEF EventLogKept
<1> QED BY <1>4, EvInvariance, PTL

-----------------------------------------------------------------------------
(***************************************************************************)
(* MeetingDocument: a document and everybody who writes it.                *)
(*                                                                         *)
(* The argument: who was at a document with another writer is noted, so a  *)
(* writer that is not noted was alone there.  What it made has a home, a   *)
(* document that nobody is about to overwrite with anything older; every   *)
(* step of another writer leaves the home, moves it or writes there what   *)
(* was read from it.                                                       *)
(***************************************************************************)

\* What is known of a writer.
DcPlaces ==
    [pc : {"idle", "failed", "done", "refused", "crashed"} \cup MdInProgress,
     kind : MdDoings, path : MdPaths, target : MdPaths, read : MdContent,
     fd : 0..MdInodes, second : 0..MdSeconds]

\* Where a writer may be, and who has a file open.
DcShaped(w, a) ==
    /\ w \in MdJobs => a.kind \in {"create", "transcript", "enrich", "rename"}
    /\ w \in MdEditors => a.kind \in {"rename", "save", "update", "annotate", "resummarize"}
    /\ a.pc \in {"resolved", "made", "filled"} => a.kind = "create"
    /\ a.pc \in {"enriching", "titling", "failed"} => w \in MdJobs /\ a.kind # "rename"
    /\ a.pc = "titled" => w \in MdJobs
    /\ a.pc = "titling" /\ a.kind = "create" => w \notin MdBackground
    /\ w \in MdJobs /\ a.pc = "idle" => a.kind = "create"
    /\ a.pc = "read" => a.kind # "create"
    /\ a.pc \in {"opened", "staged"} =>
          a.kind \in {"rename", "update", "save", "transcript", "enrich"}
    /\ a.pc = "written" => a.kind \in {"rename", "update"}
    /\ a.pc \in {"moved", "target"} => a.kind = "rename"
    /\ a.pc = "cut" => a.kind = "annotate"
    /\ a.pc \in {"backup", "copied", "window", "prune"} => a.kind = "resummarize"
    /\ a.pc \in {"backup", "copied", "window", "prune", "done"} /\ a.kind = "resummarize"
          => a.second # 0
    /\ a.second # 0 => w \in MdEditors /\ a.kind = "resummarize" /\ a.pc \notin {"idle", "read"}
    /\ a.fd # 0 <=> a.pc \in {"made", "opened", "cut"}
    /\ a.pc \in {"read", "opened", "written", "staged", "backup", "copied", "window"}
          /\ w \in MdEditors /\ a.kind \in {"rename", "update", "resummarize"}
          => a.read.of # MdNone

\* Every writer is somewhere.
DcPlaced ==
    /\ DOMAIN mdAt \subseteq MdWriters
    /\ \A w \in DOMAIN mdAt : mdAt[w] \in DcPlaces /\ DcShaped(w, mdAt[w])

\* A file has one name, and a staging file is open to who writes under its name.
DcFiled ==
    /\ DOMAIN mdDoc \subseteq MdPaths /\ DOMAIN mdTmp \subseteq MdStaging
    /\ \A p \in DOMAIN mdDoc : mdDoc[p] \in 1..MdInodes
    /\ \A t \in DOMAIN mdTmp : mdTmp[t] \in 1..MdInodes
    /\ \A p, q \in DOMAIN mdDoc : mdDoc[p] = mdDoc[q] => p = q
    /\ \A t, s \in DOMAIN mdTmp : mdTmp[t] = mdTmp[s] => t = s
    /\ \A p \in DOMAIN mdDoc, t \in DOMAIN mdTmp : mdDoc[p] # mdTmp[t]
    /\ \A w \in DOMAIN mdAt, t \in DOMAIN mdTmp :
          mdAt[w].fd = mdTmp[t] => mdAt[w].pc = "opened" /\ t = MdTmpOf(w)
    /\ DOMAIN mdInode = MdInUse
    /\ \A i \in DOMAIN mdInode : mdInode[i] \in MdContent

\* Types of what is noted, of the history and of the backups.
DcMarked ==
    /\ mdDone \subseteq MdEditors \cap DOMAIN mdAt /\ \A w \in mdDone : mdAt[w].pc = "done"
    /\ mdMet \subseteq MdWriters
    /\ mdClash \subseteq {"renamed", "alike", "cut"}
    /\ mdTried \subseteq MdJobs /\ mdCrashed \subseteq MdWriters \X MdLeft
    /\ DOMAIN mdBackup \subseteq MdPaths \X (0..MdSeconds)
    /\ \A n \in DOMAIN mdBackup : mdBackup[n] \in MdContent
    /\ mdSecond \in 0..MdSeconds

\* Whoever is at a document with another writer has been noted.
DcNoted ==
    \A v, w \in DOMAIN mdAt :
        v # w /\ MdAtWork(v) /\ MdAtWork(w) /\ MdTouches(v) \cap MdTouches(w) # {}
           => v \in mdMet /\ MdClashes(v, w) \subseteq mdClash

\* Between writers of different kinds, what is staged is what its writer wrote.
DcStaged ==
    "alike" \notin mdClash =>
        \A w \in DOMAIN mdAt :
            /\ mdAt[w].pc \in {"opened", "written", "staged"} => MdTmpOf(w) \in DOMAIN mdTmp
            /\ mdAt[w].pc = "opened" => mdAt[w].fd = mdTmp[MdTmpOf(w)]
            /\ mdAt[w].pc \in {"written", "staged"} => mdInode[mdTmp[MdTmpOf(w)]] = MdNew(w)

\* A file that is open has its name, unless a rename gave it another.
DcOpened ==
    "renamed" \notin mdClash =>
        \A w \in DOMAIN mdAt, p \in DOMAIN mdDoc :
            mdAt[w].fd = mdDoc[p] => p = mdAt[w].path

\* Nobody has met half a document.
DcTorn == MdDied({"made", "cut"}) # {} \/ {"cut", "alike"} \cap mdClash # {}

\* Writer w has read a document that it will write again.
DcReading(w) ==
    /\ mdAt[w].pc \in {"read", "opened", "written", "staged", "cut", "backup", "copied", "window"}
    /\ mdAt[w].kind \notin {"transcript", "enrich"}

DcWhole ==
    ~DcTorn =>
        /\ \A i \in DOMAIN mdInode : mdInode[i].of = MdNone => mdInode[i] = MdTorn
        /\ \A w \in DOMAIN mdAt : DcReading(w) => mdAt[w].read.of # MdNone
        /\ \A p \in DOMAIN mdDoc : MdContentAt(p) = MdTorn =>
              \E w \in DOMAIN mdAt : mdAt[w].fd = mdDoc[p] /\ mdAt[w].pc \in {"made", "cut"}

\* A comparison holds until the swap, unless somebody came.
DcCompared ==
    \A w \in DOMAIN mdAt : mdAt[w].pc = "window" => MdUnchanged(w) \/ w \in mdMet

\* Backups are their runs'.
DcBackups ==
    /\ \A n \in DOMAIN mdBackup :
          n[2] = 0 \/ \E w \in MdEditors \cap DOMAIN mdAt : MdBackupOf(w) = n
    /\ \A w \in MdEditors \cap DOMAIN mdAt :
          mdAt[w].kind = "resummarize" /\ mdAt[w].pc \in {"copied", "window", "prune", "done"} =>
             \/ MdBackupOf(w) \in DOMAIN mdBackup
             \/ \E v \in (MdEditors \cap DOMAIN mdAt) \ {w} : MdBackupOf(v) = MdBackupOf(w)
             \/ Cardinality(MdEditors \cap DOMAIN mdAt) > MdKeep

\* The paths where a document of pipeline j is, or may be put.
DcCarries(v, j) ==
    /\ MdAtWork(v)
    /\ \/ v = j /\ mdAt[v].pc \notin {"resolved", "made", "titled"}
       \/ /\ mdAt[v].pc \in {"read", "opened", "cut", "window"}
          /\ mdAt[v].kind \notin {"transcript", "enrich"} /\ mdAt[v].read.of = j
       \/ /\ mdAt[v].pc \in {"opened", "written", "staged"} /\ MdTmpOf(v) \in DOMAIN mdTmp
          /\ mdInode[mdTmp[MdTmpOf(v)]].of = j

DcPlacesOf(j) == MdOf(j) \cup {mdAt[v].path : v \in {w \in DOMAIN mdAt : DcCarries(w, j)}}

\* A pipeline's document is, and may be put, in one place only.
DcOne ==
    "renamed" \notin mdClash =>
        \A j \in MdJobs \ MdDied({"filled", "titled"}) :
            /\ \A p, q \in DcPlacesOf(j) : p = q
            /\ j \in DOMAIN mdAt /\ mdAt[j].pc \in {"idle", "resolved", "made"}
                  => DcPlacesOf(j) = {}

\* What a writer has made is in a document, and whoever may write there has it.
DcHas(w, content) == IF w \in MdJobs THEN content.of = w ELSE w \in content.has

\* The cases in which what was made may be lost.
DcLost == MdDied({"cut"}) # {} \/ {"cut", "alike", "renamed"} \cap mdClash # {}

\* Writer w's edit, or pipeline w's document, is made.
DcMade(w) ==
    \/ w \in MdEditors /\ (w \in mdDone \/ mdAt[w].pc = "prune")
    \/ w \in MdJobs /\ mdAt[w].pc \in {"titled", "done"}

\* Writer v will not put a document at p that has not what w made.
DcSpares(v, w, p) ==
    /\ MdAtWork(v) /\ mdAt[v].path = p =>
          /\ v \notin MdJobs
          /\ mdAt[v].pc \in {"read", "opened", "written", "staged", "cut", "window"} =>
                DcHas(w, mdAt[v].read)
    /\ mdAt[v].pc = "target" => mdAt[v].target # p

\* What w made is in the document at p, or a note that has read it will write it again.
DcHome(w, p) ==
    /\ p \in DOMAIN mdDoc
    /\ \/ DcHas(w, MdContentAt(p))
       \/ \E v \in DOMAIN mdAt :
             mdAt[v].pc = "cut" /\ mdAt[v].fd = mdDoc[p] /\ DcHas(w, mdAt[v].read)
    /\ \A v \in DOMAIN mdAt \ {w} : DcSpares(v, w, p)

\* The document at w's path has what w made.
DcHolds(w) == mdAt[w].path \in DOMAIN mdDoc /\ DcHas(w, MdContentAt(mdAt[w].path))

\* What w relies on, between its steps, of the document it writes.
DcPending(w) ==
    /\ mdAt[w].pc \in {"made", "cut"} =>
          mdAt[w].path \in DOMAIN mdDoc /\ mdDoc[mdAt[w].path] = mdAt[w].fd
    /\ mdAt[w].pc \in {"moved", "target", "filled", "enriching", "titling"} => DcHolds(w)
    /\ w \in MdJobs /\ mdAt[w].pc \in {"read", "opened", "written", "staged"}
          /\ mdAt[w].kind \in {"enrich", "rename"} => DcHolds(w)
    /\ w \in MdJobs /\ mdAt[w].pc \in {"read", "opened", "written", "staged"}
          /\ mdAt[w].kind = "rename" => DcHas(w, mdAt[w].read)

\* A document that is cut for a note holds nothing.
DcCut ==
    \A w \in DOMAIN mdAt, p \in DOMAIN mdDoc :
        mdAt[w].pc = "cut" /\ mdAt[w].fd = mdDoc[p] => MdContentAt(p) = MdTorn

\* What was made stays, unless its writer met another one.
DcKept ==
    ~DcLost =>
        /\ DcCut
        /\ \A w \in DOMAIN mdAt \ mdMet :
              DcPending(w) /\ (DcMade(w) => \E p \in MdPaths : DcHome(w, p))

-----------------------------------------------------------------------------
\* What the constants are.
LEMMA DcConstants ==
    /\ MdNowhere \in MdPaths /\ MdTorn \in MdContent /\ MdNone \notin MdWriters
    /\ MdTorn.of = MdNone /\ MdTorn.part = "none" /\ MdTorn.has = {}
    /\ MdJobs \cap MdEditors = {} /\ MdWriters = MdJobs \cup MdEditors
    /\ MdEditors = MdApp \cup MdCli /\ MdBackground \subseteq MdJobs
    /\ MdInodes \in Nat /\ MdSeconds \in Nat /\ 0 \in 0..MdInodes /\ 0 \in 0..MdSeconds
    /\ 0 \notin 1..MdInodes /\ 1..MdInodes \subseteq 0..MdInodes
BY MdAssumption DEF MdNowhere, MdPaths, MdTorn, MdContent, MdWriters, MdEditors

\* What a step of w leaves of the others, and where it goes.
DcMoves(w) ==
    DOMAIN mdAt' = DOMAIN mdAt /\ \A v \in DOMAIN mdAt : v # w => mdAt'[v] = mdAt[v]

\* The ends, where a writer keeps nothing.
DcOver == {"done", "refused", "crashed"}

\* A step after which w has nothing open, and is at pc.
DcGoes(w, pc) ==
    /\ DcMoves(w)
    /\ mdAt'[w] \in DcPlaces
    /\ mdAt'[w].pc = pc /\ mdAt'[w].fd = 0
    /\ mdAt'[w].kind = mdAt[w].kind /\ mdAt'[w].second = mdAt[w].second
    /\ pc \notin DcOver => mdAt'[w].path = mdAt[w].path /\ mdAt'[w].read = mdAt[w].read
    /\ pc \in DcOver /\ mdAt[w].kind = "resummarize" => mdAt'[w].path = mdAt[w].path

\* The fields of a place.
LEMMA DcFields ==
    ASSUME NEW a \in DcPlaces
    PROVE  /\ a.pc \in {"idle", "failed", "done", "refused", "crashed"} \cup MdInProgress
           /\ a.kind \in MdDoings /\ a.path \in MdPaths /\ a.target \in MdPaths
           /\ a.read \in MdContent /\ a.fd \in 0..MdInodes /\ a.second \in 0..MdSeconds
BY DEF DcPlaces

\* A step that ends or goes on, field by field.
LEMMA DcGo ==
    ASSUME DcPlaced, NEW w \in DOMAIN mdAt,
           NEW pc \in {"idle", "failed", "done", "refused", "crashed"} \cup MdInProgress,
           MdGo(w, pc)
    PROVE  DcGoes(w, pc)
<1>1. mdAt[w] \in DcPlaces
  BY DEF DcPlaced
<1>2. 0 \in 0..MdInodes /\ MdNowhere \in MdPaths /\ MdTorn \in MdContent
  BY DcConstants
<1>3. DcMoves(w)
  BY DEF MdGo, DcMoves
<1>4. mdAt'[w] = [mdAt[w] EXCEPT !.pc = pc, !.fd = 0, !.target = MdNowhere,
          !.read = IF pc \in DcOver THEN MdTorn ELSE mdAt[w].read,
          !.path = IF pc \in DcOver /\ mdAt[w].kind # "resummarize" THEN MdNowhere
                   ELSE mdAt[w].path]
  BY <1>1 DEF MdGo, DcPlaces, DcOver
<1>5. /\ mdAt'[w] \in DcPlaces
      /\ mdAt'[w].pc = pc /\ mdAt'[w].fd = 0
      /\ mdAt'[w].kind = mdAt[w].kind /\ mdAt'[w].second = mdAt[w].second
      /\ mdAt'[w].read = IF pc \in DcOver THEN MdTorn ELSE mdAt[w].read
      /\ mdAt'[w].path = IF pc \in DcOver /\ mdAt[w].kind # "resummarize" THEN MdNowhere
                         ELSE mdAt[w].path
  BY <1>1, <1>2, <1>4 DEF DcPlaces
<1> QED BY <1>3, <1>5 DEF DcGoes

-----------------------------------------------------------------------------
(* What the steps of a writer do, field by field *)

\* A step that puts w somewhere.
DcPut(w, pc, kind, path, read, fd, second) ==
    /\ DcMoves(w)
    /\ mdAt'[w] \in DcPlaces
    /\ mdAt'[w].pc = pc /\ mdAt'[w].kind = kind /\ mdAt'[w].path = path
    /\ mdAt'[w].read = read /\ mdAt'[w].fd = fd /\ mdAt'[w].second = second

DcStays(w, pc, kind, fd) ==
    DcPut(w, pc, kind, mdAt[w].path, mdAt[w].read, fd, mdAt[w].second)

\* One file has new contents, and no other.
DcStored(i, c) ==
    /\ DOMAIN mdInode' = MdInUse'
    /\ MdInUse' \subseteq MdInUse \cup {i}
    /\ \A k \in MdInUse' : mdInode'[k] = IF k = i THEN c ELSE mdInode[k]

DcFresh(i) == i \in 1..MdInodes /\ i \notin MdInUse

DcResolves(w) ==
    /\ w \in MdJobs /\ mdAt[w].pc = "idle"
    /\ \E p \in MdPaths \ DOMAIN mdDoc :
          DcPut(w, "resolved", "create", p, mdAt[w].read, mdAt[w].fd, mdAt[w].second)
    /\ UNCHANGED <<mdFiles, mdDone, mdHistory, mdBackups>>

DcOpens(w, pc) ==
    /\ \E i \in 1..MdInodes :
          /\ IF MdExists(mdAt[w].path) THEN i = mdDoc[mdAt[w].path] ELSE DcFresh(i)
          /\ mdDoc' = MdNamed(mdDoc, mdAt[w].path, i)
          /\ DcStays(w, pc, mdAt[w].kind, i)
          /\ DcStored(i, MdTorn)
    /\ UNCHANGED <<mdTmp, mdDone, mdHistory, mdBackups>>

DcMakes(w) == w \in MdJobs /\ mdAt[w].pc = "resolved" /\ DcOpens(w, "made")

DcFills(w) ==
    /\ w \in MdJobs /\ mdAt[w].pc = "made"
    /\ DcGoes(w, IF w \in MdBackground THEN "filled" ELSE "titling")
    /\ DcStored(mdAt[w].fd, MdNew(w))
    /\ UNCHANGED <<mdDoc, mdTmp, mdDone, mdHistory, mdBackups>>

DcRecords(w) ==
    /\ w \in MdJobs /\ mdAt[w].pc = "filled" /\ DcGoes(w, "enriching")
    /\ UNCHANGED <<mdFiles, mdDone, mdHistory, mdBackups>>

DcEnriches(w) ==
    /\ w \in MdJobs /\ mdAt[w].pc = "enriching"
    /\ \/ DcStays(w, "failed", mdAt[w].kind, mdAt[w].fd)
       \/ DcStays(w, "read", "enrich", mdAt[w].fd)
    /\ UNCHANGED <<mdFiles, mdDone, mdHistory, mdBackups>>

DcRetries(w) ==
    /\ w \in MdJobs /\ mdAt[w].pc = "failed"
    /\ mdTried' = mdTried \cup {w}
    /\ DcStays(w, "read", "transcript", mdAt[w].fd)
    /\ UNCHANGED <<mdFiles, mdDone, mdCrashed, mdBackups>>

DcTitles(w) ==
    /\ w \in MdJobs /\ mdAt[w].pc = "titling"
    /\ \/ DcGoes(w, "titled")
       \/ /\ MdExists(mdAt[w].path) /\ MdContentAt(mdAt[w].path) # MdTorn
          /\ DcPut(w, "read", "rename", mdAt[w].path, MdContentAt(mdAt[w].path), mdAt[w].fd,
                   mdAt[w].second)
    /\ UNCHANGED <<mdFiles, mdDone, mdHistory, mdBackups>>

DcSettles(w) ==
    /\ w \in MdJobs /\ mdAt[w].pc = "titled" /\ DcGoes(w, "done")
    /\ UNCHANGED <<mdFiles, mdDone, mdHistory, mdBackups>>

DcReads(w) ==
    /\ w \in MdEditors /\ mdAt[w].pc = "idle"
    /\ \E kind \in {"rename", "save", "update", "annotate", "resummarize"}, p \in DOMAIN mdDoc :
          /\ MdContentAt(p).of # MdNone \/ kind \in {"annotate", "save"}
          /\ DcPut(w, "read", kind, p, MdContentAt(p), mdAt[w].fd, mdAt[w].second)
    /\ UNCHANGED <<mdFiles, mdDone, mdHistory, mdBackups>>

DcStagedKinds == {"rename", "update", "save", "transcript", "enrich"}

DcOpensTmp(w) ==
    /\ mdAt[w].pc = "read" /\ mdAt[w].kind \in DcStagedKinds
    /\ \E i \in 1..MdInodes :
          /\ IF MdTmpOf(w) \in DOMAIN mdTmp THEN i = mdTmp[MdTmpOf(w)] ELSE DcFresh(i)
          /\ mdTmp' = MdNamed(mdTmp, MdTmpOf(w), i)
          /\ DcStays(w, "opened", mdAt[w].kind, i)
          /\ DcStored(i, MdTorn)
    /\ UNCHANGED <<mdDoc, mdDone, mdHistory, mdBackups>>

\* How a writer ends or goes on.
DcSucceeds(w) ==
    /\ DcGoes(w, IF w \in MdEditors THEN "done" ELSE "titled")
    /\ mdDone' = mdDone \cup ({w} \cap MdEditors)
DcRefuses(w) ==
    /\ DcGoes(w, IF w \in MdEditors THEN "refused"
                 ELSE IF mdAt[w].kind = "rename" THEN "titled" ELSE "failed")
    /\ UNCHANGED mdDone

DcSavesNot(w) ==
    /\ w \in MdEditors /\ mdAt[w].pc = "read" /\ mdAt[w].kind = "save" /\ DcRefuses(w)
    /\ UNCHANGED <<mdFiles, mdHistory, mdBackups>>

DcWrites(w) ==
    /\ mdAt[w].pc = "opened"
    /\ DcGoes(w, IF mdAt[w].kind \in {"rename", "update"} THEN "written" ELSE "staged")
    /\ DcStored(mdAt[w].fd, MdNew(w))
    /\ UNCHANGED <<mdDoc, mdTmp, mdDone, mdHistory, mdBackups>>

DcValidates(w) ==
    /\ mdAt[w].pc = "written"
    /\ \/ DcGoes(w, "staged") /\ UNCHANGED <<mdTmp, mdDone>>
       \/ DcRefuses(w) /\ mdTmp' = MdWithout(MdTmpOf(w))
    /\ DcStored(0, MdTorn)
    /\ UNCHANGED <<mdDoc, mdHistory, mdBackups>>

DcSwaps(w) ==
    /\ mdAt[w].pc = "staged"
    /\ \/ MdTmpOf(w) \notin DOMAIN mdTmp /\ DcRefuses(w) /\ UNCHANGED <<mdDoc, mdTmp>>
       \/ /\ MdTmpOf(w) \in DOMAIN mdTmp
          /\ mdDoc' = MdNamed(mdDoc, mdAt[w].path, mdTmp[MdTmpOf(w)])
          /\ mdTmp' = MdWithout(MdTmpOf(w))
          /\ \/ mdAt[w].kind = "transcript" /\ DcGoes(w, "enriching") /\ UNCHANGED mdDone
             \/ mdAt[w].kind = "enrich" /\ DcGoes(w, "titling") /\ UNCHANGED mdDone
             \/ mdAt[w].kind = "rename" /\ DcGoes(w, "moved") /\ UNCHANGED mdDone
             \/ mdAt[w].kind \in {"rename", "update", "save"} /\ DcSucceeds(w)
    /\ DcStored(0, MdTorn)
    /\ UNCHANGED <<mdHistory, mdBackups>>

DcTargets(w) ==
    /\ mdAt[w].pc = "moved"
    /\ DcStays(w, "target", mdAt[w].kind, mdAt[w].fd)
    /\ mdAt'[w].target \in MdPaths \ DOMAIN mdDoc
    /\ UNCHANGED <<mdFiles, mdDone, mdHistory, mdBackups>>

DcMovesDoc(w) ==
    /\ mdAt[w].pc = "target"
    /\ \/ ~MdExists(mdAt[w].path) /\ DcRefuses(w) /\ UNCHANGED mdDoc
       \/ /\ MdExists(mdAt[w].path)
          /\ mdDoc' = MdNamed(Restrict(mdDoc, DOMAIN mdDoc \ {mdAt[w].path}),
                              mdAt[w].target, mdDoc[mdAt[w].path])
          /\ DcSucceeds(w)
    /\ DcStored(0, MdTorn)
    /\ UNCHANGED <<mdTmp, mdHistory, mdBackups>>

DcCompares(w) ==
    /\ w \in MdEditors /\ mdAt[w].kind = "resummarize" /\ mdAt[w].pc = "read"
    /\ mdSecond' \in 1..MdSeconds
    /\ \/ DcRefuses(w)
       \/ /\ DcPut(w, "backup", mdAt[w].kind, mdAt[w].path, mdAt[w].read, mdAt[w].fd, mdSecond')
          /\ UNCHANGED mdDone
    /\ UNCHANGED <<mdFiles, mdBackup, mdHistory>>

DcCopies(w) ==
    /\ w \in MdEditors /\ mdAt[w].kind = "resummarize" /\ mdAt[w].pc = "backup"
    /\ \/ DcRefuses(w) /\ UNCHANGED mdBackup
       \/ /\ MdExists(mdAt[w].path)
          /\ mdBackup' = MdNamed(mdBackup, MdBackupOf(w), MdContentAt(mdAt[w].path))
          /\ DcGoes(w, "copied") /\ UNCHANGED mdDone
    /\ UNCHANGED <<mdFiles, mdHistory, mdSecond>>

DcComparesAgain(w) ==
    /\ w \in MdEditors /\ mdAt[w].pc = "copied"
    /\ \/ MdUnchanged(w) /\ DcGoes(w, "window") /\ UNCHANGED <<mdDone, mdBackup>>
       \/ DcRefuses(w) /\ mdBackup' = Restrict(mdBackup, DOMAIN mdBackup \ {MdBackupOf(w)})
    /\ UNCHANGED <<mdFiles, mdHistory, mdSecond>>

DcReplaces(w) ==
    /\ w \in MdEditors /\ mdAt[w].pc = "window"
    /\ \E i \in 1..MdInodes :
          /\ DcFresh(i)
          /\ mdDoc' = MdNamed(mdDoc, mdAt[w].path, i)
          /\ DcGoes(w, "prune")
          /\ DcStored(i, MdNew(w))
    /\ UNCHANGED <<mdTmp, mdDone, mdHistory, mdBackups>>

DcPrunes(w) ==
    /\ w \in MdEditors /\ mdAt[w].pc = "prune"
    /\ mdBackup' = Restrict(mdBackup, {n \in DOMAIN mdBackup :
          n[1] = mdAt[w].path =>
              Cardinality({m \in DOMAIN mdBackup : m[1] = n[1] /\ m[2] > n[2]}) < MdKeep})
    /\ DcSucceeds(w)
    /\ UNCHANGED <<mdFiles, mdHistory, mdSecond>>

DcCuts(w) ==
    w \in MdEditors /\ mdAt[w].kind = "annotate" /\ mdAt[w].pc = "read" /\ DcOpens(w, "cut")

DcNotes(w) ==
    /\ w \in MdEditors /\ mdAt[w].pc = "cut" /\ DcSucceeds(w)
    /\ DcStored(mdAt[w].fd, MdNew(w))
    /\ UNCHANGED <<mdDoc, mdTmp, mdHistory, mdBackups>>

DcDies(w) ==
    /\ mdAt[w].pc \in MdInProgress
    /\ mdCrashed' = mdCrashed \cup ({<<w, mdAt[w].pc>>} \cap (MdWriters \X MdLeft))
    /\ \/ w \notin MdBackground /\ DcGoes(w, "crashed") /\ UNCHANGED mdTried
       \/ /\ w \in MdBackground
          /\ mdTried' = mdTried \cup {w}
          /\ IF mdAt[w].kind # "create" \/ mdAt[w].pc = "enriching"
             THEN DcStays(w, "read", "transcript", 0) ELSE DcStays(w, "idle", "create", 0)
    /\ DcStored(0, MdTorn)
    /\ UNCHANGED <<mdDoc, mdTmp, mdDone, mdBackups>>

DcJobStep(w) ==
    \/ DcResolves(w) \/ DcMakes(w) \/ DcFills(w) \/ DcRecords(w) \/ DcEnriches(w) \/ DcRetries(w)
    \/ DcTitles(w) \/ DcSettles(w)

DcEditorStep(w) ==
    \/ DcReads(w) \/ DcSavesNot(w) \/ DcCuts(w) \/ DcNotes(w)
    \/ DcCompares(w) \/ DcCopies(w) \/ DcComparesAgain(w) \/ DcReplaces(w) \/ DcPrunes(w)

DcStep(w) ==
    \/ DcJobStep(w) \/ DcEditorStep(w)
    \/ DcOpensTmp(w) \/ DcWrites(w) \/ DcValidates(w) \/ DcSwaps(w) \/ DcTargets(w)
    \/ DcMovesDoc(w) \/ DcDies(w)

-----------------------------------------------------------------------------
\* The places and doings there are.
LEMMA DcPcs ==
    /\ "idle" \in {"idle", "failed", "done", "refused", "crashed"} \cup MdInProgress
    /\ \A pc \in {"idle", "failed", "done", "refused", "crashed", "resolved", "made", "filled",
                  "enriching", "titling", "read", "opened", "written", "staged", "backup",
                  "copied", "window", "prune", "cut", "moved", "target", "titled"} :
          pc \in {"idle", "failed", "done", "refused", "crashed"} \cup MdInProgress
    /\ {"create", "transcript", "enrich", "rename", "save", "update", "annotate", "resummarize"}
          = MdDoings
BY DEF MdInProgress, MdDoings

-----------------------------------------------------------------------------
\* The files in use after a step.
LEMMA DcInUse ==
    ASSUME NEW w \in DOMAIN mdAt, NEW i, DcMoves(w),
           Range(mdDoc') \subseteq Range(mdDoc) \cup Range(mdTmp) \cup {i},
           Range(mdTmp') \subseteq Range(mdTmp) \cup {i},
           mdAt'[w].fd \in {0, mdAt[w].fd, i}
    PROVE  MdInUse' \subseteq MdInUse \cup {i}
<1> SUFFICES ASSUME NEW k \in MdInUse' PROVE k \in MdInUse \cup {i}
  OBVIOUS
<1>1. k # 0
  BY DEF MdInUse
<1>2. CASE k \in Range(mdDoc') \cup Range(mdTmp')
  BY <1>1, <1>2 DEF MdInUse
<1>3. CASE \E v \in DOMAIN mdAt' : k = mdAt'[v].fd
  <2>1. PICK v \in DOMAIN mdAt : k = mdAt'[v].fd
    BY <1>3 DEF DcMoves
  <2>2. CASE v = w
    BY <2>1, <2>2, <1>1 DEF MdInUse
  <2>3. CASE v # w
    BY <2>1, <2>3, <1>1 DEF MdInUse, DcMoves
  <2> QED BY <2>2, <2>3
<1> QED BY <1>2, <1>3 DEF MdInUse

\* Storing into one file.
LEMMA DcStores ==
    ASSUME NEW i, NEW c, MdStore(i, c), MdInUse' \subseteq MdInUse \cup {i}
    PROVE  DcStored(i, c)
BY DEF MdStore, DcStored

\* Storing into none.
LEMMA DcLeaves ==
    ASSUME MdLeave, MdInUse' \subseteq MdInUse \cup {0}
    PROVE  DcStored(0, MdTorn)
BY DcStores DEF MdLeave

\* A name given to a file.
LEMMA DcNamed ==
    ASSUME NEW f, NEW p, NEW i
    PROVE  /\ DOMAIN MdNamed(f, p, i) = DOMAIN f \cup {p}
           /\ MdNamed(f, p, i)[p] = i
           /\ \A q \in DOMAIN f : q # p => MdNamed(f, p, i)[q] = f[q]
           /\ Range(MdNamed(f, p, i)) \subseteq Range(f) \cup {i}
BY DEF MdNamed, Range

\* Names that are left.
LEMMA DcRestricted ==
    ASSUME NEW f, NEW S, S \subseteq DOMAIN f
    PROVE  /\ DOMAIN Restrict(f, S) = S
           /\ \A q \in S : Restrict(f, S)[q] = f[q]
           /\ Range(Restrict(f, S)) \subseteq Range(f)
BY DEF Restrict, Range

\* The next file to be made is nobody's.
LEMMA DcIsFresh ==
    ASSUME DcFiled, NEW i \in 1..MdInodes, MdFreshInode(i)
    PROVE  DcFresh(i)
BY DEF DcFiled, MdFreshInode, DcFresh

\* What is in use.
LEMMA DcUsed ==
    ASSUME DcFiled
    PROVE  /\ \A p \in DOMAIN mdDoc : mdDoc[p] \in MdInUse
           /\ \A t \in DOMAIN mdTmp : mdTmp[t] \in MdInUse
           /\ \A w \in DOMAIN mdAt : mdAt[w].fd # 0 => mdAt[w].fd \in MdInUse
           /\ 0 \notin MdInUse
BY DcConstants DEF DcFiled, MdInUse, Range

\* The files open for a document's writing.
LEMMA DcOpensDoc ==
    ASSUME DcPlaced, DcFiled, NEW w \in DOMAIN mdAt, NEW pc \in {"made", "cut"},
           MdOpenDoc(w, mdAt[w].path, pc), UNCHANGED <<mdDone, mdHistory, mdBackups>>
    PROVE  DcOpens(w, pc)
<1>1. PICK i \in 1..MdInodes :
          /\ IF MdExists(mdAt[w].path) THEN i = mdDoc[mdAt[w].path] ELSE MdFreshInode(i)
          /\ mdDoc' = MdNamed(mdDoc, mdAt[w].path, i)
          /\ mdAt' = [mdAt EXCEPT ![w].pc = pc, ![w].fd = i]
          /\ UNCHANGED mdTmp
          /\ MdStore(i, MdTorn)
  BY DEF MdOpenDoc
<1>2. IF MdExists(mdAt[w].path) THEN i = mdDoc[mdAt[w].path] ELSE DcFresh(i)
  BY <1>1, DcIsFresh
<1>3. mdAt[w] \in DcPlaces
  BY DEF DcPlaced
<1>4. DcStays(w, pc, mdAt[w].kind, i)
  BY <1>1, <1>3, DcPcs, DcConstants DEF DcStays, DcPut, DcMoves, DcPlaces
<1>5. DcMoves(w) /\ mdAt'[w].fd = i
  BY <1>4 DEF DcStays, DcPut
<1>6. MdInUse' \subseteq MdInUse \cup {i}
  <2>1. Range(mdDoc') \subseteq Range(mdDoc) \cup {i}
    BY <1>1, DcNamed
  <2>2. Range(mdTmp') = Range(mdTmp)
    BY <1>1
  <2> QED BY <2>1, <2>2, <1>5, DcInUse
<1>7. DcStored(i, MdTorn)
  BY <1>1, <1>6, DcStores
<1> QED BY <1>1, <1>2, <1>4, <1>7 DEF DcOpens

-----------------------------------------------------------------------------
(* The steps of the specification *)

\* The steps of a pipeline.
LEMMA DcJobSteps ==
    ASSUME DcPlaced, DcFiled, NEW w \in DOMAIN mdAt, w \in MdJobs, MdJobNext(w)
    PROVE  DcJobStep(w)
<1>1. mdAt[w] \in DcPlaces
  BY DEF DcPlaced
<1>2. CASE MdResolve(w)
  <2>1. PICK p \in MdPaths :
            /\ MdResolves("first", p)
            /\ mdAt' = [mdAt EXCEPT ![w].pc = "resolved", ![w].kind = "create", ![w].path = p]
    BY <1>2 DEF MdResolve
  <2>2. p \notin DOMAIN mdDoc
    BY <2>1 DEF MdResolves, MdExists
  <2>3. DcPut(w, "resolved", "create", p, mdAt[w].read, mdAt[w].fd, mdAt[w].second)
    BY <2>1, <1>1, DcPcs DEF DcPut, DcMoves, DcPlaces, MdDoings
  <2> QED BY <1>2, <2>2, <2>3 DEF MdResolve, DcResolves, DcJobStep
<1>3. CASE MdMake(w)
  <2>1. DcOpens(w, "made")
    BY <1>3, DcOpensDoc DEF MdMake
  <2> QED BY <1>3, <2>1 DEF MdMake, DcMakes, DcJobStep
<1>4. CASE MdFill(w)
  <2>1. DcGoes(w, IF w \in MdBackground THEN "filled" ELSE "titling")
    BY <1>4, DcGo, DcPcs DEF MdFill
  <2>2. DcMoves(w) /\ mdAt'[w].fd = 0
    BY <2>1 DEF DcGoes
  <2>3. MdInUse' \subseteq MdInUse \cup {mdAt[w].fd}
    BY <1>4, <2>2, DcInUse DEF MdFill
  <2>4. DcStored(mdAt[w].fd, MdNew(w))
    BY <1>4, <2>3, DcStores DEF MdFill
  <2> QED BY <1>4, <2>1, <2>4 DEF MdFill, DcFills, DcJobStep
<1>5. CASE MdRecorded(w)
  <2>1. DcGoes(w, "enriching")
    BY <1>5, DcGo, DcPcs DEF MdRecorded
  <2> QED BY <1>5, <2>1 DEF MdRecorded, DcRecords, DcJobStep
<1>6. CASE MdEnriched(w)
  <2>1. CASE mdAt' = [mdAt EXCEPT ![w].pc = "failed"]
    <3>1. DcStays(w, "failed", mdAt[w].kind, mdAt[w].fd)
      BY <2>1, <1>1, DcPcs DEF DcStays, DcPut, DcMoves, DcPlaces
    <3> QED BY <1>6, <3>1 DEF MdEnriched, DcEnriches, DcJobStep
  <2>2. CASE mdAt' = [mdAt EXCEPT ![w].pc = "read", ![w].kind = "enrich"]
    <3>1. DcStays(w, "read", "enrich", mdAt[w].fd)
      BY <2>2, <1>1, DcPcs DEF DcStays, DcPut, DcMoves, DcPlaces, MdDoings
    <3> QED BY <1>6, <3>1 DEF MdEnriched, DcEnriches, DcJobStep
  <2> QED BY <1>6, <2>1, <2>2 DEF MdEnriched
<1>7. CASE MdRetry(w)
  <2>1. DcStays(w, "read", "transcript", mdAt[w].fd)
    BY <1>7, <1>1, DcPcs DEF MdRetry, DcStays, DcPut, DcMoves, DcPlaces, MdDoings
  <2> QED BY <1>7, <2>1 DEF MdRetry, DcRetries, DcJobStep
<1>8. CASE MdTitle(w)
  <2>1. CASE MdGo(w, "titled")
    BY <1>8, <2>1, DcGo, DcPcs DEF MdTitle, DcTitles, DcJobStep
  <2>2. CASE /\ MdExists(mdAt[w].path) /\ MdContentAt(mdAt[w].path) # MdTorn
             /\ mdAt' = [mdAt EXCEPT ![w].pc = "read", ![w].kind = "rename",
                                     ![w].read = MdContentAt(mdAt[w].path)]
    <3>1. MdContentAt(mdAt[w].path) \in MdContent
      BY <2>2, DcUsed DEF DcFiled, MdExists, MdContentAt
    <3>2. DcPut(w, "read", "rename", mdAt[w].path, MdContentAt(mdAt[w].path), mdAt[w].fd,
                mdAt[w].second)
      BY <2>2, <3>1, <1>1, DcPcs DEF DcPut, DcMoves, DcPlaces, MdDoings
    <3> QED BY <1>8, <2>2, <3>2 DEF MdTitle, DcTitles, DcJobStep
  <2> QED BY <1>8, <2>1, <2>2 DEF MdTitle
<1>9. CASE MdSettle(w)
  <2>1. DcGoes(w, "done")
    BY <1>9, DcGo, DcPcs DEF MdSettle
  <2> QED BY <1>9, <2>1 DEF MdSettle, DcSettles, DcJobStep
<1> QED BY <1>2, <1>3, <1>4, <1>5, <1>6, <1>7, <1>8, <1>9 DEF MdJobNext

\* How a writer ends.
LEMMA DcEnds ==
    ASSUME DcPlaced, NEW w \in DOMAIN mdAt
    PROVE  /\ MdSucceed(w) => DcSucceeds(w)
           /\ MdRefuse(w) => DcRefuses(w)
<1>1. ASSUME MdSucceed(w) PROVE DcSucceeds(w)
  BY <1>1, DcGo, DcPcs DEF MdSucceed, DcSucceeds
<1>2. ASSUME MdRefuse(w) PROVE DcRefuses(w)
  BY <1>2, DcGo, DcPcs DEF MdRefuse, DcRefuses
<1> QED BY <1>1, <1>2

\* Who ends has nothing open.
LEMMA DcEndsFd ==
    ASSUME NEW w, DcSucceeds(w) \/ DcRefuses(w)
    PROVE  DcMoves(w) /\ mdAt'[w].fd = 0
BY DEF DcSucceeds, DcRefuses, DcGoes

\* The steps of an editor.
LEMMA DcEditorSteps ==
    ASSUME DcPlaced, DcFiled, DcMarked, NEW w \in DOMAIN mdAt, w \in MdEditors, MdEditorNext(w)
    PROVE  DcEditorStep(w)
<1>1. mdAt[w] \in DcPlaces /\ DcShaped(w, mdAt[w])
  BY DEF DcPlaced
<1>2. CASE MdRead(w)
  <2>1. PICK kind \in MdKinds(w), p \in MdPaths :
            /\ MdExists(p)
            /\ w \in MdApp /\ kind # "save" => MdTurn(w, kind)
            /\ MdContentAt(p).of # MdNone \/ kind \in {"annotate", "save"}
            /\ mdAt' = [mdAt EXCEPT ![w].pc = "read", ![w].kind = kind, ![w].path = p,
                                    ![w].read = MdContentAt(p)]
    BY <1>2 DEF MdRead
  <2>2. kind \in {"rename", "save", "update", "annotate", "resummarize"} /\ kind \in MdDoings
    BY DEF MdKinds, MdDoings
  <2>3. MdContentAt(p) \in MdContent
    BY <2>1, DcUsed DEF DcFiled, MdExists, MdContentAt
  <2>4. DcPut(w, "read", kind, p, MdContentAt(p), mdAt[w].fd, mdAt[w].second)
    BY <2>1, <2>2, <2>3, <1>1, DcPcs DEF DcPut, DcMoves, DcPlaces
  <2>5. p \in DOMAIN mdDoc
    BY <2>1 DEF MdExists
  <2> QED BY <1>2, <2>1, <2>2, <2>4, <2>5 DEF MdRead, DcReads, DcEditorStep
<1>3. CASE MdSaveGone(w)
  BY <1>3, DcEnds DEF MdSaveGone, DcSavesNot, DcEditorStep
<1>4. CASE MdAnnotate(w)
  <2>1. CASE mdAt[w].pc = "read" /\ MdOpenDoc(w, mdAt[w].path, "cut") /\ UNCHANGED mdDone
    <3>1. DcOpens(w, "cut")
      BY <1>4, <2>1, DcOpensDoc DEF MdAnnotate
    <3> QED BY <1>4, <2>1, <3>1 DEF MdAnnotate, DcCuts, DcEditorStep
  <2>2. CASE /\ mdAt[w].pc = "cut" /\ MdSucceed(w) /\ UNCHANGED <<mdDoc, mdTmp>>
             /\ MdStore(mdAt[w].fd, MdNew(w))
    <3>1. DcSucceeds(w)
      BY <2>2, DcEnds
    <3>2. DcMoves(w) /\ mdAt'[w].fd = 0
      BY <3>1, DcEndsFd
    <3>3. MdInUse' \subseteq MdInUse \cup {mdAt[w].fd}
      BY <2>2, <3>2, DcInUse
    <3>4. DcStored(mdAt[w].fd, MdNew(w))
      BY <2>2, <3>3, DcStores
    <3> QED BY <1>4, <2>2, <3>1, <3>4 DEF MdAnnotate, DcNotes, DcEditorStep
  <2> QED BY <1>4, <2>1, <2>2 DEF MdAnnotate
<1>5. CASE MdCompare(w)
  <2>1. mdSecond' \in 1..MdSeconds /\ mdSecond' \in 0..MdSeconds
    BY <1>5, DcConstants DEF MdCompare
  <2>2. CASE MdRefuse(w)
    BY <1>5, <2>1, <2>2, DcEnds DEF MdCompare, DcCompares, DcEditorStep
  <2>3. CASE /\ mdAt' = [mdAt EXCEPT ![w].pc = "backup", ![w].second = mdSecond']
             /\ UNCHANGED mdDone
    <3>1. DcPut(w, "backup", mdAt[w].kind, mdAt[w].path, mdAt[w].read, mdAt[w].fd, mdSecond')
      BY <2>1, <2>3, <1>1, DcPcs DEF DcPut, DcMoves, DcPlaces
    <3> QED BY <1>5, <2>1, <2>3, <3>1 DEF MdCompare, DcCompares, DcEditorStep
  <2> QED BY <1>5, <2>2, <2>3 DEF MdCompare
<1>6. CASE MdCopy(w)
  <2>1. CASE ~MdExists(mdAt[w].path)
    BY <1>6, <2>1, DcEnds DEF MdCopy, DcCopies, DcEditorStep
  <2>2. CASE MdExists(mdAt[w].path)
    BY <1>6, <2>2, DcGo, DcPcs DEF MdCopy, DcCopies, DcEditorStep
  <2> QED BY <2>1, <2>2
<1>7. CASE MdCompareAgain(w)
  <2>1. CASE MdUnchanged(w)
    BY <1>7, <2>1, DcGo, DcPcs DEF MdCompareAgain, DcComparesAgain, DcEditorStep
  <2>2. CASE ~MdUnchanged(w)
    BY <1>7, <2>2, DcEnds DEF MdCompareAgain, DcComparesAgain, DcEditorStep
  <2> QED BY <2>1, <2>2
<1>8. CASE MdReplace(w)
  <2>1. PICK i \in 1..MdInodes :
            /\ MdFreshInode(i)
            /\ mdDoc' = MdNamed(mdDoc, mdAt[w].path, i)
            /\ MdGo(w, "prune")
            /\ UNCHANGED mdTmp
            /\ MdStore(i, MdNew(w))
    BY <1>8 DEF MdReplace
  <2>2. DcFresh(i)
    BY <2>1, DcIsFresh
  <2>3. DcGoes(w, "prune")
    BY <2>1, DcGo, DcPcs
  <2>4. DcMoves(w) /\ mdAt'[w].fd = 0
    BY <2>3 DEF DcGoes
  <2>5. MdInUse' \subseteq MdInUse \cup {i}
    <3>1. Range(mdDoc') \subseteq Range(mdDoc) \cup {i}
      BY <2>1, DcNamed
    <3> QED BY <2>1, <3>1, <2>4, DcInUse
  <2>6. DcStored(i, MdNew(w))
    BY <2>1, <2>5, DcStores
  <2> QED BY <1>8, <2>1, <2>2, <2>3, <2>6 DEF MdReplace, DcReplaces, DcEditorStep
<1>9. CASE MdPrune(w)
  BY <1>9, DcEnds DEF MdPrune, DcPrunes, DcEditorStep
<1> QED BY <1>2, <1>3, <1>4, <1>5, <1>6, <1>7, <1>8, <1>9 DEF MdEditorNext

\* The steps that pipelines and editors share.
LEMMA DcAnySteps ==
    ASSUME DcPlaced, DcFiled, NEW w \in DOMAIN mdAt, MdAnyNext(w)
    PROVE  DcStep(w)
<1>1. mdAt[w] \in DcPlaces /\ DcShaped(w, mdAt[w])
  BY DEF DcPlaced
<1>2. CASE MdOpen(w)
  <2>1. PICK i \in 1..MdInodes :
            /\ IF MdTmpOf(w) \in DOMAIN mdTmp THEN i = mdTmp[MdTmpOf(w)] ELSE MdFreshInode(i)
            /\ mdTmp' = MdNamed(mdTmp, MdTmpOf(w), i)
            /\ mdAt' = [mdAt EXCEPT ![w].pc = "opened", ![w].fd = i]
            /\ UNCHANGED mdDoc
            /\ MdStore(i, MdTorn)
    BY <1>2 DEF MdOpen
  <2>2. IF MdTmpOf(w) \in DOMAIN mdTmp THEN i = mdTmp[MdTmpOf(w)] ELSE DcFresh(i)
    BY <2>1, DcIsFresh
  <2>3. DcStays(w, "opened", mdAt[w].kind, i)
    BY <2>1, <1>1, DcPcs, DcConstants DEF DcStays, DcPut, DcMoves, DcPlaces
  <2>4. DcMoves(w) /\ mdAt'[w].fd = i
    BY <2>3 DEF DcStays, DcPut
  <2>5. MdInUse' \subseteq MdInUse \cup {i}
    <3>1. Range(mdTmp') \subseteq Range(mdTmp) \cup {i}
      BY <2>1, DcNamed
    <3> QED BY <2>1, <3>1, <2>4, DcInUse
  <2>6. DcStored(i, MdTorn)
    BY <2>1, <2>5, DcStores
  <2>7. mdAt[w].kind \in DcStagedKinds
    BY <1>2 DEF MdOpen, DcStagedKinds
  <2> QED BY <1>2, <2>1, <2>2, <2>3, <2>6, <2>7 DEF MdOpen, DcOpensTmp, DcStep
<1>3. CASE MdWrite(w)
  <2>1. DcGoes(w, IF mdAt[w].kind \in {"rename", "update"} THEN "written" ELSE "staged")
    BY <1>3, DcGo, DcPcs DEF MdWrite
  <2>2. DcMoves(w) /\ mdAt'[w].fd = 0
    BY <2>1 DEF DcGoes
  <2>3. MdInUse' \subseteq MdInUse \cup {mdAt[w].fd}
    BY <1>3, <2>2, DcInUse DEF MdWrite
  <2>4. DcStored(mdAt[w].fd, MdNew(w))
    BY <1>3, <2>3, DcStores DEF MdWrite
  <2> QED BY <1>3, <2>1, <2>4 DEF MdWrite, DcWrites, DcStep
<1>4. CASE MdValidate(w)
  <2>1. \/ DcGoes(w, "staged") /\ UNCHANGED <<mdTmp, mdDone>>
        \/ DcRefuses(w) /\ mdTmp' = MdWithout(MdTmpOf(w))
    BY <1>4, DcGo, DcPcs, DcEnds DEF MdValidate
  <2>2. DcMoves(w) /\ mdAt'[w].fd = 0
    BY <2>1, DcEndsFd DEF DcGoes
  <2>3. Range(mdTmp') \subseteq Range(mdTmp)
    BY <2>1, DcRestricted DEF MdWithout
  <2>4. DcStored(0, MdTorn)
    BY <1>4, <2>2, <2>3, DcInUse, DcLeaves DEF MdValidate
  <2> QED BY <1>4, <2>1, <2>4 DEF MdValidate, DcValidates, DcStep
<1>5. CASE MdSwap(w)
  <2> DEFINE t == MdTmpOf(w)
  <2>1. CASE t \notin DOMAIN mdTmp
    <3>1. DcRefuses(w) /\ UNCHANGED <<mdDoc, mdTmp>> /\ MdLeave
      BY <1>5, <2>1, DcEnds DEF MdSwap
    <3>2. DcMoves(w) /\ mdAt'[w].fd = 0
      BY <3>1, DcEndsFd
    <3>3. DcStored(0, MdTorn)
      BY <3>1, <3>2, DcInUse, DcLeaves
    <3> QED BY <1>5, <2>1, <3>1, <3>3 DEF MdSwap, DcSwaps, DcStep
  <2>2. CASE t \in DOMAIN mdTmp
    <3>1. /\ mdDoc' = MdNamed(mdDoc, mdAt[w].path, mdTmp[t])
          /\ mdTmp' = MdWithout(t) /\ MdLeave
      BY <1>5, <2>2 DEF MdSwap
    <3>2. \/ mdAt[w].kind = "transcript" /\ MdGo(w, "enriching") /\ UNCHANGED mdDone
          \/ mdAt[w].kind = "enrich" /\ MdGo(w, "titling") /\ UNCHANGED mdDone
          \/ mdAt[w].kind = "rename" /\ MdGo(w, "moved") /\ UNCHANGED mdDone
          \/ mdAt[w].kind \notin {"transcript", "enrich"} /\ MdSucceed(w)
      BY <1>5, <2>2 DEF MdSwap
    <3>3. \/ mdAt[w].kind = "transcript" /\ DcGoes(w, "enriching") /\ UNCHANGED mdDone
          \/ mdAt[w].kind = "enrich" /\ DcGoes(w, "titling") /\ UNCHANGED mdDone
          \/ mdAt[w].kind = "rename" /\ DcGoes(w, "moved") /\ UNCHANGED mdDone
          \/ mdAt[w].kind \in {"rename", "update", "save"} /\ DcSucceeds(w)
      BY <1>5, <3>2, <1>1, DcGo, DcPcs, DcEnds DEF MdSwap, DcShaped
    <3>4. DcMoves(w) /\ mdAt'[w].fd = 0
      BY <3>3, DcEndsFd DEF DcGoes
    <3>5. Range(mdDoc') \subseteq Range(mdDoc) \cup Range(mdTmp) \cup {0}
      <4>1. mdTmp[t] \in Range(mdTmp)
        BY <2>2 DEF Range
      <4>2. Range(MdNamed(mdDoc, mdAt[w].path, mdTmp[t])) \subseteq Range(mdDoc) \cup {mdTmp[t]}
        BY DcNamed
      <4>3. Range(mdDoc') \subseteq Range(mdDoc) \cup {mdTmp[t]}
        BY <3>1, <4>2
      <4> QED BY <4>1, <4>3
    <3>6. Range(mdTmp') \subseteq Range(mdTmp)
      BY <3>1, DcRestricted DEF MdWithout
    <3>7. MdInUse' \subseteq MdInUse \cup {0}
      BY <3>4, <3>5, <3>6, DcInUse
    <3>8. DcStored(0, MdTorn)
      BY <3>1, <3>7, DcLeaves
    <3>9. mdAt[w].pc = "staged" /\ UNCHANGED <<mdHistory, mdBackups>>
      BY <1>5 DEF MdSwap
    <3> QED BY <2>2, <3>1, <3>3, <3>8, <3>9 DEF DcSwaps, DcStep
  <2> QED BY <2>1, <2>2
<1>6. CASE MdTarget(w)
  <2>1. PICK p \in MdPaths :
            /\ MdResolves("renamed", p)
            /\ mdAt' = [mdAt EXCEPT ![w].pc = "target", ![w].target = p]
    BY <1>6 DEF MdTarget
  <2>2. p \notin DOMAIN mdDoc
    BY <2>1 DEF MdResolves, MdExists
  <2>3. DcStays(w, "target", mdAt[w].kind, mdAt[w].fd) /\ mdAt'[w].target = p
    BY <2>1, <1>1, DcPcs DEF DcStays, DcPut, DcMoves, DcPlaces
  <2> QED BY <1>6, <2>2, <2>3 DEF MdTarget, DcTargets, DcStep
<1>7. CASE MdMove(w)
  <2>1. \/ ~MdExists(mdAt[w].path) /\ DcRefuses(w) /\ UNCHANGED mdDoc
        \/ /\ MdExists(mdAt[w].path)
           /\ mdDoc' = MdNamed(Restrict(mdDoc, DOMAIN mdDoc \ {mdAt[w].path}),
                               mdAt[w].target, mdDoc[mdAt[w].path])
           /\ DcSucceeds(w)
    BY <1>7, DcEnds DEF MdMove
  <2>2. DcMoves(w) /\ mdAt'[w].fd = 0
    BY <2>1, DcEndsFd
  <2>3. Range(mdDoc') \subseteq Range(mdDoc)
    <3>1. CASE UNCHANGED mdDoc
      BY <3>1
    <3>2. CASE /\ mdAt[w].path \in DOMAIN mdDoc
               /\ mdDoc' = MdNamed(Restrict(mdDoc, DOMAIN mdDoc \ {mdAt[w].path}),
                                   mdAt[w].target, mdDoc[mdAt[w].path])
      <4>1. Range(Restrict(mdDoc, DOMAIN mdDoc \ {mdAt[w].path})) \subseteq Range(mdDoc)
        BY DcRestricted
      <4>2. mdDoc[mdAt[w].path] \in Range(mdDoc)
        BY <3>2 DEF Range
      <4>3. Range(mdDoc') \subseteq
                Range(Restrict(mdDoc, DOMAIN mdDoc \ {mdAt[w].path})) \cup {mdDoc[mdAt[w].path]}
        BY <3>2, DcNamed
      <4> QED BY <4>1, <4>2, <4>3
    <3> QED BY <2>1, <3>1, <3>2 DEF MdExists
  <2>4. MdInUse' \subseteq MdInUse \cup {0}
    BY <1>7, <2>2, <2>3, DcInUse DEF MdMove
  <2>5. DcStored(0, MdTorn)
    BY <1>7, <2>4, DcLeaves DEF MdMove
  <2> QED BY <1>7, <2>1, <2>5 DEF MdMove, DcMovesDoc, DcStep
<1>8. CASE MdCrash(w)
  <2>1. \/ w \notin MdBackground /\ DcGoes(w, "crashed") /\ UNCHANGED mdTried
        \/ /\ w \in MdBackground
           /\ mdTried' = mdTried \cup {w}
           /\ IF mdAt[w].kind # "create" \/ mdAt[w].pc = "enriching"
              THEN DcStays(w, "read", "transcript", 0) ELSE DcStays(w, "idle", "create", 0)
    <3>1. CASE w \notin MdBackground
      BY <1>8, <3>1, DcGo, DcPcs DEF MdCrash
    <3>2. CASE /\ w \in MdBackground /\ mdTried' = mdTried \cup {w}
               /\ mdAt[w].kind # "create" \/ mdAt[w].pc = "enriching"
      <4>1. mdAt' = [mdAt EXCEPT ![w].fd = 0, ![w].target = MdNowhere,
                                 ![w].pc = "read", ![w].kind = "transcript"]
        BY <1>8, <3>2 DEF MdCrash
      <4>2. DcStays(w, "read", "transcript", 0)
        BY <4>1, <1>1, DcPcs, DcConstants DEF DcStays, DcPut, DcMoves, DcPlaces, MdDoings
      <4> QED BY <3>2, <4>2
    <3>3. CASE /\ w \in MdBackground /\ mdTried' = mdTried \cup {w}
               /\ ~(mdAt[w].kind # "create" \/ mdAt[w].pc = "enriching")
      <4>1. mdAt' = [mdAt EXCEPT ![w].fd = 0, ![w].target = MdNowhere,
                                 ![w].pc = "idle", ![w].kind = "create"]
        BY <1>8, <3>3 DEF MdCrash
      <4>2. DcStays(w, "idle", "create", 0)
        BY <4>1, <1>1, DcPcs, DcConstants DEF DcStays, DcPut, DcMoves, DcPlaces, MdDoings
      <4> QED BY <3>3, <4>2
    <3> QED BY <1>8, <3>1, <3>2, <3>3 DEF MdCrash
  <2>2. DcMoves(w) /\ mdAt'[w].fd = 0
    BY <2>1 DEF DcGoes, DcStays, DcPut
  <2>3. MdInUse' \subseteq MdInUse \cup {0}
    BY <1>8, <2>2, DcInUse DEF MdCrash
  <2>4. DcStored(0, MdTorn)
    BY <1>8, <2>3, DcLeaves DEF MdCrash
  <2> QED BY <1>8, <2>1, <2>4 DEF MdCrash, DcDies, DcStep
<1> QED BY <1>2, <1>3, <1>4, <1>5, <1>6, <1>7, <1>8 DEF MdAnyNext

\* A step of the specification.
LEMMA DcSteps ==
    ASSUME DcPlaced, DcFiled, DcMarked, MeetingDocumentNext
    PROVE  MdNote /\ \E w \in DOMAIN mdAt : DcStep(w)
<1>1. CASE \E w \in MdJobs \cap DOMAIN mdAt : MdJobNext(w)
  BY <1>1, DcJobSteps DEF MeetingDocumentNext, DcStep
<1>2. CASE \E w \in MdEditors \cap DOMAIN mdAt : MdEditorNext(w)
  BY <1>2, DcEditorSteps DEF MeetingDocumentNext, DcStep
<1>3. CASE \E w \in DOMAIN mdAt : MdAnyNext(w)
  BY <1>3, DcAnySteps DEF MeetingDocumentNext
<1> QED BY <1>1, <1>2, <1>3 DEF MeetingDocumentNext

-----------------------------------------------------------------------------
(* Types *)

\* Where a writer is, and which side it is on.
LEMMA DcSides ==
    ASSUME DcPlaced, NEW w \in DOMAIN mdAt
    PROVE  /\ mdAt[w] \in DcPlaces /\ DcShaped(w, mdAt[w])
           /\ w \in MdJobs <=> w \notin MdEditors
           /\ w \in MdBackground => w \in MdJobs
BY DcConstants DEF DcPlaced

\* Whoever ends a doing has its place.
LEMMA DcSucceedsPlaced ==
    ASSUME DcPlaced, NEW w \in DOMAIN mdAt, DcSucceeds(w), mdAt[w].kind # "create",
           mdAt[w].kind = "resummarize" => mdAt[w].second # 0, mdAt[w].pc # "idle",
           mdAt[w].pc # "read"
    PROVE  mdAt'[w] \in DcPlaces /\ DcShaped(w, mdAt'[w])
<1>1. DcShaped(w, mdAt[w]) /\ (w \in MdJobs <=> w \notin MdEditors)
  BY DcSides
<1> QED BY <1>1 DEF DcSucceeds, DcGoes, DcOver, DcShaped

\* Whoever is refused, too.
LEMMA DcRefusesPlaced ==
    ASSUME DcPlaced, NEW w \in DOMAIN mdAt, DcRefuses(w), mdAt[w].kind # "create"
    PROVE  mdAt'[w] \in DcPlaces /\ DcShaped(w, mdAt'[w])
<1>1. DcShaped(w, mdAt[w]) /\ (w \in MdJobs <=> w \notin MdEditors)
  BY DcSides
<1> QED BY <1>1 DEF DcRefuses, DcGoes, DcOver, DcShaped

\* A step of a pipeline keeps its shape.
LEMMA DcJobPlaced ==
    ASSUME DcPlaced, NEW w \in DOMAIN mdAt, DcJobStep(w)
    PROVE  DcMoves(w) /\ mdAt'[w] \in DcPlaces /\ DcShaped(w, mdAt'[w])
<1>1. DcShaped(w, mdAt[w]) /\ (w \in MdJobs <=> w \notin MdEditors)
  BY DcSides
<1>2. CASE DcResolves(w)
  BY <1>1, <1>2 DEF DcResolves, DcPut, DcShaped
<1>3. CASE DcMakes(w)
  <2>1. PICK i \in 1..MdInodes : DcStays(w, "made", mdAt[w].kind, i)
    BY <1>3 DEF DcMakes, DcOpens
  <2> QED BY <1>1, <1>3, <2>1 DEF DcMakes, DcStays, DcPut, DcShaped
<1>4. CASE DcFills(w)
  BY <1>1, <1>4 DEF DcFills, DcGoes, DcOver, DcShaped
<1>5. CASE DcRecords(w)
  BY <1>1, <1>5 DEF DcRecords, DcGoes, DcOver, DcShaped
<1>6. CASE DcEnriches(w)
  BY <1>1, <1>6 DEF DcEnriches, DcStays, DcPut, DcShaped
<1>7. CASE DcRetries(w)
  BY <1>1, <1>7 DEF DcRetries, DcStays, DcPut, DcShaped
<1>8. CASE DcTitles(w)
  <2>1. CASE DcGoes(w, "titled")
    BY <1>1, <1>8, <2>1 DEF DcTitles, DcGoes, DcOver, DcShaped
  <2>2. CASE ~DcGoes(w, "titled")
    BY <1>1, <1>8, <2>2 DEF DcTitles, DcPut, DcShaped
  <2> QED BY <2>1, <2>2
<1>9. CASE DcSettles(w)
  BY <1>1, <1>9 DEF DcSettles, DcGoes, DcOver, DcShaped
<1> QED BY <1>2, <1>3, <1>4, <1>5, <1>6, <1>7, <1>8, <1>9 DEF DcJobStep

\* So does a step of an editor.
LEMMA DcEditorPlaced ==
    ASSUME DcPlaced, NEW w \in DOMAIN mdAt, DcEditorStep(w)
    PROVE  DcMoves(w) /\ mdAt'[w] \in DcPlaces /\ DcShaped(w, mdAt'[w])
<1>1. DcShaped(w, mdAt[w]) /\ (w \in MdJobs <=> w \notin MdEditors)
  BY DcSides
<1>2. CASE DcReads(w)
  BY <1>1, <1>2 DEF DcReads, DcPut, DcShaped
<1>3. CASE DcSavesNot(w)
  BY <1>3, DcRefusesPlaced, DcEndsFd DEF DcSavesNot
<1>4. CASE DcCuts(w)
  <2>1. PICK i \in 1..MdInodes : DcStays(w, "cut", mdAt[w].kind, i)
    BY <1>4 DEF DcCuts, DcOpens
  <2> QED BY <1>1, <1>4, <2>1 DEF DcCuts, DcStays, DcPut, DcShaped
<1>5. CASE DcNotes(w)
  <2>1. mdAt[w].kind = "annotate"
    BY <1>1, <1>5 DEF DcNotes, DcShaped
  <2> QED BY <1>5, <2>1, DcSucceedsPlaced, DcEndsFd DEF DcNotes
<1>6. CASE DcCompares(w)
  <2>1. CASE DcRefuses(w)
    BY <1>6, <2>1, DcRefusesPlaced, DcEndsFd DEF DcCompares
  <2>2. CASE ~DcRefuses(w)
    BY <1>1, <1>6, <2>2 DEF DcCompares, DcPut, DcShaped
  <2> QED BY <2>1, <2>2
<1>7. CASE DcCopies(w)
  <2>1. CASE DcRefuses(w)
    BY <1>7, <2>1, DcRefusesPlaced, DcEndsFd DEF DcCopies
  <2>2. CASE DcGoes(w, "copied")
    BY <1>1, <1>7, <2>2 DEF DcCopies, DcGoes, DcOver, DcShaped
  <2> QED BY <1>7, <2>1, <2>2 DEF DcCopies
<1>8. CASE DcComparesAgain(w)
  <2>1. CASE DcRefuses(w)
    <3>1. mdAt[w].kind = "resummarize"
      BY <1>1, <1>8 DEF DcComparesAgain, DcShaped
    <3> QED BY <1>8, <2>1, <3>1, DcRefusesPlaced, DcEndsFd DEF DcComparesAgain
  <2>2. CASE DcGoes(w, "window")
    BY <1>1, <1>8, <2>2 DEF DcComparesAgain, DcGoes, DcOver, DcShaped
  <2> QED BY <1>8, <2>1, <2>2 DEF DcComparesAgain
<1>9. CASE DcReplaces(w)
  BY <1>1, <1>9 DEF DcReplaces, DcGoes, DcOver, DcShaped
<1>10. CASE DcPrunes(w)
  <2>1. mdAt[w].kind = "resummarize" /\ mdAt[w].second # 0
    BY <1>1, <1>10 DEF DcPrunes, DcShaped
  <2> QED BY <1>10, <2>1, DcSucceedsPlaced, DcEndsFd DEF DcPrunes
<1> QED BY <1>2, <1>3, <1>4, <1>5, <1>6, <1>7, <1>8, <1>9, <1>10 DEF DcEditorStep

\* So does every step.
LEMMA DcStepPlaced ==
    ASSUME DcPlaced, NEW w \in DOMAIN mdAt, DcStep(w)
    PROVE  DcMoves(w) /\ mdAt'[w] \in DcPlaces /\ DcShaped(w, mdAt'[w])
<1>1. DcShaped(w, mdAt[w]) /\ (w \in MdJobs <=> w \notin MdEditors)
      /\ (w \in MdBackground => w \in MdJobs)
  BY DcSides
<1>2. CASE DcJobStep(w)
  BY <1>2, DcJobPlaced
<1>3. CASE DcEditorStep(w)
  BY <1>3, DcEditorPlaced
<1>4. CASE DcOpensTmp(w)
  <2>1. PICK i \in 1..MdInodes : DcStays(w, "opened", mdAt[w].kind, i)
    BY <1>4 DEF DcOpensTmp
  <2> QED BY <1>1, <1>4, <2>1 DEF DcOpensTmp, DcStagedKinds, DcStays, DcPut, DcShaped
<1>5. CASE DcWrites(w)
  BY <1>1, <1>5 DEF DcWrites, DcGoes, DcOver, DcShaped
<1>6. CASE DcValidates(w)
  <2>1. mdAt[w].kind \in {"rename", "update"}
    BY <1>1, <1>6 DEF DcValidates, DcShaped
  <2>2. CASE DcGoes(w, "staged")
    BY <1>1, <1>6, <2>1, <2>2 DEF DcValidates, DcGoes, DcOver, DcShaped
  <2>3. CASE DcRefuses(w)
    BY <1>6, <2>1, <2>3, DcRefusesPlaced, DcEndsFd DEF DcValidates
  <2> QED BY <1>6, <2>2, <2>3 DEF DcValidates
<1>7. CASE DcSwaps(w)
  <2>1. mdAt[w].kind \in DcStagedKinds
    BY <1>1, <1>7 DEF DcSwaps, DcShaped, DcStagedKinds
  <2>2. CASE mdAt[w].kind = "transcript" /\ DcGoes(w, "enriching")
    BY <1>1, <2>2 DEF DcGoes, DcOver, DcShaped
  <2>3. CASE mdAt[w].kind = "enrich" /\ DcGoes(w, "titling")
    BY <1>1, <2>3 DEF DcGoes, DcOver, DcShaped
  <2>4. CASE mdAt[w].kind = "rename" /\ DcGoes(w, "moved")
    BY <1>1, <2>4 DEF DcGoes, DcOver, DcShaped
  <2>5. CASE DcSucceeds(w) \/ DcRefuses(w)
    BY <1>7, <2>1, <2>5, DcSucceedsPlaced, DcRefusesPlaced, DcEndsFd DEF DcSwaps, DcStagedKinds
  <2> QED BY <1>7, <2>2, <2>3, <2>4, <2>5 DEF DcSwaps
<1>8. CASE DcTargets(w)
  BY <1>1, <1>8 DEF DcTargets, DcStays, DcPut, DcShaped
<1>9. CASE DcMovesDoc(w)
  <2>1. mdAt[w].kind = "rename"
    BY <1>1, <1>9 DEF DcMovesDoc, DcShaped
  <2> QED BY <1>9, <2>1, DcSucceedsPlaced, DcRefusesPlaced, DcEndsFd DEF DcMovesDoc
<1>10. CASE DcDies(w)
  <2>1. CASE DcGoes(w, "crashed")
    BY <1>1, <1>10, <2>1 DEF DcDies, DcGoes, DcOver, DcShaped
  <2>2. CASE w \in MdBackground
    BY <1>1, <1>10, <2>2 DEF DcDies, DcStays, DcPut, DcShaped
  <2> QED BY <1>10, <2>1, <2>2 DEF DcDies
<1> QED BY <1>2, <1>3, <1>4, <1>5, <1>6, <1>7, <1>8, <1>9, <1>10 DEF DcStep

\* The places and shapes are kept.
LEMMA DcPlacedStep ==
    ASSUME DcPlaced, NEW w \in DOMAIN mdAt, DcStep(w)
    PROVE  DcPlaced'
BY DcStepPlaced DEF DcMoves, DcPlaced

-----------------------------------------------------------------------------
(* Files *)

\* Steps that leave the files, and steps that do not.
DcCalm(w) ==
    \/ DcResolves(w) \/ DcRecords(w) \/ DcEnriches(w) \/ DcRetries(w) \/ DcTitles(w)
    \/ DcSettles(w) \/ DcReads(w) \/ DcSavesNot(w) \/ DcCompares(w) \/ DcCopies(w)
    \/ DcComparesAgain(w) \/ DcPrunes(w) \/ DcTargets(w)

\* Steps that change files, or close them.
DcFiling(w) ==
    \/ DcMakes(w) \/ DcCuts(w) \/ DcFills(w) \/ DcNotes(w) \/ DcReplaces(w) \/ DcOpensTmp(w)
    \/ DcWrites(w) \/ DcValidates(w) \/ DcSwaps(w) \/ DcMovesDoc(w) \/ DcDies(w)

\* A step changes files or is calm.
LEMMA DcCalmOrFiling == ASSUME NEW w, DcStep(w) PROVE DcCalm(w) \/ DcFiling(w)
BY DEF DcStep, DcJobStep, DcEditorStep, DcCalm, DcFiling

\* A step of a writer that has nothing open, and leaves the files.
DcQuiet(w) ==
    /\ DcMoves(w) /\ UNCHANGED mdFiles
    /\ mdAt[w].fd = 0 /\ mdAt'[w].fd = 0
    /\ mdAt'[w].pc \notin {"made", "opened", "written", "staged", "cut"}
    /\ mdAt[w].pc \notin {"made", "opened", "written", "staged", "cut"}

\* A calm step leaves the files, and has none open.
LEMMA DcIsQuiet ==
    ASSUME DcPlaced, NEW w \in DOMAIN mdAt, DcCalm(w)
    PROVE  DcQuiet(w)
<1>1. DcShaped(w, mdAt[w]) /\ (w \in MdJobs <=> w \notin MdEditors)
  BY DcSides
<1>2. mdAt[w].pc \notin {"made", "opened", "cut"} => mdAt[w].fd = 0
  BY <1>1, DcSides, DcFields DEF DcShaped
<1>3. CASE DcResolves(w)
  BY <1>2, <1>3 DEF DcResolves, DcPut, DcQuiet
<1>4. CASE DcRecords(w)
  BY <1>2, <1>4 DEF DcRecords, DcGoes, DcQuiet
<1>5. CASE DcEnriches(w)
  BY <1>2, <1>5 DEF DcEnriches, DcStays, DcPut, DcQuiet
<1>6. CASE DcRetries(w)
  BY <1>2, <1>6 DEF DcRetries, DcStays, DcPut, DcQuiet
<1>7. CASE DcTitles(w)
  BY <1>2, <1>7 DEF DcTitles, DcGoes, DcPut, DcQuiet
<1>8. CASE DcSettles(w)
  BY <1>2, <1>8 DEF DcSettles, DcGoes, DcQuiet
<1>9. CASE DcReads(w)
  BY <1>2, <1>9 DEF DcReads, DcPut, DcQuiet
<1>10. CASE DcSavesNot(w)
  BY <1>2, <1>10 DEF DcSavesNot, DcRefuses, DcGoes, DcQuiet
<1>11. CASE DcCompares(w)
  BY <1>2, <1>11 DEF DcCompares, DcRefuses, DcGoes, DcPut, DcQuiet
<1>12. CASE DcCopies(w)
  BY <1>2, <1>12 DEF DcCopies, DcRefuses, DcGoes, DcQuiet
<1>13. CASE DcComparesAgain(w)
  BY <1>2, <1>13 DEF DcComparesAgain, DcRefuses, DcGoes, DcQuiet
<1>14. CASE DcPrunes(w)
  BY <1>2, <1>14 DEF DcPrunes, DcSucceeds, DcGoes, DcQuiet
<1>15. CASE DcTargets(w)
  BY <1>2, <1>15 DEF DcTargets, DcStays, DcPut, DcQuiet
<1> QED BY <1>3, <1>4, <1>5, <1>6, <1>7, <1>8, <1>9, <1>10, <1>11, <1>12, <1>13, <1>14, <1>15
        DEF DcCalm

\* A quiet step leaves the files in use.
LEMMA DcQuietUse ==
    ASSUME NEW w \in DOMAIN mdAt, DcQuiet(w)
    PROVE  MdInUse' = MdInUse
<1>1. {mdAt'[v].fd : v \in DOMAIN mdAt'} = {mdAt[v].fd : v \in DOMAIN mdAt}
  BY DEF DcQuiet, DcMoves
<1> QED BY <1>1 DEF MdInUse, DcQuiet, mdFiles

\* What a writer writes is a document.
LEMMA DcNew ==
    ASSUME DcPlaced, NEW w \in DOMAIN mdAt
    PROVE  /\ MdNew(w) \in MdContent
           /\ mdAt[w].kind \in {"create", "transcript", "enrich"} =>
                 w \in MdJobs /\ MdNew(w).of = w
           /\ mdAt[w].kind \notin {"create", "transcript", "enrich"} =>
                 /\ MdNew(w).of = mdAt[w].read.of
                 /\ MdNew(w).has = mdAt[w].read.has \cup {w}
<1>1. DcShaped(w, mdAt[w]) /\ (w \in MdJobs <=> w \notin MdEditors) /\ mdAt[w].read \in MdContent
      /\ w \in MdWriters
  BY DcSides, DcFields DEF DcPlaced
<1>2. CASE mdAt[w].kind \in {"create", "transcript", "enrich"}
  <2>1. w \in MdJobs
    BY <1>1, <1>2 DEF DcShaped
  <2> QED BY <1>2, <2>1 DEF MdNew, MdContent
<1>3. CASE mdAt[w].kind \notin {"create", "transcript", "enrich"}
  <2>1. MdNew(w) = [mdAt[w].read EXCEPT !.has = mdAt[w].read.has \cup {w}]
    BY <1>3 DEF MdNew
  <2> QED BY <1>1, <1>3, <2>1 DEF MdContent
<1> QED BY <1>2, <1>3

\* The names a rename or a swap leaves.
LEMMA DcWithout ==
    ASSUME NEW t
    PROVE  /\ DOMAIN MdWithout(t) = DOMAIN mdTmp \ {t}
           /\ \A s \in DOMAIN MdWithout(t) : MdWithout(t)[s] = mdTmp[s]
BY DcRestricted DEF MdWithout

\* The name of a staging file.
LEMMA DcTmpName ==
    ASSUME DcPlaced, NEW w \in DOMAIN mdAt,
           mdAt[w].pc \in {"read", "opened", "written", "staged"}, mdAt[w].kind \in DcStagedKinds
    PROVE  MdTmpOf(w) \in MdStaging
<1>1. mdAt[w].path \in MdPaths
  BY DcSides, DcFields
<1> QED BY <1>1 DEF MdTmpOf, MdStages, MdStaging, DcStagedKinds

\* The contents that are there after a step.
LEMMA DcStoredContent ==
    ASSUME DcFiled, NEW i, NEW c, DcStored(i, c), i \in MdInUse' => c \in MdContent
    PROVE  DOMAIN mdInode' = MdInUse' /\ \A k \in DOMAIN mdInode' : mdInode'[k] \in MdContent
BY DEF DcFiled, DcStored

\* What is so of the names and of the files that are open, whatever is in them.
DcNames ==
    /\ DOMAIN mdDoc \subseteq MdPaths /\ DOMAIN mdTmp \subseteq MdStaging
    /\ \A p \in DOMAIN mdDoc : mdDoc[p] \in 1..MdInodes
    /\ \A t \in DOMAIN mdTmp : mdTmp[t] \in 1..MdInodes
    /\ \A p, q \in DOMAIN mdDoc : mdDoc[p] = mdDoc[q] => p = q
    /\ \A t, s \in DOMAIN mdTmp : mdTmp[t] = mdTmp[s] => t = s
    /\ \A p \in DOMAIN mdDoc, t \in DOMAIN mdTmp : mdDoc[p] # mdTmp[t]
    /\ \A w \in DOMAIN mdAt, t \in DOMAIN mdTmp :
          mdAt[w].fd = mdTmp[t] => mdAt[w].pc = "opened" /\ t = MdTmpOf(w)

\* The names, apart from what the files hold.
LEMMA DcFiledNames ==
    /\ DcFiled <=>
          DcNames /\ DOMAIN mdInode = MdInUse /\ \A i \in DOMAIN mdInode : mdInode[i] \in MdContent
    /\ DcFiled' <=>
          /\ DcNames' /\ DOMAIN mdInode' = MdInUse'
          /\ \A i \in DOMAIN mdInode' : mdInode'[i] \in MdContent
BY DEF DcFiled, DcNames

\* Nobody else's staging name changes.
LEMMA DcOthersTmp ==
    ASSUME NEW w, DcMoves(w), NEW v \in DOMAIN mdAt, v # w
    PROVE  mdAt'[v] = mdAt[v] /\ MdTmpOf(v)' = MdTmpOf(v) /\ MdNew(v)' = MdNew(v)
BY DEF DcMoves, MdTmpOf, MdStages, MdNew

\* Opening files keeps the names.
LEMMA DcOpensNames ==
    ASSUME DcPlaced, DcFiled, NEW w \in DOMAIN mdAt, NEW pc \in {"made", "cut"}, DcOpens(w, pc)
    PROVE  DcFiled'
<1>1. PICK i \in 1..MdInodes :
          /\ IF MdExists(mdAt[w].path) THEN i = mdDoc[mdAt[w].path] ELSE DcFresh(i)
          /\ mdDoc' = MdNamed(mdDoc, mdAt[w].path, i)
          /\ DcStays(w, pc, mdAt[w].kind, i)
          /\ DcStored(i, MdTorn)
  BY DEF DcOpens
<1> DEFINE p == mdAt[w].path
<1>2. p \in MdPaths /\ DcNames
  BY DcSides, DcFields, DcFiledNames
<1>3. /\ DOMAIN mdDoc' = DOMAIN mdDoc \cup {p} /\ mdDoc'[p] = i
      /\ \A q \in DOMAIN mdDoc : q # p => mdDoc'[q] = mdDoc[q]
      /\ mdTmp' = mdTmp
  <2>1. mdDoc' = MdNamed(mdDoc, p, i)
    BY <1>1
  <2>2. mdTmp' = mdTmp
    BY DEF DcOpens
  <2> HIDE DEF p
  <2> QED BY <2>1, <2>2 DEF MdNamed
<1>4. \A q \in DOMAIN mdDoc : mdDoc[q] = i => q = p
  BY <1>1, <1>2, DcUsed DEF MdExists, DcFresh, DcNames
<1>5. \A t \in DOMAIN mdTmp : mdTmp[t] # i
  BY <1>1, <1>2, DcUsed DEF MdExists, DcFresh, DcNames
<1>6. DcMoves(w) /\ mdAt'[w].fd = i
  BY <1>1 DEF DcStays, DcPut
<1>7. \A v \in DOMAIN mdAt', t \in DOMAIN mdTmp' :
          mdAt'[v].fd = mdTmp'[t] => mdAt'[v].pc = "opened" /\ t = MdTmpOf(v)'
  <2> SUFFICES ASSUME NEW v \in DOMAIN mdAt, NEW t \in DOMAIN mdTmp, mdAt'[v].fd = mdTmp[t]
               PROVE  mdAt'[v].pc = "opened" /\ t = MdTmpOf(v)'
    BY <1>3, <1>6 DEF DcMoves
  <2>1. v # w
    BY <1>5, <1>6
  <2> QED BY <2>1, <1>2, <1>6, DcOthersTmp DEF DcNames
<1>8. DcNames'
  <2>1. DOMAIN mdDoc' \subseteq MdPaths /\ DOMAIN mdTmp' \subseteq MdStaging
    BY <1>2, <1>3 DEF DcNames
  <2>2. \A q \in DOMAIN mdDoc' : mdDoc'[q] \in 1..MdInodes
    BY <1>2, <1>3 DEF DcNames
  <2>3. \A q, r \in DOMAIN mdDoc' : mdDoc'[q] = mdDoc'[r] => q = r
    BY <1>2, <1>3, <1>4 DEF DcNames
  <2>4. \A q \in DOMAIN mdDoc', t \in DOMAIN mdTmp' : mdDoc'[q] # mdTmp'[t]
    BY <1>2, <1>3, <1>5 DEF DcNames
  <2> QED BY <2>1, <2>2, <2>3, <2>4, <1>2, <1>3, <1>7 DEF DcNames
<1> QED BY <1>1, <1>8, DcFiledNames, DcStoredContent, DcConstants

\* A step that closes a file, and may take staging files away.
LEMMA DcClosesNames ==
    ASSUME DcFiled, NEW w \in DOMAIN mdAt, DcMoves(w), mdAt'[w].fd = 0, mdDoc' = mdDoc,
           DOMAIN mdTmp' \subseteq DOMAIN mdTmp,
           \A t \in DOMAIN mdTmp' : mdTmp'[t] = mdTmp[t]
    PROVE  DcNames'
<1>1. DcNames
  BY DcFiledNames
<1>2. \A v \in DOMAIN mdAt', t \in DOMAIN mdTmp' :
          mdAt'[v].fd = mdTmp'[t] => mdAt'[v].pc = "opened" /\ t = MdTmpOf(v)'
  <2> SUFFICES ASSUME NEW v \in DOMAIN mdAt, NEW t \in DOMAIN mdTmp', mdAt'[v].fd = mdTmp'[t]
               PROVE  mdAt'[v].pc = "opened" /\ t = MdTmpOf(v)'
    BY DEF DcMoves
  <2>1. t \in DOMAIN mdTmp /\ mdTmp'[t] = mdTmp[t] /\ mdTmp[t] # 0
    BY <1>1, DcConstants DEF DcNames
  <2>2. v # w
    BY <2>1
  <2> QED BY <2>1, <2>2, <1>1, DcOthersTmp DEF DcNames
<1> QED BY <1>1, <1>2 DEF DcNames

\* A step that closes a file keeps the files' shape.
LEMMA DcClosesFiled ==
    ASSUME DcFiled, NEW w \in DOMAIN mdAt, DcMoves(w), mdAt'[w].fd = 0, mdDoc' = mdDoc,
           mdTmp' = mdTmp, NEW i, NEW c \in MdContent, DcStored(i, c)
    PROVE  DcFiled'
BY DcClosesNames, DcStoredContent, DcFiledNames

\* A quiet step keeps it.
LEMMA DcQuietFiled ==
    ASSUME DcFiled, NEW w \in DOMAIN mdAt, DcQuiet(w)
    PROVE  DcFiled'
<1>1. DcNames'
  BY DcClosesNames DEF DcQuiet, mdFiles
<1> QED BY <1>1, DcQuietUse, DcFiledNames DEF DcQuiet, mdFiles

\* The swap of `resummarize` keeps it.
LEMMA DcReplacesFiled ==
    ASSUME DcPlaced, DcFiled, NEW w \in DOMAIN mdAt, DcReplaces(w)
    PROVE  DcFiled'
<1> DEFINE p == mdAt[w].path
<1>1. PICK i \in 1..MdInodes :
          /\ DcFresh(i)
          /\ mdDoc' = MdNamed(mdDoc, p, i)
          /\ DcGoes(w, "prune")
          /\ DcStored(i, MdNew(w))
  BY DEF DcReplaces
<1>2. p \in MdPaths /\ DcNames
  BY DcSides, DcFields, DcFiledNames
<1> HIDE DEF p
<1>3. /\ DOMAIN mdDoc' = DOMAIN mdDoc \cup {p} /\ mdDoc'[p] = i
      /\ \A q \in DOMAIN mdDoc : q # p => mdDoc'[q] = mdDoc[q]
  BY <1>1 DEF MdNamed
<1>4. mdTmp' = mdTmp
  BY DEF DcReplaces
<1>5. \A q \in DOMAIN mdDoc : mdDoc[q] # i
  BY <1>1, DcUsed DEF DcFresh
<1>6. \A t \in DOMAIN mdTmp : mdTmp[t] # i
  BY <1>1, DcUsed DEF DcFresh
<1>7. DcMoves(w) /\ mdAt'[w].fd = 0
  BY <1>1 DEF DcGoes
<1>8. \A v \in DOMAIN mdAt', t \in DOMAIN mdTmp' :
          mdAt'[v].fd = mdTmp'[t] => mdAt'[v].pc = "opened" /\ t = MdTmpOf(v)'
  <2> SUFFICES ASSUME NEW v \in DOMAIN mdAt, NEW t \in DOMAIN mdTmp, mdAt'[v].fd = mdTmp[t]
               PROVE  mdAt'[v].pc = "opened" /\ t = MdTmpOf(v)'
    BY <1>4, <1>7 DEF DcMoves
  <2>1. v # w
    BY <1>2, <1>7, DcConstants DEF DcNames
  <2> QED BY <2>1, <1>2, <1>7, DcOthersTmp DEF DcNames
<1>9. DcNames'
  <2>1. DOMAIN mdDoc' \subseteq MdPaths /\ DOMAIN mdTmp' \subseteq MdStaging
    BY <1>2, <1>3, <1>4 DEF DcNames
  <2>2. \A q \in DOMAIN mdDoc' : mdDoc'[q] \in 1..MdInodes
    BY <1>2, <1>3 DEF DcNames
  <2>3. \A q, r \in DOMAIN mdDoc' : mdDoc'[q] = mdDoc'[r] => q = r
    BY <1>2, <1>3, <1>5 DEF DcNames
  <2>4. \A q \in DOMAIN mdDoc', t \in DOMAIN mdTmp' : mdDoc'[q] # mdTmp'[t]
    BY <1>2, <1>3, <1>4, <1>6 DEF DcNames
  <2> QED BY <2>1, <2>2, <2>3, <2>4, <1>2, <1>4, <1>8 DEF DcNames
<1> QED BY <1>1, <1>9, DcFiledNames, DcStoredContent, DcNew

\* Opening a staging file keeps it.
LEMMA DcOpensTmpFiled ==
    ASSUME DcPlaced, DcFiled, NEW w \in DOMAIN mdAt, DcOpensTmp(w)
    PROVE  DcFiled'
<1> DEFINE t == MdTmpOf(w)
<1>1. PICK i \in 1..MdInodes :
          /\ IF t \in DOMAIN mdTmp THEN i = mdTmp[t] ELSE DcFresh(i)
          /\ mdTmp' = MdNamed(mdTmp, t, i)
          /\ DcStays(w, "opened", mdAt[w].kind, i)
          /\ DcStored(i, MdTorn)
  BY DEF DcOpensTmp
<1>2. t \in MdStaging /\ DcNames
  BY DcTmpName, DcFiledNames DEF DcOpensTmp
<1>3. DcMoves(w) /\ mdAt'[w].fd = i /\ mdAt'[w].pc = "opened" /\ t = MdTmpOf(w)'
  BY <1>1 DEF DcStays, DcPut, MdTmpOf, MdStages
<1>4. \A v \in DOMAIN mdAt : v # w => mdAt'[v] = mdAt[v] /\ MdTmpOf(v)' = MdTmpOf(v)
  BY <1>3, DcOthersTmp
<1>5. \A v \in DOMAIN mdAt, s \in DOMAIN mdTmp :
          mdAt[v].fd = mdTmp[s] => mdAt[v].pc = "opened" /\ s = MdTmpOf(v)
  BY <1>2 DEF DcNames
<1> HIDE DEF t
<1>6. /\ DOMAIN mdTmp' = DOMAIN mdTmp \cup {t} /\ mdTmp'[t] = i
      /\ \A s \in DOMAIN mdTmp : s # t => mdTmp'[s] = mdTmp[s]
  BY <1>1 DEF MdNamed
<1>7. mdDoc' = mdDoc
  BY DEF DcOpensTmp
<1>8. \A s \in DOMAIN mdTmp : mdTmp[s] = i => s = t
  BY <1>1, <1>2, DcUsed DEF DcFresh, DcNames
<1>9. \A q \in DOMAIN mdDoc : mdDoc[q] # i
  BY <1>1, <1>2, DcUsed DEF DcFresh, DcNames
<1>10. \A v \in DOMAIN mdAt', s \in DOMAIN mdTmp' :
          mdAt'[v].fd = mdTmp'[s] => mdAt'[v].pc = "opened" /\ s = MdTmpOf(v)'
  <2> SUFFICES ASSUME NEW v \in DOMAIN mdAt, NEW s \in DOMAIN mdTmp', mdAt'[v].fd = mdTmp'[s]
               PROVE  mdAt'[v].pc = "opened" /\ s = MdTmpOf(v)'
    BY <1>3 DEF DcMoves
  <2>1. CASE v = w
    <3>1. s = t
      BY <2>1, <1>3, <1>6, <1>8
    <3> QED BY <2>1, <3>1, <1>3
  <2>2. CASE v # w /\ s # t
    <3>1. s \in DOMAIN mdTmp /\ mdTmp'[s] = mdTmp[s] /\ mdAt'[v] = mdAt[v]
          /\ MdTmpOf(v)' = MdTmpOf(v)
      BY <2>2, <1>4, <1>6
    <3> QED BY <3>1, <1>5
  <2>3. CASE v # w /\ s = t
    <3>1. mdAt'[v] = mdAt[v] /\ MdTmpOf(v)' = MdTmpOf(v) /\ mdAt[v].fd = i
      BY <2>3, <1>4, <1>6
    <3>2. t \in DOMAIN mdTmp
      BY <1>1, <3>1, DcUsed, DcConstants DEF DcFresh
    <3>3. mdAt[v].fd = mdTmp[t]
      BY <1>1, <3>1, <3>2
    <3> QED BY <2>3, <3>1, <3>2, <3>3, <1>5
  <2> QED BY <2>1, <2>2, <2>3
<1>11. DcNames'
  <2>1. DOMAIN mdDoc' \subseteq MdPaths /\ DOMAIN mdTmp' \subseteq MdStaging
    BY <1>2, <1>6, <1>7 DEF DcNames
  <2>2. \A s \in DOMAIN mdTmp' : mdTmp'[s] \in 1..MdInodes
    BY <1>2, <1>6 DEF DcNames
  <2>3. \A s, r \in DOMAIN mdTmp' : mdTmp'[s] = mdTmp'[r] => s = r
    BY <1>2, <1>6, <1>8 DEF DcNames
  <2>4. \A q \in DOMAIN mdDoc', s \in DOMAIN mdTmp' : mdDoc'[q] # mdTmp'[s]
    BY <1>2, <1>6, <1>7, <1>9 DEF DcNames
  <2> QED BY <2>1, <2>2, <2>3, <2>4, <1>2, <1>7, <1>10 DEF DcNames
<1> QED BY <1>1, <1>11, DcFiledNames, DcStoredContent, DcConstants

\* What a swap does to the names.
LEMMA DcSwapNames ==
    ASSUME NEW w, DcSwaps(w), MdTmpOf(w) \in DOMAIN mdTmp
    PROVE  /\ DOMAIN mdDoc' = DOMAIN mdDoc \cup {mdAt[w].path}
           /\ mdDoc'[mdAt[w].path] = mdTmp[MdTmpOf(w)]
           /\ \A q \in DOMAIN mdDoc : q # mdAt[w].path => mdDoc'[q] = mdDoc[q]
           /\ DOMAIN mdTmp' = DOMAIN mdTmp \ {MdTmpOf(w)}
           /\ \A s \in DOMAIN mdTmp' : mdTmp'[s] = mdTmp[s]
<1> DEFINE t == MdTmpOf(w)
           p == mdAt[w].path
<1>1. mdDoc' = MdNamed(mdDoc, p, mdTmp[t]) /\ mdTmp' = MdWithout(t)
  BY DEF DcSwaps
<1>2. DOMAIN mdTmp' = DOMAIN mdTmp \ {t} /\ \A s \in DOMAIN mdTmp' : mdTmp'[s] = mdTmp[s]
  BY <1>1, DcWithout
<1> HIDE DEF t, p
<1>3. /\ DOMAIN mdDoc' = DOMAIN mdDoc \cup {p} /\ mdDoc'[p] = mdTmp[t]
      /\ \A q \in DOMAIN mdDoc : q # p => mdDoc'[q] = mdDoc[q]
  BY <1>1 DEF MdNamed
<1> QED BY <1>2, <1>3 DEF t, p

\* What a move does.
LEMMA DcMoveNames ==
    ASSUME NEW w, DcMovesDoc(w), mdAt[w].path \in DOMAIN mdDoc
    PROVE  /\ DOMAIN mdDoc' = (DOMAIN mdDoc \ {mdAt[w].path}) \cup {mdAt[w].target}
           /\ mdDoc'[mdAt[w].target] = mdDoc[mdAt[w].path]
           /\ \A q \in DOMAIN mdDoc :
                 q \notin {mdAt[w].path, mdAt[w].target} => mdDoc'[q] = mdDoc[q]
           /\ DcSucceeds(w) /\ mdTmp' = mdTmp
<1> DEFINE p == mdAt[w].path
           g == mdAt[w].target
           f == Restrict(mdDoc, DOMAIN mdDoc \ {p})
<1>1. mdDoc' = MdNamed(f, g, mdDoc[p]) /\ DcSucceeds(w) /\ mdTmp' = mdTmp
  BY DEF DcMovesDoc, MdExists
<1>2. DOMAIN f = DOMAIN mdDoc \ {p} /\ \A q \in DOMAIN f : f[q] = mdDoc[q]
  BY DcRestricted
<1> HIDE DEF f, p, g
<1>3. /\ DOMAIN mdDoc' = DOMAIN f \cup {g} /\ mdDoc'[g] = mdDoc[p]
      /\ \A q \in DOMAIN f : q # g => mdDoc'[q] = f[q]
  BY <1>1 DEF MdNamed
<1> QED BY <1>1, <1>2, <1>3 DEF p, g

\* How a step that swaps or moves ends.
LEMMA DcEndsClosed ==
    ASSUME DcPlaced, NEW w \in DOMAIN mdAt,
           DcFills(w) \/ DcNotes(w) \/ DcReplaces(w) \/ DcWrites(w) \/ DcValidates(w)
           \/ DcSwaps(w) \/ DcMovesDoc(w) \/ DcDies(w)
    PROVE  DcMoves(w) /\ mdAt'[w].fd = 0
<1>1. CASE DcFills(w) \/ DcWrites(w)
  BY <1>1 DEF DcFills, DcWrites, DcGoes
<1>2. CASE DcNotes(w)
  BY <1>2, DcEndsFd DEF DcNotes
<1>3. CASE DcReplaces(w)
  BY <1>3 DEF DcReplaces, DcGoes
<1>4. CASE DcValidates(w)
  BY <1>4, DcEndsFd DEF DcValidates, DcGoes
<1>5. CASE DcSwaps(w)
  <2>1. DcGoes(w, "enriching") \/ DcGoes(w, "titling") \/ DcGoes(w, "moved") \/ DcSucceeds(w)
        \/ DcRefuses(w)
    BY <1>5 DEF DcSwaps
  <2> QED BY <2>1, DcEndsFd DEF DcGoes
<1>6. CASE DcMovesDoc(w)
  BY <1>6, DcEndsFd DEF DcMovesDoc
<1>7. CASE DcDies(w)
  BY <1>7 DEF DcDies, DcGoes, DcStays, DcPut
<1> QED BY <1>1, <1>2, <1>3, <1>4, <1>5, <1>6, <1>7

\* A swap keeps it.
LEMMA DcSwapsFiled ==
    ASSUME DcPlaced, DcFiled, NEW w \in DOMAIN mdAt, DcSwaps(w)
    PROVE  DcFiled'
<1> DEFINE t == MdTmpOf(w)
           p == mdAt[w].path
<1>1. DcMoves(w) /\ mdAt'[w].fd = 0 /\ DcStored(0, MdTorn)
  BY DcEndsClosed DEF DcSwaps
<1>2. CASE t \notin DOMAIN mdTmp
  <2>1. mdDoc' = mdDoc /\ mdTmp' = mdTmp
    BY <1>2 DEF DcSwaps
  <2> QED BY <1>1, <2>1, DcClosesFiled, DcConstants
<1>3. CASE t \in DOMAIN mdTmp
  <2>1. p \in MdPaths /\ DcNames
    BY DcSides, DcFields, DcFiledNames
  <2>2. /\ DOMAIN mdDoc' = DOMAIN mdDoc \cup {p} /\ mdDoc'[p] = mdTmp[t]
        /\ \A q \in DOMAIN mdDoc : q # p => mdDoc'[q] = mdDoc[q]
        /\ DOMAIN mdTmp' = DOMAIN mdTmp \ {t} /\ \A s \in DOMAIN mdTmp' : mdTmp'[s] = mdTmp[s]
    BY <1>3, DcSwapNames
  <2>3. \A v \in DOMAIN mdAt : v # w => mdAt'[v] = mdAt[v] /\ MdTmpOf(v)' = MdTmpOf(v)
    BY <1>1, DcOthersTmp
  <2> HIDE DEF t, p
  <2>4. \A v \in DOMAIN mdAt', s \in DOMAIN mdTmp' :
            mdAt'[v].fd = mdTmp'[s] => mdAt'[v].pc = "opened" /\ s = MdTmpOf(v)'
    <3> SUFFICES ASSUME NEW v \in DOMAIN mdAt, NEW s \in DOMAIN mdTmp', mdAt'[v].fd = mdTmp'[s]
                 PROVE  mdAt'[v].pc = "opened" /\ s = MdTmpOf(v)'
      BY <1>1 DEF DcMoves
    <3>1. s \in DOMAIN mdTmp /\ mdTmp'[s] = mdTmp[s] /\ mdTmp[s] # 0
      BY <2>1, <2>2, DcConstants DEF DcNames
    <3>2. v # w
      BY <3>1, <1>1
    <3> QED BY <3>1, <3>2, <2>1, <2>3 DEF DcNames
  <2>5. DcNames'
    <3>1. DOMAIN mdDoc' \subseteq MdPaths /\ DOMAIN mdTmp' \subseteq MdStaging
      BY <2>1, <2>2 DEF DcNames
    <3>2. \A q \in DOMAIN mdDoc' : mdDoc'[q] \in 1..MdInodes
      BY <1>3, <2>1, <2>2 DEF DcNames
    <3>3. \A q, r \in DOMAIN mdDoc' : mdDoc'[q] = mdDoc'[r] => q = r
      BY <1>3, <2>1, <2>2 DEF DcNames
    <3>4. \A q \in DOMAIN mdDoc', s \in DOMAIN mdTmp' : mdDoc'[q] # mdTmp'[s]
      BY <1>3, <2>1, <2>2 DEF DcNames
    <3>5. \A s \in DOMAIN mdTmp' : mdTmp'[s] \in 1..MdInodes
      BY <2>1, <2>2 DEF DcNames
    <3>6. \A s, r \in DOMAIN mdTmp' : mdTmp'[s] = mdTmp'[r] => s = r
      BY <2>1, <2>2 DEF DcNames
    <3> QED BY <3>1, <3>2, <3>3, <3>4, <3>5, <3>6, <2>4 DEF DcNames
  <2> QED BY <1>1, <2>5, DcFiledNames, DcStoredContent, DcConstants
<1> QED BY <1>2, <1>3

\* A rename keeps it.
LEMMA DcMovesFiled ==
    ASSUME DcPlaced, DcFiled, NEW w \in DOMAIN mdAt, DcMovesDoc(w)
    PROVE  DcFiled'
<1> DEFINE g == mdAt[w].target
           p == mdAt[w].path
<1>1. DcMoves(w) /\ mdAt'[w].fd = 0 /\ DcStored(0, MdTorn) /\ mdTmp' = mdTmp
  BY DcEndsClosed DEF DcMovesDoc
<1>2. CASE p \notin DOMAIN mdDoc
  <2>1. mdDoc' = mdDoc
    BY <1>2 DEF DcMovesDoc, MdExists
  <2> QED BY <1>1, <2>1, DcClosesFiled, DcConstants
<1>3. CASE p \in DOMAIN mdDoc
  <2>1. p \in MdPaths /\ g \in MdPaths /\ DcNames
    BY DcSides, DcFields, DcFiledNames
  <2>2. /\ DOMAIN mdDoc' = (DOMAIN mdDoc \ {p}) \cup {g} /\ mdDoc'[g] = mdDoc[p]
        /\ \A q \in DOMAIN mdDoc : q \notin {p, g} => mdDoc'[q] = mdDoc[q]
    BY <1>3, DcMoveNames
  <2>3. \A v \in DOMAIN mdAt : v # w => mdAt'[v] = mdAt[v] /\ MdTmpOf(v)' = MdTmpOf(v)
    BY <1>1, DcOthersTmp
  <2> HIDE DEF g, p
  <2>4. \A v \in DOMAIN mdAt', s \in DOMAIN mdTmp' :
            mdAt'[v].fd = mdTmp'[s] => mdAt'[v].pc = "opened" /\ s = MdTmpOf(v)'
    <3> SUFFICES ASSUME NEW v \in DOMAIN mdAt, NEW s \in DOMAIN mdTmp, mdAt'[v].fd = mdTmp[s]
                 PROVE  mdAt'[v].pc = "opened" /\ s = MdTmpOf(v)'
      BY <1>1 DEF DcMoves
    <3>1. v # w
      BY <1>1, <2>1, DcConstants DEF DcNames
    <3> QED BY <3>1, <2>1, <2>3 DEF DcNames
  <2>5. DcNames'
    <3>1. DOMAIN mdDoc' \subseteq MdPaths
      BY <2>1, <2>2 DEF DcNames
    <3>2. \A q \in DOMAIN mdDoc' : mdDoc'[q] \in 1..MdInodes
      BY <1>3, <2>1, <2>2 DEF DcNames
    <3>3. \A q, r \in DOMAIN mdDoc' : mdDoc'[q] = mdDoc'[r] => q = r
      BY <1>3, <2>1, <2>2 DEF DcNames
    <3>4. \A q \in DOMAIN mdDoc', s \in DOMAIN mdTmp' : mdDoc'[q] # mdTmp'[s]
      BY <1>1, <1>3, <2>1, <2>2 DEF DcNames
    <3> QED BY <3>1, <3>2, <3>3, <3>4, <2>1, <2>4, <1>1 DEF DcNames
  <2> QED BY <1>1, <2>5, DcFiledNames, DcStoredContent, DcConstants
<1> QED BY <1>2, <1>3

\* Every step keeps it.
LEMMA DcFiledStep ==
    ASSUME DcPlaced, DcFiled, NEW w \in DOMAIN mdAt, DcStep(w)
    PROVE  DcFiled'
<1>1. CASE DcCalm(w)
  BY <1>1, DcIsQuiet, DcQuietFiled
<1>2. CASE DcMakes(w)
  BY <1>2, DcOpensNames DEF DcMakes
<1>3. CASE DcCuts(w)
  BY <1>3, DcOpensNames DEF DcCuts
<1>4. CASE DcFills(w)
  <2>1. mdDoc' = mdDoc /\ mdTmp' = mdTmp /\ DcStored(mdAt[w].fd, MdNew(w))
    BY <1>4 DEF DcFills
  <2> QED BY <1>4, <2>1, DcEndsClosed, DcClosesFiled, DcNew
<1>5. CASE DcNotes(w)
  <2>1. mdDoc' = mdDoc /\ mdTmp' = mdTmp /\ DcStored(mdAt[w].fd, MdNew(w))
    BY <1>5 DEF DcNotes
  <2> QED BY <1>5, <2>1, DcEndsClosed, DcClosesFiled, DcNew
<1>6. CASE DcWrites(w)
  <2>1. mdDoc' = mdDoc /\ mdTmp' = mdTmp /\ DcStored(mdAt[w].fd, MdNew(w))
    BY <1>6 DEF DcWrites
  <2> QED BY <1>6, <2>1, DcEndsClosed, DcClosesFiled, DcNew
<1>7. CASE DcReplaces(w)
  BY <1>7, DcReplacesFiled
<1>8. CASE DcOpensTmp(w)
  BY <1>8, DcOpensTmpFiled
<1>9. CASE DcValidates(w)
  <2>1. mdDoc' = mdDoc /\ DcStored(0, MdTorn) /\ DcMoves(w) /\ mdAt'[w].fd = 0
    BY <1>9, DcEndsClosed DEF DcValidates
  <2>2. DOMAIN mdTmp' \subseteq DOMAIN mdTmp /\ \A t \in DOMAIN mdTmp' : mdTmp'[t] = mdTmp[t]
    BY <1>9, DcWithout DEF DcValidates
  <2>3. DcNames'
    BY <2>1, <2>2, DcClosesNames
  <2> QED BY <2>1, <2>3, DcStoredContent, DcFiledNames, DcConstants
<1>10. CASE DcSwaps(w)
  BY <1>10, DcSwapsFiled
<1>11. CASE DcMovesDoc(w)
  BY <1>11, DcMovesFiled
<1>12. CASE DcDies(w)
  <2>1. mdDoc' = mdDoc /\ mdTmp' = mdTmp /\ DcStored(0, MdTorn)
    BY <1>12 DEF DcDies
  <2> QED BY <1>12, <2>1, DcEndsClosed, DcClosesFiled, DcConstants
<1> QED BY <1>1, <1>2, <1>3, <1>4, <1>5, <1>6, <1>7, <1>8, <1>9, <1>10, <1>11, <1>12,
           DcCalmOrFiling DEF DcFiling

-----------------------------------------------------------------------------
(* What is recorded *)

\* Who is done takes no more steps, and who has said so was just told.
LEMMA DcDoneStep ==
    ASSUME NEW w, DcStep(w)
    PROVE  /\ mdAt[w].pc \notin {"done", "refused", "crashed"}
           /\ \/ mdDone' = mdDone
              \/ mdDone' = mdDone \cup ({w} \cap MdEditors) /\ DcSucceeds(w)
<1>1. CASE DcCalm(w)
  <2>1. CASE DcResolves(w) \/ DcRecords(w) \/ DcEnriches(w) \/ DcRetries(w)
    BY <2>1 DEF DcResolves, DcRecords, DcEnriches, DcRetries
  <2>2. CASE DcTitles(w) \/ DcSettles(w) \/ DcReads(w) \/ DcTargets(w)
    BY <2>2 DEF DcTitles, DcSettles, DcReads, DcTargets
  <2>3. CASE DcSavesNot(w) \/ DcCompares(w) \/ DcCopies(w) \/ DcComparesAgain(w)
    BY <2>3 DEF DcSavesNot, DcCompares, DcCopies, DcComparesAgain, DcRefuses
  <2>4. CASE DcPrunes(w)
    BY <2>4 DEF DcPrunes, DcSucceeds
  <2> QED BY <1>1, <2>1, <2>2, <2>3, <2>4 DEF DcCalm
<1>2. CASE DcFiling(w)
  <2>1. CASE DcMakes(w) \/ DcCuts(w)
    BY <2>1 DEF DcMakes, DcCuts, DcOpens
  <2>2. CASE DcFills(w) \/ DcReplaces(w) \/ DcOpensTmp(w) \/ DcWrites(w)
    BY <2>2 DEF DcFills, DcReplaces, DcOpensTmp, DcWrites
  <2>3. CASE DcNotes(w)
    BY <2>3 DEF DcNotes, DcSucceeds
  <2>4. CASE DcValidates(w)
    BY <2>4 DEF DcValidates, DcRefuses
  <2>5. CASE DcSwaps(w)
    <3>1. mdDone' = mdDone \/ DcSucceeds(w)
      BY <2>5 DEF DcSwaps, DcRefuses
    <3> QED BY <2>5, <3>1 DEF DcSwaps, DcSucceeds
  <2>6. CASE DcMovesDoc(w)
    <3>1. mdDone' = mdDone \/ DcSucceeds(w)
      BY <2>6 DEF DcMovesDoc, DcRefuses
    <3> QED BY <2>6, <3>1 DEF DcMovesDoc, DcSucceeds
  <2>7. CASE DcDies(w)
    BY <2>7 DEF DcDies, MdInProgress
  <2> QED BY <1>2, <2>1, <2>2, <2>3, <2>4, <2>5, <2>6, <2>7 DEF DcFiling
<1> QED BY <1>1, <1>2, DcCalmOrFiling

\* What only grows.
LEMMA DcNoteGrows ==
    ASSUME MdNote
    PROVE  mdMet \subseteq mdMet' /\ mdClash \subseteq mdClash'
BY DEF MdNote

\* Every step notes who is at a document with another writer.
LEMMA DcNotedStep == ASSUME MdNote PROVE DcNoted'
<1> SUFFICES ASSUME NEW v \in DOMAIN mdAt', NEW w \in DOMAIN mdAt',
                    v # w, MdAtWork(v)', MdAtWork(w)', (MdTouches(v) \cap MdTouches(w))' # {}
             PROVE  v \in mdMet' /\ MdClashes(v, w)' \subseteq mdClash'
  BY DEF DcNoted
<1>1. <<v, w>> \in MdMeetings'
  BY DEF MdMeetings
<1>2. v \in mdMet'
  BY <1>1 DEF MdNote
<1>3. MdClashes(v, w)' \subseteq mdClash'
  BY <1>1 DEF MdNote
<1> QED BY <1>2, <1>3

\* What is noted is writers, and three kinds of clashes.
LEMMA DcNoteTypes ==
    ASSUME MdNote, DcMarked, DOMAIN mdAt' \subseteq MdWriters
    PROVE  mdMet' \subseteq MdWriters /\ mdClash' \subseteq {"renamed", "alike", "cut"}
<1>1. \A pair \in MdMeetings' : pair[1] \in DOMAIN mdAt'
  BY DEF MdMeetings
<1>2. \A pair \in MdMeetings' : MdClashes(pair[1], pair[2])' \subseteq {"renamed", "alike", "cut"}
  BY DEF MdClashes
<1> QED BY <1>1, <1>2 DEF MdNote, DcMarked

\* The history: who was tried again and who died.
LEMMA DcHistoryStep ==
    ASSUME NEW w, DcStep(w)
    PROVE  \/ mdTried' = mdTried /\ mdCrashed' = mdCrashed
           \/ DcRetries(w) /\ mdTried' = mdTried \cup {w} /\ mdCrashed' = mdCrashed
           \/ DcDies(w)
<1>1. CASE DcCalm(w)
  <2>1. CASE DcResolves(w) \/ DcRecords(w) \/ DcEnriches(w)
    BY <2>1 DEF DcResolves, DcRecords, DcEnriches, mdHistory
  <2>2. CASE DcRetries(w)
    BY <2>2 DEF DcRetries
  <2>3. CASE DcTitles(w) \/ DcSettles(w) \/ DcReads(w) \/ DcTargets(w)
    BY <2>3 DEF DcTitles, DcSettles, DcReads, DcTargets, mdHistory
  <2>4. CASE DcSavesNot(w) \/ DcCompares(w) \/ DcCopies(w) \/ DcComparesAgain(w) \/ DcPrunes(w)
    BY <2>4 DEF DcSavesNot, DcCompares, DcCopies, DcComparesAgain, DcPrunes, mdHistory
  <2> QED BY <1>1, <2>1, <2>2, <2>3, <2>4 DEF DcCalm
<1>2. CASE DcFiling(w)
  <2>1. CASE DcMakes(w) \/ DcCuts(w)
    BY <2>1 DEF DcMakes, DcCuts, DcOpens, mdHistory
  <2>2. CASE DcFills(w) \/ DcReplaces(w) \/ DcOpensTmp(w) \/ DcWrites(w) \/ DcNotes(w)
    BY <2>2 DEF DcFills, DcReplaces, DcOpensTmp, DcWrites, DcNotes, mdHistory
  <2>3. CASE DcValidates(w) \/ DcSwaps(w) \/ DcMovesDoc(w)
    BY <2>3 DEF DcValidates, DcSwaps, DcMovesDoc, mdHistory
  <2> QED BY <1>2, <2>1, <2>2, <2>3 DEF DcFiling
<1> QED BY <1>1, <1>2, DcCalmOrFiling

\* Deaths are not forgotten.
LEMMA DcCrashGrows ==
    ASSUME NEW w, DcStep(w)
    PROVE  mdCrashed \subseteq mdCrashed'
BY DcHistoryStep DEF DcDies

\* The backups: four steps touch them, or the clock.
LEMMA DcBackupsBy ==
    ASSUME NEW w, DcStep(w)
    PROVE  \/ UNCHANGED mdBackups
           \/ DcCompares(w) \/ DcCopies(w) \/ DcComparesAgain(w) \/ DcPrunes(w)
<1>1. CASE DcCalm(w)
  <2>1. CASE DcResolves(w) \/ DcRecords(w) \/ DcEnriches(w) \/ DcRetries(w)
    BY <2>1 DEF DcResolves, DcRecords, DcEnriches, DcRetries
  <2>2. CASE DcTitles(w) \/ DcSettles(w) \/ DcReads(w) \/ DcTargets(w) \/ DcSavesNot(w)
    BY <2>2 DEF DcTitles, DcSettles, DcReads, DcTargets, DcSavesNot
  <2> QED BY <1>1, <2>1, <2>2 DEF DcCalm
<1>2. CASE DcFiling(w)
  <2>1. CASE DcMakes(w) \/ DcCuts(w)
    BY <2>1 DEF DcMakes, DcCuts, DcOpens
  <2>2. CASE DcFills(w) \/ DcReplaces(w) \/ DcOpensTmp(w) \/ DcWrites(w) \/ DcNotes(w)
    BY <2>2 DEF DcFills, DcReplaces, DcOpensTmp, DcWrites, DcNotes
  <2>3. CASE DcValidates(w) \/ DcSwaps(w) \/ DcMovesDoc(w) \/ DcDies(w)
    BY <2>3 DEF DcValidates, DcSwaps, DcMovesDoc, DcDies
  <2> QED BY <1>2, <2>1, <2>2, <2>3 DEF DcFiling
<1> QED BY <1>1, <1>2, DcCalmOrFiling

\* What Copy, CompareAgain and Prune leave of the backups.
LEMMA DcCopied ==
    ASSUME NEW w, DcCopies(w)
    PROVE  \/ mdBackup' = mdBackup /\ DcRefuses(w)
           \/ /\ MdExists(mdAt[w].path)
              /\ DOMAIN mdBackup' = DOMAIN mdBackup \cup {MdBackupOf(w)}
              /\ mdBackup'[MdBackupOf(w)] = MdContentAt(mdAt[w].path)
              /\ \A n \in DOMAIN mdBackup : n # MdBackupOf(w) => mdBackup'[n] = mdBackup[n]
              /\ DcGoes(w, "copied")
BY DEF DcCopies, MdNamed

\* The backups that are there after a step.
LEMMA DcBackupTypes ==
    ASSUME DcPlaced, DcFiled, DcMarked, NEW w \in DOMAIN mdAt, DcStep(w)
    PROVE  /\ DOMAIN mdBackup' \subseteq MdPaths \X (0..MdSeconds)
           /\ \A n \in DOMAIN mdBackup' : mdBackup'[n] \in MdContent
           /\ mdSecond' \in 0..MdSeconds
<1>1. /\ DOMAIN mdBackup \subseteq MdPaths \X (0..MdSeconds)
      /\ \A n \in DOMAIN mdBackup : mdBackup[n] \in MdContent
      /\ mdSecond \in 0..MdSeconds
  BY DEF DcMarked
<1>2. CASE UNCHANGED mdBackups
  BY <1>1, <1>2 DEF mdBackups
<1>3. CASE DcCompares(w)
  <2>1. mdSecond' \in 0..MdSeconds
    BY <1>3, DcConstants DEF DcCompares
  <2> QED BY <1>1, <1>3, <2>1 DEF DcCompares
<1>4. CASE DcCopies(w)
  <2>1. MdBackupOf(w) \in MdPaths \X (0..MdSeconds)
    BY DcSides, DcFields DEF MdBackupOf
  <2>2. MdExists(mdAt[w].path) => MdContentAt(mdAt[w].path) \in MdContent
    BY DcUsed DEF DcFiled, MdExists, MdContentAt
  <2>3. mdSecond' = mdSecond
    BY <1>4 DEF DcCopies
  <2>4. CASE mdBackup' = mdBackup
    BY <1>1, <2>3, <2>4
  <2>5. CASE mdBackup' # mdBackup
    <3> DEFINE b == MdBackupOf(w)
               c == MdContentAt(mdAt[w].path)
    <3>1. /\ MdExists(mdAt[w].path)
          /\ DOMAIN mdBackup' = DOMAIN mdBackup \cup {b} /\ mdBackup'[b] = c
          /\ \A n \in DOMAIN mdBackup : n # b => mdBackup'[n] = mdBackup[n]
      BY <1>4, <2>5, DcCopied
    <3>2. b \in MdPaths \X (0..MdSeconds) /\ c \in MdContent
      BY <2>1, <2>2, <3>1
    <3> HIDE DEF b, c
    <3> QED BY <1>1, <2>3, <3>1, <3>2
  <2> QED BY <2>4, <2>5
<1>5. CASE DcComparesAgain(w)
  <2>1. mdSecond' = mdSecond
    BY <1>5 DEF DcComparesAgain
  <2>2. CASE mdBackup' = mdBackup
    BY <1>1, <2>1, <2>2
  <2>3. CASE mdBackup' = Restrict(mdBackup, DOMAIN mdBackup \ {MdBackupOf(w)})
    <3>1. /\ DOMAIN mdBackup' = DOMAIN mdBackup \ {MdBackupOf(w)}
          /\ \A n \in DOMAIN mdBackup' : mdBackup'[n] = mdBackup[n]
      BY <2>3, DcRestricted
    <3> QED BY <1>1, <2>1, <3>1
  <2> QED BY <1>5, <2>2, <2>3 DEF DcComparesAgain
<1>6. CASE DcPrunes(w)
  <2>1. mdSecond' = mdSecond
    BY <1>6 DEF DcPrunes
  <2>2. PICK S \in SUBSET DOMAIN mdBackup : mdBackup' = Restrict(mdBackup, S)
    BY <1>6 DEF DcPrunes
  <2>3. DOMAIN mdBackup' = S /\ \A n \in DOMAIN mdBackup' : mdBackup'[n] = mdBackup[n]
    BY <2>2, DcRestricted
  <2> QED BY <1>1, <2>1, <2>3
<1> QED BY <1>2, <1>3, <1>4, <1>5, <1>6, DcBackupsBy

\* The writers' marks, the history and the backups keep their types.
LEMMA DcMarkedStep ==
    ASSUME DcPlaced, DcFiled, DcMarked, NEW w \in DOMAIN mdAt, DcStep(w), MdNote
    PROVE  DcMarked'
<1>1. DcPlaced' /\ DcMoves(w) /\ w \in MdWriters
  BY DcPlacedStep, DcStepPlaced DEF DcPlaced
<1>2. mdMet' \subseteq MdWriters /\ mdClash' \subseteq {"renamed", "alike", "cut"}
  BY <1>1, DcNoteTypes DEF DcPlaced
<1>3. mdDone' \subseteq MdEditors \cap DOMAIN mdAt' /\ \A v \in mdDone' : mdAt'[v].pc = "done"
  <2>1. mdDone \subseteq MdEditors \cap DOMAIN mdAt /\ \A v \in mdDone : mdAt[v].pc = "done"
    BY DEF DcMarked
  <2>2. w \notin mdDone
    BY <2>1, DcDoneStep
  <2>3. \A v \in mdDone : mdAt'[v].pc = "done"
    BY <2>1, <2>2, <1>1 DEF DcMoves
  <2>4. CASE mdDone' = mdDone
    BY <2>1, <2>3, <2>4, <1>1 DEF DcMoves
  <2>5. CASE mdDone' = mdDone \cup ({w} \cap MdEditors) /\ DcSucceeds(w)
    <3>1. w \in MdEditors => mdAt'[w].pc = "done"
      BY <2>5 DEF DcSucceeds, DcGoes
    <3> QED BY <2>1, <2>3, <2>5, <3>1, <1>1 DEF DcMoves
  <2> QED BY <2>4, <2>5, DcDoneStep
<1>4. mdTried' \subseteq MdJobs /\ mdCrashed' \subseteq MdWriters \X MdLeft
  <2>1. CASE DcDies(w)
    <3>1. mdTried' \subseteq MdJobs
      BY <2>1, DcConstants DEF DcDies, DcMarked
    <3>2. mdCrashed' \subseteq MdWriters \X MdLeft
      BY <2>1 DEF DcDies, DcMarked
    <3> QED BY <3>1, <3>2
  <2>2. CASE DcRetries(w)
    BY <2>2 DEF DcRetries, DcMarked
  <2> QED BY <2>1, <2>2, DcHistoryStep DEF DcMarked
<1> QED BY <1>2, <1>3, <1>4, DcBackupTypes DEF DcMarked

-----------------------------------------------------------------------------
(* Who touches what *)

\* What a document holds after a step.
LEMMA DcStoredDoc ==
    ASSUME DcFiled', NEW i, NEW c, DcStored(i, c)
    PROVE  /\ \A p \in DOMAIN mdDoc' :
                 mdInode'[mdDoc'[p]] = IF mdDoc'[p] = i THEN c ELSE mdInode[mdDoc'[p]]
           /\ \A t \in DOMAIN mdTmp' :
                 mdInode'[mdTmp'[t]] = IF mdTmp'[t] = i THEN c ELSE mdInode[mdTmp'[t]]
<1>1. \A p \in DOMAIN mdDoc' : mdDoc'[p] \in MdInUse'
  <2> SUFFICES ASSUME NEW p \in DOMAIN mdDoc' PROVE mdDoc'[p] \in MdInUse'
    OBVIOUS
  <2>1. mdDoc'[p] \in Range(mdDoc') /\ mdDoc'[p] # 0
    BY DcConstants DEF Range, DcFiled
  <2> QED BY <2>1 DEF MdInUse
<1>2. \A t \in DOMAIN mdTmp' : mdTmp'[t] \in MdInUse'
  <2> SUFFICES ASSUME NEW t \in DOMAIN mdTmp' PROVE mdTmp'[t] \in MdInUse'
    OBVIOUS
  <2>1. mdTmp'[t] \in Range(mdTmp') /\ mdTmp'[t] # 0
    BY DcConstants DEF Range, DcFiled
  <2> QED BY <2>1 DEF MdInUse
<1> QED BY <1>1, <1>2 DEF DcStored

\* The document at p is as it was, or is not there as before.
DcDocSame(p) ==
    /\ p \in DOMAIN mdDoc' <=> p \in DOMAIN mdDoc
    /\ p \in DOMAIN mdDoc =>
          mdDoc'[p] = mdDoc[p] /\ mdInode'[mdDoc[p]] = mdInode[mdDoc[p]]

\* So is the staging file t.
DcTmpSame(t) ==
    /\ t \in DOMAIN mdTmp' <=> t \in DOMAIN mdTmp
    /\ t \in DOMAIN mdTmp =>
          mdTmp'[t] = mdTmp[t] /\ mdInode'[mdTmp[t]] = mdInode[mdTmp[t]]

\* A quiet step leaves every file.
LEMMA DcQuietSame ==
    ASSUME NEW w, DcQuiet(w)
    PROVE  /\ \A p : DcDocSame(p)
           /\ \A t : DcTmpSame(t)
BY DEF DcQuiet, mdFiles, DcDocSame, DcTmpSame

\* The files a step opens or stores into.
LEMMA DcOpensSame ==
    ASSUME DcPlaced, DcFiled, DcFiled', NEW w \in DOMAIN mdAt, NEW pc, DcOpens(w, pc)
    PROVE  /\ \A p : p # mdAt[w].path => DcDocSame(p)
           /\ \A t : DcTmpSame(t)
           /\ mdAt[w].path \in DOMAIN mdDoc'
           /\ mdInode'[mdDoc'[mdAt[w].path]] = MdTorn
           /\ mdAt'[w].fd = mdDoc'[mdAt[w].path]
           /\ \/ mdDoc'[mdAt[w].path] \notin MdInUse
              \/ mdAt[w].path \in DOMAIN mdDoc /\ mdDoc'[mdAt[w].path] = mdDoc[mdAt[w].path]
<1> DEFINE p == mdAt[w].path
<1>1. PICK i \in 1..MdInodes :
          /\ IF MdExists(p) THEN i = mdDoc[p] ELSE DcFresh(i)
          /\ mdDoc' = MdNamed(mdDoc, p, i)
          /\ DcStays(w, pc, mdAt[w].kind, i)
          /\ DcStored(i, MdTorn)
  BY DEF DcOpens
<1>2. mdTmp' = mdTmp
  BY DEF DcOpens
<1>3. mdAt'[w].fd = i
  BY <1>1 DEF DcStays, DcPut
<1>4. DcNames
  BY DcFiledNames
<1> HIDE DEF p
<1>5. /\ DOMAIN mdDoc' = DOMAIN mdDoc \cup {p} /\ mdDoc'[p] = i
      /\ \A q \in DOMAIN mdDoc : q # p => mdDoc'[q] = mdDoc[q]
  BY <1>1 DEF MdNamed
<1>6. \A q \in DOMAIN mdDoc : q # p => mdDoc[q] # i
  BY <1>1, <1>4, DcUsed DEF MdExists, DcFresh, DcNames
<1>7. \A t \in DOMAIN mdTmp : mdTmp[t] # i
  BY <1>1, <1>4, DcUsed DEF MdExists, DcFresh, DcNames
<1>8. ASSUME NEW q, q # p PROVE DcDocSame(q)
  BY <1>1, <1>5, <1>6, <1>8, DcStoredDoc DEF DcDocSame
<1>9. ASSUME NEW t PROVE DcTmpSame(t)
  BY <1>1, <1>2, <1>7, DcStoredDoc DEF DcTmpSame
<1>10. mdInode'[mdDoc'[p]] = MdTorn
  BY <1>1, <1>5, DcStoredDoc
<1>11. mdDoc'[p] \notin MdInUse \/ (p \in DOMAIN mdDoc /\ mdDoc'[p] = mdDoc[p])
  BY <1>1, <1>5 DEF MdExists, DcFresh
<1> QED BY <1>3, <1>5, <1>8, <1>9, <1>10, <1>11 DEF p

\* So does a write, but the file that it goes to.
LEMMA DcStoresSame ==
    ASSUME DcFiled', NEW i, NEW c, DcStored(i, c), mdDoc' = mdDoc, mdTmp' = mdTmp
    PROVE  /\ \A p : (p \in DOMAIN mdDoc => mdDoc[p] # i) => DcDocSame(p)
           /\ \A t : (t \in DOMAIN mdTmp => mdTmp[t] # i) => DcTmpSame(t)
           /\ \A p \in DOMAIN mdDoc' : mdDoc'[p] = i => mdInode'[mdDoc'[p]] = c
           /\ \A t \in DOMAIN mdTmp' : mdTmp'[t] = i => mdInode'[mdTmp'[t]] = c
BY DcStoredDoc DEF DcDocSame, DcTmpSame

\* The swap of `resummarize` puts a new file in the document's place.
LEMMA DcReplacesSame ==
    ASSUME DcPlaced, DcFiled, DcFiled', NEW w \in DOMAIN mdAt, DcReplaces(w)
    PROVE  /\ \A p : p # mdAt[w].path => DcDocSame(p)
           /\ \A t : DcTmpSame(t)
           /\ mdAt[w].path \in DOMAIN mdDoc'
           /\ mdInode'[mdDoc'[mdAt[w].path]] = MdNew(w)
           /\ mdDoc'[mdAt[w].path] \notin MdInUse
<1> DEFINE p == mdAt[w].path
<1>1. PICK i \in 1..MdInodes :
          /\ DcFresh(i)
          /\ mdDoc' = MdNamed(mdDoc, p, i)
          /\ DcStored(i, MdNew(w))
  BY DEF DcReplaces
<1>2. mdTmp' = mdTmp
  BY DEF DcReplaces
<1> HIDE DEF p
<1>5. /\ DOMAIN mdDoc' = DOMAIN mdDoc \cup {p} /\ mdDoc'[p] = i
      /\ \A q \in DOMAIN mdDoc : q # p => mdDoc'[q] = mdDoc[q]
  BY <1>1 DEF MdNamed
<1>6. \A q \in DOMAIN mdDoc : mdDoc[q] # i
  BY <1>1, DcUsed DEF DcFresh
<1>7. \A t \in DOMAIN mdTmp : mdTmp[t] # i
  BY <1>1, DcUsed DEF DcFresh
<1>8. ASSUME NEW q, q # p PROVE DcDocSame(q)
  BY <1>1, <1>5, <1>6, <1>8, DcStoredDoc DEF DcDocSame
<1>9. ASSUME NEW t PROVE DcTmpSame(t)
  BY <1>1, <1>2, <1>7, DcStoredDoc DEF DcTmpSame
<1>10. mdInode'[mdDoc'[p]] = MdNew(w)
  BY <1>1, <1>5, DcStoredDoc
<1>11. mdDoc'[p] \notin MdInUse
  BY <1>1, <1>5 DEF DcFresh
<1> QED BY <1>5, <1>8, <1>9, <1>10, <1>11 DEF p

\* Opening a staging file leaves the documents and cuts the staging file.
LEMMA DcOpensTmpSame ==
    ASSUME DcPlaced, DcFiled, DcFiled', NEW w \in DOMAIN mdAt, DcOpensTmp(w)
    PROVE  /\ \A p : DcDocSame(p)
           /\ \A t : t # MdTmpOf(w) => DcTmpSame(t)
           /\ MdTmpOf(w) \in DOMAIN mdTmp'
           /\ mdInode'[mdTmp'[MdTmpOf(w)]] = MdTorn
           /\ mdAt'[w].fd = mdTmp'[MdTmpOf(w)]
<1> DEFINE t == MdTmpOf(w)
<1>1. PICK i \in 1..MdInodes :
          /\ IF t \in DOMAIN mdTmp THEN i = mdTmp[t] ELSE DcFresh(i)
          /\ mdTmp' = MdNamed(mdTmp, t, i)
          /\ DcStays(w, "opened", mdAt[w].kind, i)
          /\ DcStored(i, MdTorn)
  BY DEF DcOpensTmp
<1>2. mdDoc' = mdDoc
  BY DEF DcOpensTmp
<1>3. mdAt'[w].fd = i
  BY <1>1 DEF DcStays, DcPut
<1>4. DcNames
  BY DcFiledNames
<1> HIDE DEF t
<1>5. /\ DOMAIN mdTmp' = DOMAIN mdTmp \cup {t} /\ mdTmp'[t] = i
      /\ \A s \in DOMAIN mdTmp : s # t => mdTmp'[s] = mdTmp[s]
  BY <1>1 DEF MdNamed
<1>6. \A s \in DOMAIN mdTmp : s # t => mdTmp[s] # i
  BY <1>1, <1>4, DcUsed DEF DcFresh, DcNames
<1>7. \A q \in DOMAIN mdDoc : mdDoc[q] # i
  BY <1>1, <1>4, DcUsed DEF DcFresh, DcNames
<1>8. ASSUME NEW s, s # t PROVE DcTmpSame(s)
  BY <1>1, <1>5, <1>6, <1>8, DcStoredDoc DEF DcTmpSame
<1>9. ASSUME NEW q PROVE DcDocSame(q)
  BY <1>1, <1>2, <1>7, DcStoredDoc DEF DcDocSame
<1>10. mdInode'[mdTmp'[t]] = MdTorn
  BY <1>1, <1>5, DcStoredDoc
<1> QED BY <1>3, <1>5, <1>8, <1>9, <1>10 DEF t

\* A validation may remove the staging file.
LEMMA DcValidatesSame ==
    ASSUME DcFiled, DcFiled', NEW w, DcValidates(w)
    PROVE  /\ \A p : DcDocSame(p)
           /\ \A t : t # MdTmpOf(w) \/ mdTmp' = mdTmp => DcTmpSame(t)
<1>1. DcStored(0, MdTorn) /\ mdDoc' = mdDoc
  BY DEF DcValidates
<1>2. \/ mdTmp' = mdTmp
      \/ /\ DOMAIN mdTmp' = DOMAIN mdTmp \ {MdTmpOf(w)}
         /\ \A s \in DOMAIN mdTmp' : mdTmp'[s] = mdTmp[s]
  BY DcWithout DEF DcValidates
<1>3. DcNames /\ 0 \notin 1..MdInodes
  BY DcFiledNames, DcConstants
<1>4. ASSUME NEW p PROVE DcDocSame(p)
  BY <1>1, <1>3, DcStoredDoc DEF DcDocSame, DcNames
<1>5. ASSUME NEW t, t # MdTmpOf(w) \/ mdTmp' = mdTmp PROVE DcTmpSame(t)
  BY <1>1, <1>2, <1>3, <1>5, DcStoredDoc DEF DcTmpSame, DcNames
<1> QED BY <1>4, <1>5

\* A swap puts the staging file in the document's place.
LEMMA DcSwapsSame ==
    ASSUME DcFiled, DcFiled', NEW w, DcSwaps(w), MdTmpOf(w) \in DOMAIN mdTmp
    PROVE  /\ \A p : p # mdAt[w].path => DcDocSame(p)
           /\ \A t : t # MdTmpOf(w) => DcTmpSame(t)
           /\ mdAt[w].path \in DOMAIN mdDoc'
           /\ mdDoc'[mdAt[w].path] = mdTmp[MdTmpOf(w)]
           /\ mdInode'[mdDoc'[mdAt[w].path]] = mdInode[mdTmp[MdTmpOf(w)]]
<1> DEFINE t == MdTmpOf(w)
           p == mdAt[w].path
<1>1. DcStored(0, MdTorn)
  BY DEF DcSwaps
<1>2. /\ DOMAIN mdDoc' = DOMAIN mdDoc \cup {p} /\ mdDoc'[p] = mdTmp[t]
      /\ \A q \in DOMAIN mdDoc : q # p => mdDoc'[q] = mdDoc[q]
      /\ DOMAIN mdTmp' = DOMAIN mdTmp \ {t} /\ \A s \in DOMAIN mdTmp' : mdTmp'[s] = mdTmp[s]
  BY DcSwapNames
<1>3. DcNames /\ 0 \notin 1..MdInodes /\ t \in DOMAIN mdTmp
  BY DcFiledNames, DcConstants
<1> HIDE DEF t, p
<1>4. ASSUME NEW q, q # p PROVE DcDocSame(q)
  BY <1>1, <1>2, <1>3, <1>4, DcStoredDoc DEF DcDocSame, DcNames
<1>5. ASSUME NEW s, s # t PROVE DcTmpSame(s)
  BY <1>1, <1>2, <1>3, <1>5, DcStoredDoc DEF DcTmpSame, DcNames
<1>6. p \in DOMAIN mdDoc' /\ mdInode'[mdDoc'[p]] = mdInode[mdTmp[t]]
  BY <1>1, <1>2, <1>3, DcStoredDoc DEF DcNames
<1> QED BY <1>2, <1>4, <1>5, <1>6 DEF t, p

\* A rename gives the document's file the name that was chosen.
LEMMA DcMovesSame ==
    ASSUME DcFiled, DcFiled', NEW w, DcMovesDoc(w), mdAt[w].path \in DOMAIN mdDoc
    PROVE  /\ \A p : p \notin {mdAt[w].path, mdAt[w].target} => DcDocSame(p)
           /\ \A t : DcTmpSame(t)
           /\ mdAt[w].target \in DOMAIN mdDoc'
           /\ mdDoc'[mdAt[w].target] = mdDoc[mdAt[w].path]
           /\ mdInode'[mdDoc'[mdAt[w].target]] = mdInode[mdDoc[mdAt[w].path]]
           /\ mdAt[w].path # mdAt[w].target => mdAt[w].path \notin DOMAIN mdDoc'
<1> DEFINE g == mdAt[w].target
           p == mdAt[w].path
<1>1. DcStored(0, MdTorn)
  BY DEF DcMovesDoc
<1>2. /\ DOMAIN mdDoc' = (DOMAIN mdDoc \ {p}) \cup {g} /\ mdDoc'[g] = mdDoc[p]
      /\ \A q \in DOMAIN mdDoc : q \notin {p, g} => mdDoc'[q] = mdDoc[q]
      /\ mdTmp' = mdTmp
  BY DcMoveNames
<1>3. DcNames /\ 0 \notin 1..MdInodes /\ p \in DOMAIN mdDoc
  BY DcFiledNames, DcConstants
<1> HIDE DEF g, p
<1>4. ASSUME NEW q, q \notin {p, g} PROVE DcDocSame(q)
  BY <1>1, <1>2, <1>3, <1>4, DcStoredDoc DEF DcDocSame, DcNames
<1>5. ASSUME NEW s PROVE DcTmpSame(s)
  BY <1>1, <1>2, <1>3, DcStoredDoc DEF DcTmpSame, DcNames
<1>6. g \in DOMAIN mdDoc' /\ mdInode'[mdDoc'[g]] = mdInode[mdDoc[p]]
  BY <1>1, <1>2, <1>3, DcStoredDoc DEF DcNames
<1> QED BY <1>2, <1>4, <1>5, <1>6 DEF g, p

\* A death leaves every file.
LEMMA DcDiesSame ==
    ASSUME DcFiled, DcFiled', NEW w, DcDies(w)
    PROVE  /\ \A p : DcDocSame(p)
           /\ \A t : DcTmpSame(t)
<1>1. DcStored(0, MdTorn) /\ mdDoc' = mdDoc /\ mdTmp' = mdTmp
  BY DEF DcDies
<1>2. DcNames /\ 0 \notin 1..MdInodes
  BY DcFiledNames, DcConstants
<1>3. ASSUME NEW p PROVE DcDocSame(p)
  BY <1>1, <1>2, DcStoredDoc DEF DcDocSame, DcNames
<1>4. ASSUME NEW t PROVE DcTmpSame(t)
  BY <1>1, <1>2, DcStoredDoc DEF DcTmpSame, DcNames
<1> QED BY <1>3, <1>4

\* Steps that would move a file that is not there.
LEMMA DcFailsSame ==
    ASSUME DcFiled, DcFiled', NEW w,
           \/ DcSwaps(w) /\ MdTmpOf(w) \notin DOMAIN mdTmp
           \/ DcMovesDoc(w) /\ mdAt[w].path \notin DOMAIN mdDoc
    PROVE  (\A p : DcDocSame(p)) /\ (\A t : DcTmpSame(t))
<1>1. DcStored(0, MdTorn) /\ mdDoc' = mdDoc /\ mdTmp' = mdTmp
  <2>1. CASE DcSwaps(w) /\ MdTmpOf(w) \notin DOMAIN mdTmp
    BY <2>1 DEF DcSwaps
  <2>2. CASE DcMovesDoc(w) /\ mdAt[w].path \notin DOMAIN mdDoc
    BY <2>2 DEF DcMovesDoc, MdExists
  <2> QED BY <2>1, <2>2
<1>2. \A p \in DOMAIN mdDoc : mdDoc[p] # 0
  BY DcConstants DEF DcFiled
<1>3. \A t \in DOMAIN mdTmp : mdTmp[t] # 0
  BY DcConstants DEF DcFiled
<1> QED BY <1>1, <1>2, <1>3, DcStoresSame

\* A document changes under who is at work at its name.
LEMMA DcDocTouched ==
    ASSUME DcPlaced, DcFiled, DcFiled', NEW w \in DOMAIN mdAt, DcStep(w), NEW p
    PROVE  DcDocSame(p) \/ (MdAtWork(w) /\ p \in MdTouches(w))
<1>1. DcShaped(w, mdAt[w])
  BY DcSides
<1>2. CASE DcCalm(w)
  BY <1>2, DcIsQuiet, DcQuietSame
<1>3. CASE DcMakes(w)
  <2>1. MdAtWork(w)
    BY <1>1, <1>3 DEF DcMakes, DcShaped, MdAtWork, MdInProgress
  <2>2. p # mdAt[w].path => DcDocSame(p)
    BY <1>3, DcOpensSame DEF DcMakes
  <2> QED BY <2>1, <2>2 DEF MdTouches
<1>4. CASE DcCuts(w)
  <2>1. MdAtWork(w)
    BY <1>1, <1>4 DEF DcCuts, DcShaped, MdAtWork, MdInProgress
  <2>2. p # mdAt[w].path => DcDocSame(p)
    BY <1>4, DcOpensSame DEF DcCuts
  <2> QED BY <2>1, <2>2 DEF MdTouches
<1>5. CASE DcFills(w) \/ DcNotes(w) \/ DcWrites(w)
  <2>1. mdDoc' = mdDoc /\ mdTmp' = mdTmp /\ DcStored(mdAt[w].fd, MdNew(w))
    BY <1>5 DEF DcFills, DcNotes, DcWrites
  <2>2. MdAtWork(w)
    BY <1>1, <1>5 DEF DcFills, DcNotes, DcWrites, DcShaped, MdAtWork, MdInProgress
  <2>3. (p \in DOMAIN mdDoc => mdDoc[p] # mdAt[w].fd) => DcDocSame(p)
    BY <2>1, DcStoresSame
  <2> QED BY <2>2, <2>3 DEF MdTouches
<1>6. CASE DcReplaces(w)
  <2>1. MdAtWork(w)
    BY <1>1, <1>6 DEF DcReplaces, DcShaped, MdAtWork, MdInProgress
  <2>2. p # mdAt[w].path => DcDocSame(p)
    BY <1>6, DcReplacesSame
  <2> QED BY <2>1, <2>2 DEF MdTouches
<1>7. CASE DcOpensTmp(w)
  BY <1>7, DcOpensTmpSame
<1>8. CASE DcValidates(w)
  BY <1>8, DcValidatesSame
<1>9. CASE DcSwaps(w)
  <2>1. MdAtWork(w)
    BY <1>1, <1>9 DEF DcSwaps, DcShaped, MdAtWork, MdInProgress
  <2>2. p # mdAt[w].path => DcDocSame(p)
    BY <1>9, DcSwapsSame, DcFailsSame
  <2> QED BY <2>1, <2>2 DEF MdTouches
<1>10. CASE DcMovesDoc(w)
  <2>1. MdAtWork(w) /\ mdAt[w].pc = "target"
    BY <1>1, <1>10 DEF DcMovesDoc, DcShaped, MdAtWork, MdInProgress
  <2>2. p \notin {mdAt[w].path, mdAt[w].target} => DcDocSame(p)
    BY <1>10, DcMovesSame, DcFailsSame
  <2> QED BY <2>1, <2>2 DEF MdTouches
<1>11. CASE DcDies(w)
  BY <1>11, DcDiesSame
<1> QED BY <1>2, <1>3, <1>4, <1>5, <1>6, <1>7, <1>8, <1>9, <1>10, <1>11, DcCalmOrFiling
        DEF DcFiling

\* A staging file changes under who writes it.
LEMMA DcTmpTouched ==
    ASSUME DcPlaced, DcFiled, DcFiled', NEW w \in DOMAIN mdAt, DcStep(w), NEW t
    PROVE  \/ DcTmpSame(t)
           \/ /\ mdAt[w].pc \in {"read", "opened", "written", "staged"}
              /\ mdAt[w].kind \in DcStagedKinds /\ t = MdTmpOf(w)
<1>1. DcShaped(w, mdAt[w]) /\ DcNames
  BY DcSides, DcFiledNames
<1>2. CASE DcCalm(w)
  BY <1>2, DcIsQuiet, DcQuietSame
<1>3. CASE DcMakes(w) \/ DcCuts(w)
  BY <1>3, DcOpensSame DEF DcMakes, DcCuts
<1>5. CASE DcFills(w) \/ DcNotes(w) \/ DcWrites(w)
  <2>1. mdDoc' = mdDoc /\ mdTmp' = mdTmp /\ DcStored(mdAt[w].fd, MdNew(w))
    BY <1>5 DEF DcFills, DcNotes, DcWrites
  <2>2. (t \in DOMAIN mdTmp => mdTmp[t] # mdAt[w].fd) => DcTmpSame(t)
    BY <2>1, DcStoresSame
  <2>3. CASE t \in DOMAIN mdTmp /\ mdTmp[t] = mdAt[w].fd
    <3>1. mdAt[w].pc = "opened" /\ t = MdTmpOf(w)
      BY <2>3, <1>1 DEF DcNames
    <3> QED BY <3>1, <1>1 DEF DcShaped, DcStagedKinds
  <2> QED BY <2>2, <2>3
<1>6. CASE DcReplaces(w)
  BY <1>6, DcReplacesSame
<1>7. CASE DcOpensTmp(w)
  <2>1. t # MdTmpOf(w) => DcTmpSame(t)
    BY <1>7, DcOpensTmpSame
  <2> QED BY <1>7, <2>1 DEF DcOpensTmp
<1>8. CASE DcValidates(w)
  <2>1. t # MdTmpOf(w) => DcTmpSame(t)
    BY <1>8, DcValidatesSame
  <2> QED BY <1>1, <1>8, <2>1 DEF DcValidates, DcShaped, DcStagedKinds
<1>9. CASE DcSwaps(w)
  <2>1. t # MdTmpOf(w) => DcTmpSame(t)
    BY <1>9, DcSwapsSame, DcFailsSame
  <2> QED BY <1>1, <1>9, <2>1 DEF DcSwaps, DcShaped, DcStagedKinds
<1>10. CASE DcMovesDoc(w)
  BY <1>10, DcMovesSame, DcFailsSame
<1>11. CASE DcDies(w)
  BY <1>11, DcDiesSame
<1> QED BY <1>2, <1>3, <1>5, <1>6, <1>7, <1>8, <1>9, <1>10, <1>11, DcCalmOrFiling
        DEF DcFiling

-----------------------------------------------------------------------------
(* Staging *)

\* Two at one place at once have met, and it is noted what they did.
LEMMA DcMeet ==
    ASSUME DcNoted, NEW v \in DOMAIN mdAt, NEW w \in DOMAIN mdAt, v # w, MdAtWork(v), MdAtWork(w),
           NEW p, p \in MdTouches(v), p \in MdTouches(w)
    PROVE  /\ v \in mdMet /\ w \in mdMet
           /\ MdClashes(v, w) \subseteq mdClash /\ MdClashes(w, v) \subseteq mdClash
BY DEF DcNoted

\* What is staged stays what its writer wrote, between writers of different kinds.
LEMMA DcStagedStep ==
    ASSUME DcPlaced, DcFiled, DcFiled', DcNoted, DcStaged, NEW w \in DOMAIN mdAt, DcStep(w),
           MdNote
    PROVE  DcStaged'
<1> SUFFICES ASSUME "alike" \notin mdClash', NEW v \in DOMAIN mdAt'
             PROVE  /\ mdAt'[v].pc \in {"opened", "written", "staged"} =>
                          MdTmpOf(v)' \in DOMAIN mdTmp'
                    /\ mdAt'[v].pc = "opened" => mdAt'[v].fd = mdTmp'[MdTmpOf(v)']
                    /\ mdAt'[v].pc \in {"written", "staged"} =>
                          mdInode'[mdTmp'[MdTmpOf(v)']] = MdNew(v)'
  BY DEF DcStaged
<1>1. "alike" \notin mdClash
  BY DcNoteGrows
<1>2. DcMoves(w)
  BY DcStepPlaced
<1>3. v \in DOMAIN mdAt
  BY <1>2 DEF DcMoves
<1>4. /\ mdAt[v].pc \in {"opened", "written", "staged"} => MdTmpOf(v) \in DOMAIN mdTmp
      /\ mdAt[v].pc = "opened" => mdAt[v].fd = mdTmp[MdTmpOf(v)]
      /\ mdAt[v].pc \in {"written", "staged"} => mdInode[mdTmp[MdTmpOf(v)]] = MdNew(v)
  BY <1>1, <1>3 DEF DcStaged
<1>5. CASE v # w
  <2>1. mdAt'[v] = mdAt[v] /\ MdTmpOf(v)' = MdTmpOf(v) /\ MdNew(v)' = MdNew(v)
    BY <1>2, <1>3, <1>5, DcOthersTmp
  <2>2. CASE mdAt[v].pc \notin {"opened", "written", "staged"}
    BY <2>1, <2>2
  <2>3. CASE mdAt[v].pc \in {"opened", "written", "staged"}
    <3>1. DcTmpSame(MdTmpOf(v))
      <4> SUFFICES ASSUME mdAt[w].pc \in {"read", "opened", "written", "staged"},
                          mdAt[w].kind \in DcStagedKinds, MdTmpOf(v) = MdTmpOf(w)
                   PROVE  FALSE
        BY DcTmpTouched
      <4>1. mdAt[v].path = mdAt[w].path /\ MdStages(v) = MdStages(w)
        BY DEF MdTmpOf
      <4>2. MdAtWork(v)
        <5>1. DcShaped(v, mdAt[v])
          BY <1>3, DcSides
        <5> QED BY <2>3, <5>1 DEF MdAtWork, MdInProgress, DcShaped
      <4>3. MdAtWork(w)
        BY DEF MdAtWork, MdInProgress, DcStagedKinds
      <4>4. mdAt[v].path \in MdTouches(v) /\ mdAt[v].path \in MdTouches(w)
        BY <4>1 DEF MdTouches
      <4>5. MdClashes(v, w) \subseteq mdClash
        BY <1>3, <1>5, <4>2, <4>3, <4>4, DcMeet
      <4> QED BY <1>1, <4>1, <4>5 DEF MdClashes
    <3> QED BY <2>1, <2>3, <3>1, <1>4 DEF DcTmpSame
  <2> QED BY <2>2, <2>3
<1>6. CASE v = w
  <2>1. CASE DcCalm(w)
    BY <1>6, <2>1, DcIsQuiet DEF DcQuiet
  <2>2. CASE DcMakes(w)
    BY <1>6, <2>2 DEF DcMakes, DcOpens, DcStays, DcPut
  <2>3. CASE DcCuts(w)
    BY <1>6, <2>3 DEF DcCuts, DcOpens, DcStays, DcPut
  <2>4. CASE DcFills(w)
    BY <1>6, <2>4 DEF DcFills, DcGoes
  <2>5. CASE DcNotes(w)
    BY <1>6, <2>5 DEF DcNotes, DcSucceeds, DcGoes
  <2>6. CASE DcReplaces(w)
    BY <1>6, <2>6 DEF DcReplaces, DcGoes
  <2>7. CASE DcOpensTmp(w)
    <3>1. mdAt'[w].pc = "opened" /\ MdTmpOf(w)' = MdTmpOf(w)
      BY <2>7 DEF DcOpensTmp, DcStays, DcPut, MdTmpOf, MdStages
    <3> QED BY <1>6, <2>7, <3>1, DcOpensTmpSame
  <2>8. CASE DcWrites(w)
    <3>1. /\ mdAt'[w].pc \in {"written", "staged"} /\ MdTmpOf(w)' = MdTmpOf(w)
          /\ MdNew(w)' = MdNew(w)
      <4>1. /\ mdAt'[w].pc \in {"written", "staged"}
            /\ mdAt'[w].kind = mdAt[w].kind /\ mdAt'[w].path = mdAt[w].path
            /\ mdAt'[w].read = mdAt[w].read
        BY <2>8 DEF DcWrites, DcGoes, DcOver
      <4> QED BY <4>1 DEF MdTmpOf, MdStages, MdNew
    <3>2. /\ mdTmp' = mdTmp /\ mdDoc' = mdDoc /\ DcStored(mdAt[w].fd, MdNew(w))
          /\ mdAt[w].pc = "opened"
      BY <2>8 DEF DcWrites
    <3>3. MdTmpOf(w) \in DOMAIN mdTmp /\ mdAt[w].fd = mdTmp[MdTmpOf(w)]
      BY <1>4, <1>6, <3>2
    <3>4. mdInode'[mdTmp'[MdTmpOf(w)]] = MdNew(w)
      BY <3>2, <3>3, DcStoresSame
    <3> QED BY <1>6, <3>1, <3>2, <3>3, <3>4
  <2>9. CASE DcValidates(w)
    <3>1. CASE DcGoes(w, "staged") /\ mdTmp' = mdTmp
      <4>1. /\ mdAt'[w].pc = "staged"
            /\ mdAt'[w].kind = mdAt[w].kind /\ mdAt'[w].path = mdAt[w].path
            /\ mdAt'[w].read = mdAt[w].read
        BY <3>1 DEF DcGoes, DcOver
      <4>2. MdTmpOf(w)' = MdTmpOf(w) /\ MdNew(w)' = MdNew(w)
        BY <4>1 DEF MdTmpOf, MdStages, MdNew
      <4>3. DcTmpSame(MdTmpOf(w))
        BY <2>9, <3>1, DcValidatesSame
      <4> QED BY <1>4, <1>6, <2>9, <4>1, <4>2, <4>3 DEF DcValidates, DcTmpSame
    <3>2. CASE DcRefuses(w)
      BY <1>6, <3>2 DEF DcRefuses, DcGoes
    <3> QED BY <2>9, <3>1, <3>2 DEF DcValidates
  <2>10. CASE DcSwaps(w)
    <3>1. \/ DcGoes(w, "enriching") \/ DcGoes(w, "titling") \/ DcGoes(w, "moved")
          \/ DcSucceeds(w) \/ DcRefuses(w)
      BY <2>10 DEF DcSwaps
    <3> QED BY <1>6, <3>1 DEF DcRefuses, DcSucceeds, DcGoes
  <2>11. CASE DcMovesDoc(w)
    <3>1. DcSucceeds(w) \/ DcRefuses(w)
      BY <2>11 DEF DcMovesDoc
    <3> QED BY <1>6, <3>1 DEF DcRefuses, DcSucceeds, DcGoes
  <2>12. CASE DcDies(w)
    BY <1>6, <2>12 DEF DcDies, DcGoes, DcStays, DcPut
  <2> QED BY <2>1, <2>2, <2>3, <2>4, <2>5, <2>6, <2>7, <2>8, <2>9, <2>10, <2>11, <2>12,
             DcCalmOrFiling DEF DcFiling
<1> QED BY <1>5, <1>6

-----------------------------------------------------------------------------
(* Names and comparisons *)

\* Which file a name may have after a step.
LEMMA DcDocInode ==
    ASSUME DcPlaced, DcFiled, DcFiled', NEW w \in DOMAIN mdAt, DcStep(w), NEW p \in DOMAIN mdDoc'
    PROVE  \/ p \in DOMAIN mdDoc /\ mdDoc'[p] = mdDoc[p]
           \/ mdDoc'[p] \notin MdInUse
           \/ /\ DcSwaps(w) /\ p = mdAt[w].path /\ MdTmpOf(w) \in DOMAIN mdTmp
              /\ mdDoc'[p] = mdTmp[MdTmpOf(w)]
           \/ /\ DcMovesDoc(w) /\ p = mdAt[w].target /\ mdAt[w].path \in DOMAIN mdDoc
              /\ mdDoc'[p] = mdDoc[mdAt[w].path]
<1>1. DcDocSame(p) => p \in DOMAIN mdDoc /\ mdDoc'[p] = mdDoc[p]
  BY DEF DcDocSame
<1>2. CASE DcCalm(w)
  BY <1>1, <1>2, DcIsQuiet, DcQuietSame
<1>3. CASE DcMakes(w) \/ DcCuts(w)
  <2>1. CASE p = mdAt[w].path
    BY <1>3, <2>1, DcOpensSame DEF DcMakes, DcCuts
  <2>2. CASE p # mdAt[w].path
    BY <1>1, <1>3, <2>2, DcOpensSame DEF DcMakes, DcCuts
  <2> QED BY <2>1, <2>2
<1>4. CASE DcFills(w) \/ DcNotes(w) \/ DcWrites(w) \/ DcValidates(w) \/ DcOpensTmp(w) \/ DcDies(w)
  BY <1>4 DEF DcFills, DcNotes, DcWrites, DcValidates, DcOpensTmp, DcDies
<1>5. CASE DcReplaces(w)
  <2>1. CASE p = mdAt[w].path
    BY <1>5, <2>1, DcReplacesSame
  <2>2. CASE p # mdAt[w].path
    BY <1>1, <1>5, <2>2, DcReplacesSame
  <2> QED BY <2>1, <2>2
<1>6. CASE DcSwaps(w)
  <2>1. CASE MdTmpOf(w) \notin DOMAIN mdTmp
    BY <1>1, <1>6, <2>1, DcFailsSame
  <2>2. CASE MdTmpOf(w) \in DOMAIN mdTmp
    BY <1>1, <1>6, <2>2, DcSwapsSame
  <2> QED BY <2>1, <2>2
<1>7. CASE DcMovesDoc(w)
  <2>1. CASE mdAt[w].path \notin DOMAIN mdDoc
    BY <1>1, <1>7, <2>1, DcFailsSame
  <2>2. CASE mdAt[w].path \in DOMAIN mdDoc
    <3>1. p = mdAt[w].path => p = mdAt[w].target
      BY <1>7, <2>2, DcMovesSame
    <3>2. CASE p = mdAt[w].target
      BY <1>7, <2>2, <3>2, DcMovesSame
    <3>3. CASE p # mdAt[w].target
      BY <1>1, <1>7, <2>2, <3>1, <3>3, DcMovesSame
    <3> QED BY <3>2, <3>3
  <2> QED BY <2>1, <2>2
<1> QED BY <1>2, <1>3, <1>4, <1>5, <1>6, <1>7, DcCalmOrFiling DEF DcFiling

\* Who has a file open is at work.
LEMMA DcOpenAtWork ==
    ASSUME DcPlaced, NEW v \in DOMAIN mdAt, mdAt[v].fd # 0
    PROVE  MdAtWork(v) /\ mdAt[v].pc \in {"made", "opened", "cut"}
<1>1. DcShaped(v, mdAt[v])
  BY DcSides
<1>2. mdAt[v].pc \in {"made", "opened", "cut"}
  BY <1>1 DEF DcShaped
<1>3. mdAt[v].kind # "resummarize"
  BY <1>1, <1>2 DEF DcShaped
<1> QED BY <1>2, <1>3 DEF MdAtWork, MdInProgress

\* A rename that meets somebody.
LEMMA DcRenameMeets ==
    ASSUME DcPlaced, DcNoted, NEW v \in DOMAIN mdAt, NEW w \in DOMAIN mdAt, v # w,
           mdAt[w].pc = "target", MdAtWork(v), NEW p,
           p \in MdTouches(v), p \in MdTouches(w)
    PROVE  "renamed" \in mdClash
<1>1. mdAt[w].kind = "rename"
  BY DcSides DEF DcShaped
<1>2. MdAtWork(w)
  BY <1>1 DEF MdAtWork, MdInProgress
<1>3. MdClashes(w, v) \subseteq mdClash
  BY <1>2, DcMeet
<1> QED BY <1>1, <1>3 DEF MdClashes

\* A file that is open keeps its name.
LEMMA DcOpenedStep ==
    ASSUME DcPlaced, DcFiled, DcPlaced', DcFiled', DcNoted, DcOpened, NEW w \in DOMAIN mdAt,
           DcStep(w), MdNote
    PROVE  DcOpened'
<1> SUFFICES ASSUME "renamed" \notin mdClash', NEW v \in DOMAIN mdAt', NEW p \in DOMAIN mdDoc',
                    mdAt'[v].fd = mdDoc'[p]
             PROVE  p = mdAt'[v].path
  BY DEF DcOpened
<1>1. DcMoves(w)
  BY DcStepPlaced
<1>2. v \in DOMAIN mdAt
  BY <1>1 DEF DcMoves
<1>3. mdAt'[v].fd # 0
  BY DcConstants DEF DcFiled
<1>4. "renamed" \notin mdClash
  BY DcNoteGrows
<1>5. CASE v # w
  <2>1. mdAt'[v] = mdAt[v]
    BY <1>1, <1>2, <1>5 DEF DcMoves
  <2>2. MdAtWork(v) /\ mdAt[v].fd \in MdInUse
    BY <1>2, <1>3, <2>1, DcOpenAtWork, DcUsed
  <2>3. CASE p \in DOMAIN mdDoc /\ mdDoc'[p] = mdDoc[p]
    BY <1>2, <1>4, <2>1, <2>3 DEF DcOpened
  <2>4. CASE mdDoc'[p] \notin MdInUse
    BY <2>1, <2>2, <2>4
  <2>5. CASE /\ DcSwaps(w) /\ p = mdAt[w].path /\ MdTmpOf(w) \in DOMAIN mdTmp
             /\ mdDoc'[p] = mdTmp[MdTmpOf(w)]
    <3>1. MdTmpOf(v) = MdTmpOf(w)
      BY <1>2, <2>1, <2>5 DEF DcFiled
    <3> QED BY <2>1, <2>5, <3>1 DEF MdTmpOf
  <2>6. CASE /\ DcMovesDoc(w) /\ p = mdAt[w].target /\ mdAt[w].path \in DOMAIN mdDoc
             /\ mdDoc'[p] = mdDoc[mdAt[w].path]
    <3>1. mdAt[w].path \in MdTouches(v) /\ mdAt[w].path \in MdTouches(w)
      BY <2>1, <2>6 DEF MdTouches
    <3>2. mdAt[w].pc = "target"
      BY <2>6 DEF DcMovesDoc
    <3> QED BY <1>2, <1>4, <1>5, <2>2, <3>1, <3>2, DcRenameMeets
  <2> QED BY <2>3, <2>4, <2>5, <2>6, DcDocInode
<1>6. CASE v = w
  <2>1. CASE DcCalm(w)
    BY <1>3, <1>6, <2>1, DcIsQuiet DEF DcQuiet
  <2>2. CASE DcMakes(w) \/ DcCuts(w)
    <3>1. mdAt'[w].path = mdAt[w].path
      BY <2>2 DEF DcMakes, DcCuts, DcOpens, DcStays, DcPut
    <3>2. mdAt[w].path \in DOMAIN mdDoc' /\ mdAt'[w].fd = mdDoc'[mdAt[w].path]
      BY <2>2, DcOpensSame DEF DcMakes, DcCuts
    <3> QED BY <1>6, <3>1, <3>2 DEF DcFiled
  <2>3. CASE DcOpensTmp(w)
    <3>1. MdTmpOf(w) \in DOMAIN mdTmp' /\ mdAt'[w].fd = mdTmp'[MdTmpOf(w)]
      BY <2>3, DcOpensTmpSame
    <3> QED BY <1>6, <3>1 DEF DcFiled
  <2> QED BY <1>3, <1>6, <2>1, <2>2, <2>3, DcEndsClosed, DcCalmOrFiling DEF DcFiling
<1> QED BY <1>5, <1>6

\* A comparison holds until the swap.
LEMMA DcComparedStep ==
    ASSUME DcPlaced, DcFiled, DcFiled', DcNoted, DcCompared, NEW w \in DOMAIN mdAt, DcStep(w),
           MdNote
    PROVE  DcCompared'
<1> SUFFICES ASSUME NEW v \in DOMAIN mdAt', mdAt'[v].pc = "window", v \notin mdMet'
             PROVE  MdUnchanged(v)'
  BY DEF DcCompared
<1>1. DcMoves(w)
  BY DcStepPlaced
<1>2. v \in DOMAIN mdAt /\ v \notin mdMet
  BY <1>1, DcNoteGrows DEF DcMoves
<1>3. CASE v # w
  <2>1. mdAt'[v] = mdAt[v] /\ mdAt[v].pc = "window"
    BY <1>1, <1>2, <1>3 DEF DcMoves
  <2>2. MdUnchanged(v)
    BY <1>2, <2>1 DEF DcCompared
  <2>3. DcDocSame(mdAt[v].path)
    <3> SUFFICES ASSUME MdAtWork(w), mdAt[v].path \in MdTouches(w) PROVE FALSE
      BY DcDocTouched
    <3>1. MdAtWork(v) /\ mdAt[v].path \in MdTouches(v)
      BY <2>1 DEF MdAtWork, MdInProgress, MdTouches
    <3> QED BY <1>2, <1>3, <3>1, DcMeet
  <2> QED BY <2>1, <2>2, <2>3 DEF MdUnchanged, MdExists, MdContentAt, DcDocSame
<1>4. CASE v = w
  <2>1. DcComparesAgain(w)
    <3>1. CASE DcComparesAgain(w)
      BY <3>1
    <3>2. CASE DcResolves(w) \/ DcRecords(w) \/ DcEnriches(w) \/ DcRetries(w) \/ DcTitles(w)
      BY <1>4, <3>2 DEF DcResolves, DcRecords, DcEnriches, DcRetries, DcTitles, DcPut, DcGoes,
                        DcStays
    <3>3. CASE DcSettles(w) \/ DcReads(w) \/ DcTargets(w)
      BY <1>4, <3>3 DEF DcSettles, DcReads, DcTargets, DcPut, DcGoes, DcStays
    <3>4. CASE DcSavesNot(w) \/ DcCompares(w) \/ DcCopies(w) \/ DcPrunes(w)
      BY <1>4, <3>4 DEF DcSavesNot, DcCompares, DcCopies, DcPrunes, DcRefuses, DcSucceeds, DcPut,
                        DcGoes
    <3>5. CASE DcMakes(w) \/ DcCuts(w) \/ DcOpensTmp(w)
      BY <1>4, <3>5 DEF DcMakes, DcCuts, DcOpensTmp, DcOpens, DcStays, DcPut
    <3>6. CASE DcFills(w) \/ DcNotes(w) \/ DcReplaces(w) \/ DcWrites(w) \/ DcDies(w)
      BY <1>4, <3>6 DEF DcFills, DcNotes, DcReplaces, DcWrites, DcDies, DcSucceeds, DcGoes,
                        DcStays, DcPut
    <3>7. CASE DcValidates(w) \/ DcSwaps(w) \/ DcMovesDoc(w)
      <4>1. \/ DcGoes(w, "staged") \/ DcGoes(w, "enriching") \/ DcGoes(w, "titling")
            \/ DcGoes(w, "moved") \/ DcSucceeds(w) \/ DcRefuses(w)
        BY <3>7 DEF DcValidates, DcSwaps, DcMovesDoc
      <4> QED BY <1>4, <4>1 DEF DcRefuses, DcSucceeds, DcGoes
    <3> QED BY <3>1, <3>2, <3>3, <3>4, <3>5, <3>6, <3>7, DcCalmOrFiling DEF DcCalm, DcFiling
  <2>2. MdUnchanged(w) /\ DcGoes(w, "window")
    <3>1. ~DcRefuses(w)
      BY <1>4 DEF DcRefuses, DcGoes
    <3> QED BY <2>1, <3>1 DEF DcComparesAgain
  <2>3. mdAt'[w].path = mdAt[w].path /\ mdAt'[w].read = mdAt[w].read /\ UNCHANGED mdFiles
    BY <2>1, <2>2 DEF DcGoes, DcOver, DcComparesAgain
  <2> QED BY <1>4, <2>2, <2>3 DEF MdUnchanged, MdExists, MdContentAt, mdFiles
<1> QED BY <1>3, <1>4

-----------------------------------------------------------------------------
(* Documents are whole *)

\* Who has died has died.
LEMMA DcDiedGrows ==
    ASSUME NEW w \in DOMAIN mdAt, DcPlaced, DcStep(w), NEW pcs
    PROVE  MdDied(pcs) \subseteq MdDied(pcs)'
BY DcStepPlaced, DcCrashGrows DEF MdDied, DcMoves

\* Nor is half a document that was met forgotten.
LEMMA DcTornGrows ==
    ASSUME NEW w \in DOMAIN mdAt, DcPlaced, DcStep(w), MdNote, ~DcTorn'
    PROVE  ~DcTorn
<1>1. MdDied({"made", "cut"}) \subseteq MdDied({"made", "cut"})'
  BY DcDiedGrows
<1>2. mdClash \subseteq mdClash'
  BY DcNoteGrows
<1> QED BY <1>1, <1>2 DEF DcTorn

\* What a step writes.
LEMMA DcInodeValues ==
    ASSUME DcPlaced, DcFiled, NEW w \in DOMAIN mdAt, DcStep(w), NEW k \in DOMAIN mdInode'
    PROVE  \/ k \in DOMAIN mdInode /\ mdInode'[k] = mdInode[k]
           \/ mdInode'[k] = MdTorn
           \/ mdInode'[k] = MdNew(w) /\ mdAt[w].pc \in {"made", "cut", "window", "opened"}
<1>1. DOMAIN mdInode = MdInUse
  BY DEF DcFiled
<1>2. ASSUME DcStored(0, MdTorn) PROVE k \in DOMAIN mdInode /\ mdInode'[k] = mdInode[k]
  <2>1. k # 0 /\ k \in MdInUse'
    BY <1>2 DEF DcStored, MdInUse
  <2> QED BY <1>1, <1>2, <2>1 DEF DcStored
<1>3. ASSUME NEW i, DcStored(i, MdTorn)
      PROVE  \/ k \in DOMAIN mdInode /\ mdInode'[k] = mdInode[k]
             \/ mdInode'[k] = MdTorn
  BY <1>1, <1>3 DEF DcStored
<1>4. ASSUME NEW i, DcStored(i, MdNew(w))
      PROVE  \/ k \in DOMAIN mdInode /\ mdInode'[k] = mdInode[k]
             \/ mdInode'[k] = MdNew(w)
  BY <1>1, <1>4 DEF DcStored
<1>5. CASE DcCalm(w)
  BY <1>5, DcIsQuiet DEF DcQuiet, mdFiles
<1>6. CASE DcMakes(w) \/ DcCuts(w)
  <2>1. PICK i \in 1..MdInodes : DcStored(i, MdTorn)
    BY <1>6 DEF DcMakes, DcCuts, DcOpens
  <2> QED BY <1>3, <2>1
<1>7. CASE DcOpensTmp(w)
  <2>1. PICK i \in 1..MdInodes : DcStored(i, MdTorn)
    BY <1>7 DEF DcOpensTmp
  <2> QED BY <1>3, <2>1
<1>8. CASE DcFills(w) \/ DcNotes(w) \/ DcWrites(w)
  <2>1. DcStored(mdAt[w].fd, MdNew(w)) /\ mdAt[w].pc \in {"made", "cut", "window", "opened"}
    BY <1>8 DEF DcFills, DcNotes, DcWrites
  <2> QED BY <1>4, <2>1
<1>9. CASE DcReplaces(w)
  <2>1. PICK i \in 1..MdInodes : DcStored(i, MdNew(w))
    BY <1>9 DEF DcReplaces
  <2>2. mdAt[w].pc = "window"
    BY <1>9 DEF DcReplaces
  <2> QED BY <1>4, <2>1, <2>2
<1>10. CASE DcValidates(w) \/ DcSwaps(w) \/ DcMovesDoc(w) \/ DcDies(w)
  BY <1>2, <1>10 DEF DcValidates, DcSwaps, DcMovesDoc, DcDies
<1> QED BY <1>5, <1>6, <1>7, <1>8, <1>9, <1>10, DcCalmOrFiling DEF DcFiling

\* An edit between its reading and its writing.
DcInEdit == {"read", "opened", "written", "staged", "cut", "backup", "copied", "window"}

\* Where what a writer has read comes from.
LEMMA DcReadFrom ==
    ASSUME NEW w, DcStep(w), mdAt'[w].pc \in DcInEdit,
           mdAt'[w].kind \notin {"transcript", "enrich"}
    PROVE  \/ /\ mdAt[w].pc \in DcInEdit /\ mdAt'[w].kind = mdAt[w].kind
              /\ mdAt'[w].read = mdAt[w].read /\ mdAt'[w].path = mdAt[w].path
           \/ /\ DcTitles(w) /\ MdExists(mdAt[w].path) /\ MdContentAt(mdAt[w].path) # MdTorn
              /\ mdAt'[w].pc = "read" /\ mdAt'[w].kind = "rename"
              /\ mdAt'[w].path = mdAt[w].path /\ mdAt'[w].read = MdContentAt(mdAt[w].path)
           \/ DcReads(w)
<1>1. CASE DcResolves(w) \/ DcRecords(w) \/ DcSettles(w)
  BY <1>1 DEF DcResolves, DcRecords, DcSettles, DcPut, DcGoes, DcInEdit
<1>2. CASE DcEnriches(w) \/ DcRetries(w)
  BY <1>2 DEF DcEnriches, DcRetries, DcStays, DcPut, DcInEdit
<1>3. CASE DcTitles(w)
  BY <1>3 DEF DcTitles, DcPut, DcGoes, DcInEdit
<1>4. CASE DcTargets(w)
  BY <1>4 DEF DcTargets, DcStays, DcPut, DcInEdit
<1>5. CASE DcSavesNot(w)
  BY <1>5 DEF DcSavesNot, DcRefuses, DcGoes, DcInEdit
<1>6. CASE DcCompares(w)
  BY <1>6 DEF DcCompares, DcRefuses, DcGoes, DcPut, DcInEdit
<1>7. CASE DcCopies(w)
  BY <1>7 DEF DcCopies, DcRefuses, DcGoes, DcOver, DcInEdit
<1>8. CASE DcComparesAgain(w)
  BY <1>8 DEF DcComparesAgain, DcRefuses, DcGoes, DcOver, DcInEdit
<1>9. CASE DcPrunes(w) \/ DcNotes(w)
  BY <1>9 DEF DcPrunes, DcNotes, DcSucceeds, DcGoes, DcInEdit
<1>10. CASE DcMakes(w)
  BY <1>10 DEF DcMakes, DcOpens, DcStays, DcPut, DcInEdit
<1>11. CASE DcCuts(w)
  BY <1>11 DEF DcCuts, DcOpens, DcStays, DcPut, DcInEdit
<1>12. CASE DcOpensTmp(w)
  BY <1>12 DEF DcOpensTmp, DcStays, DcPut, DcInEdit
<1>13. CASE DcFills(w) \/ DcReplaces(w)
  BY <1>13 DEF DcFills, DcReplaces, DcGoes, DcInEdit
<1>14. CASE DcWrites(w)
  BY <1>14 DEF DcWrites, DcGoes, DcOver, DcInEdit
<1>15. CASE DcValidates(w)
  <2>1. DcGoes(w, "staged") \/ DcRefuses(w)
    BY <1>15 DEF DcValidates
  <2> QED BY <1>15, <2>1 DEF DcValidates, DcRefuses, DcGoes, DcOver, DcInEdit
<1>16. CASE DcSwaps(w)
  <2>1. \/ DcGoes(w, "enriching") \/ DcGoes(w, "titling") \/ DcGoes(w, "moved")
        \/ DcSucceeds(w) \/ DcRefuses(w)
    BY <1>16 DEF DcSwaps
  <2> QED BY <2>1 DEF DcRefuses, DcSucceeds, DcGoes, DcInEdit
<1>17. CASE DcMovesDoc(w)
  <2>1. DcSucceeds(w) \/ DcRefuses(w)
    BY <1>17 DEF DcMovesDoc
  <2> QED BY <2>1 DEF DcRefuses, DcSucceeds, DcGoes, DcInEdit
<1>18. CASE DcDies(w)
  BY <1>18 DEF DcDies, DcGoes, DcStays, DcPut, DcInEdit
<1> QED BY <1>1, <1>2, <1>3, <1>4, <1>5, <1>6, <1>7, <1>8, <1>9, <1>10, <1>11, <1>12, <1>13,
           <1>14, <1>15, <1>16, <1>17, <1>18, DcCalmOrFiling
        DEF DcCalm, DcFiling

\* What is written from a whole document is whole.
LEMMA DcNewWhole ==
    ASSUME DcPlaced, DcWhole, ~DcTorn, NEW w \in DOMAIN mdAt,
           mdAt[w].pc \in {"made", "cut", "window", "opened", "written", "staged"}
    PROVE  MdNew(w).of # MdNone /\ MdNew(w) # MdTorn
<1>1. DcShaped(w, mdAt[w]) /\ w # MdNone
  BY DcSides, DcConstants DEF DcPlaced
<1>2. CASE mdAt[w].kind \in {"create", "transcript", "enrich"}
  BY <1>1, <1>2, DcNew, DcConstants
<1>3. CASE mdAt[w].kind \notin {"create", "transcript", "enrich"}
  <2>1. DcReading(w)
    BY <1>1, <1>3 DEF DcReading, DcShaped
  <2>2. mdAt[w].read.of # MdNone
    BY <2>1 DEF DcWhole
  <2> QED BY <1>3, <2>2, DcNew, DcConstants
<1> QED BY <1>2, <1>3

\* Who reads half a document has met its writer.
LEMMA DcReadsTorn ==
    ASSUME DcPlaced, DcFiled, DcPlaced', DcNoted', NEW w \in DOMAIN mdAt,
           DcStep(w), DcReads(w), MdNote,
           NEW v \in DOMAIN mdAt, v # w, mdAt[v].pc \in {"made", "cut"},
           NEW p \in DOMAIN mdDoc, mdAt[v].fd = mdDoc[p], mdAt'[w].path = p,
           mdAt'[w].kind \in {"annotate", "save"}
    PROVE  "cut" \in mdClash'
<1>1. DcQuiet(w)
  BY DcIsQuiet DEF DcCalm
<1>2. mdAt'[v] = mdAt[v] /\ DOMAIN mdAt' = DOMAIN mdAt /\ mdDoc' = mdDoc
  BY <1>1 DEF DcQuiet, DcMoves, mdFiles
<1>3. mdAt[v].kind \in {"create", "annotate"}
  BY DcSides DEF DcShaped
<1>4. mdAt'[w].pc = "read"
  BY DEF DcReads, DcPut
<1>5. MdAtWork(v)' /\ MdAtWork(w)'
  BY <1>2, <1>3, <1>4 DEF MdAtWork, MdInProgress
<1>6. p \in MdTouches(v)' /\ p \in MdTouches(w)'
  BY <1>2 DEF MdTouches
<1>7. MdClashes(v, w)' \subseteq mdClash'
  <2>1. v \in DOMAIN mdAt' /\ w \in DOMAIN mdAt' /\ (MdTouches(v) \cap MdTouches(w))' # {}
    BY <1>2, <1>6
  <2> QED BY <1>5, <2>1 DEF DcNoted
<1> QED BY <1>2, <1>3, <1>7 DEF MdClashes

\* Documents stay whole.
LEMMA DcWholeStep ==
    ASSUME DcPlaced, DcFiled, DcPlaced', DcFiled', DcNoted, DcNoted', DcStaged, DcWhole,
           NEW w \in DOMAIN mdAt, DcStep(w), MdNote
    PROVE  DcWhole'
<1> SUFFICES ASSUME ~DcTorn'
             PROVE  /\ \A i \in DOMAIN mdInode' : mdInode'[i].of = MdNone => mdInode'[i] = MdTorn
                    /\ \A v \in DOMAIN mdAt' : DcReading(v)' => mdAt'[v].read.of # MdNone
                    /\ \A p \in DOMAIN mdDoc' : mdInode'[mdDoc'[p]] = MdTorn =>
                          \E v \in DOMAIN mdAt' :
                              mdAt'[v].fd = mdDoc'[p] /\ mdAt'[v].pc \in {"made", "cut"}
  BY DEF DcWhole, MdContentAt
<1>1. ~DcTorn
  BY DcTornGrows
<1>2. /\ \A i \in DOMAIN mdInode : mdInode[i].of = MdNone => mdInode[i] = MdTorn
      /\ \A v \in DOMAIN mdAt : DcReading(v) => mdAt[v].read.of # MdNone
      /\ \A p \in DOMAIN mdDoc : mdInode[mdDoc[p]] = MdTorn =>
            \E v \in DOMAIN mdAt : mdAt[v].fd = mdDoc[p] /\ mdAt[v].pc \in {"made", "cut"}
  BY <1>1 DEF DcWhole, MdContentAt
<1>3. DcMoves(w)
  BY DcStepPlaced
<1>4. ASSUME NEW i \in DOMAIN mdInode', mdInode'[i].of = MdNone PROVE mdInode'[i] = MdTorn
  BY <1>1, <1>2, <1>4, DcInodeValues, DcNewWhole
<1>5. ASSUME NEW p \in DOMAIN mdDoc PROVE mdDoc[p] \in DOMAIN mdInode
  BY DcUsed DEF DcFiled
<1>6. ASSUME NEW v \in DOMAIN mdAt', DcReading(v)' PROVE mdAt'[v].read.of # MdNone
  <2>1. CASE v # w
    <3>1. v \in DOMAIN mdAt /\ mdAt'[v] = mdAt[v]
      BY <1>3, <2>1 DEF DcMoves
    <3> QED BY <1>2, <1>6, <3>1 DEF DcReading
  <2>2. CASE v = w
    <3>1. mdAt'[w].pc \in DcInEdit /\ mdAt'[w].kind \notin {"transcript", "enrich"}
      BY <1>6, <2>2 DEF DcReading, DcInEdit
    <3>2. CASE /\ mdAt[w].pc \in DcInEdit /\ mdAt'[w].kind = mdAt[w].kind
               /\ mdAt'[w].read = mdAt[w].read
      BY <1>2, <2>2, <3>1, <3>2 DEF DcReading, DcInEdit
    <3>3. CASE /\ MdExists(mdAt[w].path) /\ MdContentAt(mdAt[w].path) # MdTorn
               /\ mdAt'[w].read = MdContentAt(mdAt[w].path)
      BY <1>2, <1>5, <2>2, <3>3 DEF MdExists, MdContentAt
    <3>4. CASE DcReads(w)
      <4>1. PICK kind \in {"rename", "save", "update", "annotate", "resummarize"},
                 p \in DOMAIN mdDoc :
                /\ MdContentAt(p).of # MdNone \/ kind \in {"annotate", "save"}
                /\ DcPut(w, "read", kind, p, MdContentAt(p), mdAt[w].fd, mdAt[w].second)
        BY <3>4 DEF DcReads
      <4>2. mdAt'[w].read = MdContentAt(p) /\ mdAt'[w].kind = kind /\ mdAt'[w].path = p
        BY <4>1 DEF DcPut
      <4>3. SUFFICES ASSUME MdContentAt(p).of = MdNone PROVE FALSE
        BY <2>2, <4>2
      <4>4. mdInode[mdDoc[p]] = MdTorn
        BY <1>2, <1>5, <4>3 DEF MdContentAt
      <4>5. PICK u \in DOMAIN mdAt : mdAt[u].fd = mdDoc[p] /\ mdAt[u].pc \in {"made", "cut"}
        BY <1>2, <4>4
      <4>6. u # w
        BY <3>4, <4>5 DEF DcReads
      <4>7. "cut" \in mdClash'
        BY <3>4, <4>1, <4>2, <4>3, <4>5, <4>6, DcReadsTorn
      <4> QED BY <4>7 DEF DcTorn
    <3> QED BY <3>1, <3>2, <3>3, <3>4, DcReadFrom
  <2> QED BY <2>1, <2>2
<1>7. ASSUME NEW p \in DOMAIN mdDoc', mdInode'[mdDoc'[p]] = MdTorn
      PROVE  \E v \in DOMAIN mdAt' : mdAt'[v].fd = mdDoc'[p] /\ mdAt'[v].pc \in {"made", "cut"}
  \* Somebody else who had the file open has it open.
  <2>1. ASSUME NEW q \in DOMAIN mdDoc, mdDoc'[p] = mdDoc[q], mdInode[mdDoc[q]] = MdTorn,
               mdAt[w].pc \notin {"made", "cut"} \/ mdAt[w].fd # mdDoc[q]
        PROVE  \E v \in DOMAIN mdAt' : mdAt'[v].fd = mdDoc'[p] /\ mdAt'[v].pc \in {"made", "cut"}
    <3>1. PICK v \in DOMAIN mdAt : mdAt[v].fd = mdDoc[q] /\ mdAt[v].pc \in {"made", "cut"}
      BY <1>2, <2>1
    <3>2. mdAt'[v] = mdAt[v] /\ v \in DOMAIN mdAt'
      BY <1>3, <2>1, <3>1 DEF DcMoves
    <3> QED BY <2>1, <3>1, <3>2
  <2>2. ASSUME DcDocSame(p), mdAt[w].pc \notin {"made", "cut"} \/ mdAt[w].fd # mdDoc[p]
        PROVE  \E v \in DOMAIN mdAt' : mdAt'[v].fd = mdDoc'[p] /\ mdAt'[v].pc \in {"made", "cut"}
    BY <1>7, <2>1, <2>2 DEF DcDocSame
  <2>3. CASE DcCalm(w)
    BY <2>2, <2>3, DcIsQuiet, DcQuietSame DEF DcQuiet
  <2>4. CASE DcMakes(w) \/ DcCuts(w)
    <3>1. CASE p = mdAt[w].path
      <4>1. mdAt'[w].fd = mdDoc'[p]
        BY <2>4, <3>1, DcOpensSame DEF DcMakes, DcCuts
      <4>2. mdAt'[w].pc \in {"made", "cut"}
        BY <2>4 DEF DcMakes, DcCuts, DcOpens, DcStays, DcPut
      <4> QED BY <1>3, <4>1, <4>2 DEF DcMoves
    <3>2. CASE p # mdAt[w].path
      <4>1. DcDocSame(p)
        BY <2>4, <3>2, DcOpensSame DEF DcMakes, DcCuts
      <4> QED BY <2>2, <2>4, <4>1 DEF DcMakes, DcCuts
    <3> QED BY <3>1, <3>2
  <2>5. CASE DcFills(w) \/ DcNotes(w) \/ DcWrites(w)
    <3>1. /\ mdDoc' = mdDoc /\ mdTmp' = mdTmp /\ DcStored(mdAt[w].fd, MdNew(w))
          /\ mdAt[w].pc \in {"made", "cut", "opened"}
      BY <2>5 DEF DcFills, DcNotes, DcWrites
    <3>2. mdDoc[p] # mdAt[w].fd
      <4>1. MdNew(w) # MdTorn
        BY <1>1, <3>1, DcNewWhole
      <4> QED BY <1>7, <3>1, <4>1, DcStoresSame
    <3>3. DcDocSame(p)
      BY <3>1, <3>2, DcStoresSame
    <3> QED BY <2>2, <3>2, <3>3
  <2>6. CASE DcReplaces(w)
    <3>1. mdAt[w].pc = "window"
      BY <2>6 DEF DcReplaces
    <3>2. MdNew(w) # MdTorn
      BY <1>1, <3>1, DcNewWhole
    <3>3. p # mdAt[w].path
      BY <1>7, <2>6, <3>2, DcReplacesSame
    <3>4. DcDocSame(p)
      BY <2>6, <3>3, DcReplacesSame
    <3> QED BY <2>2, <3>1, <3>4
  <2>7. CASE DcOpensTmp(w)
    <3>1. DcDocSame(p) /\ mdAt[w].pc = "read"
      BY <2>7, DcOpensTmpSame DEF DcOpensTmp
    <3> QED BY <2>2, <3>1
  <2>8. CASE DcValidates(w)
    <3>1. DcDocSame(p) /\ mdAt[w].pc = "written"
      BY <2>8, DcValidatesSame DEF DcValidates
    <3> QED BY <2>2, <3>1
  <2>9. CASE DcSwaps(w)
    <3>1. mdAt[w].pc = "staged"
      BY <2>9 DEF DcSwaps
    <3>2. DcDocSame(p)
      <4>1. CASE MdTmpOf(w) \notin DOMAIN mdTmp
        BY <2>9, <4>1, DcFailsSame
      <4>2. CASE MdTmpOf(w) \in DOMAIN mdTmp
        <5>1. mdInode[mdTmp[MdTmpOf(w)]] = MdNew(w)
          BY <1>1, <3>1 DEF DcStaged, DcTorn
        <5>2. MdNew(w) # MdTorn
          BY <1>1, <3>1, DcNewWhole
        <5>3. p # mdAt[w].path
          BY <1>7, <2>9, <4>2, <5>1, <5>2, DcSwapsSame
        <5> QED BY <2>9, <4>2, <5>3, DcSwapsSame
      <4> QED BY <4>1, <4>2
    <3> QED BY <2>2, <3>1, <3>2
  <2>10. CASE DcMovesDoc(w)
    <3>1. mdAt[w].pc = "target"
      BY <2>10 DEF DcMovesDoc
    <3>2. CASE DcDocSame(p)
      BY <2>2, <3>1, <3>2
    <3>3. CASE ~DcDocSame(p)
      <4>1. mdAt[w].path \in DOMAIN mdDoc
        BY <2>10, <3>3, DcFailsSame
      <4>2. p = mdAt[w].target
        BY <2>10, <3>3, <4>1, DcMovesSame
      <4>3. mdDoc'[p] = mdDoc[mdAt[w].path] /\ mdInode[mdDoc[mdAt[w].path]] = MdTorn
        BY <1>7, <2>10, <4>1, <4>2, DcMovesSame
      <4> QED BY <2>1, <3>1, <4>1, <4>3
    <3> QED BY <3>2, <3>3
  <2>11. CASE DcDies(w)
    <3>1. mdAt[w].pc \notin {"made", "cut"}
      <4> SUFFICES ASSUME mdAt[w].pc \in {"made", "cut"} PROVE FALSE
        OBVIOUS
      <4>1. <<w, mdAt[w].pc>> \in mdCrashed'
        BY <2>11 DEF DcDies, MdLeft, DcPlaced
      <4>2. w \in MdDied({"made", "cut"})'
        BY <1>3, <4>1 DEF MdDied, DcMoves
      <4> QED BY <4>2 DEF DcTorn
    <3>2. DcDocSame(p)
      BY <2>11, DcDiesSame
    <3> QED BY <2>2, <3>1, <3>2
  <2> QED BY <2>3, <2>4, <2>5, <2>6, <2>7, <2>8, <2>9, <2>10, <2>11, DcCalmOrFiling DEF DcFiling
<1> QED BY <1>4, <1>6, <1>7

-----------------------------------------------------------------------------
(* Backups *)

\* A run keeps the name of its backup, once it has chosen it.
LEMMA DcBackupOfStep ==
    ASSUME DcPlaced, NEW w \in DOMAIN mdAt, w \in MdEditors, DcStep(w), mdAt[w].second # 0
    PROVE  MdBackupOf(w)' = MdBackupOf(w)
<1>1. DcShaped(w, mdAt[w]) /\ w \notin MdJobs /\ w \notin MdBackground
  BY DcSides
<1>2. mdAt[w].kind = "resummarize" /\ mdAt[w].pc \notin {"idle", "read"}
  BY <1>1 DEF DcShaped
<1>3. \/ DcCopies(w) \/ DcComparesAgain(w) \/ DcReplaces(w) \/ DcPrunes(w) \/ DcDies(w)
  <2>1. ~DcCalm(w) \/ DcCopies(w) \/ DcComparesAgain(w) \/ DcPrunes(w)
    BY <1>1, <1>2 DEF DcCalm, DcResolves, DcRecords, DcEnriches, DcRetries, DcTitles, DcSettles,
                      DcReads, DcSavesNot, DcCompares, DcTargets, DcShaped
  <2>2. ~DcFiling(w) \/ DcReplaces(w) \/ DcDies(w)
    BY <1>1, <1>2 DEF DcFiling, DcMakes, DcCuts, DcFills, DcNotes, DcOpensTmp, DcStagedKinds,
                      DcWrites, DcValidates, DcSwaps, DcMovesDoc, DcShaped
  <2> QED BY <2>1, <2>2, DcCalmOrFiling
<1>4. mdAt'[w].path = mdAt[w].path /\ mdAt'[w].second = mdAt[w].second
  <2>1. ASSUME NEW pc, DcGoes(w, pc)
        PROVE  mdAt'[w].path = mdAt[w].path /\ mdAt'[w].second = mdAt[w].second
    BY <1>2, <2>1 DEF DcGoes
  <2>2. DcSucceeds(w) => \E pc : DcGoes(w, pc)
    BY DEF DcSucceeds
  <2>3. DcRefuses(w) => \E pc : DcGoes(w, pc)
    BY DEF DcRefuses
  <2>4. \E pc : DcGoes(w, pc)
    <3>1. CASE DcCopies(w)
      BY <2>3, <3>1 DEF DcCopies
    <3>2. CASE DcComparesAgain(w)
      BY <2>3, <3>2 DEF DcComparesAgain
    <3>3. CASE DcReplaces(w)
      BY <3>3 DEF DcReplaces
    <3>4. CASE DcPrunes(w)
      BY <2>2, <3>4 DEF DcPrunes
    <3>5. CASE DcDies(w)
      BY <1>1, <3>5 DEF DcDies
    <3> QED BY <1>3, <3>1, <3>2, <3>3, <3>4, <3>5
  <2> QED BY <2>1, <2>4
<1> QED BY <1>4 DEF MdBackupOf

\* As many later backups as are kept, each of another editor: there are more editors.
LEMMA DcCounting ==
    ASSUME NEW E, IsFiniteSet(E), NEW v \in E, NEW L, NEW f,
           \A m \in L : \E u \in E \ {v} : f[u] = m,
           ~(Cardinality(L) < MdKeep)
    PROVE  Cardinality(E) > MdKeep
<1> DEFINE S == {u \in E \ {v} : f[u] \in L}
           g == [u \in S |-> f[u]]
<1>1. IsFiniteSet(E \ {v}) /\ Cardinality(E \ {v}) = Cardinality(E) - 1
      /\ Cardinality(E) \in Nat /\ Cardinality(E \ {v}) \in Nat
  BY FS_RemoveElement, FS_CardinalityType
<1>2. S \subseteq E \ {v}
  OBVIOUS
<1>3. IsFiniteSet(S) /\ Cardinality(S) <= Cardinality(E \ {v}) /\ Cardinality(S) \in Nat
  BY <1>1, <1>2, FS_Subset, FS_CardinalityType
<1>4. g \in Surjection(S, L)
  BY DEF Surjection
<1>5. IsFiniteSet(L) /\ Cardinality(L) <= Cardinality(S)
  BY <1>3, <1>4, FS_Surjection
<1>6. Cardinality(L) \in Nat
  BY <1>5, FS_CardinalityType
<1>7. MdKeep \in Nat
  BY MdAssumption
<1> HIDE DEF S, g
<1> QED BY <1>1, <1>3, <1>5, <1>6, <1>7

\* A backup stays until its run, or a later one, has another.
LEMMA DcBackupsStep ==
    ASSUME DcPlaced, DcFiled, DcMarked, DcPlaced', DcBackups, NEW w \in DOMAIN mdAt, DcStep(w)
    PROVE  DcBackups'
<1> DEFINE E == MdEditors \cap DOMAIN mdAt
<1>1. DcMoves(w)
  BY DcStepPlaced
<1>2. MdEditors \cap DOMAIN mdAt' = E
  BY <1>1 DEF DcMoves
<1>3. \A v \in DOMAIN mdAt : v # w => mdAt'[v] = mdAt[v] /\ MdBackupOf(v)' = MdBackupOf(v)
  BY <1>1 DEF DcMoves, MdBackupOf
<1>4. \A v \in E : mdAt[v].second # 0 => MdBackupOf(v)' = MdBackupOf(v)
  BY <1>3, DcBackupOfStep
<1>5. \A n : \A v \in E : MdBackupOf(v) = n /\ n[2] # 0 => MdBackupOf(v)' = n
  BY <1>4 DEF MdBackupOf
<1>6. /\ \A n \in DOMAIN mdBackup : n[2] = 0 \/ \E v \in E : MdBackupOf(v) = n
      /\ \A v \in E :
            mdAt[v].kind = "resummarize" /\ mdAt[v].pc \in {"copied", "window", "prune", "done"} =>
               \/ MdBackupOf(v) \in DOMAIN mdBackup
               \/ \E u \in E \ {v} : MdBackupOf(u) = MdBackupOf(v)
               \/ Cardinality(E) > MdKeep
  BY DEF DcBackups
<1>7. \A n \in DOMAIN mdBackup' : n \in DOMAIN mdBackup \/ (w \in E /\ n = MdBackupOf(w)')
  <2>1. CASE UNCHANGED mdBackups \/ DcCompares(w)
    BY <2>1 DEF mdBackups, DcCompares
  <2>2. CASE DcCopies(w)
    <3>1. CASE mdBackup' = mdBackup
      BY <3>1
    <3>2. CASE DOMAIN mdBackup' = DOMAIN mdBackup \cup {MdBackupOf(w)}
      <4>1. w \in E /\ mdAt[w].second # 0
        BY <2>2, DcSides DEF DcCopies, DcShaped
      <4> QED BY <1>4, <3>2, <4>1
    <3> QED BY <2>2, <3>1, <3>2, DcCopied
  <2>3. CASE DcComparesAgain(w)
    BY <2>3, DcRestricted DEF DcComparesAgain
  <2>4. CASE DcPrunes(w)
    <3>1. PICK S \in SUBSET DOMAIN mdBackup : mdBackup' = Restrict(mdBackup, S)
      BY <2>4 DEF DcPrunes
    <3> QED BY <3>1, DcRestricted
  <2> QED BY <2>1, <2>2, <2>3, <2>4, DcBackupsBy
<1>8. \A n \in DOMAIN mdBackup' : n[2] = 0 \/ \E v \in E : MdBackupOf(v)' = n
  BY <1>5, <1>6, <1>7
<1>9. ASSUME NEW v \in E, mdAt'[v].kind = "resummarize",
             mdAt'[v].pc \in {"copied", "window", "prune", "done"}
      PROVE  \/ MdBackupOf(v)' \in DOMAIN mdBackup'
             \/ \E u \in E \ {v} : MdBackupOf(u)' = MdBackupOf(v)'
             \/ Cardinality(E) > MdKeep
  <2>1. CASE v = w /\ DcCopies(w)
    <3>1. mdAt[w].second # 0 /\ ~DcRefuses(w)
      BY <1>9, <2>1, DcSides DEF DcCopies, DcShaped, DcRefuses, DcGoes
    <3> QED BY <1>4, <2>1, <3>1, DcCopied
  <2>2. CASE ~(v = w /\ DcCopies(w))
    <3>1. /\ mdAt[v].kind = "resummarize"
          /\ mdAt[v].pc \in {"copied", "window", "prune", "done"} /\ mdAt[v].second # 0
      <4>1. CASE v # w
        BY <1>3, <1>9, <4>1, DcSides DEF DcShaped
      <4>2. CASE v = w
        <5>1. DcShaped(w, mdAt[w]) /\ w \notin MdJobs /\ w \notin MdBackground
          BY <4>2, DcSides
        <5>2. \/ DcComparesAgain(w) \/ DcReplaces(w) \/ DcPrunes(w)
              \/ mdAt'[w].kind # "resummarize"
              \/ mdAt'[w].pc \notin {"copied", "window", "prune", "done"}
          <6>1. CASE DcReads(w)
            BY <6>1 DEF DcReads, DcPut
          <6>2. CASE DcSavesNot(w)
            BY <6>2 DEF DcSavesNot, DcRefuses, DcGoes
          <6>3. CASE DcCompares(w)
            BY <6>3 DEF DcCompares, DcRefuses, DcGoes, DcPut
          <6>4. CASE DcTargets(w)
            BY <6>4 DEF DcTargets, DcStays, DcPut
          <6>5. CASE DcCuts(w)
            BY <6>5 DEF DcCuts, DcOpens, DcStays, DcPut
          <6>6. CASE DcNotes(w)
            BY <6>6, <5>1 DEF DcNotes, DcSucceeds, DcGoes, DcShaped
          <6>7. CASE DcOpensTmp(w)
            BY <6>7 DEF DcOpensTmp, DcStays, DcPut
          <6>8. CASE DcWrites(w)
            BY <6>8 DEF DcWrites, DcGoes
          <6>9. CASE DcValidates(w)
            BY <6>9 DEF DcValidates, DcRefuses, DcGoes
          <6>10. CASE DcSwaps(w)
            <7>1. mdAt[w].kind # "resummarize" /\ mdAt'[w].kind = mdAt[w].kind
              <8>1. \E pc : DcGoes(w, pc)
                BY <6>10 DEF DcSwaps, DcSucceeds, DcRefuses
              <8> QED BY <6>10, <8>1, <5>1 DEF DcSwaps, DcGoes, DcShaped
            <7> QED BY <7>1
          <6>11. CASE DcMovesDoc(w)
            <7>1. mdAt[w].kind # "resummarize" /\ mdAt'[w].kind = mdAt[w].kind
              <8>1. \E pc : DcGoes(w, pc)
                BY <6>11 DEF DcMovesDoc, DcSucceeds, DcRefuses
              <8> QED BY <6>11, <8>1, <5>1 DEF DcMovesDoc, DcGoes, DcShaped
            <7> QED BY <7>1
          <6>12. CASE DcDies(w)
            BY <5>1, <6>12 DEF DcDies, DcGoes
          <6>13. CASE DcJobStep(w)
            BY <5>1, <6>13 DEF DcJobStep, DcResolves, DcMakes, DcFills, DcRecords, DcEnriches,
                               DcRetries, DcTitles, DcSettles
          <6> QED BY <2>2, <4>2, <6>1, <6>2, <6>3, <6>4, <6>5, <6>6, <6>7, <6>8, <6>9, <6>10,
                     <6>11, <6>12, <6>13 DEF DcStep, DcEditorStep
        <5> QED BY <1>9, <4>2, <5>1, <5>2 DEF DcComparesAgain, DcReplaces, DcPrunes, DcShaped
      <4> QED BY <4>1, <4>2
    <3>2. MdBackupOf(v)' = MdBackupOf(v) /\ MdBackupOf(v)[2] # 0
      BY <1>4, <3>1 DEF MdBackupOf
    <3>3. CASE \E u \in E \ {v} : MdBackupOf(u) = MdBackupOf(v)
      BY <1>5, <3>2, <3>3
    <3>4. CASE Cardinality(E) > MdKeep
      BY <3>4
    <3>5. CASE MdBackupOf(v) \in DOMAIN mdBackup /\ MdBackupOf(v) \notin DOMAIN mdBackup'
      <4>1. CASE UNCHANGED mdBackups \/ DcCompares(w)
        BY <3>5, <4>1 DEF mdBackups, DcCompares
      <4>2. CASE DcCopies(w)
        BY <3>5, <4>2, DcCopied
      <4>3. CASE DcComparesAgain(w)
        <5>1. ~(UNCHANGED mdBackup)
          BY <3>5
        <5>2. DcRefuses(w) /\ MdBackupOf(v) = MdBackupOf(w)
          BY <3>5, <4>3, <5>1, DcRestricted DEF DcComparesAgain
        <5>3. v # w
          BY <1>9, <5>2 DEF DcRefuses, DcGoes
        <5>4. w \in E
          BY <4>3 DEF DcComparesAgain
        <5> QED BY <1>5, <3>2, <5>2, <5>3, <5>4
      <4>4. CASE DcPrunes(w)
        <5> DEFINE b == MdBackupOf(v)
                   L == {m \in DOMAIN mdBackup : m[1] = b[1] /\ m[2] > b[2]}
                   S == {n \in DOMAIN mdBackup :
                           n[1] = mdAt[w].path =>
                               Cardinality({m \in DOMAIN mdBackup :
                                              m[1] = n[1] /\ m[2] > n[2]}) < MdKeep}
        <5>1. mdBackup' = Restrict(mdBackup, S)
          BY <4>4 DEF DcPrunes
        <5>2. DOMAIN mdBackup' = S
          BY <5>1, DcRestricted
        <5>3. ~(Cardinality(L) < MdKeep)
          BY <3>5, <5>2
        <5>4. \A m \in L : \E u \in E \ {v} : MdBackupOf(u) = m
          <6> SUFFICES ASSUME NEW m \in L PROVE \E u \in E \ {v} : MdBackupOf(u) = m
            OBVIOUS
          <6>1. m[2] > b[2] /\ m \in DOMAIN mdBackup
            OBVIOUS
          <6>2. b[2] \in Nat /\ m[2] \in Nat
            <7>1. b[2] \in 0..MdSeconds
              BY DcSides, DcFields DEF MdBackupOf
            <7>2. m[2] \in 0..MdSeconds
              BY <6>1 DEF DcMarked
            <7> QED BY <7>1, <7>2, DcConstants
          <6>3. m[2] # 0 /\ m # b
            BY <6>1, <6>2
          <6> QED BY <1>6, <6>1, <6>3
        <5>5. IsFiniteSet(E)
          <6>1. IsFiniteSet(MdEditors)
            BY MdAssumption DEF MdEditors
          <6> QED BY <6>1, FS_Subset
        <5> DEFINE f == [u \in E |-> MdBackupOf(u)]
        <5>6. \A m \in L : \E u \in E \ {v} : f[u] = m
          BY <5>4
        <5> HIDE DEF E, L, f
        <5> QED BY <5>3, <5>5, <5>6, DcCounting
      <4> QED BY <4>1, <4>2, <4>3, <4>4, DcBackupsBy
    <3> QED BY <1>6, <3>1, <3>2, <3>3, <3>4, <3>5
  <2> QED BY <2>1, <2>2
<1> QED BY <1>2, <1>8, <1>9 DEF DcBackups

-----------------------------------------------------------------------------
(* One document *)

\* A pipeline that is at work after a step was, at the same document, unless it
\* has just chosen its name.
LEMMA DcJobStays ==
    ASSUME DcPlaced, NEW w \in DOMAIN mdAt, w \in MdJobs, DcStep(w), MdAtWork(w)'
    PROVE  \/ DcResolves(w)
           \/ MdAtWork(w) /\ mdAt'[w].path = mdAt[w].path
<1>1. DcShaped(w, mdAt[w]) /\ w \notin MdEditors
  BY DcSides
<1>2. mdAt[w].kind # "resummarize"
  BY <1>1 DEF DcShaped
<1>3. ASSUME mdAt[w].pc \in MdInProgress \cup {"failed"} PROVE MdAtWork(w)
  BY <1>2, <1>3 DEF MdAtWork
<1>4. ~DcEditorStep(w)
  BY <1>1 DEF DcEditorStep, DcReads, DcSavesNot, DcCuts, DcNotes, DcCompares, DcCopies,
              DcComparesAgain, DcReplaces, DcPrunes
<1>5. mdAt'[w].pc \notin DcOver
  BY DEF MdAtWork, MdInProgress, DcOver
<1>6. ASSUME NEW pc, DcGoes(w, pc), mdAt[w].pc \in MdInProgress
      PROVE  MdAtWork(w) /\ mdAt'[w].path = mdAt[w].path
  BY <1>3, <1>5, <1>6 DEF DcGoes
<1>7. CASE DcMakes(w) \/ DcEnriches(w) \/ DcRetries(w) \/ DcOpensTmp(w) \/ DcTargets(w)
  BY <1>3, <1>7 DEF DcMakes, DcOpens, DcEnriches, DcRetries, DcOpensTmp, DcTargets, DcStays, DcPut,
                    MdInProgress
<1>8. CASE DcFills(w) \/ DcRecords(w) \/ DcSettles(w)
  BY <1>6, <1>8 DEF DcFills, DcRecords, DcSettles, MdInProgress
<1>9. CASE DcTitles(w)
  BY <1>3, <1>6, <1>9 DEF DcTitles, DcPut, MdInProgress
<1>10. CASE DcWrites(w) \/ DcValidates(w) \/ DcSwaps(w) \/ DcMovesDoc(w)
  <2>1. \E pc : DcGoes(w, pc)
    BY <1>10 DEF DcWrites, DcValidates, DcSwaps, DcMovesDoc, DcRefuses, DcSucceeds
  <2>2. mdAt[w].pc \in MdInProgress
    BY <1>10 DEF DcWrites, DcValidates, DcSwaps, DcMovesDoc, MdInProgress
  <2> QED BY <1>6, <2>1, <2>2
<1>11. CASE DcDies(w)
  <2>1. mdAt'[w].path = mdAt[w].path
    BY <1>5, <1>11 DEF DcDies, DcGoes, DcStays, DcPut
  <2> QED BY <1>3, <1>11, <2>1 DEF DcDies
<1> QED BY <1>4, <1>7, <1>8, <1>9, <1>10, <1>11 DEF DcStep, DcJobStep

\* So it was at a document that it had written, or its step is the one that wrote it.
LEMMA DcOwnStep ==
    ASSUME DcPlaced, NEW w \in DOMAIN mdAt, w \in MdJobs, DcStep(w), MdAtWork(w)',
           mdAt'[w].pc \notin {"resolved", "made", "titled"}
    PROVE  \/ DcFills(w) /\ mdAt'[w].path = mdAt[w].path
           \/ /\ MdAtWork(w) /\ mdAt[w].pc \notin {"resolved", "made", "titled"}
              /\ mdAt'[w].path = mdAt[w].path
           \/ DcDies(w) /\ mdAt[w].pc = "titled"
<1>1. DcShaped(w, mdAt[w]) /\ w \notin MdEditors
  BY DcSides
<1>2. ~DcResolves(w)
  BY DEF DcResolves, DcPut
<1>3. MdAtWork(w) /\ mdAt'[w].path = mdAt[w].path
  BY <1>2, DcJobStays
<1>4. CASE mdAt[w].pc \in {"resolved", "made", "titled"}
  <2>1. DcMakes(w) \/ DcFills(w) \/ DcSettles(w) \/ DcDies(w)
    BY <1>2, <1>4
       DEF DcStep, DcJobStep, DcEditorStep, DcRecords, DcEnriches, DcRetries, DcTitles, DcReads,
           DcSavesNot, DcCuts, DcNotes, DcCompares, DcCopies, DcComparesAgain, DcReplaces,
           DcPrunes, DcOpensTmp, DcWrites, DcValidates, DcSwaps, DcTargets, DcMovesDoc
  <2>2. ~DcMakes(w)
    BY DEF DcMakes, DcOpens, DcStays, DcPut
  <2>3. ~DcSettles(w)
    BY DEF DcSettles, DcGoes, MdAtWork, MdInProgress
  <2>4. CASE DcDies(w) /\ mdAt[w].pc \in {"resolved", "made"}
    <3>1. mdAt'[w].pc \in {"idle", "crashed"}
      BY <1>1, <2>4 DEF DcDies, DcGoes, DcStays, DcPut, DcShaped
    <3> QED BY <3>1 DEF MdAtWork, MdInProgress
  <2> QED BY <1>3, <1>4, <2>1, <2>2, <2>3, <2>4
<1> QED BY <1>3, <1>4

\* What is in a staging file came with a write.
LEMMA DcTmpFrom ==
    ASSUME DcPlaced, DcFiled, DcFiled', NEW w \in DOMAIN mdAt, DcStep(w), NEW j \in MdJobs,
           NEW t \in DOMAIN mdTmp', mdInode'[mdTmp'[t]].of = j
    PROVE  \/ t \in DOMAIN mdTmp /\ mdInode[mdTmp[t]].of = j
           \/ DcWrites(w) /\ t = MdTmpOf(w) /\ MdNew(w).of = j
<1>1. CASE DcTmpSame(t)
  BY <1>1 DEF DcTmpSame
<1>2. CASE ~DcTmpSame(t)
  <2>1. t = MdTmpOf(w) /\ mdAt[w].pc \in {"read", "opened", "written", "staged"}
        /\ mdAt[w].kind \in DcStagedKinds
    BY <1>2, DcTmpTouched
  <2>2. MdNone # j
    BY DcConstants
  <2>3. CASE DcCalm(w)
    BY <1>2, <2>3, DcIsQuiet, DcQuietSame
  <2>4. CASE DcMakes(w) \/ DcCuts(w)
    BY <1>2, <2>4, DcOpensSame DEF DcMakes, DcCuts
  <2>5. CASE DcFills(w) \/ DcNotes(w) \/ DcReplaces(w) \/ DcMovesDoc(w)
    BY <2>1, <2>5 DEF DcFills, DcNotes, DcReplaces, DcMovesDoc
  <2>6. CASE DcWrites(w)
    <3>1. mdTmp' = mdTmp /\ mdDoc' = mdDoc /\ DcStored(mdAt[w].fd, MdNew(w))
      BY <2>6 DEF DcWrites
    <3>2. mdInode'[mdTmp'[t]] = MdNew(w)
      BY <1>2, <3>1, DcStoresSame
    <3> QED BY <2>1, <2>6, <3>2
  <2>7. CASE DcOpensTmp(w)
    BY <2>1, <2>2, <2>7, DcOpensTmpSame, DcConstants
  <2>8. CASE DcValidates(w)
    <3>1. mdTmp' = mdTmp \/ t \notin DOMAIN mdTmp'
      BY <2>1, <2>8, DcWithout DEF DcValidates
    <3> QED BY <1>2, <2>8, <3>1, DcValidatesSame
  <2>9. CASE DcSwaps(w)
    <3>1. MdTmpOf(w) \notin DOMAIN mdTmp
      BY <2>1, <2>9, DcSwapNames
    <3> QED BY <1>2, <2>9, <3>1, DcFailsSame
  <2>10. CASE DcDies(w)
    BY <1>2, <2>10, DcDiesSame
  <2> QED BY <2>3, <2>4, <2>5, <2>6, <2>7, <2>8, <2>9, <2>10, DcCalmOrFiling DEF DcFiling
<1> QED BY <1>1, <1>2

\* Who writes a pipeline's document carries it.
LEMMA DcNewCarried ==
    ASSUME DcPlaced, NEW w \in DOMAIN mdAt, mdAt[w].pc \in {"opened", "cut", "window"},
           NEW j \in MdJobs, MdNew(w).of = j
    PROVE  mdAt[w].path \in DcPlacesOf(j)
<1>1. DcShaped(w, mdAt[w])
  BY DcSides
<1>2. MdAtWork(w)
  BY <1>1 DEF MdAtWork, MdInProgress, DcShaped
<1>3. DcCarries(w, j)
  <2>1. CASE mdAt[w].kind \in {"create", "transcript", "enrich"}
    BY <1>2, <2>1, DcNew DEF DcCarries
  <2>2. CASE mdAt[w].kind \notin {"create", "transcript", "enrich"}
    BY <1>2, <2>2, DcNew DEF DcCarries
  <2> QED BY <2>1, <2>2
<1> QED BY <1>3 DEF DcPlacesOf

\* Where a pipeline's document is after a step.
LEMMA DcOfFrom ==
    ASSUME DcPlaced, DcFiled, DcFiled', DcOpened, "renamed" \notin mdClash,
           NEW w \in DOMAIN mdAt, DcStep(w), NEW j \in MdJobs,
           NEW p \in DOMAIN mdDoc', mdInode'[mdDoc'[p]].of = j
    PROVE  \/ p \in DcPlacesOf(j)
           \/ DcFills(w) /\ w = j /\ p = mdAt[w].path
           \/ DcMovesDoc(w) /\ p = mdAt[w].target /\ mdAt[w].path \in MdOf(j)
<1>0. MdNone # j /\ MdTorn.of # j
  BY DcConstants
<1>1. CASE DcDocSame(p)
  BY <1>1 DEF DcDocSame, DcPlacesOf, MdOf, MdContentAt
<1>2. CASE ~DcDocSame(p)
  <2>1. DcShaped(w, mdAt[w])
    BY DcSides
  <2>2. CASE DcCalm(w)
    BY <1>2, <2>2, DcIsQuiet, DcQuietSame
  <2>3. CASE DcMakes(w) \/ DcCuts(w)
    <3>1. p = mdAt[w].path
      BY <1>2, <2>3, DcOpensSame DEF DcMakes, DcCuts
    <3> QED BY <1>0, <2>3, <3>1, DcOpensSame DEF DcMakes, DcCuts
  <2>4. CASE DcFills(w) \/ DcNotes(w) \/ DcWrites(w)
    <3>1. /\ mdDoc' = mdDoc /\ mdTmp' = mdTmp /\ DcStored(mdAt[w].fd, MdNew(w))
          /\ mdAt[w].pc \in {"made", "cut", "opened"}
      BY <2>4 DEF DcFills, DcNotes, DcWrites
    <3>2. p \in DOMAIN mdDoc /\ mdDoc[p] = mdAt[w].fd
      BY <1>2, <3>1, DcStoresSame
    <3>3. p = mdAt[w].path
      BY <3>2 DEF DcOpened
    <3>4. MdNew(w).of = j
      BY <3>1, <3>2, DcStoresSame
    <3>5. CASE DcFills(w)
      <4>1. mdAt[w].kind = "create"
        BY <2>1, <3>5 DEF DcFills, DcShaped
      <4> QED BY <3>3, <3>4, <3>5, <4>1, DcNew
    <3>6. CASE DcNotes(w) \/ DcWrites(w)
      BY <3>3, <3>4, <3>6, DcNewCarried DEF DcNotes, DcWrites
    <3> QED BY <2>4, <3>5, <3>6
  <2>5. CASE DcReplaces(w)
    <3>1. p = mdAt[w].path /\ mdAt[w].pc = "window"
      BY <1>2, <2>5, DcReplacesSame DEF DcReplaces
    <3>2. MdNew(w).of = j
      BY <2>5, <3>1, DcReplacesSame
    <3> QED BY <3>1, <3>2, DcNewCarried
  <2>6. CASE DcOpensTmp(w)
    BY <1>2, <2>6, DcOpensTmpSame
  <2>7. CASE DcValidates(w)
    BY <1>2, <2>7, DcValidatesSame
  <2>8. CASE DcSwaps(w)
    <3>1. MdTmpOf(w) \in DOMAIN mdTmp
      BY <1>2, <2>8, DcFailsSame
    <3>2. p = mdAt[w].path
      BY <1>2, <2>8, <3>1, DcSwapsSame
    <3>3. mdInode[mdTmp[MdTmpOf(w)]].of = j
      BY <2>8, <3>1, <3>2, DcSwapsSame
    <3>4. mdAt[w].pc = "staged" /\ MdAtWork(w)
      BY <2>1, <2>8 DEF DcSwaps, MdAtWork, MdInProgress, DcShaped
    <3>5. DcCarries(w, j)
      BY <3>1, <3>3, <3>4 DEF DcCarries
    <3> QED BY <3>2, <3>5 DEF DcPlacesOf
  <2>9. CASE DcMovesDoc(w)
    <3>1. mdAt[w].path \in DOMAIN mdDoc
      BY <1>2, <2>9, DcFailsSame
    <3>2. p \in {mdAt[w].path, mdAt[w].target}
      BY <1>2, <2>9, <3>1, DcMovesSame
    <3>3. p = mdAt[w].target
      BY <2>9, <3>1, <3>2, DcMovesSame
    <3>4. mdInode[mdDoc[mdAt[w].path]].of = j
      BY <2>9, <3>1, <3>3, DcMovesSame
    <3> QED BY <2>9, <3>1, <3>3, <3>4 DEF MdOf, MdContentAt
  <2>10. CASE DcDies(w)
    BY <1>2, <2>10, DcDiesSame
  <2> QED BY <2>2, <2>3, <2>4, <2>5, <2>6, <2>7, <2>8, <2>9, <2>10, DcCalmOrFiling DEF DcFiling
<1> QED BY <1>1, <1>2

\* The steps that lead to an edit's next place.
LEMMA DcInto ==
    ASSUME DcPlaced, NEW w \in DOMAIN mdAt, DcStep(w)
    PROVE  /\ mdAt'[w].pc = "opened" => DcOpensTmp(w)
           /\ mdAt'[w].pc = "written" => DcWrites(w)
           /\ mdAt'[w].pc = "staged" =>
                 DcWrites(w) \/ (DcValidates(w) /\ DcGoes(w, "staged") /\ mdTmp' = mdTmp)
           /\ mdAt'[w].pc = "cut" => DcCuts(w)
           /\ mdAt'[w].pc = "window" => DcComparesAgain(w) /\ MdUnchanged(w)
           /\ mdAt'[w].pc = "read" =>
                 DcTitles(w) \/ DcReads(w) \/ mdAt'[w].kind \in {"transcript", "enrich"}
           /\ mdAt'[w].pc = "idle" =>
                 /\ DcDies(w) /\ w \in MdBackground
                 /\ mdAt[w].kind = "create" /\ mdAt[w].pc # "enriching"
           /\ mdAt'[w].pc = "resolved" => DcResolves(w)
           /\ mdAt'[w].pc = "made" => DcMakes(w)
           /\ mdAt'[w].pc = "target" => DcTargets(w)
           /\ mdAt'[w].pc = "prune" => DcReplaces(w)
<1>1. CASE DcResolves(w)
  BY <1>1 DEF DcResolves, DcPut
<1>2. CASE DcMakes(w)
  BY <1>2 DEF DcMakes, DcOpens, DcStays, DcPut
<1>3. CASE DcFills(w) \/ DcRecords(w) \/ DcSettles(w) \/ DcReplaces(w)
  BY <1>3 DEF DcFills, DcRecords, DcSettles, DcReplaces, DcGoes
<1>4. CASE DcEnriches(w) \/ DcRetries(w)
  BY <1>4 DEF DcEnriches, DcRetries, DcStays, DcPut
<1>5. CASE DcTitles(w)
  BY <1>5 DEF DcTitles, DcGoes, DcPut
<1>6. CASE DcReads(w)
  BY <1>6 DEF DcReads, DcPut
<1>7. CASE DcSavesNot(w)
  BY <1>7 DEF DcSavesNot, DcRefuses, DcGoes
<1>8. CASE DcCuts(w)
  BY <1>8 DEF DcCuts, DcOpens, DcStays, DcPut
<1>9. CASE DcNotes(w) \/ DcPrunes(w)
  BY <1>9 DEF DcNotes, DcPrunes, DcSucceeds, DcGoes
<1>10. CASE DcCompares(w)
  BY <1>10 DEF DcCompares, DcRefuses, DcGoes, DcPut
<1>11. CASE DcCopies(w)
  BY <1>11 DEF DcCopies, DcRefuses, DcGoes
<1>12. CASE DcComparesAgain(w)
  <2>1. MdUnchanged(w) \/ DcRefuses(w)
    BY <1>12 DEF DcComparesAgain
  <2>2. DcRefuses(w) => mdAt'[w].pc \in {"refused", "titled", "failed"}
    BY DEF DcRefuses, DcGoes
  <2>3. DcGoes(w, "window") \/ DcRefuses(w)
    BY <1>12 DEF DcComparesAgain
  <2> QED BY <1>12, <2>1, <2>2, <2>3 DEF DcGoes
<1>13. CASE DcOpensTmp(w)
  BY <1>13 DEF DcOpensTmp, DcStays, DcPut
<1>14. CASE DcWrites(w)
  BY <1>14 DEF DcWrites, DcGoes
<1>15. CASE DcValidates(w)
  <2>1. CASE DcGoes(w, "staged") /\ mdTmp' = mdTmp
    BY <1>15, <2>1 DEF DcGoes
  <2>2. CASE DcRefuses(w)
    BY <2>2 DEF DcRefuses, DcGoes
  <2> QED BY <1>15, <2>1, <2>2 DEF DcValidates
<1>16. CASE DcSwaps(w)
  <2>1. \/ DcGoes(w, "enriching") \/ DcGoes(w, "titling") \/ DcGoes(w, "moved")
        \/ DcSucceeds(w) \/ DcRefuses(w)
    BY <1>16 DEF DcSwaps
  <2> QED BY <2>1 DEF DcSucceeds, DcRefuses, DcGoes
<1>17. CASE DcTargets(w)
  BY <1>17 DEF DcTargets, DcStays, DcPut
<1>18. CASE DcMovesDoc(w)
  BY <1>18 DEF DcMovesDoc, DcSucceeds, DcRefuses, DcGoes
<1>19. CASE DcDies(w)
  BY <1>19 DEF DcDies, DcGoes, DcStays, DcPut
<1> QED BY <1>1, <1>2, <1>3, <1>4, <1>5, <1>6, <1>7, <1>8, <1>9, <1>10, <1>11, <1>12, <1>13,
           <1>14, <1>15, <1>16, <1>17, <1>18, <1>19 DEF DcStep, DcJobStep, DcEditorStep

\* Who carries a pipeline's document after a step.
LEMMA DcCarriesFrom ==
    ASSUME DcPlaced, DcFiled, DcPlaced', DcFiled', NEW w \in DOMAIN mdAt, DcStep(w),
           NEW v \in DOMAIN mdAt, NEW j \in MdJobs, DcCarries(v, j)'
    PROVE  \/ mdAt'[v].path \in DcPlacesOf(j)
           \/ DcFills(w) /\ w = j /\ v = j /\ mdAt'[v].path = mdAt[w].path
           \/ DcDies(w) /\ w = j /\ mdAt[w].pc = "titled"
<1>0. MdAtWork(v)'
  BY DEF DcCarries
<1>1. ASSUME DcCarries(v, j), mdAt'[v].path = mdAt[v].path PROVE mdAt'[v].path \in DcPlacesOf(j)
  BY <1>1 DEF DcPlacesOf
<1>2. DcMoves(w) /\ DcShaped(w, mdAt[w]) /\ DcShaped(w, mdAt'[w])
  BY DcStepPlaced, DcSides
<1>3. CASE v = j /\ mdAt'[v].pc \notin {"resolved", "made", "titled"}
  <2>1. CASE v # w
    <3>1. mdAt'[v] = mdAt[v]
      BY <1>2, <2>1 DEF DcMoves
    <3>2. MdAtWork(v)
      BY <1>0, <3>1 DEF MdAtWork
    <3>3. DcCarries(v, j)
      BY <1>3, <3>1, <3>2 DEF DcCarries
    <3> QED BY <1>1, <3>1, <3>3
  <2>2. CASE v = w
    <3>1. \/ DcFills(w) /\ mdAt'[w].path = mdAt[w].path
          \/ /\ MdAtWork(w) /\ mdAt[w].pc \notin {"resolved", "made", "titled"}
             /\ mdAt'[w].path = mdAt[w].path
          \/ DcDies(w) /\ mdAt[w].pc = "titled"
      BY <1>0, <1>3, <2>2, DcOwnStep
    <3>2. CASE MdAtWork(w) /\ mdAt[w].pc \notin {"resolved", "made", "titled"}
                   /\ mdAt'[w].path = mdAt[w].path
      <4>1. DcCarries(v, j)
        BY <1>3, <2>2, <3>2 DEF DcCarries
      <4> QED BY <1>1, <2>2, <3>2, <4>1
    <3> QED BY <1>3, <2>2, <3>1, <3>2
  <2> QED BY <2>1, <2>2
<1>4. CASE /\ mdAt'[v].pc \in {"read", "opened", "cut", "window"}
           /\ mdAt'[v].kind \notin {"transcript", "enrich"} /\ mdAt'[v].read.of = j
  <2>1. CASE v # w
    <3>1. mdAt'[v] = mdAt[v]
      BY <1>2, <2>1 DEF DcMoves
    <3>2. MdAtWork(v)
      BY <1>0, <3>1 DEF MdAtWork
    <3>3. DcCarries(v, j)
      BY <1>4, <3>1, <3>2 DEF DcCarries
    <3> QED BY <1>1, <3>1, <3>3
  <2>2. CASE v = w
    <3>1. \/ /\ mdAt[w].pc \in DcInEdit /\ mdAt'[w].kind = mdAt[w].kind
             /\ mdAt'[w].read = mdAt[w].read /\ mdAt'[w].path = mdAt[w].path
          \/ /\ DcTitles(w) /\ MdExists(mdAt[w].path) /\ MdContentAt(mdAt[w].path) # MdTorn
             /\ mdAt'[w].pc = "read" /\ mdAt'[w].kind = "rename"
             /\ mdAt'[w].path = mdAt[w].path /\ mdAt'[w].read = MdContentAt(mdAt[w].path)
          \/ DcReads(w)
      BY <1>4, <2>2, DcReadFrom DEF DcInEdit
    <3>2. CASE DcTitles(w) /\ MdExists(mdAt[w].path)
               /\ mdAt'[w].path = mdAt[w].path /\ mdAt'[w].read = MdContentAt(mdAt[w].path)
      BY <1>4, <2>2, <3>2 DEF DcPlacesOf, MdOf, MdExists
    <3>3. CASE DcReads(w)
      <4>1. mdAt'[w].path \in DOMAIN mdDoc /\ mdAt'[w].read = MdContentAt(mdAt'[w].path)
        BY <3>3 DEF DcReads, DcPut
      <4> QED BY <1>4, <2>2, <4>1 DEF DcPlacesOf, MdOf
    <3>4. CASE /\ mdAt[w].pc \in DcInEdit /\ mdAt'[w].kind = mdAt[w].kind
               /\ mdAt'[w].read = mdAt[w].read /\ mdAt'[w].path = mdAt[w].path
      <4>1. CASE mdAt'[w].pc = "read"
        <5>1. DcTitles(w) \/ DcReads(w)
          BY <1>4, <2>2, <4>1, DcInto
        <5>2. mdAt[w].pc \in {"idle", "titling"}
          BY <5>1 DEF DcTitles, DcReads
        <5> QED BY <3>4, <5>2 DEF DcInEdit
      <4>2. CASE mdAt'[w].pc = "opened" \/ mdAt'[w].pc = "cut"
        <5>1. mdAt[w].pc = "read" /\ mdAt[w].kind # "resummarize"
          BY <4>2, DcInto DEF DcOpensTmp, DcStagedKinds, DcCuts
        <5>2. MdAtWork(w)
          BY <5>1 DEF MdAtWork, MdInProgress
        <5>3. DcCarries(w, j)
          BY <1>4, <2>2, <3>4, <5>1, <5>2 DEF DcCarries
        <5> QED BY <1>1, <2>2, <3>4, <5>3
      <4>3. CASE mdAt'[w].pc = "window"
        <5>1. MdUnchanged(w)
          BY <4>3, DcInto
        <5> QED BY <1>4, <2>2, <3>4, <5>1 DEF MdUnchanged, MdExists, DcPlacesOf, MdOf
      <4> QED BY <1>4, <2>2, <4>1, <4>2, <4>3
    <3> QED BY <3>1, <3>2, <3>3, <3>4
  <2> QED BY <2>1, <2>2
<1>5. CASE /\ mdAt'[v].pc \in {"opened", "written", "staged"} /\ MdTmpOf(v)' \in DOMAIN mdTmp'
           /\ mdInode'[mdTmp'[MdTmpOf(v)']].of = j
  <2>1. PICK t \in DOMAIN mdTmp' : t = MdTmpOf(v)' /\ mdInode'[mdTmp'[t]].of = j
    BY <1>5
  <2>2. \/ t \in DOMAIN mdTmp /\ mdInode[mdTmp[t]].of = j
        \/ DcWrites(w) /\ t = MdTmpOf(w) /\ MdNew(w).of = j
    BY <2>1, DcTmpFrom
  <2>3. CASE v # w
    <3>1. mdAt'[v] = mdAt[v] /\ t = MdTmpOf(v)
      BY <1>2, <2>1, <2>3, DcOthersTmp
    <3>2. MdAtWork(v)
      BY <1>0, <3>1 DEF MdAtWork
    <3>3. CASE t \in DOMAIN mdTmp /\ mdInode[mdTmp[t]].of = j
      <4>1. DcCarries(v, j)
        BY <1>5, <3>1, <3>2, <3>3 DEF DcCarries
      <4> QED BY <1>1, <3>1, <4>1
    <3>4. CASE DcWrites(w) /\ t = MdTmpOf(w) /\ MdNew(w).of = j
      <4>1. mdAt[w].path = mdAt[v].path
        BY <3>1, <3>4 DEF MdTmpOf
      <4>2. mdAt[w].path \in DcPlacesOf(j)
        BY <3>4, DcNewCarried DEF DcWrites
      <4> QED BY <3>1, <4>1, <4>2
    <3> QED BY <2>2, <3>3, <3>4
  <2>4. CASE v = w
    <3>1. CASE DcOpensTmp(w)
      <4>1. mdAt'[w].kind = mdAt[w].kind /\ mdAt'[w].path = mdAt[w].path
        BY <3>1 DEF DcOpensTmp, DcStays, DcPut
      <4>2. t = MdTmpOf(w)
        BY <2>1, <2>4, <4>1 DEF MdTmpOf, MdStages
      <4>3. mdInode'[mdTmp'[t]].of = MdNone
        BY <3>1, <4>2, DcOpensTmpSame, DcConstants
      <4> QED BY <2>1, <4>3, DcConstants
    <3>2. CASE DcWrites(w) \/ (DcValidates(w) /\ DcGoes(w, "staged"))
      <4>1. /\ mdAt'[w].kind = mdAt[w].kind /\ mdAt'[w].path = mdAt[w].path
            /\ mdAt[w].pc \in {"opened", "written"}
        BY <3>2 DEF DcWrites, DcValidates, DcGoes, DcOver
      <4>2. t = MdTmpOf(w)
        BY <2>1, <2>4, <4>1 DEF MdTmpOf, MdStages
      <4>3. MdAtWork(w)
        BY <1>2, <4>1 DEF MdAtWork, MdInProgress, DcShaped
      <4>4. CASE t \in DOMAIN mdTmp /\ mdInode[mdTmp[t]].of = j
        <5>1. DcCarries(w, j)
          BY <4>1, <4>2, <4>3, <4>4 DEF DcCarries
        <5> QED BY <1>1, <2>4, <4>1, <5>1
      <4>5. CASE DcWrites(w) /\ t = MdTmpOf(w) /\ MdNew(w).of = j
        <5>1. mdAt[w].path \in DcPlacesOf(j)
          BY <4>5, DcNewCarried DEF DcWrites
        <5> QED BY <2>4, <4>1, <5>1
      <4> QED BY <2>2, <4>4, <4>5
    <3> QED BY <1>5, <2>4, <3>1, <3>2, DcInto
  <2> QED BY <2>3, <2>4
<1> QED BY <1>3, <1>4, <1>5 DEF DcCarries

\* One document for each pipeline: a step keeps it.
LEMMA DcOneStep ==
    ASSUME DcPlaced, DcFiled, DcPlaced', DcFiled', DcNoted, DcOpened, DcOne,
           NEW w \in DOMAIN mdAt, DcStep(w), MdNote
    PROVE  DcOne'
<1>1. SUFFICES ASSUME "renamed" \notin mdClash',
                      NEW j \in MdJobs, j \notin MdDied({"filled", "titled"})'
               PROVE  /\ \A p, q \in DcPlacesOf(j)' : p = q
                      /\ j \in DOMAIN mdAt' /\ mdAt'[j].pc \in {"idle", "resolved", "made"}
                            => DcPlacesOf(j)' = {}
  BY DEF DcOne
<1>2. "renamed" \notin mdClash /\ j \notin MdDied({"filled", "titled"})
  BY <1>1, DcNoteGrows, DcDiedGrows
<1>3. /\ \A p, q \in DcPlacesOf(j) : p = q
      /\ j \in DOMAIN mdAt /\ mdAt[j].pc \in {"idle", "resolved", "made"} => DcPlacesOf(j) = {}
  BY <1>1, <1>2 DEF DcOne
<1>4. DcMoves(w) /\ DcShaped(w, mdAt[w]) /\ DcShaped(w, mdAt'[w]) /\ DOMAIN mdAt' = DOMAIN mdAt
  BY DcStepPlaced, DcSides DEF DcMoves
<1>5. ~(DcDies(w) /\ w = j /\ mdAt[w].pc \in {"filled", "titled"})
  <2>1. SUFFICES ASSUME DcDies(w), w = j, mdAt[w].pc \in {"filled", "titled"} PROVE FALSE
    OBVIOUS
  <2>2. <<w, mdAt[w].pc>> \in mdCrashed'
    BY <2>1, DcConstants DEF DcDies, MdLeft
  <2> QED BY <1>1, <1>4, <2>1, <2>2 DEF MdDied
<1>6. ASSUME NEW p \in DcPlacesOf(j)'
      PROVE  \/ p \in DcPlacesOf(j)
             \/ DcFills(w) /\ w = j /\ p = mdAt[w].path
             \/ DcMovesDoc(w) /\ p = mdAt[w].target /\ mdAt[w].path \in MdOf(j)
  <2>1. CASE p \in MdOf(j)'
    <3>1. p \in DOMAIN mdDoc' /\ mdInode'[mdDoc'[p]].of = j
      BY <2>1 DEF MdOf, MdContentAt
    <3> QED BY <1>2, <3>1, DcOfFrom
  <2>2. CASE \E v \in DOMAIN mdAt : DcCarries(v, j)' /\ p = mdAt'[v].path
    <3>1. PICK v \in DOMAIN mdAt : DcCarries(v, j)' /\ p = mdAt'[v].path
      BY <2>2
    <3> QED BY <1>5, <3>1, DcCarriesFrom
  <2> QED BY <1>4, <1>6, <2>1, <2>2 DEF DcPlacesOf
<1>7. CASE DcFills(w) /\ w = j
  <2>1. mdAt[j].pc = "made" /\ mdAt'[j].pc \in {"filled", "titling"}
    BY <1>7 DEF DcFills, DcGoes
  <2>2. DcPlacesOf(j) = {}
    BY <1>3, <1>7, <2>1
  <2>3. ~DcMovesDoc(w)
    BY <1>7, <2>1 DEF DcMovesDoc
  <2>4. \A p \in DcPlacesOf(j)' : p = mdAt[w].path
    BY <1>6, <2>2, <2>3
  <2> QED BY <2>1, <2>4
<1>8. CASE DcMovesDoc(w) /\ mdAt[w].path \in MdOf(j)
  <2>0. mdAt[w].path \in DcPlacesOf(j) /\ mdAt[w].path \in DOMAIN mdDoc
    BY <1>8 DEF DcPlacesOf, MdOf
  <2>1. mdAt[w].pc = "target" /\ mdAt'[w].pc \in {"done", "titled"}
    BY <1>8, <2>0 DEF DcMovesDoc, MdExists, DcSucceeds, DcGoes
  <2>2. \A p \in DcPlacesOf(j)' : p = mdAt[w].path \/ p = mdAt[w].target
    BY <1>3, <1>6, <2>0, <2>1 DEF DcFills
  <2>3. mdAt[w].path # mdAt[w].target => mdAt[w].path \notin DcPlacesOf(j)'
    <3>1. SUFFICES ASSUME mdAt[w].path # mdAt[w].target, mdAt[w].path \in DcPlacesOf(j)'
                   PROVE  FALSE
      OBVIOUS
    <3>2. mdAt[w].path \notin DOMAIN mdDoc'
      BY <1>8, <2>0, <3>1, DcMovesSame
    <3>3. PICK v \in DOMAIN mdAt : DcCarries(v, j)' /\ mdAt[w].path = mdAt'[v].path
      BY <1>4, <3>1, <3>2 DEF DcPlacesOf, MdOf
    <3>4. CASE v = w
      BY <2>1, <3>3, <3>4 DEF DcCarries, MdAtWork, MdInProgress
    <3>5. CASE v # w
      <4>1. mdAt'[v] = mdAt[v]
        BY <1>4, <3>5 DEF DcMoves
      <4>2. MdAtWork(v)
        BY <3>3, <4>1 DEF DcCarries, MdAtWork
      <4>3. mdAt[w].path \in MdTouches(v) /\ mdAt[w].path \in MdTouches(w)
        BY <3>3, <4>1 DEF MdTouches
      <4> QED BY <1>2, <2>1, <3>5, <4>2, <4>3, DcRenameMeets
    <3> QED BY <3>4, <3>5
  <2>4. j \in DOMAIN mdAt' /\ mdAt'[j].pc \in {"idle", "resolved", "made"} => FALSE
    <3>1. SUFFICES ASSUME j \in DOMAIN mdAt, mdAt'[j].pc \in {"idle", "resolved", "made"}
                   PROVE  FALSE
      BY <1>4
    <3>2. j # w
      BY <2>1, <3>1
    <3>3. mdAt[j].pc \in {"idle", "resolved", "made"}
      BY <1>4, <3>1, <3>2 DEF DcMoves
    <3> QED BY <1>3, <2>0, <3>1, <3>3
  <2> QED BY <2>2, <2>3, <2>4
<1>9. CASE ~(DcFills(w) /\ w = j) /\ ~(DcMovesDoc(w) /\ mdAt[w].path \in MdOf(j))
  <2>1. \A p \in DcPlacesOf(j)' : p \in DcPlacesOf(j)
    BY <1>6, <1>9
  <2>2. ASSUME j \in DOMAIN mdAt, mdAt'[j].pc \in {"idle", "resolved", "made"}
        PROVE  mdAt[j].pc \in {"idle", "resolved", "made"}
    <3>1. CASE j # w
      BY <1>4, <2>2, <3>1 DEF DcMoves
    <3>2. CASE j = w
      <4>1. CASE mdAt'[w].pc \in {"resolved", "made"}
        BY <3>2, <4>1, DcInto DEF DcResolves, DcMakes
      <4>2. CASE mdAt'[w].pc = "idle"
        <5>1. /\ DcDies(w) /\ w \in MdBackground
              /\ mdAt[w].kind = "create" /\ mdAt[w].pc # "enriching"
          BY <4>2, DcInto
        <5>2. mdAt[w].pc \in MdInProgress
          BY <5>1 DEF DcDies
        <5>3. mdAt[w].pc \in {"resolved", "made", "filled", "titled"}
          BY <1>4, <5>1, <5>2 DEF DcShaped, MdInProgress
        <5> QED BY <1>5, <3>2, <5>1, <5>3
      <4> QED BY <2>2, <3>2, <4>1, <4>2
    <3> QED BY <3>1, <3>2
  <2> QED BY <1>3, <1>4, <2>1, <2>2
<1> QED BY <1>7, <1>8, <1>9

-----------------------------------------------------------------------------
(* What a writer has made stays *)

\* The steps that change the document at p: it is cut, it has what the writer
\* wrote, or a rename takes it away or puts another there.
DcIsCut(w, p) ==
    /\ DcMakes(w) \/ DcCuts(w)
    /\ p = mdAt[w].path /\ p \in DOMAIN mdDoc' /\ mdInode'[mdDoc'[p]] = MdTorn
    /\ mdAt'[w].fd = mdDoc'[p]

DcIsWritten(w, p) ==
    /\ DcFills(w) \/ DcNotes(w) \/ DcReplaces(w) \/ (DcSwaps(w) /\ MdTmpOf(w) \in DOMAIN mdTmp)
    /\ p = mdAt[w].path /\ p \in DOMAIN mdDoc' /\ mdInode'[mdDoc'[p]] = MdNew(w)

DcIsMoved(w, p) ==
    DcMovesDoc(w) /\ mdAt[w].path \in DOMAIN mdDoc /\ p \in {mdAt[w].path, mdAt[w].target}

\* No other step changes a document, while nothing is lost.
LEMMA DcDocChanges ==
    ASSUME DcPlaced, DcFiled, DcFiled', DcStaged, DcOpened, ~DcLost,
           NEW w \in DOMAIN mdAt, DcStep(w), NEW p
    PROVE  DcDocSame(p) \/ DcIsCut(w, p) \/ DcIsWritten(w, p) \/ DcIsMoved(w, p)
<1>0. "alike" \notin mdClash /\ "renamed" \notin mdClash
  BY DEF DcLost
<1>1. SUFFICES ASSUME ~DcDocSame(p)
               PROVE  DcIsCut(w, p) \/ DcIsWritten(w, p) \/ DcIsMoved(w, p)
  OBVIOUS
<1>2. DcShaped(w, mdAt[w])
  BY DcSides
<1>3. CASE DcCalm(w)
  BY <1>1, <1>3, DcIsQuiet, DcQuietSame
<1>4. CASE DcMakes(w) \/ DcCuts(w)
  BY <1>1, <1>4, DcOpensSame DEF DcMakes, DcCuts, DcIsCut
<1>5. CASE DcFills(w) \/ DcNotes(w) \/ DcWrites(w)
  <2>1. /\ mdDoc' = mdDoc /\ mdTmp' = mdTmp /\ DcStored(mdAt[w].fd, MdNew(w))
    BY <1>5 DEF DcFills, DcNotes, DcWrites
  <2>2. p \in DOMAIN mdDoc /\ mdDoc[p] = mdAt[w].fd
    BY <1>1, <2>1, DcStoresSame
  <2>3. p = mdAt[w].path
    BY <1>0, <2>2 DEF DcOpened
  <2>4. mdInode'[mdDoc'[p]] = MdNew(w) /\ p \in DOMAIN mdDoc'
    BY <2>1, <2>2, DcStoresSame
  <2>5. CASE DcFills(w) \/ DcNotes(w)
    BY <2>3, <2>4, <2>5 DEF DcIsWritten
  <2>6. CASE DcWrites(w)
    <3>1. MdTmpOf(w) \in DOMAIN mdTmp /\ mdAt[w].fd = mdTmp[MdTmpOf(w)]
      BY <1>0, <2>6 DEF DcStaged, DcWrites
    <3> QED BY <2>2, <3>1 DEF DcFiled
  <2> QED BY <1>5, <2>5, <2>6
<1>6. CASE DcReplaces(w)
  <2>1. p = mdAt[w].path
    BY <1>1, <1>6, DcReplacesSame
  <2> QED BY <1>6, <2>1, DcReplacesSame DEF DcIsWritten
<1>7. CASE DcOpensTmp(w)
  BY <1>1, <1>7, DcOpensTmpSame
<1>8. CASE DcValidates(w)
  BY <1>1, <1>8, DcValidatesSame
<1>9. CASE DcSwaps(w)
  <2>1. MdTmpOf(w) \in DOMAIN mdTmp
    BY <1>1, <1>9, DcFailsSame
  <2>2. p = mdAt[w].path
    BY <1>1, <1>9, <2>1, DcSwapsSame
  <2>3. mdInode[mdTmp[MdTmpOf(w)]] = MdNew(w)
    BY <1>0, <1>9 DEF DcStaged, DcSwaps
  <2> QED BY <1>9, <2>1, <2>2, <2>3, DcSwapsSame DEF DcIsWritten
<1>10. CASE DcMovesDoc(w)
  <2>1. mdAt[w].path \in DOMAIN mdDoc
    BY <1>1, <1>10, DcFailsSame
  <2> QED BY <1>1, <1>10, <2>1, DcMovesSame DEF DcIsMoved
<1>11. CASE DcDies(w)
  BY <1>1, <1>11, DcDiesSame
<1> QED BY <1>3, <1>4, <1>5, <1>6, <1>7, <1>8, <1>9, <1>10, <1>11, DcCalmOrFiling DEF DcFiling

\* Losing something is never undone.
LEMMA DcLostGrows ==
    ASSUME NEW w \in DOMAIN mdAt, DcPlaced, DcStep(w), MdNote, ~DcLost'
    PROVE  ~DcLost
<1>1. mdClash \subseteq mdClash' /\ MdDied({"cut"}) \subseteq MdDied({"cut"})'
  BY DcNoteGrows, DcDiedGrows
<1> QED BY <1>1 DEF DcLost

\* A document that is cut holds nothing: nobody else has written there meanwhile.
LEMMA DcCutStep ==
    ASSUME DcPlaced, DcFiled, DcPlaced', DcFiled', DcNoted, DcStaged, DcOpened, DcOpened',
           DcCut, ~DcLost, ~DcLost', NEW w \in DOMAIN mdAt, DcStep(w), MdNote
    PROVE  DcCut'
<1>1. SUFFICES ASSUME NEW u \in DOMAIN mdAt', NEW p \in DOMAIN mdDoc',
                      mdAt'[u].pc = "cut", mdAt'[u].fd = mdDoc'[p]
               PROVE  mdInode'[mdDoc'[p]] = MdTorn
  BY DEF DcCut, MdContentAt
<1>2. DcMoves(w) /\ u \in DOMAIN mdAt /\ DcShaped(w, mdAt[w])
  BY DcStepPlaced, DcSides DEF DcMoves
<1>3. CASE u = w
  <2>1. DcCuts(w)
    BY <1>1, <1>3, DcInto
  <2>2. mdAt'[w].path = mdAt[w].path
    BY <2>1 DEF DcCuts, DcOpens, DcStays, DcPut
  <2>3. p = mdAt[w].path
    BY <1>1, <1>3, <2>2 DEF DcOpened, DcLost
  <2> QED BY <2>1, <2>3, DcOpensSame DEF DcCuts
<1>4. CASE u # w
  <2>1. mdAt'[u] = mdAt[u] /\ DcShaped(u, mdAt[u])
    BY <1>2, <1>4, DcSides DEF DcMoves
  <2>2. p = mdAt[u].path
    BY <1>1, <2>1 DEF DcOpened, DcLost
  <2>3. /\ mdAt[u].pc = "cut" /\ mdAt[u].kind = "annotate" /\ mdAt[u].fd # 0
        /\ MdAtWork(u) /\ p \in MdTouches(u)
    BY <1>1, <2>1, <2>2 DEF DcShaped, MdAtWork, MdInProgress, MdTouches
  <2>4. mdAt[u].fd \in MdInUse
    BY <1>2, <2>3, DcUsed
  <2>5. CASE DcDocSame(p)
    BY <1>1, <1>2, <2>1, <2>3, <2>5 DEF DcDocSame, DcCut, MdContentAt
  <2>6. CASE DcIsCut(w, p)
    BY <2>6 DEF DcIsCut
  <2>7. CASE DcIsMoved(w, p)
    <3>1. mdAt[w].pc = "target" /\ p \in MdTouches(w)
      BY <2>7 DEF DcIsMoved, DcMovesDoc, MdTouches
    <3> QED BY <1>2, <1>4, <2>3, <3>1, DcRenameMeets DEF DcLost
  <2>8. CASE DcIsWritten(w, p)
    <3>1. CASE DcReplaces(w)
      BY <1>1, <2>1, <2>4, <2>8, <3>1, DcReplacesSame DEF DcIsWritten
    <3>2. CASE DcSwaps(w) /\ MdTmpOf(w) \in DOMAIN mdTmp
      <4>1. mdDoc'[p] = mdTmp[MdTmpOf(w)]
        BY <2>8, <3>2, DcSwapsSame DEF DcIsWritten
      <4>2. mdAt[u].fd = mdTmp[MdTmpOf(w)]
        BY <1>1, <2>1, <4>1
      <4> QED BY <1>2, <2>3, <3>2, <4>2 DEF DcFiled
    <3>3. CASE DcFills(w) \/ DcNotes(w)
      <4>1. mdAt[w].kind \in {"create", "annotate"} /\ mdAt[w].pc \in {"made", "cut"}
        BY <1>2, <3>3 DEF DcShaped, DcFills, DcNotes
      <4>2. MdAtWork(w)
        BY <4>1 DEF MdAtWork, MdInProgress
      <4>3. p \in MdTouches(w)
        BY <2>8 DEF DcIsWritten, MdTouches
      <4>4. MdClashes(w, u) \subseteq mdClash
        BY <1>2, <1>4, <2>3, <4>2, <4>3, DcMeet
      <4>5. "cut" \in MdClashes(w, u)
        BY <2>3, <4>1 DEF MdClashes
      <4> QED BY <4>4, <4>5 DEF DcLost
    <3> QED BY <2>8, <3>1, <3>2, <3>3 DEF DcIsWritten
  <2> QED BY <2>5, <2>6, <2>7, <2>8, DcDocChanges
<1> QED BY <1>3, <1>4

\* Who has something to lose at a document is at work there.
LEMMA DcPendingAtWork ==
    ASSUME DcPlaced, NEW u \in DOMAIN mdAt,
           \/ mdAt[u].pc \in {"made", "cut", "moved", "target", "filled", "enriching", "titling"}
           \/ /\ u \in MdJobs /\ mdAt[u].pc \in {"read", "opened", "written", "staged"}
              /\ mdAt[u].kind \in {"enrich", "rename"}
    PROVE  MdAtWork(u) /\ mdAt[u].path \in MdTouches(u)
<1>1. DcShaped(u, mdAt[u])
  BY DcSides
<1>2. mdAt[u].path \in MdTouches(u)
  BY DEF MdTouches
<1>3. mdAt[u].pc \in MdInProgress
  BY DEF MdInProgress
<1>4. mdAt[u].kind = "resummarize" => mdAt[u].pc \notin {"made", "cut", "moved", "target", "filled",
                                                    "enriching", "titling"}
  BY <1>1, DcSides DEF DcShaped
<1>5. MdAtWork(u)
  BY <1>3, <1>4 DEF MdAtWork
<1> QED BY <1>2, <1>5

\* What another writer has to lose stays, unless the two meet.
LEMMA DcPendingOther ==
    ASSUME DcPlaced, DcFiled, DcFiled', DcNoted, NEW w \in DOMAIN mdAt, DcStep(w),
           NEW u \in DOMAIN mdAt, u # w, u \notin mdMet, DcPending(u)
    PROVE  DcPending(u)'
<1>1. mdAt'[u] = mdAt[u]
  BY DcStepPlaced DEF DcMoves
<1>2. ASSUME MdAtWork(u), mdAt[u].path \in MdTouches(u)
      PROVE  DcDocSame(mdAt[u].path)
  BY <1>2, DcDocTouched, DcMeet
<1>3. mdAt'[u].pc \in {"made", "cut"} =>
          mdAt'[u].path \in DOMAIN mdDoc' /\ mdDoc'[mdAt'[u].path] = mdAt'[u].fd
  BY <1>1, <1>2, DcPendingAtWork DEF DcPending, DcDocSame
<1>4. ASSUME DcHolds(u), MdAtWork(u), mdAt[u].path \in MdTouches(u)
      PROVE  DcHolds(u)'
  BY <1>1, <1>2, <1>4 DEF DcHolds, DcDocSame, MdContentAt, DcHas
<1>5. mdAt'[u].pc \in {"moved", "target", "filled", "enriching", "titling"} => DcHolds(u)'
  BY <1>1, <1>4, DcPendingAtWork DEF DcPending
<1>6. u \in MdJobs /\ mdAt'[u].pc \in {"read", "opened", "written", "staged"}
          /\ mdAt'[u].kind \in {"enrich", "rename"} => DcHolds(u)'
  BY <1>1, <1>4, DcPendingAtWork DEF DcPending
<1>7. u \in MdJobs /\ mdAt'[u].pc \in {"read", "opened", "written", "staged"}
          /\ mdAt'[u].kind = "rename" => DcHas(u, mdAt'[u].read)
  BY <1>1 DEF DcPending
<1> QED BY <1>3, <1>5, <1>6, <1>7 DEF DcPending

\* A writer has what it has written.
LEMMA DcHasNew ==
    ASSUME DcPlaced, NEW w \in DOMAIN mdAt, mdAt[w].kind \in MdDoings,
           w \in MdJobs /\ mdAt[w].kind = "rename" => DcHas(w, mdAt[w].read)
    PROVE  DcHas(w, MdNew(w))
<1>1. DcShaped(w, mdAt[w]) /\ (w \in MdJobs <=> w \notin MdEditors)
  BY DcSides
<1>2. CASE w \in MdJobs
  BY <1>1, <1>2, DcNew DEF DcHas, DcShaped
<1>3. CASE w \notin MdJobs
  BY <1>1, <1>3, DcNew DEF DcHas, DcShaped
<1> QED BY <1>2, <1>3

\* What a writer has to lose itself.
LEMMA DcPendingOwn ==
    ASSUME DcPlaced, DcFiled, DcPlaced', DcFiled', DcStaged, DcOpened, ~DcLost,
           NEW w \in DOMAIN mdAt, DcStep(w), DcPending(w)
    PROVE  DcPending(w)'
<1>1. DcMoves(w) /\ DcShaped(w, mdAt[w]) /\ DcShaped(w, mdAt'[w]) /\ mdAt[w].kind \in MdDoings
      /\ (w \in MdJobs <=> w \notin MdEditors)
  BY DcStepPlaced, DcSides, DcFields
<1>2. ASSUME DcHolds(w), DcDocSame(mdAt[w].path), mdAt'[w].path = mdAt[w].path
      PROVE  DcHolds(w)'
  BY <1>2 DEF DcHolds, DcDocSame, MdContentAt, DcHas
<1>3. ASSUME DcIsWritten(w, mdAt[w].path), DcHas(w, MdNew(w)), mdAt'[w].path = mdAt[w].path
      PROVE  DcHolds(w)'
  BY <1>3 DEF DcHolds, DcIsWritten, MdContentAt, DcHas
<1>4. CASE DcMakes(w) \/ DcCuts(w)
  <2>1. mdAt'[w].path = mdAt[w].path /\ mdAt'[w].pc \in {"made", "cut"}
    BY <1>4 DEF DcMakes, DcCuts, DcOpens, DcStays, DcPut
  <2>2. mdAt[w].path \in DOMAIN mdDoc' /\ mdAt'[w].fd = mdDoc'[mdAt[w].path]
    BY <1>4, DcOpensSame DEF DcMakes, DcCuts
  <2> QED BY <2>1, <2>2 DEF DcPending
<1>5. CASE DcFills(w)
  <2>1. /\ mdAt'[w].path = mdAt[w].path /\ mdAt'[w].pc \in {"filled", "titling"}
        /\ mdAt'[w].kind = "create" /\ mdAt[w].kind = "create" /\ mdAt[w].pc = "made"
    BY <1>1, <1>5 DEF DcFills, DcGoes, DcOver, DcShaped
  <2>2. mdAt[w].path \in DOMAIN mdDoc /\ mdDoc[mdAt[w].path] = mdAt[w].fd
    BY <2>1 DEF DcPending
  <2>3. mdDoc' = mdDoc /\ mdTmp' = mdTmp /\ DcStored(mdAt[w].fd, MdNew(w))
    BY <1>5 DEF DcFills
  <2>4. mdInode'[mdDoc'[mdAt[w].path]] = MdNew(w)
    BY <2>2, <2>3, DcStoresSame
  <2>5. DcHas(w, MdNew(w))
    BY <1>1, <2>1, DcHasNew
  <2>6. DcHolds(w)'
    BY <2>1, <2>2, <2>3, <2>4, <2>5 DEF DcHolds, MdContentAt, DcHas
  <2> QED BY <2>1, <2>6 DEF DcPending
<1>6. CASE DcRecords(w)
  <2>1. /\ mdAt'[w].path = mdAt[w].path /\ mdAt'[w].pc = "enriching" /\ mdAt[w].pc = "filled"
        /\ DcDocSame(mdAt[w].path)
    BY <1>6 DEF DcRecords, DcGoes, DcOver, DcDocSame, mdFiles
  <2>2. DcHolds(w)'
    BY <1>2, <2>1 DEF DcPending
  <2> QED BY <2>1, <2>2 DEF DcPending
<1>7. CASE DcEnriches(w)
  <2>1. /\ mdAt'[w].path = mdAt[w].path /\ mdAt[w].pc = "enriching"
        /\ \/ mdAt'[w].pc = "failed"
           \/ mdAt'[w].pc = "read" /\ mdAt'[w].kind = "enrich"
        /\ DcDocSame(mdAt[w].path)
    BY <1>7 DEF DcEnriches, DcStays, DcPut, DcDocSame, mdFiles
  <2>2. DcHolds(w)'
    BY <1>2, <2>1 DEF DcPending
  <2> QED BY <2>1, <2>2 DEF DcPending
<1>8. CASE DcTitles(w)
  <2>1. CASE DcGoes(w, "titled")
    BY <2>1 DEF DcGoes, DcPending
  <2>2. CASE DcPut(w, "read", "rename", mdAt[w].path, MdContentAt(mdAt[w].path), mdAt[w].fd,
                   mdAt[w].second)
    <3>1. mdAt[w].pc = "titling" /\ DcDocSame(mdAt[w].path)
      BY <1>8 DEF DcTitles, DcDocSame, mdFiles
    <3>2. /\ mdAt'[w].path = mdAt[w].path /\ mdAt'[w].pc = "read"
          /\ mdAt'[w].read = MdContentAt(mdAt[w].path)
      BY <2>2 DEF DcPut
    <3>3. DcHolds(w)
      BY <3>1 DEF DcPending
    <3>4. DcHolds(w)'
      BY <1>2, <3>1, <3>2, <3>3
    <3>5. DcHas(w, mdAt'[w].read)
      BY <3>2, <3>3 DEF DcHolds
    <3> QED BY <3>2, <3>4, <3>5 DEF DcPending, DcHas
  <2> QED BY <1>8, <2>1, <2>2 DEF DcTitles
<1>9. CASE DcOpensTmp(w)
  <2>1. /\ mdAt'[w].path = mdAt[w].path /\ mdAt'[w].pc = "opened" /\ mdAt[w].pc = "read"
        /\ mdAt'[w].kind = mdAt[w].kind /\ mdAt'[w].read = mdAt[w].read
        /\ DcDocSame(mdAt[w].path)
    BY <1>9, DcOpensTmpSame DEF DcOpensTmp, DcStays, DcPut
  <2>2. DcHolds(w) => DcHolds(w)'
    BY <1>2, <2>1
  <2> QED BY <2>1, <2>2 DEF DcPending, DcHas
<1>10. CASE DcWrites(w) \/ (DcValidates(w) /\ DcGoes(w, "staged"))
  <2>1. /\ mdAt'[w].path = mdAt[w].path /\ mdAt'[w].pc \in {"written", "staged"}
        /\ mdAt[w].pc \in {"opened", "written"}
        /\ mdAt'[w].kind = mdAt[w].kind /\ mdAt'[w].read = mdAt[w].read
    BY <1>10 DEF DcWrites, DcValidates, DcGoes, DcOver
  <2>2. DcDocSame(mdAt[w].path)
    BY <1>10, <2>1, DcDocChanges DEF DcIsCut, DcIsWritten, DcIsMoved, DcMakes, DcCuts, DcFills,
       DcNotes, DcReplaces, DcSwaps, DcMovesDoc
  <2>3. DcHolds(w) => DcHolds(w)'
    BY <1>2, <2>1, <2>2
  <2> QED BY <2>1, <2>3 DEF DcPending, DcHas
<1>11. CASE DcTargets(w)
  <2>1. /\ mdAt'[w].path = mdAt[w].path /\ mdAt'[w].pc = "target" /\ mdAt[w].pc = "moved"
        /\ DcDocSame(mdAt[w].path)
    BY <1>11 DEF DcTargets, DcStays, DcPut, DcDocSame, mdFiles
  <2>2. DcHolds(w)'
    BY <1>2, <2>1 DEF DcPending
  <2> QED BY <2>1, <2>2 DEF DcPending
<1>12. CASE DcSwaps(w)
  <2>1. MdTmpOf(w) \in DOMAIN mdTmp /\ mdInode[mdTmp[MdTmpOf(w)]] = MdNew(w)
        /\ mdAt[w].pc = "staged"
    BY <1>12 DEF DcSwaps, DcStaged, DcLost
  <2>2. CASE DcSucceeds(w)
    BY <1>1, <2>2 DEF DcSucceeds, DcGoes, DcPending, DcShaped
  <2>3. CASE DcGoes(w, "enriching") \/ DcGoes(w, "titling") \/ DcGoes(w, "moved")
    <3>1. /\ mdAt'[w].path = mdAt[w].path
          /\ mdAt'[w].pc \in {"enriching", "titling", "moved"}
      BY <2>3 DEF DcGoes, DcOver
    <3>2. w \in MdJobs /\ mdAt[w].kind = "rename" => DcHas(w, mdAt[w].read)
      BY <2>1 DEF DcPending
    <3>3. DcHas(w, MdNew(w))
      BY <1>1, <3>2, DcHasNew
    <3>4. DcIsWritten(w, mdAt[w].path)
      BY <1>12, <2>1, DcSwapsSame DEF DcIsWritten
    <3>5. DcHolds(w)'
      BY <1>3, <3>1, <3>3, <3>4
    <3> QED BY <3>1, <3>5 DEF DcPending
  <2> QED BY <1>12, <2>1, <2>2, <2>3 DEF DcSwaps
<1>13. CASE ~(DcMakes(w) \/ DcCuts(w) \/ DcFills(w) \/ DcRecords(w) \/ DcEnriches(w)
              \/ DcTitles(w) \/ DcOpensTmp(w) \/ DcWrites(w)
              \/ (DcValidates(w) /\ DcGoes(w, "staged")) \/ DcTargets(w) \/ DcSwaps(w))
  <2>1. /\ mdAt'[w].pc \notin {"made", "cut", "moved", "target", "filled", "enriching", "titling",
                               "opened", "written", "staged"}
        /\ w \in MdJobs /\ mdAt'[w].pc = "read" => mdAt'[w].kind = "transcript"
    <3>1. CASE DcResolves(w) \/ DcSettles(w) \/ DcReads(w) \/ DcReplaces(w)
      BY <1>1, <3>1 DEF DcResolves, DcSettles, DcReads, DcReplaces, DcGoes, DcPut
    <3>2. CASE DcRetries(w)
      BY <3>2 DEF DcRetries, DcStays, DcPut
    <3>3. CASE DcSavesNot(w) \/ DcCompares(w) \/ DcCopies(w) \/ DcComparesAgain(w)
      <4>1. DcRefuses(w) \/ mdAt'[w].pc \in {"backup", "copied", "window"}
        BY <3>3 DEF DcSavesNot, DcCompares, DcCopies, DcComparesAgain, DcGoes, DcPut
      <4> QED BY <4>1 DEF DcRefuses, DcGoes
    <3>4. CASE DcNotes(w) \/ DcPrunes(w)
      BY <3>4 DEF DcNotes, DcPrunes, DcSucceeds, DcGoes
    <3>5. CASE DcValidates(w)
      BY <1>13, <3>5 DEF DcValidates, DcRefuses, DcGoes
    <3>6. CASE DcMovesDoc(w)
      BY <3>6 DEF DcMovesDoc, DcRefuses, DcSucceeds, DcGoes
    <3>7. CASE DcDies(w)
      BY <3>7 DEF DcDies, DcGoes, DcStays, DcPut
    <3> QED BY <1>13, <3>1, <3>2, <3>3, <3>4, <3>5, <3>6, <3>7
            DEF DcStep, DcJobStep, DcEditorStep
  <2> QED BY <2>1 DEF DcPending
<1> QED BY <1>4, <1>5, <1>6, <1>7, <1>8, <1>9, <1>10, <1>11, <1>12, <1>13

\* What was in the document that an editor read is in what it writes.
LEMMA DcHasKept ==
    ASSUME DcPlaced, NEW w \in DOMAIN mdAt, w \notin MdJobs, NEW u, DcHas(u, mdAt[w].read)
    PROVE  DcHas(u, MdNew(w))
<1>1. mdAt[w].kind \notin {"create", "transcript", "enrich"}
  BY DcNew
<1>2. MdNew(w).of = mdAt[w].read.of /\ MdNew(w).has = mdAt[w].read.has \cup {w}
  BY <1>1, DcNew
<1> QED BY <1>2 DEF DcHas

\* A step spares what another writer has made.
LEMMA DcSparesOwn ==
    ASSUME DcPlaced, DcFiled, DcPlaced', DcNoted', DcCut, ~DcLost',
           NEW w \in DOMAIN mdAt, DcStep(w), MdNote, NEW u \in DOMAIN mdAt, u # w,
           NEW p, DcHome(u, p)
    PROVE  DcSpares(w, u, p)'
<1>1. DcSpares(w, u, p) /\ p \in DOMAIN mdDoc
  BY DEF DcHome
<1>2. DcShaped(w, mdAt[w]) /\ DcShaped(w, mdAt'[w]) /\ (w \in MdJobs <=> w \notin MdEditors)
  BY DcStepPlaced, DcSides
<1>3. mdAt'[w].pc = "target" => mdAt'[w].target # p
  <2>1. SUFFICES ASSUME mdAt'[w].pc = "target" PROVE mdAt'[w].target # p
    OBVIOUS
  <2>2. mdAt'[w].target \notin DOMAIN mdDoc
    BY <2>1, DcInto DEF DcTargets
  <2> QED BY <1>1, <2>2
<1>4. ASSUME MdAtWork(w)', mdAt'[w].path = p PROVE w \notin MdJobs
  <2>1. SUFFICES ASSUME w \in MdJobs PROVE FALSE
    OBVIOUS
  <2>2. ~DcResolves(w)
    BY <1>1, <1>4 DEF DcResolves, DcPut
  <2>3. MdAtWork(w) /\ mdAt[w].path = p
    BY <1>4, <2>1, <2>2, DcJobStays
  <2> QED BY <1>1, <2>1, <2>3 DEF DcSpares
<1>5. ASSUME MdAtWork(w)', mdAt'[w].path = p,
             mdAt'[w].pc \in {"read", "opened", "written", "staged", "cut", "window"}
      PROVE  DcHas(u, mdAt'[w].read)
  <2>1. w \notin MdJobs /\ w \in MdEditors
    BY <1>2, <1>4, <1>5
  <2>2. mdAt'[w].kind \notin {"transcript", "enrich"}
    BY <1>2, <2>1 DEF DcShaped
  <2>3. \/ /\ mdAt[w].pc \in DcInEdit /\ mdAt'[w].kind = mdAt[w].kind
           /\ mdAt'[w].read = mdAt[w].read /\ mdAt'[w].path = mdAt[w].path
        \/ DcTitles(w)
        \/ DcReads(w)
    BY <1>5, <2>2, DcReadFrom DEF DcInEdit
  <2>4. ~DcTitles(w)
    BY <2>1 DEF DcTitles
  <2>5. DcHas(u, MdContentAt(p)) \/ (\E v \in DOMAIN mdAt : mdAt[v].pc = "cut"
                                         /\ mdAt[v].fd = mdDoc[p] /\ MdContentAt(p) = MdTorn)
    BY <1>1 DEF DcHome, DcCut
  <2>6. CASE DcReads(w)
    <3>1. /\ mdAt'[w].read = MdContentAt(p) /\ mdAt[w].pc = "idle"
          /\ MdContentAt(p).of # MdNone \/ mdAt'[w].kind \in {"annotate", "save"}
      BY <1>5, <2>6 DEF DcReads, DcPut
    <3>2. SUFFICES ASSUME NEW v \in DOMAIN mdAt, mdAt[v].pc = "cut", mdAt[v].fd = mdDoc[p],
                          MdContentAt(p) = MdTorn
                   PROVE  FALSE
      BY <2>5, <3>1
    <3>3. mdAt'[w].kind \in {"annotate", "save"}
      BY <3>1, <3>2, DcConstants
    <3>4. "cut" \in mdClash'
      BY <1>1, <1>5, <2>6, <3>1, <3>2, <3>3, DcReadsTorn
    <3> QED BY <3>4 DEF DcLost
  <2>7. CASE /\ mdAt[w].pc \in DcInEdit /\ mdAt'[w].kind = mdAt[w].kind
             /\ mdAt'[w].read = mdAt[w].read /\ mdAt'[w].path = mdAt[w].path
    <3>1. CASE MdAtWork(w)
      <4>1. mdAt[w].pc \notin {"backup", "copied"}
        BY <1>2, <3>1 DEF DcShaped, MdAtWork
      <4> QED BY <1>1, <1>5, <2>7, <3>1, <4>1 DEF DcSpares, DcInEdit
    <3>2. CASE ~MdAtWork(w)
      <4>1. mdAt[w].kind = "resummarize"
        BY <2>7, <3>2 DEF MdAtWork, DcInEdit, MdInProgress
      <4>2. mdAt'[w].pc = "window"
        BY <1>5, <2>7, <4>1 DEF MdAtWork
      <4>3. MdUnchanged(w) /\ mdAt[w].pc = "copied"
        BY <4>2, DcInto DEF DcComparesAgain
      <4>4. mdAt[w].read.of # MdNone
        BY <1>2, <2>1, <4>1, <4>3 DEF DcShaped
      <4>5. MdContentAt(p) = mdAt[w].read
        BY <1>5, <2>7, <4>3 DEF MdUnchanged
      <4>6. MdContentAt(p) # MdTorn
        BY <4>4, <4>5, DcConstants
      <4> QED BY <2>5, <2>7, <4>5, <4>6
    <3> QED BY <3>1, <3>2
  <2> QED BY <2>3, <2>4, <2>6, <2>7
<1> QED BY <1>3, <1>4, <1>5 DEF DcSpares, DcHas

\* A writer's step at a document that holds what another one made: it is still there.
LEMMA DcHomeHolds ==
    ASSUME DcPlaced, DcFiled, DcPlaced', DcFiled', DcStaged, DcOpened, ~DcLost, ~DcLost',
           NEW w \in DOMAIN mdAt, DcStep(w), NEW u \in DOMAIN mdAt, u # w,
           NEW p, DcHome(u, p), ~DcIsMoved(w, p)
    PROVE  /\ p \in DOMAIN mdDoc'
           /\ \/ DcHas(u, MdContentAt(p))'
              \/ \E v \in DOMAIN mdAt' :
                    mdAt'[v].pc = "cut" /\ mdAt'[v].fd = mdDoc'[p] /\ DcHas(u, mdAt'[v].read)
<1>1. DcSpares(w, u, p) /\ p \in DOMAIN mdDoc
  BY DEF DcHome
<1>2. /\ DcMoves(w) /\ DOMAIN mdAt' = DOMAIN mdAt
      /\ DcShaped(w, mdAt[w]) /\ (w \in MdJobs <=> w \notin MdEditors)
  BY DcStepPlaced, DcSides DEF DcMoves
<1>3. CASE DcDocSame(p)
  <2>1. p \in DOMAIN mdDoc' /\ mdDoc'[p] = mdDoc[p] /\ mdInode'[mdDoc'[p]] = mdInode[mdDoc[p]]
    BY <1>1, <1>3 DEF DcDocSame
  <2>2. CASE DcHas(u, MdContentAt(p))
    BY <2>1, <2>2 DEF MdContentAt, DcHas
  <2>3. CASE \E v \in DOMAIN mdAt :
                mdAt[v].pc = "cut" /\ mdAt[v].fd = mdDoc[p] /\ DcHas(u, mdAt[v].read)
    <3>1. PICK v \in DOMAIN mdAt :
                mdAt[v].pc = "cut" /\ mdAt[v].fd = mdDoc[p] /\ DcHas(u, mdAt[v].read)
      BY <2>3
    <3>2. CASE v # w
      <4>1. mdAt'[v] = mdAt[v]
        BY <1>2, <3>2 DEF DcMoves
      <4> QED BY <1>2, <2>1, <3>1, <4>1
    <3>3. CASE v = w
      <4>1. DcNotes(w) \/ DcDies(w)
        BY <3>1, <3>3
           DEF DcStep, DcJobStep, DcEditorStep, DcResolves, DcMakes, DcFills, DcRecords,
               DcEnriches, DcRetries, DcTitles, DcSettles, DcReads, DcSavesNot, DcCuts,
               DcCompares, DcCopies, DcComparesAgain, DcReplaces, DcPrunes, DcOpensTmp, DcWrites,
               DcValidates, DcSwaps, DcTargets, DcMovesDoc
      <4>2. ~DcDies(w)
        <5>1. SUFFICES ASSUME DcDies(w) PROVE FALSE
          OBVIOUS
        <5>2. w \in MdWriters
          BY DEF DcPlaced
        <5>3. <<w, "cut">> \in mdCrashed'
          BY <3>1, <3>3, <5>1, <5>2 DEF DcDies, MdLeft
        <5> QED BY <1>2, <5>3 DEF DcLost, MdDied
      <4>3. DcNotes(w)
        BY <4>1, <4>2
      <4>4. mdInode'[mdDoc'[p]] = MdNew(w)
        BY <1>1, <2>1, <3>1, <3>3, <4>3, DcStoresSame DEF DcNotes
      <4>5. DcHas(u, MdNew(w))
        BY <1>2, <3>1, <3>3, <4>3, DcHasKept DEF DcNotes
      <4> QED BY <2>1, <4>4, <4>5 DEF MdContentAt, DcHas
    <3> QED BY <3>2, <3>3
  <2> QED BY <2>2, <2>3 DEF DcHome
<1>4. CASE DcIsCut(w, p)
  <2>1. /\ mdAt'[w].path = mdAt[w].path /\ mdAt'[w].read = mdAt[w].read
        /\ mdAt[w].pc \in {"resolved", "read"} /\ mdAt[w].kind # "resummarize"
        /\ mdAt[w].path = p
    BY <1>2, <1>4 DEF DcIsCut, DcMakes, DcCuts, DcOpens, DcStays, DcPut, DcShaped
  <2>2. MdAtWork(w)
    BY <2>1 DEF MdAtWork, MdInProgress
  <2>3. w \notin MdJobs
    BY <1>1, <2>1, <2>2 DEF DcSpares
  <2>4. DcCuts(w)
    BY <1>4, <2>3 DEF DcIsCut, DcMakes
  <2>5. mdAt[w].pc = "read" /\ mdAt'[w].pc = "cut"
    BY <2>4 DEF DcCuts, DcOpens, DcStays, DcPut
  <2>6. DcHas(u, mdAt[w].read)
    BY <1>1, <2>1, <2>2, <2>5 DEF DcSpares
  <2> QED BY <1>2, <1>4, <2>1, <2>5, <2>6 DEF DcIsCut
<1>5. CASE DcIsWritten(w, p)
  <2>1. mdAt[w].path = p /\ mdAt[w].pc \in {"made", "cut", "window", "staged"}
    BY <1>5 DEF DcIsWritten, DcFills, DcNotes, DcReplaces, DcSwaps
  <2>2. MdAtWork(w)
    BY <1>2, <2>1 DEF MdAtWork, MdInProgress, DcShaped
  <2>3. w \notin MdJobs
    BY <1>1, <2>1, <2>2 DEF DcSpares
  <2>4. mdAt[w].pc \in {"cut", "window", "staged"}
    BY <1>5, <2>3 DEF DcIsWritten, DcFills, DcNotes, DcReplaces, DcSwaps
  <2>5. DcHas(u, mdAt[w].read)
    BY <1>1, <2>1, <2>2, <2>4 DEF DcSpares
  <2>6. DcHas(u, MdNew(w))
    BY <2>3, <2>5, DcHasKept
  <2> QED BY <1>5, <2>6 DEF DcIsWritten, MdContentAt, DcHas
<1> QED BY <1>3, <1>4, <1>5, DcDocChanges

\* What stays of a home is all but what the writer itself changes.
LEMMA DcSparesOther ==
    ASSUME DcPlaced, NEW w \in DOMAIN mdAt, DcStep(w), NEW v \in DOMAIN mdAt, v # w,
           NEW u, NEW p, DcSpares(v, u, p)
    PROVE  DcSpares(v, u, p)'
<1>1. mdAt'[v] = mdAt[v]
  BY DcStepPlaced DEF DcMoves
<1> QED BY <1>1 DEF DcSpares, MdAtWork, DcHas

\* A rename moves what another writer has made to its new name, where nobody is.
LEMMA DcHomeMoves ==
    ASSUME DcPlaced, DcFiled, DcPlaced', DcFiled', DcNoted, ~DcLost,
           NEW w \in DOMAIN mdAt, DcStep(w), NEW u \in DOMAIN mdAt, u # w,
           NEW p, DcHome(u, p), DcIsMoved(w, p), NEW q, q = mdAt[w].target
    PROVE  DcHome(u, q)'
<1>1. DcSpares(w, u, p) /\ p \in DOMAIN mdDoc /\ mdAt[w].pc = "target" /\ DcMovesDoc(w)
  BY DEF DcHome, DcIsMoved, DcMovesDoc
<1>2. p # q /\ p = mdAt[w].path
  BY <1>1 DEF DcSpares, DcIsMoved
<1>3. /\ DcMoves(w) /\ DOMAIN mdAt' = DOMAIN mdAt
      /\ DcShaped(w, mdAt[w]) /\ (w \in MdJobs <=> w \notin MdEditors)
  BY DcStepPlaced, DcSides DEF DcMoves
<1>4. /\ q \in DOMAIN mdDoc' /\ mdDoc'[q] = mdDoc[p]
      /\ mdInode'[mdDoc'[q]] = mdInode[mdDoc[p]]
  BY <1>1, <1>2, DcMovesSame
<1>5. MdAtWork(w) /\ p \in MdTouches(w) /\ q \in MdTouches(w)
  BY <1>1, <1>2, <1>3 DEF MdAtWork, MdInProgress, MdTouches, DcShaped
<1>6. \/ DcHas(u, MdContentAt(q))'
      \/ \E v \in DOMAIN mdAt' :
            mdAt'[v].pc = "cut" /\ mdAt'[v].fd = mdDoc'[q] /\ DcHas(u, mdAt'[v].read)
  <2>1. CASE DcHas(u, MdContentAt(p))
    BY <1>4, <2>1 DEF MdContentAt, DcHas
  <2>2. CASE \E v \in DOMAIN mdAt :
                mdAt[v].pc = "cut" /\ mdAt[v].fd = mdDoc[p] /\ DcHas(u, mdAt[v].read)
    <3>1. PICK v \in DOMAIN mdAt :
                mdAt[v].pc = "cut" /\ mdAt[v].fd = mdDoc[p] /\ DcHas(u, mdAt[v].read)
      BY <2>2
    <3>2. mdAt'[v] = mdAt[v]
      BY <1>1, <1>3, <3>1 DEF DcMoves
    <3> QED BY <1>3, <1>4, <3>1, <3>2
  <2> QED BY <2>1, <2>2 DEF DcHome
<1>7. ASSUME NEW v \in DOMAIN mdAt, v # u PROVE DcSpares(v, u, q)'
  <2>1. CASE v = w
    <3>1. mdAt'[w].pc = IF w \in MdEditors THEN "done" ELSE "titled"
      BY <1>1, <1>2 DEF DcMovesDoc, MdExists, DcSucceeds, DcGoes
    <3>2. w \notin MdJobs
      BY <1>1, <1>2, <1>5 DEF DcSpares
    <3>3. mdAt'[w].pc = "done"
      BY <1>3, <3>1, <3>2
    <3>4. ~MdAtWork(w)'
      BY <3>3 DEF MdAtWork, MdInProgress
    <3> QED BY <2>1, <3>3, <3>4 DEF DcSpares
  <2>2. CASE v # w
    <3>1. mdAt'[v] = mdAt[v] /\ DcShaped(v, mdAt[v])
      BY <1>3, <2>2, DcSides DEF DcMoves
    <3>2. ASSUME MdAtWork(v), q \in MdTouches(v) PROVE FALSE
      BY <1>1, <1>5, <2>2, <3>2, DcRenameMeets DEF DcLost
    <3>3. ~(MdAtWork(v) /\ mdAt[v].path = q)
      BY <3>2 DEF MdTouches
    <3>4. ~(mdAt[v].pc = "target" /\ mdAt[v].target = q)
      BY <3>1, <3>2 DEF MdTouches, MdAtWork, MdInProgress, DcShaped
    <3>5. ~(MdAtWork(v)' /\ mdAt'[v].path = q) /\ ~(mdAt'[v].pc = "target" /\ mdAt'[v].target = q)
      BY <3>1, <3>3, <3>4 DEF MdAtWork
    <3> QED BY <3>5 DEF DcSpares
  <2> QED BY <2>1, <2>2
<1> QED BY <1>3, <1>4, <1>6, <1>7 DEF DcHome

\* What a writer has made stays while others write.
LEMMA DcHomeOther ==
    ASSUME DcPlaced, DcFiled, DcPlaced', DcFiled', DcNoted, DcNoted', DcStaged, DcOpened, DcCut,
           ~DcLost, ~DcLost', NEW w \in DOMAIN mdAt, DcStep(w), MdNote,
           NEW u \in DOMAIN mdAt, u # w, NEW p \in MdPaths, DcHome(u, p)
    PROVE  \E q \in MdPaths : DcHome(u, q)'
<1>1. CASE DcIsMoved(w, p)
  <2>1. PICK q \in MdPaths : q = mdAt[w].target
    BY DcSides, DcFields
  <2>2. DcHome(u, q)'
    BY <1>1, <2>1, DcHomeMoves
  <2> QED BY <2>2
<1>2. CASE ~DcIsMoved(w, p)
  <2>1. DOMAIN mdAt' = DOMAIN mdAt
    BY DcStepPlaced DEF DcMoves
  <2>2. /\ p \in DOMAIN mdDoc'
        /\ \/ DcHas(u, MdContentAt(p))'
           \/ \E v \in DOMAIN mdAt' :
                 mdAt'[v].pc = "cut" /\ mdAt'[v].fd = mdDoc'[p] /\ DcHas(u, mdAt'[v].read)
    BY <1>2, DcHomeHolds
  <2>3. ASSUME NEW v \in DOMAIN mdAt, v # u PROVE DcSpares(v, u, p)'
    <3>1. CASE v = w
      BY <3>1, DcSparesOwn
    <3>2. CASE v # w
      BY <2>3, <3>2, DcSparesOther DEF DcHome
    <3> QED BY <3>1, <3>2
  <2>4. DcHome(u, p)'
    BY <2>1, <2>2, <2>3 DEF DcHome
  <2> QED BY <2>4
<1> QED BY <1>1, <1>2

\* It stays when the writer settles, prunes its backups or dies.
LEMMA DcHomeOwn ==
    ASSUME DcPlaced, DcFiled, DcFiled', DcMarked, NEW w \in DOMAIN mdAt, DcStep(w), DcMade(w),
           NEW p, DcHome(w, p)
    PROVE  DcHome(w, p)'
<1>1. mdAt[w].pc \in {"prune", "titled"}
  BY DcDoneStep DEF DcMade, DcMarked
<1>2. DcPrunes(w) \/ DcSettles(w) \/ DcDies(w)
  BY <1>1 DEF DcStep, DcJobStep, DcEditorStep, DcResolves, DcMakes, DcFills, DcRecords,
       DcEnriches, DcRetries, DcTitles, DcReads, DcSavesNot, DcCuts, DcNotes,
       DcCompares, DcCopies, DcComparesAgain, DcReplaces, DcOpensTmp, DcWrites,
       DcValidates, DcSwaps, DcTargets, DcMovesDoc
<1>3. DcDocSame(p)
  BY <1>2, DcIsQuiet, DcQuietSame, DcDiesSame DEF DcCalm
<1>4. DOMAIN mdAt' = DOMAIN mdAt /\ (\A v \in DOMAIN mdAt : v # w => mdAt'[v] = mdAt[v])
  BY DcStepPlaced DEF DcMoves
<1>5. /\ p \in DOMAIN mdDoc' /\ mdDoc'[p] = mdDoc[p]
      /\ mdInode'[mdDoc'[p]] = mdInode[mdDoc[p]]
  BY <1>3 DEF DcDocSame, DcHome
<1>6. \A v \in DOMAIN mdAt \ {w} : DcSpares(v, w, p)'
  BY DcSparesOther DEF DcHome
<1>7. \/ DcHas(w, MdContentAt(p))'
      \/ \E v \in DOMAIN mdAt' :
            mdAt'[v].pc = "cut" /\ mdAt'[v].fd = mdDoc'[p] /\ DcHas(w, mdAt'[v].read)
  <2>1. CASE DcHas(w, MdContentAt(p))
    BY <1>5, <2>1 DEF MdContentAt, DcHas
  <2>2. CASE \E v \in DOMAIN mdAt :
                mdAt[v].pc = "cut" /\ mdAt[v].fd = mdDoc[p] /\ DcHas(w, mdAt[v].read)
    BY <1>1, <1>4, <1>5, <2>2
  <2> QED BY <2>1, <2>2 DEF DcHome
<1> QED BY <1>4, <1>5, <1>6, <1>7 DEF DcHome

\* The steps after which a writer has made something.
LEMMA DcIntoMade ==
    ASSUME DcPlaced, NEW w \in DOMAIN mdAt, DcStep(w), mdAt'[w].pc \in {"prune", "titled", "done"}
    PROVE  \/ DcTitles(w) \/ DcSwaps(w) \/ DcMovesDoc(w) \/ DcReplaces(w) \/ DcNotes(w)
           \/ DcPrunes(w) \/ DcSettles(w)
           \/ DcValidates(w) /\ w \in MdJobs /\ mdAt[w].kind = "rename"
<1>1. ~DcResolves(w) /\ ~DcReads(w)
  BY DEF DcResolves, DcReads, DcPut
<1>2. ~DcMakes(w) /\ ~DcCuts(w)
  BY DEF DcMakes, DcCuts, DcOpens, DcStays, DcPut
<1>3. ~DcFills(w) /\ ~DcRecords(w) /\ ~DcWrites(w)
  BY DEF DcFills, DcRecords, DcWrites, DcGoes
<1>4. ~DcEnriches(w) /\ ~DcRetries(w) /\ ~DcOpensTmp(w) /\ ~DcTargets(w)
  BY DEF DcEnriches, DcRetries, DcOpensTmp, DcTargets, DcStays, DcPut
<1>5. ~DcDies(w)
  BY DEF DcDies, DcGoes, DcStays, DcPut
<1>6. DcRefuses(w) => w \notin MdEditors /\ mdAt[w].kind = "rename"
  BY DEF DcRefuses, DcGoes
<1>7. ~DcSavesNot(w)
  BY <1>6 DEF DcSavesNot
<1>8. ~DcCompares(w)
  BY <1>6 DEF DcCompares, DcPut
<1>9. ~DcCopies(w)
  BY <1>6 DEF DcCopies, DcGoes
<1>10. ~DcComparesAgain(w)
  BY <1>6 DEF DcComparesAgain, DcGoes
<1>11. CASE DcValidates(w)
  <2>1. ~DcGoes(w, "staged")
    BY DEF DcGoes
  <2>2. DcRefuses(w)
    BY <1>11, <2>1 DEF DcValidates
  <2> QED BY <1>6, <1>11, <2>2, DcSides
<1> QED BY <1>1, <1>2, <1>3, <1>4, <1>5, <1>7, <1>8, <1>9, <1>10, <1>11
        DEF DcStep, DcJobStep, DcEditorStep

\* Then it is in a document the writer was at.
LEMMA DcMakesIt ==
    ASSUME DcPlaced, DcFiled, DcFiled', DcMarked, DcMarked', DcStaged, DcOpened, ~DcLost,
           NEW w \in DOMAIN mdAt, DcStep(w), DcPending(w), ~DcMade(w), DcMade(w)'
    PROVE  /\ MdAtWork(w)
           /\ \E q \in MdPaths :
                 q \in MdTouches(w) /\ q \in DOMAIN mdDoc' /\ DcHas(w, MdContentAt(q))'
<1>1. /\ DcShaped(w, mdAt[w]) /\ (w \in MdJobs <=> w \notin MdEditors) /\ mdAt[w].kind \in MdDoings
      /\ mdAt[w].path \in MdPaths /\ mdAt[w].target \in MdPaths
  BY DcSides, DcFields
<1>2. mdAt'[w].pc \in {"prune", "titled", "done"}
  BY DEF DcMade, DcMarked
<1>3. mdAt[w].path \in MdTouches(w)
  BY DEF MdTouches
<1>4. ASSUME mdAt[w].pc \in {"titling", "staged", "target", "window", "cut", "written"}
      PROVE  MdAtWork(w)
  BY <1>1, <1>4 DEF MdAtWork, MdInProgress, DcShaped
<1>5. ASSUME DcHolds(w), DcDocSame(mdAt[w].path)
      PROVE  \E q \in MdPaths :
                q \in MdTouches(w) /\ q \in DOMAIN mdDoc' /\ DcHas(w, MdContentAt(q))'
  <2>1. PICK q \in MdPaths : q = mdAt[w].path
    BY <1>1
  <2>2. q \in DOMAIN mdDoc' /\ DcHas(w, MdContentAt(q))'
    BY <1>5, <2>1 DEF DcHolds, DcDocSame, MdContentAt, DcHas
  <2> QED BY <1>3, <2>1, <2>2
<1>6. ASSUME DcIsWritten(w, mdAt[w].path), DcHas(w, MdNew(w))
      PROVE  \E q \in MdPaths :
                q \in MdTouches(w) /\ q \in DOMAIN mdDoc' /\ DcHas(w, MdContentAt(q))'
  <2>1. PICK q \in MdPaths : q = mdAt[w].path
    BY <1>1
  <2>2. q \in DOMAIN mdDoc' /\ DcHas(w, MdContentAt(q))'
    BY <1>6, <2>1 DEF DcIsWritten, MdContentAt, DcHas
  <2> QED BY <1>3, <2>1, <2>2
<1>7. CASE DcTitles(w)
  <2>1. mdAt[w].pc = "titling" /\ DcDocSame(mdAt[w].path)
    BY <1>7 DEF DcTitles, DcDocSame, mdFiles
  <2> QED BY <1>4, <1>5, <2>1 DEF DcPending
<1>8. CASE DcValidates(w) /\ w \in MdJobs /\ mdAt[w].kind = "rename"
  <2>1. mdAt[w].pc = "written" /\ DcDocSame(mdAt[w].path)
    BY <1>8, DcValidatesSame DEF DcValidates
  <2> QED BY <1>4, <1>5, <1>8, <2>1 DEF DcPending
<1>9. CASE DcSwaps(w)
  <2>1. /\ MdTmpOf(w) \in DOMAIN mdTmp /\ mdInode[mdTmp[MdTmpOf(w)]] = MdNew(w)
        /\ mdAt[w].pc = "staged"
    BY <1>9 DEF DcSwaps, DcStaged, DcLost
  <2>2. DcIsWritten(w, mdAt[w].path)
    BY <1>9, <2>1, DcSwapsSame DEF DcIsWritten
  <2>3. w \in MdJobs /\ mdAt[w].kind = "rename" => DcHas(w, mdAt[w].read)
    BY <2>1 DEF DcPending
  <2>4. DcHas(w, MdNew(w))
    BY <1>1, <2>3, DcHasNew
  <2> QED BY <1>4, <1>6, <2>1, <2>2, <2>4
<1>10. CASE DcMovesDoc(w)
  <2>1. mdAt[w].pc = "target" /\ DcHolds(w) /\ mdAt[w].path \in DOMAIN mdDoc
    BY <1>10 DEF DcMovesDoc, DcPending, DcHolds
  <2>2. PICK q \in MdPaths : q = mdAt[w].target
    BY <1>1
  <2>3. q \in DOMAIN mdDoc' /\ mdInode'[mdDoc'[q]] = mdInode[mdDoc[mdAt[w].path]]
    BY <1>10, <2>1, <2>2, DcMovesSame
  <2>4. DcHas(w, MdContentAt(q))'
    BY <2>1, <2>3 DEF DcHolds, MdContentAt, DcHas
  <2>5. q \in MdTouches(w)
    BY <2>1, <2>2 DEF MdTouches
  <2> QED BY <1>4, <2>1, <2>3, <2>4, <2>5
<1>11. CASE DcReplaces(w)
  <2>1. mdAt[w].pc = "window" /\ w \in MdEditors
    BY <1>11 DEF DcReplaces
  <2>2. DcIsWritten(w, mdAt[w].path)
    BY <1>11, DcReplacesSame DEF DcIsWritten
  <2>3. DcHas(w, MdNew(w))
    BY <1>1, <2>1, DcHasNew
  <2> QED BY <1>4, <1>6, <2>1, <2>2, <2>3
<1>12. CASE DcNotes(w)
  <2>1. /\ mdAt[w].pc = "cut" /\ w \in MdEditors
        /\ mdDoc' = mdDoc /\ mdTmp' = mdTmp /\ DcStored(mdAt[w].fd, MdNew(w))
    BY <1>12 DEF DcNotes
  <2>2. mdAt[w].path \in DOMAIN mdDoc /\ mdDoc[mdAt[w].path] = mdAt[w].fd
    BY <2>1 DEF DcPending
  <2>3. mdInode'[mdDoc'[mdAt[w].path]] = MdNew(w)
    BY <2>1, <2>2, DcStoresSame
  <2>4. DcIsWritten(w, mdAt[w].path)
    BY <1>12, <2>1, <2>2, <2>3 DEF DcIsWritten
  <2>5. DcHas(w, MdNew(w))
    BY <1>1, <2>1, DcHasNew
  <2> QED BY <1>4, <1>6, <2>1, <2>4, <2>5
<1>13. ~DcPrunes(w) /\ ~DcSettles(w)
  BY DEF DcPrunes, DcSettles, DcMade
<1> QED BY <1>2, <1>7, <1>8, <1>9, <1>10, <1>11, <1>12, <1>13, DcIntoMade

\* Nobody else is there who would take it away.
LEMMA DcHomeNew ==
    ASSUME DcPlaced, DcFiled, DcFiled', DcMarked, DcMarked', DcNoted, DcStaged, DcOpened, ~DcLost,
           NEW w \in DOMAIN mdAt, DcStep(w), DcPending(w), w \notin mdMet, ~DcMade(w), DcMade(w)'
    PROVE  \E q \in MdPaths : DcHome(w, q)'
<1>1. PICK q \in MdPaths :
          q \in MdTouches(w) /\ q \in DOMAIN mdDoc' /\ DcHas(w, MdContentAt(q))'
  BY DcMakesIt
<1>2. MdAtWork(w) /\ DOMAIN mdAt' = DOMAIN mdAt
  BY DcMakesIt, DcStepPlaced DEF DcMoves
<1>3. ASSUME NEW v \in DOMAIN mdAt, v # w PROVE DcSpares(v, w, q)'
  <2>1. mdAt'[v] = mdAt[v] /\ DcShaped(v, mdAt[v])
    BY <1>3, DcStepPlaced, DcSides DEF DcMoves
  <2>2. ~(MdAtWork(v) /\ q \in MdTouches(v))
    BY <1>1, <1>2, <1>3, DcMeet
  <2>3. ~(MdAtWork(v) /\ mdAt[v].path = q)
    BY <2>2 DEF MdTouches
  <2>4. ~(mdAt[v].pc = "target" /\ mdAt[v].target = q)
    BY <2>1, <2>2 DEF MdTouches, MdAtWork, MdInProgress, DcShaped
  <2>5. ~(MdAtWork(v)' /\ mdAt'[v].path = q) /\ ~(mdAt'[v].pc = "target" /\ mdAt'[v].target = q)
    BY <2>1, <2>3, <2>4 DEF MdAtWork
  <2> QED BY <2>5 DEF DcSpares
<1>4. DcHome(w, q)'
  BY <1>1, <1>2, <1>3 DEF DcHome
<1> QED BY <1>4

\* What is made and what is pending is kept by every step.
LEMMA DcKeptStep ==
    ASSUME DcPlaced, DcFiled, DcPlaced', DcFiled', DcMarked, DcMarked', DcNoted, DcNoted',
           DcStaged, DcOpened, DcOpened', DcKept, NEW w \in DOMAIN mdAt, DcStep(w), MdNote
    PROVE  DcKept'
<1>1. SUFFICES ASSUME ~DcLost' PROVE
          /\ DcCut'
          /\ \A u \in DOMAIN mdAt' \ mdMet' :
                DcPending(u)' /\ (DcMade(u)' => \E p \in MdPaths : DcHome(u, p)')
  BY DEF DcKept
<1>2. ~DcLost
  BY <1>1, DcLostGrows
<1>3. /\ DcCut
      /\ \A u \in DOMAIN mdAt \ mdMet :
            DcPending(u) /\ (DcMade(u) => \E p \in MdPaths : DcHome(u, p))
  BY <1>2 DEF DcKept
<1>4. DcCut'
  BY <1>1, <1>2, <1>3, DcCutStep
<1>5. DcMoves(w) /\ DOMAIN mdAt' = DOMAIN mdAt /\ mdMet \subseteq mdMet'
  BY DcStepPlaced, DcNoteGrows DEF DcMoves
<1>6. ASSUME NEW u \in DOMAIN mdAt \ mdMet'
      PROVE  DcPending(u)' /\ (DcMade(u)' => \E p \in MdPaths : DcHome(u, p)')
  <2>1. u \notin mdMet /\ DcPending(u) /\ (DcMade(u) => \E p \in MdPaths : DcHome(u, p))
    BY <1>3, <1>5, <1>6
  <2>2. CASE u = w
    <3>1. DcPending(u)'
      BY <1>2, <2>1, <2>2, DcPendingOwn
    <3>2. ASSUME DcMade(u)' PROVE \E p \in MdPaths : DcHome(u, p)'
      <4>1. CASE DcMade(u)
        BY <2>1, <2>2, <4>1, DcHomeOwn
      <4>2. CASE ~DcMade(u)
        BY <1>2, <2>1, <2>2, <3>2, <4>2, DcHomeNew
      <4> QED BY <4>1, <4>2
    <3> QED BY <3>1, <3>2
  <2>3. CASE u # w
    <3>1. DcPending(u)'
      BY <2>1, <2>3, DcPendingOther
    <3>2. ASSUME DcMade(u)' PROVE \E p \in MdPaths : DcHome(u, p)'
      <4>1. mdAt'[u] = mdAt[u]
        BY <1>5, <2>3 DEF DcMoves
      <4>2. u \in mdDone' => u \in mdDone
        BY <2>3, DcDoneStep
      <4>3. DcMade(u)
        BY <3>2, <4>1, <4>2 DEF DcMade
      <4>4. PICK p \in MdPaths : DcHome(u, p)
        BY <2>1, <4>3
      <4> QED BY <1>1, <1>2, <1>3, <2>3, <4>4, DcHomeOther
    <3> QED BY <3>1, <3>2
  <2> QED BY <2>2, <2>3
<1> QED BY <1>4, <1>5, <1>6

-----------------------------------------------------------------------------
(* The invariant *)

\* The inductive invariant.
DcInv ==
    /\ DcPlaced /\ DcFiled /\ DcMarked /\ DcNoted /\ DcStaged /\ DcOpened /\ DcWhole
    /\ DcCompared /\ DcBackups /\ DcOne /\ DcKept

\* What there is at first: writers that have not begun, or editors and the document
\* of a pipeline that is done.
DcFirst ==
    /\ DOMAIN mdAt \subseteq MdWriters
    /\ \A w \in DOMAIN mdAt :
          /\ mdAt[w] \in DcPlaces /\ mdAt[w].pc \in {"idle", "done"}
          /\ mdAt[w].kind = (IF w \in MdJobs THEN "create" ELSE "rename")
          /\ mdAt[w].fd = 0 /\ mdAt[w].second = 0 /\ mdAt[w].path = MdNowhere
          /\ mdAt[w].pc = "done" => w \in MdJobs
    /\ DOMAIN mdTmp = {} /\ mdDone = {} /\ mdMet = {} /\ mdClash = {} /\ mdTried = {}
    /\ mdCrashed = {} /\ mdSecond = 0
    /\ \/ /\ DOMAIN mdDoc = {} /\ DOMAIN mdInode = {} /\ DOMAIN mdBackup = {}
          /\ \A w \in DOMAIN mdAt : mdAt[w].pc = "idle"
       \/ \E j \in MdJobs \cap DOMAIN mdAt :
             /\ DOMAIN mdDoc = {MdNowhere} /\ mdDoc[MdNowhere] = 1 /\ DOMAIN mdInode = {1}
             /\ mdInode[1] = [of |-> j, part |-> "full", has |-> {}]
             /\ DOMAIN mdBackup = {<<MdNowhere, 0>>} /\ mdBackup[<<MdNowhere, 0>>] = mdInode[1]
             /\ mdAt[j].pc = "done"
             /\ \A w \in DOMAIN mdAt \ {j} : mdAt[w].pc = "idle" /\ w \in MdEditors

\* What the specification begins with.
LEMMA DcInitFirst ==
    ASSUME MeetingDocumentInit
    PROVE  DcFirst
<1>1. PICK there \in MdThere :
        LET earlier == IF there # {} /\ there \subseteq MdEditors
                       THEN {CHOOSE j \in MdJobs : TRUE} ELSE {}
            written == [j \in earlier |-> [of |-> j, part |-> "full", has |-> {}]] IN
        /\ mdDoc = [p \in {MdNowhere : j \in earlier} |-> 1]
        /\ mdTmp = [t \in {} |-> 0]
        /\ mdInode = [i \in {1 : j \in earlier} |-> CHOOSE c \in Range(written) : TRUE]
        /\ mdAt = [w \in there \cup earlier |->
              [pc |-> IF w \in there THEN "idle" ELSE "done",
               kind |-> IF w \in MdJobs THEN "create" ELSE "rename",
               path |-> MdNowhere, target |-> MdNowhere, read |-> MdTorn, fd |-> 0, second |-> 0]]
        /\ mdDone = {} /\ mdMet = {} /\ mdClash = {} /\ mdTried = {} /\ mdCrashed = {}
        /\ mdBackup = [n \in {<<MdNowhere, 0>> : j \in earlier} |-> mdInode[1]]
        /\ mdSecond = 0
  BY DEF MeetingDocumentInit
<1> DEFINE J == CHOOSE j \in MdJobs : TRUE
           place(w) ==
              [pc |-> IF w \in there THEN "idle" ELSE "done",
               kind |-> IF w \in MdJobs THEN "create" ELSE "rename",
               path |-> MdNowhere, target |-> MdNowhere, read |-> MdTorn, fd |-> 0, second |-> 0]
<1>2. J \in MdJobs
  BY MdAssumption
<1>3. there \subseteq MdWriters /\ J \in MdWriters
  BY <1>2, MdAssumption DEF MdWriters, MdEditors
<1>4. MdNowhere \in MdPaths /\ MdTorn \in MdContent /\ 0 \in 0..MdInodes /\ 0 \in 0..MdSeconds
  BY DcConstants
<1>5. ASSUME NEW w PROVE place(w) \in DcPlaces
  BY <1>4 DEF DcPlaces, MdInProgress, MdDoings
<1>6. /\ DOMAIN mdTmp = {} /\ mdDone = {} /\ mdMet = {} /\ mdClash = {} /\ mdTried = {}
      /\ mdCrashed = {} /\ mdSecond = 0
  BY <1>1
<1>7. CASE ~(there # {} /\ there \subseteq MdEditors)
  <2>1. mdAt = [w \in there |-> place(w)]
    BY <1>1, <1>7
  <2>2. DOMAIN mdDoc = {} /\ DOMAIN mdInode = {} /\ DOMAIN mdBackup = {}
    BY <1>1, <1>7
  <2>3. ASSUME NEW w \in DOMAIN mdAt
        PROVE  /\ mdAt[w] \in DcPlaces /\ mdAt[w].pc = "idle"
               /\ mdAt[w].kind = (IF w \in MdJobs THEN "create" ELSE "rename")
               /\ mdAt[w].fd = 0 /\ mdAt[w].second = 0 /\ mdAt[w].path = MdNowhere
    BY <1>5, <2>1, <2>3
  <2> QED BY <1>3, <1>6, <2>1, <2>2, <2>3 DEF DcFirst
<1>8. CASE there # {} /\ there \subseteq MdEditors
  <2>0. J \notin there
    BY <1>2, <1>8, DcConstants
  <2>1. mdAt = [w \in there \cup {J} |-> place(w)]
    BY <1>1, <1>8
  <2>2. mdDoc = [p \in {MdNowhere} |-> 1]
    BY <1>1, <1>8
  <2>3. /\ DOMAIN mdInode = {1}
        /\ mdInode[1] = [of |-> J, part |-> "full", has |-> {}]
    <3>1. mdInode = [i \in {1} |->
              CHOOSE c \in Range([j \in {J} |-> [of |-> j, part |-> "full", has |-> {}]]) : TRUE]
      BY <1>1, <1>8
    <3>2. Range([j \in {J} |-> [of |-> j, part |-> "full", has |-> {}]])
            = {[of |-> J, part |-> "full", has |-> {}]}
      BY DEF Range
    <3> QED BY <3>1, <3>2
  <2>4. mdBackup = [n \in {<<MdNowhere, 0>>} |-> mdInode[1]]
    BY <1>1, <1>8
  <2>5. ASSUME NEW w \in DOMAIN mdAt
        PROVE  /\ mdAt[w] \in DcPlaces /\ mdAt[w].pc = (IF w = J THEN "done" ELSE "idle")
               /\ mdAt[w].kind = (IF w \in MdJobs THEN "create" ELSE "rename")
               /\ mdAt[w].fd = 0 /\ mdAt[w].second = 0 /\ mdAt[w].path = MdNowhere
               /\ w # J => w \in MdEditors
    <3>1. mdAt[w] = place(w)
      BY <2>1, <2>5
    <3>2. w \in there <=> w # J
      BY <2>0, <2>1, <2>5
    <3>3. w # J => w \in MdEditors
      BY <1>8, <3>2
    <3> QED BY <1>5, <3>1, <3>2, <3>3
  <2>6. J \in MdJobs \cap DOMAIN mdAt
    BY <1>2, <2>1
  <2>7. \E j \in MdJobs \cap DOMAIN mdAt :
             /\ DOMAIN mdDoc = {MdNowhere} /\ mdDoc[MdNowhere] = 1 /\ DOMAIN mdInode = {1}
             /\ mdInode[1] = [of |-> j, part |-> "full", has |-> {}]
             /\ DOMAIN mdBackup = {<<MdNowhere, 0>>} /\ mdBackup[<<MdNowhere, 0>>] = mdInode[1]
             /\ mdAt[j].pc = "done"
             /\ \A w \in DOMAIN mdAt \ {j} : mdAt[w].pc = "idle" /\ w \in MdEditors
    <3> HIDE DEF J
    <3> QED BY <2>2, <2>3, <2>4, <2>5, <2>6
  <2>8. \A w \in DOMAIN mdAt :
          /\ mdAt[w] \in DcPlaces /\ mdAt[w].pc \in {"idle", "done"}
          /\ mdAt[w].kind = (IF w \in MdJobs THEN "create" ELSE "rename")
          /\ mdAt[w].fd = 0 /\ mdAt[w].second = 0 /\ mdAt[w].path = MdNowhere
          /\ mdAt[w].pc = "done" => w \in MdJobs
    <3> HIDE DEF J
    <3> QED BY <1>2, <2>5
  <2>9. DOMAIN mdAt \subseteq MdWriters
    BY <1>3, <2>1
  <2> QED BY <1>6, <2>7, <2>8, <2>9 DEF DcFirst
<1> QED BY <1>7, <1>8

\* The invariant holds at first.
LEMMA DcInitInv ==
    ASSUME DcFirst
    PROVE  DcInv
<1>1. /\ DOMAIN mdAt \subseteq MdWriters
      /\ \A w \in DOMAIN mdAt :
          /\ mdAt[w] \in DcPlaces /\ mdAt[w].pc \in {"idle", "done"}
          /\ mdAt[w].kind = (IF w \in MdJobs THEN "create" ELSE "rename")
          /\ mdAt[w].fd = 0 /\ mdAt[w].second = 0 /\ mdAt[w].path = MdNowhere
          /\ mdAt[w].pc = "done" => w \in MdJobs
      /\ DOMAIN mdTmp = {} /\ mdDone = {} /\ mdMet = {} /\ mdClash = {} /\ mdTried = {}
      /\ mdCrashed = {} /\ mdSecond = 0
  BY DEF DcFirst
<1>2. MdJobs \cap MdEditors = {} /\ MdWriters = MdJobs \cup MdEditors /\ MdNone \notin MdWriters
  BY DcConstants
<1>3. \A w \in DOMAIN mdAt : ~MdAtWork(w)
  BY <1>1 DEF MdAtWork, MdInProgress
<1>4. /\ DOMAIN mdDoc \subseteq {MdNowhere} /\ \A p \in DOMAIN mdDoc : mdDoc[p] = 1
      /\ DOMAIN mdInode = {mdDoc[p] : p \in DOMAIN mdDoc}
      /\ \A i \in DOMAIN mdInode : \E j \in MdJobs :
            mdInode[i] = [of |-> j, part |-> "full", has |-> {}]
      /\ DOMAIN mdBackup \subseteq {<<MdNowhere, 0>>}
      /\ \A n \in DOMAIN mdBackup : 1 \in DOMAIN mdInode /\ mdBackup[n] = mdInode[1]
  <2>1. CASE DOMAIN mdDoc = {} /\ DOMAIN mdInode = {} /\ DOMAIN mdBackup = {}
    BY <2>1
  <2>2. CASE \E j \in MdJobs :
             /\ DOMAIN mdDoc = {MdNowhere} /\ mdDoc[MdNowhere] = 1 /\ DOMAIN mdInode = {1}
             /\ mdInode[1] = [of |-> j, part |-> "full", has |-> {}]
             /\ DOMAIN mdBackup = {<<MdNowhere, 0>>} /\ mdBackup[<<MdNowhere, 0>>] = mdInode[1]
    BY <2>2
  <2> QED BY <2>1, <2>2 DEF DcFirst
<1>5. /\ MdNowhere \in MdPaths /\ 0 \in 0..MdInodes /\ 0 \in 0..MdSeconds
      /\ 1 \in 1..MdInodes /\ 0 \notin 1..MdInodes
  BY DcConstants, MdAssumption
<1>6. \A j \in MdJobs : [of |-> j, part |-> "full", has |-> {}] \in MdContent
  BY DEF MdContent
<1>7. DcPlaced
  <2>1. \A w \in DOMAIN mdAt : DcShaped(w, mdAt[w])
    BY <1>1, <1>2 DEF DcShaped
  <2> QED BY <1>1, <2>1 DEF DcPlaced
<1>8. DcFiled
  <2>1. MdInUse = {mdDoc[p] : p \in DOMAIN mdDoc}
    BY <1>1, <1>4 DEF MdInUse, Range
  <2>2. \A i \in DOMAIN mdInode : mdInode[i] \in MdContent
    BY <1>4, <1>6
  <2> QED BY <1>1, <1>4, <1>5, <2>1, <2>2 DEF DcFiled
<1>9. DcMarked
  <2>1. \A n \in DOMAIN mdBackup : n \in MdPaths \X (0..MdSeconds)
    BY <1>4, <1>5
  <2>2. \A n \in DOMAIN mdBackup : mdBackup[n] \in MdContent
    BY <1>4, <1>6
  <2> QED BY <1>1, <1>5, <2>1, <2>2 DEF DcMarked
<1>10. DcNoted
  BY <1>3 DEF DcNoted
<1>11. DcStaged
  BY <1>1 DEF DcStaged
<1>12. DcOpened
  BY <1>1, <1>4 DEF DcOpened
<1>13. DcWhole
  <2>1. ASSUME NEW i \in DOMAIN mdInode PROVE mdInode[i].of # MdNone
    <3>1. PICK j \in MdJobs : mdInode[i] = [of |-> j, part |-> "full", has |-> {}]
      BY <1>4
    <3>2. mdInode[i].of = j /\ j # MdNone
      BY <1>2, <3>1
    <3> QED BY <3>2
  <2>2. \A p \in DOMAIN mdDoc : MdContentAt(p) # MdTorn
    BY <1>4, <2>1, DcConstants DEF MdContentAt
  <2>3. \A w \in DOMAIN mdAt : ~DcReading(w)
    BY <1>1 DEF DcReading
  <2> QED BY <2>1, <2>2, <2>3 DEF DcWhole
<1>14. DcCompared
  BY <1>1 DEF DcCompared
<1>15. DcBackups
  <2>1. \A n \in DOMAIN mdBackup : n[2] = 0
    BY <1>4
  <2>2. \A w \in MdEditors \cap DOMAIN mdAt : mdAt[w].kind # "resummarize"
    BY <1>1
  <2> QED BY <2>1, <2>2 DEF DcBackups
<1>16. DcOne
  <2>1. \A j : \A v \in DOMAIN mdAt : ~DcCarries(v, j)
    BY <1>3 DEF DcCarries
  <2>2. \A j : DcPlacesOf(j) = MdOf(j)
    BY <2>1 DEF DcPlacesOf
  <2>3. \A j : MdOf(j) \subseteq {MdNowhere}
    BY <1>4 DEF MdOf
  <2>4. ASSUME NEW j \in MdJobs, j \in DOMAIN mdAt, mdAt[j].pc \in {"idle", "resolved", "made"}
        PROVE  MdOf(j) = {}
    <3>1. CASE DOMAIN mdDoc = {}
      BY <3>1 DEF MdOf
    <3>2. CASE \E i \in MdJobs \cap DOMAIN mdAt :
              /\ mdAt[i].pc = "done"
              /\ \A w \in DOMAIN mdAt \ {i} : mdAt[w].pc = "idle" /\ w \in MdEditors
      BY <1>2, <2>4, <3>2
    <3> QED BY <3>1, <3>2 DEF DcFirst
  <2> QED BY <2>2, <2>3, <2>4 DEF DcOne
<1>17. DcKept
  <2>1. DcCut
    BY <1>1 DEF DcCut
  <2>2. \A w \in DOMAIN mdAt : DcPending(w)
    BY <1>1 DEF DcPending
  <2>3. ASSUME NEW w \in DOMAIN mdAt, DcMade(w) PROVE \E p \in MdPaths : DcHome(w, p)
    <3>1. mdAt[w].pc = "done" /\ w \in MdJobs
      BY <1>1, <1>2, <2>3 DEF DcMade
    <3>2. PICK i \in MdJobs \cap DOMAIN mdAt :
              /\ DOMAIN mdDoc = {MdNowhere} /\ mdDoc[MdNowhere] = 1 /\ DOMAIN mdInode = {1}
              /\ mdInode[1] = [of |-> i, part |-> "full", has |-> {}]
              /\ \A v \in DOMAIN mdAt \ {i} : mdAt[v].pc = "idle" /\ v \in MdEditors
      BY <3>1 DEF DcFirst
    <3>3. i = w
      BY <1>2, <3>1, <3>2
    <3>4. MdNowhere \in DOMAIN mdDoc /\ DcHas(w, MdContentAt(MdNowhere))
      BY <3>1, <3>2, <3>3 DEF DcHas, MdContentAt
    <3>5. \A v \in DOMAIN mdAt \ {w} : DcSpares(v, w, MdNowhere)
      BY <1>1, <1>3 DEF DcSpares
    <3> QED BY <1>5, <3>4, <3>5 DEF DcHome
  <2> QED BY <2>1, <2>2, <2>3 DEF DcKept
<1> QED BY <1>7, <1>8, <1>9, <1>10, <1>11, <1>12, <1>13, <1>14, <1>15, <1>16, <1>17 DEF DcInv

\* Every step keeps it.
LEMMA DcInvNext ==
    ASSUME DcInv, MeetingDocumentNext
    PROVE  DcInv'
<1>1. /\ DcPlaced /\ DcFiled /\ DcMarked /\ DcNoted /\ DcStaged /\ DcOpened /\ DcWhole
      /\ DcCompared /\ DcBackups /\ DcOne /\ DcKept
  BY DEF DcInv
<1>2. PICK w \in DOMAIN mdAt : DcStep(w) /\ MdNote
  BY <1>1, DcSteps
<1>3. DcPlaced' /\ DcFiled' /\ DcMarked' /\ DcNoted'
  BY <1>1, <1>2, DcPlacedStep, DcFiledStep, DcMarkedStep, DcNotedStep
<1>4. DcStaged'
  BY <1>1, <1>2, <1>3, DcStagedStep
<1>5. DcOpened'
  BY <1>1, <1>2, <1>3, DcOpenedStep
<1>6. DcWhole'
  BY <1>1, <1>2, <1>3, DcWholeStep
<1>7. DcCompared'
  BY <1>1, <1>2, <1>3, DcComparedStep
<1>8. DcBackups'
  BY <1>1, <1>2, <1>3, DcBackupsStep
<1>9. DcOne'
  BY <1>1, <1>2, <1>3, DcOneStep
<1>10. DcKept'
  BY <1>1, <1>2, <1>3, <1>5, DcKeptStep
<1> QED BY <1>3, <1>4, <1>5, <1>6, <1>7, <1>8, <1>9, <1>10 DEF DcInv

\* So does a step of somebody else.
LEMMA DcInvStutter ==
    ASSUME DcInv, UNCHANGED mdVars
    PROVE  DcInv'
<1>1. /\ mdDoc' = mdDoc /\ mdTmp' = mdTmp /\ mdInode' = mdInode /\ mdBackup' = mdBackup
      /\ mdSecond' = mdSecond /\ mdTried' = mdTried /\ mdCrashed' = mdCrashed /\ mdAt' = mdAt
      /\ mdDone' = mdDone /\ mdMet' = mdMet /\ mdClash' = mdClash
  BY DEF mdVars, mdFiles, mdBackups, mdHistory
<1>2. DcPlaced' /\ DcMarked' /\ DcFiled'
  BY <1>1 DEF DcInv, DcPlaced, DcShaped, DcMarked, DcFiled, MdTmpOf, MdStages, MdInUse
<1>3. DcNoted' /\ DcStaged' /\ DcOpened'
  BY <1>1 DEF DcInv, DcNoted, DcStaged, DcOpened, MdAtWork, MdTouches, MdClashes, MdTmpOf,
              MdStages, MdNew
<1>4. DcWhole' /\ DcCompared'
  BY <1>1 DEF DcInv, DcWhole, DcTorn, DcCompared, DcReading, MdDied, MdContentAt, MdUnchanged,
              MdExists
<1>5. DcBackups'
  BY <1>1 DEF DcInv, DcBackups, MdBackupOf
<1>6. DcOne'
  <2>1. \A j : DcPlacesOf(j)' = DcPlacesOf(j)
    BY <1>1 DEF DcPlacesOf, DcCarries, MdOf, MdContentAt, MdAtWork, MdTmpOf, MdStages
  <2>2. MdDied({"filled", "titled"})' = MdDied({"filled", "titled"})
    BY <1>1 DEF MdDied
  <2>3. DcOne
    BY DEF DcInv
  <2> QED BY <1>1, <2>1, <2>2, <2>3 DEF DcOne
<1>7. DcKept'
  BY <1>1 DEF DcInv, DcKept, DcLost, DcCut, DcPending, DcMade, DcHome, DcHas, DcHolds, DcSpares,
              MdContentAt, MdDied, MdAtWork
<1> QED BY <1>2, <1>3, <1>4, <1>5, <1>6, <1>7 DEF DcInv

\* The invariant of the specification.
LEMMA DcInvariant == MeetingDocumentSpec => []DcInv
<1>1. MeetingDocumentInit => DcInv
  BY DcInitFirst, DcInitInv
<1>2. DcInv /\ [MeetingDocumentNext]_mdVars => DcInv'
  BY DcInvNext, DcInvStutter
<1> QED BY <1>1, <1>2, PTL DEF MeetingDocumentSpec

\* What the invariant says of types.
LEMMA DcTypes ==
    ASSUME DcInv
    PROVE  MeetingDocumentTypeOK
<1>1. DcPlaced /\ DcFiled /\ DcMarked
  BY DEF DcInv
<1>2. \A t \in DOMAIN mdTmp : mdTmp[t] \in 1..MdInodes \ Range(mdDoc)
  BY <1>1 DEF DcFiled, Range
<1>3. IsInjective(mdDoc)
  BY <1>1 DEF DcFiled, IsInjective
<1>4. DOMAIN mdInode = MdInUse /\ Range(mdInode) \subseteq MdContent
  BY <1>1 DEF DcFiled, Range
<1>5. Range(mdAt) \subseteq DcPlaces
  BY <1>1 DEF DcPlaced, Range
<1>6. Range(mdBackup) \subseteq MdContent
  BY <1>1 DEF DcMarked, Range
<1> QED BY <1>1, <1>2, <1>3, <1>4, <1>5, <1>6
        DEF MeetingDocumentTypeOK, DcPlaced, DcFiled, DcMarked, DcPlaces

\* ... of what was made ...
LEMMA DcKeeps ==
    ASSUME DcInv
    PROVE  EditsKept /\ TranscriptKept
<1>1. DcPlaced /\ DcMarked /\ DcKept
  BY DEF DcInv
<1>2. ASSUME ~MdDisturbed PROVE ~DcLost /\ \A v \in DOMAIN mdAt : mdAt[v].pc # "cut"
  BY <1>2 DEF MdDisturbed, DcLost
<1>3. ASSUME NEW w \in DOMAIN mdAt, w \notin mdMet, ~MdDisturbed, DcMade(w)
      PROVE  \E p \in DOMAIN mdDoc : DcHas(w, MdContentAt(p))
  <2>1. PICK p \in MdPaths : DcHome(w, p)
    BY <1>1, <1>2, <1>3 DEF DcKept
  <2> QED BY <1>2, <1>3, <2>1 DEF DcHome
<1>4. EditsKept
  <2>1. SUFFICES ASSUME NEW w \in mdDone, MdHave(w) = {}, w \notin mdMet, ~MdDisturbed
                 PROVE  FALSE
    BY DEF EditsKept
  <2>2. w \in DOMAIN mdAt /\ w \in MdEditors /\ w \notin MdJobs
    BY <1>1, DcConstants DEF DcMarked
  <2>3. PICK p \in DOMAIN mdDoc : DcHas(w, MdContentAt(p))
    BY <1>3, <2>1, <2>2 DEF DcMade
  <2> QED BY <2>1, <2>2, <2>3 DEF DcHas, MdHave
<1>5. TranscriptKept
  <2>1. SUFFICES ASSUME NEW j \in MdJobs \cap DOMAIN mdAt, mdAt[j].pc = "done", MdOf(j) = {},
                        j \notin mdMet, ~MdDisturbed
                 PROVE  FALSE
    BY DEF TranscriptKept
  <2>2. PICK p \in DOMAIN mdDoc : DcHas(j, MdContentAt(p))
    BY <1>3, <2>1 DEF DcMade
  <2> QED BY <2>1, <2>2 DEF DcHas, MdOf
<1> QED BY <1>4, <1>5

\* ... of the documents ...
LEMMA DcDocuments ==
    ASSUME DcInv
    PROVE  OneDocument /\ DocumentsWhole
<1>1. DcFiled /\ DcOne /\ DcWhole
  BY DEF DcInv
<1>2. OneDocument
  <2>1. SUFFICES ASSUME NEW j \in MdJobs, Cardinality(MdOf(j)) > 1,
                        j \notin MdDied({"filled", "titled"}), "renamed" \notin mdClash
                 PROVE  FALSE
    BY DEF OneDocument
  <2>2. \A p, q \in MdOf(j) : p = q
    BY <1>1, <2>1 DEF DcOne, DcPlacesOf
  <2>3. MdOf(j) = {} \/ \E p : MdOf(j) = {p}
    BY <2>2
  <2>4. Cardinality(MdOf(j)) = 0 \/ Cardinality(MdOf(j)) = 1
    BY <2>3, FS_EmptySet, FS_Singleton
  <2> QED BY <2>1, <2>4
<1>3. DocumentsWhole
  <2>1. SUFFICES ASSUME NEW p \in DOMAIN mdDoc, MdContentAt(p).of = MdNone, ~DcTorn
                 PROVE  \E w \in DOMAIN mdAt :
                           mdAt[w].fd = mdDoc[p] /\ mdAt[w].pc \in {"made", "cut"}
    BY DEF DocumentsWhole, DcTorn
  <2>2. mdDoc[p] \in DOMAIN mdInode
    BY <1>1, DcUsed DEF DcFiled
  <2> QED BY <1>1, <2>1, <2>2 DEF DcWhole, MdContentAt
<1> QED BY <1>2, <1>3

\* ... of the backups ...
LEMMA DcApart ==
    ASSUME DcInv
    PROVE  BackupsApart
<1>1. DcPlaced /\ DcMarked /\ DcBackups
  BY DEF DcInv
<1>2. SUFFICES ASSUME NEW w \in mdDone, mdAt[w].kind = "resummarize",
                      MdBackupOf(w) \in DOMAIN mdBackup
               PROVE  MdBacked(w)
  <2>1. ASSUME NEW w \in mdDone, mdAt[w].kind = "resummarize"
        PROVE  w \in MdEditors \cap DOMAIN mdAt /\ mdAt[w].pc = "done"
    BY <1>1, <2>1 DEF DcMarked
  <2> QED BY <1>1, <2>1 DEF BackupsApart, DcBackups
<1>3. mdAt[w].second \in 0..MdSeconds /\ MdSeconds \in Nat
  BY <1>1, DcSides, DcFields, DcConstants DEF DcMarked
<1>4. MdBackupOf(w)[1] = mdAt[w].path /\ MdBackupOf(w)[2] >= mdAt[w].second
  BY <1>3 DEF MdBackupOf
<1> QED BY <1>2, <1>4 DEF MdBacked

\* ... and of what a swap replaces.
LEMMA DcReplacing ==
    ASSUME DcInv
    PROVE  [\A w \in MdEditors \cap DOMAIN mdAt :
               MdReplace(w) => MdUnchanged(w) \/ w \in mdMet]_mdVars
BY DEF DcInv, DcCompared, MdReplace

\* The documents, their staging files, their backups and the writers are what
\* markdown.rs and the pipeline take them for; a file has one name.
THEOREM DocumentTyping == MeetingDocumentSpec => []MeetingDocumentTypeOK
BY DcInvariant, DcTypes, PTL

\* Editors and pipelines do not lose one another's work, but where they are at one
\* document at one time (markdown.rs, notes.rs, pipeline.rs, resummarize.rs): of
\* any number of them.
THEOREM Documents == MeetingDocumentSpec => DocumentsKept
<1>1. DcInv => EditsKept /\ TranscriptKept /\ OneDocument /\ DocumentsWhole /\ BackupsApart
  BY DcKeeps, DcDocuments, DcApart
<1>2. DcInv => [\A w \in MdEditors \cap DOMAIN mdAt :
                   MdReplace(w) => MdUnchanged(w) \/ w \in mdMet]_mdVars
  BY DcReplacing
<1> QED BY <1>1, <1>2, DcInvariant, PTL DEF DocumentsKept, ReplacesWhatItRead

=============================================================================
