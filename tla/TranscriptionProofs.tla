------------------------ MODULE TranscriptionProofs -------------------------
(***************************************************************************)
(* Proofs about LiveQueue, for every capacity and every number of          *)
(* utterances: what the live sidecar says of its backlog, of what it       *)
(* dropped and of the order of its lines is true.  About ParakeetSidecar,  *)
(* for every set of models and every number of calls.  And about Watcher,  *)
(* for every set of watchers and every finite set of names: what becomes   *)
(* of the files.                                                           *)
(***************************************************************************)
EXTENDS LiveQueue, ParakeetSidecar, Watcher, TLAPS, SequenceTheorems, FiniteSetTheorems

-----------------------------------------------------------------------------
(* LiveQueue: the backlog *)

\* The types of the consumer's state; an utterance is begun only while its
\* number is free.
LqConsumerTyped ==
    /\ lqConsumer \in {"listening", "joining", "done"}
    /\ lqUtterance \in 0..LqLongest /\ lqSpeaking \in BOOLEAN
    /\ lqLast \in 0..LqUtterances
    /\ lqUtterance > 0 => lqLast < LqUtterances
    /\ lqDropped \in 0..lqLast

LqQueueTyped ==
    /\ lqUncounted \in BOOLEAN
    /\ lqQueue \in Seq(LqIds)
    /\ Len(lqQueue) =< LqCap

\* The worker has an utterance exactly while it works on one, or died on it.
LqWorkerTyped ==
    /\ lqWorker \in {"waiting", "transcribing", "counted", "ended", "dead"}
    /\ lqJob \in LqIds \cup {0}
    /\ lqJob = 0 <=> lqWorker = "waiting" \/ lqWorker = "ended"
    /\ lqUnheard \subseteq LqIds /\ lqLate \subseteq LqIds

LqStatusTyped ==
    /\ lqPending \in 0..(LqCounterSize - 1)
    /\ lqShown \in [pending : 0..(LqCounterSize - 1), dropped : 0..LqUtterances]
    /\ lqStop \in BOOLEAN

LqWriterTyped ==
    /\ lqLineCount \in 0..LqUtterances /\ lqBroken \in BOOLEAN
    /\ lqLines \in Seq(LqIds \X LqIds)

LqTyped ==
    LqConsumerTyped /\ LqQueueTyped /\ LqWorkerTyped /\ LqStatusTyped /\ LqWriterTyped

\* The counter is exact up to the utterance in flight; once the worker is dead
\* it stands still, at what the queue can hold at most.
LqCounted ==
    /\ PendingExact
    /\ LqPlus(lqPending, IF lqUncounted THEN 1 ELSE 0) =< LqCap + 1
    /\ BacklogTold

\* Utterances stay in the order they were cut: those in lines, then the one in
\* work, then the queue, and none is newer than the last one cut.
LqQueueOrdered ==
    /\ \A i \in 1..Len(lqQueue) : lqJob < lqQueue[i] /\ lqQueue[i] =< lqLast
    /\ \A i, k \in 1..Len(lqQueue) : i < k => lqQueue[i] < lqQueue[k]

LqNoneAhead ==
    /\ lqJob =< lqLast
    /\ \A n \in lqUnheard \cup lqLate : n =< lqLast

LqLinesOrdered ==
    /\ \A k \in 1..Len(lqLines) :
          /\ k =< lqLines[k][2] /\ lqLines[k][2] =< lqLast
          /\ lqJob # 0 => lqLines[k][2] < lqJob
          /\ \A i \in 1..Len(lqQueue) : lqLines[k][2] < lqQueue[i]
    /\ ~lqBroken => lqLineCount = Len(lqLines)
    /\ LinesInOrder

LqOrdered == LqQueueOrdered /\ LqNoneAhead /\ LqLinesOrdered

LqInv == LqTyped /\ LqCounted /\ LqOrdered /\ DropsTold

-----------------------------------------------------------------------------
(* The counter, modulo LqCounterSize *)

\* Adding to the counter: the values fetch_add and fetch_sub leave it with.
LEMMA PlusNothing ==
    ASSUME NEW c \in 0..(LqCounterSize - 1)
    PROVE  LqPlus(c, 0) = c
BY LqAssumption DEF LqPlus

\* One more wraps only at the last value.
LEMMA PlusOne ==
    ASSUME NEW c \in 0..(LqCounterSize - 1)
    PROVE  LqPlus(c, 1) = IF c = LqCounterSize - 1 THEN 0 ELSE c + 1
BY LqAssumption DEF LqPlus

\* One less wraps only at zero.
LEMMA MinusOne ==
    ASSUME NEW c \in 0..(LqCounterSize - 1)
    PROVE  LqPlus(c, -1) = IF c = 0 THEN LqCounterSize - 1 ELSE c - 1
BY LqAssumption DEF LqPlus

-----------------------------------------------------------------------------
\* The invariant holds at first.
LEMMA InitOk == LiveQueueInit => LqInv
<1> SUFFICES ASSUME LiveQueueInit PROVE LqInv
  OBVIOUS
<1> USE LqAssumption DEF LiveQueueInit
<1>1. LqTyped
  <2>1. LqConsumerTyped
    <3>1. lqUtterance \in 0..LqLongest /\ lqLast \in 0..LqUtterances
      OBVIOUS
    <3>2. lqUtterance > 0 => lqLast < LqUtterances
      OBVIOUS
    <3>3. lqSpeaking \in BOOLEAN /\ lqConsumer \in {"listening", "joining", "done"}
      OBVIOUS
    <3>4. lqDropped \in 0..lqLast
      OBVIOUS
    <3> QED BY <3>1, <3>2, <3>3, <3>4 DEF LqConsumerTyped
  <2>2. LqStatusTyped
    <3>1. lqPending \in 0..(LqCounterSize - 1)
      OBVIOUS
    <3>2. lqShown \in [pending : 0..(LqCounterSize - 1), dropped : 0..LqUtterances]
      OBVIOUS
    <3> QED BY <3>1, <3>2 DEF LqStatusTyped
  <2>3. LqQueueTyped
    <3>1. lqQueue \in Seq(LqIds)
      OBVIOUS
    <3>2. Len(lqQueue) =< LqCap
      OBVIOUS
    <3> QED BY <3>1, <3>2 DEF LqQueueTyped
  <2>4. LqWorkerTyped
    BY DEF LqWorkerTyped
  <2>5. LqWriterTyped
    <3>1. lqLineCount \in 0..LqUtterances
      OBVIOUS
    <3>2. lqLines \in Seq(LqIds \X LqIds)
      OBVIOUS
    <3> QED BY <3>1, <3>2 DEF LqWriterTyped
  <2> QED BY <2>1, <2>2, <2>3, <2>4, <2>5 DEF LqTyped
<1>3. LqCounted
  BY PlusNothing DEF LqCounted, PendingExact, BacklogTold
<1>4. LqOrdered
  BY DEF LqOrdered, LqQueueOrdered, LqNoneAhead, LqLinesOrdered, LinesInOrder
<1>5. DropsTold
  BY FS_EmptySet DEF DropsTold
<1> QED BY <1>1, <1>3, <1>4, <1>5 DEF LqInv

\* Each part of the types is kept: first the consumer's.
LEMMA ConsumerTyped ==
    ASSUME LqTyped, LiveQueueNext
    PROVE  LqConsumerTyped'
<1> USE LqAssumption DEF LqConsumerTyped
<1> LqConsumerTyped
  BY DEF LqTyped
<1>s. lqLast < LqUtterances /\ LqSend =>
         /\ lqLast' \in 0..LqUtterances
         /\ lqDropped' \in 0..lqLast'
  BY DEF LqSend
<1>1. CASE LqSpeech
  <2>1. CASE lqUtterance + 1 >= LqLongest
    <3>1. /\ lqUtterance' = 0 /\ lqSpeaking' = FALSE /\ UNCHANGED lqConsumer
          /\ lqLast' \in 0..LqUtterances /\ lqDropped' \in 0..lqLast'
      BY <1>s, <1>1, <2>1 DEF LqSpeech
    <3>2. lqSpeaking' \in BOOLEAN /\ lqConsumer' \in {"listening", "joining", "done"}
      BY <3>1
    <3>3. lqUtterance' \in 0..LqLongest /\ ~(lqUtterance' > 0)
      BY <3>1
    <3> QED BY <3>1, <3>2, <3>3
  <2>2. CASE ~(lqUtterance + 1 >= LqLongest)
    BY <1>1, <2>2 DEF LqSpeech, LqNoSend
  <2> QED BY <2>1, <2>2
<1>2. CASE LqSilence
  <2>1. /\ lqUtterance' = 0 /\ lqSpeaking' = FALSE /\ UNCHANGED lqConsumer
        /\ lqLast' \in 0..LqUtterances /\ lqDropped' \in 0..lqLast'
    BY <1>s, <1>2 DEF LqSilence
  <2>2. lqSpeaking' \in BOOLEAN /\ lqConsumer' \in {"listening", "joining", "done"}
    BY <2>1
  <2>3. lqUtterance' \in 0..LqLongest /\ ~(lqUtterance' > 0)
    BY <2>1
  <2> QED BY <2>1, <2>2, <2>3
<1>3. CASE LqLeave
  BY <1>s, <1>3 DEF LqLeave, LqNoSend
<1>4. CASE LqJoin
  BY <1>4 DEF LqJoin, lqBuffer
<1>5. CASE UNCHANGED <<lqConsumer, lqBuffer, lqLast, lqDropped>>
  BY <1>5 DEF lqBuffer
<1> QED
  BY <1>1, <1>2, <1>3, <1>4, <1>5
  DEF LiveQueueNext, LqConsumerNext, LqWorkerNext, LqStops, LqHeartbeat, LqStop, LqCount, LqTake,
      LqTranscribed, LqWrite, LqDie, LqWorkerEnds

\* Nothing is appended to a full channel, and only numbers that exist.
LEMMA QueueTyped ==
    ASSUME LqTyped, LiveQueueNext
    PROVE  LqQueueTyped'
<1> USE LqAssumption DEF LqQueueTyped
<1> LqQueueTyped
  BY DEF LqTyped
<1>1. CASE lqLast < LqUtterances /\ LqSend
  <2>1. lqLast' \in LqIds
    BY <1>1 DEF LqSend, LqIds, LqTyped, LqConsumerTyped
  <2>2. CASE lqQueue' = Append(lqQueue, lqLast') /\ lqUncounted' = TRUE /\ Len(lqQueue) < LqCap
    <3>1. lqQueue' \in Seq(LqIds) /\ Len(lqQueue') = Len(lqQueue) + 1
      BY <2>1, <2>2, AppendProperties
    <3> QED BY <2>2, <3>1
  <2>3. CASE UNCHANGED <<lqQueue, lqUncounted>>
    BY <2>3
  <2> QED BY <1>1, <2>2, <2>3 DEF LqSend
<1>2. CASE UNCHANGED <<lqQueue, lqUncounted>>
  BY <1>2
<1>3. CASE LqTake
  BY <1>3 DEF LqTake
<1>4. CASE LqDie
  BY <1>4 DEF LqDie
<1>5. CASE LqCount
  BY <1>5 DEF LqCount
<1>6. CASE LqSpeech
  BY <1>1, <1>2, <1>6 DEF LqSpeech, LqNoSend
<1>7. CASE LqSilence
  BY <1>1, <1>7 DEF LqSilence, LqTyped, LqConsumerTyped
<1>8. CASE LqLeave
  BY <1>1, <1>2, <1>8 DEF LqLeave, LqNoSend, LqTyped, LqConsumerTyped
<1> QED
  BY <1>2, <1>3, <1>4, <1>5, <1>6, <1>7, <1>8
  DEF LiveQueueNext, LqConsumerNext, LqWorkerNext, LqStops, LqHeartbeat, LqStop, LqJoin,
      LqTranscribed, LqWrite, LqWorkerEnds

\* The worker holds an utterance from LqTake to LqWrite, or for ever once dead.
LEMMA WorkerTyped ==
    ASSUME LqTyped, LiveQueueNext
    PROVE  LqWorkerTyped'
<1> USE DEF LqWorkerTyped
<1> LqWorkerTyped /\ LqUtterances \in Nat
  BY LqAssumption DEF LqTyped
<1> 0 \notin LqIds
  BY DEF LqIds
<1>1. CASE LqTake
  <2>1. Head(lqQueue) \in LqIds
    BY <1>1 DEF LqTake, LqTyped, LqQueueTyped
  <2> QED BY <1>1, <2>1 DEF LqTake
<1>2. CASE LqTranscribed
  BY <1>2 DEF LqTranscribed
<1>3. CASE LqWrite
  BY <1>3 DEF LqWrite, lqHistory
<1>4. CASE LqDie
  BY <1>4 DEF LqDie, lqHistory
<1>5. CASE LqWorkerEnds
  BY <1>5 DEF LqWorkerEnds, lqHistory
<1>6. CASE UNCHANGED <<lqWorker, lqJob, lqHistory>>
  BY <1>6 DEF lqHistory
<1> QED
  BY <1>1, <1>2, <1>3, <1>4, <1>5, <1>6
  DEF LiveQueueNext, LqConsumerNext, LqWorkerNext, LqStops, LqSpeech, LqSilence, LqHeartbeat,
      LqLeave, LqStop, LqCount, LqJoin

\* The counters of the status file stay in their width.
LEMMA StatusTyped ==
    ASSUME LqTyped, LiveQueueNext
    PROVE  LqStatusTyped'
<1> USE LqAssumption DEF LqStatusTyped
<1> LqStatusTyped
  BY DEF LqTyped
<1>1. /\ LqPlus(lqPending, 1) \in 0..(LqCounterSize - 1)
      /\ LqPlus(lqPending, -1) \in 0..(LqCounterSize - 1)
  BY PlusOne, MinusOne
<1>2. CASE LqHeartbeat
  <2>1. lqDropped \in 0..LqUtterances
    BY DEF LqTyped, LqConsumerTyped
  <2> QED BY <1>2, <2>1 DEF LqHeartbeat
<1>3. CASE LqStop
  BY <1>3 DEF LqStop
<1>4. CASE LqCount
  BY <1>1, <1>4 DEF LqCount
<1>5. CASE LqTake
  BY <1>1, <1>5 DEF LqTake
<1>6. CASE LqTranscribed
  BY <1>1, <1>6 DEF LqTranscribed
<1>7. CASE UNCHANGED <<lqPending, lqShown, lqStop>>
  BY <1>7
<1> QED
  BY <1>2, <1>3, <1>4, <1>5, <1>6, <1>7
  DEF LiveQueueNext, LqConsumerNext, LqWorkerNext, LqStops, LqSpeech, LqSilence,
      LqLeave, LqJoin, LqWrite, LqDie, LqWorkerEnds

\* The number of a new line is not above that of its utterance, and so not
\* above the bound.
LEMMA WriterTyped ==
    ASSUME LqTyped, LqOrdered, LiveQueueNext
    PROVE  LqWriterTyped'
<1> USE DEF LqWriterTyped
<1> LqWriterTyped /\ LqUtterances \in Nat
  BY LqAssumption DEF LqTyped
<1>1. CASE LqWrite
  <2>1. lqJob \in LqIds
    BY <1>1 DEF LqWrite, LqTyped, LqWorkerTyped
  <2>2. ~lqBroken => lqLineCount < lqJob
    <3> SUFFICES ASSUME ~lqBroken PROVE lqLineCount < lqJob
      OBVIOUS
    <3>1. lqLineCount = Len(lqLines)
      BY DEF LqOrdered, LqLinesOrdered
    <3>2. CASE lqLines = <<>>
      BY <2>1, <3>1, <3>2 DEF LqIds
    <3>3. CASE lqLines # <<>>
      <4> DEFINE k == Len(lqLines)
      <4>1. k \in 1..Len(lqLines) /\ lqLines[k] \in LqIds \X LqIds
        BY <3>3
      <4>2. k =< lqLines[k][2] /\ lqLines[k][2] < lqJob
        BY <2>1, <4>1 DEF LqOrdered, LqLinesOrdered, LqIds
      <4> QED BY <2>1, <3>1, <4>1, <4>2 DEF LqIds
    <3> QED BY <3>2, <3>3
  <2>3. ~lqBroken => lqLineCount + 1 \in LqIds
    BY <2>1, <2>2 DEF LqIds
  <2>4. CASE UNCHANGED lqWriter
    BY <2>4 DEF lqWriter
  <2>5. CASE ~lqBroken /\ lqLineCount' = lqLineCount + 1
             /\ lqLines' = Append(lqLines, <<lqLineCount', lqJob>>) /\ UNCHANGED lqBroken
    <3>1. lqLines' \in Seq(LqIds \X LqIds)
      BY <2>1, <2>3, <2>5, AppendProperties
    <3> QED BY <2>3, <2>5, <3>1 DEF LqIds
  <2>6. CASE ~lqBroken /\ lqLineCount' = lqLineCount + 1
             /\ lqBroken' = TRUE /\ UNCHANGED lqLines
    BY <2>3, <2>6 DEF LqIds
  <2> QED BY <1>1, <2>4, <2>5, <2>6 DEF LqWrite
<1>2. CASE UNCHANGED lqWriter
  BY <1>2 DEF lqWriter
<1> QED
  BY <1>1, <1>2
  DEF LiveQueueNext, LqConsumerNext, LqWorkerNext, LqStops, LqSpeech, LqSilence, LqHeartbeat,
      LqLeave, LqStop, LqCount, LqJoin, LqTake, LqTranscribed, LqDie, LqWorkerEnds

-----------------------------------------------------------------------------
(* The counters *)

\* An utterance that is cut while nothing is uncounted.
LEMMA SendCounted ==
    ASSUME LqInv, LqSend, ~lqUncounted,
           UNCHANGED <<lqWorker, lqPending, lqShown>>
    PROVE  LqCounted'
<1> LqTyped /\ LqCounted
  BY DEF LqInv
<1> USE LqAssumption DEF LqCounted, BacklogTold, PendingExact
<1>1. /\ lqPending \in 0..(LqCounterSize - 1) /\ Len(lqQueue) \in 0..LqCap
      /\ lqQueue \in Seq(LqIds) /\ lqLast \in Nat
  BY DEF LqTyped, LqConsumerTyped, LqStatusTyped, LqQueueTyped
<1>2. /\ LqPlus(lqPending, 0) = lqPending
      /\ LqPlus(lqPending, 1) = IF lqPending = LqCounterSize - 1 THEN 0 ELSE lqPending + 1
  BY <1>1, PlusNothing, PlusOne
<1>3. CASE lqQueue' = Append(lqQueue, lqLast') /\ lqUncounted' = TRUE /\ lqWorker # "dead"
             /\ Len(lqQueue) < LqCap
  <2>1. lqLast' \in Nat
    BY <1>1 DEF LqSend
  <2>2. Len(lqQueue') = Len(lqQueue) + 1
    BY <1>1, <1>3, <2>1
  <2>3. PICK n \in {0, 1} : n = (IF lqWorker = "transcribing" THEN 1 ELSE 0)
    OBVIOUS
  <2>4. lqPending = Len(lqQueue) + n
    BY <1>2, <1>3, <2>3
  <2>5. LqPlus(lqPending, 1) = Len(lqQueue) + 1 + n
    BY <1>1, <1>2, <2>4
  <2>6. lqPending' = lqPending /\ lqWorker' = lqWorker /\ lqShown' = lqShown
    OBVIOUS
  <2>7. LqPlus(lqPending', 1) = Len(lqQueue') + n
    BY <1>1, <2>2, <2>5, <2>6
  <2>8. Len(lqQueue') =< LqCap
    BY <1>1, <1>3, <2>2
  <2>9. PendingExact'
    BY <1>3, <2>3, <2>6, <2>7
  <2>10. LqPlus(lqPending', IF lqUncounted' THEN 1 ELSE 0) =< LqCap + 1
    BY <1>1, <1>3, <2>2, <2>3, <2>7, <2>8
  <2> QED BY <2>6, <2>9, <2>10
<1>4. CASE UNCHANGED <<lqQueue, lqUncounted>>
  BY <1>4
<1> QED BY <1>3, <1>4 DEF LqSend

\* Every step keeps the counter exact up to the utterance in flight.
LEMMA CountedKept ==
    ASSUME LqInv, LiveQueueNext
    PROVE  LqCounted'
<1> LqTyped /\ LqCounted
  BY DEF LqInv
<1> USE LqAssumption DEF LqCounted, BacklogTold, PendingExact
<1>0. lqPending \in 0..(LqCounterSize - 1) /\ Len(lqQueue) \in 0..LqCap
  BY DEF LqTyped, LqStatusTyped, LqQueueTyped
<1>a. /\ LqPlus(lqPending, 0) = lqPending
      /\ LqPlus(lqPending, 1) = IF lqPending = LqCounterSize - 1 THEN 0 ELSE lqPending + 1
      /\ LqPlus(lqPending, -1) = IF lqPending = 0 THEN LqCounterSize - 1 ELSE lqPending - 1
      /\ LqPlus(LqPlus(lqPending, -1), 0) = LqPlus(lqPending, -1)
      /\ LqPlus(LqPlus(lqPending, -1), 1) = lqPending
      /\ LqPlus(LqPlus(lqPending, 1), 0) = LqPlus(lqPending, 1)
  <2> HIDE DEF LqCounted, BacklogTold, PendingExact
  <2>1. LqPlus(lqPending, -1) \in 0..(LqCounterSize - 1)
    BY <1>0, MinusOne
  <2>2. LqPlus(lqPending, 1) \in 0..(LqCounterSize - 1)
    BY <1>0, PlusOne
  <2>3. /\ LqPlus(lqPending, 1) = IF lqPending = LqCounterSize - 1 THEN 0 ELSE lqPending + 1
        /\ LqPlus(lqPending, -1) = IF lqPending = 0 THEN LqCounterSize - 1 ELSE lqPending - 1
    BY <1>0, PlusOne, MinusOne
  <2>4. /\ LqPlus(lqPending, 0) = lqPending
        /\ LqPlus(LqPlus(lqPending, -1), 0) = LqPlus(lqPending, -1)
        /\ LqPlus(LqPlus(lqPending, 1), 0) = LqPlus(lqPending, 1)
    BY <1>0, <2>1, <2>2, PlusNothing
  <2>5. LqPlus(LqPlus(lqPending, -1), 1) = lqPending
    <3>1. LqPlus(LqPlus(lqPending, -1), 1) =
              IF LqPlus(lqPending, -1) = LqCounterSize - 1 THEN 0 ELSE LqPlus(lqPending, -1) + 1
      BY <2>1, PlusOne
    <3> QED BY <1>0, <2>3, <3>1
  <2> QED BY <2>3, <2>4, <2>5
<1>1. CASE LqSend /\ ~lqUncounted /\ UNCHANGED <<lqWorker, lqPending, lqShown>>
  BY <1>1, SendCounted
<1>2. CASE UNCHANGED <<lqQueue, lqUncounted, lqWorker, lqPending, lqShown>>
  BY <1>2
<1>3. CASE LqSpeech
  BY <1>1, <1>2, <1>3 DEF LqSpeech, LqListens, LqNoSend
<1>4. CASE LqSilence
  BY <1>1, <1>4 DEF LqSilence, LqListens
<1>5. CASE LqHeartbeat
  BY <1>0, <1>a, <1>5 DEF LqHeartbeat, LqListens
<1>6. CASE LqLeave
  BY <1>1, <1>2, <1>6 DEF LqLeave, LqListens, LqNoSend
<1>7. CASE LqStop
  BY <1>2, <1>7 DEF LqStop
<1>8. CASE LqCount
  BY <1>0, <1>a, <1>8 DEF LqCount
<1>9. CASE LqJoin
  BY <1>2, <1>9 DEF LqJoin
<1>10. CASE LqTake
  <2>1. Len(lqQueue') = Len(lqQueue) - 1 /\ Len(lqQueue) >= 1 /\ lqWorker = "waiting"
    BY <1>10 DEF LqTake, LqTyped, LqQueueTyped
  <2>2. CASE lqStop
    BY <1>0, <1>a, <1>10, <2>1, <2>2 DEF LqTake, LqTyped, LqQueueTyped
  <2>3. CASE ~lqStop
    BY <1>0, <1>a, <1>10, <2>1, <2>3 DEF LqTake, LqTyped, LqQueueTyped
  <2> QED BY <2>2, <2>3
<1>11. CASE LqTranscribed
  BY <1>0, <1>a, <1>11 DEF LqTranscribed, LqTyped
<1>12. CASE LqWrite
  BY <1>12 DEF LqWrite
<1>13. CASE LqDie
  BY <1>13 DEF LqDie
<1>14. CASE LqWorkerEnds
  BY <1>14 DEF LqWorkerEnds
<1> QED
  BY <1>3, <1>4, <1>5, <1>6, <1>7, <1>8, <1>9, <1>10, <1>11, <1>12, <1>13, <1>14
  DEF LiveQueueNext, LqConsumerNext, LqWorkerNext, LqStops

-----------------------------------------------------------------------------
(* The order of the utterances *)

\* What a step can do to the utterances: cut one, or nothing, or what the
\* worker's own steps do.
LqCuts ==
    /\ lqLast < LqUtterances /\ LqSend
    /\ UNCHANGED <<lqWorker, lqJob, lqWriter, lqHistory>>

LqRests ==
    /\ UNCHANGED <<lqLast, lqQueue, lqDropped, lqJob, lqWriter, lqHistory>>
    /\ lqWorker' = "dead" <=> lqWorker = "dead"

\* Every step cuts one utterance, moves none, or is the worker's own.
LEMMA StepKinds ==
    ASSUME LqTyped, LiveQueueNext
    PROVE  LqCuts \/ LqRests \/ LqTake \/ LqTranscribed \/ LqWrite \/ LqDie
<1>1. CASE LqSpeech
  BY <1>1 DEF LqSpeech, LqCuts, LqRests, LqNoSend
<1>2. CASE LqSilence
  BY <1>2 DEF LqSilence, LqCuts, LqTyped, LqConsumerTyped
<1>3. CASE LqLeave
  BY <1>3 DEF LqLeave, LqCuts, LqRests, LqNoSend, LqTyped, LqConsumerTyped
<1>4. CASE LqHeartbeat \/ LqStop \/ LqCount \/ LqJoin \/ LqWorkerEnds
  BY <1>4 DEF LqHeartbeat, LqStop, LqCount, LqJoin, LqWorkerEnds, LqRests
<1> QED
  BY <1>1, <1>2, <1>3, <1>4 DEF LiveQueueNext, LqConsumerNext, LqWorkerNext, LqStops

\* The parts of the types that the order needs.
LEMMA Utterances ==
    ASSUME LqTyped
    PROVE  /\ lqQueue \in Seq(Nat) /\ lqJob \in Nat /\ lqLast \in Nat
           /\ \A i \in 1..Len(lqQueue) : lqQueue[i] \in LqIds
           /\ lqLines \in Seq(Nat \X Nat)
           /\ \A k \in 1..Len(lqLines) : lqLines[k][1] \in Nat /\ lqLines[k][2] \in Nat
<1>1. lqQueue \in Seq(LqIds) /\ lqLines \in Seq(LqIds \X LqIds)
  BY DEF LqTyped, LqQueueTyped, LqWriterTyped
<1>2. LqIds \subseteq Nat /\ LqIds \X LqIds \subseteq Nat \X Nat
  BY LqAssumption DEF LqIds
<1>3. lqQueue \in Seq(Nat) /\ lqLines \in Seq(Nat \X Nat)
  BY <1>1, <1>2, SeqMonotonic
<1>4. \A i \in 1..Len(lqQueue) : lqQueue[i] \in LqIds
  BY <1>1
<1>5. \A k \in 1..Len(lqLines) : lqLines[k] \in LqIds \X LqIds
  BY <1>1
<1>6. lqJob \in Nat /\ lqLast \in Nat
  BY <1>2 DEF LqTyped, LqWorkerTyped, LqConsumerTyped
<1> QED BY <1>2, <1>3, <1>4, <1>5, <1>6

\* The queue after the front has been taken.
LEMMA QueueTail ==
    ASSUME LqTyped, lqQueue # <<>>, lqQueue' = Tail(lqQueue)
    PROVE  /\ 1 \in 1..Len(lqQueue) /\ Head(lqQueue) = lqQueue[1]
           /\ \A i \in 1..Len(lqQueue') :
                 i + 1 \in 1..Len(lqQueue) /\ lqQueue'[i] = lqQueue[i + 1]
<1>1. lqQueue \in Seq(Nat)
  BY Utterances
<1> QED BY <1>1

\* The queue after an utterance has been appended.
LEMMA QueueAppend ==
    ASSUME LqTyped, NEW n \in Nat, lqQueue' = Append(lqQueue, n)
    PROVE  \A i \in 1..Len(lqQueue') :
              \/ i \in 1..Len(lqQueue) /\ lqQueue'[i] = lqQueue[i]
              \/ i = Len(lqQueue) + 1 /\ lqQueue'[i] = n
<1>1. lqQueue \in Seq(Nat)
  BY Utterances
<1> QED BY <1>1

\* The channel keeps the order of the cuts, behind the one in work.
LEMMA QueueOrderedKept ==
    ASSUME LqTyped, LqOrdered, LiveQueueNext
    PROVE  LqQueueOrdered'
<1> USE DEF LqQueueOrdered
<1> LqQueueOrdered /\ LqNoneAhead
  BY DEF LqOrdered
<1>0. /\ lqQueue \in Seq(Nat) /\ lqJob \in Nat /\ lqLast \in Nat
      /\ \A i \in 1..Len(lqQueue) : lqQueue[i] \in LqIds /\ lqQueue[i] \in Nat /\ 0 < lqQueue[i]
  <2>1. lqQueue \in Seq(Nat) /\ lqJob \in Nat /\ lqLast \in Nat
    BY Utterances
  <2>2. \A i \in 1..Len(lqQueue) : lqQueue[i] \in LqIds
    BY DEF LqTyped, LqQueueTyped
  <2>3. \A id \in LqIds : id \in Nat /\ 0 < id
    BY LqAssumption DEF LqIds
  <2> QED BY <2>1, <2>2, <2>3
<1>1. CASE LqCuts
  <2>1. lqLast' = lqLast + 1 /\ lqJob' = lqJob
    BY <1>1 DEF LqCuts, LqSend
  <2>2. CASE lqQueue' = Append(lqQueue, lqLast')
    <3>1. \A i \in 1..Len(lqQueue') :
             \/ i \in 1..Len(lqQueue) /\ lqQueue'[i] = lqQueue[i]
             \/ i = Len(lqQueue) + 1 /\ lqQueue'[i] = lqLast'
      BY <1>0, <2>1, <2>2, QueueAppend
    <3>2. ASSUME NEW i \in 1..Len(lqQueue')
          PROVE  lqJob' < lqQueue'[i] /\ lqQueue'[i] =< lqLast'
      BY <1>0, <2>1, <3>1 DEF LqNoneAhead
    <3>3. ASSUME NEW i \in 1..Len(lqQueue'), NEW k \in 1..Len(lqQueue'), i < k
          PROVE  lqQueue'[i] < lqQueue'[k]
      <4>1. i \in 1..Len(lqQueue) /\ lqQueue'[i] = lqQueue[i]
        BY <1>0, <2>1, <2>2, <3>1, <3>3
      <4>2. CASE k \in 1..Len(lqQueue) /\ lqQueue'[k] = lqQueue[k]
        BY <3>3, <4>1, <4>2
      <4>3. CASE lqQueue'[k] = lqLast'
        BY <1>0, <2>1, <4>1, <4>3
      <4> QED BY <3>1, <4>2, <4>3
    <3> QED BY <3>2, <3>3
  <2>3. CASE lqQueue' = lqQueue
    BY <1>0, <2>1, <2>3
  <2> QED BY <1>1, <2>2, <2>3 DEF LqCuts, LqSend
<1>2. CASE LqRests
  BY <1>2 DEF LqRests
<1>3. CASE LqTake
  <2>1. lqLast' = lqLast /\ (lqJob' = lqJob \/ lqJob' = Head(lqQueue))
    BY <1>3 DEF LqTake
  <2>2. /\ 1 \in 1..Len(lqQueue) /\ Head(lqQueue) = lqQueue[1]
        /\ \A i \in 1..Len(lqQueue') :
              i + 1 \in 1..Len(lqQueue) /\ lqQueue'[i] = lqQueue[i + 1]
    BY <1>3, QueueTail DEF LqTake
  <2>3. ASSUME NEW i \in 1..Len(lqQueue')
        PROVE  lqJob' < lqQueue'[i] /\ lqQueue'[i] =< lqLast'
    <3>1. i + 1 \in 1..Len(lqQueue) /\ lqQueue'[i] = lqQueue[i + 1] /\ 1 < i + 1
      BY <2>2
    <3>2. lqQueue[1] < lqQueue[i + 1]
      BY <2>2, <3>1
    <3> QED BY <1>0, <2>1, <2>2, <3>1, <3>2
  <2>4. ASSUME NEW i \in 1..Len(lqQueue'), NEW k \in 1..Len(lqQueue'), i < k
        PROVE  lqQueue'[i] < lqQueue'[k]
    <3>1. i + 1 < k + 1
      BY <2>4
    <3> QED BY <2>2, <3>1
  <2> QED BY <2>3, <2>4
<1>4. CASE LqTranscribed
  <2>1. UNCHANGED <<lqQueue, lqLast>> /\ (lqJob' = lqJob \/ lqJob' = 0)
    BY <1>4 DEF LqTranscribed
  <2> QED BY <1>0, <2>1
<1>5. CASE LqWrite
  <2>1. UNCHANGED <<lqQueue, lqLast>> /\ lqJob' = 0
    BY <1>5 DEF LqWrite
  <2> QED BY <1>0, <2>1
<1>6. CASE LqDie
  BY <1>6 DEF LqDie
<1> QED
  BY <1>1, <1>2, <1>3, <1>4, <1>5, <1>6, StepKinds

\* No utterance is worked on or let go before it is cut.
LEMMA NoneAheadKept ==
    ASSUME LqTyped, LqOrdered, LiveQueueNext
    PROVE  LqNoneAhead'
<1> USE DEF LqNoneAhead
<1> LqQueueOrdered /\ LqNoneAhead
  BY DEF LqOrdered
<1>0. /\ lqJob \in Nat /\ lqLast \in Nat
      /\ \A n \in lqUnheard \cup lqLate : n \in Nat
  BY Utterances, LqAssumption DEF LqIds, LqTyped, LqWorkerTyped
<1>1. CASE LqCuts
  <2>1. lqLast' = lqLast + 1 /\ UNCHANGED <<lqJob, lqUnheard, lqLate>>
    BY <1>1 DEF LqCuts, LqSend, lqHistory
  <2> QED BY <1>0, <2>1
<1>2. CASE LqRests
  BY <1>2 DEF LqRests, lqHistory
<1>3. CASE LqTake
  <2>1. Head(lqQueue) =< lqLast
    BY <1>3, QueueTail DEF LqTake, LqQueueOrdered
  <2> QED BY <1>3, <2>1 DEF LqTake
<1>4. CASE LqTranscribed
  BY <1>0, <1>4 DEF LqTranscribed
<1>5. CASE LqWrite
  BY <1>0, <1>5 DEF LqWrite, lqHistory
<1>6. CASE LqDie
  BY <1>6 DEF LqDie, lqHistory
<1> QED
  BY <1>1, <1>2, <1>3, <1>4, <1>5, <1>6, StepKinds

\* A line is appended for the utterance in work, which is newer than every line.
LEMMA LinesOrderedKept ==
    ASSUME LqTyped, LqOrdered, LiveQueueNext
    PROVE  LqLinesOrdered'
<1> USE DEF LqLinesOrdered, LinesInOrder
<1> LqQueueOrdered /\ LqNoneAhead /\ LqLinesOrdered
  BY DEF LqOrdered
<1>0. /\ lqQueue \in Seq(Nat) /\ lqJob \in Nat /\ lqLast \in Nat
      /\ lqLines \in Seq(Nat \X Nat)
      /\ \A k \in 1..Len(lqLines) : lqLines[k][1] \in Nat /\ lqLines[k][2] \in Nat
  BY Utterances
<1>1. CASE LqCuts
  <2>1. /\ lqLast' = lqLast + 1 /\ lqLast' \in Nat
        /\ UNCHANGED <<lqJob, lqLineCount, lqLines, lqBroken>>
    BY <1>0, <1>1 DEF LqCuts, LqSend, lqWriter
  <2>2. ASSUME NEW i \in 1..Len(lqQueue'), NEW k \in 1..Len(lqLines)
        PROVE  lqLines[k][2] < lqQueue'[i]
    <3>1. CASE lqQueue' = lqQueue
      BY <3>1, <2>2
    <3>2. CASE lqQueue' = Append(lqQueue, lqLast')
      <4>1. \/ i \in 1..Len(lqQueue) /\ lqQueue'[i] = lqQueue[i]
            \/ lqQueue'[i] = lqLast'
        BY <1>0, <2>1, <3>2, QueueAppend
      <4>2. lqLines[k][2] =< lqLast /\ lqLines[k][2] \in Nat
        BY <1>0
      <4>3. \A j \in 1..Len(lqQueue) : lqLines[k][2] < lqQueue[j]
        OBVIOUS
      <4> HIDE DEF LqLinesOrdered, LinesInOrder
      <4>4. lqLines[k][2] < lqLast'
        BY <1>0, <2>1, <4>2
      <4> QED BY <4>1, <4>3, <4>4
    <3> QED BY <1>1, <3>1, <3>2 DEF LqCuts, LqSend
  <2>3. ASSUME NEW k \in 1..Len(lqLines)
        PROVE  lqLines[k][2] =< lqLast'
    <3>1. lqLines[k][2] =< lqLast /\ lqLines[k][2] \in Nat
      BY <1>0
    <3> HIDE DEF LqLinesOrdered, LinesInOrder
    <3> QED BY <1>0, <2>1, <3>1
  <2>4. \A k \in 1..Len(lqLines) : \A i \in 1..Len(lqQueue') : lqLines[k][2] < lqQueue'[i]
    BY <2>2
  <2> QED BY <2>1, <2>3, <2>4
<1>2. CASE LqRests
  BY <1>2 DEF LqRests, lqWriter
<1>3. CASE LqTake
  <2>1. UNCHANGED <<lqLast, lqLineCount, lqLines, lqBroken>>
        /\ (lqJob' = lqJob \/ lqJob' = Head(lqQueue))
    BY <1>3 DEF LqTake, lqWriter
  <2>2. /\ 1 \in 1..Len(lqQueue) /\ Head(lqQueue) = lqQueue[1]
        /\ \A i \in 1..Len(lqQueue') :
              i + 1 \in 1..Len(lqQueue) /\ lqQueue'[i] = lqQueue[i + 1]
    BY <1>3, QueueTail DEF LqTake
  <2>3. \A k \in 1..Len(lqLines) : \A i \in 1..Len(lqQueue') : lqLines[k][2] < lqQueue'[i]
    BY <2>2
  <2>4. \A k \in 1..Len(lqLines) : lqJob' # 0 => lqLines[k][2] < lqJob'
    BY <2>1, <2>2
  <2> QED BY <2>1, <2>3, <2>4
<1>4. CASE LqTranscribed
  <2>1. UNCHANGED <<lqLast, lqQueue, lqLineCount, lqLines, lqBroken>>
        /\ (lqJob' = lqJob \/ lqJob' = 0)
    BY <1>4 DEF LqTranscribed, lqWriter
  <2> QED BY <2>1
<1>5. CASE LqWrite
  <2>1. UNCHANGED <<lqLast, lqQueue>> /\ lqJob' = 0 /\ lqJob # 0
    <3>1. lqJob # 0
      BY <1>5 DEF LqWrite, LqTyped, LqWorkerTyped
    <3> QED BY <1>5, <3>1 DEF LqWrite
  <2>2. CASE lqLines' = lqLines /\ (lqBroken' \/ lqWriter' = lqWriter)
    BY <2>1, <2>2 DEF lqWriter
  <2>3. CASE /\ ~lqBroken /\ lqBroken' = lqBroken /\ lqLineCount' = lqLineCount + 1
             /\ lqLines' = Append(lqLines, <<lqLineCount', lqJob>>)
    <3> DEFINE last == Len(lqLines) + 1
    <3>1. lqLineCount = Len(lqLines) /\ lqLineCount' = last /\ last \in Nat
      BY <1>0, <2>3
    <3>2. Len(lqLines') = last /\ lqLines'[last] = <<last, lqJob>>
      BY <1>0, <2>3, <3>1
    <3>3. \A k \in 1..Len(lqLines) : lqLines'[k] = lqLines[k]
      BY <1>0, <2>3, <3>1
    <3>4. ASSUME NEW k \in 1..Len(lqLines')
          PROVE  \/ k \in 1..Len(lqLines) /\ lqLines'[k] = lqLines[k]
                 \/ k = last /\ lqLines'[k][1] = last /\ lqLines'[k][2] = lqJob
      <4> HIDE DEF LqLinesOrdered, LinesInOrder
      <4>1. CASE k = last
        BY <3>2, <4>1
      <4>2. CASE k # last
        <5>1. Len(lqLines) \in Nat /\ k \in 1..last
          BY <1>0, <3>2
        <5>2. k \in 1..Len(lqLines)
          BY <4>2, <5>1
        <5> QED BY <3>3, <5>2
      <4> QED BY <4>1, <4>2
    <3>5. last =< lqJob
      <4>1. CASE Len(lqLines) = 0
        BY <1>0, <2>1, <4>1
      <4>2. CASE Len(lqLines) # 0
        <5>1. Len(lqLines) \in 1..Len(lqLines)
          BY <1>0, <4>2
        <5>2. Len(lqLines) =< lqLines[Len(lqLines)][2] /\ lqLines[Len(lqLines)][2] < lqJob
          BY <2>1, <5>1
        <5> QED BY <1>0, <5>1, <5>2
      <4> QED BY <4>1, <4>2
    <3>6. ASSUME NEW k \in 1..Len(lqLines')
          PROVE  /\ k =< lqLines'[k][2] /\ lqLines'[k][2] =< lqLast'
                 /\ \A i \in 1..Len(lqQueue') : lqLines'[k][2] < lqQueue'[i]
                 /\ lqLines'[k][1] = k
      BY <1>0, <2>1, <3>4, <3>5 DEF LqNoneAhead, LqQueueOrdered
    <3>7. ASSUME NEW k \in 1..Len(lqLines'), k > 1
          PROVE  lqLines'[k - 1][2] < lqLines'[k][2]
      <4>1. k - 1 \in 1..Len(lqLines) /\ lqLines'[k - 1] = lqLines[k - 1]
        <5> HIDE DEF LqLinesOrdered, LinesInOrder
        <5>1. Len(lqLines) \in Nat /\ k \in 1..(Len(lqLines) + 1)
          BY <1>0, <3>2
        <5>2. k - 1 \in 1..Len(lqLines)
          BY <3>7, <5>1
        <5> QED BY <3>3, <5>2
      <4>2. CASE k \in 1..Len(lqLines)
        BY <3>3, <3>7, <4>1, <4>2
      <4>3. CASE lqLines'[k][2] = lqJob
        BY <2>1, <4>1, <4>3
      <4> QED BY <3>4, <4>2, <4>3
    <3> QED BY <2>1, <2>3, <3>1, <3>2, <3>6, <3>7
  <2> QED BY <1>5, <2>2, <2>3 DEF LqWrite, lqWriter
<1>6. CASE LqDie
  <2>1. UNCHANGED <<lqLast, lqJob, lqLineCount, lqLines, lqBroken>> /\ lqQueue' = <<>>
    BY <1>6 DEF LqDie, lqWriter
  <2> QED BY <2>1
<1> QED
  BY <1>1, <1>2, <1>3, <1>4, <1>5, <1>6, StepKinds

-----------------------------------------------------------------------------
(* What is missing from the transcript *)

\* The utterances that are somewhere, and those that are nowhere.
LqKept == LqHeard \cup ToSet(lqQueue) \cup {lqJob} \cup lqUnheard \cup lqLate
LqMissing == (1..lqLast) \ LqKept

\* A step after which nothing is missing that was not before.
LEMMA NothingLost ==
    ASSUME LqTyped, DropsTold, UNCHANGED <<lqLast, lqDropped>>,
           lqBroken => lqBroken',
           lqWorker = "dead" => lqWorker' = "dead",
           ~lqBroken' /\ lqWorker' # "dead" => LqKept' \ {0} = LqKept \ {0}
    PROVE  DropsTold'
<1> SUFFICES ASSUME ~lqBroken', lqWorker' # "dead"
             PROVE  lqDropped' = Cardinality(LqMissing')
  BY DEF DropsTold, LqMissing, LqKept
<1>1. lqDropped = Cardinality(LqMissing)
  BY DEF DropsTold, LqMissing, LqKept
<1>2. LqMissing' = LqMissing
  <2>1. 0 \notin 1..lqLast
    OBVIOUS
  <2> QED BY <2>1 DEF LqMissing
<1> QED BY <1>1, <1>2

\* Everything that is somewhere was cut.
LEMMA KeptWasCut ==
    ASSUME LqTyped, LqOrdered
    PROVE  \A n \in LqKept : n \in Nat /\ n =< lqLast
<1> LqQueueOrdered /\ LqNoneAhead /\ LqLinesOrdered
  BY DEF LqOrdered
<1>1. \A n \in LqHeard : n \in Nat /\ n =< lqLast
  BY Utterances DEF LqHeard, LqLinesOrdered
<1>2. \A n \in ToSet(lqQueue) : n \in Nat /\ n =< lqLast
  BY Utterances DEF ToSet, LqQueueOrdered
<1>3. lqUnheard \subseteq Nat /\ lqLate \subseteq Nat
  BY LqAssumption DEF LqTyped, LqWorkerTyped, LqIds
<1> QED BY <1>1, <1>2, <1>3, Utterances DEF LqKept, LqNoneAhead

\* Every step keeps the count of the dropped equal to what is missing.
LEMMA DropsKept ==
    ASSUME LqInv, LiveQueueNext
    PROVE  DropsTold'
<1> LqTyped /\ LqOrdered /\ DropsTold
  BY DEF LqInv
<1>0. lqQueue \in Seq(Nat) /\ lqLast \in Nat /\ lqLines \in Seq(Nat \X Nat)
  BY Utterances
<1>1. CASE LqCuts
  <2>1. lqLast' = lqLast + 1 /\ lqLast' \in Nat
        /\ UNCHANGED <<lqWorker, lqJob, lqLineCount, lqLines, lqBroken, lqUnheard, lqLate>>
    BY <1>0, <1>1 DEF LqCuts, LqSend, lqWriter, lqHistory
  <2>2. SUFFICES ASSUME ~lqBroken, lqWorker # "dead"
                 PROVE  lqDropped' = Cardinality(LqMissing')
    BY <2>1 DEF DropsTold, LqMissing, LqKept
  <2>3. lqDropped = Cardinality(LqMissing)
    BY <2>2 DEF DropsTold, LqMissing, LqKept
  <2>4. LqHeard' = LqHeard
    BY <2>1 DEF LqHeard
  <2>5. lqLast' \notin LqKept
    BY <1>0, <2>1, KeptWasCut
  <2>6. 1..lqLast' = (1..lqLast) \cup {lqLast'}
    BY <1>0, <2>1
  <2>7. CASE lqQueue' = Append(lqQueue, lqLast') /\ lqDropped' = lqDropped
    <3>1. ToSet(lqQueue') = ToSet(lqQueue) \cup {lqLast'}
      <4>1. Len(lqQueue') = Len(lqQueue) + 1 /\ lqQueue' \in Seq(Nat)
            /\ lqQueue'[Len(lqQueue) + 1] = lqLast'
            /\ \A i \in 1..Len(lqQueue) : lqQueue'[i] = lqQueue[i]
        BY <1>0, <2>1, <2>7
      <4>2. DOMAIN lqQueue' = 1..Len(lqQueue') /\ DOMAIN lqQueue = 1..Len(lqQueue)
        BY <1>0, <4>1
      <4>3. 1..Len(lqQueue') = (1..Len(lqQueue)) \cup {Len(lqQueue) + 1}
        BY <1>0, <4>1
      <4> QED BY <4>1, <4>2, <4>3 DEF ToSet
    <3>2. LqKept' = LqKept \cup {lqLast'}
      BY <2>1, <2>4, <3>1 DEF LqKept
    <3>3. LqMissing' = LqMissing
      <4>1. lqLast' \notin 1..lqLast
        BY <1>0, <2>1
      <4> QED BY <2>6, <3>2, <4>1 DEF LqMissing
    <3> QED BY <2>3, <2>7, <3>3
  <2>8. CASE lqQueue' = lqQueue /\ lqDropped' = lqDropped + 1
    <3>1. LqKept' = LqKept
      BY <2>1, <2>4, <2>8 DEF LqKept
    <3>2. LqMissing' = LqMissing \cup {lqLast'}
      BY <2>5, <2>6, <3>1 DEF LqMissing
    <3>3. IsFiniteSet(LqMissing)
      <4>1. IsFiniteSet(1..lqLast)
        BY <1>0, FS_Interval
      <4> QED BY <4>1, FS_Subset DEF LqMissing
    <3>4. lqLast' \notin LqMissing
      BY <1>0, <2>1 DEF LqMissing
    <3> QED BY <2>3, <2>8, <3>2, <3>3, <3>4, FS_AddElement
  <2> QED BY <1>1, <2>2, <2>7, <2>8 DEF LqCuts, LqSend
<1>2. CASE LqRests
  <2>1. UNCHANGED LqKept
    BY <1>2 DEF LqRests, LqKept, LqHeard, lqWriter, lqHistory
  <2> QED BY <1>2, <2>1, NothingLost DEF LqRests, lqWriter
<1>3. CASE LqTake
  <2>1. UNCHANGED <<lqLast, lqDropped, lqLineCount, lqLines, lqBroken, lqUnheard>>
        /\ lqWorker # "dead" /\ lqJob = 0
    BY <1>3 DEF LqTake, lqWriter, LqTyped, LqWorkerTyped
  <2>2. ToSet(lqQueue) = ToSet(lqQueue') \cup {Head(lqQueue)}
    <3>1. /\ 1 \in 1..Len(lqQueue) /\ Head(lqQueue) = lqQueue[1]
          /\ lqQueue' \in Seq(Nat) /\ Len(lqQueue') = Len(lqQueue) - 1
          /\ \A i \in 1..Len(lqQueue') : lqQueue'[i] = lqQueue[i + 1]
      BY <1>0, <1>3 DEF LqTake
    <3>2. DOMAIN lqQueue' = 1..Len(lqQueue') /\ DOMAIN lqQueue = 1..Len(lqQueue)
      BY <1>0, <3>1
    <3>3. \A i \in 1..Len(lqQueue) : i = 1 \/ (i - 1 \in 1..Len(lqQueue')
                                               /\ lqQueue[i] = lqQueue'[i - 1])
      BY <1>0, <3>1
    <3>4. \A i \in 1..Len(lqQueue') : i + 1 \in 1..Len(lqQueue)
      BY <1>0, <3>1
    <3>5. ToSet(lqQueue) \subseteq ToSet(lqQueue') \cup {Head(lqQueue)}
      <4> SUFFICES ASSUME NEW i \in 1..Len(lqQueue)
                   PROVE  lqQueue[i] \in ToSet(lqQueue') \cup {Head(lqQueue)}
        BY <3>2 DEF ToSet
      <4>1. CASE i = 1
        BY <3>1, <4>1
      <4>2. CASE i # 1
        BY <3>2, <3>3, <4>2 DEF ToSet
      <4> QED BY <4>1, <4>2
    <3>6. ToSet(lqQueue') \cup {Head(lqQueue)} \subseteq ToSet(lqQueue)
      <4>1. \A i \in 1..Len(lqQueue') : lqQueue'[i] \in ToSet(lqQueue)
        BY <3>1, <3>2, <3>4 DEF ToSet
      <4>2. Head(lqQueue) \in ToSet(lqQueue)
        BY <3>1, <3>2 DEF ToSet
      <4> QED BY <3>2, <4>1, <4>2 DEF ToSet
    <3> QED BY <3>5, <3>6
  <2>3. LqHeard' = LqHeard
    BY <2>1 DEF LqHeard
  <2>4. LqKept' \ {0} = LqKept \ {0}
    BY <1>3, <2>1, <2>2, <2>3 DEF LqTake, LqKept
  <2> QED BY <2>1, <2>4, NothingLost
<1>4. CASE LqTranscribed
  <2>1. UNCHANGED <<lqLast, lqDropped, lqQueue, lqLineCount, lqLines, lqBroken, lqLate>>
        /\ lqWorker # "dead"
    BY <1>4 DEF LqTranscribed, lqWriter
  <2>2. LqHeard' = LqHeard
    BY <2>1 DEF LqHeard
  <2>3. LqKept' \ {0} = LqKept \ {0}
    BY <1>4, <2>1, <2>2 DEF LqTranscribed, LqKept
  <2> QED BY <2>1, <2>3, NothingLost
<1>5. CASE LqWrite
  <2>1. UNCHANGED <<lqLast, lqDropped, lqQueue, lqUnheard, lqLate>>
        /\ lqWorker = "counted" /\ lqJob' = 0
    BY <1>5 DEF LqWrite, lqHistory
  <2>2. lqBroken => lqBroken'
    BY <1>5 DEF LqWrite, lqWriter
  <2>3. ASSUME ~lqBroken'
        PROVE  LqKept' \ {0} = LqKept \ {0}
    <3>1. lqLines' = Append(lqLines, <<lqLineCount', lqJob>>) /\ lqLineCount' \in Nat
          /\ lqJob \in Nat
      BY <1>5, <2>3, Utterances DEF LqWrite, lqWriter, LqTyped, LqWriterTyped
    <3>2. LqHeard' = LqHeard \cup {lqJob}
      <4>1. Len(lqLines') = Len(lqLines) + 1
            /\ lqLines'[Len(lqLines) + 1] = <<lqLineCount', lqJob>>
            /\ \A i \in 1..Len(lqLines) : lqLines'[i] = lqLines[i]
        BY <1>0, <3>1
      <4>2. 1..Len(lqLines') = (1..Len(lqLines)) \cup {Len(lqLines) + 1}
        BY <1>0, <4>1
      <4> QED BY <4>1, <4>2 DEF LqHeard
    <3> QED BY <2>1, <3>2 DEF LqKept
  <2> QED BY <1>5, <2>1, <2>2, <2>3, NothingLost DEF LqWrite
<1>6. CASE LqDie
  BY <1>6 DEF LqDie, DropsTold
<1> QED
  BY <1>1, <1>2, <1>3, <1>4, <1>5, <1>6, StepKinds

-----------------------------------------------------------------------------
\* Every step keeps the invariant.
LEMMA NextKeeps == LqInv /\ [LiveQueueNext]_lqVars => LqInv'
<1> SUFFICES ASSUME LqInv, [LiveQueueNext]_lqVars
             PROVE  LqInv'
  OBVIOUS
<1>1. CASE LiveQueueNext
  <2>1. LqTyped'
    BY <1>1, ConsumerTyped, QueueTyped, WorkerTyped, StatusTyped, WriterTyped DEF LqInv, LqTyped
  <2>2. LqOrdered'
    BY <1>1, QueueOrderedKept, NoneAheadKept, LinesOrderedKept DEF LqInv, LqOrdered
  <2> QED BY <1>1, <2>1, <2>2, CountedKept, DropsKept DEF LqInv
<1>2. CASE UNCHANGED lqVars
  BY <1>2
  DEF lqVars, lqBuffer, lqWriter, lqHistory, LqInv, LqTyped, LqConsumerTyped, LqQueueTyped,
      LqWorkerTyped, LqStatusTyped, LqWriterTyped, LqCounted, PendingExact, BacklogTold, LqOrdered,
      LqQueueOrdered, LqNoneAhead, LqLinesOrdered, LinesInOrder, DropsTold, LqHeard
<1> QED BY <1>1, <1>2

\* So the invariant holds always.
LEMMA Invariance == LiveQueueSpec => []LqInv
BY InitOk, NextKeeps, PTL DEF LiveQueueSpec

\* No fairness is needed for it.
LEMMA LqTypes == LiveQueueInit /\ [][LiveQueueNext]_lqVars => []LiveQueueTypeOK
<1>1. LqInv => LiveQueueTypeOK
  <2> SUFFICES ASSUME LqInv PROVE LiveQueueTypeOK
    OBVIOUS
  <2>1. LqConsumerTyped /\ LqQueueTyped /\ LqWorkerTyped /\ LqStatusTyped /\ LqWriterTyped
    BY DEF LqInv, LqTyped
  <2>2. lqQueue \in BoundedSeq(LqIds, LqCap)
    <3>1. lqQueue \in [1..Len(lqQueue) -> LqIds] /\ Len(lqQueue) \in 0..LqCap
      BY <2>1, LqAssumption DEF LqQueueTyped
    <3>2. lqQueue \in UNION {[1..m -> LqIds] : m \in 0..LqCap}
      BY <3>1
    <3> QED BY <3>2 DEF BoundedSeq, SeqOf
  <2>3. lqDropped \in 0..LqUtterances
    BY <2>1, LqAssumption DEF LqConsumerTyped
  <2> QED BY <2>1, <2>2, <2>3
    DEF LiveQueueTypeOK, LqConsumerTyped, LqQueueTyped, LqWorkerTyped, LqStatusTyped, LqWriterTyped
<1> QED BY <1>1, InitOk, NextKeeps, PTL

\* The state of the live sidecar is of the type TLC checks.
THEOREM QueueTyping == LiveQueueSpec => []LiveQueueTypeOK
<1>1. LiveQueueSpec => LiveQueueInit /\ [][LiveQueueNext]_lqVars
  BY DEF LiveQueueSpec
<1> QED BY <1>1, LqTypes, PTL

\* What the live sidecar says of itself is true: its backlog, its losses and the
\* order of its lines (live_transcript.rs:2404, bounded_inference.rs:26).
THEOREM Honest == LiveQueueSpec => []BacklogHonest
<1>1. LqInv => BacklogHonest
  BY DEF LqInv, LqCounted, LqOrdered, LqLinesOrdered, BacklogHonest
<1> QED BY <1>1, Invariance, PTL

-----------------------------------------------------------------------------
(* ParakeetSidecar: the server's manager *)

\* The starts of a call are paid for by its tries and by the one downgrade.
PsPaid(starts, tries, black) == starts =< tries \/ (black /\ starts =< tries + 1)

PsBudget ==
    /\ psPc = "ensure" =>
          \/ psTry = 1 /\ psStarts = 0
          \/ psTry = 2 /\ psReady /\ PsPaid(psStarts, 1, psBlack)
    /\ psPc = "start" => PsPaid(psStarts + 1, psTry, psBlack)
    /\ psPc = "send" => PsPaid(psStarts, psTry, psBlack)

\* What a call makes of its spec: fp16 is given up for the blacklist alone, which
\* is not forgotten once it has been read.
PsFrom(spec, asked, known) ==
    \/ spec = asked
    \/ spec = PsFp32(asked) /\ known

PsKnown == psBlack /\ psReady

PsPlanned ==
    /\ psReady /\ psBlackFile => psBlack
    /\ psPc # "idle" => PsFrom(psWanted, psCall.spec, PsKnown)
    /\ psPc \in {"start", "send"} => psReady
    /\ psPc = "start" =>
          /\ PsFrom(psOriginal, psCall.spec, PsKnown) /\ PsFrom(psAttempt, psCall.spec, PsKnown)
          /\ psState.st = "starting"
    /\ psState.st = "fallback" => PsFrom(psState.spec, psFallenFor, PsKnown)

\* A shutdown leaves the manager disabled.
PsOff == psShutdown = "done" /\ ~psRevived => psPc = "idle" /\ psState.st = "disabled"

PsInv ==
    /\ ParakeetSidecarTypeOK
    /\ ServedAsAsked /\ Fp16NotRetried /\ OneServer
    /\ PsBudget /\ PsPlanned /\ PsOff

\* FallbackSticks, without its box.
PsSticks ==
    psPc = "ensure" /\ psPc' = "start" /\ psState.st = "fallback" /\ psFallenFor = psWanted
        => psWanted.fp16 /\ psBlack'

\* A spec without fp16 is a spec of the same model.
LEMMA PsSpecs ==
    ASSUME NEW s \in PsSpec
    PROVE  /\ PsFp32(s) \in PsSpec /\ PsFp32(s).model = s.model /\ PsFp32(s).fp16 = FALSE
           /\ s.model \in PsModels /\ s.fp16 \in BOOLEAN
           /\ s.fp16 = FALSE => PsFp32(s) = s
BY DEF PsSpec, PsFp32

\* At first there is no server.
LEMMA PsInitOk == ParakeetSidecarInit => PsInv
<1> SUFFICES ASSUME ParakeetSidecarInit PROVE PsInv
  OBVIOUS
<1>1. PsSome \in PsSpec
  <2>1. \E s : s \in PsSpec
    <3>1. PICK m : m \in PsModels
      BY PsAssumption
    <3>2. [model |-> m, fp16 |-> FALSE] \in PsSpec
      BY <3>1 DEF PsSpec
    <3> QED BY <3>2
  <2> QED BY <2>1 DEF PsSome
<1>2. ParakeetSidecarTypeOK
  <2>1. psCall \in [spec : PsSpec, warmup : BOOLEAN]
    BY <1>1 DEF ParakeetSidecarInit
  <2>2. psState \in [st : {"cold", "starting", "healthy", "fallback", "disabled"}, spec : PsSpec]
    BY <1>1 DEF ParakeetSidecarInit
  <2>3. psCalls \in 0..PsMaxCalls
    BY PsAssumption DEF ParakeetSidecarInit
  <2>4. \A flag \in {psAlive, psBlack, psBlackFile, psReady, psStuck, psRevived} : flag \in BOOLEAN
    BY DEF ParakeetSidecarInit
  <2>5. /\ psPc = "idle" /\ psShutdown = "no" /\ psTry \in 1..2 /\ psStarts \in 0..3
        /\ psServers \in Nat /\ psAbandoned \in Nat
    BY DEF ParakeetSidecarInit
  <2>6. /\ psWanted \in PsSpec /\ psAttempt \in PsSpec /\ psOriginal \in PsSpec
        /\ psFallenFor \in PsSpec
    BY <1>1 DEF ParakeetSidecarInit
  <2> QED BY <2>1, <2>2, <2>3, <2>4, <2>5, <2>6 DEF ParakeetSidecarTypeOK
<1>3. ServedAsAsked /\ Fp16NotRetried /\ OneServer /\ PsBudget /\ PsPlanned /\ PsOff
  BY DEF ParakeetSidecarInit, ServedAsAsked, Fp16NotRetried, OneServer, PsOwned, PsBudget,
         PsPlanned, PsOff
<1> QED BY <1>2, <1>3 DEF PsInv

\* A call begins with nothing to its account.
LEMMA PsBeginStep ==
    ASSUME PsInv, NEW spec \in PsSpec, NEW warmup \in BOOLEAN,
           PsBegin([spec |-> spec, warmup |-> warmup])
    PROVE  PsInv'
<1> USE DEF PsBegin, PsFree
<1>1. ParakeetSidecarTypeOK'
  <2>1. psCalls' \in 0..PsMaxCalls
    BY PsAssumption DEF PsInv, ParakeetSidecarTypeOK
  <2>2. psCall' \in [spec : PsSpec, warmup : BOOLEAN] /\ psWanted' = spec
    OBVIOUS
  <2> QED BY <2>1, <2>2 DEF PsInv, ParakeetSidecarTypeOK, psBlacklist
<1>2. ServedAsAsked' /\ Fp16NotRetried' /\ PsBudget'
  BY DEF ServedAsAsked, Fp16NotRetried, PsBudget
<1>3. OneServer'
  BY DEF PsInv, OneServer, PsOwned, PsOff
<1>4. PsPlanned'
  BY DEF PsInv, PsPlanned, PsFrom, PsKnown, psBlacklist
<1>5. PsOff'
  BY DEF PsInv, PsOff
<1> QED BY <1>1, <1>2, <1>3, <1>4, <1>5 DEF PsInv

\* The blacklist is read before it is looked at, and is not forgotten then.
LEMMA PsHousekept ==
    ASSUME PsInv, PsHousekeeping
    PROVE  /\ psBlack' \in BOOLEAN /\ psBlackFile' \in BOOLEAN /\ psReady' = TRUE
           /\ psBlackFile' => psBlack'
           /\ psReady => psBlack' = psBlack
BY DEF PsInv, PsHousekeeping, PsPlanned, ParakeetSidecarTypeOK, psBlacklist

\* A server that runs with what is wanted is used, a fallback for it is kept, and
\* otherwise the server is stopped before another one is started.
LEMMA PsEnsureStep ==
    ASSUME PsInv, PsEnsure
    PROVE  PsInv' /\ PsSticks
<1> DEFINE spec == PsEffective(psWanted, psBlack')
           runs == psState.st = "healthy" /\ PsMatches(psState.spec, spec) /\ psAlive
<1>0. /\ ParakeetSidecarTypeOK /\ psPc = "ensure"
      /\ psWanted \in PsSpec /\ psCall.spec \in PsSpec /\ psCall.warmup \in BOOLEAN
      /\ psFallenFor \in PsSpec
      /\ psBlack' \in BOOLEAN /\ psBlackFile' \in BOOLEAN /\ psReady' = TRUE
      /\ psBlackFile' => psBlack'
      /\ psReady => psBlack' = psBlack
      /\ UNCHANGED <<psCall, psWanted, psTry, psShutdown, psStuck, psCalls, psAbandoned, psRevived,
                     psStarts, psFallenFor>>
  BY PsHousekept DEF PsInv, PsEnsure, ParakeetSidecarTypeOK
<1>1. /\ spec \in PsSpec
      /\ spec.fp16 => ~psBlack'
      /\ PsFrom(psWanted, psCall.spec, psBlack')
      /\ PsFrom(spec, psCall.spec, psBlack')
      /\ spec.model = psCall.spec.model /\ (spec.fp16 => psCall.spec.fp16)
  <2>2. PsFrom(psWanted, psCall.spec, psBlack')
    BY <1>0 DEF PsInv, PsPlanned, PsFrom, PsKnown
  <2>3. spec = IF psBlack' THEN PsFp32(psWanted) ELSE psWanted
    BY DEF PsEffective
  <2>4. /\ PsFp32(psWanted) \in PsSpec /\ PsFp32(psCall.spec) \in PsSpec
        /\ PsFp32(psWanted).fp16 = FALSE /\ PsFp32(psCall.spec).fp16 = FALSE
        /\ PsFp32(psWanted).model = psWanted.model
        /\ PsFp32(psCall.spec).model = psCall.spec.model
        /\ PsFp32(PsFp32(psCall.spec)) = PsFp32(psCall.spec)
    BY <1>0, PsSpecs
  <2> HIDE DEF spec
  <2> QED BY <1>0, <2>2, <2>3, <2>4 DEF PsFrom
<1>3. PsPaid(psStarts + 1, psTry, psBlack') /\ PsPaid(psStarts, psTry, psBlack')
  <2>1. \/ psTry = 1 /\ psStarts = 0
        \/ psTry = 2 /\ psReady /\ PsPaid(psStarts, 1, psBlack)
    BY <1>0 DEF PsInv, PsBudget
  <2>2. psStarts \in 0..3
    BY <1>0 DEF ParakeetSidecarTypeOK
  <2> QED BY <1>0, <2>1, <2>2 DEF PsPaid
<1>4. /\ \/ /\ runs /\ PsGoOn
            /\ UNCHANGED <<psAttempt, psOriginal, psState, psAlive, psServers>>
         \/ /\ psPc' = "idle"
            /\ UNCHANGED <<psAttempt, psOriginal, psState, psAlive, psServers>>
         \/ /\ ~PsRests(spec)
            /\ psPc' = "start" /\ psAttempt' = spec /\ psOriginal' = spec
            /\ psServers' = psServers - PsOwned
            /\ psState' = [st |-> "starting", spec |-> spec] /\ psAlive' = FALSE
  BY DEF PsEnsure
<1>o. psServers = PsOwned + psAbandoned /\ PsOwned \in {0, 1} /\ psAbandoned \in Nat
      /\ psServers \in Nat
  BY <1>0 DEF PsInv, OneServer, PsOwned, ParakeetSidecarTypeOK
<1>5. PsFrom(psWanted, psCall.spec, PsKnown)'
      /\ (psState.st = "fallback" => PsFrom(psState.spec, psFallenFor, psBlack'))
      /\ (psReady' /\ psBlackFile' => psBlack')
  BY <1>0, <1>1 DEF PsInv, PsPlanned, PsFrom, PsKnown
<1>6. PsOff'
  BY <1>0 DEF PsInv, PsOff
<1> HIDE DEF spec
<1>7. CASE psPc' = "start" /\ ~PsRests(spec)
  <2>1. /\ psAttempt' = spec /\ psOriginal' = spec /\ psServers' = psServers - PsOwned
        /\ psState' = [st |-> "starting", spec |-> spec] /\ psAlive' = FALSE
    BY <1>4, <1>7 DEF PsGoOn
  <2>2. psState'.st = "starting" /\ psState'.spec = spec
        /\ psState' \in [st : {"cold", "starting", "healthy", "fallback", "disabled"},
                         spec : PsSpec]
    BY <1>1, <2>1
  <2>3. ParakeetSidecarTypeOK'
    <3>1. psServers' \in Nat
      BY <1>o, <2>1
    <3>a. psAlive' \in BOOLEAN /\ psReady' \in BOOLEAN
      BY <1>0, <2>1
    <3>2. psAttempt' \in PsSpec /\ psOriginal' \in PsSpec
      BY <1>1, <2>1
    <3> QED BY <1>0, <1>7, <2>2, <3>1, <3>a, <3>2 DEF ParakeetSidecarTypeOK
  <2>4. ServedAsAsked' /\ Fp16NotRetried' /\ PsBudget'
    BY <1>0, <1>1, <1>3, <1>7, <2>1 DEF ServedAsAsked, Fp16NotRetried, PsBudget
  <2>5. OneServer'
    BY <1>0, <1>6, <1>7, <1>o, <2>1 DEF OneServer, PsOwned, PsOff
  <2>6. PsPlanned'
    BY <1>0, <1>1, <1>5, <1>7, <2>1, <2>2 DEF PsPlanned, PsFrom, PsKnown
  <2>7. PsSticks
    <3> SUFFICES ASSUME psState.st = "fallback", psFallenFor = psWanted
                 PROVE  psWanted.fp16 /\ psBlack'
      BY DEF PsSticks
    <3>1. psState.spec # spec
      BY <1>7 DEF PsRests, PsMatches
    <3>2. spec = IF psBlack' THEN PsFp32(psWanted) ELSE psWanted
      BY DEF PsEffective, spec
    <3>3. psState.spec = psWanted /\ psBlack'
      BY <1>0, <1>5, <3>1, <3>2 DEF PsFrom
    <3>4. psWanted.fp16 = FALSE => PsFp32(psWanted) = psWanted
      BY <1>0, PsSpecs
    <3> QED BY <1>0, <3>1, <3>2, <3>3, <3>4 DEF PsSpec
  <2> QED BY <1>6, <2>3, <2>4, <2>5, <2>6, <2>7 DEF PsInv
<1>8. CASE UNCHANGED <<psAttempt, psOriginal, psState, psAlive, psServers>> /\ psPc' = "idle"
  <2>1. ParakeetSidecarTypeOK'
    BY <1>0, <1>8 DEF ParakeetSidecarTypeOK
  <2>2. ServedAsAsked' /\ Fp16NotRetried' /\ PsBudget'
    BY <1>8 DEF ServedAsAsked, Fp16NotRetried, PsBudget
  <2>3. OneServer'
    BY <1>0, <1>8 DEF PsInv, OneServer, PsOwned
  <2>4. PsPlanned'
    BY <1>0, <1>5, <1>8 DEF PsPlanned, PsFrom, PsKnown
  <2>5. PsSticks
    BY <1>8 DEF PsSticks
  <2> QED BY <1>6, <2>1, <2>2, <2>3, <2>4, <2>5 DEF PsInv
<1>9. CASE /\ UNCHANGED <<psAttempt, psOriginal, psState, psAlive, psServers>>
           /\ runs /\ psPc' = "send"
  <2>1. psState.st = "healthy" /\ psState.spec = spec
    BY <1>9 DEF PsMatches
  <2>2. ParakeetSidecarTypeOK'
    BY <1>0, <1>9, <2>1 DEF ParakeetSidecarTypeOK
  <2>3. ServedAsAsked' /\ Fp16NotRetried' /\ PsBudget'
    BY <1>0, <1>1, <1>3, <1>9, <2>1 DEF ServedAsAsked, Fp16NotRetried, PsBudget
  <2>4. OneServer'
    BY <1>0, <1>9 DEF PsInv, OneServer, PsOwned
  <2>5. PsPlanned'
    BY <1>0, <1>5, <1>9 DEF PsPlanned, PsFrom, PsKnown
  <2>6. PsSticks
    BY <1>9 DEF PsSticks
  <2> QED BY <1>6, <2>2, <2>3, <2>4, <2>5, <2>6 DEF PsInv
<1> QED BY <1>4, <1>7, <1>8, <1>9 DEF PsGoOn

\* A start ends in a server, in the one downgrade, or in the fallback.
LEMMA PsStartStep ==
    ASSUME PsInv, PsStart
    PROVE  PsInv'
<1>0. /\ ParakeetSidecarTypeOK /\ psPc = "start"
      /\ psAttempt \in PsSpec /\ psOriginal \in PsSpec /\ psCall.spec \in PsSpec
      /\ psStarts' = psStarts + 1
      /\ psState.st = "starting" /\ PsOwned = 0 /\ psReady
      /\ psServers = psAbandoned /\ psAbandoned \in Nat
      /\ UNCHANGED <<psCall, psWanted, psOriginal, psTry, psShutdown, psStuck, psCalls, psAbandoned,
                     psRevived>>
  BY DEF PsInv, PsStart, ParakeetSidecarTypeOK, PsPlanned, PsOwned, OneServer
<1>1. psTry \in 1..2 /\ psStarts \in 0..3 /\ PsPaid(psStarts + 1, psTry, psBlack)
  BY <1>0 DEF PsInv, PsBudget, ParakeetSidecarTypeOK
<1>2. /\ PsFrom(psWanted, psCall.spec, PsKnown) /\ PsFrom(psOriginal, psCall.spec, PsKnown)
      /\ PsFrom(psAttempt, psCall.spec, PsKnown)
      /\ (psAttempt.fp16 => ~psBlack /\ ~psBlackFile) /\ (psBlackFile => psBlack)
  BY <1>0 DEF PsInv, PsPlanned, Fp16NotRetried
<1>3. /\ psAttempt.model = psCall.spec.model /\ (psAttempt.fp16 => psCall.spec.fp16)
      /\ PsFp32(psAttempt) \in PsSpec /\ PsFp32(psAttempt).fp16 = FALSE
  BY <1>0, <1>2, PsSpecs DEF PsFrom
<1>4. PsOff'
  BY <1>0 DEF PsInv, PsOff
<1>5. psStarts' \in 0..3
  BY <1>0, <1>1 DEF PsPaid
<1>6. CASE /\ psState' = [st |-> "healthy", spec |-> psAttempt] /\ psAlive' = TRUE
           /\ psServers' = psServers + 1
           /\ PsGoOn
           /\ UNCHANGED <<psAttempt, psBlacklist, psFallenFor>>
  <2>1. /\ psPc' \in {"idle", "send"} /\ psState'.st = "healthy" /\ psState'.spec = psAttempt
        /\ psState' \in [st : {"cold", "starting", "healthy", "fallback", "disabled"},
                         spec : PsSpec]
        /\ UNCHANGED <<psBlack, psBlackFile, psReady>>
    BY <1>0, <1>6 DEF PsGoOn, psBlacklist
  <2>2. ParakeetSidecarTypeOK'
    <3>1. psServers' \in Nat
      BY <1>0, <1>6
    <3> QED BY <1>0, <1>5, <1>6, <2>1, <3>1 DEF ParakeetSidecarTypeOK
  <2>3. ServedAsAsked' /\ Fp16NotRetried' /\ PsBudget'
    BY <1>0, <1>1, <1>2, <1>3, <2>1 DEF ServedAsAsked, Fp16NotRetried, PsBudget
  <2>4. OneServer'
    <3>1. PsOwned' = 1 /\ ~(psShutdown = "done" /\ ~psRevived)
      BY <1>0, <1>6, <2>1 DEF PsOwned, PsInv, PsOff
    <3> QED BY <1>0, <1>6, <3>1 DEF OneServer
  <2>5. PsPlanned'
    BY <1>0, <1>2, <2>1 DEF PsPlanned, PsFrom, PsKnown
  <2> QED BY <1>4, <2>2, <2>3, <2>4, <2>5 DEF PsInv
<1>7. CASE /\ psAttempt.fp16
           /\ PsRemember
           /\ psAttempt' = PsNextAttempt(psAttempt)
           /\ psState' = [st |-> "starting", spec |-> psAttempt']
           /\ UNCHANGED <<psPc, psAlive, psServers, psFallenFor>>
  <2>1. /\ psAttempt' = PsFp32(psAttempt) /\ psBlack' = TRUE /\ psReady' = psReady
        /\ psBlackFile' \in BOOLEAN /\ ~psBlack
        /\ psState' \in [st : {"cold", "starting", "healthy", "fallback", "disabled"},
                         spec : PsSpec]
        /\ psState'.st = "starting"
    BY <1>0, <1>2, <1>3, <1>7 DEF PsNextAttempt, PsRemember, ParakeetSidecarTypeOK
  <2>2. ParakeetSidecarTypeOK'
    BY <1>0, <1>3, <1>5, <1>7, <2>1 DEF ParakeetSidecarTypeOK
  <2>3. ServedAsAsked' /\ Fp16NotRetried'
    BY <1>0, <1>3, <1>7, <2>1 DEF ServedAsAsked, Fp16NotRetried
  <2>4. PsBudget'
    <3>1. PsPaid(psStarts' + 1, psTry, TRUE)
      BY <1>0, <1>1, <2>1 DEF PsPaid
    <3> QED BY <1>0, <1>7, <2>1, <3>1 DEF PsBudget
  <2>5. OneServer'
    BY <1>0, <1>7, <2>1 DEF OneServer, PsOwned
  <2>6. PsPlanned'
    <3>1. psAttempt' = PsFp32(psCall.spec)
      <4>1. PsFp32(PsFp32(psCall.spec)) = PsFp32(psCall.spec)
        BY <1>0, PsSpecs
      <4> QED BY <1>2, <2>1, <4>1 DEF PsFrom
    <3> QED BY <1>0, <1>2, <1>7, <2>1, <3>1 DEF PsPlanned, PsFrom, PsKnown
  <2> QED BY <1>4, <2>2, <2>3, <2>4, <2>5, <2>6 DEF PsInv
<1>8. CASE /\ psState' = [st |-> "fallback", spec |-> psOriginal]
           /\ psFallenFor' = psCall.spec
           /\ psPc' = "idle"
           /\ UNCHANGED <<psAttempt, psAlive, psBlacklist, psServers>>
  <2>1. /\ psState'.st = "fallback" /\ psState'.spec = psOriginal
        /\ psState' \in [st : {"cold", "starting", "healthy", "fallback", "disabled"},
                         spec : PsSpec]
        /\ UNCHANGED <<psBlack, psBlackFile, psReady>>
    BY <1>0, <1>8 DEF psBlacklist
  <2>2. ParakeetSidecarTypeOK'
    BY <1>0, <1>5, <1>8, <2>1 DEF ParakeetSidecarTypeOK
  <2>3. ServedAsAsked' /\ Fp16NotRetried' /\ PsBudget'
    BY <1>8 DEF ServedAsAsked, Fp16NotRetried, PsBudget
  <2>4. OneServer'
    BY <1>0, <1>8, <2>1 DEF OneServer, PsOwned
  <2>5. PsPlanned'
    BY <1>2, <1>8, <2>1 DEF PsPlanned, PsFrom, PsKnown
  <2> QED BY <1>4, <2>2, <2>3, <2>4, <2>5 DEF PsInv
<1> QED BY <1>6, <1>7, <1>8 DEF PsStart

\* An answer ends the call.
LEMMA PsAnsweredStep ==
    ASSUME PsInv, PsAnswered
    PROVE  PsInv'
<1>1. /\ psPc' = "idle" /\ psPc = "send"
      /\ UNCHANGED <<psSpecs, psTry, psState, psAlive, psBlacklist, psShutdown, psStuck, psCalls,
                     psHistory>>
  BY DEF PsAnswered
<1>2. ParakeetSidecarTypeOK'
  BY <1>1 DEF PsInv, ParakeetSidecarTypeOK, psSpecs, psBlacklist, psHistory
<1>3. ServedAsAsked' /\ Fp16NotRetried' /\ PsBudget'
  BY <1>1 DEF ServedAsAsked, Fp16NotRetried, PsBudget
<1>4. OneServer' /\ PsPlanned' /\ PsOff'
  BY <1>1 DEF PsInv, OneServer, PsOwned, PsPlanned, PsFrom, PsKnown, PsOff, psSpecs, psBlacklist,
              psHistory
<1> QED BY <1>2, <1>3, <1>4 DEF PsInv

\* The first failure leaves the second try at most what the budget has.
LEMMA PsFirstFailsStep ==
    ASSUME PsInv, PsFirstFails
    PROVE  PsInv'
<1>0. /\ ParakeetSidecarTypeOK /\ psPc = "send" /\ psTry = 1 /\ psReady /\ psWanted \in PsSpec
      /\ psCall.spec \in PsSpec
      /\ psServers' = psServers - PsOwned /\ psServers = PsOwned + psAbandoned
      /\ PsOwned \in {0, 1} /\ psAbandoned \in Nat
      /\ psState' = [psState EXCEPT !.st = "cold"] /\ psAlive' = FALSE
      /\ psTry' = 2 /\ psPc' = "ensure"
      /\ UNCHANGED <<psCall, psAttempt, psOriginal, psShutdown, psStuck, psCalls, psAbandoned,
                     psRevived, psStarts, psFallenFor>>
  BY DEF PsInv, PsFirstFails, ParakeetSidecarTypeOK, PsPlanned, OneServer, PsOwned
<1>1. /\ psReady' = psReady /\ psBlack' \in BOOLEAN /\ psBlackFile' \in BOOLEAN
      /\ (psBlack => psBlack') /\ (psBlackFile' => psBlack')
      /\ \/ psWanted' = psWanted
         \/ psBlack' /\ psWanted' = PsFp32(psWanted)
  <2>0. psBlack \in BOOLEAN /\ psBlackFile \in BOOLEAN /\ (psBlackFile => psBlack)
    BY <1>0 DEF PsInv, PsPlanned, ParakeetSidecarTypeOK
  <2>1. CASE UNCHANGED <<psWanted, psBlacklist>>
    BY <2>0, <2>1 DEF psBlacklist
  <2>2. CASE psWanted.fp16 /\ PsRemember /\ psWanted' = PsFp32(psWanted)
    <3>1. psBlack' = TRUE /\ psBlackFile' \in {TRUE, psBlackFile} /\ psReady' = psReady
      BY <2>2 DEF PsRemember
    <3> QED BY <2>0, <2>2, <3>1
  <2> QED BY <2>1, <2>2 DEF PsFirstFails
<1>2. /\ psState'.st = "cold"
      /\ psState' \in [st : {"cold", "starting", "healthy", "fallback", "disabled"}, spec : PsSpec]
  BY <1>0 DEF ParakeetSidecarTypeOK
<1>3. psWanted' \in PsSpec /\ PsFrom(psWanted', psCall.spec, psBlack')
  <2>1. PsFp32(psWanted) \in PsSpec /\ PsFp32(PsFp32(psCall.spec)) = PsFp32(psCall.spec)
    BY <1>0, PsSpecs
  <2>2. PsFrom(psWanted, psCall.spec, psBlack')
    BY <1>0, <1>1 DEF PsInv, PsPlanned, PsFrom, PsKnown
  <2> QED BY <1>0, <1>1, <2>1, <2>2 DEF PsFrom
<1>4. ParakeetSidecarTypeOK'
  <2>1. psServers' \in Nat
    BY <1>0
  <2>2. \A flag \in {psAlive', psBlack', psBlackFile', psReady', psStuck', psRevived'} :
            flag \in BOOLEAN
    BY <1>0, <1>1 DEF ParakeetSidecarTypeOK
  <2> QED BY <1>0, <1>2, <1>3, <2>1, <2>2 DEF ParakeetSidecarTypeOK
<1>5. ServedAsAsked' /\ Fp16NotRetried'
  BY <1>0 DEF ServedAsAsked, Fp16NotRetried
<1>6. PsBudget'
  <2>1. PsPaid(psStarts, 1, psBlack')
    BY <1>0, <1>1 DEF PsInv, PsBudget, PsPaid
  <2> QED BY <1>0, <1>1, <2>1 DEF PsBudget
<1>7. OneServer'
  <2>1. PsOwned' = 0 /\ psServers' = psAbandoned
    BY <1>0, <1>2 DEF PsOwned
  <2> QED BY <1>0, <2>1 DEF OneServer
<1>8. PsPlanned'
  BY <1>0, <1>1, <1>2, <1>3 DEF PsPlanned, PsKnown
<1>9. PsOff'
  BY <1>0 DEF PsInv, PsOff
<1> QED BY <1>4, <1>5, <1>6, <1>7, <1>8, <1>9 DEF PsInv

\* After the second one the manager gives up on what was asked for.
LEMMA PsSecondFailsStep ==
    ASSUME PsInv, PsSecondFails
    PROVE  PsInv'
<1>0. /\ ParakeetSidecarTypeOK /\ psPc = "send"
      /\ psCall.spec \in PsSpec
      /\ psAbandoned' = psAbandoned + PsOwned /\ psServers = PsOwned + psAbandoned
      /\ PsOwned \in {0, 1} /\ psAbandoned \in Nat
      /\ psState' = [st |-> "fallback", spec |-> psCall.spec] /\ psAlive' = FALSE
      /\ psFallenFor' = psCall.spec /\ psPc' = "idle"
      /\ UNCHANGED <<psSpecs, psTry, psBlacklist, psShutdown, psStuck, psCalls, psServers,
                     psRevived, psStarts>>
  BY DEF PsInv, PsSecondFails, ParakeetSidecarTypeOK, OneServer, PsOwned
<1>2. /\ psState'.st = "fallback" /\ psState'.spec = psCall.spec
      /\ psState' \in [st : {"cold", "starting", "healthy", "fallback", "disabled"}, spec : PsSpec]
      /\ psAbandoned' \in Nat
  BY <1>0
<1>3. ParakeetSidecarTypeOK'
  BY <1>0, <1>2 DEF ParakeetSidecarTypeOK, psSpecs, psBlacklist
<1>4. ServedAsAsked' /\ Fp16NotRetried' /\ PsBudget'
  BY <1>0 DEF ServedAsAsked, Fp16NotRetried, PsBudget
<1>5. OneServer'
  <2>1. PsOwned' = 0 /\ psServers' = psAbandoned'
    BY <1>0, <1>2 DEF PsOwned
  <2> QED BY <1>0, <2>1 DEF OneServer
<1>6. PsPlanned'
  BY <1>0, <1>2 DEF PsInv, PsPlanned, PsFrom, psBlacklist
<1>7. PsOff'
  BY <1>0 DEF PsInv, PsOff
<1> QED BY <1>3, <1>4, <1>5, <1>6, <1>7 DEF PsInv

\* The server dies, a shutdown is asked for, or a thread of the manager panics.
LEMMA PsOutsideStep ==
    ASSUME PsInv, PsServerDies \/ PsAskShutdown \/ PsPanic
    PROVE  PsInv'
<1>0. /\ ParakeetSidecarTypeOK
      /\ UNCHANGED <<psPc, psSpecs, psTry, psState, psBlacklist, psCalls, psAbandoned, psRevived,
                     psStarts, psFallenFor>>
      /\ psAlive' \in BOOLEAN /\ psStuck' \in BOOLEAN /\ psShutdown' \in {"waiting", psShutdown}
  BY DEF PsInv, PsServerDies, PsAskShutdown, PsPanic, ParakeetSidecarTypeOK, psHistory
<1>1. psServers = PsOwned + psAbandoned /\ psServers' = PsOwned' + psAbandoned /\ psServers' \in Nat
      /\ (PsOwned = 0 => PsOwned' = 0)
  <2>0. psServers = PsOwned + psAbandoned /\ psAbandoned \in Nat
    BY DEF PsInv, OneServer, ParakeetSidecarTypeOK
  <2>1. CASE PsServerDies
    <3>1. PsOwned = 1 /\ PsOwned' = 0 /\ psServers' = psServers - 1
      BY <2>1 DEF PsServerDies, PsOwned
    <3> QED BY <2>0, <3>1
  <2>2. CASE PsAskShutdown \/ PsPanic
    <3>1. PsOwned' = PsOwned /\ psServers' = psServers /\ PsOwned \in {0, 1}
      BY <2>2 DEF PsAskShutdown, PsPanic, PsOwned, psHistory
    <3> QED BY <2>0, <3>1
  <2> QED BY <2>1, <2>2
<1>2. ParakeetSidecarTypeOK'
  <2>1. psShutdown' \in {"no", "waiting", "done"}
    BY <1>0 DEF ParakeetSidecarTypeOK
  <2> QED BY <1>0, <1>1, <2>1 DEF ParakeetSidecarTypeOK, psSpecs, psBlacklist
<1>3. ServedAsAsked' /\ Fp16NotRetried' /\ PsPlanned'
  BY <1>0 DEF PsInv, ServedAsAsked, Fp16NotRetried, PsPlanned, PsFrom, PsKnown, psSpecs, psBlacklist
<1>4. PsBudget'
  BY <1>0 DEF PsInv, PsBudget, psBlacklist
<1>5. OneServer' /\ PsOff'
  BY <1>0, <1>1 DEF PsInv, OneServer, PsOff
<1> QED BY <1>2, <1>3, <1>4, <1>5 DEF PsInv

\* The shutdown ends the manager's server.
LEMMA PsShutdownStep ==
    ASSUME PsInv, PsShutdownDone
    PROVE  PsInv'
<1>0. /\ ParakeetSidecarTypeOK /\ psPc = "idle"
      /\ psServers' = psServers - PsOwned /\ psServers = PsOwned + psAbandoned
      /\ PsOwned \in {0, 1} /\ psAbandoned \in Nat
      /\ psState' = [psState EXCEPT !.st = "disabled"] /\ psAlive' = FALSE
      /\ psShutdown' = "done"
      /\ UNCHANGED <<psPc, psSpecs, psTry, psBlacklist, psStuck, psCalls, psAbandoned, psRevived,
                     psStarts, psFallenFor>>
  BY DEF PsInv, PsShutdownDone, PsFree, ParakeetSidecarTypeOK, OneServer, PsOwned
<1>1. /\ psState'.st = "disabled"
      /\ psState' \in [st : {"cold", "starting", "healthy", "fallback", "disabled"}, spec : PsSpec]
  BY <1>0 DEF ParakeetSidecarTypeOK
<1>2. PsOwned' = 0 /\ psServers' = psAbandoned
  BY <1>0, <1>1 DEF PsOwned
<1>3. ParakeetSidecarTypeOK'
  BY <1>0, <1>1, <1>2 DEF ParakeetSidecarTypeOK, psSpecs, psBlacklist
<1>4. ServedAsAsked' /\ Fp16NotRetried' /\ PsBudget'
  BY <1>0 DEF ServedAsAsked, Fp16NotRetried, PsBudget
<1>5. OneServer' /\ PsOff'
  BY <1>0, <1>1, <1>2 DEF OneServer, PsOff
<1>6. PsPlanned'
  BY <1>0, <1>1 DEF PsInv, PsPlanned, psBlacklist
<1> QED BY <1>3, <1>4, <1>5, <1>6 DEF PsInv

\* Every step keeps the invariant, and a fallback is left only as FallbackSticks
\* allows: PsEnsure alone goes on to a start.
LEMMA PsNextKeeps == PsInv /\ [ParakeetSidecarNext]_psVars => PsInv' /\ [PsSticks]_psVars
<1> SUFFICES ASSUME PsInv, [ParakeetSidecarNext]_psVars
             PROVE  PsInv' /\ PsSticks
  OBVIOUS
<1>1. CASE \E spec \in PsSpec, warmup \in BOOLEAN : PsBegin([spec |-> spec, warmup |-> warmup])
  <2>1. PsSticks
    BY <1>1 DEF PsBegin, PsSticks
  <2> QED BY <1>1, <2>1, PsBeginStep
<1>2. CASE PsEnsure
  BY <1>2, PsEnsureStep
<1>3. CASE PsStart
  <2>1. PsSticks
    BY <1>3 DEF PsStart, PsSticks
  <2> QED BY <1>3, <2>1, PsStartStep
<1>4. CASE PsAnswered \/ PsFirstFails \/ PsSecondFails
  <2>1. PsSticks
    BY <1>4 DEF PsAnswered, PsFirstFails, PsSecondFails, PsSticks
  <2> QED BY <1>4, <2>1, PsAnsweredStep, PsFirstFailsStep, PsSecondFailsStep
<1>5. CASE PsServerDies \/ PsAskShutdown \/ PsPanic
  <2>1. PsSticks
    BY <1>5 DEF PsServerDies, PsAskShutdown, PsPanic, PsSticks
  <2> QED BY <1>5, <2>1, PsOutsideStep
<1>6. CASE PsShutdownDone
  <2>1. PsSticks
    BY <1>6 DEF PsShutdownDone, PsFree, PsSticks
  <2> QED BY <1>6, <2>1, PsShutdownStep
<1>7. CASE UNCHANGED psVars
  <2>1. PsSticks
    BY <1>7 DEF PsSticks, psVars
  <2>2. ParakeetSidecarTypeOK'
    BY <1>7 DEF PsInv, ParakeetSidecarTypeOK, psVars, psSpecs, psBlacklist, psHistory
  <2>3. ServedAsAsked' /\ Fp16NotRetried' /\ OneServer'
    BY <1>7 DEF PsInv, ServedAsAsked, Fp16NotRetried, OneServer, PsOwned, psVars, psSpecs,
                psBlacklist, psHistory
  <2>4. PsBudget' /\ PsPlanned' /\ PsOff'
    BY <1>7 DEF PsInv, PsBudget, PsPlanned, PsFrom, PsKnown, PsOff, psVars, psSpecs,
                psBlacklist, psHistory
  <2> QED BY <2>1, <2>2, <2>3, <2>4 DEF PsInv
<1> QED
  BY <1>1, <1>2, <1>3, <1>4, <1>5, <1>6, <1>7 DEF ParakeetSidecarNext, PsCallNext

LEMMA PsTypes == ParakeetSidecarInit /\ [][ParakeetSidecarNext]_psVars => []ParakeetSidecarTypeOK
<1>1. PsInv => ParakeetSidecarTypeOK
  BY DEF PsInv
<1> QED BY <1>1, PsInitOk, PsNextKeeps, PTL

\* Types, and that a call starts the server three times at most.
THEOREM SidecarTyping == ParakeetSidecarSpec => []ParakeetSidecarTypeOK
<1>1. ParakeetSidecarSpec => ParakeetSidecarInit /\ [][ParakeetSidecarNext]_psVars
  BY DEF ParakeetSidecarSpec
<1> QED BY <1>1, PsTypes, PTL

\* The manager serves what was asked for, has one server, and sticks to what it
\* learned from failures (parakeet_sidecar.rs:270-674).
THEOREM Sound == ParakeetSidecarSpec => SidecarSound
<1>1. PsInv => ServedAsAsked /\ Fp16NotRetried /\ OneServer
  BY DEF PsInv
<1>2. ParakeetSidecarSpec => ParakeetSidecarInit /\ [][ParakeetSidecarNext]_psVars
  BY DEF ParakeetSidecarSpec
<1>3. ParakeetSidecarSpec => [](ServedAsAsked /\ Fp16NotRetried /\ OneServer)
  BY <1>1, <1>2, PsInitOk, PsNextKeeps, PTL
<1>4. ParakeetSidecarSpec => [][PsSticks]_psVars
  BY <1>2, PsInitOk, PsNextKeeps, PTL
<1> QED BY <1>3, <1>4, PTL DEF SidecarSound, FallbackSticks, PsSticks

-----------------------------------------------------------------------------
(* Watcher: the lock and the files *)

WtBusy == {"pipeline", "processed", "failed", "artifact", "reading"}
WtFileSet == [v : 0..WtMaxVersion, whole : BOOLEAN]

WtLockTyped ==
    /\ wtLock \in WtWatchers \cup {WtFree, WtTorn}
    /\ wtPc \in [WtWatchers -> {"new", "done"} \cup WtStarting \cup WtWorking]
    /\ wtContended \in BOOLEAN /\ wtBatching \in BOOLEAN

WtWorkTyped ==
    /\ wtTodo \in [WtWatchers -> Seq(WtNames)] /\ wtWatching \in [WtWatchers -> BOOLEAN]
    /\ wtBatch \in [WtWatchers -> Seq(WtNames)] /\ wtAt \in [WtWatchers -> Nat]
    /\ wtRead \in [WtWatchers -> [WtNames -> WtFileSet]]

WtFilesTyped ==
    /\ wtInbox \in [WtNames -> WtFileSet]
    /\ wtSent \in [WtNames -> 0..WtMaxVersion]
    /\ wtMade \in [WtVersions -> Nat]
    /\ wtProcessed \subseteq WtVersions /\ wtFailed \subseteq WtVersions

WtHistoryTyped ==
    wtRedone \subseteq WtVersions /\ wtRaced \subseteq WtVersions /\ wtUnseen \subseteq WtVersions

\* A watcher that is busy is at one of its candidates.
WtPlaced ==
    \A w \in WtWatchers :
        /\ wtAt[w] =< Len(wtBatch[w])
        /\ wtPc[w] \in WtBusy => wtAt[w] >= 1

WtTyped == WtLockTyped /\ WtWorkTyped /\ WtFilesTyped /\ WtHistoryTyped /\ WtPlaced

\* The lock names a watcher that works, or worked.
WtOwner == wtLock \in WtWatchers => wtPc[wtLock] \in WtWorking \cup {"done"}

\* Without a contention one watcher starts or works, and the lock is its own.
WtActive(w) == wtPc[w] \in WtStarting \cup WtWorking

WtAlone ==
    ~wtContended => \A w, x \in WtWatchers : WtActive(w) /\ WtActive(x) => w = x

WtNamed ==
    ~wtContended => \A w \in WtWatchers :
        /\ wtPc[w] \in WtWorking => wtLock = w
        /\ wtPc[w] = "fill" => wtLock = WtTorn

WtLocked == WtOwner /\ WtAlone /\ WtNamed

\* A file in the inbox is the last one sent under its name, and not filed.
WtUnfiled ==
    \A n \in WtNames :
        \/ wtInbox[n] = WtAbsent
        \/ /\ wtInbox[n].v = wtSent[n] /\ wtInbox[n].v # 0
           /\ <<n, wtInbox[n].v>> \notin wtProcessed \cup wtFailed

\* Only what was sent is filed, transcribed or read, and filed once.
WtPastSent ==
    \A f \in WtVersions : f \in wtProcessed \cup wtFailed \/ wtMade[f] > 0 => f[2] =< wtSent[f[1]]

WtFiledOnce == wtProcessed \cap wtFailed = {}

WtReadSent ==
    \A w \in WtWatchers, n \in WtNames :
        /\ wtRead[w][n].v =< wtSent[n]
        /\ wtRead[w][n].whole => wtRead[w][n].v # 0

WtSound == WtUnfiled /\ WtPastSent /\ WtFiledOnce /\ WtReadSent

\* A candidate has settled, unless another file took its name.
WtSettled(n) == wtInbox[n].v # 0 => wtInbox[n].whole \/ <<n, wtInbox[n].v>> \in wtRaced

WtSettledAt(w) == \A i \in 1..Len(wtBatch[w]) : WtSettled(wtBatch[w][i])

\* What was read under a name is what is there, or is gone, with the same exception.
WtAsRead(w, n) ==
    /\ wtRead[w][n].v # 0 => wtRead[w][n].whole \/ <<n, wtRead[w][n].v>> \in wtRaced
    /\ wtInbox[n].v # 0 => wtInbox[n].v = wtRead[w][n].v \/ <<n, wtInbox[n].v>> \in wtRaced

WtReadAt(w) ==
    /\ wtPc[w] \in {"reading", "processed", "failed"} => WtAsRead(w, WtCurrent(w))
    /\ wtPc[w] = "artifact" => \A i \in 1..Len(wtBatch[w]) : WtAsRead(w, wtBatch[w][i])

\* A watcher that is to file a file as processed has its transcript.
WtHasText(w, n) ==
    /\ wtRead[w][n].v # 0
    /\ wtRead[w][n].whole => wtMade[<<n, wtRead[w][n].v>>] > 0

WtTextAt(w) == wtPc[w] = "processed" => WtHasText(w, WtCurrent(w))

\* Without a contention, a file that is about to be transcribed was not yet, and has
\* not failed; a name that is twice in a batch is noted.
WtUntouched(w, n) ==
    wtRead[w][n].whole =>
        /\ <<n, wtRead[w][n].v>> \notin wtFailed
        /\ <<n, wtRead[w][n].v>> \in wtRedone \/ wtMade[<<n, wtRead[w][n].v>>] = 0

WtAheadAt(w) ==
    /\ wtPc[w] = "reading" => WtUntouched(w, WtCurrent(w))
    /\ wtPc[w] = "artifact" => \A i \in wtAt[w]..Len(wtBatch[w]) : WtUntouched(w, wtBatch[w][i])

WtRepeated(w, n) == wtRead[w][n].whole => <<n, wtRead[w][n].v>> \in wtRedone

WtRepeatsAt(w) ==
    wtPc[w] = "artifact" => \A i, j \in 1..Len(wtBatch[w]) :
        i # j /\ wtBatch[w][j] = wtBatch[w][i] => WtRepeated(w, wtBatch[w][i])

\* Every whole file is ahead of each watcher that has listed the inbox, or is
\* unseen.
WtCovers(w, n) ==
    \/ <<n, wtInbox[n].v>> \in wtUnseen
    \/ \E i \in 1..Len(wtTodo[w]) : wtTodo[w][i] = n
    \/ \E i \in 1..Len(wtBatch[w]) : i >= wtAt[w] /\ wtBatch[w][i] = n

WtCoversAt(w) ==
    wtPc[w] \in WtWorking \ {"list"} => \A n \in WtNames : wtInbox[n].whole => WtCovers(w, n)

\* All of this, of a watcher.
WtKept(w) ==
    /\ WtSettledAt(w) /\ WtReadAt(w) /\ WtTextAt(w)
    /\ ~wtContended => WtAheadAt(w)
    /\ WtRepeatsAt(w) /\ WtCoversAt(w)

\* Without a contention, one that has been transcribed leaves the inbox next.
WtFiling(w, n) ==
    wtPc[w] = "processed" /\ WtCurrent(w) = n /\ wtRead[w][n].v = wtInbox[n].v

WtLeaves ==
    ~wtContended => \A n \in WtNames :
        wtInbox[n].v # 0 /\ <<n, wtInbox[n].v>> \notin wtRedone /\ wtMade[<<n, wtInbox[n].v>>] > 0
            => \E w \in WtWatchers : WtFiling(w, n)

WtInv ==
    /\ WtTyped /\ WtLocked /\ WtSound
    /\ \A w \in WtWatchers : WtKept(w)
    /\ WtLeaves /\ TranscribedOnce /\ FiledAsHandled

\* A file that is there has a version, a file that is whole is there.
LEMMA WtFileTypes ==
    ASSUME WtTyped, NEW n \in WtNames
    PROVE  /\ wtInbox[n] \in WtFileSet /\ wtInbox[n].v \in 0..WtMaxVersion
           /\ wtInbox[n].whole \in BOOLEAN /\ wtInbox[n].v \in Nat
           /\ wtSent[n] \in 0..WtMaxVersion /\ wtSent[n] \in Nat
           /\ wtInbox[n].v # 0 => <<n, wtInbox[n].v>> \in WtVersions
           /\ \A w \in WtWatchers :
                 /\ wtRead[w][n] \in WtFileSet /\ wtRead[w][n].v \in 0..WtMaxVersion
                 /\ wtRead[w][n].whole \in BOOLEAN /\ wtRead[w][n].v \in Nat
                 /\ wtRead[w][n].v # 0 => <<n, wtRead[w][n].v>> \in WtVersions
<1>1. WtMaxVersion \in Nat
  BY WtAssumption
<1>2. wtInbox[n] \in WtFileSet /\ wtSent[n] \in 0..WtMaxVersion
  BY DEF WtTyped, WtFilesTyped
<1>3. \A w \in WtWatchers : wtRead[w][n] \in WtFileSet
  BY DEF WtTyped, WtWorkTyped
<1>4. \A f \in WtFileSet : /\ f.v \in 0..WtMaxVersion /\ f.whole \in BOOLEAN /\ f.v \in Nat
                           /\ f.v # 0 => <<n, f.v>> \in WtVersions
  BY <1>1 DEF WtFileSet, WtVersions
<1>5. wtSent[n] \in Nat
  BY <1>1, <1>2
<1> QED BY <1>2, <1>3, <1>4, <1>5

\* No file has no version, and is not whole.
LEMMA WtAbsentFile ==
    WtAbsent \in WtFileSet /\ WtAbsent.v = 0 /\ WtAbsent.whole = FALSE
BY WtAssumption DEF WtAbsent, WtFileSet

\* The candidate that a watcher is at.
LEMMA WtCandidate ==
    ASSUME WtTyped, NEW w \in WtWatchers, wtPc[w] \in WtBusy
    PROVE  /\ wtAt[w] \in 1..Len(wtBatch[w]) /\ wtAt[w] \in Nat /\ Len(wtBatch[w]) \in Nat
           /\ WtCurrent(w) = wtBatch[w][wtAt[w]] /\ WtCurrent(w) \in WtNames
<1>1. wtBatch[w] \in Seq(WtNames) /\ wtAt[w] \in Nat /\ wtAt[w] =< Len(wtBatch[w]) /\ wtAt[w] >= 1
  BY DEF WtTyped, WtWorkTyped, WtPlaced
<1>2. wtAt[w] \in 1..Len(wtBatch[w]) /\ Len(wtBatch[w]) \in Nat
  BY <1>1
<1> QED BY <1>1, <1>2 DEF WtCurrent

\* A working watcher is the only one, unless there was a contention.
LEMMA WtOnlyOne ==
    ASSUME WtInv, ~wtContended, NEW w \in WtWatchers, NEW x \in WtWatchers,
           wtPc[w] \in WtWorking, wtPc[x] \in WtWorking
    PROVE  w = x
BY DEF WtInv, WtLocked, WtAlone, WtActive

\* At first nothing is sent and nobody has started.
LEMMA WtInitOk == WatcherInit => WtInv
<1> SUFFICES ASSUME WatcherInit PROVE WtInv
  OBVIOUS
<1> USE DEF WatcherInit
<1>1. WtTyped
  <2>1. WtLockTyped /\ WtHistoryTyped
    BY DEF WtLockTyped, WtHistoryTyped
  <2>2. WtNothing \in [WtNames -> WtFileSet]
    BY WtAbsentFile DEF WtNothing
  <2>3. WtWorkTyped
    BY <2>2 DEF WtWorkTyped
  <2>4. WtFilesTyped
    BY <2>2, WtAssumption DEF WtFilesTyped
  <2>5. WtPlaced
    BY DEF WtPlaced, WtBusy
  <2> QED BY <2>1, <2>3, <2>4, <2>5 DEF WtTyped
<1>2. WtLocked
  BY WtAssumption DEF WtLocked, WtOwner, WtAlone, WtNamed, WtActive, WtStarting, WtWorking
<1>3. \A n \in WtNames : wtInbox[n] = WtAbsent
  BY DEF WtNothing
<1>4. WtSound
  <2>1. WtUnfiled /\ WtFiledOnce
    BY <1>3 DEF WtUnfiled, WtFiledOnce
  <2>2. WtPastSent
    <3>1. \A f \in WtVersions : wtMade[f] = 0 /\ f \notin wtProcessed /\ f \notin wtFailed
      OBVIOUS
    <3> QED BY <3>1 DEF WtPastSent
  <2>3. WtReadSent
    BY WtAbsentFile DEF WtReadSent, WtNothing
  <2> QED BY <2>1, <2>2, <2>3 DEF WtSound
<1>5. ASSUME NEW w \in WtWatchers PROVE WtKept(w)
  <2>1. wtPc[w] = "new" /\ wtBatch[w] = <<>>
    OBVIOUS
  <2>2. WtSettledAt(w)
    BY <2>1 DEF WtSettledAt
  <2> QED BY <2>1, <2>2 DEF WtKept, WtReadAt, WtTextAt, WtAheadAt, WtRepeatsAt, WtCoversAt,
                            WtWorking
<1>6. WtLeaves
  BY <1>3, WtAbsentFile DEF WtLeaves
<1>7. TranscribedOnce /\ FiledAsHandled
  BY DEF TranscribedOnce, FiledAsHandled
<1> QED BY <1>1, <1>2, <1>4, <1>5, <1>6, <1>7 DEF WtInv

-----------------------------------------------------------------------------
\* A step of one watcher: of the others' it may take a file away and add a
\* transcript, which it does only while it works.
WtOnly(w) ==
    /\ \A x \in WtWatchers \ {w} :
          /\ wtPc'[x] = wtPc[x] /\ wtTodo'[x] = wtTodo[x] /\ wtBatch'[x] = wtBatch[x]
          /\ wtAt'[x] = wtAt[x] /\ wtRead'[x] = wtRead[x]
    /\ \A n \in WtNames : wtInbox'[n] = wtInbox[n] \/ wtInbox'[n] = WtAbsent
    /\ \A f \in WtVersions : wtMade'[f] \in Nat /\ wtMade'[f] >= wtMade[f]
    /\ wtRaced' = wtRaced /\ wtUnseen' = wtUnseen /\ wtRedone \subseteq wtRedone'
    /\ wtContended => wtContended'
    /\ \/ wtMade' = wtMade /\ wtFailed' = wtFailed
       \/ wtPc[w] \in WtWorking /\ wtContended' = wtContended

\* The others keep what they have.
LEMMA WtOthers ==
    ASSUME WtInv, NEW w \in WtWatchers, WtOnly(w), NEW x \in WtWatchers, x # w
    PROVE  WtKept(x)'
<1>0. /\ WtTyped /\ WtKept(x)
      /\ wtPc'[x] = wtPc[x] /\ wtTodo'[x] = wtTodo[x] /\ wtBatch'[x] = wtBatch[x]
      /\ wtAt'[x] = wtAt[x] /\ wtRead'[x] = wtRead[x]
      /\ wtRaced' = wtRaced /\ wtUnseen' = wtUnseen
  BY DEF WtInv, WtOnly
<1>1. \A n \in WtNames : \/ wtInbox'[n] = wtInbox[n]
                         \/ wtInbox'[n].v = 0 /\ wtInbox'[n].whole = FALSE
  BY WtAbsentFile DEF WtOnly
<1>2. \A i \in 1..Len(wtBatch[x]) : wtBatch[x][i] \in WtNames
  BY <1>0 DEF WtTyped, WtWorkTyped
<1>3. wtPc[x] \in WtBusy => WtCurrent(x)' = WtCurrent(x) /\ WtCurrent(x) \in WtNames
  BY <1>0, WtCandidate DEF WtCurrent
<1>4. WtSettledAt(x)'
  BY <1>0, <1>1, <1>2 DEF WtKept, WtSettledAt, WtSettled
<1>5. WtReadAt(x)'
  <2>1. ASSUME NEW n \in WtNames, WtAsRead(x, n) PROVE WtAsRead(x, n)'
    BY <1>0, <1>1, <2>1 DEF WtAsRead
  <2>2. CASE wtPc[x] \in {"reading", "processed", "failed"}
    <3>1. WtAsRead(x, WtCurrent(x)) /\ WtCurrent(x) \in WtNames /\ WtCurrent(x)' = WtCurrent(x)
      BY <1>0, <1>3, <2>2 DEF WtKept, WtReadAt, WtBusy
    <3>2. WtAsRead(x, WtCurrent(x))'
      BY <1>0, <1>1, <3>1 DEF WtAsRead
    <3> QED BY <1>0, <2>2, <3>2 DEF WtReadAt
  <2>3. CASE wtPc[x] = "artifact"
    <3> SUFFICES ASSUME NEW i \in 1..Len(wtBatch[x]) PROVE WtAsRead(x, wtBatch[x][i])'
      BY <1>0, <2>3 DEF WtReadAt
    <3>1. WtAsRead(x, wtBatch[x][i])
      BY <1>0, <2>3 DEF WtKept, WtReadAt
    <3> QED BY <1>0, <1>1, <1>2, <3>1 DEF WtAsRead
  <2>4. CASE wtPc[x] \notin {"reading", "processed", "failed", "artifact"}
    BY <1>0, <2>4 DEF WtReadAt
  <2> QED BY <2>2, <2>3, <2>4
<1>6. WtTextAt(x)'
  <2> SUFFICES ASSUME wtPc[x] = "processed" PROVE WtHasText(x, WtCurrent(x))'
    BY <1>0 DEF WtTextAt
  <2>1. WtHasText(x, WtCurrent(x)) /\ WtCurrent(x) \in WtNames /\ WtCurrent(x)' = WtCurrent(x)
    BY <1>0, <1>3 DEF WtKept, WtTextAt, WtBusy
  <2> DEFINE f == <<WtCurrent(x), wtRead[x][WtCurrent(x)].v>>
  <2>2. f \in WtVersions
    BY <1>0, <2>1, WtFileTypes DEF WtHasText
  <2>3. wtMade'[f] \in Nat /\ wtMade'[f] >= wtMade[f] /\ wtMade[f] \in Nat
    BY <1>0, <2>2 DEF WtOnly, WtTyped, WtFilesTyped
  <2>4. wtRead[x][WtCurrent(x)].v # 0 /\ (wtRead[x][WtCurrent(x)].whole => wtMade[f] > 0)
    BY <2>1 DEF WtHasText
  <2>5. wtRead[x][WtCurrent(x)].whole => wtMade'[f] > 0
    <3> HIDE DEF f
    <3> QED BY <2>3, <2>4
  <2> QED BY <1>0, <2>1, <2>4, <2>5 DEF WtHasText
<1>7. ~wtContended' => WtAheadAt(x)'
  <2> SUFFICES ASSUME ~wtContended' PROVE WtAheadAt(x)'
    OBVIOUS
  <2>1. ~wtContended /\ WtAheadAt(x)
    BY <1>0 DEF WtOnly, WtKept
  <2>2. CASE wtMade' = wtMade /\ wtFailed' = wtFailed
    <3>1. wtRedone \subseteq wtRedone'
      BY DEF WtOnly
    <3>2. CASE wtPc[x] = "reading"
      <4>1. WtUntouched(x, WtCurrent(x)) /\ WtCurrent(x)' = WtCurrent(x)
        BY <1>3, <2>1, <3>2 DEF WtAheadAt, WtBusy
      <4>2. WtUntouched(x, WtCurrent(x))'
        BY <1>0, <2>2, <3>1, <4>1 DEF WtUntouched
      <4> QED BY <1>0, <3>2, <4>2 DEF WtAheadAt
    <3>3. CASE wtPc[x] = "artifact"
      <4> SUFFICES ASSUME NEW i \in wtAt[x]..Len(wtBatch[x]) PROVE WtUntouched(x, wtBatch[x][i])'
        BY <1>0, <3>3 DEF WtAheadAt
      <4>1. WtUntouched(x, wtBatch[x][i])
        BY <2>1, <3>3 DEF WtAheadAt
      <4> QED BY <1>0, <2>2, <3>1, <4>1 DEF WtUntouched
    <3>4. CASE wtPc[x] \notin {"reading", "artifact"}
      BY <1>0, <3>4 DEF WtAheadAt
    <3> QED BY <3>2, <3>3, <3>4
  <2>3. CASE wtPc[w] \in WtWorking
    <3>1. wtPc[x] \notin WtWorking
      BY <2>1, <2>3, WtOnlyOne
    <3> QED BY <1>0, <3>1 DEF WtAheadAt, WtWorking
  <2> QED BY <2>2, <2>3 DEF WtOnly
<1>8. WtRepeatsAt(x)'
  <2>1. wtRedone \subseteq wtRedone'
    BY DEF WtOnly
  <2> QED BY <1>0, <2>1 DEF WtKept, WtRepeatsAt, WtRepeated
<1>9. WtCoversAt(x)'
  <2> SUFFICES ASSUME wtPc[x] \in WtWorking \ {"list"}, NEW n \in WtNames, wtInbox'[n].whole
               PROVE  WtCovers(x, n)'
    BY <1>0 DEF WtCoversAt
  <2>1. wtInbox'[n] = wtInbox[n]
    BY <1>1
  <2>2. WtCovers(x, n)
    BY <1>0, <2>1 DEF WtKept, WtCoversAt
  <2> QED BY <1>0, <2>1, <2>2 DEF WtCovers
<1> QED BY <1>4, <1>5, <1>6, <1>7, <1>8, <1>9 DEF WtKept

\* A step that leaves the files alone.
LEMMA WtFilesKept ==
    ASSUME WtInv, UNCHANGED wtFiles, wtRaced' = wtRaced, wtRedone \subseteq wtRedone',
           wtContended => wtContended'
    PROVE  /\ WtFilesTyped' /\ WtUnfiled' /\ WtPastSent' /\ WtFiledOnce'
           /\ TranscribedOnce' /\ FiledAsHandled'
<1> USE DEF wtFiles
<1>1. WtFilesTyped'
  BY DEF WtInv, WtTyped, WtFilesTyped
<1>2. WtUnfiled' /\ WtPastSent' /\ WtFiledOnce'
  BY DEF WtInv, WtSound, WtUnfiled, WtPastSent, WtFiledOnce
<1>3. TranscribedOnce'
  BY DEF WtInv, TranscribedOnce
<1>4. FiledAsHandled'
  BY DEF WtInv, FiledAsHandled
<1> QED BY <1>1, <1>2, <1>3, <1>4

\* Nor does it matter for what leaves the inbox next, unless it is of the watcher
\* that files.
LEMMA WtLeavesKept ==
    ASSUME WtInv, NEW w \in WtWatchers, WtOnly(w), UNCHANGED wtFiles, wtPc[w] # "processed"
    PROVE  WtLeaves'
<1> SUFFICES ASSUME ~wtContended', NEW n \in WtNames,
                    wtInbox'[n].v # 0, <<n, wtInbox'[n].v>> \notin wtRedone',
                    wtMade'[<<n, wtInbox'[n].v>>] > 0
             PROVE  \E x \in WtWatchers : WtFiling(x, n)'
  BY DEF WtLeaves
<1>1. ~wtContended /\ wtInbox' = wtInbox /\ wtMade' = wtMade /\ wtRedone \subseteq wtRedone'
  BY DEF WtOnly, wtFiles
<1>2. PICK x \in WtWatchers : WtFiling(x, n)
  BY <1>1 DEF WtInv, WtLeaves
<1>3. x # w
  BY <1>2 DEF WtFiling
<1>4. WtFiling(x, n)'
  BY <1>1, <1>2, <1>3 DEF WtFiling, WtOnly, WtCurrent
<1> QED BY <1>4

\* The inbox holds nothing that was transcribed or failed, while nobody files.
LEMMA WtInboxUntouched ==
    ASSUME WtInv, ~wtContended, NEW w \in WtWatchers, wtPc[w] \in WtWorking \ {"processed"},
           NEW n \in WtNames, wtInbox[n].whole
    PROVE  /\ wtInbox[n].v # 0
           /\ <<n, wtInbox[n].v>> \notin wtFailed
           /\ <<n, wtInbox[n].v>> \in wtRedone \/ wtMade[<<n, wtInbox[n].v>>] = 0
<1>1. wtInbox[n].v # 0 /\ <<n, wtInbox[n].v>> \notin wtFailed
  BY WtAbsentFile DEF WtInv, WtSound, WtUnfiled
<1>2. ASSUME <<n, wtInbox[n].v>> \notin wtRedone, wtMade[<<n, wtInbox[n].v>>] # 0 PROVE FALSE
  <2>1. <<n, wtInbox[n].v>> \in WtVersions
    BY <1>1, WtFileTypes DEF WtInv
  <2>2. wtMade[<<n, wtInbox[n].v>>] \in Nat
    BY <2>1 DEF WtInv, WtTyped, WtFilesTyped
  <2>3. wtMade[<<n, wtInbox[n].v>>] > 0
    BY <1>2, <2>2
  <2>4. PICK x \in WtWatchers : WtFiling(x, n)
    BY <1>1, <1>2, <2>3 DEF WtInv, WtLeaves
  <2>5. wtPc[x] = "processed"
    BY <2>4 DEF WtFiling
  <2>6. x = w
    BY <2>5, WtOnlyOne DEF WtWorking
  <2> QED BY <2>5, <2>6
<1> QED BY <1>1, <1>2

-----------------------------------------------------------------------------
\* The lock is looked at and taken.
LEMMA WtLockStep ==
    ASSUME WtInv, NEW w \in WtWatchers, WtLook(w) \/ WtTake(w)
    PROVE  WtInv'
<1>0. /\ UNCHANGED <<wtTodo, wtWatching, wtBatch, wtAt, wtRead, wtBatching, wtFiles, wtRedone,
                     wtRaced, wtUnseen>>
      /\ wtContended => wtContended'
  <2>1. CASE WtLook(w)
    BY <2>1 DEF WtLook, wtWork
  <2>2. CASE WtTake(w)
    BY <2>2 DEF WtTake, wtWork, wtHistory
  <2> QED BY <2>1, <2>2
<1>1. PICK to \in WtStarting \cup {"list", "done"} :
          wtPc' = [wtPc EXCEPT ![w] = to] /\ wtPc[w] \in {"new"} \cup WtStarting
  BY DEF WtLook, WtTake, WtGo, WtStarting
<1>2. wtPc'[w] = to /\ \A x \in WtWatchers \ {w} : wtPc'[x] = wtPc[x]
  BY <1>1 DEF WtInv, WtTyped, WtLockTyped
<1>3. WtTyped'
  <2>1. wtLock' \in WtWatchers \cup {WtFree, WtTorn} /\ wtContended' \in BOOLEAN
    BY DEF WtLook, WtTake, WtInv, WtTyped, WtLockTyped, wtHistory
  <2>2. WtLockTyped'
    BY <1>0, <1>1, <2>1 DEF WtInv, WtTyped, WtLockTyped, WtWorking
  <2>3. WtWorkTyped' /\ WtHistoryTyped'
    BY <1>0 DEF WtInv, WtTyped, WtWorkTyped, WtHistoryTyped
  <2>4. WtPlaced'
    BY <1>0, <1>2 DEF WtInv, WtTyped, WtPlaced, WtBusy, WtStarting
  <2> QED BY <1>0, <2>2, <2>3, <2>4, WtFilesKept DEF WtTyped
<1>4. WtLocked'
  <2>0. /\ WtOwner /\ WtAlone /\ WtNamed /\ WtFree \notin WtWatchers /\ WtTorn \notin WtWatchers
        /\ WtFree # WtTorn
    BY WtAssumption DEF WtInv, WtLocked
  <2>1. CASE WtLook(w)
    <3>1. wtLock' = wtLock /\ wtPc[w] = "new"
      BY <2>1 DEF WtLook, WtGo
    <3>2. wtLock # w
      BY <2>0, <3>1 DEF WtOwner, WtWorking
    <3>3. WtOwner'
      BY <1>2, <2>0, <3>1, <3>2 DEF WtOwner
    <3>4. ~wtContended' /\ to # "done" => \A x \in WtWatchers \ {w} : ~WtActive(x)
      <4> SUFFICES ASSUME ~wtContended', to # "done", NEW x \in WtWatchers \ {w}, WtActive(x)
                   PROVE  FALSE
        OBVIOUS
      <4>1. ~WtHeld
        BY <1>2, <2>1 DEF WtLook, WtGo, WtInv, WtTyped, WtLockTyped
      <4>2. wtPc[x] \notin WtStarting /\ ~wtContended
        BY <2>1, <4>1 DEF WtLook
      <4>3. wtLock = x /\ wtPc[x] \in WtWorking
        BY <2>0, <4>2 DEF WtActive, WtNamed
      <4> QED BY <4>1, <4>3 DEF WtHeld, WtAlive, WtWorking
    <3>5. WtAlone'
      <4> SUFFICES ASSUME ~wtContended', NEW x \in WtWatchers, NEW y \in WtWatchers,
                          WtActive(x)', WtActive(y)'
                   PROVE  x = y
        BY DEF WtAlone
      <4>1. CASE to = "done"
        <5>1. x # w /\ y # w
          BY <1>2, <4>1 DEF WtActive, WtStarting, WtWorking
        <5> QED BY <1>0, <1>2, <2>0, <5>1 DEF WtAlone, WtActive
      <4>2. CASE to # "done"
        BY <1>2, <3>4, <4>2 DEF WtActive
      <4> QED BY <4>1, <4>2
    <3>6. WtNamed'
      <4>1. to \in {"done", "truncate", "clear"}
        BY <1>2, <2>1 DEF WtLook, WtGo, WtInv, WtTyped, WtLockTyped
      <4> QED BY <1>0, <1>2, <2>0, <3>1, <4>1 DEF WtNamed, WtWorking
    <3> QED BY <3>3, <3>5, <3>6 DEF WtLocked
  <2>2. CASE WtTake(w)
    <3>1. /\ wtContended' = wtContended /\ wtPc[w] \in WtStarting
          /\ \/ to = "truncate" /\ wtLock' = WtFree
             \/ to = "fill" /\ wtLock' = WtTorn
             \/ to = "list" /\ wtPc[w] = "fill"
                /\ wtLock' = IF wtLock = WtFree THEN WtFree ELSE w
      BY <1>2, <2>2 DEF WtTake, WtGo, wtHistory, WtStarting, WtInv, WtTyped, WtLockTyped
    <3>2. ~wtContended => \A x \in WtWatchers \ {w} : ~WtActive(x)
      BY <2>0, <3>1 DEF WtAlone, WtActive
    <3>3. WtOwner'
      BY <1>2, <2>0, <3>1 DEF WtOwner, WtWorking
    <3>4. WtAlone'
      BY <1>2, <3>1, <3>2 DEF WtAlone, WtActive
    <3>5. WtNamed'
      <4> SUFFICES ASSUME ~wtContended, NEW x \in WtWatchers
                   PROVE  /\ wtPc'[x] \in WtWorking => wtLock' = x
                          /\ wtPc'[x] = "fill" => wtLock' = WtTorn
        BY <3>1 DEF WtNamed
      <4>1. CASE x = w
        BY <1>2, <2>0, <3>1, <4>1 DEF WtNamed, WtWorking
      <4>2. CASE x # w
        <5>1. ~WtActive(x)
          BY <3>2, <4>2
        <5> QED BY <1>2, <4>2, <5>1 DEF WtActive, WtStarting
      <4> QED BY <4>1, <4>2
    <3> QED BY <3>3, <3>4, <3>5 DEF WtLocked
  <2> QED BY <2>1, <2>2
<1>5. WtOnly(w)
  <2>1. \A f \in WtVersions : wtMade[f] \in Nat
    BY DEF WtInv, WtTyped, WtFilesTyped
  <2>2. UNCHANGED <<wtInbox, wtMade, wtFailed>>
    BY <1>0 DEF wtFiles
  <2>3. \A f \in WtVersions : wtMade'[f] \in Nat /\ wtMade'[f] >= wtMade[f]
    BY <2>1, <2>2
  <2> QED BY <1>0, <1>2, <2>2, <2>3 DEF WtOnly
<1>6. WtKept(w)'
  <2>1. WtSettledAt(w)'
    BY <1>0 DEF WtInv, WtKept, WtSettledAt, WtSettled, wtFiles
  <2> QED BY <1>2, <2>1 DEF WtKept, WtReadAt, WtTextAt, WtAheadAt, WtRepeatsAt, WtCoversAt,
                            WtStarting, WtWorking
<1>7. WtSound'
  <2>1. WtReadSent'
    BY <1>0 DEF WtInv, WtSound, WtReadSent, wtFiles
  <2> QED BY <1>0, <2>1, WtFilesKept DEF WtSound
<1>8. WtLeaves'
  BY <1>0, <1>1, <1>5, WtLeavesKept DEF WtStarting
<1>9. \A x \in WtWatchers : WtKept(x)'
  BY <1>5, <1>6, WtOthers
<1>10. TranscribedOnce' /\ FiledAsHandled'
  BY <1>0, WtFilesKept
<1> QED BY <1>3, <1>4, <1>7, <1>8, <1>9, <1>10 DEF WtInv

\* A watcher ends, and what it has not filed is noted.
LEMMA WtEndStep ==
    ASSUME WtInv, NEW w \in WtWatchers, WtInterrupt(w) \/ WtCrash(w)
    PROVE  WtInv'
<1>0. /\ WtLeave(w) /\ wtPc[w] # "done"
      /\ wtContended => wtContended'
      /\ \/ wtLock' = wtLock /\ wtContended' = wtContended
         \/ /\ wtLock' = WtFree
            /\ ~wtContended' => wtLock = w \/ \A x \in WtWatchers \ {w} : ~WtActive(x)
  <2>1. CASE WtInterrupt(w)
    BY <2>1 DEF WtInterrupt, WtAlive, WtActive
  <2>2. CASE WtCrash(w)
    BY <2>2 DEF WtCrash, WtAlive
  <2> QED BY <2>1, <2>2
<1>1. /\ wtPc' = [wtPc EXCEPT ![w] = "done"]
      /\ wtTodo' = [wtTodo EXCEPT ![w] = <<>>] /\ wtWatching' = [wtWatching EXCEPT ![w] = FALSE]
      /\ wtBatch' = [wtBatch EXCEPT ![w] = <<>>] /\ wtAt' = [wtAt EXCEPT ![w] = 0]
      /\ wtRead' = [wtRead EXCEPT ![w] = WtNothing]
      /\ wtRedone' = wtRedone \cup {f \in WtVersions : wtMade[f] > 0 /\ f \notin wtProcessed}
      /\ UNCHANGED <<wtBatching, wtFiles, wtRaced, wtUnseen>>
  BY <1>0 DEF WtLeave
<1>2. /\ wtPc'[w] = "done" /\ wtBatch'[w] = <<>> /\ wtAt'[w] = 0 /\ wtRead'[w] = WtNothing
      /\ \A x \in WtWatchers \ {w} :
            /\ wtPc'[x] = wtPc[x] /\ wtTodo'[x] = wtTodo[x] /\ wtBatch'[x] = wtBatch[x]
            /\ wtAt'[x] = wtAt[x] /\ wtRead'[x] = wtRead[x]
  BY <1>1 DEF WtInv, WtTyped, WtLockTyped, WtWorkTyped
<1>3. WtTyped'
  <2>1. WtLockTyped'
    <3>1. wtContended' \in BOOLEAN
      BY DEF WtInterrupt, WtCrash, WtInv, WtTyped, WtLockTyped
    <3> QED BY <1>0, <1>1, <3>1 DEF WtInv, WtTyped, WtLockTyped
  <2>2. WtWorkTyped'
    <3>1. WtNothing \in [WtNames -> WtFileSet]
      BY WtAbsentFile DEF WtNothing
    <3> QED BY <1>1, <3>1 DEF WtInv, WtTyped, WtWorkTyped
  <2>3. WtHistoryTyped'
    BY <1>1 DEF WtInv, WtTyped, WtHistoryTyped
  <2>4. WtPlaced'
    BY <1>2 DEF WtInv, WtTyped, WtPlaced, WtBusy
  <2> QED BY <1>0, <1>1, <2>1, <2>2, <2>3, <2>4, WtFilesKept DEF WtTyped
<1>4. WtLocked'
  <2>0. WtOwner /\ WtAlone /\ WtNamed /\ WtFree \notin WtWatchers /\ WtTorn \notin WtWatchers
    BY WtAssumption DEF WtInv, WtLocked
  <2>1. WtOwner'
    BY <1>0, <1>2, <2>0 DEF WtOwner
  <2>2. \A x \in WtWatchers : WtActive(x)' => x # w /\ WtActive(x)
    BY <1>2 DEF WtActive, WtStarting, WtWorking
  <2>3. WtAlone'
    BY <1>0, <2>0, <2>2 DEF WtAlone
  <2>4. WtNamed'
    <3> SUFFICES ASSUME ~wtContended', NEW x \in WtWatchers,
                        wtPc'[x] \in WtWorking \cup {"fill"}
                 PROVE  wtLock' = wtLock /\ wtPc'[x] = wtPc[x]
      BY <1>0, <2>0 DEF WtNamed
    <3>1. x # w /\ WtActive(x) /\ wtPc'[x] = wtPc[x]
      BY <1>2, <2>2 DEF WtActive, WtStarting
    <3>2. wtLock # w
      BY <1>0, <2>0, <3>1 DEF WtNamed, WtActive, WtStarting, WtAlone, WtOwner, WtWorking
    <3> QED BY <1>0, <3>1, <3>2
  <2> QED BY <2>1, <2>3, <2>4 DEF WtLocked
<1>5. WtOnly(w)
  <2>1. \A f \in WtVersions : wtMade[f] \in Nat
    BY DEF WtInv, WtTyped, WtFilesTyped
  <2>2. UNCHANGED <<wtInbox, wtMade, wtFailed>>
    BY <1>1 DEF wtFiles
  <2>3. \A f \in WtVersions : wtMade'[f] \in Nat /\ wtMade'[f] >= wtMade[f]
    BY <2>1, <2>2
  <2> QED BY <1>0, <1>1, <1>2, <2>2, <2>3 DEF WtOnly
<1>6. WtKept(w)'
  <2>1. WtSettledAt(w)'
    BY <1>2 DEF WtSettledAt
  <2> QED BY <1>2, <2>1 DEF WtKept, WtReadAt, WtTextAt, WtAheadAt, WtRepeatsAt, WtCoversAt,
                            WtWorking
<1>7. WtSound'
  <2>1. WtReadSent'
    <3>1. \A n \in WtNames : wtSent'[n] = wtSent[n] /\ wtSent[n] \in Nat
      BY <1>1, WtFileTypes DEF wtFiles, WtInv
    <3>2. \A n \in WtNames : WtNothing[n].v = 0 /\ WtNothing[n].whole = FALSE
      BY WtAbsentFile DEF WtNothing
    <3> QED BY <1>2, <3>1, <3>2 DEF WtInv, WtSound, WtReadSent
  <2> QED BY <1>0, <1>1, <2>1, WtFilesKept DEF WtSound
<1>8. WtLeaves'
  <2> SUFFICES ASSUME NEW n \in WtNames, wtInbox[n].v # 0, wtMade[<<n, wtInbox[n].v>>] > 0
               PROVE  <<n, wtInbox[n].v>> \in wtRedone'
    BY <1>1 DEF WtLeaves, wtFiles
  <2>1. <<n, wtInbox[n].v>> \in WtVersions
    BY WtFileTypes DEF WtInv
  <2>2. <<n, wtInbox[n].v>> \notin wtProcessed
    BY WtAbsentFile DEF WtInv, WtSound, WtUnfiled
  <2> QED BY <1>1, <2>1, <2>2
<1>9. \A x \in WtWatchers : WtKept(x)'
  BY <1>5, <1>6, WtOthers
<1>10. TranscribedOnce' /\ FiledAsHandled'
  BY <1>0, <1>1, WtFilesKept
<1> QED BY <1>3, <1>4, <1>7, <1>8, <1>9, <1>10 DEF WtInv

\* SetToSeq lists the whole set.
LEMMA WtListing ==
    ASSUME NEW S \in SUBSET WtNames
    PROVE  /\ SetToSeq(S) \in Seq(WtNames)
           /\ \A n \in S : \E i \in 1..Len(SetToSeq(S)) : SetToSeq(S)[i] = n
<1> DEFINE c == Cardinality(S)
           s == SetToSeq(S)
<1>1. IsFiniteSet(S) /\ c \in Nat
  BY WtAssumption, FS_Subset, FS_CardinalityType
<1>2. ExistsBijection(1..c, S)
  BY <1>1, FS_CardinalityType
<1>3. \E f \in [1..c -> S] : IsInjective(f)
  BY <1>2 DEF ExistsBijection, Bijection, Injection
<1>4. s \in [1..c -> S] /\ IsInjective(s)
  BY <1>3 DEF SetToSeq
<1>5. Cardinality(1..c) = c
  BY <1>1, FS_Interval
<1>6. s \in Injection(1..c, S)
  BY <1>4 DEF Injection
<1>7. s \in Surjection(1..c, S)
  BY <1>1, <1>5, <1>6, FS_Injection
<1>8. s \in Seq(WtNames) /\ Len(s) = c
  <2> HIDE DEF s
  <2>1. s \in [1..c -> WtNames]
    BY <1>4
  <2> QED BY <1>1, <2>1
<1>9. \A n \in S : \E i \in 1..c : s[i] = n
  BY <1>7 DEF Surjection
<1> QED BY <1>8, <1>9

-----------------------------------------------------------------------------
\* A step of a watcher that works and leaves the files and what was noted alone.
WtLooks(w, to) ==
    /\ wtPc[w] \in WtWorking \ {"processed"} /\ to \in WtWorking \ {"list"}
    /\ wtPc' = [wtPc EXCEPT ![w] = to]
    /\ \A x \in WtWatchers \ {w} :
          /\ wtTodo'[x] = wtTodo[x] /\ wtBatch'[x] = wtBatch[x]
          /\ wtAt'[x] = wtAt[x] /\ wtRead'[x] = wtRead[x]
    /\ wtRedone \subseteq wtRedone'
    /\ UNCHANGED <<wtLock, wtBatching, wtFiles, wtContended, wtRaced, wtUnseen>>

\* The lock and the other watchers are none of its business.
LEMMA WtWorkingLocked ==
    ASSUME WtInv, NEW w \in WtWatchers, wtPc[w] \in WtWorking,
           NEW to \in WtWorking, wtPc' = [wtPc EXCEPT ![w] = to],
           UNCHANGED <<wtLock, wtBatching, wtContended>>
    PROVE  WtLockTyped' /\ WtLocked'
<1>1. wtPc'[w] = to /\ \A x \in WtWatchers \ {w} : wtPc'[x] = wtPc[x]
  BY DEF WtInv, WtTyped, WtLockTyped
<1>2. WtLockTyped'
  BY DEF WtInv, WtTyped, WtLockTyped
<1>3. WtOwner'
  BY <1>1 DEF WtInv, WtLocked, WtOwner
<1>4. WtAlone'
  BY <1>1 DEF WtInv, WtLocked, WtAlone, WtActive
<1>5. WtNamed'
  <2>1. to # "fill"
    BY DEF WtWorking
  <2> QED BY <1>1, <2>1 DEF WtInv, WtLocked, WtNamed
<1> QED BY <1>2, <1>3, <1>4, <1>5 DEF WtLocked

\* Such a step keeps the invariant, if it does so for its own watcher.
LEMMA WtLooksKeeps ==
    ASSUME WtInv, NEW w \in WtWatchers, NEW to, WtLooks(w, to),
           WtWorkTyped', WtHistoryTyped', WtPlaced', WtReadSent', WtKept(w)'
    PROVE  WtInv'
<1>1. WtLockTyped' /\ WtLocked'
  BY WtWorkingLocked DEF WtLooks
<1>2. wtRaced' = wtRaced /\ wtRedone \subseteq wtRedone' /\ wtContended' = wtContended
      /\ UNCHANGED wtFiles
  BY DEF WtLooks
<1>3. WtTyped'
  BY <1>1, <1>2, WtFilesKept DEF WtTyped
<1>4. WtSound'
  BY <1>2, WtFilesKept DEF WtSound
<1>5. WtOnly(w)
  <2>1. \A f \in WtVersions : wtMade[f] \in Nat
    BY DEF WtInv, WtTyped, WtFilesTyped
  <2>2. UNCHANGED <<wtInbox, wtMade, wtFailed>>
    BY DEF WtLooks, wtFiles
  <2>3. \A f \in WtVersions : wtMade'[f] \in Nat /\ wtMade'[f] >= wtMade[f]
    BY <2>1, <2>2
  <2>4. \A x \in WtWatchers \ {w} : wtPc'[x] = wtPc[x]
    BY DEF WtLooks, WtInv, WtTyped, WtLockTyped
  <2> QED BY <2>2, <2>3, <2>4 DEF WtOnly, WtLooks
<1>6. \A x \in WtWatchers : WtKept(x)'
  BY <1>5, WtOthers
<1>7. WtLeaves'
  BY <1>2, <1>5, WtLeavesKept DEF WtLooks
<1>8. TranscribedOnce' /\ FiledAsHandled'
  BY <1>2, WtFilesKept
<1> QED BY <1>1, <1>3, <1>4, <1>6, <1>7, <1>8 DEF WtInv

\* The listing has every file that is there.
LEMMA WtListStep ==
    ASSUME WtInv, NEW w \in WtWatchers, WtList(w)
    PROVE  WtInv'
<1> DEFINE S == {n \in WtNames : wtInbox[n].v # 0}
<1>0. /\ wtPc[w] = "list" /\ wtPc' = [wtPc EXCEPT ![w] = "gather"]
      /\ wtTodo' = [wtTodo EXCEPT ![w] = SetToSeq(S)]
      /\ UNCHANGED <<wtLock, wtWatching, wtBatch, wtAt, wtRead, wtBatching, wtFiles, wtContended,
                     wtRedone, wtRaced, wtUnseen>>
  BY DEF WtList, WtGo, wtHistory
<1>1. wtPc'[w] = "gather" /\ wtTodo'[w] = SetToSeq(S)
      /\ \A x \in WtWatchers \ {w} : wtPc'[x] = wtPc[x] /\ wtTodo'[x] = wtTodo[x]
  BY <1>0 DEF WtInv, WtTyped, WtLockTyped, WtWorkTyped
<1>2. SetToSeq(S) \in Seq(WtNames)
      /\ \A n \in S : \E i \in 1..Len(SetToSeq(S)) : SetToSeq(S)[i] = n
  <2>1. S \in SUBSET WtNames
    OBVIOUS
  <2> HIDE DEF S
  <2> QED BY <2>1, WtListing
<1> HIDE DEF S
<1>3. WtLooks(w, "gather")
  BY <1>0, <1>1 DEF WtLooks, WtWorking
<1>4. WtWorkTyped' /\ WtHistoryTyped' /\ WtReadSent'
  BY <1>0, <1>2 DEF WtInv, WtTyped, WtWorkTyped, WtHistoryTyped, WtSound, WtReadSent, wtFiles
<1>5. WtPlaced'
  BY <1>0, <1>1 DEF WtInv, WtTyped, WtPlaced, WtBusy
<1>6. WtCoversAt(w)'
  <2> SUFFICES ASSUME NEW n \in WtNames, wtInbox[n].whole
               PROVE  \E i \in 1..Len(SetToSeq(S)) : SetToSeq(S)[i] = n
    BY <1>0, <1>1 DEF WtCoversAt, WtCovers, wtFiles
  <2>1. n \in S
    BY WtAbsentFile DEF WtInv, WtSound, WtUnfiled, S
  <2> QED BY <1>2, <2>1
<1>7. WtKept(w)'
  <2>1. WtSettledAt(w)'
    BY <1>0 DEF WtInv, WtKept, WtSettledAt, WtSettled, wtFiles
  <2> QED BY <1>1, <1>6, <2>1 DEF WtKept, WtReadAt, WtTextAt, WtAheadAt, WtRepeatsAt
<1> QED BY <1>3, <1>4, <1>5, <1>7, WtLooksKeeps

\* What has settled becomes a candidate.
LEMMA WtExamineStep ==
    ASSUME WtInv, NEW w \in WtWatchers, WtExamine(w)
    PROVE  WtInv'
<1> DEFINE todo == wtTodo[w]
           batch == wtBatch[w]
           more == IF wtInbox[Head(todo)].whole THEN Append(batch, Head(todo)) ELSE batch
<1>0. /\ wtPc[w] = "gather" /\ todo # <<>>
      /\ wtTodo' = [wtTodo EXCEPT ![w] = Tail(todo)] /\ wtBatch' = [wtBatch EXCEPT ![w] = more]
      /\ UNCHANGED <<wtLock, wtPc, wtWatching, wtAt, wtRead, wtBatching, wtFiles, wtContended,
                     wtRedone, wtRaced, wtUnseen>>
  BY DEF WtExamine, WtInv, WtTyped, WtWorkTyped, wtHistory
<1>1. /\ todo \in Seq(WtNames) /\ batch \in Seq(WtNames)
      /\ Head(todo) \in WtNames /\ Tail(todo) \in Seq(WtNames)
      /\ Len(todo) \in Nat /\ Len(todo) > 0 /\ Len(Tail(todo)) = Len(todo) - 1
      /\ \A i \in 1..Len(Tail(todo)) : Tail(todo)[i] = todo[i + 1]
      /\ Head(todo) = todo[1]
  <2>1. todo \in Seq(WtNames) /\ batch \in Seq(WtNames)
    BY DEF WtInv, WtTyped, WtWorkTyped
  <2>2. /\ Head(todo) \in WtNames /\ Tail(todo) \in Seq(WtNames) /\ Len(Tail(todo)) = Len(todo) - 1
        /\ \A i \in 1..Len(Tail(todo)) : Tail(todo)[i] = todo[i + 1]
    BY <1>0, <2>1, HeadTailProperties
  <2>3. Len(todo) \in Nat /\ Len(todo) > 0 /\ Head(todo) = todo[1]
    <3> HIDE DEF todo
    <3> QED BY <1>0, <2>1
  <2> QED BY <2>1, <2>2, <2>3
<1>2. /\ Append(batch, Head(todo)) \in Seq(WtNames)
      /\ Len(Append(batch, Head(todo))) = Len(batch) + 1
      /\ \A i \in 1..Len(batch) : Append(batch, Head(todo))[i] = batch[i]
      /\ Append(batch, Head(todo))[Len(batch) + 1] = Head(todo)
      /\ Len(batch) \in Nat
  BY <1>1, AppendProperties
<1>3. /\ wtTodo'[w] = Tail(todo) /\ wtBatch'[w] = more
      /\ \A x \in WtWatchers \ {w} : wtTodo'[x] = wtTodo[x] /\ wtBatch'[x] = wtBatch[x]
  BY <1>0 DEF WtInv, WtTyped, WtWorkTyped
<1>4. /\ more \in Seq(WtNames) /\ Len(more) \in Nat /\ Len(more) >= Len(batch)
      /\ \A i \in 1..Len(batch) : more[i] = batch[i]
      /\ \A i \in 1..Len(more) :
            i \in 1..Len(batch) \/ (more[i] = Head(todo) /\ wtInbox[Head(todo)].whole)
      /\ wtInbox[Head(todo)].whole =>
            Len(more) = Len(batch) + 1 /\ more[Len(batch) + 1] = Head(todo)
  <2> HIDE DEF todo, batch
  <2>1. CASE wtInbox[Head(todo)].whole
    BY <1>2, <2>1
  <2>2. CASE ~wtInbox[Head(todo)].whole
    BY <1>1, <1>2, <2>2
  <2> QED BY <2>1, <2>2
<1>5. wtAt[w] \in Nat /\ wtAt[w] =< Len(batch)
  BY DEF WtInv, WtTyped, WtWorkTyped, WtPlaced
<1> HIDE DEF more
<1>6. WtLooks(w, "gather")
  <2>1. wtPc' = [wtPc EXCEPT ![w] = "gather"]
    BY <1>0 DEF WtInv, WtTyped, WtLockTyped
  <2> QED BY <1>0, <1>3, <2>1 DEF WtLooks, WtWorking
<1>7. WtWorkTyped' /\ WtHistoryTyped' /\ WtReadSent'
  <2>1. WtWorkTyped'
    BY <1>0, <1>1, <1>4 DEF WtInv, WtTyped, WtWorkTyped
  <2> QED BY <1>0, <2>1 DEF WtInv, WtTyped, WtHistoryTyped, WtSound, WtReadSent, wtFiles
<1>8. WtPlaced'
  <2>1. wtAt[w] =< Len(more)
    BY <1>2, <1>4, <1>5
  <2> QED BY <1>0, <1>3, <2>1 DEF WtInv, WtTyped, WtPlaced, WtBusy
<1>9. WtSettledAt(w)'
  <2> SUFFICES ASSUME NEW i \in 1..Len(more) PROVE WtSettled(more[i])
    BY <1>0, <1>3 DEF WtSettledAt, WtSettled, wtFiles
  <2>1. CASE i \in 1..Len(batch)
    BY <1>4, <2>1 DEF WtInv, WtKept, WtSettledAt
  <2>2. CASE i \notin 1..Len(batch)
    BY <1>4, <2>2 DEF WtSettled
  <2> QED BY <2>1, <2>2
<1>10. WtCoversAt(w)'
  <2>0. UNCHANGED <<wtInbox, wtUnseen, wtAt>>
    BY <1>0 DEF wtFiles
  <2> SUFFICES ASSUME NEW n \in WtNames, wtInbox[n].whole PROVE WtCovers(w, n)'
    BY <2>0 DEF WtCoversAt
  <2> SUFFICES \/ <<n, wtInbox[n].v>> \in wtUnseen
               \/ \E i \in 1..Len(Tail(todo)) : Tail(todo)[i] = n
               \/ \E i \in 1..Len(more) : i >= wtAt[w] /\ more[i] = n
    BY <1>3, <2>0, Zenon DEF WtCovers
  <2>1. WtCovers(w, n)
    BY <1>0 DEF WtInv, WtKept, WtCoversAt, WtWorking
  <2>2. CASE \E i \in 1..Len(batch) : i >= wtAt[w] /\ batch[i] = n
    <3>1. PICK i \in 1..Len(batch) : i >= wtAt[w] /\ batch[i] = n
      BY <2>2
    <3>2. i \in 1..Len(more) /\ more[i] = n
      BY <1>2, <1>4, <3>1
    <3> QED BY <3>1, <3>2
  <2>3. CASE \E i \in 1..Len(todo) : todo[i] = n
    <3>1. PICK i \in 1..Len(todo) : todo[i] = n
      BY <2>3
    <3>2. CASE i = 1
      <4>1. Len(more) = Len(batch) + 1 /\ more[Len(batch) + 1] = n
        BY <1>1, <1>4, <3>1, <3>2
      <4>2. Len(batch) + 1 \in 1..Len(more) /\ Len(batch) + 1 >= wtAt[w]
        BY <1>2, <1>5, <4>1
      <4> QED BY <4>1, <4>2
    <3>3. CASE i # 1
      <4>1. i - 1 \in 1..Len(Tail(todo)) /\ (i - 1) + 1 = i
        BY <1>1, <3>1, <3>3
      <4>2. Tail(todo)[i - 1] = n
        BY <1>1, <3>1, <4>1
      <4> QED BY <4>1, <4>2
    <3> QED BY <3>2, <3>3
  <2> QED BY <2>1, <2>2, <2>3 DEF WtCovers
<1>11. WtKept(w)'
  BY <1>0, <1>9, <1>10 DEF WtKept, WtReadAt, WtTextAt, WtAheadAt, WtRepeatsAt
<1> QED BY <1>6, <1>7, <1>8, <1>11, WtLooksKeeps

\* Events are asked for.
LEMMA WtRegisterStep ==
    ASSUME WtInv, NEW w \in WtWatchers, WtRegister(w)
    PROVE  WtInv'
<1>0. /\ wtPc[w] = "gather" /\ wtWatching' = [wtWatching EXCEPT ![w] = TRUE]
      /\ UNCHANGED <<wtLock, wtPc, wtTodo, wtBatch, wtAt, wtRead, wtBatching, wtFiles, wtContended,
                     wtRedone, wtRaced, wtUnseen>>
  BY DEF WtRegister, wtHistory
<1>1. WtLooks(w, "gather")
  <2>1. wtPc' = [wtPc EXCEPT ![w] = "gather"]
    BY <1>0 DEF WtInv, WtTyped, WtLockTyped
  <2> QED BY <1>0, <2>1 DEF WtLooks, WtWorking
<1>2. WtWorkTyped' /\ WtHistoryTyped' /\ WtReadSent' /\ WtPlaced'
  BY <1>0 DEF WtInv, WtTyped, WtWorkTyped, WtHistoryTyped, WtSound, WtReadSent, WtPlaced, wtFiles
<1>3. WtKept(w)'
  <2>1. WtSettledAt(w)' /\ WtCoversAt(w)'
    BY <1>0 DEF WtInv, WtKept, WtSettledAt, WtSettled, WtCoversAt, WtCovers, wtFiles
  <2> QED BY <1>0, <2>1 DEF WtKept, WtReadAt, WtTextAt, WtAheadAt, WtRepeatsAt
<1> QED BY <1>1, <1>2, <1>3, WtLooksKeeps

\* What is in the inbox was sent.
LEMMA WtInboxSent ==
    ASSUME WtInv, NEW n \in WtNames
    PROVE  wtInbox[n].v =< wtSent[n] /\ (wtInbox[n].whole => wtInbox[n].v # 0)
<1>1. wtSent[n] \in Nat
  BY WtFileTypes DEF WtInv
<1>2. CASE wtInbox[n] = WtAbsent
  BY <1>1, <1>2, WtAbsentFile
<1>3. CASE wtInbox[n].v = wtSent[n] /\ wtInbox[n].v # 0
  BY <1>1, <1>3
<1> QED BY <1>2, <1>3 DEF WtInv, WtSound, WtUnfiled

\* The batch reads the inbox, where what waits was not touched; the rest of it goes
\* to the pipeline file by file.
LEMMA WtGatheredStep ==
    ASSUME WtInv, NEW w \in WtWatchers, WtGathered(w)
    PROVE  WtInv'
<1> DEFINE repeated == {<<n, wtInbox[n].v>> : n \in {m \in WtNames :
                            wtBatching /\ wtInbox[m].whole /\ WtTwice(w, m)}}
<1>0. /\ wtPc[w] = "gather" /\ wtTodo[w] = <<>> /\ wtBatch[w] # <<>>
      /\ wtAt' = [wtAt EXCEPT ![w] = 1] /\ wtRead' = [wtRead EXCEPT ![w] = wtInbox]
      /\ wtRedone' = wtRedone \cup repeated
      /\ UNCHANGED <<wtLock, wtTodo, wtWatching, wtBatch, wtBatching, wtFiles, wtContended,
                     wtRaced, wtUnseen>>
  BY DEF WtGathered
<1>1. PICK to \in {"artifact", "pipeline"} :
          wtPc' = [wtPc EXCEPT ![w] = to] /\ (to = "artifact" => wtBatching)
  BY DEF WtGathered
<1>2. /\ wtPc'[w] = to /\ wtAt'[w] = 1 /\ wtRead'[w] = wtInbox
      /\ \A x \in WtWatchers \ {w} :
            wtPc'[x] = wtPc[x] /\ wtAt'[x] = wtAt[x] /\ wtRead'[x] = wtRead[x]
  BY <1>0, <1>1 DEF WtInv, WtTyped, WtLockTyped, WtWorkTyped
<1>3. wtBatch[w] \in Seq(WtNames) /\ Len(wtBatch[w]) \in Nat /\ Len(wtBatch[w]) >= 1
  <2>1. wtBatch[w] \in Seq(WtNames)
    BY DEF WtInv, WtTyped, WtWorkTyped
  <2> QED BY <1>0, <2>1
<1>4. \A i \in 1..Len(wtBatch[w]) : wtBatch[w][i] \in WtNames
  BY <1>3
<1>5. WtLooks(w, to)
  <2>1. wtRedone \subseteq wtRedone'
    BY <1>0
  <2> QED BY <1>0, <1>1, <1>2, <2>1 DEF WtLooks, WtWorking
<1>6. WtWorkTyped' /\ WtHistoryTyped'
  <2>1. repeated \subseteq WtVersions
    <3> SUFFICES ASSUME NEW n \in WtNames, wtInbox[n].whole PROVE <<n, wtInbox[n].v>> \in WtVersions
      OBVIOUS
    <3>1. wtInbox[n].v # 0
      BY WtAbsentFile DEF WtInv, WtSound, WtUnfiled
    <3> QED BY <3>1, WtFileTypes DEF WtInv
  <2>2. WtHistoryTyped'
    <3> HIDE DEF repeated
    <3> QED BY <1>0, <2>1 DEF WtInv, WtTyped, WtHistoryTyped
  <2>3. WtWorkTyped'
    BY <1>0 DEF WtInv, WtTyped, WtWorkTyped, WtFilesTyped
  <2> QED BY <2>2, <2>3
<1>7. WtPlaced'
  BY <1>0, <1>2, <1>3 DEF WtInv, WtTyped, WtPlaced
<1>8. WtReadSent'
  <2> SUFFICES ASSUME NEW n \in WtNames
               PROVE  wtInbox[n].v =< wtSent[n] /\ (wtInbox[n].whole => wtInbox[n].v # 0)
    BY <1>0, <1>2 DEF WtInv, WtSound, WtReadSent, wtFiles
  <2> QED BY WtInboxSent
<1> HIDE DEF repeated
<1>9. UNCHANGED <<wtInbox, wtBatch, wtRaced, wtMade, wtFailed, wtUnseen, wtTodo, wtContended>>
  BY <1>0 DEF wtFiles
<1>10. WtSettledAt(w)'
  BY <1>9 DEF WtInv, WtKept, WtSettledAt, WtSettled
<1>11. WtReadAt(w)'
  <2> SUFFICES ASSUME NEW i \in 1..Len(wtBatch[w]) PROVE WtAsRead(w, wtBatch[w][i])'
    BY <1>2, <1>9 DEF WtReadAt
  <2>1. WtSettled(wtBatch[w][i])
    BY DEF WtInv, WtKept, WtSettledAt
  <2> QED BY <1>2, <1>4, <1>9, <2>1 DEF WtAsRead, WtSettled
<1>12. ~wtContended => WtAheadAt(w)'
  <2> SUFFICES ASSUME ~wtContended, NEW i \in 1..Len(wtBatch[w])
               PROVE  WtUntouched(w, wtBatch[w][i])'
    BY <1>2, <1>9 DEF WtAheadAt
  <2> SUFFICES ASSUME wtInbox[wtBatch[w][i]].whole
               PROVE  LET f == <<wtBatch[w][i], wtInbox[wtBatch[w][i]].v>>
                      IN f \notin wtFailed /\ (f \in wtRedone' \/ wtMade[f] = 0)
    BY <1>2, <1>9 DEF WtUntouched
  <2>1. wtPc[w] \in WtWorking \ {"processed"}
    BY <1>0 DEF WtWorking
  <2> QED BY <1>0, <1>4, <2>1, WtInboxUntouched
<1>13. WtRepeatsAt(w)'
  <2> SUFFICES ASSUME to = "artifact", NEW i \in 1..Len(wtBatch[w]), NEW j \in 1..Len(wtBatch[w]),
                      i # j, wtBatch[w][j] = wtBatch[w][i], wtInbox[wtBatch[w][i]].whole
               PROVE  <<wtBatch[w][i], wtInbox[wtBatch[w][i]].v>> \in wtRedone'
    BY <1>2, <1>9 DEF WtRepeatsAt, WtRepeated
  <2>1. DOMAIN wtBatch[w] = 1..Len(wtBatch[w])
    BY <1>3
  <2>2. WtTwice(w, wtBatch[w][i]) /\ wtBatching
    BY <1>1, <2>1 DEF WtTwice
  <2> QED BY <1>0, <1>4, <2>2 DEF repeated
<1>14. WtCoversAt(w)'
  <2> SUFFICES ASSUME NEW n \in WtNames, wtInbox[n].whole PROVE WtCovers(w, n)'
    BY <1>9 DEF WtCoversAt
  <2>1. WtCovers(w, n)
    BY <1>0 DEF WtInv, WtKept, WtCoversAt, WtWorking
  <2> SUFFICES \/ <<n, wtInbox[n].v>> \in wtUnseen
               \/ \E i \in 1..Len(wtBatch[w]) : i >= 1 /\ wtBatch[w][i] = n
    BY <1>2, <1>9, Zenon DEF WtCovers
  <2>2. 1..Len(wtTodo[w]) = {}
    BY <1>0
  <2> QED BY <1>3, <2>1, <2>2 DEF WtCovers
<1>15. WtTextAt(w)'
  BY <1>2 DEF WtTextAt
<1>16. WtKept(w)'
  BY <1>9, <1>10, <1>11, <1>12, <1>13, <1>14, <1>15 DEF WtKept
<1> QED BY <1>5, <1>6, <1>7, <1>8, <1>16, WtLooksKeeps

\* The pipeline opens what is under the name.
LEMMA WtOpenStep ==
    ASSUME WtInv, NEW w \in WtWatchers, WtOpen(w)
    PROVE  WtInv'
<1>p. wtPc[w] = "pipeline"
  BY DEF WtOpen
<1>n. PICK n \in WtNames : n = WtCurrent(w)
  BY <1>p, WtCandidate DEF WtInv, WtBusy
<1>0. /\ wtPc[w] = "pipeline" /\ wtPc' = [wtPc EXCEPT ![w] = "reading"]
      /\ wtRead' = [wtRead EXCEPT ![w][n] = wtInbox[n]]
      /\ UNCHANGED <<wtLock, wtTodo, wtWatching, wtBatch, wtAt, wtBatching, wtFiles, wtContended,
                     wtRedone, wtRaced, wtUnseen>>
  BY <1>n DEF WtOpen, wtHistory
<1>1. n \in WtNames /\ wtAt[w] \in 1..Len(wtBatch[w]) /\ n = wtBatch[w][wtAt[w]]
  BY <1>0, <1>n, WtCandidate DEF WtInv, WtBusy
<1>2. WtCurrent(w)' = n
  BY <1>0, <1>n DEF WtCurrent
<1>3. /\ wtPc'[w] = "reading" /\ wtRead'[w][n] = wtInbox[n]
      /\ \A m \in WtNames \ {n} : wtRead'[w][m] = wtRead[w][m]
      /\ \A x \in WtWatchers \ {w} : wtPc'[x] = wtPc[x] /\ wtRead'[x] = wtRead[x]
  BY <1>0, <1>1 DEF WtInv, WtTyped, WtLockTyped, WtWorkTyped
<1>4. WtLooks(w, "reading")
  BY <1>0, <1>3 DEF WtLooks, WtWorking
<1>5. WtWorkTyped' /\ WtHistoryTyped'
  <2>1. wtInbox[n] \in WtFileSet
    BY <1>1 DEF WtInv, WtTyped, WtFilesTyped
  <2> QED BY <1>0, <1>1, <2>1 DEF WtInv, WtTyped, WtWorkTyped, WtHistoryTyped
<1>6. WtPlaced'
  BY <1>0, <1>3 DEF WtInv, WtTyped, WtPlaced, WtBusy
<1>7. WtReadSent'
  <2>2. wtInbox[n].v =< wtSent[n] /\ (wtInbox[n].whole => wtInbox[n].v # 0)
    BY WtInboxSent
  <2> QED BY <1>0, <1>1, <1>3, <2>2 DEF WtInv, WtSound, WtReadSent, wtFiles
<1>8. UNCHANGED <<wtInbox, wtBatch, wtRaced, wtMade, wtFailed, wtUnseen, wtTodo, wtContended,
                  wtRedone, wtAt>>
  BY <1>0 DEF wtFiles
<1>9. WtSettledAt(w)' /\ WtTextAt(w)' /\ WtRepeatsAt(w)'
  BY <1>3, <1>8 DEF WtInv, WtKept, WtSettledAt, WtSettled, WtTextAt, WtRepeatsAt
<1>10. WtReadAt(w)'
  <2>1. WtSettled(n)
    BY <1>1 DEF WtInv, WtKept, WtSettledAt
  <2>2. WtAsRead(w, n)'
    BY <1>3, <1>8, <2>1 DEF WtAsRead, WtSettled
  <2> QED BY <1>2, <1>3, <2>2 DEF WtReadAt
<1>11. ~wtContended => WtAheadAt(w)'
  <2> SUFFICES ASSUME ~wtContended PROVE WtUntouched(w, n)'
    BY <1>2, <1>3 DEF WtAheadAt
  <2>1. wtPc[w] \in WtWorking \ {"processed"}
    BY <1>0 DEF WtWorking
  <2> QED BY <1>1, <1>3, <1>8, <2>1, WtInboxUntouched DEF WtUntouched
<1>12. WtCoversAt(w)'
  BY <1>0, <1>8 DEF WtInv, WtKept, WtCoversAt, WtCovers, WtWorking
<1>13. WtKept(w)'
  BY <1>8, <1>9, <1>10, <1>11, <1>12 DEF WtKept
<1> QED BY <1>4, <1>5, <1>6, <1>7, <1>13, WtLooksKeeps

-----------------------------------------------------------------------------
\* A transcript more.
LEMMA WtMakes ==
    ASSUME WtInv, NEW w \in WtWatchers, NEW n \in WtNames, wtRead[w][n].v # 0,
           WtMake(n, wtRead[w][n])
    PROVE  LET f == <<n, wtRead[w][n].v>>
           IN /\ f \in WtVersions /\ wtMade[f] \in Nat
              /\ wtMade' \in [WtVersions -> Nat]
              /\ wtMade'[f] = IF wtRead[w][n].whole THEN wtMade[f] + 1 ELSE wtMade[f]
              /\ \A g \in WtVersions \ {f} : wtMade'[g] = wtMade[g]
              /\ \A g \in WtVersions : wtMade'[g] \in Nat /\ wtMade'[g] >= wtMade[g]
<1> DEFINE f == <<n, wtRead[w][n].v>>
<1>1. f \in WtVersions /\ wtMade \in [WtVersions -> Nat]
  BY WtFileTypes DEF WtInv, WtTyped, WtFilesTyped
<1>2. wtMade' = IF wtRead[w][n].whole THEN [wtMade EXCEPT ![f] = wtMade[f] + 1] ELSE wtMade
  BY DEF WtMake
<1>3. wtMade[f] \in Nat /\ \A g \in WtVersions : wtMade[g] \in Nat
  BY <1>1
<1> HIDE DEF f
<1>4. CASE wtRead[w][n].whole
  <2>1. wtMade'[f] = wtMade[f] + 1 /\ \A g \in WtVersions \ {f} : wtMade'[g] = wtMade[g]
    BY <1>1, <1>2, <1>4
  <2>2. wtMade' \in [WtVersions -> Nat]
    BY <1>1, <1>2, <1>3, <1>4
  <2>3. \A g \in WtVersions : wtMade'[g] \in Nat /\ wtMade'[g] >= wtMade[g]
    BY <1>3, <2>1
  <2> QED BY <1>1, <1>3, <1>4, <2>1, <2>2, <2>3 DEF f
<1>5. CASE ~wtRead[w][n].whole
  <2>1. \A g \in WtVersions : wtMade'[g] \in Nat /\ wtMade'[g] >= wtMade[g]
    BY <1>2, <1>3, <1>5
  <2> QED BY <1>1, <1>2, <1>3, <1>5, <2>1 DEF f
<1> QED BY <1>4, <1>5

\* The pipeline fails: nothing has changed yet but its position.
LEMMA WtFailsStep ==
    ASSUME WtInv, NEW w \in WtWatchers, WtTranscribe(w), wtPc'[w] = "failed"
    PROVE  WtInv'
<1>0. /\ wtPc[w] = "reading" /\ wtPc' = [wtPc EXCEPT ![w] = "failed"]
      /\ UNCHANGED <<wtLock, wtTodo, wtWatching, wtBatch, wtAt, wtRead, wtBatching, wtFiles,
                     wtContended, wtRedone, wtRaced, wtUnseen>>
  BY DEF WtTranscribe, wtHistory, wtWork, wtFiles, WtInv, WtTyped, WtLockTyped
<1>1. WtLooks(w, "failed")
  BY <1>0 DEF WtLooks, WtWorking
<1>2. WtWorkTyped' /\ WtHistoryTyped' /\ WtReadSent'
  BY <1>0 DEF WtInv, WtTyped, WtWorkTyped, WtHistoryTyped, WtSound, WtReadSent, wtFiles
<1>3. WtPlaced'
  <2>1. \A x \in WtWatchers : wtPc'[x] \in WtBusy => wtPc[x] \in WtBusy
    BY <1>0 DEF WtBusy, WtInv, WtTyped, WtLockTyped
  <2> QED BY <1>0, <2>1 DEF WtInv, WtTyped, WtPlaced
<1>4. WtKept(w)'
  <2>0. UNCHANGED <<wtInbox, wtBatch, wtRaced, wtMade, wtFailed, wtUnseen, wtTodo, wtRead, wtAt>>
    BY <1>0 DEF wtFiles
  <2>1. WtSettledAt(w)'
    BY <2>0 DEF WtInv, WtKept, WtSettledAt, WtSettled
  <2>2. WtReadAt(w)'
    <3>1. WtAsRead(w, WtCurrent(w)) /\ WtCurrent(w)' = WtCurrent(w)
      BY <1>0, <2>0 DEF WtInv, WtKept, WtReadAt, WtCurrent
    <3>2. WtAsRead(w, WtCurrent(w))'
      BY <2>0, <3>1 DEF WtAsRead
    <3> QED BY <3>2, wtPc'[w] = "failed" DEF WtReadAt
  <2>3. WtCoversAt(w)'
    BY <1>0, <2>0 DEF WtInv, WtKept, WtCoversAt, WtCovers, WtWorking
  <2> QED BY <2>1, <2>2, <2>3 DEF WtKept, WtTextAt, WtAheadAt, WtRepeatsAt
<1> QED BY <1>1, <1>2, <1>3, <1>4, WtLooksKeeps

\* The pipeline gives a transcript, of a file that had none.
LEMMA WtMakesStep ==
    ASSUME WtInv, NEW w \in WtWatchers, WtTranscribe(w), wtPc'[w] # "failed"
    PROVE  WtInv'
<1>p. wtPc[w] = "reading"
  BY DEF WtTranscribe
<1>n. PICK n \in WtNames : n = WtCurrent(w)
  BY <1>p, WtCandidate DEF WtInv, WtBusy
<1>0. /\ wtPc' = [wtPc EXCEPT ![w] = "processed"] /\ wtRead[w][n].v # 0
      /\ WtMake(n, wtRead[w][n])
      /\ UNCHANGED <<wtLock, wtTodo, wtWatching, wtBatch, wtAt, wtRead, wtBatching, wtInbox, wtSent,
                     wtProcessed, wtFailed, wtContended, wtRedone, wtRaced, wtUnseen>>
  BY <1>n DEF WtTranscribe, wtHistory, wtWork, WtInv, WtTyped, WtLockTyped
<1>1. PICK f \in WtVersions : f = <<n, wtRead[w][n].v>>
  BY <1>0, WtMakes
<1>2. /\ wtMade[f] \in Nat /\ wtMade' \in [WtVersions -> Nat]
      /\ wtMade'[f] = IF wtRead[w][n].whole THEN wtMade[f] + 1 ELSE wtMade[f]
      /\ \A g \in WtVersions \ {f} : wtMade'[g] = wtMade[g]
      /\ \A g \in WtVersions : wtMade'[g] \in Nat /\ wtMade'[g] >= wtMade[g]
  BY <1>0, <1>1, WtMakes
<1>3. wtPc'[w] = "processed" /\ \A x \in WtWatchers \ {w} : wtPc'[x] = wtPc[x]
  BY <1>0 DEF WtInv, WtTyped, WtLockTyped
<1>4. WtLockTyped' /\ WtLocked'
  <2>1. wtPc[w] \in WtWorking /\ "processed" \in WtWorking
    BY <1>p DEF WtWorking
  <2> QED BY <1>0, <2>1, WtWorkingLocked
<1>5. WtTyped'
  <2>1. WtWorkTyped' /\ WtHistoryTyped'
    BY <1>0 DEF WtInv, WtTyped, WtWorkTyped, WtHistoryTyped
  <2>2. WtFilesTyped'
    BY <1>0, <1>2 DEF WtInv, WtTyped, WtFilesTyped
  <2>3. WtPlaced'
    BY <1>p, <1>0, <1>3 DEF WtInv, WtTyped, WtPlaced, WtBusy
  <2> QED BY <1>4, <2>1, <2>2, <2>3 DEF WtTyped
<1>6. WtSound'
  <2>1. WtUnfiled' /\ WtFiledOnce' /\ WtReadSent'
    BY <1>0 DEF WtInv, WtSound, WtUnfiled, WtFiledOnce, WtReadSent
  <2>2. f[1] = n /\ f[2] = wtRead[w][n].v /\ wtRead[w][n].v =< wtSent[n]
    BY <1>1 DEF WtInv, WtSound, WtReadSent
  <2>3. WtPastSent'
    BY <1>0, <1>2, <2>2 DEF WtInv, WtSound, WtPastSent
  <2> QED BY <2>1, <2>3 DEF WtSound
<1>7. WtOnly(w)
  BY <1>p, <1>0, <1>2, <1>3 DEF WtOnly, WtWorking
<1>8. WtKept(w)'
  <2>1. WtSettledAt(w)'
    BY <1>0 DEF WtInv, WtKept, WtSettledAt, WtSettled
  <2>n. WtCurrent(w)' = n
    BY <1>0, <1>n DEF WtCurrent
  <2>2. WtReadAt(w)'
    <3>1. WtAsRead(w, n)
      BY <1>p, <1>n DEF WtInv, WtKept, WtReadAt
    <3>2. WtAsRead(w, n)'
      BY <1>0, <3>1 DEF WtAsRead
    <3> QED BY <1>3, <2>n, <3>2 DEF WtReadAt
  <2>3. WtTextAt(w)'
    <3>1. wtRead[w][n].whole => wtMade'[f] > 0
      BY <1>2
    <3>2. WtHasText(w, n)'
      BY <1>0, <1>1, <3>1 DEF WtHasText
    <3> QED BY <2>n, <3>2 DEF WtTextAt
  <2>4. WtCoversAt(w)'
    BY <1>p, <1>0, <1>3 DEF WtInv, WtKept, WtCoversAt, WtCovers, WtWorking
  <2> QED BY <1>3, <2>1, <2>2, <2>3, <2>4 DEF WtKept, WtAheadAt, WtRepeatsAt
<1>9. WtLeaves'
  <2> SUFFICES ASSUME ~wtContended, NEW m \in WtNames,
                      wtInbox[m].v # 0, <<m, wtInbox[m].v>> \notin wtRedone,
                      wtMade'[<<m, wtInbox[m].v>>] > 0
               PROVE  \E x \in WtWatchers : WtFiling(x, m)'
    BY <1>0 DEF WtLeaves
  <2>1. <<m, wtInbox[m].v>> \in WtVersions
    BY WtFileTypes DEF WtInv
  <2>2. CASE wtMade[<<m, wtInbox[m].v>>] > 0
    <3>1. PICK x \in WtWatchers : WtFiling(x, m)
      BY <2>2 DEF WtInv, WtLeaves
    <3>2. x = w
      BY <1>p, <3>1, WtOnlyOne DEF WtFiling, WtWorking
    <3> QED BY <1>p, <3>1, <3>2 DEF WtFiling
  <2>3. CASE <<m, wtInbox[m].v>> = f
    <3>1. m = n /\ wtInbox[m].v = wtRead[w][n].v
      BY <1>1, <2>3
    <3>2. WtCurrent(w)' = n
      BY <1>0, <1>n DEF WtCurrent
    <3>3. WtFiling(w, m)'
      BY <1>0, <1>3, <3>1, <3>2 DEF WtFiling
    <3> QED BY <3>3
  <2> QED BY <1>2, <2>1, <2>2, <2>3
<1>10. ~wtContended => WtUntouched(w, n)
  BY <1>p, <1>n DEF WtInv, WtKept, WtAheadAt
<1>11. TranscribedOnce'
  <2> SUFFICES ASSUME ~wtContended, NEW g \in WtVersions \ wtRedone PROVE wtMade'[g] =< 1
    BY <1>0 DEF TranscribedOnce
  <2>1. wtMade[g] =< 1
    BY DEF WtInv, TranscribedOnce
  <2>2. CASE g = f /\ wtRead[w][n].whole
    BY <1>1, <1>2, <1>10, <2>2 DEF WtUntouched
  <2> QED BY <1>2, <2>1, <2>2
<1>12. FiledAsHandled'
  <2>1. ASSUME NEW g \in wtProcessed \ wtRaced PROVE wtMade'[g] > 0
    <3>1. g \in WtVersions /\ wtMade[g] > 0
      BY DEF WtInv, FiledAsHandled, WtTyped, WtFilesTyped
    <3>2. wtMade[g] \in Nat /\ wtMade'[g] \in Nat /\ wtMade'[g] >= wtMade[g]
      BY <1>2, <3>1 DEF WtInv, WtTyped, WtFilesTyped
    <3> QED BY <3>1, <3>2
  <2>2. ASSUME ~wtContended, NEW g \in wtFailed \ (wtRaced \cup wtRedone) PROVE wtMade'[g] = 0
    <3>1. g \in WtVersions /\ wtMade[g] = 0
      BY <2>2 DEF WtInv, FiledAsHandled, WtTyped, WtFilesTyped
    <3>2. ~(g = f /\ wtRead[w][n].whole)
      BY <1>1, <1>10, <2>2 DEF WtUntouched
    <3> QED BY <1>2, <3>1, <3>2
  <2> QED BY <1>0, <2>1, <2>2 DEF FiledAsHandled
<1>13. \A x \in WtWatchers : WtKept(x)'
  BY <1>7, <1>8, WtOthers
<1> QED BY <1>5, <1>4, <1>6, <1>9, <1>11, <1>12, <1>13 DEF WtInv

-----------------------------------------------------------------------------
\* The name is free again, and what was under it is filed, if anything was.
WtPuts(n) ==
    /\ wtInbox' = [wtInbox EXCEPT ![n] = WtAbsent]
    /\ UNCHANGED <<wtSent, wtRead>>
    /\ \E S \in SUBSET {<<n, wtInbox[n].v>>} :
          /\ S # {} => wtInbox[n].v # 0
          /\ \/ wtProcessed' = wtProcessed \cup S /\ wtFailed' = wtFailed
             \/ wtProcessed' = wtProcessed /\ wtFailed' = wtFailed \cup S

\* The files stay sound: what is filed was sent and had not been filed.
LEMMA WtPutsKeeps ==
    ASSUME WtInv, NEW n \in WtNames, WtPuts(n), wtMade' \in [WtVersions -> Nat],
           \A g \in WtVersions : wtMade'[g] > 0 => wtMade[g] > 0 \/ g[2] =< wtSent[g[1]]
    PROVE  WtFilesTyped' /\ WtSound'
<1> DEFINE f == <<n, wtInbox[n].v>>
<1>1. PICK S \in SUBSET {f} :
          /\ S # {} => wtInbox[n].v # 0
          /\ \/ wtProcessed' = wtProcessed \cup S /\ wtFailed' = wtFailed
             \/ wtProcessed' = wtProcessed /\ wtFailed' = wtFailed \cup S
  BY DEF WtPuts
<1>2. /\ wtInbox'[n] = WtAbsent /\ \A m \in WtNames \ {n} : wtInbox'[m] = wtInbox[m]
      /\ wtInbox' \in [WtNames -> WtFileSet] /\ wtSent' = wtSent /\ wtRead' = wtRead
  BY WtAbsentFile DEF WtPuts, WtInv, WtTyped, WtFilesTyped
<1>3. S # {} => f \in WtVersions
  BY <1>1, WtFileTypes DEF WtInv
<1>4. S # {} => f \notin wtProcessed \cup wtFailed
  BY <1>1, WtAbsentFile DEF WtInv, WtSound, WtUnfiled
<1>5. WtFilesTyped'
  BY <1>1, <1>2, <1>3 DEF WtInv, WtTyped, WtFilesTyped
<1>6. WtUnfiled'
  BY <1>1, <1>2 DEF WtInv, WtSound, WtUnfiled
<1>7. WtPastSent'
  <2>1. f[1] = n /\ f[2] =< wtSent[n]
    BY WtInboxSent
  <2>2. ASSUME NEW g \in WtVersions, g \in wtProcessed' \cup wtFailed' \/ wtMade'[g] > 0
        PROVE  g[2] =< wtSent[g[1]]
    <3>1. CASE g \in wtProcessed \cup wtFailed \/ wtMade[g] > 0
      BY <3>1 DEF WtInv, WtSound, WtPastSent
    <3>2. CASE wtMade'[g] > 0
      BY <3>1, <3>2
    <3>3. CASE g = f
      BY <2>1, <3>3
    <3> QED BY <1>1, <2>2, <3>1, <3>2, <3>3
  <2> QED BY <1>2, <2>2 DEF WtPastSent
<1>8. WtFiledOnce'
  BY <1>1, <1>4 DEF WtInv, WtSound, WtFiledOnce
<1>9. WtReadSent'
  BY <1>2 DEF WtInv, WtSound, WtReadSent
<1> QED BY <1>5, <1>6, <1>7, <1>8, <1>9 DEF WtSound

\* To the next candidate, the name of this one being free.
LEMMA WtMovesOn ==
    ASSUME WtInv, NEW w \in WtWatchers, wtPc[w] \in WtBusy, NEW pc \in {"pipeline", "artifact"},
           WtNextOr(w, pc), WtPuts(WtCurrent(w)),
           UNCHANGED <<wtTodo, wtWatching, wtRaced, wtUnseen>>
    PROVE  /\ wtPc'[w] \in {pc, "gather"} /\ wtPc' = [wtPc EXCEPT ![w] = wtPc'[w]]
           /\ \A x \in WtWatchers \ {w} :
                 wtPc'[x] = wtPc[x] /\ wtBatch'[x] = wtBatch[x] /\ wtAt'[x] = wtAt[x]
           /\ wtPc'[w] = pc => wtBatch'[w] = wtBatch[w] /\ wtAt'[w] = wtAt[w] + 1
           /\ WtWorkTyped' /\ WtPlaced' /\ WtSettledAt(w)' /\ WtCoversAt(w)'
<1>n. PICK n \in WtNames : n = WtCurrent(w)
  BY WtCandidate DEF WtInv
<1>1. /\ wtAt[w] \in 1..Len(wtBatch[w]) /\ wtAt[w] \in Nat /\ Len(wtBatch[w]) \in Nat
      /\ n = wtBatch[w][wtAt[w]]
  BY <1>n, WtCandidate DEF WtInv
<1>2. /\ wtInbox'[n] = WtAbsent /\ \A m \in WtNames \ {n} : wtInbox'[m] = wtInbox[m]
      /\ wtRead' = wtRead
  BY <1>n DEF WtPuts, WtInv, WtTyped, WtFilesTyped
<1>3. wtBatch[w] \in Seq(WtNames) /\ \A i \in 1..Len(wtBatch[w]) : wtBatch[w][i] \in WtNames
  BY DEF WtInv, WtTyped, WtWorkTyped
<1>4. \/ /\ wtAt[w] < Len(wtBatch[w]) /\ wtPc' = [wtPc EXCEPT ![w] = pc]
         /\ wtAt' = [wtAt EXCEPT ![w] = wtAt[w] + 1] /\ wtBatch' = wtBatch
      \/ /\ ~(wtAt[w] < Len(wtBatch[w])) /\ wtPc' = [wtPc EXCEPT ![w] = "gather"]
         /\ wtAt' = [wtAt EXCEPT ![w] = 0] /\ wtBatch' = [wtBatch EXCEPT ![w] = <<>>]
  BY DEF WtNextOr
<1>5. /\ \A x \in WtWatchers \ {w} :
            wtPc'[x] = wtPc[x] /\ wtBatch'[x] = wtBatch[x] /\ wtAt'[x] = wtAt[x]
      /\ \/ /\ wtAt[w] < Len(wtBatch[w]) /\ wtPc'[w] = pc
            /\ wtAt'[w] = wtAt[w] + 1 /\ wtBatch'[w] = wtBatch[w]
         \/ /\ wtAt[w] = Len(wtBatch[w]) /\ wtPc'[w] = "gather"
            /\ wtAt'[w] = 0 /\ wtBatch'[w] = <<>>
  BY <1>1, <1>4 DEF WtInv, WtTyped, WtLockTyped, WtWorkTyped
<1>6. wtPc'[w] \in {pc, "gather"} /\ wtPc' = [wtPc EXCEPT ![w] = wtPc'[w]]
  BY <1>4, <1>5
<1>7. WtWorkTyped'
  <2>1. wtAt[w] + 1 \in Nat /\ <<>> \in Seq(WtNames)
    BY <1>1
  <2>2. wtBatch' \in [WtWatchers -> Seq(WtNames)]
    BY <1>4, <2>1 DEF WtInv, WtTyped, WtWorkTyped
  <2>3. wtAt' \in [WtWatchers -> Nat]
    <3>1. PICK k \in Nat : wtAt' = [wtAt EXCEPT ![w] = k]
      BY <1>4, <2>1
    <3> QED BY <3>1 DEF WtInv, WtTyped, WtWorkTyped
  <2> QED BY <1>2, <2>2, <2>3 DEF WtInv, WtTyped, WtWorkTyped
<1>8. WtPlaced'
  <2>1. \A x \in WtWatchers \ {w} :
            wtAt'[x] =< Len(wtBatch'[x]) /\ (wtPc'[x] \in WtBusy => wtAt'[x] >= 1)
    BY <1>5 DEF WtInv, WtTyped, WtPlaced
  <2>2. wtAt'[w] =< Len(wtBatch'[w]) /\ (wtPc'[w] \in WtBusy => wtAt'[w] >= 1)
    BY <1>1, <1>5 DEF WtBusy
  <2> QED BY <2>1, <2>2 DEF WtPlaced
<1>9. WtSettledAt(w)'
  <2> SUFFICES ASSUME NEW i \in 1..Len(wtBatch'[w]) PROVE WtSettled(wtBatch[w][i])'
                                                          /\ wtBatch'[w] = wtBatch[w]
    BY DEF WtSettledAt, WtSettled
  <2>1. wtBatch'[w] = wtBatch[w] /\ wtBatch[w][i] \in WtNames
    BY <1>3, <1>5
  <2>2. WtSettled(wtBatch[w][i])
    BY <2>1 DEF WtInv, WtKept, WtSettledAt
  <2>3. \/ wtInbox'[wtBatch[w][i]] = wtInbox[wtBatch[w][i]]
        \/ wtInbox'[wtBatch[w][i]].v = 0
    BY <1>2, <2>1, WtAbsentFile
  <2> QED BY <2>1, <2>2, <2>3 DEF WtSettled
<1>10. WtCoversAt(w)'
  <2> SUFFICES ASSUME NEW m \in WtNames, wtInbox'[m].whole PROVE WtCovers(w, m)'
    BY DEF WtCoversAt
  <2>1. m # n /\ wtInbox'[m] = wtInbox[m]
    BY <1>2, WtAbsentFile
  <2>2. WtCovers(w, m)
    BY <2>1 DEF WtInv, WtKept, WtCoversAt, WtBusy, WtWorking
  <2>3. CASE <<m, wtInbox[m].v>> \in wtUnseen \/ \E i \in 1..Len(wtTodo[w]) : wtTodo[w][i] = m
    BY <2>1, <2>3 DEF WtCovers
  <2>4. CASE \E i \in 1..Len(wtBatch[w]) : i >= wtAt[w] /\ wtBatch[w][i] = m
    <3>1. PICK i \in 1..Len(wtBatch[w]) : i >= wtAt[w] /\ wtBatch[w][i] = m
      BY <2>4
    <3>2. i # wtAt[w]
      BY <1>1, <2>1, <3>1
    <3>3. i >= wtAt[w] + 1 /\ wtAt[w] # Len(wtBatch[w])
      BY <1>1, <3>1, <3>2
    <3> QED BY <1>5, <3>1, <3>3 DEF WtCovers
  <2> QED BY <2>2, <2>3, <2>4 DEF WtCovers
<1> QED BY <1>5, <1>6, <1>7, <1>8, <1>9, <1>10

\* The file under the name is moved to where the outcome says.
LEMMA WtMoveStep ==
    ASSUME WtInv, NEW w \in WtWatchers, WtMove(w)
    PROVE  WtInv'
<1>p. wtPc[w] \in {"processed", "failed"} /\ WtNextOr(w, "pipeline")
  BY DEF WtMove
<1>n. PICK n \in WtNames : n = WtCurrent(w)
  BY <1>p, WtCandidate DEF WtInv, WtBusy
<1> DEFINE f == <<n, wtInbox[n].v>>
<1>0. UNCHANGED <<wtLock, wtTodo, wtWatching, wtRead, wtBatching, wtSent, wtMade, wtContended,
                  wtRedone, wtRaced, wtUnseen>>
  BY DEF WtMove, wtHistory
<1>1. /\ wtInbox' = [wtInbox EXCEPT ![n] = WtAbsent]
      /\ \/ wtProcessed' = wtProcessed /\ wtFailed' = wtFailed
         \/ /\ wtInbox[n].v # 0 /\ wtPc[w] = "processed"
            /\ wtProcessed' = wtProcessed \cup {f} /\ wtFailed' = wtFailed
         \/ /\ wtInbox[n].v # 0 /\ wtPc[w] = "failed"
            /\ wtProcessed' = wtProcessed /\ wtFailed' = wtFailed \cup {f}
  <2>1. CASE WtFile(w, wtPc[w])
    BY <1>p, <1>n, <2>1 DEF WtFile
  <2>2. CASE wtInbox[n].v = 0 /\ UNCHANGED <<wtInbox, wtProcessed, wtFailed>>
    <3>1. wtInbox[n] = WtAbsent
      BY <2>2 DEF WtInv, WtSound, WtUnfiled
    <3> QED BY <2>2, <3>1 DEF WtInv, WtTyped, WtFilesTyped
  <2> QED BY <1>n, <2>1, <2>2 DEF WtMove
<1>2. WtPuts(n)
  <2>1. {} \in SUBSET {f} /\ {f} \in SUBSET {f}
    OBVIOUS
  <2> QED BY <1>0, <1>1, <2>1 DEF WtPuts
<1>3. WtFilesTyped' /\ WtSound'
  <2>1. wtMade' \in [WtVersions -> Nat]
    BY <1>0 DEF WtInv, WtTyped, WtFilesTyped
  <2>2. \A g \in WtVersions : wtMade'[g] > 0 => wtMade[g] > 0
    BY <1>0
  <2> QED BY <1>2, <2>1, <2>2, WtPutsKeeps
<1>4. /\ wtPc'[w] \in {"pipeline", "gather"} /\ wtPc' = [wtPc EXCEPT ![w] = wtPc'[w]]
      /\ \A x \in WtWatchers \ {w} :
            wtPc'[x] = wtPc[x] /\ wtBatch'[x] = wtBatch[x] /\ wtAt'[x] = wtAt[x]
      /\ WtWorkTyped' /\ WtPlaced' /\ WtSettledAt(w)' /\ WtCoversAt(w)'
  <2>1. wtPc[w] \in WtBusy
    BY <1>p DEF WtBusy
  <2> QED BY <1>p, <1>n, <1>0, <1>2, <2>1, WtMovesOn
<1>5. WtLockTyped' /\ WtLocked'
  <2>1. wtPc[w] \in WtWorking /\ wtPc'[w] \in WtWorking
    BY <1>p, <1>4 DEF WtWorking
  <2> QED BY <1>0, <1>4, <2>1, WtWorkingLocked
<1>6. WtTyped'
  <2>1. WtHistoryTyped'
    BY <1>0 DEF WtInv, WtTyped, WtHistoryTyped
  <2> QED BY <1>3, <1>4, <1>5, <2>1 DEF WtTyped
<1>7. \A x \in WtWatchers : WtKept(x)'
  <2>1. WtKept(w)'
    BY <1>4 DEF WtKept, WtReadAt, WtTextAt, WtAheadAt, WtRepeatsAt
  <2>2. \A g \in WtVersions : wtMade'[g] \in Nat /\ wtMade'[g] >= wtMade[g]
    BY <1>0 DEF WtInv, WtTyped, WtFilesTyped
  <2>3. \A m \in WtNames : wtInbox'[m] = wtInbox[m] \/ wtInbox'[m] = WtAbsent
    BY <1>1 DEF WtInv, WtTyped, WtFilesTyped
  <2>4. WtOnly(w)
    BY <1>p, <1>0, <1>4, <2>2, <2>3 DEF WtOnly, WtWorking
  <2> QED BY <2>1, <2>4, WtOthers
<1>8. WtLeaves'
  <2> SUFFICES ASSUME ~wtContended, NEW m \in WtNames,
                      wtInbox'[m].v # 0, <<m, wtInbox'[m].v>> \notin wtRedone,
                      wtMade[<<m, wtInbox'[m].v>>] > 0
               PROVE  FALSE
    BY <1>0 DEF WtLeaves
  <2>1. m # n /\ wtInbox'[m] = wtInbox[m]
    BY <1>1, WtAbsentFile DEF WtInv, WtTyped, WtFilesTyped
  <2>2. PICK x \in WtWatchers : WtFiling(x, m)
    BY <2>1 DEF WtInv, WtLeaves
  <2>3. x = w
    BY <1>p, <2>2, WtOnlyOne DEF WtFiling, WtWorking
  <2> QED BY <1>n, <2>1, <2>2, <2>3 DEF WtFiling
<1>9. TranscribedOnce'
  BY <1>0 DEF WtInv, TranscribedOnce
<1>10. WtAsRead(w, n) /\ WtSettled(n)
  <2>1. WtAsRead(w, n)
    BY <1>p, <1>n DEF WtInv, WtKept, WtReadAt
  <2>2. WtSettled(n)
    <3>1. wtAt[w] \in 1..Len(wtBatch[w]) /\ n = wtBatch[w][wtAt[w]]
      BY <1>p, <1>n, WtCandidate DEF WtInv, WtBusy
    <3> QED BY <3>1 DEF WtInv, WtKept, WtSettledAt
  <2> QED BY <2>1, <2>2
<1>11. wtPc[w] = "processed" /\ wtInbox[n].v # 0 /\ f \notin wtRaced => wtMade[f] > 0
  <2> SUFFICES ASSUME wtPc[w] = "processed", wtInbox[n].v # 0, f \notin wtRaced
               PROVE  wtMade[f] > 0
    OBVIOUS
  <2>1. wtInbox[n].v = wtRead[w][n].v /\ wtRead[w][n].whole
    BY <1>10 DEF WtAsRead
  <2>2. WtHasText(w, n)
    BY <1>n DEF WtInv, WtKept, WtTextAt
  <2> QED BY <2>1, <2>2 DEF WtHasText
<1>12. ~wtContended /\ wtPc[w] = "failed" /\ wtInbox[n].v # 0 /\ f \notin wtRaced \cup wtRedone
         => wtMade[f] = 0
  <2> SUFFICES ASSUME ~wtContended, wtPc[w] = "failed", wtInbox[n].v # 0,
                      f \notin wtRaced \cup wtRedone
               PROVE  wtMade[f] = 0
    OBVIOUS
  <2>1. wtInbox[n].whole
    BY <1>10 DEF WtSettled
  <2>2. wtPc[w] \in WtWorking \ {"processed"}
    BY DEF WtWorking
  <2> QED BY <2>1, <2>2, WtInboxUntouched
<1>13. FiledAsHandled'
  <2> HIDE DEF f
  <2>1. ASSUME NEW g \in wtProcessed' \ wtRaced PROVE wtMade[g] > 0
    BY <1>1, <1>11, <2>1 DEF WtInv, FiledAsHandled
  <2>2. ASSUME ~wtContended, NEW g \in wtFailed' \ (wtRaced \cup wtRedone) PROVE wtMade[g] = 0
    BY <1>1, <1>12, <2>2 DEF WtInv, FiledAsHandled
  <2> QED BY <1>0, <2>1, <2>2 DEF FiledAsHandled
<1> QED BY <1>3, <1>5, <1>6, <1>7, <1>8, <1>9, <1>13 DEF WtInv

\* A file of the batch is transcribed and filed; a name that is in it twice is noted.
LEMMA WtArtifactFiled ==
    ASSUME WtInv, NEW w \in WtWatchers, wtPc[w] = "artifact", NEW n \in WtNames,
           n = WtCurrent(w), wtRead[w][n].v # 0, WtMake(n, wtRead[w][n]),
           WtFile(w, "processed"), WtNextOr(w, "artifact"),
           UNCHANGED <<wtLock, wtTodo, wtWatching, wtRead, wtBatching, wtSent, wtContended,
                       wtRedone, wtRaced, wtUnseen>>
    PROVE  WtInv'
<1>1. PICK g \in WtVersions : g = <<n, wtRead[w][n].v>>
  BY WtMakes
<1>2. /\ wtMade[g] \in Nat /\ wtMade' \in [WtVersions -> Nat]
      /\ wtMade'[g] = IF wtRead[w][n].whole THEN wtMade[g] + 1 ELSE wtMade[g]
      /\ \A h \in WtVersions \ {g} : wtMade'[h] = wtMade[h]
      /\ \A h \in WtVersions : wtMade'[h] \in Nat /\ wtMade'[h] >= wtMade[h]
  BY <1>1, WtMakes
<1> DEFINE f == <<n, wtInbox[n].v>>
<1>3. /\ wtInbox[n].v # 0 /\ wtInbox' = [wtInbox EXCEPT ![n] = WtAbsent]
      /\ wtProcessed' = wtProcessed \cup {f} /\ wtFailed' = wtFailed
  BY DEF WtFile
<1>4. /\ wtInbox'[n] = WtAbsent /\ \A m \in WtNames \ {n} : wtInbox'[m] = wtInbox[m]
  BY <1>3 DEF WtInv, WtTyped, WtFilesTyped
<1>5. WtPuts(n)
  <2>1. {f} \in SUBSET {f}
    OBVIOUS
  <2> QED BY <1>3, <2>1 DEF WtPuts
<1>6. WtFilesTyped' /\ WtSound'
  <2>1. g[1] = n /\ g[2] =< wtSent[n]
    BY <1>1 DEF WtInv, WtSound, WtReadSent
  <2>2. \A h \in WtVersions : wtMade'[h] > 0 => wtMade[h] > 0 \/ h[2] =< wtSent[h[1]]
    BY <1>2, <2>1
  <2> QED BY <1>2, <1>5, <2>2, WtPutsKeeps
<1>7. /\ wtPc'[w] \in {"artifact", "gather"} /\ wtPc' = [wtPc EXCEPT ![w] = wtPc'[w]]
      /\ \A x \in WtWatchers \ {w} :
            wtPc'[x] = wtPc[x] /\ wtBatch'[x] = wtBatch[x] /\ wtAt'[x] = wtAt[x]
      /\ wtPc'[w] = "artifact" => wtBatch'[w] = wtBatch[w] /\ wtAt'[w] = wtAt[w] + 1
      /\ WtWorkTyped' /\ WtPlaced' /\ WtSettledAt(w)' /\ WtCoversAt(w)'
  <2>1. wtPc[w] \in WtBusy
    BY DEF WtBusy
  <2> QED BY <1>5, <2>1, WtMovesOn
<1>8. WtLockTyped' /\ WtLocked'
  <2>1. wtPc[w] \in WtWorking /\ wtPc'[w] \in WtWorking
    BY <1>7 DEF WtWorking
  <2> QED BY <1>7, <2>1, WtWorkingLocked
<1>9. WtTyped'
  <2>1. WtHistoryTyped'
    BY DEF WtInv, WtTyped, WtHistoryTyped
  <2> QED BY <1>6, <1>7, <1>8, <2>1 DEF WtTyped
<1>10. /\ wtAt[w] \in 1..Len(wtBatch[w]) /\ wtAt[w] \in Nat /\ n = wtBatch[w][wtAt[w]]
       /\ \A i \in 1..Len(wtBatch[w]) : wtBatch[w][i] \in WtNames
  <2>1. \A i \in 1..Len(wtBatch[w]) : wtBatch[w][i] \in WtNames
    BY DEF WtInv, WtTyped, WtWorkTyped
  <2> QED BY <2>1, WtCandidate DEF WtInv, WtBusy
<1>11. ~wtContended => \A i \in wtAt[w]..Len(wtBatch[w]) : WtUntouched(w, wtBatch[w][i])
  BY DEF WtInv, WtKept, WtAheadAt
<1>12. ~wtContended => WtUntouched(w, n)
  <2>1. wtAt[w] \in wtAt[w]..Len(wtBatch[w])
    BY <1>10
  <2> QED BY <1>10, <1>11, <2>1
<1>13. WtReadAt(w)'
  <2> SUFFICES ASSUME wtPc'[w] = "artifact", NEW i \in 1..Len(wtBatch[w])
               PROVE  WtAsRead(w, wtBatch[w][i])'
    BY <1>7 DEF WtReadAt, WtAsRead
  <2>1. WtAsRead(w, wtBatch[w][i])
    BY DEF WtInv, WtKept, WtReadAt
  <2>2. \/ wtInbox'[wtBatch[w][i]] = wtInbox[wtBatch[w][i]]
        \/ wtInbox'[wtBatch[w][i]].v = 0
    BY <1>4, <1>10, WtAbsentFile
  <2>3. wtBatch'[w] = wtBatch[w]
    BY <1>7
  <2> QED BY <2>1, <2>2, <2>3 DEF WtAsRead
<1>14. WtRepeatsAt(w)'
  BY <1>7 DEF WtInv, WtKept, WtRepeatsAt, WtRepeated
<1>15. ~wtContended => WtAheadAt(w)'
  <2> SUFFICES ASSUME ~wtContended, wtPc'[w] = "artifact", NEW i \in (wtAt[w] + 1)..Len(wtBatch[w])
               PROVE  WtUntouched(w, wtBatch[w][i])'
    BY <1>7 DEF WtAheadAt, WtUntouched
  <2>1. i \in wtAt[w]..Len(wtBatch[w]) /\ i \in 1..Len(wtBatch[w]) /\ i # wtAt[w]
    BY <1>10
  <2>2. wtBatch'[w] = wtBatch[w]
    BY <1>7
  <2>m. PICK m \in WtNames : m = wtBatch[w][i]
    BY <1>10, <2>1
  <2>3. WtUntouched(w, m)
    BY <1>11, <2>1, <2>m
  <2>4. m = n => WtRepeated(w, m)
    BY <1>10, <2>1, <2>m DEF WtInv, WtKept, WtRepeatsAt
  <2>5. WtUntouched(w, m)'
    <3> SUFFICES ASSUME wtRead[w][m].whole
                 PROVE  /\ <<m, wtRead[w][m].v>> \notin wtFailed
                        /\ <<m, wtRead[w][m].v>> \in wtRedone \/ wtMade'[<<m, wtRead[w][m].v>>] = 0
      BY <1>3 DEF WtUntouched
    <3>1. CASE m = n
      BY <2>3, <2>4, <3>1 DEF WtUntouched, WtRepeated
    <3>2. CASE m # n
      <4>1. wtRead[w][m].v # 0
        BY DEF WtInv, WtSound, WtReadSent
      <4>2. <<m, wtRead[w][m].v>> \in WtVersions
        BY <4>1, WtFileTypes DEF WtInv
      <4>3. <<m, wtRead[w][m].v>> # g
        BY <1>1, <3>2
      <4> QED BY <1>2, <2>3, <4>2, <4>3 DEF WtUntouched
    <3> QED BY <3>1, <3>2
  <2> QED BY <2>2, <2>m, <2>5 DEF WtUntouched
<1>16. \A x \in WtWatchers : WtKept(x)'
  <2>1. WtTextAt(w)'
    BY <1>7 DEF WtTextAt
  <2>2. WtKept(w)'
    BY <1>7, <1>13, <1>14, <1>15, <2>1 DEF WtKept
  <2>3. WtOnly(w)
    BY <1>2, <1>4, <1>7 DEF WtOnly, WtWorking
  <2> QED BY <2>2, <2>3, WtOthers
<1>17. WtLeaves'
  <2> SUFFICES ASSUME ~wtContended, NEW m \in WtNames,
                      wtInbox'[m].v # 0, <<m, wtInbox'[m].v>> \notin wtRedone,
                      wtMade'[<<m, wtInbox'[m].v>>] > 0
               PROVE  FALSE
    BY DEF WtLeaves
  <2>1. m # n /\ wtInbox'[m] = wtInbox[m]
    BY <1>4, WtAbsentFile
  <2>2. <<m, wtInbox[m].v>> \in WtVersions /\ <<m, wtInbox[m].v>> # g
    BY <1>1, <2>1, WtFileTypes DEF WtInv
  <2>3. wtMade[<<m, wtInbox[m].v>>] > 0
    BY <1>2, <2>1, <2>2
  <2>4. PICK x \in WtWatchers : WtFiling(x, m)
    BY <2>1, <2>3 DEF WtInv, WtLeaves
  <2> QED BY <2>4, WtOnlyOne DEF WtFiling, WtWorking
<1>18. TranscribedOnce'
  <2> SUFFICES ASSUME ~wtContended, NEW h \in WtVersions \ wtRedone PROVE wtMade'[h] =< 1
    BY DEF TranscribedOnce
  <2>1. wtMade[h] =< 1
    BY DEF WtInv, TranscribedOnce
  <2>2. CASE h = g /\ wtRead[w][n].whole
    BY <1>1, <1>2, <1>12, <2>2 DEF WtUntouched
  <2> QED BY <1>2, <2>1, <2>2
<1>19. f \notin wtRaced => f = g /\ wtRead[w][n].whole
  <2> SUFFICES ASSUME f \notin wtRaced PROVE f = g /\ wtRead[w][n].whole
    OBVIOUS
  <2>1. WtAsRead(w, n)
    BY <1>10 DEF WtInv, WtKept, WtReadAt
  <2> QED BY <1>1, <1>3, <2>1 DEF WtAsRead
<1>20. FiledAsHandled'
  <2> HIDE DEF f
  <2>1. ASSUME NEW h \in wtProcessed' \ wtRaced PROVE wtMade'[h] > 0
    <3>1. CASE h = f
      BY <1>2, <1>19, <2>1, <3>1
    <3>2. CASE h \in wtProcessed
      <4>1. h \in WtVersions /\ wtMade[h] > 0
        BY <2>1, <3>2 DEF WtInv, FiledAsHandled, WtTyped, WtFilesTyped
      <4>2. wtMade[h] \in Nat /\ wtMade'[h] \in Nat /\ wtMade'[h] >= wtMade[h]
        BY <1>2, <4>1 DEF WtInv, WtTyped, WtFilesTyped
      <4> QED BY <4>1, <4>2
    <3> QED BY <1>3, <2>1, <3>1, <3>2
  <2>2. ASSUME ~wtContended, NEW h \in wtFailed \ (wtRaced \cup wtRedone) PROVE wtMade'[h] = 0
    <3>1. h \in WtVersions /\ wtMade[h] = 0
      BY <2>2 DEF WtInv, FiledAsHandled, WtTyped, WtFilesTyped
    <3>2. ~(h = g /\ wtRead[w][n].whole)
      BY <1>1, <1>12, <2>2 DEF WtUntouched
    <3> QED BY <1>2, <3>1, <3>2
  <2> QED BY <1>3, <2>1, <2>2 DEF FiledAsHandled
<1> QED BY <1>6, <1>8, <1>9, <1>16, <1>17, <1>18, <1>20 DEF WtInv

\* The batch fails: it starts again, in the pipeline, with its first file; a
\* transcript that was made is noted.
LEMMA WtArtifactFails ==
    ASSUME WtInv, NEW w \in WtWatchers, wtPc[w] = "artifact", NEW n \in WtNames,
           \/ /\ wtRead[w][n].v # 0 /\ WtMake(n, wtRead[w][n])
              /\ wtRedone' = wtRedone \cup {<<n, wtRead[w][n].v>>}
           \/ UNCHANGED <<wtMade, wtRedone>>,
           wtPc' = [wtPc EXCEPT ![w] = "pipeline"], wtAt' = [wtAt EXCEPT ![w] = 1],
           UNCHANGED <<wtLock, wtTodo, wtWatching, wtRead, wtBatch, wtBatching, wtInbox, wtSent,
                       wtProcessed, wtFailed, wtContended, wtRaced, wtUnseen>>
    PROVE  WtInv'
<1> DEFINE g == <<n, wtRead[w][n].v>>
<1>1. /\ wtMade' \in [WtVersions -> Nat]
      /\ \A h \in WtVersions : wtMade'[h] \in Nat /\ wtMade'[h] >= wtMade[h]
      /\ wtRedone \subseteq wtRedone' /\ wtRedone' \subseteq WtVersions
      /\ \A h \in WtVersions : wtMade'[h] = wtMade[h] \/ (h = g /\ g \in wtRedone')
  <2>0. wtMade \in [WtVersions -> Nat] /\ wtRedone \subseteq WtVersions
    BY DEF WtInv, WtTyped, WtFilesTyped, WtHistoryTyped
  <2>1. CASE UNCHANGED <<wtMade, wtRedone>>
    <3>1. \A h \in WtVersions : wtMade'[h] \in Nat /\ wtMade'[h] >= wtMade[h]
      BY <2>0, <2>1
    <3> QED BY <2>0, <2>1, <3>1
  <2>2. CASE /\ wtRead[w][n].v # 0 /\ WtMake(n, wtRead[w][n])
             /\ wtRedone' = wtRedone \cup {g}
    <3>1. /\ g \in WtVersions /\ wtMade' \in [WtVersions -> Nat]
          /\ \A h \in WtVersions \ {g} : wtMade'[h] = wtMade[h]
          /\ \A h \in WtVersions : wtMade'[h] \in Nat /\ wtMade'[h] >= wtMade[h]
      BY <2>2, WtMakes
    <3> HIDE DEF g
    <3> QED BY <2>0, <2>2, <3>1
  <2> QED BY <2>1, <2>2
<1>2. g[1] = n /\ g[2] =< wtSent[n]
  BY DEF WtInv, WtSound, WtReadSent
<1> HIDE DEF g
<1>3. /\ wtPc'[w] = "pipeline" /\ wtAt'[w] = 1
      /\ \A x \in WtWatchers \ {w} : wtPc'[x] = wtPc[x] /\ wtAt'[x] = wtAt[x]
  BY DEF WtInv, WtTyped, WtLockTyped, WtWorkTyped
<1>4. WtLockTyped' /\ WtLocked'
  <2>1. wtPc[w] \in WtWorking /\ "pipeline" \in WtWorking
    BY DEF WtWorking
  <2> QED BY <2>1, WtWorkingLocked
<1>5. WtTyped'
  <2>1. WtWorkTyped'
    BY DEF WtInv, WtTyped, WtWorkTyped
  <2>2. WtHistoryTyped' /\ WtFilesTyped'
    BY <1>1 DEF WtInv, WtTyped, WtHistoryTyped, WtFilesTyped
  <2>3. WtPlaced'
    <3>1. Len(wtBatch[w]) \in Nat /\ Len(wtBatch[w]) >= 1
      BY WtCandidate DEF WtInv, WtBusy
    <3> QED BY <1>3, <3>1 DEF WtInv, WtTyped, WtPlaced
  <2> QED BY <1>4, <2>1, <2>2, <2>3 DEF WtTyped
<1>6. WtSound'
  <2>1. WtUnfiled' /\ WtFiledOnce' /\ WtReadSent'
    BY DEF WtInv, WtSound, WtUnfiled, WtFiledOnce, WtReadSent
  <2>2. WtPastSent'
    <3> SUFFICES ASSUME NEW h \in WtVersions, h \in wtProcessed \cup wtFailed \/ wtMade'[h] > 0
                 PROVE  h[2] =< wtSent[h[1]]
      BY DEF WtPastSent
    <3>1. CASE h = g
      BY <1>2, <3>1
    <3>2. CASE wtMade'[h] = wtMade[h]
      BY <3>2 DEF WtInv, WtSound, WtPastSent
    <3> QED BY <1>1, <3>1, <3>2
  <2> QED BY <2>1, <2>2 DEF WtSound
<1>7. \A x \in WtWatchers : WtKept(x)'
  <2>1. WtSettledAt(w)'
    BY DEF WtInv, WtKept, WtSettledAt, WtSettled
  <2>2. WtCoversAt(w)'
    <3> SUFFICES ASSUME NEW m \in WtNames, wtInbox[m].whole PROVE WtCovers(w, m)'
      BY DEF WtCoversAt
    <3>1. WtCovers(w, m)
      BY DEF WtInv, WtKept, WtCoversAt, WtWorking
    <3>2. Len(wtBatch[w]) \in Nat
      BY WtCandidate DEF WtInv, WtBusy
    <3>3. CASE \E i \in 1..Len(wtBatch[w]) : i >= wtAt[w] /\ wtBatch[w][i] = m
      <4>1. PICK i \in 1..Len(wtBatch[w]) : wtBatch[w][i] = m
        BY <3>3
      <4>2. i >= 1
        BY <3>2
      <4> QED BY <1>3, <4>1, <4>2 DEF WtCovers
    <3> QED BY <3>1, <3>3 DEF WtCovers
  <2>3. WtKept(w)'
    BY <1>3, <2>1, <2>2 DEF WtKept, WtReadAt, WtTextAt, WtAheadAt, WtRepeatsAt
  <2>4. WtOnly(w)
    BY <1>1, <1>3 DEF WtOnly, WtWorking
  <2> QED BY <2>3, <2>4, WtOthers
<1>8. WtLeaves'
  <2> SUFFICES ASSUME ~wtContended, NEW m \in WtNames,
                      wtInbox[m].v # 0, <<m, wtInbox[m].v>> \notin wtRedone',
                      wtMade'[<<m, wtInbox[m].v>>] > 0
               PROVE  FALSE
    BY DEF WtLeaves
  <2>1. <<m, wtInbox[m].v>> \in WtVersions
    BY WtFileTypes DEF WtInv
  <2>2. wtMade[<<m, wtInbox[m].v>>] > 0 /\ <<m, wtInbox[m].v>> \notin wtRedone
    BY <1>1, <2>1
  <2>3. PICK x \in WtWatchers : WtFiling(x, m)
    BY <2>2 DEF WtInv, WtLeaves
  <2> QED BY <2>3, WtOnlyOne DEF WtFiling, WtWorking
<1>9. TranscribedOnce'
  <2> SUFFICES ASSUME ~wtContended, NEW h \in WtVersions \ wtRedone' PROVE wtMade'[h] =< 1
    BY DEF TranscribedOnce
  <2>1. wtMade'[h] = wtMade[h]
    BY <1>1
  <2> QED BY <1>1, <2>1 DEF WtInv, TranscribedOnce
<1>10. FiledAsHandled'
  <2>1. ASSUME NEW h \in wtProcessed \ wtRaced PROVE wtMade'[h] > 0
    <3>1. h \in WtVersions /\ wtMade[h] > 0
      BY DEF WtInv, FiledAsHandled, WtTyped, WtFilesTyped
    <3>2. wtMade[h] \in Nat /\ wtMade'[h] \in Nat /\ wtMade'[h] >= wtMade[h]
      BY <1>1, <3>1 DEF WtInv, WtTyped, WtFilesTyped
    <3> QED BY <3>1, <3>2
  <2>2. ASSUME ~wtContended, NEW h \in wtFailed \ (wtRaced \cup wtRedone') PROVE wtMade'[h] = 0
    <3>1. h \in WtVersions /\ h \notin wtRedone
      BY <1>1, <2>2 DEF WtInv, WtTyped, WtFilesTyped
    <3>2. wtMade[h] = 0
      BY <2>2, <3>1 DEF WtInv, FiledAsHandled
    <3> QED BY <1>1, <2>2, <3>1, <3>2
  <2> QED BY <2>1, <2>2 DEF FiledAsHandled
<1> QED BY <1>4, <1>5, <1>6, <1>7, <1>8, <1>9, <1>10 DEF WtInv

\* So an artifact is filed, or the batch fails.
LEMMA WtArtifactStep ==
    ASSUME WtInv, NEW w \in WtWatchers, WtArtifact(w)
    PROVE  WtInv'
<1>p. wtPc[w] = "artifact"
  BY DEF WtArtifact
<1>n. PICK n \in WtNames : n = WtCurrent(w)
  BY <1>p, WtCandidate DEF WtInv, WtBusy
<1>0. UNCHANGED <<wtLock, wtTodo, wtWatching, wtRead, wtBatching, wtSent, wtContended, wtRaced,
                  wtUnseen>>
  BY DEF WtArtifact
<1>1. CASE /\ wtRead[w][n].v # 0 /\ WtMake(n, wtRead[w][n]) /\ WtFile(w, "processed")
           /\ WtNextOr(w, "artifact") /\ UNCHANGED wtRedone
  BY <1>p, <1>n, <1>0, <1>1, WtArtifactFiled
<1>2. CASE /\ \/ /\ wtRead[w][n].v # 0 /\ WtMake(n, wtRead[w][n])
                 /\ wtRedone' = wtRedone \cup {<<n, wtRead[w][n].v>>}
              \/ UNCHANGED <<wtMade, wtRedone>>
           /\ UNCHANGED <<wtInbox, wtProcessed, wtFailed, wtBatch>>
           /\ wtPc' = [wtPc EXCEPT ![w] = "pipeline"]
           /\ wtAt' = [wtAt EXCEPT ![w] = 1]
  BY <1>p, <1>0, <1>2, WtArtifactFails
<1> QED BY <1>n, <1>1, <1>2 DEF WtArtifact

-----------------------------------------------------------------------------
\* An event is one name more to examine.
LEMMA WtNotified ==
    ASSUME WtInv, NEW n \in WtNames, NEW kind \in {"create", "modify"}, WtNotify(n, kind)
    PROVE  /\ wtTodo' \in [WtWatchers -> Seq(WtNames)]
           /\ \A x \in WtWatchers, m \in WtNames :
                 (\E i \in 1..Len(wtTodo[x]) : wtTodo[x][i] = m)
                    => \E i \in 1..Len(wtTodo'[x]) : wtTodo'[x][i] = m
           /\ \A x \in WtWatchers : wtWatching[x] =>
                 \E i \in 1..Len(wtTodo'[x]) : wtTodo'[x][i] = n
<1>1. \A x \in WtWatchers : wtTodo[x] \in Seq(WtNames)
  BY DEF WtInv, WtTyped, WtWorkTyped
<1>2. \A x \in WtWatchers :
          wtTodo'[x] = IF wtWatching[x] THEN Append(wtTodo[x], n) ELSE wtTodo[x]
  BY DEF WtNotify, WtHandles
<1>3. \A x \in WtWatchers : /\ Append(wtTodo[x], n) \in Seq(WtNames)
                            /\ Len(Append(wtTodo[x], n)) = Len(wtTodo[x]) + 1
                            /\ Len(wtTodo[x]) \in Nat
                            /\ Append(wtTodo[x], n)[Len(wtTodo[x]) + 1] = n
                            /\ \A i \in 1..Len(wtTodo[x]) : Append(wtTodo[x], n)[i] = wtTodo[x][i]
  BY <1>1
<1>4. wtTodo' \in [WtWatchers -> Seq(WtNames)]
  <2>1. \A x \in WtWatchers : wtTodo'[x] \in Seq(WtNames)
    BY <1>1, <1>2, <1>3
  <2> QED BY <2>1 DEF WtNotify
<1>5. ASSUME NEW x \in WtWatchers, NEW m \in WtNames,
             \E i \in 1..Len(wtTodo[x]) : wtTodo[x][i] = m
      PROVE  \E i \in 1..Len(wtTodo'[x]) : wtTodo'[x][i] = m
  <2>1. PICK i \in 1..Len(wtTodo[x]) : wtTodo[x][i] = m
    BY <1>5
  <2>2. i \in 1..Len(wtTodo'[x]) /\ wtTodo'[x][i] = m
    <3>1. CASE wtWatching[x]
      <4>1. wtTodo'[x] = Append(wtTodo[x], n)
        BY <1>2, <3>1
      <4>2. i \in 1..Len(Append(wtTodo[x], n)) /\ Append(wtTodo[x], n)[i] = m
        BY <1>1, <2>1
      <4> QED BY <4>1, <4>2
    <3>2. CASE ~wtWatching[x]
      BY <1>2, <2>1, <3>2
    <3> QED BY <3>1, <3>2
  <2> QED BY <2>2
<1>6. ASSUME NEW x \in WtWatchers, wtWatching[x]
      PROVE  \E i \in 1..Len(wtTodo'[x]) : wtTodo'[x][i] = n
  <2>0. wtTodo'[x] = Append(wtTodo[x], n)
    BY <1>2, <1>6
  <2>2. Len(wtTodo[x]) + 1 \in 1..Len(Append(wtTodo[x], n))
    BY <1>1
  <2>1. Len(wtTodo[x]) + 1 \in 1..Len(wtTodo'[x]) /\ wtTodo'[x][Len(wtTodo[x]) + 1] = n
    BY <1>3, <2>0, <2>2
  <2> QED BY <2>1
<1> QED BY <1>4, <1>5, <1>6

\* A new file under a name that a candidate still has is noted.
LEMMA WtSendStep ==
    ASSUME WtInv, NEW n \in WtNames, WtSend(n)
    PROVE  WtInv'
<1> DEFINE f == <<n, wtSent[n] + 1>>
<1>0. /\ wtSent[n] < WtMaxVersion /\ wtSent' = [wtSent EXCEPT ![n] = wtSent[n] + 1]
      /\ wtInbox' = [wtInbox EXCEPT ![n] = [v |-> wtSent[n] + 1, whole |-> FALSE]]
      /\ WtNotify(n, "create")
      /\ wtRaced' = IF WtPendingOf(n) THEN wtRaced \cup {f} ELSE wtRaced
      /\ UNCHANGED <<wtLock, wtPc, wtWatching, wtBatch, wtAt, wtRead, wtBatching, wtMade,
                     wtProcessed, wtFailed, wtContended, wtRedone, wtUnseen>>
  BY DEF WtSend
<1>1. wtSent[n] \in Nat /\ WtMaxVersion \in Nat
  BY WtAssumption, WtFileTypes DEF WtInv
<1>2. /\ wtSent[n] + 1 \in 0..WtMaxVersion /\ f \in WtVersions /\ wtSent[n] + 1 # 0
      /\ f[1] = n /\ f[2] = wtSent[n] + 1
  BY <1>0, <1>1 DEF WtVersions
<1>3. /\ wtInbox'[n].v = wtSent[n] + 1 /\ ~wtInbox'[n].whole /\ wtSent'[n] = wtSent[n] + 1
      /\ \A m \in WtNames \ {n} : wtInbox'[m] = wtInbox[m] /\ wtSent'[m] = wtSent[m]
  BY <1>0 DEF WtInv, WtTyped, WtFilesTyped
<1>4. f \notin wtProcessed \cup wtFailed /\ ~(wtMade[f] > 0)
  BY <1>1, <1>2 DEF WtInv, WtSound, WtPastSent
<1>5. /\ wtTodo' \in [WtWatchers -> Seq(WtNames)]
      /\ \A x \in WtWatchers, m \in WtNames :
            (\E i \in 1..Len(wtTodo[x]) : wtTodo[x][i] = m)
               => \E i \in 1..Len(wtTodo'[x]) : wtTodo'[x][i] = m
  BY <1>0, WtNotified
<1> HIDE DEF f
<1>6. WtTyped'
  <2>1. WtLockTyped' /\ WtPlaced'
    BY <1>0 DEF WtInv, WtTyped, WtLockTyped, WtPlaced
  <2>2. WtWorkTyped'
    BY <1>0, <1>5 DEF WtInv, WtTyped, WtWorkTyped
  <2>3. wtInbox' \in [WtNames -> WtFileSet]
    <3>1. [v |-> wtSent[n] + 1, whole |-> FALSE] \in WtFileSet
      BY <1>2 DEF WtFileSet
    <3> QED BY <1>0, <3>1 DEF WtInv, WtTyped, WtFilesTyped
  <2>4. WtFilesTyped'
    BY <1>0, <1>2, <2>3 DEF WtInv, WtTyped, WtFilesTyped
  <2>5. WtHistoryTyped'
    BY <1>0, <1>2 DEF WtInv, WtTyped, WtHistoryTyped
  <2> QED BY <2>1, <2>2, <2>4, <2>5 DEF WtTyped
<1>7. WtLocked'
  BY <1>0 DEF WtInv, WtLocked, WtOwner, WtAlone, WtNamed, WtActive
<1>8. \A m \in WtNames : wtSent[m] \in Nat /\ wtSent'[m] \in Nat /\ wtSent'[m] >= wtSent[m]
  <2>1. \A m \in WtNames : wtSent[m] \in Nat
    BY WtFileTypes DEF WtInv
  <2> QED BY <1>3, <2>1
<1>9. WtSound'
  <2>1. WtUnfiled'
    <3> SUFFICES ASSUME NEW m \in WtNames
                 PROVE  \/ wtInbox'[m] = WtAbsent
                        \/ /\ wtInbox'[m].v = wtSent'[m] /\ wtInbox'[m].v # 0
                           /\ <<m, wtInbox'[m].v>> \notin wtProcessed \cup wtFailed
      BY <1>0 DEF WtUnfiled
    <3>1. CASE m = n
      BY <1>2, <1>3, <1>4, <3>1 DEF f
    <3>2. CASE m # n
      BY <1>3, <3>2 DEF WtInv, WtSound, WtUnfiled
    <3> QED BY <3>1, <3>2
  <2>2. WtPastSent'
    <3> SUFFICES ASSUME NEW g \in WtVersions, g \in wtProcessed \cup wtFailed \/ wtMade[g] > 0
                 PROVE  g[2] =< wtSent'[g[1]]
      BY <1>0 DEF WtPastSent
    <3>1. g[2] =< wtSent[g[1]] /\ g[1] \in WtNames /\ g[2] \in Nat
      BY <1>1 DEF WtInv, WtSound, WtPastSent, WtVersions
    <3> QED BY <1>8, <3>1
  <2>3. WtReadSent'
    <3>1. \A x \in WtWatchers, m \in WtNames : wtRead[x][m].v \in Nat
      BY WtFileTypes DEF WtInv
    <3> QED BY <1>0, <1>8, <3>1 DEF WtInv, WtSound, WtReadSent
  <2>4. WtFiledOnce'
    BY <1>0 DEF WtInv, WtSound, WtFiledOnce
  <2> QED BY <2>1, <2>2, <2>3, <2>4 DEF WtSound
<1>10. ASSUME NEW x \in WtWatchers, NEW i \in 1..Len(wtBatch[x])
       PROVE  /\ wtBatch[x][i] \in WtNames
              /\ wtBatch[x][i] = n => f \in wtRaced'
  <2>1. wtBatch[x] \in Seq(WtNames)
    BY DEF WtInv, WtTyped, WtWorkTyped
  <2>2. i \in DOMAIN wtBatch[x] /\ wtBatch[x][i] \in WtNames
    BY <2>1
  <2> QED BY <1>0, <2>2 DEF WtPendingOf
<1>11. ASSUME NEW x \in WtWatchers PROVE WtKept(x)'
  <2>0. wtRaced \subseteq wtRaced'
    BY <1>0
  <2>1. WtSettledAt(x)'
    <3> SUFFICES ASSUME NEW i \in 1..Len(wtBatch[x]) PROVE WtSettled(wtBatch[x][i])'
      BY <1>0 DEF WtSettledAt, WtSettled
    <3>1. WtSettled(wtBatch[x][i])
      BY DEF WtInv, WtKept, WtSettledAt
    <3>2. CASE wtBatch[x][i] = n
      BY <1>0, <1>3, <1>10, <3>2 DEF WtSettled, f
    <3>3. CASE wtBatch[x][i] # n
      BY <1>0, <1>3, <1>10, <2>0, <3>1, <3>3 DEF WtSettled
    <3> QED BY <3>2, <3>3
  <2>2. ASSUME NEW i \in 1..Len(wtBatch[x]), WtAsRead(x, wtBatch[x][i])
        PROVE  WtAsRead(x, wtBatch[x][i])'
    <3>1. CASE wtBatch[x][i] = n
      BY <1>0, <1>3, <1>10, <2>0, <2>2, <3>1 DEF WtAsRead, f
    <3>2. CASE wtBatch[x][i] # n
      BY <1>0, <1>3, <1>10, <2>0, <2>2, <3>2 DEF WtAsRead
    <3> QED BY <3>1, <3>2
  <2>3. WtReadAt(x)'
    <3>1. CASE wtPc[x] \in {"reading", "processed", "failed"}
      <4>1. PICK i \in 1..Len(wtBatch[x]) : i = wtAt[x] /\ WtCurrent(x) = wtBatch[x][i]
        BY <3>1, WtCandidate DEF WtInv, WtBusy
      <4>2. WtAsRead(x, wtBatch[x][i])
        BY <3>1, <4>1 DEF WtInv, WtKept, WtReadAt
      <4>3. WtAsRead(x, wtBatch[x][i])'
        BY <2>2, <4>2
      <4>4. WtCurrent(x)' = wtBatch[x][i] /\ wtBatch'[x] = wtBatch[x]
        BY <1>0, <4>1 DEF WtCurrent
      <4> QED BY <1>0, <3>1, <4>3, <4>4 DEF WtReadAt
    <3>2. CASE wtPc[x] = "artifact"
      <4>1. \A i \in 1..Len(wtBatch[x]) : WtAsRead(x, wtBatch[x][i])
        BY <3>2 DEF WtInv, WtKept, WtReadAt
      <4> QED BY <1>0, <2>2, <3>2, <4>1 DEF WtReadAt
    <3>3. CASE wtPc[x] \notin {"reading", "processed", "failed", "artifact"}
      BY <1>0, <3>3 DEF WtReadAt
    <3> QED BY <3>1, <3>2, <3>3
  <2>4. WtTextAt(x)'
    BY <1>0 DEF WtInv, WtKept, WtTextAt, WtHasText, WtCurrent
  <2>5. ~wtContended => WtAheadAt(x)'
    BY <1>0 DEF WtInv, WtKept, WtAheadAt, WtUntouched, WtCurrent
  <2>6. WtRepeatsAt(x)'
    BY <1>0 DEF WtInv, WtKept, WtRepeatsAt, WtRepeated
  <2>7. WtCoversAt(x)'
    <3> SUFFICES ASSUME wtPc[x] \in WtWorking \ {"list"}, NEW m \in WtNames, wtInbox'[m].whole
                 PROVE  WtCovers(x, m)'
      BY <1>0 DEF WtCoversAt
    <3>1. m # n /\ wtInbox'[m] = wtInbox[m]
      BY <1>3
    <3>2. WtCovers(x, m)
      BY <3>1 DEF WtInv, WtKept, WtCoversAt
    <3> QED BY <1>0, <1>5, <3>1, <3>2 DEF WtCovers
  <2> QED BY <1>0, <2>1, <2>3, <2>4, <2>5, <2>6, <2>7 DEF WtKept
<1>12. WtLeaves'
  <2> SUFFICES ASSUME ~wtContended, NEW m \in WtNames,
                      wtInbox'[m].v # 0, <<m, wtInbox'[m].v>> \notin wtRedone,
                      wtMade[<<m, wtInbox'[m].v>>] > 0
               PROVE  \E x \in WtWatchers : WtFiling(x, m)'
    BY <1>0 DEF WtLeaves
  <2>1. m # n
    BY <1>3, <1>4 DEF f
  <2>2. wtInbox'[m] = wtInbox[m]
    BY <1>3, <2>1
  <2>3. PICK x \in WtWatchers : WtFiling(x, m)
    BY <2>2 DEF WtInv, WtLeaves
  <2>4. WtFiling(x, m)'
    BY <1>0, <2>2, <2>3 DEF WtFiling, WtCurrent
  <2> QED BY <2>4
<1>13. TranscribedOnce' /\ FiledAsHandled'
  BY <1>0 DEF WtInv, TranscribedOnce, FiledAsHandled
<1> QED BY <1>6, <1>7, <1>9, <1>11, <1>12, <1>13 DEF WtInv

\* A file becomes whole: those that watch are told, for the others it is noted.
LEMMA WtFinishStep ==
    ASSUME WtInv, NEW n \in WtNames, WtFinish(n)
    PROVE  WtInv'
<1>0. /\ wtInbox[n].v # 0 /\ ~wtInbox[n].whole
      /\ wtInbox' = [wtInbox EXCEPT ![n].whole = TRUE]
      /\ WtNotify(n, "modify")
      /\ wtUnseen' = IF \E w \in WtWatchers : wtPc[w] \in WtWorking \ {"list"} /\ ~wtWatching[w]
                     THEN wtUnseen \cup {<<n, wtInbox[n].v>>} ELSE wtUnseen
      /\ UNCHANGED <<wtLock, wtPc, wtWatching, wtBatch, wtAt, wtRead, wtBatching, wtSent, wtMade,
                     wtProcessed, wtFailed, wtContended, wtRedone, wtRaced>>
  BY DEF WtFinish
<1>1. /\ wtInbox[n] \in WtFileSet /\ <<n, wtInbox[n].v>> \in WtVersions
      /\ wtInbox \in [WtNames -> WtFileSet]
  BY <1>0, WtFileTypes DEF WtInv, WtTyped, WtFilesTyped
<1>2. /\ wtInbox'[n].v = wtInbox[n].v /\ wtInbox'[n].whole /\ wtInbox'[n] \in WtFileSet
      /\ \A m \in WtNames \ {n} : wtInbox'[m] = wtInbox[m]
  BY <1>0, <1>1 DEF WtFileSet
<1>3. \A m \in WtNames : wtInbox'[m].v = wtInbox[m].v
  BY <1>2
<1>5. /\ wtTodo' \in [WtWatchers -> Seq(WtNames)]
      /\ \A x \in WtWatchers, m \in WtNames :
            (\E i \in 1..Len(wtTodo[x]) : wtTodo[x][i] = m)
               => \E i \in 1..Len(wtTodo'[x]) : wtTodo'[x][i] = m
      /\ \A x \in WtWatchers : wtWatching[x] =>
            \E i \in 1..Len(wtTodo'[x]) : wtTodo'[x][i] = n
  BY <1>0, WtNotified
<1>6. WtTyped'
  <2>1. WtLockTyped' /\ WtPlaced'
    BY <1>0 DEF WtInv, WtTyped, WtLockTyped, WtPlaced
  <2>2. WtWorkTyped'
    BY <1>0, <1>5 DEF WtInv, WtTyped, WtWorkTyped
  <2>3. wtInbox' \in [WtNames -> WtFileSet]
    <3>1. \A m \in WtNames : wtInbox'[m] \in WtFileSet
      BY <1>1, <1>2
    <3>2. wtInbox' = [m \in WtNames |-> wtInbox'[m]]
      BY <1>0, <1>1
    <3> QED BY <3>1, <3>2
  <2>4. WtFilesTyped'
    BY <1>0, <2>3 DEF WtInv, WtTyped, WtFilesTyped
  <2>5. WtHistoryTyped'
    BY <1>0, <1>1 DEF WtInv, WtTyped, WtHistoryTyped
  <2> QED BY <2>1, <2>2, <2>4, <2>5 DEF WtTyped
<1>7. WtLocked'
  BY <1>0 DEF WtInv, WtLocked, WtOwner, WtAlone, WtNamed, WtActive
<1>8. WtSound'
  <2>1. WtUnfiled'
    <3> SUFFICES ASSUME NEW m \in WtNames
                 PROVE  \/ wtInbox'[m] = WtAbsent
                        \/ /\ wtInbox'[m].v = wtSent[m] /\ wtInbox'[m].v # 0
                           /\ <<m, wtInbox'[m].v>> \notin wtProcessed \cup wtFailed
      BY <1>0 DEF WtUnfiled
    <3>1. CASE m = n
      BY <1>0, <1>3, <3>1, WtAbsentFile DEF WtInv, WtSound, WtUnfiled
    <3>2. CASE m # n
      BY <1>2, <3>2 DEF WtInv, WtSound, WtUnfiled
    <3> QED BY <3>1, <3>2
  <2> QED BY <1>0, <2>1 DEF WtInv, WtSound, WtPastSent, WtReadSent, WtFiledOnce
<1>9. ASSUME NEW x \in WtWatchers PROVE WtKept(x)'
  <2>0. \A i \in 1..Len(wtBatch[x]) : wtBatch[x][i] \in WtNames
    BY DEF WtInv, WtTyped, WtWorkTyped
  <2>1. WtSettledAt(x)'
    BY <1>0, <1>2, <2>0 DEF WtInv, WtKept, WtSettledAt, WtSettled
  <2>2. ASSUME NEW m \in WtNames, WtAsRead(x, m) PROVE WtAsRead(x, m)'
    BY <1>0, <1>3, <2>2 DEF WtAsRead
  <2>3. WtReadAt(x)'
    <3>1. CASE wtPc[x] \in {"reading", "processed", "failed"}
      <4>n. PICK m \in WtNames : m = WtCurrent(x)
        BY <3>1, WtCandidate DEF WtInv, WtBusy
      <4>1. WtAsRead(x, m)
        BY <3>1, <4>n DEF WtInv, WtKept, WtReadAt
      <4>2. WtAsRead(x, m)'
        BY <2>2, <4>1
      <4>3. WtCurrent(x)' = m
        BY <1>0, <4>n DEF WtCurrent
      <4> QED BY <1>0, <3>1, <4>2, <4>3 DEF WtReadAt
    <3>2. CASE wtPc[x] = "artifact"
      <4> SUFFICES ASSUME NEW i \in 1..Len(wtBatch[x]) PROVE WtAsRead(x, wtBatch[x][i])'
        BY <1>0, <3>2 DEF WtReadAt
      <4>1. WtAsRead(x, wtBatch[x][i])
        BY <3>2 DEF WtInv, WtKept, WtReadAt
      <4> QED BY <1>0, <1>3, <2>0, <4>1 DEF WtAsRead
    <3>3. CASE wtPc[x] \notin {"reading", "processed", "failed", "artifact"}
      BY <1>0, <3>3 DEF WtReadAt
    <3> QED BY <3>1, <3>2, <3>3
  <2>4. WtTextAt(x)'
    BY <1>0 DEF WtInv, WtKept, WtTextAt, WtHasText, WtCurrent
  <2>5. ~wtContended => WtAheadAt(x)'
    BY <1>0 DEF WtInv, WtKept, WtAheadAt, WtUntouched, WtCurrent
  <2>6. WtRepeatsAt(x)'
    BY <1>0 DEF WtInv, WtKept, WtRepeatsAt, WtRepeated
  <2>7. WtCoversAt(x)'
    <3> SUFFICES ASSUME wtPc[x] \in WtWorking \ {"list"}, NEW m \in WtNames, wtInbox'[m].whole
                 PROVE  WtCovers(x, m)'
      BY <1>0 DEF WtCoversAt
    <3>1. CASE m = n
      <4>1. CASE wtWatching[x]
        BY <1>5, <3>1, <4>1 DEF WtCovers
      <4>2. CASE ~wtWatching[x]
        BY <1>0, <1>2, <3>1, <4>2 DEF WtCovers
      <4> QED BY <4>1, <4>2
    <3>2. CASE m # n
      <4>1. wtInbox'[m] = wtInbox[m] /\ wtUnseen \subseteq wtUnseen'
        BY <1>0, <1>2, <3>2
      <4>2. WtCovers(x, m)
        BY <4>1 DEF WtInv, WtKept, WtCoversAt
      <4> QED BY <1>0, <1>5, <4>1, <4>2 DEF WtCovers
    <3> QED BY <3>1, <3>2
  <2> QED BY <1>0, <2>1, <2>3, <2>4, <2>5, <2>6, <2>7 DEF WtKept
<1>10. WtLeaves'
  <2> SUFFICES ASSUME ~wtContended, NEW m \in WtNames,
                      wtInbox[m].v # 0, <<m, wtInbox[m].v>> \notin wtRedone,
                      wtMade[<<m, wtInbox[m].v>>] > 0
               PROVE  \E x \in WtWatchers : WtFiling(x, m)'
    BY <1>0, <1>3 DEF WtLeaves
  <2>1. PICK x \in WtWatchers : WtFiling(x, m)
    BY DEF WtInv, WtLeaves
  <2>2. WtFiling(x, m)'
    BY <1>0, <1>3, <2>1 DEF WtFiling, WtCurrent
  <2> QED BY <2>2
<1>11. TranscribedOnce' /\ FiledAsHandled'
  BY <1>0 DEF WtInv, TranscribedOnce, FiledAsHandled
<1> QED BY <1>6, <1>7, <1>8, <1>9, <1>10, <1>11 DEF WtInv

-----------------------------------------------------------------------------
\* Every step keeps the invariant.
LEMMA WtNextKeeps == WtInv /\ [WatcherNext]_wtVars => WtInv'
<1> SUFFICES ASSUME WtInv, [WatcherNext]_wtVars PROVE WtInv'
  OBVIOUS
<1>1. ASSUME NEW w \in WtWatchers, WtWatcherNext(w) PROVE WtInv'
  <2>1. CASE WtLook(w) \/ WtTake(w)
    BY <2>1, WtLockStep
  <2>2. CASE WtInterrupt(w) \/ WtCrash(w)
    BY <2>2, WtEndStep
  <2>3. CASE WtList(w)
    BY <2>3, WtListStep
  <2>4. CASE WtExamine(w)
    BY <2>4, WtExamineStep
  <2>5. CASE WtGathered(w)
    BY <2>5, WtGatheredStep
  <2>6. CASE WtRegister(w)
    BY <2>6, WtRegisterStep
  <2>7. CASE WtOpen(w)
    BY <2>7, WtOpenStep
  <2>8. CASE WtTranscribe(w)
    BY <2>8, WtFailsStep, WtMakesStep
  <2>9. CASE WtMove(w)
    BY <2>9, WtMoveStep
  <2>10. CASE WtArtifact(w)
    BY <2>10, WtArtifactStep
  <2> QED BY <1>1, <2>1, <2>2, <2>3, <2>4, <2>5, <2>6, <2>7, <2>8, <2>9, <2>10 DEF WtWatcherNext
<1>2. CASE \E n \in WtNames : WtSend(n) \/ WtFinish(n)
  BY <1>2, WtSendStep, WtFinishStep
<1>3. CASE UNCHANGED wtVars
  <2>1. UNCHANGED <<wtLock, wtPc, wtTodo, wtWatching, wtBatch, wtAt, wtRead, wtBatching, wtFiles,
                    wtContended, wtRedone, wtRaced, wtUnseen>>
    BY <1>3 DEF wtVars, wtWork, wtHistory
  <2> USE <2>1
  <2>2. WtTyped' /\ WtSound' /\ TranscribedOnce' /\ FiledAsHandled'
    <3>1. WtLockTyped' /\ WtWorkTyped' /\ WtHistoryTyped' /\ WtPlaced' /\ WtReadSent'
      BY DEF WtInv, WtTyped, WtLockTyped, WtWorkTyped, WtHistoryTyped, WtPlaced, WtSound,
             WtReadSent, wtFiles
    <3> QED BY <3>1, WtFilesKept DEF WtTyped, WtSound
  <2>3. WtLocked'
    BY DEF WtInv, WtLocked, WtOwner, WtAlone, WtNamed, WtActive
  <2>4. ASSUME NEW w \in WtWatchers PROVE WtKept(w)'
    <3>0. UNCHANGED <<wtInbox, wtMade, wtFailed>>
      BY DEF wtFiles
    <3>1. WtSettledAt(w)' /\ WtCoversAt(w)'
      BY <3>0 DEF WtInv, WtKept, WtSettledAt, WtSettled, WtCoversAt, WtCovers
    <3>2. WtReadAt(w)' /\ WtTextAt(w)'
      BY <3>0 DEF WtInv, WtKept, WtReadAt, WtAsRead, WtTextAt, WtHasText, WtCurrent
    <3>3. ~wtContended => WtAheadAt(w)'
      BY <3>0 DEF WtInv, WtKept, WtAheadAt, WtUntouched, WtCurrent
    <3>4. WtRepeatsAt(w)'
      BY <3>0 DEF WtInv, WtKept, WtRepeatsAt, WtRepeated
    <3> QED BY <3>1, <3>2, <3>3, <3>4 DEF WtKept
  <2>5. WtLeaves'
    BY DEF WtInv, WtLeaves, WtFiling, WtCurrent, wtFiles
  <2> QED BY <2>2, <2>3, <2>4, <2>5 DEF WtInv
<1> QED BY <1>1, <1>2, <1>3 DEF WatcherNext

\* The invariant, of every behaviour.
LEMMA WtInvariant == WatcherSpec => []WtInv
BY WtInitOk, WtNextKeeps, PTL DEF WatcherSpec

\* The watcher's state is of its types: it is at one of its candidates, and no file
\* is both in processed/ and in failed/ (watch.rs).
THEOREM WatcherTyping == WatcherSpec => []WatcherTypeOK
<1>1. WtInv => WatcherTypeOK
  <2> SUFFICES ASSUME WtInv PROVE WatcherTypeOK
    OBVIOUS
  <2>1. ASSUME NEW w \in WtWatchers PROVE wtAt[w] \in 0..Len(wtBatch[w])
    <3>1. wtBatch[w] \in Seq(WtNames) /\ wtAt[w] \in Nat /\ wtAt[w] =< Len(wtBatch[w])
      BY DEF WtInv, WtTyped, WtWorkTyped, WtPlaced
    <3> QED BY <3>1
  <2>2. wtProcessed \cap wtFailed = {}
    BY DEF WtInv, WtSound, WtFiledOnce
  <2>3. WtLockTyped /\ WtWorkTyped /\ WtFilesTyped /\ WtHistoryTyped
    BY DEF WtInv, WtTyped
  <2>4. /\ wtRead \in [WtWatchers -> [WtNames -> [v : 0..WtMaxVersion, whole : BOOLEAN]]]
        /\ wtInbox \in [WtNames -> [v : 0..WtMaxVersion, whole : BOOLEAN]]
    BY <2>3 DEF WtWorkTyped, WtFilesTyped, WtFileSet
  <2> QED BY <2>1, <2>2, <2>3, <2>4
          DEF WatcherTypeOK, WtLockTyped, WtWorkTyped, WtFilesTyped, WtHistoryTyped
<1> QED BY <1>1, WtInvariant, PTL

\* One watcher works at a time, each recording is transcribed once and filed as what
\* became of it, and none is left behind, with the exceptions that the parts of
\* FilesHandled name (watch.rs:342-691).
THEOREM Handled == WatcherSpec => []FilesHandled
<1>1. WtInv => FilesHandled
  <2> SUFFICES ASSUME WtInv PROVE FilesHandled
    OBVIOUS
  <2>1. SoleWatcher
    BY WtOnlyOne DEF SoleWatcher
  <2>2. NothingLeftBehind
    <3> SUFFICES ASSUME NEW w \in WtWatchers, wtPc[w] = "gather", wtTodo[w] = <<>>,
                        wtBatch[w] = <<>>, NEW n \in WtNames, wtInbox[n].whole
                 PROVE  <<n, wtInbox[n].v>> \in wtUnseen
      BY DEF NothingLeftBehind
    <3>1. WtCovers(w, n)
      BY DEF WtInv, WtKept, WtCoversAt, WtWorking
    <3>2. 1..Len(wtTodo[w]) = {} /\ 1..Len(wtBatch[w]) = {}
      OBVIOUS
    <3> QED BY <3>1, <3>2 DEF WtCovers
  <2>3. TranscribedOnce /\ FiledAsHandled
    BY DEF WtInv
  <2> QED BY <2>1, <2>2, <2>3 DEF FilesHandled
<1> QED BY <1>1, WtInvariant, PTL

=============================================================================
