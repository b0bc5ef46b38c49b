----------------------------- MODULE LiveQueue ------------------------------
(***************************************************************************)
(* The live sidecar of a recording (live_transcript.rs, run_sidecar_inner_ *)
(* mpsc) and its bounded queue (bounded_inference.rs): a consumer thread   *)
(* cuts the microphone's audio into utterances and hands them over without *)
(* ever waiting, a worker transcribes them into the live transcript, and   *)
(* counters tell the status file of the backlog.                           *)
(*                                                                         *)
(* Left out: what is said, which engine transcribes it, and the times.     *)
(***************************************************************************)
EXTENDS Integers, Sequences, FiniteSets, SequencesExt

CONSTANTS
    LqCap,       \* SIDECAR_UTTERANCE_QUEUE_CAP
    LqLongest,   \* max_utterance_samples, in chunks of audio
    LqUtterances, \* bound: utterances
    LqCounterSize \* 2^64

ASSUME LqAssumption ==
    /\ LqCap \in Nat \ {0} /\ LqLongest \in Nat \ {0} /\ LqUtterances \in Nat
    /\ LqCounterSize \in Nat /\ LqCounterSize > LqCap + 2

VARIABLES
    lqConsumer, \* listening, joining the worker, or done
    lqUtterance, \* chunks of the utterance in the buffer
    lqSpeaking, \* was_speaking
    lqLast,     \* utterances cut so far
    lqUncounted, \* the last one was sent, and pending not yet increased
    lqQueue,    \* the channel
    lqWorker,   \* waiting, transcribing, counted (done with the engine), ended, or dead
    lqJob,      \* the utterance it has
    lqPending, lqDropped, \* QueueCounters
    lqShown,    \* what the consumer last gave to the status
    lqStop,     \* the recording's stop flag
    lqLineCount, lqLines, lqBroken, \* the writer: lines as <<number, utterance>>
    lqUnheard,  \* utterances without text, or whose engine failed
    lqLate      \* utterances that the worker let go because of the stop

lqBuffer == <<lqUtterance, lqSpeaking>>
lqWriter == <<lqLineCount, lqLines, lqBroken>>
lqHistory == <<lqUnheard, lqLate>>
lqVars == <<lqConsumer, lqBuffer, lqLast, lqUncounted, lqQueue, lqWorker, lqJob, lqPending,
            lqDropped, lqShown, lqStop, lqWriter, lqHistory>>

LqIds == 1..LqUtterances

LiveQueueTypeOK ==
    /\ lqConsumer \in {"listening", "joining", "done"}
    /\ lqUtterance \in 0..LqLongest /\ lqSpeaking \in BOOLEAN
    /\ lqLast \in 0..LqUtterances /\ lqUncounted \in BOOLEAN
    /\ lqQueue \in BoundedSeq(LqIds, LqCap)
    /\ lqWorker \in {"waiting", "transcribing", "counted", "ended", "dead"}
    /\ lqJob \in LqIds \cup {0}
    /\ lqPending \in 0..(LqCounterSize - 1) /\ lqDropped \in 0..LqUtterances
    /\ lqShown \in [pending : 0..(LqCounterSize - 1), dropped : 0..LqUtterances]
    /\ lqStop \in BOOLEAN
    /\ lqLineCount \in 0..LqUtterances /\ lqBroken \in BOOLEAN
    /\ lqLines \in Seq(LqIds \X LqIds)
    /\ lqUnheard \subseteq LqIds /\ lqLate \subseteq LqIds

LiveQueueInit ==
    /\ lqConsumer = "listening" /\ lqUtterance = 0 /\ lqSpeaking = FALSE
    /\ lqLast = 0 /\ lqUncounted = FALSE /\ lqQueue = <<>>
    /\ lqWorker = "waiting" /\ lqJob = 0
    /\ lqPending = 0 /\ lqDropped = 0 /\ lqShown = [pending |-> 0, dropped |-> 0]
    /\ lqStop = FALSE
    /\ lqLineCount = 0 /\ lqLines = <<>> /\ lqBroken = FALSE
    /\ lqUnheard = {} /\ lqLate = {}

LqPlus(counter, n) == (counter + n) % LqCounterSize

-----------------------------------------------------------------------------
(* The consumer *)

LqListens == lqConsumer = "listening" /\ ~lqUncounted

\* try_send_drop_newest, up to the count
LqSend ==
    /\ lqLast' = lqLast + 1
    /\ \/ /\ lqWorker # "dead" /\ Len(lqQueue) < LqCap
          /\ lqQueue' = Append(lqQueue, lqLast') /\ lqUncounted' = TRUE
          /\ UNCHANGED lqDropped
       \/ /\ lqWorker # "dead" /\ Len(lqQueue) = LqCap
          /\ lqDropped' = lqDropped + 1
          /\ UNCHANGED <<lqQueue, lqUncounted>>
       \/ /\ lqWorker = "dead" \* Disconnected
          /\ UNCHANGED <<lqQueue, lqUncounted, lqDropped>>

LqNoSend == UNCHANGED <<lqLast, lqQueue, lqUncounted, lqDropped>>

\* A chunk of speech; what grows too long is cut.
LqSpeech ==
    /\ LqListens /\ lqLast < LqUtterances
    /\ IF lqUtterance + 1 >= LqLongest
       THEN lqUtterance' = 0 /\ lqSpeaking' = FALSE /\ LqSend
       ELSE lqUtterance' = lqUtterance + 1 /\ lqSpeaking' = TRUE /\ LqNoSend
    /\ UNCHANGED <<lqConsumer, lqWorker, lqJob, lqPending, lqShown, lqStop, lqWriter, lqHistory>>

\* A chunk of silence after speech
LqSilence ==
    /\ LqListens /\ lqSpeaking /\ lqUtterance > 0
    /\ lqUtterance' = 0 /\ lqSpeaking' = FALSE
    /\ LqSend
    /\ UNCHANGED <<lqConsumer, lqWorker, lqJob, lqPending, lqShown, lqStop, lqWriter, lqHistory>>

\* pending is increased, after the worker may have taken and finished the item.
LqCount ==
    /\ lqUncounted
    /\ lqUncounted' = FALSE /\ lqPending' = LqPlus(lqPending, 1)
    /\ UNCHANGED <<lqConsumer, lqBuffer, lqLast, lqQueue, lqWorker, lqJob, lqDropped, lqShown,
                   lqStop, lqWriter, lqHistory>>

\* A tick whose try_lock gets the writer tells it of the backlog.
LqHeartbeat ==
    /\ LqListens
    /\ lqShown' = [pending |-> lqPending, dropped |-> lqDropped]
    /\ UNCHANGED <<lqConsumer, lqBuffer, lqLast, lqUncounted, lqQueue, lqWorker, lqJob, lqPending,
                   lqDropped, lqStop, lqWriter, lqHistory>>

\* The stop flag, or the end of the audio: the rest is handed over ...
LqLeave ==
    /\ LqListens
    /\ lqConsumer' = "joining"
    /\ lqUtterance' = 0 /\ UNCHANGED lqSpeaking
    /\ IF lqUtterance > 0 THEN LqSend ELSE LqNoSend
    /\ UNCHANGED <<lqWorker, lqJob, lqPending, lqShown, lqStop, lqWriter, lqHistory>>

LqStops == lqStop /\ LqLeave

\* ... and the worker is waited for.
LqJoin ==
    /\ lqConsumer = "joining" /\ ~lqUncounted /\ lqWorker \in {"ended", "dead"}
    /\ lqConsumer' = "done"
    /\ UNCHANGED <<lqBuffer, lqLast, lqUncounted, lqQueue, lqWorker, lqJob, lqPending, lqDropped,
                   lqShown, lqStop, lqWriter, lqHistory>>

LqStop ==
    /\ ~lqStop /\ lqStop' = TRUE
    /\ UNCHANGED <<lqConsumer, lqBuffer, lqLast, lqUncounted, lqQueue, lqWorker, lqJob, lqPending,
                   lqDropped, lqShown, lqWriter, lqHistory>>

-----------------------------------------------------------------------------
(* The worker *)

\* Mutant of LqTake: what is let go after a stop is not counted down.
LqTakeUncounted ==
    /\ lqWorker = "waiting" /\ lqQueue # <<>>
    /\ lqQueue' = Tail(lqQueue)
    /\ IF lqStop
       THEN lqLate' = lqLate \cup {Head(lqQueue)} /\ UNCHANGED <<lqWorker, lqJob>>
       ELSE lqWorker' = "transcribing" /\ lqJob' = Head(lqQueue) /\ UNCHANGED lqLate
    /\ UNCHANGED <<lqConsumer, lqBuffer, lqLast, lqUncounted, lqPending, lqDropped, lqShown, lqStop,
                   lqWriter, lqUnheard>>

LqTake ==
    /\ lqWorker = "waiting" /\ lqQueue # <<>>
    /\ lqQueue' = Tail(lqQueue)
    /\ IF lqStop
       THEN /\ lqLate' = lqLate \cup {Head(lqQueue)} /\ lqPending' = LqPlus(lqPending, -1)
            /\ UNCHANGED <<lqWorker, lqJob>>
       ELSE /\ lqWorker' = "transcribing" /\ lqJob' = Head(lqQueue)
            /\ UNCHANGED <<lqLate, lqPending>>
    /\ UNCHANGED <<lqConsumer, lqBuffer, lqLast, lqUncounted, lqDropped, lqShown, lqStop, lqWriter,
                   lqUnheard>>

\* The engine is done: with a text, or without.
LqTranscribed ==
    /\ lqWorker = "transcribing"
    /\ lqPending' = LqPlus(lqPending, -1)
    /\ \/ lqWorker' = "counted" /\ UNCHANGED <<lqJob, lqUnheard>>
       \/ lqWorker' = "waiting" /\ lqJob' = 0 /\ lqUnheard' = lqUnheard \cup {lqJob}
    /\ UNCHANGED <<lqConsumer, lqBuffer, lqLast, lqUncounted, lqQueue, lqDropped, lqShown, lqStop,
                   lqWriter, lqLate>>

\* write_utterance: a failed write is the last one.
LqWrite ==
    /\ lqWorker = "counted"
    /\ lqWorker' = "waiting" /\ lqJob' = 0
    /\ \/ lqBroken /\ UNCHANGED lqWriter
       \/ /\ ~lqBroken /\ lqLineCount' = lqLineCount + 1
          /\ \/ lqLines' = Append(lqLines, <<lqLineCount', lqJob>>) /\ UNCHANGED lqBroken
             \/ lqBroken' = TRUE /\ UNCHANGED lqLines
    /\ UNCHANGED <<lqConsumer, lqBuffer, lqLast, lqUncounted, lqQueue, lqPending, lqDropped,
                   lqShown, lqStop, lqHistory>>

\* An engine panics: the receiver goes with the thread.
LqDie ==
    /\ lqWorker = "transcribing"
    /\ lqWorker' = "dead" /\ lqQueue' = <<>>
    /\ UNCHANGED <<lqConsumer, lqBuffer, lqLast, lqUncounted, lqJob, lqPending, lqDropped, lqShown,
                   lqStop, lqWriter, lqHistory>>

\* The consumer has dropped its end of the channel.
LqWorkerEnds ==
    /\ lqWorker = "waiting" /\ lqQueue = <<>> /\ lqConsumer = "joining" /\ ~lqUncounted
    /\ lqWorker' = "ended"
    /\ UNCHANGED <<lqConsumer, lqBuffer, lqLast, lqUncounted, lqQueue, lqJob, lqPending, lqDropped,
                   lqShown, lqStop, lqWriter, lqHistory>>

-----------------------------------------------------------------------------
LqConsumerNext == LqCount \/ LqStops \/ LqJoin
LqWorkerNext == LqTake \/ LqTranscribed \/ LqWrite \/ LqWorkerEnds

LiveQueueNext ==
    \/ LqSpeech \/ LqSilence \/ LqHeartbeat \/ LqLeave \/ LqStop
    \/ LqConsumerNext \/ LqWorkerNext \/ LqDie

\* Both threads run on, and an engine's call ends.
LiveQueueFairness == WF_lqVars(LqConsumerNext) /\ WF_lqVars(LqWorkerNext)

LiveQueueSpec == LiveQueueInit /\ [][LiveQueueNext]_lqVars /\ LiveQueueFairness

-----------------------------------------------------------------------------
(* Properties *)

\* The backlog that the status shows never exceeds the queue and the utterance
\* in work, though pending falls below zero for a moment when the worker is
\* faster than the count (bounded_inference.rs:33): the consumer, which counts, is
\* the only one that reads it.
BacklogTold == lqShown.pending =< LqCap + 1

\* While the worker lives, the counter is the queue and the utterance in work,
\* up to the one that was sent and not counted yet.
PendingExact ==
    lqWorker # "dead" =>
        LqPlus(lqPending, IF lqUncounted THEN 1 ELSE 0) =
            Len(lqQueue) + (IF lqWorker = "transcribing" THEN 1 ELSE 0)

LqHeard == {lqLines[k][2] : k \in 1..Len(lqLines)}

\* What is missing from the live transcript was counted as dropped, held no
\* text, or came after the stop, until a write or the worker fails.
DropsTold ==
    ~lqBroken /\ lqWorker # "dead" =>
        lqDropped = Cardinality((1..lqLast) \ (LqHeard \cup ToSet(lqQueue) \cup {lqJob}
                                                  \cup lqUnheard \cup lqLate))

\* The lines are numbered without a gap, and in the order of what was said.
LinesInOrder ==
    \A k \in 1..Len(lqLines) :
        /\ lqLines[k][1] = k
        /\ k > 1 => lqLines[k - 1][2] < lqLines[k][2]

\* What the live sidecar says of itself is true: its backlog, its losses and the
\* order of its lines (live_transcript.rs:2404, bounded_inference.rs:26).
BacklogHonest ==
    /\ BacklogTold
    /\ PendingExact
    /\ DropsTold
    /\ LinesInOrder

\* Once told to stop, the sidecar ends.
LqStopWaits == lqStop /\ lqConsumer # "done"

=============================================================================
