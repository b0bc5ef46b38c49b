------------------------------ MODULE EventLog ------------------------------
(***************************************************************************)
(* The event log of crates/core/src/events.rs: events.jsonl, the parts it   *)
(* was rotated into, and the sidecar events.seq that remembers the highest *)
(* sequence number.  Appends hold the flock of events.lock; readers take   *)
(* no lock and remember a cursor, the highest number they have read.       *)
(*                                                                         *)
(* A line is its sequence number.  A line that cannot be parsed is skipped *)
(* by every reader, so it is not kept.  Within one file the numbers grow,  *)
(* so the last line that can be read is the highest number.                *)
(***************************************************************************)
EXTENDS Naturals, Sequences, FiniteSets, FiniteSetsExt

CONSTANTS
    EvWriters,   \* processes that append
    EvReaders,   \* processes that follow the log by a cursor
    EvNobody,    \* the lock is free
    EvRotateAt,  \* lines after which the active file is rotated (10 MB in the code)
    EvMaxSeq,    \* bound: no append begins once this number is used
    EvMaxFaults  \* bound: appends in a row that do not update the sidecar

ASSUME EvAssumption ==
    /\ EvNobody \notin EvWriters
    /\ EvRotateAt \in Nat \ {0}
    /\ EvMaxSeq \in Nat
    /\ EvMaxFaults \in Nat

VARIABLES
    evRotated,   \* the rotated parts, oldest first: the numbers in each
    evPresent,   \* events.jsonl exists
    evActive,    \* the numbers in events.jsonl
    evEnds,      \* how events.jsonl ends: after a newline, in a complete line without
                 \* one ("bare"), or inside a line ("torn")
    evLegacy,    \* lines from before events were numbered; readers count them
    evSidecar,   \* events.seq, 0 when there is none
    evLock,      \* who holds events.lock
    evPc,        \* evPc[w]: what writer w does next
    evSeq,       \* evSeq[w]: the number given to w's event
    evStreak,    \* appends in a row that did not update the sidecar; two are remembered
    evTorn,      \* appends that died with their line unfinished
    evAcked,     \* numbers whose append returned Ok
    evList,      \* evList[r]: the reader's listing of the directory, or idle
    evCursor,    \* evCursor[r]: the reader's cursor
    evStart,     \* evStart[r]: the cursor it began with
    evSeen,      \* evSeen[r]: the numbers delivered to it
    evStraddled  \* evStraddled[r]: a rotation fell inside one of its reads

evLogVars == <<evRotated, evPresent, evActive, evEnds, evLegacy, evSidecar>>
evWriterVars == <<evLock, evPc, evSeq, evStreak, evTorn, evAcked>>
evReaderVars == <<evList, evCursor, evStart, evSeen, evStraddled>>
evVars == <<evLogVars, evWriterVars, evReaderVars>>

EvIdle == [busy |-> FALSE, parts |-> 0, active |-> FALSE]
EvMaxOf(S) == Max(S \cup {0})

EvParts(n) == UNION {evRotated[i] : i \in 1..n}
EvReadable == EvParts(Len(evRotated)) \cup evActive

EventLogTypeOK ==
    /\ evRotated \in Seq(SUBSET Nat)
    /\ evPresent \in BOOLEAN
    /\ evActive \in SUBSET Nat
    /\ evEnds \in {"newline", "bare", "torn"}
    /\ evLegacy \in Nat
    /\ evSidecar \in Nat
    /\ evLock \in EvWriters \cup {EvNobody}
    /\ evPc \in [EvWriters -> {"idle", "assigned", "ready", "line", "newline"}]
    /\ evSeq \in [EvWriters -> Nat]
    /\ \A w \in EvWriters : evLock = w <=> evPc[w] # "idle"
    /\ evStreak \in Nat
    /\ evTorn \in Nat
    /\ evAcked \in SUBSET Nat
    /\ evList \in [EvReaders -> [busy : BOOLEAN, parts : Nat, active : BOOLEAN]]
    /\ evCursor \in [EvReaders -> Nat]
    /\ evStart \in [EvReaders -> Nat]
    /\ evSeen \in [EvReaders -> SUBSET Nat]
    /\ evStraddled \in [EvReaders -> BOOLEAN]

-----------------------------------------------------------------------------
(* Sequence numbers *)

\* latest_event_seq_from_active_log_tail_inner: the last line with a number.
EvTail == EvMaxOf(evActive)

\* latest_event_seq_from_logs_inner: every file is read; unnumbered lines,
\* which come first, are numbered by their position.
EvScan == EvMaxOf(EvReadable \cup {evLegacy})

\* Mutant of EvLatest: the sidecar is believed whatever the log says.
EvLatestOfSidecar == IF evSidecar # 0 THEN evSidecar ELSE EvScan

\* latest_event_seq_inner
EvLatest == IF evSidecar # 0 THEN EvMaxOf({evSidecar, EvTail}) ELSE EvScan

EventLogInit ==
    /\ evRotated = <<>>
    /\ evActive = {}
    /\ evEnds = "newline"
    /\ evLegacy \in 0..1
    /\ evPresent = (evLegacy # 0)
    /\ evSidecar = 0
    /\ evLock = EvNobody
    /\ evPc = [w \in EvWriters |-> "idle"]
    /\ evSeq = [w \in EvWriters |-> 0]
    /\ evStreak = 0
    /\ evTorn = 0
    /\ evAcked = {}
    /\ evList = [r \in EvReaders |-> EvIdle]
    /\ evCursor = [r \in EvReaders |-> 0]
    /\ evStart = [r \in EvReaders |-> 0]
    /\ evSeen = [r \in EvReaders |-> {}]
    /\ evStraddled = [r \in EvReaders |-> FALSE]

EvGo(w, from, to) == evPc[w] = from /\ evPc' = [evPc EXCEPT ![w] = to]

-----------------------------------------------------------------------------
(* append_event_inner *)

\* Take events.lock and number the event.
EvBegin(w) ==
    /\ evLock = EvNobody
    /\ EvLatest < EvMaxSeq
    /\ EvGo(w, "idle", "assigned")
    /\ evLock' = w
    /\ evSeq' = [evSeq EXCEPT ![w] = EvLatest + 1]
    /\ UNCHANGED <<evLogVars, evStreak, evTorn, evAcked, evReaderVars>>

\* rotate_if_needed
EvRotate(w) ==
    /\ EvGo(w, "assigned", "ready")
    /\ IF evPresent /\ Cardinality(evActive) >= EvRotateAt
       THEN /\ evRotated' = Append(evRotated, evActive)
            /\ evActive' = {}
            /\ evPresent' = FALSE
            /\ evEnds' = "newline"
       ELSE UNCHANGED <<evRotated, evActive, evPresent, evEnds>>
    /\ UNCHANGED <<evLegacy, evSidecar, evLock, evSeq, evStreak, evTorn, evAcked,
                   evReaderVars>>

\* What is left readable once more bytes follow the end of the file: a
\* complete line without its newline becomes part of a line that is not JSON.
EvGlue == IF evEnds = "bare" THEN evActive \ {EvTail} ELSE evActive

\* writeln! writes the line and then its newline, in two calls.
EvWriteLine(w) ==
    /\ EvGo(w, "ready", "line")
    /\ evPresent' = TRUE
    /\ IF evEnds = "newline"
       THEN evActive' = evActive \cup {evSeq[w]} /\ evEnds' = "bare"
       ELSE evActive' = EvGlue /\ evEnds' = "torn"
    /\ UNCHANGED <<evRotated, evLegacy, evSidecar, evLock, evSeq, evStreak, evTorn,
                   evAcked, evReaderVars>>

EvWriteNewline(w) ==
    /\ EvGo(w, "line", "newline")
    /\ evEnds' = "newline"
    /\ UNCHANGED <<evRotated, evPresent, evActive, evLegacy, evSidecar, evLock, evSeq,
                   evStreak, evTorn, evAcked, evReaderVars>>

EvRelease(w) ==
    /\ evLock' = EvNobody
    /\ evSeq' = [evSeq EXCEPT ![w] = 0]

\* write_event_seq_sidecar_at_least_inner; the append returns Ok
EvUpdateSidecar(w) ==
    /\ EvGo(w, "newline", "idle")
    /\ evSidecar' = EvMaxOf({evSeq[w], evSidecar, EvTail})
    /\ evAcked' = evAcked \cup {evSeq[w]}
    /\ evStreak' = IF evStreak < 2 THEN 0 ELSE evStreak
    /\ EvRelease(w)
    /\ UNCHANGED <<evRotated, evPresent, evActive, evEnds, evLegacy, evTorn, evReaderVars>>

\* The sidecar cannot be written: a warning, and the append returns Ok.
EvSidecarFails(w) ==
    /\ evStreak < EvMaxFaults
    /\ EvGo(w, "newline", "idle")
    /\ evAcked' = evAcked \cup {evSeq[w]}
    /\ evStreak' = evStreak + 1
    /\ EvRelease(w)
    /\ UNCHANGED <<evLogVars, evTorn, evReaderVars>>

\* An error, or the writer's death, before the sidecar is written: the lock is
\* released and nobody is told Ok.
EvAbandon(w) ==
    /\ evStreak < EvMaxFaults
    /\ evPc[w] # "idle"
    /\ evPc' = [evPc EXCEPT ![w] = "idle"]
    /\ evStreak' = evStreak + 1
    /\ evTorn' = evTorn + (IF evPc[w] = "line" THEN 1 ELSE 0)
    /\ EvRelease(w)
    /\ UNCHANGED <<evLogVars, evAcked, evReaderVars>>

\* The same in the middle of the line: a full disk, or death in write_all.
EvTear(w) ==
    /\ evStreak < EvMaxFaults
    /\ EvGo(w, "ready", "idle")
    /\ evPresent' = TRUE
    /\ evActive' = EvGlue
    /\ evEnds' = "torn"
    /\ evStreak' = evStreak + 1
    /\ evTorn' = evTorn + 1
    /\ EvRelease(w)
    /\ UNCHANGED <<evRotated, evLegacy, evSidecar, evAcked, evReaderVars>>

-----------------------------------------------------------------------------
(* Following the log: cmd_events_follow, the copilot's loop, the relay, MCP *)

\* A follower starts from the latest number.
EvFollow(r) ==
    /\ evList[r] = EvIdle /\ evSeen[r] = {} /\ evCursor[r] = 0 /\ EvLatest # 0
    /\ evCursor' = [evCursor EXCEPT ![r] = EvLatest]
    /\ evStart' = [evStart EXCEPT ![r] = EvLatest]
    /\ UNCHANGED <<evLogVars, evWriterVars, evList, evSeen, evStraddled>>

\* event_log_paths.  The rotated parts never change again, so what matters of
\* reading them is which were listed.
EvListPaths(r) ==
    /\ ~evList[r].busy
    /\ evList' = [evList EXCEPT ![r] =
                    [busy |-> TRUE, parts |-> Len(evRotated), active |-> evPresent]]
    /\ UNCHANGED <<evLogVars, evWriterVars, evCursor, evStart, evSeen, evStraddled>>

\* read_all_event_envelopes_inner opens events.jsonl, if it was listed, last:
\* whatever file has that name by then.
EvFound(r) ==
    (1..evLegacy) \cup EvParts(evList[r].parts)
                  \cup (IF evList[r].active THEN evActive ELSE {})

\* read_events_since_seq_inner: the events after the cursor, the first ones if
\* there is a limit; all clients move their cursor to the highest of them.
EvPage(r, limit) ==
    {n \in EvFound(r) :
        /\ n > evCursor[r]
        /\ Cardinality({m \in EvFound(r) : m > evCursor[r] /\ m < n}) < limit}

EvRead(r) ==
    /\ evList[r].busy
    /\ evList[r].active => evPresent
    /\ \E limit \in {1, EvMaxSeq + 1} :
        /\ evCursor' = [evCursor EXCEPT ![r] = EvMaxOf(EvPage(r, limit) \cup {@})]
        /\ evSeen' = [evSeen EXCEPT ![r] = @ \cup EvPage(r, limit)]
    /\ evStraddled' = [evStraddled EXCEPT ![r] =
                          @ \/ (evList[r].active /\ evList[r].parts # Len(evRotated))]
    /\ evList' = [evList EXCEPT ![r] = EvIdle]
    /\ UNCHANGED <<evLogVars, evWriterVars, evStart>>

\* events.jsonl was rotated away after it was listed: the read is an error,
\* which read_events_since_seq turns into no events.
EvReadFails(r) ==
    /\ evList[r].busy /\ evList[r].active /\ ~evPresent
    /\ evList' = [evList EXCEPT ![r] = EvIdle]
    /\ UNCHANGED <<evLogVars, evWriterVars, evCursor, evStart, evSeen, evStraddled>>

-----------------------------------------------------------------------------
EvWriterNext ==
    \E w \in EvWriters :
        \/ EvBegin(w) \/ EvRotate(w) \/ EvWriteLine(w) \/ EvWriteNewline(w)
        \/ EvUpdateSidecar(w) \/ EvSidecarFails(w) \/ EvAbandon(w) \/ EvTear(w)

EvReaderNext ==
    \E r \in EvReaders :
        EvFollow(r) \/ EvListPaths(r) \/ EvRead(r) \/ EvReadFails(r)

EventLogNext == EvWriterNext \/ EvReaderNext

EventLogSpec == EventLogInit /\ [][EventLogNext]_evVars

-----------------------------------------------------------------------------
(* Properties *)

\* A sequence number is used once (events.rs:754 takes it from the sidecar and
\* the active file only).  Until two appends in a row fail to update the
\* sidecar, the number given to an event is above that of every line there is.
FreshSeq ==
    \A w \in EvWriters :
        evPc[w] \in {"assigned", "ready"} /\ evStreak < 2 =>
            \A n \in EvReadable : n < evSeq[w]

\* append_event_strict exists so that its caller knows that the event is in the
\* log.  An append that dies inside its line makes the next one unreadable,
\* although that one returns Ok; each such death costs at most one event.
AckedReadable == Cardinality(evAcked \ EvReadable) =< evTorn

\* A follower is given every event below its cursor, whatever the appends and
\* their failures, unless a rotation fell between its listing of the directory
\* and its opening of events.jsonl.
FollowerMissesNothing ==
    \A r \in EvReaders :
        ~evStraddled[r] =>
            \A n \in evAcked \cap EvReadable :
                evStart[r] < n /\ n =< evCursor[r] => n \in evSeen[r]

\* The log is a log: its numbers are fresh, what was acknowledged is in it, and
\* who follows it by number gets all of it (events.rs:435-938).
EventLogKept ==
    /\ FreshSeq
    /\ AckedReadable
    /\ FollowerMissesNothing

=============================================================================
