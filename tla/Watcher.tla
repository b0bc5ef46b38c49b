------------------------------- MODULE Watcher -------------------------------
(***************************************************************************)
(* The folder watcher of crates/core/src/watch.rs: the lock that is to     *)
(* keep a second watcher out, and the life of an audio file from the inbox *)
(* to processed/ or failed/, while senders write and replace files, and    *)
(* watchers are interrupted or die.                                        *)
(*                                                                         *)
(* A file has a name and, as senders reuse names, a version.  Left out:    *)
(* the filters on names, the sidecar JSON, the routing by duration, and a  *)
(* transfer that pauses for longer than the settle delay.                  *)
(***************************************************************************)
EXTENDS Naturals, Sequences, FiniteSets, SequencesExt

CONSTANTS
    WtWatchers, \* watcher processes
    WtNames,    \* file names
    WtFree,     \* no lock file
    WtTorn,     \* a lock file truncated and not yet written
    WtMaxVersion, \* bound: files sent under one name
    WtBothWork   \* bound: watchers that both got the lock go on to the files

ASSUME WtAssumption ==
    /\ WtFree \notin WtWatchers /\ WtTorn \notin WtWatchers /\ WtFree # WtTorn
    /\ IsFiniteSet(WtNames) /\ WtMaxVersion \in Nat /\ WtBothWork \in BOOLEAN

VARIABLES
    wtLock,      \* watch.lock: whose PID it holds
    wtPc,        \* each watcher's position
    wtTodo,      \* the names it has still to examine: listed, or of events
    wtWatching,  \* notify delivers events to it
    wtBatch,     \* its candidates
    wtAt,        \* the candidate it is at
    wtRead,      \* the files as the pipeline opened them
    wtBatching,  \* it uses the parakeet batch
    wtInbox,     \* the file under each name: its version, and whether it is whole
    wtSent,      \* the versions sent under each name
    wtMade,      \* how many transcripts each version has
    wtProcessed, wtFailed, \* the versions that were moved there
    wtContended, \* a start or an interruption met another watcher's start or lock
    wtRedone,    \* versions whose transcript was not filed, by a crash or a failed
                 \* batch, or that a batch holds twice
    wtRaced,     \* versions sent while a candidate of that name was pending
    wtUnseen     \* versions finished after a watcher's listing, before its events

wtFiles == <<wtInbox, wtSent, wtMade, wtProcessed, wtFailed>>
wtWork == <<wtTodo, wtWatching, wtBatch, wtAt, wtRead>>
wtHistory == <<wtContended, wtRedone, wtRaced, wtUnseen>>
wtVars == <<wtLock, wtPc, wtWork, wtBatching, wtFiles, wtHistory>>

WtVersions == WtNames \X (1..WtMaxVersion)
WtStarting == {"clear", "truncate", "fill"}
WtWorking == {"list", "gather", "pipeline", "processed", "failed", "artifact", "reading"}

WatcherTypeOK ==
    /\ wtLock \in WtWatchers \cup {WtFree, WtTorn}
    /\ wtPc \in [WtWatchers -> {"new", "done"} \cup WtStarting \cup WtWorking]
    /\ wtTodo \in [WtWatchers -> Seq(WtNames)]
    /\ wtWatching \in [WtWatchers -> BOOLEAN]
    /\ wtBatch \in [WtWatchers -> Seq(WtNames)]
    /\ \A w \in WtWatchers : wtAt[w] \in 0..Len(wtBatch[w])
    /\ wtRead \in [WtWatchers -> [WtNames -> [v : 0..WtMaxVersion, whole : BOOLEAN]]]
    /\ wtBatching \in BOOLEAN
    /\ wtInbox \in [WtNames -> [v : 0..WtMaxVersion, whole : BOOLEAN]]
    /\ wtSent \in [WtNames -> 0..WtMaxVersion]
    /\ wtMade \in [WtVersions -> Nat]
    /\ wtProcessed \subseteq WtVersions /\ wtFailed \subseteq WtVersions
    /\ wtProcessed \cap wtFailed = {}
    /\ wtContended \in BOOLEAN
    /\ wtRedone \subseteq WtVersions /\ wtRaced \subseteq WtVersions
    /\ wtUnseen \subseteq WtVersions

WtAbsent == [v |-> 0, whole |-> FALSE]
WtNothing == [n \in WtNames |-> WtAbsent]

WatcherInit ==
    /\ wtLock = WtFree
    /\ wtPc = [w \in WtWatchers |-> "new"]
    /\ wtTodo = [w \in WtWatchers |-> <<>>]
    /\ wtWatching = [w \in WtWatchers |-> FALSE]
    /\ wtBatch = [w \in WtWatchers |-> <<>>]
    /\ wtAt = [w \in WtWatchers |-> 0]
    /\ wtRead = [w \in WtWatchers |-> WtNothing]
    /\ wtBatching \in BOOLEAN
    /\ wtInbox = WtNothing /\ wtSent = [n \in WtNames |-> 0]
    /\ wtMade = [f \in WtVersions |-> 0]
    /\ wtProcessed = {} /\ wtFailed = {}
    /\ wtContended = FALSE /\ wtRedone = {} /\ wtRaced = {} /\ wtUnseen = {}

-----------------------------------------------------------------------------
(* The senders *)

\* The kinds of events that the loop looks at.
WtHandles(kind) == kind \in {"create", "modify"}

\* Those that have events delivered get one for each write.
WtNotify(n, kind) ==
    wtTodo' = [w \in WtWatchers |->
        IF wtWatching[w] /\ WtHandles(kind) THEN Append(wtTodo[w], n) ELSE wtTodo[w]]

WtPendingOf(n) ==
    \E w \in WtWatchers : \E i \in DOMAIN wtBatch[w] : wtBatch[w][i] = n

WtSend(n) ==
    /\ wtSent[n] < WtMaxVersion
    /\ wtSent' = [wtSent EXCEPT ![n] = @ + 1]
    /\ wtInbox' = [wtInbox EXCEPT ![n] = [v |-> wtSent[n] + 1, whole |-> FALSE]]
    /\ WtNotify(n, "create")
    /\ wtRaced' = IF WtPendingOf(n) THEN wtRaced \cup {<<n, wtSent[n] + 1>>} ELSE wtRaced
    /\ UNCHANGED <<wtLock, wtPc, wtWatching, wtBatch, wtAt, wtRead, wtBatching, wtMade,
                   wtProcessed, wtFailed, wtContended, wtRedone, wtUnseen>>

WtFinish(n) ==
    /\ wtInbox[n].v # 0 /\ ~wtInbox[n].whole
    /\ wtInbox' = [wtInbox EXCEPT ![n].whole = TRUE]
    /\ WtNotify(n, "modify")
    /\ wtUnseen' = IF \E w \in WtWatchers : wtPc[w] \in WtWorking \ {"list"} /\ ~wtWatching[w]
                   THEN wtUnseen \cup {<<n, wtInbox[n].v>>} ELSE wtUnseen
    /\ UNCHANGED <<wtLock, wtPc, wtWatching, wtBatch, wtAt, wtRead, wtBatching, wtSent, wtMade,
                   wtProcessed, wtFailed, wtContended, wtRedone, wtRaced>>

-----------------------------------------------------------------------------
(* The lock *)

WtGo(w, from, to) == wtPc[w] = from /\ wtPc' = [wtPc EXCEPT ![w] = to]

WtAlive(w) == wtPc[w] # "done"

\* The file names a process that is alive; a torn file names none.
WtHeld == wtLock \in WtWatchers /\ WtAlive(wtLock)

\* acquire_lock: the look
WtLook(w) ==
    /\ WtGo(w, "new", IF WtHeld THEN "done" ELSE IF wtLock = WtFree THEN "truncate" ELSE "clear")
    /\ wtContended' = (wtContended \/ (~WtHeld /\ \E x \in WtWatchers : wtPc[x] \in WtStarting))
    /\ UNCHANGED <<wtLock, wtWork, wtBatching, wtFiles, wtRedone, wtRaced, wtUnseen>>

\* acquire_lock: a stale file is removed; fs::write truncates and then writes.
WtTake(w) ==
    /\ \/ WtGo(w, "clear", "truncate") /\ wtLock' = WtFree
       \/ WtGo(w, "truncate", "fill") /\ wtLock' = WtTorn
       \/ WtGo(w, "fill", "list") /\ wtLock' = IF wtLock = WtFree THEN WtFree ELSE w
    /\ UNCHANGED <<wtWork, wtBatching, wtFiles, wtHistory>>

\* What a watcher that ends leaves: its transcripts not filed.
WtLeave(w) ==
    /\ wtPc' = [wtPc EXCEPT ![w] = "done"]
    /\ wtTodo' = [wtTodo EXCEPT ![w] = <<>>]
    /\ wtWatching' = [wtWatching EXCEPT ![w] = FALSE]
    /\ wtBatch' = [wtBatch EXCEPT ![w] = <<>>]
    /\ wtAt' = [wtAt EXCEPT ![w] = 0]
    /\ wtRead' = [wtRead EXCEPT ![w] = WtNothing]
    /\ wtRedone' = wtRedone \cup {f \in WtVersions : wtMade[f] > 0 /\ f \notin wtProcessed}
    /\ UNCHANGED <<wtBatching, wtFiles, wtRaced, wtUnseen>>

\* Ctrl-C: the handler, set before the lock is looked at, removes whatever lock
\* there is and exits (cli main.rs:6445).  An error of notify drops the
\* LockGuard, which removes it too.
WtInterrupt(w) ==
    /\ WtAlive(w)
    /\ WtLeave(w)
    /\ wtLock' = WtFree
    /\ wtContended' = (wtContended
         \/ (wtLock # w /\ \E x \in WtWatchers \ {w} : wtPc[x] \in WtStarting \cup WtWorking))

WtCrash(w) == WtAlive(w) /\ wtPc[w] # "new" /\ WtLeave(w) /\ UNCHANGED <<wtLock, wtContended>>

-----------------------------------------------------------------------------
(* Finding candidates *)

\* process_existing_files: read_dir; events are not yet delivered.
WtList(w) ==
    /\ WtBothWork \/ ~wtContended
    /\ WtGo(w, "list", "gather")
    /\ wtTodo' = [wtTodo EXCEPT ![w] = SetToSeq({n \in WtNames : wtInbox[n].v # 0})]
    /\ UNCHANGED <<wtLock, wtWatching, wtBatch, wtAt, wtRead, wtBatching, wtFiles, wtHistory>>

\* Mutant of WtExamine: what is not settled at the first look is taken as well.
WtExamineUnsettled(w) ==
    /\ wtPc[w] = "gather" /\ wtTodo[w] # <<>>
    /\ wtTodo' = [wtTodo EXCEPT ![w] = Tail(@)]
    /\ wtBatch' = [wtBatch EXCEPT ![w] =
         IF wtInbox[Head(wtTodo[w])].v # 0 THEN Append(@, Head(wtTodo[w])) ELSE @]
    /\ UNCHANGED <<wtLock, wtPc, wtWatching, wtAt, wtRead, wtBatching, wtFiles, wtHistory>>

\* build_candidate: a file that is there and has settled.  A name with two
\* events becomes two candidates.
WtExamine(w) ==
    /\ wtPc[w] = "gather" /\ wtTodo[w] # <<>>
    /\ wtTodo' = [wtTodo EXCEPT ![w] = Tail(@)]
    /\ wtBatch' = [wtBatch EXCEPT ![w] =
         IF wtInbox[Head(wtTodo[w])].whole THEN Append(@, Head(wtTodo[w])) ELSE @]
    /\ UNCHANGED <<wtLock, wtPc, wtWatching, wtAt, wtRead, wtBatching, wtFiles, wtHistory>>

WtTwice(w, n) == \E i, j \in DOMAIN wtBatch[w] : i # j /\ wtBatch[w][i] = n /\ wtBatch[w][j] = n

\* Nothing more is listed or queued: process_candidates.  The batch reads all
\* its files first.
WtGathered(w) ==
    /\ wtPc[w] = "gather" /\ wtTodo[w] = <<>> /\ wtBatch[w] # <<>>
    /\ wtPc' = [wtPc EXCEPT ![w] = IF wtBatching /\ Len(wtBatch[w]) > 1 THEN "artifact"
                                   ELSE "pipeline"]
    /\ wtAt' = [wtAt EXCEPT ![w] = 1]
    /\ wtRead' = [wtRead EXCEPT ![w] = wtInbox]
    /\ wtRedone' = wtRedone \cup
         {<<n, wtInbox[n].v>> : n \in {m \in WtNames : wtBatching /\ wtInbox[m].whole /\ WtTwice(w, m)}}
    /\ UNCHANGED <<wtLock, wtTodo, wtWatching, wtBatch, wtBatching, wtFiles, wtContended,
                   wtRaced, wtUnseen>>

\* The existing files are done: events are asked for.
WtRegister(w) ==
    /\ wtPc[w] = "gather" /\ wtTodo[w] = <<>> /\ wtBatch[w] = <<>> /\ ~wtWatching[w]
    /\ wtWatching' = [wtWatching EXCEPT ![w] = TRUE]
    /\ UNCHANGED <<wtLock, wtPc, wtTodo, wtBatch, wtAt, wtRead, wtBatching, wtFiles, wtHistory>>

-----------------------------------------------------------------------------
(* Processing *)

WtCurrent(w) == wtBatch[w][wtAt[w]]

\* To the next candidate, or back to the events.
WtNextOr(w, pc) ==
    IF wtAt[w] < Len(wtBatch[w])
    THEN /\ wtPc' = [wtPc EXCEPT ![w] = pc] /\ wtAt' = [wtAt EXCEPT ![w] = @ + 1]
         /\ UNCHANGED wtBatch
    ELSE /\ wtPc' = [wtPc EXCEPT ![w] = "gather"] /\ wtAt' = [wtAt EXCEPT ![w] = 0]
         /\ wtBatch' = [wtBatch EXCEPT ![w] = <<>>]

\* A transcript of a file that was not whole is of a part of it: not counted.
WtMake(n, file) ==
    wtMade' = IF file.whole THEN [wtMade EXCEPT ![<<n, file.v>>] = @ + 1] ELSE wtMade

\* process_candidate: the pipeline opens the file ...
WtOpen(w) ==
    /\ wtPc[w] = "pipeline"
    /\ wtPc' = [wtPc EXCEPT ![w] = "reading"]
    /\ wtRead' = [wtRead EXCEPT ![w][WtCurrent(w)] = wtInbox[WtCurrent(w)]]
    /\ UNCHANGED <<wtLock, wtTodo, wtWatching, wtBatch, wtAt, wtBatching, wtFiles, wtHistory>>

\* ... and gives a transcript or an error.
WtTranscribe(w) ==
    /\ wtPc[w] = "reading"
    /\ \/ /\ wtRead[w][WtCurrent(w)].v # 0
          /\ WtMake(WtCurrent(w), wtRead[w][WtCurrent(w)])
          /\ wtPc' = [wtPc EXCEPT ![w] = "processed"]
       \/ wtPc' = [wtPc EXCEPT ![w] = "failed"] /\ UNCHANGED wtMade
    /\ UNCHANGED <<wtLock, wtWork, wtBatching, wtInbox, wtSent, wtProcessed, wtFailed, wtHistory>>

\* move_to renames whatever is under the name.
WtFile(w, dir) ==
    LET n == WtCurrent(w)
        f == <<n, wtInbox[n].v>>
    IN /\ wtInbox[n].v # 0
       /\ wtInbox' = [wtInbox EXCEPT ![n] = WtAbsent]
       /\ IF dir = "processed" THEN wtProcessed' = wtProcessed \cup {f} /\ UNCHANGED wtFailed
                               ELSE wtFailed' = wtFailed \cup {f} /\ UNCHANGED wtProcessed

\* A move that finds no file is an error that is logged.
WtMove(w) ==
    /\ wtPc[w] \in {"processed", "failed"}
    /\ \/ WtFile(w, wtPc[w])
       \/ wtInbox[WtCurrent(w)].v = 0 /\ UNCHANGED <<wtInbox, wtProcessed, wtFailed>>
    /\ WtNextOr(w, "pipeline")
    /\ UNCHANGED <<wtLock, wtTodo, wtWatching, wtRead, wtBatching, wtSent, wtMade, wtHistory>>

\* process_parakeet_memo_batch: one artifact after the other, each filed at
\* once; an error sends the whole batch through the pipeline again.
WtArtifact(w) ==
    /\ wtPc[w] = "artifact"
    /\ LET n == WtCurrent(w)
           file == wtRead[w][n]
       IN \/ /\ file.v # 0 /\ WtMake(n, file)
             /\ WtFile(w, "processed")
             /\ WtNextOr(w, "artifact")
             /\ UNCHANGED wtRedone
          \/ /\ \/ file.v # 0 /\ WtMake(n, file) /\ wtRedone' = wtRedone \cup {<<n, file.v>>}
                \/ UNCHANGED <<wtMade, wtRedone>>
             /\ UNCHANGED <<wtInbox, wtProcessed, wtFailed, wtBatch>>
             /\ wtPc' = [wtPc EXCEPT ![w] = "pipeline"]
             /\ wtAt' = [wtAt EXCEPT ![w] = 1]
    /\ UNCHANGED <<wtLock, wtTodo, wtWatching, wtRead, wtBatching, wtSent, wtContended, wtRaced,
                   wtUnseen>>

-----------------------------------------------------------------------------
WtWatcherNext(w) ==
    \/ WtLook(w) \/ WtTake(w) \/ WtInterrupt(w) \/ WtCrash(w)
    \/ WtList(w) \/ WtExamine(w) \/ WtGathered(w) \/ WtRegister(w)
    \/ WtOpen(w) \/ WtTranscribe(w) \/ WtMove(w) \/ WtArtifact(w)

WatcherNext ==
    \/ \E w \in WtWatchers : WtWatcherNext(w)
    \/ \E n \in WtNames : WtSend(n) \/ WtFinish(n)

WatcherSpec == WatcherInit /\ [][WatcherNext]_wtVars

-----------------------------------------------------------------------------
(* Properties *)

\* One watcher works at a time, unless two were starting at once (the lock is
\* looked at, removed, truncated and written: watch.rs:69) or one that did not
\* own the lock was interrupted and removed it.
SoleWatcher ==
    ~wtContended => \A w, x \in WtWatchers :
        wtPc[w] \in WtWorking /\ wtPc[x] \in WtWorking => w = x

\* A recording is transcribed once: however its events are repeated, and also
\* after a restart, unless the transcript could not be filed.
TranscribedOnce ==
    ~wtContended => \A f \in WtVersions \ wtRedone : wtMade[f] =< 1

\* What is in processed/ has been transcribed, and what is in failed/ has not,
\* except a file that took the name of a pending candidate: it is filed with
\* that one, perhaps unread (watch.rs:180 renames by name).
FiledAsHandled ==
    /\ \A f \in wtProcessed \ wtRaced : wtMade[f] > 0
    /\ ~wtContended => \A f \in wtFailed \ (wtRaced \cup wtRedone) : wtMade[f] = 0

\* A watcher that waits has left no recording behind, except one that was
\* finished after its listing and before its events (watch.rs:605-630).
NothingLeftBehind ==
    \A w \in WtWatchers :
        wtWatching[w] /\ wtPc[w] = "gather" /\ wtTodo[w] = <<>> /\ wtBatch[w] = <<>> =>
            \A n \in WtNames : wtInbox[n].whole => <<n, wtInbox[n].v>> \in wtUnseen

\* Every file that is sent is handled by one watcher, once, and filed as what became
\* of it (watch.rs:342-691).
FilesHandled ==
    /\ SoleWatcher
    /\ TranscribedOnce
    /\ FiledAsHandled
    /\ NothingLeftBehind

=============================================================================
