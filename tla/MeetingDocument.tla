-------------------------- MODULE MeetingDocument ---------------------------
(***************************************************************************)
(* The Markdown documents of meetings and everybody who writes them:       *)
(* crates/core/src/markdown.rs, the pipeline that creates a document,      *)
(* enriches it and gives it a better title, `minutes note --meeting`,      *)
(* `minutes resummarize`, the update of the speaker map, and the app's     *)
(* rename and text editor.                                                 *)
(*                                                                         *)
(* A document holds its transcript, and the edits that were made to it; an *)
(* edit is known by its writer.  A write of a file is two steps, opening   *)
(* (which truncates) and filling; the file systems' renames are atomic.    *)
(* Files are inodes, so that a writer keeps its file when the name moves.  *)
(***************************************************************************)
EXTENDS Naturals, FiniteSets, Functions

CONSTANTS
    MdJobs, MdBackground,   \* pipelines, and those that enrich what they have written
    MdApp, MdCli,           \* editors: commands of the app, and of the command line
    MdKeep,                 \* the backups of a document that are kept: three
    MdCopies, MdInodes, MdSeconds, MdThere, \* bounds: names of one slug, files at one
                            \* time, time, writers that are there
    MdNone

ASSUME MdAssumption ==
    /\ MdBackground \subseteq MdJobs
    /\ MdJobs \cap (MdApp \cup MdCli) = {} /\ MdApp \cap MdCli = {}
    /\ MdNone \notin MdJobs \cup MdApp \cup MdCli
    /\ MdJobs # {} /\ MdThere \subseteq SUBSET (MdJobs \cup MdApp \cup MdCli)
    /\ IsFiniteSet(MdApp \cup MdCli)
    /\ MdCopies \in Nat \ {0} /\ MdInodes \in Nat \ {0}
    /\ MdKeep \in Nat \ {0} /\ MdSeconds \in Nat \ {0}

VARIABLES
    mdDoc,     \* the documents' names that are there, and the inode of each
    mdTmp,     \* the staging files that are there: one for each kind of writer and document
    mdInode,   \* what is in each file that has a name or is open
    mdAt,      \* where each writer is that is there
    mdDone,    \* the editors that were told that their edit is made
    mdMet,     \* who was at a document at the same time as another writer
    mdClash,   \* and what such writers did that the code does not keep apart
    mdTried,   \* the jobs that were tried again
    mdCrashed, \* writers that died where it matters, and where
    mdBackup,  \* the copies that `resummarize` made and kept, by document and second
    mdSecond   \* the clock

mdFiles == <<mdDoc, mdTmp, mdInode>>
mdBackups == <<mdBackup, mdSecond>>
mdHistory == <<mdTried, mdCrashed>>
mdVars == <<mdFiles, mdBackups, mdHistory, mdAt, mdDone, mdMet, mdClash>>

MdEditors == MdApp \cup MdCli
MdWriters == MdJobs \cup MdEditors
MdKinds(w) ==
    {"resummarize"} \cup IF w \in MdApp THEN {"rename", "save"} ELSE {"update", "annotate"}
\* The slug of the titles that jobs choose first, and of the titles that renames choose.
MdDoings ==
    {"create", "transcript", "enrich", "rename", "save", "update", "annotate", "resummarize"}
MdPaths == {"first", "renamed"} \X (1..MdCopies)
MdStaging == {"rename", "update", "save", "rewrite"} \X MdPaths
MdContent ==
    [of : MdJobs \cup {MdNone}, part : {"none", "transcript", "full"}, has : SUBSET MdWriters]
MdTorn == [of |-> MdNone, part |-> "none", has |-> {}]
MdNowhere == <<"first", 1>>

MdInProgress == {"resolved", "made", "filled", "enriching", "titling", "read", "opened", "written",
                 "staged", "backup", "copied", "window", "prune", "cut", "moved", "target",
                 "titled"}

\* A document that is not whole, or whose name the job's record has not.
MdLeft == {"made", "cut", "filled", "titled"}

\* Files that have a name or that somebody has open.
MdInUse == (Range(mdDoc) \cup Range(mdTmp) \cup {mdAt[w].fd : w \in DOMAIN mdAt}) \ {0}

\* Types, and that a file has one name: what a rename moves is nowhere else.
MeetingDocumentTypeOK ==
    /\ DOMAIN mdDoc \subseteq MdPaths /\ DOMAIN mdTmp \subseteq MdStaging
    /\ \A p \in DOMAIN mdDoc : mdDoc[p] \in 1..MdInodes
    /\ \A t \in DOMAIN mdTmp : mdTmp[t] \in 1..MdInodes \ Range(mdDoc)
    /\ IsInjective(mdDoc)
    /\ DOMAIN mdInode = MdInUse /\ Range(mdInode) \subseteq MdContent
    /\ DOMAIN mdAt \subseteq MdWriters
    /\ Range(mdAt) \subseteq
           [pc : {"idle", "failed", "done", "refused", "crashed"} \cup MdInProgress,
            kind : MdDoings, path : MdPaths, target : MdPaths, read : MdContent,
            fd : 0..MdInodes, second : 0..MdSeconds]
    /\ mdDone \subseteq MdEditors /\ mdMet \subseteq MdWriters
    /\ mdClash \subseteq {"renamed", "alike", "cut"}
    /\ mdTried \subseteq MdJobs /\ mdCrashed \subseteq MdWriters \X MdLeft
    /\ DOMAIN mdBackup \subseteq MdPaths \X (0..MdSeconds) /\ Range(mdBackup) \subseteq MdContent
    /\ mdSecond \in 0..MdSeconds

\* Some writers are there; if they are editors, so is the document of a pipeline
\* that is done, which was summarized again.
MeetingDocumentInit ==
    \E there \in MdThere :
        LET earlier == IF there # {} /\ there \subseteq MdEditors
                       THEN {CHOOSE j \in MdJobs : TRUE} ELSE {}
            written == [j \in earlier |-> [of |-> j, part |-> "full", has |-> {}]] IN
        /\ mdDoc = [p \in {MdNowhere : j \in earlier} |-> 1]
        /\ mdTmp = [t \in {} |-> 0]
        /\ mdInode = [i \in {1 : j \in earlier} |-> CHOOSE c \in Range(written) : TRUE]
        /\ mdAt = [w \in there \cup earlier |->
              [pc |-> IF w \in there THEN "idle" ELSE "done",
               kind |-> IF w \in MdJobs THEN "create" ELSE "rename",
               path |-> MdNowhere, target |-> MdNowhere, read |-> MdTorn, fd |-> 0, second |-> 0]]
        /\ mdDone = {} /\ mdMet = {} /\ mdClash = {} /\ mdTried = {} /\ mdCrashed = {}
        /\ mdBackup = [n \in {<<MdNowhere, 0>> : j \in earlier} |-> mdInode[1]]
        /\ mdSecond = 0

-----------------------------------------------------------------------------
(* Files *)

MdExists(p) == p \in DOMAIN mdDoc
MdContentAt(p) == mdInode[mdDoc[p]]

\* The next file to be made.
MdFreshInode(i) == i \notin DOMAIN mdInode /\ 1..(i - 1) \subseteq DOMAIN mdInode

\* A name is given to a file, whether or not it was another's.
MdNamed(names, p, i) == [q \in DOMAIN names \cup {p} |-> IF q = p THEN i ELSE names[q]]

\* resolve_collision: the first of the slug's names that is free.
MdResolves(slug, p) ==
    /\ p \in {slug} \X (1..MdCopies) /\ ~MdExists(p)
    /\ \A k \in 1..(p[2] - 1) : MdExists(<<slug, k>>)

MdStages(w) == IF mdAt[w].kind \in {"transcript", "enrich"} THEN "rewrite" ELSE mdAt[w].kind
MdTmpOf(w) == <<MdStages(w), mdAt[w].path>>

MdWithout(t) == Restrict(mdTmp, DOMAIN mdTmp \ {t})

\* What a writer writes: the pipeline what it holds, the others what they read
\* and their edit.
MdNew(w) ==
    IF mdAt[w].kind \in {"create", "transcript", "enrich"}
    THEN [of |-> w, has |-> {},
          part |-> IF mdAt[w].kind = "enrich" \/ w \notin MdBackground
                   THEN "full" ELSE "transcript"]
    ELSE [mdAt[w].read EXCEPT !.has = @ \cup {w}]

\* Who is done keeps nothing but the name of its backup.
MdGo(w, pc) ==
    LET over == pc \in {"done", "refused", "crashed"} IN
    mdAt' = [mdAt EXCEPT ![w].pc = pc, ![w].fd = 0, ![w].target = MdNowhere,
        ![w].read = IF over THEN MdTorn ELSE @,
        ![w].path = IF over /\ mdAt[w].kind # "resummarize" THEN MdNowhere ELSE @]

\* Writing a file, once its names are known; a file without a name that nobody has
\* open is gone.
MdStore(i, content) ==
    mdInode' = [k \in MdInUse' |-> IF k = i THEN content ELSE mdInode[k]]
MdLeave == MdStore(0, MdTorn)

\* What a writer is told: an editor that its edit is made, or that it is not; a
\* job goes on, since a title it cannot give is only a warning.
MdSucceed(w) ==
    /\ MdGo(w, IF w \in MdEditors THEN "done" ELSE "titled")
    /\ mdDone' = mdDone \cup ({w} \cap MdEditors)
MdRefuse(w) ==
    /\ MdGo(w, IF w \in MdEditors THEN "refused"
               ELSE IF mdAt[w].kind = "rename" THEN "titled" ELSE "failed")
    /\ UNCHANGED mdDone

\* Opening a file for writing, which truncates it or makes it.
MdOpenDoc(w, p, pc) ==
    \E i \in 1..MdInodes :
        /\ IF MdExists(p) THEN i = mdDoc[p] ELSE MdFreshInode(i)
        /\ mdDoc' = MdNamed(mdDoc, p, i)
        /\ mdAt' = [mdAt EXCEPT ![w].pc = pc, ![w].fd = i]
        /\ UNCHANGED mdTmp
        /\ MdStore(i, MdTorn)

-----------------------------------------------------------------------------
(* The pipeline *)

\* write_with_retry_path: a free name, then fs::write.
MdResolve(j) ==
    /\ mdAt[j].pc = "idle"
    /\ \E p \in MdPaths :
          /\ MdResolves("first", p)
          /\ mdAt' = [mdAt EXCEPT ![j].pc = "resolved", ![j].kind = "create", ![j].path = p]
    /\ UNCHANGED <<mdFiles, mdDone, mdHistory, mdBackups>>

MdMake(j) ==
    /\ mdAt[j].pc = "resolved"
    /\ MdOpenDoc(j, mdAt[j].path, "made")
    /\ UNCHANGED <<mdDone, mdHistory, mdBackups>>

MdFill(j) ==
    /\ mdAt[j].pc = "made"
    /\ MdGo(j, IF j \in MdBackground THEN "filled" ELSE "titling")
    /\ UNCHANGED <<mdDoc, mdTmp, mdDone, mdHistory, mdBackups>>
    /\ MdStore(mdAt[j].fd, MdNew(j))

\* The job's record learns where its document is.
MdRecorded(j) ==
    /\ mdAt[j].pc = "filled"
    /\ MdGo(j, "enriching")
    /\ UNCHANGED <<mdFiles, mdDone, mdHistory, mdBackups>>

\* The enrichment ends after minutes: it fails, or rewrites what it held all the time.
MdEnriched(j) ==
    /\ mdAt[j].pc = "enriching"
    /\ \/ mdAt' = [mdAt EXCEPT ![j].pc = "failed"]
       \/ mdAt' = [mdAt EXCEPT ![j].pc = "read", ![j].kind = "enrich"]
    /\ UNCHANGED <<mdFiles, mdDone, mdHistory, mdBackups>>

\* A job that failed is tried again, on the document its record names.
MdRetry(j) ==
    /\ mdAt[j].pc = "failed" /\ j \notin mdTried
    /\ mdTried' = mdTried \cup {j}
    /\ mdAt' = [mdAt EXCEPT ![j].pc = "read", ![j].kind = "transcript"]
    /\ UNCHANGED <<mdFiles, mdDone, mdCrashed, mdBackups>>

\* apply_title_generation: no better title, or a rename.
MdTitle(j) ==
    /\ mdAt[j].pc = "titling"
    /\ \/ MdGo(j, "titled")
       \/ /\ MdExists(mdAt[j].path) /\ MdContentAt(mdAt[j].path) # MdTorn
          /\ mdAt' = [mdAt EXCEPT ![j].pc = "read", ![j].kind = "rename",
                                  ![j].read = MdContentAt(mdAt[j].path)]
    /\ UNCHANGED <<mdFiles, mdDone, mdHistory, mdBackups>>

\* The job's record learns the document's last name.
MdSettle(j) ==
    /\ mdAt[j].pc = "titled"
    /\ MdGo(j, "done")
    /\ UNCHANGED <<mdFiles, mdDone, mdHistory, mdBackups>>

-----------------------------------------------------------------------------
(* Editors *)

\* The app renames and saves on its main thread, one document at a time, and lets
\* one `resummarize` run.
MdTurn(w, kind) ==
    \A v \in (MdApp \cap DOMAIN mdAt) \ {w} :
        /\ kind \in {"rename", "save"} =>
              \/ mdAt[v].pc \notin MdInProgress \/ mdAt[v].kind \notin {"rename", "save"}
              \/ mdAt[v].kind = "save" /\ mdAt[v].pc = "read"
        /\ kind = "resummarize" =>
              mdAt[v].pc \notin MdInProgress \/ mdAt[v].kind # "resummarize"

\* An editor reads the document.  Only notes and the text editor accept a file
\* without frontmatter.
MdRead(w) ==
    /\ mdAt[w].pc = "idle"
    /\ \E kind \in MdKinds(w), p \in MdPaths :
          /\ MdExists(p)
          /\ w \in MdApp /\ kind # "save" => MdTurn(w, kind)
          /\ MdContentAt(p).of # MdNone \/ kind \in {"annotate", "save"}
          /\ mdAt' = [mdAt EXCEPT ![w].pc = "read", ![w].kind = kind, ![w].path = p,
                                  ![w].read = MdContentAt(p)]
    /\ UNCHANGED <<mdFiles, mdDone, mdHistory, mdBackups>>

\* The staging file, whose name all writers of a kind share.
MdOpen(w) ==
    /\ mdAt[w].pc = "read"
    /\ mdAt[w].kind \in {"rename", "update", "save", "transcript", "enrich"}
    /\ mdAt[w].kind = "save" => MdTurn(w, "save") /\ MdExists(mdAt[w].path)
    /\ \E i \in 1..MdInodes :
          /\ IF MdTmpOf(w) \in DOMAIN mdTmp THEN i = mdTmp[MdTmpOf(w)] ELSE MdFreshInode(i)
          /\ mdTmp' = MdNamed(mdTmp, MdTmpOf(w), i)
          /\ mdAt' = [mdAt EXCEPT ![w].pc = "opened", ![w].fd = i]
          /\ UNCHANGED mdDoc
          /\ MdStore(i, MdTorn)
    /\ UNCHANGED <<mdDone, mdHistory, mdBackups>>

\* cmd_write_text_file of a document that is no longer there
MdSaveGone(w) ==
    /\ mdAt[w].pc = "read" /\ mdAt[w].kind = "save" /\ ~MdExists(mdAt[w].path)
    /\ MdTurn(w, "save")
    /\ MdRefuse(w)
    /\ UNCHANGED <<mdFiles, mdHistory, mdBackups>>

MdWrite(w) ==
    /\ mdAt[w].pc = "opened"
    /\ MdGo(w, IF mdAt[w].kind \in {"rename", "update"} THEN "written" ELSE "staged")
    /\ UNCHANGED <<mdDoc, mdTmp, mdDone, mdHistory, mdBackups>>
    /\ MdStore(mdAt[w].fd, MdNew(w))

\* Parse-after-write: what is under the staging name, not what was written.
MdValidate(w) ==
    LET t == MdTmpOf(w) IN
    /\ mdAt[w].pc = "written"
    /\ IF t \in DOMAIN mdTmp /\ mdInode[mdTmp[t]] # MdTorn
       THEN MdGo(w, "staged") /\ UNCHANGED <<mdTmp, mdDone>>
       ELSE MdRefuse(w) /\ mdTmp' = MdWithout(t)
    /\ UNCHANGED <<mdDoc, mdHistory, mdBackups>>
    /\ MdLeave

\* The staging file becomes the document, whether or not one is there.
MdSwap(w) ==
    LET t == MdTmpOf(w)
        p == mdAt[w].path IN
    /\ mdAt[w].pc = "staged"
    /\ IF t \notin DOMAIN mdTmp THEN MdRefuse(w) /\ UNCHANGED <<mdDoc, mdTmp>>
       ELSE /\ mdDoc' = MdNamed(mdDoc, p, mdTmp[t])
            /\ mdTmp' = MdWithout(t)
            /\ CASE mdAt[w].kind = "transcript" -> MdGo(w, "enriching") /\ UNCHANGED mdDone
                 [] mdAt[w].kind = "enrich" -> MdGo(w, "titling") /\ UNCHANGED mdDone
                 [] mdAt[w].kind = "rename" /\ p # <<"renamed", 1>> ->
                        MdGo(w, "moved") /\ UNCHANGED mdDone
                 [] OTHER -> MdSucceed(w)
    /\ UNCHANGED <<mdHistory, mdBackups>>
    /\ MdLeave

\* rename_meeting, step 9: the file's name follows the title.
MdTarget(w) ==
    /\ mdAt[w].pc = "moved"
    /\ \E p \in MdPaths :
          /\ MdResolves("renamed", p)
          /\ mdAt' = [mdAt EXCEPT ![w].pc = "target", ![w].target = p]
    /\ UNCHANGED <<mdFiles, mdDone, mdHistory, mdBackups>>

MdMove(w) ==
    /\ mdAt[w].pc = "target"
    /\ IF ~MdExists(mdAt[w].path) THEN MdRefuse(w) /\ UNCHANGED mdDoc
       ELSE /\ mdDoc' = MdNamed(Restrict(mdDoc, DOMAIN mdDoc \ {mdAt[w].path}),
                              mdAt[w].target, mdDoc[mdAt[w].path])
            /\ MdSucceed(w)
    /\ UNCHANGED <<mdTmp, mdHistory, mdBackups>>
    /\ MdLeave

\* compare_current
MdUnchanged(w) == MdExists(mdAt[w].path) /\ MdContentAt(mdAt[w].path) = mdAt[w].read
MdBackupOf(w) == <<mdAt[w].path, mdAt[w].second>>

\* atomic_rewrite_preserving_mode_guarded: a comparison before the backup, whose
\* name has the second ...
MdCompare(w) ==
    /\ mdAt[w].kind = "resummarize" /\ mdAt[w].pc = "read"
    /\ mdSecond' \in {mdSecond, mdSecond + 1} \cap 1..MdSeconds
    /\ IF ~MdUnchanged(w) THEN MdRefuse(w)
       ELSE /\ mdAt' = [mdAt EXCEPT ![w].pc = "backup", ![w].second = mdSecond']
            /\ UNCHANGED mdDone
    /\ UNCHANGED <<mdFiles, mdBackup, mdHistory>>

\* ... the copy ...
MdCopy(w) ==
    /\ mdAt[w].kind = "resummarize" /\ mdAt[w].pc = "backup"
    /\ IF ~MdExists(mdAt[w].path) THEN MdRefuse(w) /\ UNCHANGED mdBackup
       ELSE /\ mdBackup' = MdNamed(mdBackup, MdBackupOf(w), MdContentAt(mdAt[w].path))
            /\ MdGo(w, "copied") /\ UNCHANGED mdDone
    /\ UNCHANGED <<mdFiles, mdHistory, mdSecond>>

\* Mutant of MdCompareAgain: there is one comparison.
MdCompareOnce(w) ==
    /\ mdAt[w].pc = "copied"
    /\ MdGo(w, "window")
    /\ UNCHANGED <<mdFiles, mdDone, mdBackup, mdHistory, mdSecond>>

\* ... and a comparison after it, which removes the copy if it fails.
MdCompareAgain(w) ==
    /\ mdAt[w].pc = "copied"
    /\ IF MdUnchanged(w) THEN MdGo(w, "window") /\ UNCHANGED <<mdDone, mdBackup>>
       ELSE MdRefuse(w) /\ mdBackup' = Restrict(mdBackup, DOMAIN mdBackup \ {MdBackupOf(w)})
    /\ UNCHANGED <<mdFiles, mdHistory, mdSecond>>

\* The swap; the staging file is its own.
MdReplace(w) ==
    /\ mdAt[w].pc = "window"
    /\ \E i \in 1..MdInodes :
          /\ MdFreshInode(i)
          /\ mdDoc' = MdNamed(mdDoc, mdAt[w].path, i)
          /\ MdGo(w, "prune")
          /\ UNCHANGED mdTmp
          /\ MdStore(i, MdNew(w))
    /\ UNCHANGED <<mdDone, mdHistory, mdBackups>>

\* prune_resummarize_backups
MdPrune(w) ==
    /\ mdAt[w].pc = "prune"
    /\ mdBackup' = Restrict(mdBackup, {n \in DOMAIN mdBackup :
          n[1] = mdAt[w].path =>
              Cardinality({m \in DOMAIN mdBackup : m[1] = n[1] /\ m[2] > n[2]}) < MdKeep})
    /\ MdSucceed(w)
    /\ UNCHANGED <<mdFiles, mdHistory, mdSecond>>

\* annotate_meeting writes in place.
MdAnnotate(w) ==
    /\ mdAt[w].kind = "annotate"
    /\ \/ /\ mdAt[w].pc = "read"
          /\ MdOpenDoc(w, mdAt[w].path, "cut")
          /\ UNCHANGED mdDone
       \/ /\ mdAt[w].pc = "cut"
          /\ MdSucceed(w)
          /\ UNCHANGED <<mdDoc, mdTmp>>
          /\ MdStore(mdAt[w].fd, MdNew(w))
    /\ UNCHANGED <<mdHistory, mdBackups>>

\* A writer dies.  A job whose record names no document starts over, another one
\* is tried again on its document; both once.
MdCrash(w) ==
    LET recorded == mdAt[w].kind # "create" \/ mdAt[w].pc = "enriching" IN
    /\ mdAt[w].pc \in MdInProgress
    /\ mdCrashed' = mdCrashed \cup ({<<w, mdAt[w].pc>>} \cap (MdWriters \X MdLeft))
    /\ \/ w \notin MdBackground /\ MdGo(w, "crashed") /\ UNCHANGED mdTried
       \/ /\ w \in MdBackground \ mdTried
          /\ mdTried' = mdTried \cup {w}
          /\ mdAt' = [mdAt EXCEPT ![w].fd = 0, ![w].target = MdNowhere,
                          ![w].pc = IF recorded THEN "read" ELSE "idle",
                          ![w].kind = IF recorded THEN "transcript" ELSE "create"]
    /\ UNCHANGED <<mdDoc, mdTmp, mdDone, mdBackups>>
    /\ MdLeave

-----------------------------------------------------------------------------
\* Whom another writer's work may concern: a pipeline until it is done with the
\* document, an editor from its reading on, a guarded one after its last look.
MdAtWork(w) ==
    \/ mdAt[w].pc \in MdInProgress /\ (mdAt[w].kind = "resummarize" => mdAt[w].pc = "window")
    \/ mdAt[w].pc = "failed"

MdTouches(w) ==
    {mdAt[w].path} \cup (IF mdAt[w].pc = "target" THEN {mdAt[w].target} ELSE {})
    \cup {p \in DOMAIN mdDoc : mdDoc[p] = mdAt[w].fd}

MdMeetings ==
    LET busy == {w \in DOMAIN mdAt : MdAtWork(w)} IN
    {pair \in busy \X busy :
        pair[1] # pair[2] /\ MdTouches(pair[1]) \cap MdTouches(pair[2]) # {}}

\* Two writers of a kind move one another's staging files, or take one name; a
\* rename takes the name away from under another writer; who reads a document
\* that a note or a pipeline has just opened finds it cut.
MdClashes(v, w) ==
    LET kinds == <<mdAt[v].kind, mdAt[w].kind>> IN
    (IF MdStages(v) = MdStages(w) THEN {"alike"} ELSE {}) \cup
    (IF kinds[1] = "rename" THEN {"renamed"} ELSE {}) \cup
    (IF kinds[1] \in {"create", "annotate"} /\ kinds[2] \in {"annotate", "save"}
     THEN {"cut"} ELSE {})

MdNote ==
    LET meetings == MdMeetings' IN
    /\ mdMet' = mdMet \cup {pair[1] : pair \in meetings}
    /\ mdClash' = mdClash \cup UNION {MdClashes(pair[1], pair[2])' : pair \in meetings}

MdJobNext(j) ==
    \/ MdResolve(j) \/ MdMake(j) \/ MdFill(j) \/ MdRecorded(j) \/ MdEnriched(j) \/ MdRetry(j)
    \/ MdTitle(j) \/ MdSettle(j)

MdEditorNext(w) ==
    \/ MdRead(w) \/ MdSaveGone(w) \/ MdAnnotate(w)
    \/ MdCompare(w) \/ MdCopy(w) \/ MdCompareAgain(w) \/ MdReplace(w) \/ MdPrune(w)

MdAnyNext(w) ==
    \/ MdOpen(w) \/ MdWrite(w) \/ MdValidate(w) \/ MdSwap(w) \/ MdTarget(w) \/ MdMove(w)
    \/ MdCrash(w)

MeetingDocumentNext ==
    /\ \/ \E j \in MdJobs \cap DOMAIN mdAt : MdJobNext(j)
       \/ \E w \in MdEditors \cap DOMAIN mdAt : MdEditorNext(w)
       \/ \E w \in DOMAIN mdAt : MdAnyNext(w)
    /\ MdNote

MeetingDocumentSpec == MeetingDocumentInit /\ [][MeetingDocumentNext]_mdVars

-----------------------------------------------------------------------------
(* Properties *)

MdHave(w) == {p \in DOMAIN mdDoc : w \in MdContentAt(p).has}
MdOf(j) == {p \in DOMAIN mdDoc : MdContentAt(p).of = j}
MdDied(pcs) == {w \in DOMAIN mdAt : \E pc \in pcs : <<w, pc>> \in mdCrashed}

\* A note has a document cut, or it stayed cut, or another editor read it so; or
\* two writers of a kind met: one moved the other's staging file, or both took one
\* name for their documents; or a document was renamed under another writer, who
\* may put an old one in the place of whatever has the name by then.
MdDisturbed ==
    \/ \E w \in DOMAIN mdAt : mdAt[w].pc = "cut"
    \/ MdDied({"cut"}) # {}
    \/ {"cut", "alike", "renamed"} \cap mdClash # {}

\* What an editor was told is done is in a document, unless another writer was at
\* the document while it was.
EditsKept == \A w \in mdDone : MdHave(w) = {} => w \in mdMet \/ MdDisturbed

\* So is the transcript of a pipeline that is done ...
TranscriptKept ==
    \A j \in MdJobs \cap DOMAIN mdAt :
        mdAt[j].pc = "done" /\ MdOf(j) = {} => j \in mdMet \/ MdDisturbed

\* ... under one name, unless the pipeline died before its record had the name, or
\* somebody renamed the document under another writer.
OneDocument ==
    \A j \in MdJobs : Cardinality(MdOf(j)) > 1 =>
        \/ j \in MdDied({"filled", "titled"})
        \/ "renamed" \in mdClash

\* A document is whole, unless it is being written in place, its writer died over
\* it, a note or a text was made from a document that was not, or two writers
\* shared a file.
DocumentsWhole ==
    \A p \in DOMAIN mdDoc : MdContentAt(p).of = MdNone =>
        \/ \E w \in DOMAIN mdAt : mdAt[w].fd = mdDoc[p] /\ mdAt[w].pc \in {"made", "cut"}
        \/ MdDied({"made", "cut"}) # {}
        \/ {"cut", "alike"} \cap mdClash # {}

\* The backup of a run that was applied, or a later one, is there: runs that met a
\* conflict do not disturb it, unless they chose its name in the same second (the
\* doc at markdown.rs:1158 does not know of these), or there are so many that
\* theirs are the ones that are kept.
MdBacked(w) == \E n \in DOMAIN mdBackup : n[1] = mdAt[w].path /\ n[2] >= mdAt[w].second

BackupsApart ==
    \A w \in mdDone : mdAt[w].kind = "resummarize" =>
        \/ MdBacked(w)
        \/ \E v \in (MdEditors \cap DOMAIN mdAt) \ {w} : MdBackupOf(v) = MdBackupOf(w)
        \/ Cardinality(MdEditors \cap DOMAIN mdAt) > MdKeep

\* What `resummarize` replaces is what it has summarized, unless another writer was
\* at the document between the last comparison and the swap.
ReplacesWhatItRead ==
    [][\A w \in MdEditors \cap DOMAIN mdAt : MdReplace(w) => MdUnchanged(w) \/ w \in mdMet]_mdVars

\* Editors and pipelines do not lose one another's work, but where they are at one
\* document at one time (markdown.rs, notes.rs, pipeline.rs, resummarize.rs).
DocumentsKept ==
    /\ [](EditsKept /\ TranscriptKept /\ OneDocument /\ DocumentsWhole /\ BackupsApart)
    /\ ReplacesWhatItRead

=============================================================================
