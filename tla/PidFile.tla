------------------------------ MODULE PidFile -------------------------------
(***************************************************************************)
(* One PID file of crates/core/src/pid.rs, at the granularity of its       *)
(* system calls.  Processes take it with `create_pid_guard` (keepLock) or  *)
(* with `create_pid_file` / `create` (the lock is dropped on return); each *)
(* file is always taken in one of the two ways.  Pollers inspect it and    *)
(* remove it when the PID it holds is dead.                                *)
(*                                                                         *)
(* An flock belongs to an inode, and the path can be unlinked while        *)
(* another process has the old inode open.  Two timings decide whether     *)
(* the protocol excludes, so each is a constant:                           *)
(*   EarlyExit   a process may exit while another one still has open the   *)
(*               inode that it unlinked;                                   *)
(*   LateCleanup a poller's removal may land after the stale file it read  *)
(*               was taken over.                                           *)
(* PID reuse is included (Restart): a PID found in a file may name a new   *)
(* process.  The Windows branches (mandatory locks) are left out.          *)
(***************************************************************************)
CONSTANTS
    Procs,          \* the processes that compete for the file
    Pollers,        \* callers of check_pid_file, inspect_pid_file, check_recording
    Inodes,         \* inodes the file system can use
    NoProc,         \* "no process": an unlocked inode, an empty file
    NoInode,        \* "no inode": an absent path, a closed descriptor
    EarlyExit,
    LateCleanup

ASSUME PidFileAssumption ==
    /\ NoProc \notin Procs
    /\ NoInode \notin Inodes
    /\ {EarlyExit, LateCleanup} \subseteq BOOLEAN

VARIABLES
    keepLock,   \* TRUE for create_pid_guard, FALSE for create and create_pid_file
    path,       \* the inode the PID path names
    content,    \* the PID written in each inode; NoProc when empty
    lock,       \* the process that holds the flock of each inode
    fd,         \* the inode each process has open
    pc,         \* where each process is in the protocol
    stale       \* the pollers that read a dead PID and have not yet removed the path

vars == <<keepLock, path, content, lock, fd, pc, stale>>

Alive(p) == pc[p] # "dead"

\* Mutant of NamesLive: a PID in the file is never taken to be alive.
NamesNobody(i) == FALSE

\* What a read of inode i shows when a live, or a dead, process is named there.
NamesLive(i) == i \in Inodes /\ content[i] \in Procs /\ Alive(content[i])
NamesDead(i) == i \in Inodes /\ content[i] \in Procs /\ ~Alive(content[i])

Init ==
    /\ keepLock \in BOOLEAN
    /\ path = NoInode
    /\ content = [i \in Inodes |-> NoProc]
    /\ lock = [i \in Inodes |-> NoProc]
    /\ fd = [p \in Procs |-> NoInode]
    /\ pc = [p \in Procs |-> "idle"]
    /\ stale = {}

\* Mutant of CloseFile: the flock outlives the descriptor.
CloseKeepingLock(p) ==
    /\ fd' = [fd EXCEPT ![p] = NoInode]
    /\ UNCHANGED lock

\* Closing p's descriptor releases the flock it holds, if any.
CloseFile(p) ==
    /\ fd' = [fd EXCEPT ![p] = NoInode]
    /\ lock' = [i \in Inodes |-> IF lock[i] = p THEN NoProc ELSE lock[i]]

-----------------------------------------------------------------------------
(* A start: create_pid_guard, create_pid_file, create. *)

\* OpenOptions::create(true).truncate(false): the linked inode, or a fresh one.
Open(p) ==
    /\ pc[p] = "idle"
    /\ pc' = [pc EXCEPT ![p] = "opened"]
    /\ \/ /\ path # NoInode
          /\ fd' = [fd EXCEPT ![p] = path]
          /\ UNCHANGED <<path, content>>
       \/ /\ path = NoInode
          /\ \E i \in Inodes :
                /\ \A q \in Procs : fd[q] # i
                /\ path' = i
                /\ content' = [content EXCEPT ![i] = NoProc]
                /\ fd' = [fd EXCEPT ![p] = i]
    /\ UNCHANGED <<lock, stale>>

\* Nobody holds the flock of inode i.
Free(i) == lock[i] = NoProc

\* try_lock_exclusive succeeds ...
TryLock(p) ==
    /\ pc[p] = "opened"
    /\ Free(fd[p])
    /\ lock' = [lock EXCEPT ![fd[p]] = p]
    /\ pc' = [pc EXCEPT ![p] = "locked"]
    /\ UNCHANGED <<path, content, fd, stale>>

\* ... or fails: AlreadyRecording, and the file is closed.
RefuseLocked(p) ==
    /\ pc[p] = "opened"
    /\ ~Free(fd[p])
    /\ CloseFile(p)
    /\ pc' = [pc EXCEPT ![p] = "idle"]
    /\ UNCHANGED <<path, content, stale>>

\* read_locked_pid finds no PID, or a dead one: go on.
Vet(p) ==
    /\ pc[p] = "locked"
    /\ ~NamesLive(fd[p])
    /\ pc' = [pc EXCEPT ![p] = "vetted"]
    /\ UNCHANGED <<path, content, lock, fd, stale>>

\* read_locked_pid finds a live process: unlock, AlreadyRecording.
RefuseLive(p) ==
    /\ pc[p] = "locked"
    /\ NamesLive(fd[p])
    /\ CloseFile(p)
    /\ pc' = [pc EXCEPT ![p] = "idle"]
    /\ UNCHANGED <<path, content, stale>>

\* write_locked_pid: set_len(0) ...
Truncate(p) ==
    /\ pc[p] = "vetted"
    /\ content' = [content EXCEPT ![fd[p]] = NoProc]
    /\ pc' = [pc EXCEPT ![p] = "truncated"]
    /\ UNCHANGED <<path, lock, fd, stale>>

\* ... then the PID; create_pid_file and create drop the file as they return.
WritePid(p) ==
    /\ pc[p] = "truncated"
    /\ content' = [content EXCEPT ![fd[p]] = p]
    /\ pc' = [pc EXCEPT ![p] = "held"]
    /\ IF keepLock THEN UNCHANGED <<fd, lock>> ELSE CloseFile(p)
    /\ UNCHANGED <<path, stale>>

-----------------------------------------------------------------------------
(* The end of a session: PidGuard::drop on Unix, remove_pid_file, remove. *)

\* Whatever the path names is unlinked.
Unlink(p) ==
    /\ pc[p] = "held"
    /\ path' = NoInode
    /\ pc' = [pc EXCEPT ![p] = IF keepLock THEN "unlinked" ELSE "idle"]
    /\ UNCHANGED <<content, lock, fd, stale>>

\* Mutant of Close: the path is removed once more, after the lock is released.
CloseAndUnlink(p) ==
    /\ pc[p] = "unlinked"
    /\ CloseFile(p)
    /\ path' = NoInode
    /\ pc' = [pc EXCEPT ![p] = "idle"]
    /\ UNCHANGED <<content, stale>>

\* The guard's descriptor is closed after the unlink.
Close(p) ==
    /\ pc[p] = "unlinked"
    /\ CloseFile(p)
    /\ pc' = [pc EXCEPT ![p] = "idle"]
    /\ UNCHANGED <<path, content, stale>>

-----------------------------------------------------------------------------
(* Pollers: check_pid_file, inspect_pid_file, check_recording. *)

\* The file names a dead process.
ReadStale(w) ==
    /\ w \notin stale
    /\ NamesDead(path)
    /\ stale' = stale \cup {w}
    /\ UNCHANGED <<path, content, lock, fd, pc>>

\* remove_file(path): nothing re-checks what the path names by now.
RemoveStale(w) ==
    /\ w \in stale
    /\ \/ LateCleanup
       \/ path = NoInode
       \/ NamesDead(path) /\ \A p \in Procs : fd[p] # path
    /\ path' = NoInode
    /\ stale' = stale \ {w}
    /\ UNCHANGED <<content, lock, fd, pc>>

-----------------------------------------------------------------------------
(* The operating system. *)

\* Some other process has open an inode that is unlinked and that names p.
LeftBehind(p) ==
    \E q \in Procs \ {p} :
        /\ fd[q] \in Inodes
        /\ fd[q] # path
        /\ content[fd[q]] = p

\* Exit, crash or kill at any point: descriptors close, the path stays.
Die(p) ==
    /\ Alive(p)
    /\ EarlyExit \/ ~LeftBehind(p)
    /\ CloseFile(p)
    /\ pc' = [pc EXCEPT ![p] = "dead"]
    /\ UNCHANGED <<path, content, stale>>

\* A new process gets the PID of a dead one.
Restart(p) ==
    /\ pc[p] = "dead"
    /\ pc' = [pc EXCEPT ![p] = "idle"]
    /\ UNCHANGED <<path, content, lock, fd, stale>>

-----------------------------------------------------------------------------
Start(p)  == \/ Open(p) \/ TryLock(p) \/ RefuseLocked(p) \/ Vet(p)
             \/ RefuseLive(p) \/ Truncate(p) \/ WritePid(p)
Finish(p) == Unlink(p) \/ Close(p)

Next ==
    /\ UNCHANGED keepLock
    /\ \/ \E p \in Procs : Start(p) \/ Finish(p) \/ Die(p) \/ Restart(p)
       \/ \E w \in Pollers : ReadStale(w) \/ RemoveStale(w)

Spec == Init /\ [][Next]_vars

-----------------------------------------------------------------------------
(* Properties *)

\* Types; an flock is held only through the descriptor it was taken on
\* (pid.rs: the lock goes with the File that create_pid_guard keeps or drops).
TypeOK ==
    /\ keepLock \in BOOLEAN
    /\ path \in Inodes \cup {NoInode}
    /\ content \in [Inodes -> Procs \cup {NoProc}]
    /\ lock \in [Inodes -> Procs \cup {NoProc}]
    /\ fd \in [Procs -> Inodes \cup {NoInode}]
    /\ pc \in [Procs -> {"idle", "opened", "locked", "vetted", "truncated",
                         "held", "unlinked", "dead"}]
    /\ stale \subseteq Pollers
    /\ \A i \in Inodes : lock[i] \in Procs => fd[lock[i]] = i

Holders == {p \in Procs : pc[p] = "held"}

\* Two processes never both believe that they own the session (the doc of
\* create_pid_guard: "preventing concurrent starts").
MutualExclusion == \A p, q \in Holders : p = q

\* A poller that looks at the path while a session runs finds its owner: the
\* path names a file with the holder's PID, so worker_active, status and stop
\* address the right process.
HolderVisible ==
    \A p \in Holders : path \in Inodes /\ content[path] = p

\* The protocol implements the guard its callers rely on: a start succeeds
\* only when nobody holds the session, whatever the interleaving.
Guard == INSTANCE ExclusiveGuard WITH holders <- Holders
ImplementsGuard == Guard!Spec
=============================================================================
