--------------------------- MODULE PidFileProofs ----------------------------
(***************************************************************************)
(* Proofs about PidFile for every set of processes, pollers and inodes,    *)
(* and for both variants of the code (keepLock or not).                    *)
(***************************************************************************)
EXTENDS PidFile, TLAPS

\* A process has a file open exactly while the protocol says so.
Descriptors ==
    \A p \in Procs :
        /\ pc[p] \in {"opened", "locked", "vetted", "truncated"} => fd[p] \in Inodes
        /\ pc[p] \in {"idle", "dead"} => fd[p] = NoInode
        /\ pc[p] = "held" /\ ~keepLock => fd[p] = NoInode

\* An open file that is no longer linked names a live process, so whoever
\* has it open will be refused: the fact that EarlyExit would break.
UnlinkedNamesLive ==
    \A p \in Procs : fd[p] \in Inodes /\ fd[p] # path => NamesLive(fd[p])

\* A process past the check works on the linked file, under its lock, and
\* nobody holds the session.
PastCheck ==
    \A p \in Procs :
        /\ pc[p] \in {"locked", "vetted", "truncated"} => lock[fd[p]] = p
        /\ pc[p] \in {"vetted", "truncated"} => fd[p] = path /\ Holders = {}

TypeInv == TypeOK /\ Descriptors

IInv == TypeInv /\ UnlinkedNamesLive /\ PastCheck /\ HolderVisible

-----------------------------------------------------------------------------
(* Typing *)

LEMMA TypeInvInit == Init => TypeInv
BY PidFileAssumption DEF Init, TypeInv, TypeOK, Descriptors

LEMMA TypeInvNext == TypeInv /\ [Next]_vars => TypeInv'
<1> SUFFICES ASSUME TypeInv, [Next]_vars
             PROVE  TypeInv'
  OBVIOUS
<1>0. UNCHANGED keepLock
  BY DEF Next, vars
<1> USE <1>0, PidFileAssumption DEF TypeInv, TypeOK, Descriptors, Free
<1>1. ASSUME NEW p \in Procs, Start(p)
      PROVE  TypeInv'
  <2>1. CASE Open(p)      BY <2>1 DEF Open
  <2>2. CASE TryLock(p)   BY <2>2 DEF TryLock
  <2>3. CASE RefuseLocked(p) BY <2>3 DEF RefuseLocked, CloseFile
  <2>4. CASE Vet(p)       BY <2>4 DEF Vet
  <2>5. CASE RefuseLive(p) BY <2>5 DEF RefuseLive, CloseFile
  <2>6. CASE Truncate(p)  BY <2>6 DEF Truncate
  <2>7. CASE WritePid(p)
    <3>1. CASE keepLock  BY <2>7, <3>1 DEF WritePid
    <3>2. CASE ~keepLock BY <2>7, <3>2 DEF WritePid, CloseFile
    <3> QED BY <3>1, <3>2
  <2> QED
    BY <1>1, <2>1, <2>2, <2>3, <2>4, <2>5, <2>6, <2>7 DEF Start
<1>2. ASSUME NEW p \in Procs, Unlink(p)
      PROVE  TypeInv'
  BY <1>2 DEF Unlink
<1>3. ASSUME NEW p \in Procs, Close(p)
      PROVE  TypeInv'
  BY <1>3 DEF Close, CloseFile
<1>4. ASSUME NEW p \in Procs, Die(p)
      PROVE  TypeInv'
  BY <1>4 DEF Die, CloseFile
<1>5. ASSUME NEW p \in Procs, Restart(p)
      PROVE  TypeInv'
  BY <1>5 DEF Restart
<1>6. ASSUME NEW w \in Pollers, ReadStale(w) \/ RemoveStale(w)
      PROVE  TypeInv'
  BY <1>6 DEF ReadStale, RemoveStale
<1>7. CASE UNCHANGED vars
  BY <1>7 DEF vars
<1> QED
  BY <1>1, <1>2, <1>3, <1>4, <1>5, <1>6, <1>7 DEF Next, Finish

\* Types hold, and an flock is never held without the descriptor it was
\* taken on, whatever the timing of exits and cleanups.
THEOREM Typing == Spec => []TypeOK
<1>1. TypeInv => TypeOK
  BY DEF TypeInv
<1> QED
  BY TypeInvInit, TypeInvNext, <1>1, PTL DEF Spec

-----------------------------------------------------------------------------
(* Exclusion, when no process exits early and no cleanup lands late. *)

LEMMA IInvInit == Init => IInv
<1> SUFFICES ASSUME Init
             PROVE  IInv
  OBVIOUS
<1>1. TypeInv
  BY TypeInvInit
<1> QED
  BY <1>1, PidFileAssumption
     DEF Init, IInv, UnlinkedNamesLive, PastCheck, HolderVisible, Holders

\* A file that was found empty or dead under its lock is the linked one.
LEMMA VettedIsLinked ==
    ASSUME IInv, NEW p \in Procs, Vet(p)
    PROVE  fd[p] = path /\ Holders = {}
<1>1. fd[p] \in Inodes /\ ~NamesLive(fd[p])
  BY DEF IInv, TypeInv, Descriptors, Vet
<1>2. fd[p] = path
  BY <1>1 DEF IInv, UnlinkedNamesLive
<1>3. ASSUME NEW q \in Holders
      PROVE  FALSE
  <2>1. content[path] = q /\ q \in Procs /\ Alive(q)
    BY <1>3 DEF IInv, HolderVisible, Holders, Alive
  <2> QED
    BY <1>1, <1>2, <2>1 DEF NamesLive
<1> QED
  BY <1>2, <1>3

LEMMA IInvNext ==
    ASSUME ~EarlyExit, ~LateCleanup
    PROVE  IInv /\ [Next]_vars => IInv'
<1> SUFFICES ASSUME IInv, [Next]_vars
             PROVE  IInv'
  OBVIOUS
<1>0. TypeInv'
  BY TypeInvNext DEF IInv
<1>9. UNCHANGED keepLock
  BY DEF Next, vars
<1> USE <1>9, PidFileAssumption DEF IInv, TypeInv, TypeOK, Descriptors
<1>1. ASSUME NEW p \in Procs, Start(p)
      PROVE  UnlinkedNamesLive' /\ PastCheck' /\ HolderVisible'
  <2> USE DEF UnlinkedNamesLive, PastCheck, HolderVisible, Holders,
              NamesLive, Alive, Free
  <2>1. CASE Open(p)
    BY <2>1 DEF Open
  <2>2. CASE TryLock(p)
    BY <2>2 DEF TryLock
  <2>3. CASE RefuseLocked(p)
    BY <2>3 DEF RefuseLocked, CloseFile
  <2>4. CASE Vet(p)
    BY <2>4, VettedIsLinked DEF Vet
  <2>5. CASE RefuseLive(p)
    BY <2>5 DEF RefuseLive, CloseFile
  <2>6. CASE Truncate(p)
    BY <2>6 DEF Truncate
  <2>7. CASE WritePid(p)
    <3>1. CASE keepLock  BY <2>7, <3>1 DEF WritePid
    <3>2. CASE ~keepLock BY <2>7, <3>2 DEF WritePid, CloseFile
    <3> QED BY <3>1, <3>2
  <2> QED
    BY <1>1, <2>1, <2>2, <2>3, <2>4, <2>5, <2>6, <2>7 DEF Start
<1>2. ASSUME NEW p \in Procs, Unlink(p)
      PROVE  UnlinkedNamesLive' /\ PastCheck' /\ HolderVisible'
  BY <1>2 DEF Unlink, UnlinkedNamesLive, PastCheck, HolderVisible, Holders,
              NamesLive, Alive
<1>3. ASSUME NEW p \in Procs, Close(p)
      PROVE  UnlinkedNamesLive' /\ PastCheck' /\ HolderVisible'
  BY <1>3 DEF Close, CloseFile, UnlinkedNamesLive, PastCheck, HolderVisible,
              Holders, NamesLive, Alive
<1>4. ASSUME NEW p \in Procs, Die(p)
      PROVE  UnlinkedNamesLive' /\ PastCheck' /\ HolderVisible'
  <2>1. ~LeftBehind(p)
    BY <1>4 DEF Die
  <2> QED
    BY <1>4, <2>1 DEF Die, CloseFile, LeftBehind, UnlinkedNamesLive,
                      PastCheck, HolderVisible, Holders, NamesLive, Alive
<1>5. ASSUME NEW p \in Procs, Restart(p)
      PROVE  UnlinkedNamesLive' /\ PastCheck' /\ HolderVisible'
  BY <1>5 DEF Restart, UnlinkedNamesLive, PastCheck, HolderVisible, Holders,
              NamesLive, Alive
<1>6. ASSUME NEW w \in Pollers, ReadStale(w)
      PROVE  UnlinkedNamesLive' /\ PastCheck' /\ HolderVisible'
  BY <1>6 DEF ReadStale, UnlinkedNamesLive, PastCheck, HolderVisible, Holders,
              NamesLive, Alive
<1>7. ASSUME NEW w \in Pollers, RemoveStale(w)
      PROVE  UnlinkedNamesLive' /\ PastCheck' /\ HolderVisible'
  BY <1>7 DEF RemoveStale, UnlinkedNamesLive, PastCheck, HolderVisible,
              Holders, NamesLive, NamesDead, Alive
<1>8. CASE UNCHANGED vars
  BY <1>0, <1>8 DEF vars, UnlinkedNamesLive, PastCheck, HolderVisible,
                    Holders, NamesLive, Alive
<1> QED
  BY <1>0, <1>1, <1>2, <1>3, <1>4, <1>5, <1>6, <1>7, <1>8 DEF Next, Finish

LEMMA VisibleExcludes == HolderVisible => MutualExclusion
BY DEF HolderVisible, MutualExclusion

\* Under the two timing assumptions, at most one process holds the session.
THEOREM Exclusion ==
    ASSUME ~EarlyExit, ~LateCleanup
    PROVE  Spec => []MutualExclusion
<1>1. IInv => MutualExclusion
  BY VisibleExcludes DEF IInv
<1> QED
  BY IInvInit, IInvNext, <1>1, PTL DEF Spec

\* Under the two timing assumptions, the holder's PID is always the one that
\* the path shows.
THEOREM Visibility ==
    ASSUME ~EarlyExit, ~LateCleanup
    PROVE  Spec => []HolderVisible
<1>1. IInv => HolderVisible
  BY DEF IInv
<1> QED
  BY IInvInit, IInvNext, <1>1, PTL DEF Spec

-----------------------------------------------------------------------------
(* Refinement *)

\* A step either leaves the set of holders alone, or is one start by a
\* process while nobody holds, or one end of a session.
LEMMA StepRefines ==
    ASSUME ~EarlyExit, ~LateCleanup
    PROVE  IInv /\ [Next]_vars => [Guard!Next]_Holders
<1> SUFFICES ASSUME IInv, [Next]_vars
             PROVE  [Guard!Next]_Holders
  OBVIOUS
<1> USE DEF IInv, TypeInv, TypeOK, Holders
<1>1. ASSUME NEW p \in Procs, WritePid(p)
      PROVE  Guard!Acquire(p)
  <2>1. Holders = {}
    BY <1>1 DEF PastCheck, WritePid
  <2>2. Holders' = {p}
    BY <1>1, <2>1 DEF WritePid
  <2> QED BY <2>1, <2>2 DEF Guard!Acquire
<1>2. ASSUME NEW p \in Procs, Unlink(p)
      PROVE  Guard!Release(p)
  <2>1. Holders' = Holders \ {p}
    BY <1>2 DEF Unlink
  <2> QED BY <1>2, <2>1 DEF Unlink, Guard!Release
<1>3. ASSUME NEW p \in Procs, Die(p)
      PROVE  Guard!Release(p) \/ UNCHANGED Holders
  <2>1. Holders' = Holders \ {p}
    BY <1>3 DEF Die
  <2> QED BY <2>1 DEF Guard!Release
<1>4. ASSUME NEW p \in Procs, Start(p) \/ Close(p) \/ Restart(p), ~WritePid(p)
      PROVE  UNCHANGED Holders
  BY <1>4 DEF Start, Open, TryLock, RefuseLocked, Vet, RefuseLive, Truncate,
              Close, Restart
<1>5. ASSUME NEW w \in Pollers, ReadStale(w) \/ RemoveStale(w)
      PROVE  UNCHANGED Holders
  BY <1>5 DEF ReadStale, RemoveStale
<1>6. CASE UNCHANGED vars
  BY <1>6 DEF vars
<1> QED
  BY <1>1, <1>2, <1>3, <1>4, <1>5, <1>6 DEF Next, Finish, Start, Guard!Next

\* The PID file protocol implements the guard its callers rely on.
THEOREM Implementation ==
    ASSUME ~EarlyExit, ~LateCleanup
    PROVE  Spec => ImplementsGuard
<1>1. Init => Guard!Init
  BY DEF Init, Guard!Init, Holders
<1> QED
  BY IInvInit, IInvNext, StepRefines, <1>1, PTL
     DEF Spec, ImplementsGuard, Guard!Spec
=============================================================================
