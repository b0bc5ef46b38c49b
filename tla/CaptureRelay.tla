---------------------------- MODULE CaptureRelay -----------------------------
(***************************************************************************)
(* The frames of crates/core/src/copilot/relay.rs: the capture owner       *)
(* pushes numbered updates into a ring; each attached client has a thread  *)
(* of the owner that writes what is new for it into its socket; a client   *)
(* reads, keeps a cursor, and reconnects with it when the connection or    *)
(* the owner is lost.  The ring is behind one mutex, which a thread keeps  *)
(* while it writes a Gap frame.                                            *)
(*                                                                         *)
(* One stream stands for the two (transcript and nudges), whose code is    *)
(* the same.  Who may own the relay is modelled in CaptureSessions.  The   *)
(* handshake, which is answered before anything else is in the socket, is  *)
(* one step; heartbeats carry nothing that a client keeps.                 *)
(***************************************************************************)
EXTENDS Naturals, Sequences, FiniteSetsExt

CONSTANTS
    RlClients, RlNobody,
    RlCapacity,    \* FRAME_CAPACITY, 512 in the code
    RlPipe,        \* frames a socket holds before a write blocks
    RlMaxSeq,      \* bound: frames of a session
    RlMaxSessions, \* bound: capture owners
    RlMaxBreaks    \* bound: broken connections

ASSUME RlAssumption ==
    /\ RlNobody \notin RlClients
    /\ RlCapacity \in Nat \ {0} /\ RlPipe \in Nat \ {0}
    /\ RlMaxSeq \in Nat /\ RlMaxSessions \in Nat \ {0} /\ RlMaxBreaks \in Nat

VARIABLES
    rlOwner,     \* the capture owner
    rlSession,   \* its session_id
    rlLast,      \* transcript_seq: the ring holds the last frames up to it
    rlLock,      \* the client whose thread keeps the mutex while it writes
    rlPc,        \* the thread of each client
    rlSent,      \* its copy of the cursor
    rlBatch,     \* the last frame of what it is writing
    rlSocket,    \* written and not yet read
    rlAttached,  \* the client has a connection
    rlCursor,    \* the client's cursor
    rlGot,       \* frames of the cursor's session it was given
    rlTold,      \* frames of it that a Gap reported
    rlCarried,   \* its cursor's number comes from an earlier session
    rlSuspended, \* it no longer reads: stopped in its tracks, or ended by a Shutdown
    rlBreaks

rlRing == <<rlOwner, rlSession, rlLast>>
rlThreads == <<rlLock, rlPc, rlSent, rlBatch>>
rlClient == <<rlAttached, rlCursor, rlGot, rlTold, rlCarried, rlSuspended>>
rlVars == <<rlRing, rlThreads, rlSocket, rlClient, rlBreaks>>

RlSeq == 1..RlMaxSeq
RlFrame == [kind : {"frame"}, seq : RlSeq, from : {0}]
             \cup [kind : {"gap"}, seq : 0..RlMaxSeq, from : RlSeq]
             \cup {[kind |-> "shutdown", seq |-> 0, from |-> 0]}

CaptureRelayTypeOK ==
    /\ rlOwner \in {"up", "stopping", "stopped", "down"}
    /\ rlSession \in 1..RlMaxSessions
    /\ rlLast \in 0..RlMaxSeq
    /\ rlLock \in RlClients \cup {RlNobody}
    /\ rlPc \in [RlClients -> {"none", "loop", "gap", "send", "bye", "closed"}]
    /\ rlSent \in [RlClients -> 0..RlMaxSeq]
    /\ rlBatch \in [RlClients -> 0..RlMaxSeq]
    /\ rlSocket \in [RlClients -> Seq(RlFrame)]
    /\ rlAttached \in [RlClients -> BOOLEAN]
    /\ rlCursor \in [RlClients -> [session : 0..RlMaxSessions, seq : 0..RlMaxSeq]]
    /\ rlGot \in [RlClients -> SUBSET RlSeq] /\ rlTold \in [RlClients -> SUBSET RlSeq]
    /\ rlCarried \in [RlClients -> BOOLEAN] /\ rlSuspended \in [RlClients -> BOOLEAN]
    /\ rlBreaks \in 0..RlMaxBreaks
    /\ \A c \in RlClients : Len(rlSocket[c]) =< RlPipe /\ (rlLock = c <=> rlPc[c] = "gap")

CaptureRelayInit ==
    /\ rlOwner = "up" /\ rlSession = 1 /\ rlLast = 0
    /\ rlLock = RlNobody
    /\ rlPc = [c \in RlClients |-> "none"]
    /\ rlSent = [c \in RlClients |-> 0] /\ rlBatch = [c \in RlClients |-> 0]
    /\ rlSocket = [c \in RlClients |-> <<>>]
    /\ rlAttached = [c \in RlClients |-> FALSE]
    /\ rlCursor = [c \in RlClients |-> [session |-> 0, seq |-> 0]]
    /\ rlGot = [c \in RlClients |-> {}] /\ rlTold = [c \in RlClients |-> {}]
    /\ rlCarried = [c \in RlClients |-> FALSE] /\ rlSuspended = [c \in RlClients |-> FALSE]
    /\ rlBreaks = 0

-----------------------------------------------------------------------------
(* The capture owner *)

\* trim_to_capacity: the oldest frame in the ring
RlFront == IF rlLast > RlCapacity THEN rlLast - RlCapacity + 1 ELSE 1

\* push_transcript, push_nudge
RlPush ==
    /\ rlOwner = "up" /\ rlLock = RlNobody
    /\ rlLast < RlMaxSeq
    /\ rlLast' = rlLast + 1
    /\ UNCHANGED <<rlOwner, rlSession, rlThreads, rlSocket, rlClient, rlBreaks>>

\* shutdown_in_place is called; it sets the reason under the mutex, and joins
\* the server's thread, which takes the mutex as well.
RlStop ==
    /\ rlOwner = "up"
    /\ rlOwner' = "stopping"
    /\ UNCHANGED <<rlSession, rlLast, rlThreads, rlSocket, rlClient, rlBreaks>>

RlStopped ==
    /\ rlOwner = "stopping" /\ rlLock = RlNobody
    /\ rlOwner' = "stopped"
    /\ UNCHANGED <<rlSession, rlLast, rlThreads, rlSocket, rlClient, rlBreaks>>

\* The owner's process ends, with or without a shutdown, and its threads with
\* it; what is in the sockets can still be read.
RlExit ==
    /\ rlOwner # "down"
    /\ rlOwner' = "down"
    /\ rlLock' = RlNobody
    /\ rlPc' = [c \in RlClients |-> "none"]
    /\ UNCHANGED <<rlSession, rlLast, rlSent, rlBatch, rlSocket, rlClient, rlBreaks>>

\* Another capture owns the relay.
RlStart ==
    /\ rlOwner = "down" /\ rlSession < RlMaxSessions
    /\ rlOwner' = "up"
    /\ rlSession' = rlSession + 1
    /\ rlLast' = 0
    /\ UNCHANGED <<rlThreads, rlSocket, rlClient, rlBreaks>>

-----------------------------------------------------------------------------
(* observe_client, the thread of a client *)

RlWrite(c, frame) ==
    /\ Len(rlSocket[c]) < RlPipe
    /\ rlSocket' = [rlSocket EXCEPT ![c] = Append(@, frame)]

\* Mutant of RlMissed: one lost frame is not a gap.
RlMissedTwo(c) == rlLast # 0 /\ rlSent[c] + 2 < RlFront

RlMissed(c) == rlLast # 0 /\ rlSent[c] + 1 < RlFront

\* The frames of the ring after the thread's cursor are copied.
RlCopy(c) ==
    /\ rlPc' = [rlPc EXCEPT ![c] = "send"]
    /\ rlSent' = [rlSent EXCEPT ![c] = Max({@, RlFront - 1})]
    /\ rlBatch' = [rlBatch EXCEPT ![c] = rlLast]

\* Mutant of RlLook: the mutex is kept while the frames are written.
RlLookAndHold(c) ==
    /\ rlPc[c] = "loop" /\ rlLock = RlNobody
    /\ IF rlOwner = "stopped"
       THEN rlPc' = [rlPc EXCEPT ![c] = "bye"] /\ UNCHANGED <<rlLock, rlSent, rlBatch>>
       ELSE rlSent[c] < rlLast /\ RlCopy(c) /\ rlLock' = c
    /\ UNCHANGED <<rlRing, rlSocket, rlClient, rlBreaks>>

\* Take the mutex: a shutdown, a gap to report first, or frames to write.
RlLook(c) ==
    /\ rlPc[c] = "loop" /\ rlLock = RlNobody
    /\ \/ /\ rlOwner = "stopped"
          /\ rlPc' = [rlPc EXCEPT ![c] = "bye"]
          /\ UNCHANGED <<rlLock, rlSent, rlBatch>>
       \/ /\ rlOwner # "stopped" /\ RlMissed(c)
          /\ rlPc' = [rlPc EXCEPT ![c] = "gap"]
          /\ rlLock' = c
          /\ UNCHANGED <<rlSent, rlBatch>>
       \/ /\ rlOwner # "stopped" /\ ~RlMissed(c) /\ rlSent[c] < rlLast
          /\ RlCopy(c)
          /\ UNCHANGED rlLock
    /\ UNCHANGED <<rlRing, rlSocket, rlClient, rlBreaks>>

\* maybe_write_gap; then the frames are copied and the mutex is released.
RlWriteGap(c) ==
    /\ rlPc[c] = "gap"
    /\ RlWrite(c, [kind |-> "gap", seq |-> rlSent[c], from |-> RlFront])
    /\ RlCopy(c)
    /\ rlLock' = RlNobody
    /\ UNCHANGED <<rlRing, rlClient, rlBreaks>>

RlSend(c) ==
    /\ rlPc[c] = "send"
    /\ RlWrite(c, [kind |-> "frame", seq |-> rlSent[c] + 1, from |-> 0])
    /\ rlSent' = [rlSent EXCEPT ![c] = @ + 1]
    /\ rlPc' = [rlPc EXCEPT ![c] = IF rlSent[c] + 1 = rlBatch[c] THEN "loop" ELSE "send"]
    /\ UNCHANGED <<rlRing, rlLock, rlBatch, rlClient, rlBreaks>>

RlSayShutdown(c) ==
    /\ rlPc[c] = "bye"
    /\ RlWrite(c, [kind |-> "shutdown", seq |-> 0, from |-> 0])
    /\ rlPc' = [rlPc EXCEPT ![c] = "closed"]
    /\ UNCHANGED <<rlRing, rlLock, rlSent, rlBatch, rlClient, rlBreaks>>

-----------------------------------------------------------------------------
(* CaptureRelayClient *)

\* connect_once: the thread starts from the cursor if it is of its session and
\* from the beginning of the ring otherwise (CursorReset).  The client takes
\* the new session's id and keeps its number: it reads the CursorReset as the
\* acknowledgement, and observe_cursor does not see it.
RlConnect(c) ==
    /\ rlOwner \in {"up", "stopping"} /\ rlLock = RlNobody
    /\ ~rlAttached[c] /\ ~rlSuspended[c]
    /\ rlAttached' = [rlAttached EXCEPT ![c] = TRUE]
    /\ rlPc' = [rlPc EXCEPT ![c] = "loop"]
    /\ rlCursor' = [rlCursor EXCEPT ![c].session = rlSession]
    /\ IF rlCursor[c].session = rlSession
       THEN /\ rlSent' = [rlSent EXCEPT ![c] = rlCursor[c].seq]
            /\ UNCHANGED <<rlGot, rlTold, rlCarried>>
       ELSE /\ rlSent' = [rlSent EXCEPT ![c] = 0]
            /\ rlGot' = [rlGot EXCEPT ![c] = {}]
            /\ rlTold' = [rlTold EXCEPT ![c] = {}]
            /\ rlCarried' = [rlCarried EXCEPT ![c] = rlCursor[c].seq > 0]
    /\ UNCHANGED <<rlRing, rlLock, rlBatch, rlSocket, rlSuspended, rlBreaks>>

\* try_recv and observe_cursor; a Shutdown ends the client's session too.
RlRead(c) ==
    /\ rlSocket[c] # <<>> /\ ~rlSuspended[c]
    /\ rlSocket' = [rlSocket EXCEPT ![c] = Tail(@)]
    /\ LET frame == Head(rlSocket[c]) IN
       CASE frame.kind = "frame" ->
              /\ rlGot' = [rlGot EXCEPT ![c] = @ \cup {frame.seq}]
              /\ rlCursor' = [rlCursor EXCEPT ![c].seq = Max({@, frame.seq})]
              /\ UNCHANGED <<rlTold, rlSuspended>>
         [] frame.kind = "gap" ->
              /\ rlTold' = [rlTold EXCEPT ![c] = @ \cup ((frame.seq + 1)..(frame.from - 1))]
              /\ UNCHANGED <<rlGot, rlCursor, rlSuspended>>
         [] frame.kind = "shutdown" ->
              /\ rlSuspended' = [rlSuspended EXCEPT ![c] = TRUE]
              /\ UNCHANGED <<rlGot, rlTold, rlCursor>>
    /\ UNCHANGED <<rlRing, rlThreads, rlAttached, rlCarried, rlBreaks>>

\* The end of the file, once all is read.
RlEof(c) ==
    /\ rlAttached[c] /\ ~rlSuspended[c] /\ rlSocket[c] = <<>>
    /\ rlPc[c] \in {"none", "closed"}
    /\ rlAttached' = [rlAttached EXCEPT ![c] = FALSE]
    /\ UNCHANGED <<rlRing, rlThreads, rlSocket, rlCursor, rlGot, rlTold, rlCarried, rlSuspended,
                   rlBreaks>>

\* The connection is lost, and what is in the socket with it.
RlBreak(c) ==
    /\ rlAttached[c] /\ rlBreaks < RlMaxBreaks
    /\ rlBreaks' = rlBreaks + 1
    /\ rlSocket' = [rlSocket EXCEPT ![c] = <<>>]
    /\ rlPc' = [rlPc EXCEPT ![c] = "none"]
    /\ rlLock' = IF rlLock = c THEN RlNobody ELSE rlLock
    /\ rlAttached' = [rlAttached EXCEPT ![c] = FALSE]
    /\ UNCHANGED <<rlRing, rlSent, rlBatch, rlCursor, rlGot, rlTold, rlCarried, rlSuspended>>

\* The client's process is stopped with its connection open.
RlSuspend(c) ==
    /\ rlAttached[c] /\ ~rlSuspended[c]
    /\ rlSuspended' = [rlSuspended EXCEPT ![c] = TRUE]
    /\ UNCHANGED <<rlRing, rlThreads, rlSocket, rlAttached, rlCursor, rlGot, rlTold, rlCarried,
                   rlBreaks>>

-----------------------------------------------------------------------------
RlThreadNext(c) == RlLook(c) \/ RlWriteGap(c) \/ RlSend(c) \/ RlSayShutdown(c)

CaptureRelayNext ==
    \/ RlPush \/ RlStop \/ RlStopped \/ RlExit \/ RlStart
    \/ \E c \in RlClients :
        RlThreadNext(c) \/ RlConnect(c) \/ RlRead(c) \/ RlEof(c) \/ RlBreak(c) \/ RlSuspend(c)

CaptureRelaySpec == CaptureRelayInit /\ [][CaptureRelayNext]_rlVars

\* The owner's threads run; a client that is not suspended polls its socket
\* five times a second (cli main.rs:10831).
CaptureRelayFairness ==
    /\ WF_rlVars(RlStopped)
    /\ \A c \in RlClients : WF_rlVars(RlThreadNext(c)) /\ WF_rlVars(RlRead(c))

-----------------------------------------------------------------------------
(* Properties *)

\* Whatever the ring drops and however often the client reconnects, each frame
\* up to its cursor was given to it or reported missing, and none is both.  It
\* does not hold for a client that was attached to an earlier owner: it keeps
\* that session's number, and a second reconnection skips as many frames of
\* the new one without a Gap (relay.rs:540, 905).
CursorAccounted(c) ==
    /\ ~rlCarried[c] => 1..rlCursor[c].seq \subseteq rlGot[c] \cup rlTold[c]
    /\ rlGot[c] \cap rlTold[c] = {}

\* No frame of a session is given to a client twice, and none after a later
\* one: a reconnection replays only what follows the cursor.
GivenOnceInOrder ==
    [][\A c \in RlClients :
          Len(rlSocket[c]') < Len(rlSocket[c]) /\ rlAttached[c]' /\ Head(rlSocket[c]).kind = "frame"
             => \A n \in rlGot[c] : n < Head(rlSocket[c]).seq]_rlVars

\* A client of the relay gets the frames of a session in order and once, and is
\* told of those it does not get (relay.rs:871-993).
RelayComplete ==
    /\ [](\A c \in RlClients : CursorAccounted(c))
    /\ GivenOnceInOrder

\* The owner waits for its relay to stop, and not for a client that stopped
\* reading just when a Gap was written to it under the mutex (relay.rs:918).
RlStopWaits ==
    rlOwner = "stopping" /\ ~\E c \in RlClients : rlPc[c] = "gap" /\ rlSuspended[c]

=============================================================================
