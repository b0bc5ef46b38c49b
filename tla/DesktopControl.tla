--------------------------- MODULE DesktopControl ---------------------------
(***************************************************************************)
(* Requests to the desktop app through files (core desktop_control.rs):    *)
(* the MCP server writes one, the app's control loop claims and serves it  *)
(* and answers with another file, while the server waits for ten seconds,  *)
(* and the app may die at any point and be started again.  A request       *)
(* starts a recording: the launches are those of AppRecording.             *)
(*                                                                         *)
(* Left out: what a request asks for, and the status file that tells       *)
(* clients that the app is there.                                          *)
(***************************************************************************)
EXTENDS AppRecording, Sequences, SequencesExt

CONSTANTS
    DkRequests,  \* requests, each of its own client
    DkMaxCrashes, \* bound: times the app dies
    DkMixed      \* bound: the app goes on after launches or a stop got mixed up

ASSUME DkAssumption == DkMaxCrashes \in Nat /\ DkMixed \in BOOLEAN

VARIABLES
    dkClient,   \* what the client of each request is at
    dkFile,     \* the request file
    dkResponse, \* the response file
    dkStep,     \* the control loop's position
    dkListed,   \* request files that read_dir gave
    dkClaimed,  \* requests that are claimed and not answered, in order
    dkLaunch,   \* the launch that each request led to
    dkAnswer,   \* the answer to be written
    dkCrashes,
    dkServes,   \* how often each request was served
    dkRevoked,  \* requests whose client took them back unclaimed
    dkTorn,     \* requests claimed before they were written
    dkOrphaned, \* requests whose app died
    dkMissed,   \* requests refused though the launch went on: the wait was over, or
                \* the flags were read at two times
    dkBegun     \* requests during whose service a recording got the PID file

dkHistory == <<dkCrashes, dkServes, dkRevoked, dkTorn, dkOrphaned, dkMissed>>
dkFiles == <<dkFile, dkResponse>>
dkLoop == <<dkStep, dkListed, dkClaimed, dkLaunch, dkAnswer>>
dkVars == <<dkClient, dkFiles, dkLoop, dkHistory, dkBegun>>

DkReplies == {"accepted", "refused", "confirm"}

DesktopControlTypeOK ==
    /\ AppRecordingTypeOK
    /\ dkClient \in [DkRequests -> {"new", "writing", "waiting", "gave up"} \cup DkReplies]
    /\ dkFile \in [DkRequests -> {"none", "torn", "whole", "claimed"}]
    /\ dkResponse \in [DkRequests -> {"none"} \cup DkReplies]
    /\ dkStep \in {"asleep", "claim", "serve", "launch", "wait", "starting", "answer"}
    /\ dkListed \subseteq DkRequests
    /\ Range(dkClaimed) \subseteq DkRequests
    /\ dkLaunch \in [DkRequests -> 0..ApMaxLaunches]
    /\ dkAnswer \in DkReplies
    /\ dkStep \in {"launch", "wait", "starting", "answer"} => dkClaimed # <<>>
    /\ \A r \in Range(dkClaimed) : dkFile[r] = "claimed"
    /\ dkCrashes \in 0..DkMaxCrashes
    /\ dkServes \in [DkRequests -> Nat]
    /\ dkRevoked \cup dkTorn \cup dkOrphaned \cup dkMissed \subseteq DkRequests
    /\ dkBegun \subseteq DkRequests

DesktopControlInit ==
    /\ AppRecordingInit
    /\ dkClient = [r \in DkRequests |-> "new"]
    /\ dkFile = [r \in DkRequests |-> "none"]
    /\ dkResponse = [r \in DkRequests |-> "none"]
    /\ dkStep = "asleep" /\ dkListed = {} /\ dkClaimed = <<>>
    /\ dkLaunch = [r \in DkRequests |-> 0]
    /\ dkAnswer = "refused"
    /\ dkCrashes = 0
    /\ dkServes = [r \in DkRequests |-> 0]
    /\ dkRevoked = {} /\ dkTorn = {} /\ dkOrphaned = {} /\ dkMissed = {}
    /\ dkBegun = {}

-----------------------------------------------------------------------------
(* The client: delegateRecordingToDesktop *)

\* writeFile creates the file and then fills it; what was claimed meanwhile is
\* not there any more.
DkWrite(r) ==
    /\ \/ /\ dkClient[r] = "new"
          /\ dkClient' = [dkClient EXCEPT ![r] = "writing"]
          /\ dkFile' = [dkFile EXCEPT ![r] = "torn"]
       \/ /\ dkClient[r] = "writing"
          /\ dkClient' = [dkClient EXCEPT ![r] = "waiting"]
          /\ dkFile' = [dkFile EXCEPT ![r] = IF @ = "torn" THEN "whole" ELSE @]
    /\ UNCHANGED <<apVars, dkResponse, dkLoop, dkHistory, dkBegun>>

DkRead(r) ==
    /\ dkClient[r] = "waiting" /\ dkResponse[r] # "none"
    /\ dkClient' = [dkClient EXCEPT ![r] = dkResponse[r]]
    /\ dkResponse' = [dkResponse EXCEPT ![r] = "none"]
    /\ UNCHANGED <<apVars, dkFile, dkLoop, dkHistory, dkBegun>>

\* Ten seconds are over: the request is removed, if it is still there.
DkGiveUp(r) ==
    /\ dkClient[r] = "waiting"
    /\ dkClient' = [dkClient EXCEPT ![r] = "gave up"]
    /\ dkFile' = [dkFile EXCEPT ![r] = IF @ = "claimed" THEN @ ELSE "none"]
    /\ dkRevoked' = IF dkFile[r] = "whole" THEN dkRevoked \cup {r} ELSE dkRevoked
    /\ UNCHANGED <<apVars, dkResponse, dkLoop, dkCrashes, dkServes, dkTorn, dkOrphaned, dkMissed,
                   dkBegun>>

-----------------------------------------------------------------------------
(* The control loop of the app *)

\* claim_pending_requests: read_dir
DkList ==
    /\ dkStep = "asleep"
    /\ dkListed' = {r \in DkRequests : dkFile[r] \in {"torn", "whole"}}
    /\ dkListed' # {}
    /\ dkStep' = "claim"
    /\ UNCHANGED <<apVars, dkClient, dkFiles, dkClaimed, dkLaunch, dkAnswer, dkHistory, dkBegun>>

\* Mutant of DkClaim: a rename that fails is ignored.
DkClaimAnyway(r) ==
    /\ dkStep = "claim" /\ r \in dkListed
    /\ dkListed' = dkListed \ {r}
    /\ dkFile' = [dkFile EXCEPT ![r] = "claimed"]
    /\ dkClaimed' = Append(dkClaimed, r)
    /\ UNCHANGED <<apVars, dkClient, dkResponse, dkStep, dkLaunch, dkAnswer, dkHistory, dkBegun>>

\* One file: a rename, which fails if the client was faster, and a read; what
\* cannot be parsed is removed.
DkClaim(r) ==
    /\ dkStep = "claim" /\ r \in dkListed
    /\ dkListed' = dkListed \ {r}
    /\ dkFile' = [dkFile EXCEPT ![r] = IF @ = "whole" THEN "claimed" ELSE "none"]
    /\ dkClaimed' = IF dkFile[r] = "whole" THEN Append(dkClaimed, r) ELSE dkClaimed
    /\ dkTorn' = IF dkFile[r] = "torn" THEN dkTorn \cup {r} ELSE dkTorn
    /\ UNCHANGED <<apVars, dkClient, dkResponse, dkStep, dkLaunch, dkAnswer, dkCrashes, dkServes,
                   dkRevoked, dkOrphaned, dkMissed, dkBegun>>

\* The next claimed request; when there is none, the loop sleeps.
DkNext ==
    /\ \/ dkStep = "claim" /\ dkListed = {}
       \/ dkStep = "serve"
    /\ IF dkClaimed = <<>>
       THEN dkStep' = "asleep" /\ UNCHANGED dkServes
       ELSE /\ dkStep' = "launch"
            /\ dkServes' = [dkServes EXCEPT ![Head(dkClaimed)] = @ + 1]
    /\ UNCHANGED <<apVars, dkClient, dkFiles, dkListed, dkClaimed, dkLaunch, dkAnswer, dkCrashes,
                   dkRevoked, dkTorn, dkOrphaned, dkMissed, dkBegun>>

DkReply(answer) == dkStep' = "answer" /\ dkAnswer' = answer

\* launch_recording: the user is to consent first, or the launch is checked ...
DkLaunch(i) ==
    /\ dkStep = "launch" /\ dkLaunch[Head(dkClaimed)] = 0
    /\ \/ DkReply("confirm") /\ UNCHANGED <<apVars, dkLaunch>>
       \/ /\ ApCheck(i)
          /\ dkLaunch' = [dkLaunch EXCEPT ![Head(dkClaimed)] = i]
          /\ IF ApMayLaunch THEN UNCHANGED <<dkStep, dkAnswer>> ELSE DkReply("refused")
    /\ UNCHANGED <<dkClient, dkFiles, dkListed, dkClaimed, dkHistory, dkBegun>>

\* ... and reserved.
DkReserve ==
    /\ dkStep = "launch" /\ dkLaunch[Head(dkClaimed)] # 0
    /\ ApReserve(dkLaunch[Head(dkClaimed)])
    /\ IF apStarting THEN DkReply("refused") ELSE dkStep' = "wait" /\ UNCHANGED dkAnswer
    /\ UNCHANGED <<dkClient, dkFiles, dkListed, dkClaimed, dkLaunch, dkHistory, dkBegun>>

\* handle_desktop_control_request waits up to twelve seconds: it looks whether a
\* recording is active ...
DkWait ==
    /\ dkStep = "wait"
    /\ IF ApActive THEN DkReply("accepted") ELSE dkStep' = "starting" /\ UNCHANGED dkAnswer
    /\ UNCHANGED <<apVars, dkClient, dkFiles, dkListed, dkClaimed, dkLaunch, dkHistory, dkBegun>>

\* ... and then whether one is still starting; in the end it gives up.
DkStarting ==
    /\ dkStep = "starting"
    /\ \/ /\ ~apStarting
          /\ DkReply("refused")
          /\ dkMissed' = IF ApActive THEN dkMissed \cup {Head(dkClaimed)} ELSE dkMissed
       \/ /\ apStarting
          /\ dkStep' = "wait" /\ UNCHANGED <<dkAnswer, dkMissed>>
       \/ /\ apStarting
          /\ DkReply("refused")
          /\ dkMissed' = dkMissed \cup {Head(dkClaimed)}
    /\ UNCHANGED <<apVars, dkClient, dkFiles, dkListed, dkClaimed, dkLaunch, dkCrashes, dkServes,
                   dkRevoked, dkTorn, dkOrphaned, dkBegun>>

\* write_response, finish_claimed_request
DkRespond ==
    /\ dkStep = "answer"
    /\ dkResponse' = [dkResponse EXCEPT ![Head(dkClaimed)] = dkAnswer]
    /\ dkFile' = [dkFile EXCEPT ![Head(dkClaimed)] = "none"]
    /\ dkClaimed' = Tail(dkClaimed)
    /\ dkStep' = "serve"
    /\ UNCHANGED <<apVars, dkClient, dkListed, dkLaunch, dkAnswer, dkHistory, dkBegun>>

\* The app dies with its threads and is started again; a PID file that names a
\* dead process counts for nothing.
DkCrash ==
    /\ dkCrashes < DkMaxCrashes
    /\ dkCrashes' = dkCrashes + 1
    /\ dkStep' = "asleep" /\ dkListed' = {} /\ dkClaimed' = <<>>
    /\ dkOrphaned' = dkOrphaned \cup {r \in DkRequests : dkFile[r] = "claimed"}
    /\ apPid' = IF apPid = ApOther THEN ApOther ELSE 0
    /\ apStarting' = FALSE /\ apRecording' = FALSE /\ apStopFlag' = FALSE
    /\ apPc' = [i \in ApLaunches |-> IF apPc[i] \in {"none", "refused"} THEN apPc[i] ELSE "done"]
    /\ apStopper' = 0
    /\ UNCHANGED <<apOthers, apHistory, dkClient, dkFiles, dkLaunch, dkAnswer, dkServes, dkRevoked,
                   dkTorn, dkMissed, dkBegun>>

-----------------------------------------------------------------------------
\* Launches of the window, the palette or a hotkey, and what launches do.
DkAppStep ==
    /\ DkMixed \/ ~(apOverlap \/ apStrayStop)
    /\ \/ \E i \in ApLaunches :
            ApCheck(i) \/ (i \notin Range(dkLaunch) /\ ApReserve(i)) \/ ApThreadNext(i)
       \/ ApEnvironment
    /\ dkBegun' = IF dkStep \in {"launch", "wait", "starting"} /\ apPid' # 0
                  THEN dkBegun \cup {Head(dkClaimed)} ELSE dkBegun
    /\ UNCHANGED <<dkClient, dkFiles, dkLoop, dkHistory>>

DesktopControlNext ==
    \/ \E r \in DkRequests : DkWrite(r) \/ DkRead(r) \/ DkGiveUp(r) \/ DkClaim(r)
    \/ DkList \/ DkNext \/ (\E i \in ApLaunches : DkLaunch(i)) \/ DkReserve
    \/ DkWait \/ DkStarting \/ DkRespond \/ DkCrash
    \/ DkAppStep

DesktopControlSpec ==
    DesktopControlInit /\ [][DesktopControlNext]_<<apVars, dkVars>>

-----------------------------------------------------------------------------
(* Properties *)

\* A request that its client took back in time starts nothing.
RevokedNotServed == \A r \in dkRevoked : dkServes[r] = 0

\* A request is served once at most, also after a crash: the claim outlives it.
ServedOnce == \A r \in DkRequests : dkServes[r] =< 1

\* A request is still to be claimed, is being served, or has its answer; unless
\* the app took it before it was written (the client writes it in place,
\* index.ts:957) or died (nobody claims a claimed request, desktop_control.rs:170).
NotForgotten ==
    \A r \in DkRequests : dkClient[r] = "waiting" =>
        \/ dkFile[r] = "whole" \/ r \in Range(dkClaimed)
        \/ dkResponse[r] # "none"
        \/ r \in dkTorn \/ r \in dkOrphaned

\* As long as neither launches nor a stop got in each other's way: "accepted"
\* means that a recording, perhaps of another process (recording_active counts
\* it too), began while the request was served; "refused" means that the launch
\* is over, unless the wait was (commands.rs:6140) or the start was completed
\* between two reads.
AnswersAreTrue ==
    ~apOverlap /\ ~apStrayStop => \A r \in DkRequests :
        /\ dkClient[r] = "accepted" => r \in dkBegun
        /\ dkClient[r] = "refused" =>
            \/ apPc[dkLaunch[r]] \in {"refused", "captured", "removed", "done"}
            \/ r \in dkMissed

\* A request is served once or answered otherwise, unless it was revoked, and the
\* answer is true (desktop_control.rs:156, commands.rs:6097).
RequestsServed ==
    /\ RevokedNotServed
    /\ ServedOnce
    /\ NotForgotten
    /\ AnswersAreTrue

=============================================================================
