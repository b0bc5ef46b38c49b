--------------------------- MODULE DesktopProofs ----------------------------
(***************************************************************************)
(* Proofs about AppRecording for every number of launches and of other     *)
(* processes; on top of them, about DesktopControl for every set of        *)
(* requests and every number of deaths of the app; and about CallEnd for   *)
(* every number of recordings, calls and countdowns.                       *)
(***************************************************************************)
EXTENDS DesktopControl, CallEnd, TLAPS

-----------------------------------------------------------------------------
(* AppRecording: the flags of recordings *)

\* The reservation and `recording` are each backed by a launch, the flag only as
\* long as no stop went astray.
FlagsBacked ==
    /\ apStarting => \E i \in ApLaunches : apPc[i] \in ApPending
    /\ apRecording /\ ~apStrayStop => \E i \in ApLaunches : apPc[i] = "capturing"

\* A pending launch has its reservation, unless another one cleared it.
PendingReserved ==
    ~apOverlap => \A i \in ApLaunches : apPc[i] \in ApPending => apStarting

\* Only launches that have captured were asked to stop.
AskedHaveBegun ==
    \A i \in apAsked : apPc[i] \in {"capturing", "done"} \cup ApEnding

LaunchesInv ==
    /\ AppRecordingTypeOK
    /\ FlagsBacked
    /\ PendingReserved
    /\ OneStartAtATime
    /\ AskedHaveBegun
    /\ StopIsOwn

-----------------------------------------------------------------------------
(* Typing *)

\* 0 and another process are no launches.
LEMMA LaunchNumbers == 0 \notin ApLaunches /\ ApOther \notin ApLaunches
BY ApAssumption DEF ApAssumption, ApLaunches

LEMMA TypeInit == AppRecordingInit => AppRecordingTypeOK
<1> SUFFICES ASSUME AppRecordingInit
             PROVE  AppRecordingTypeOK
  OBVIOUS
<1> QED
  BY LaunchNumbers DEF AppRecordingInit, AppRecordingTypeOK, ApPending, ApEnding

LEMMA TypeNext == AppRecordingTypeOK /\ [AppRecordingNext]_apVars => AppRecordingTypeOK'
<1> SUFFICES ASSUME AppRecordingTypeOK, [AppRecordingNext]_apVars
             PROVE  AppRecordingTypeOK'
  OBVIOUS
<1> USE LaunchNumbers DEF AppRecordingTypeOK, ApPending, ApEnding, ApGo, apHistory
<1>1. ASSUME NEW i \in ApLaunches, ApCheck(i)
      PROVE  AppRecordingTypeOK'
  BY <1>1 DEF ApCheck
<1>2. ASSUME NEW i \in ApLaunches, ApReserve(i)
      PROVE  AppRecordingTypeOK'
  BY <1>2 DEF ApReserve, ApActive
<1>3. ASSUME NEW i \in ApLaunches, ApThreadNext(i)
      PROVE  AppRecordingTypeOK'
  <2>1. CASE ApStartFails(i) BY <2>1 DEF ApStartFails, ApUnder
  <2>2. CASE ApCreate(i)     BY <2>2 DEF ApCreate
  <2>3. CASE ApSensitive(i)  BY <2>3 DEF ApSensitive, ApUnder
  <2>4. CASE ApBegin(i)      BY <2>4 DEF ApBegin
  <2>5. CASE ApEnd(i)        BY <2>5 DEF ApEnd
  <2>6. CASE ApRemove(i)     BY <2>6 DEF ApRemove
  <2>7. CASE ApClear(i)      BY <2>7 DEF ApClear, ApUnder
  <2> QED
    BY <1>3, <2>1, <2>2, <2>3, <2>4, <2>5, <2>6, <2>7 DEF ApThreadNext
<1>4. CASE ApStopLook
  BY <1>4 DEF ApStopLook
<1>5. CASE ApStopDo
  BY <1>5 DEF ApStopDo
<1>6. CASE ApOtherStarts \/ ApOtherEnds
  <2>1. apOthers' \in 0..ApMaxOthers
    BY <1>6, ApAssumption DEF ApAssumption, ApOtherStarts, ApOtherEnds
  <2> QED
    BY <1>6, <2>1 DEF ApOtherStarts, ApOtherEnds
<1>7. CASE UNCHANGED apVars
  BY <1>7 DEF apVars
<1> QED
  BY <1>1, <1>2, <1>3, <1>4, <1>5, <1>6, <1>7 DEF AppRecordingNext, ApEnvironment

\* Flags and positions stay in their ranges, and the PID file names a launch of the
\* app exactly from its pid::create to its pid::remove (commands.rs:4150-5985).
THEOREM Typing == AppRecordingSpec => []AppRecordingTypeOK
BY TypeInit, TypeNext, PTL DEF AppRecordingSpec

-----------------------------------------------------------------------------
(* Launches do not get in each other's way *)

LEMMA LaunchesInit == AppRecordingInit => LaunchesInv
<1> SUFFICES ASSUME AppRecordingInit
             PROVE  LaunchesInv
  OBVIOUS
<1>1. AppRecordingTypeOK
  BY TypeInit
<1> QED
  BY <1>1 DEF LaunchesInv, AppRecordingInit, FlagsBacked, PendingReserved, OneStartAtATime,
              AskedHaveBegun, StopIsOwn, ApPending

\* One launch at most has the PID file.
LEMMA OneHasPid ==
    ASSUME AppRecordingTypeOK, NEW i \in ApLaunches, NEW j \in ApLaunches,
           apPc[i] \in {"created", "capturing", "captured"},
           apPc[j] \in {"created", "capturing", "captured"}
    PROVE  i = j
BY DEF AppRecordingTypeOK

\* A launch that ends before it captured, and one whose last stores are made.
LEMMA EndingKeepsLaunches ==
    ASSUME LaunchesInv, AppRecordingTypeOK', NEW i \in ApLaunches,
           ApStartFails(i) \/ ApSensitive(i) \/ ApClear(i)
    PROVE  LaunchesInv'
<1> USE DEF LaunchesInv, AppRecordingTypeOK
<1>1. /\ apPc' = [apPc EXCEPT ![i] = "done"]
      /\ apPc[i] \in ApPending \cup {"removed"}
      /\ apStarting' = FALSE
      /\ apRecording' => apRecording
      /\ ApUnder(i)
      /\ UNCHANGED <<apStopFlag, apAsked, apStrayStop>>
  BY DEF ApStartFails, ApSensitive, ApClear, ApGo, ApPending
<1>2. FlagsBacked'
  BY <1>1 DEF FlagsBacked, ApPending
<1>3. PendingReserved' /\ OneStartAtATime'
  BY <1>1 DEF ApUnder, PendingReserved, OneStartAtATime, ApPending
<1>4. AskedHaveBegun'
  BY <1>1 DEF AskedHaveBegun, ApEnding
<1>5. StopIsOwn'
  BY <1>1 DEF StopIsOwn, ApPending
<1> QED
  BY <1>2, <1>3, <1>4, <1>5

LEMMA LaunchesNext == LaunchesInv /\ [AppRecordingNext]_apVars => LaunchesInv'
<1> SUFFICES ASSUME LaunchesInv, [AppRecordingNext]_apVars
             PROVE  LaunchesInv'
  OBVIOUS
<1>0. AppRecordingTypeOK'
  BY TypeNext DEF LaunchesInv
<1> USE <1>0 DEF LaunchesInv, AppRecordingTypeOK
<1>1. ASSUME NEW i \in ApLaunches, ApCheck(i)
      PROVE  LaunchesInv'
  <2> USE DEF ApCheck, ApGo, apHistory
  <2>1. FlagsBacked' BY <1>1 DEF FlagsBacked, ApPending
  <2>2. PendingReserved' /\ OneStartAtATime'
    BY <1>1 DEF PendingReserved, OneStartAtATime, ApPending
  <2>3. AskedHaveBegun' BY <1>1 DEF AskedHaveBegun, ApEnding
  <2>4. StopIsOwn' BY <1>1 DEF StopIsOwn
  <2> QED BY <2>1, <2>2, <2>3, <2>4
<1>2. ASSUME NEW i \in ApLaunches, ApReserve(i)
      PROVE  LaunchesInv'
  <2> USE DEF ApReserve, ApGo
  <2>1. FlagsBacked' BY <1>2 DEF FlagsBacked, ApPending
  <2>2. PendingReserved' BY <1>2 DEF PendingReserved, ApPending
  <2>3. OneStartAtATime' BY <1>2 DEF PendingReserved, OneStartAtATime, ApPending
  <2>4. AskedHaveBegun' BY <1>2 DEF AskedHaveBegun, ApEnding
  <2>5. StopIsOwn' BY <1>2 DEF StopIsOwn
  <2> QED BY <2>1, <2>2, <2>3, <2>4, <2>5
<1>3. ASSUME NEW i \in ApLaunches, ApCreate(i)
      PROVE  LaunchesInv'
  <2> USE DEF ApCreate, ApGo, apHistory
  <2>1. FlagsBacked' BY <1>3 DEF FlagsBacked, ApPending
  <2>2. PendingReserved' /\ OneStartAtATime'
    BY <1>3 DEF PendingReserved, OneStartAtATime, ApPending
  <2>3. AskedHaveBegun' BY <1>3 DEF AskedHaveBegun, ApEnding
  <2>4. StopIsOwn' BY <1>3 DEF StopIsOwn
  <2> QED BY <2>1, <2>2, <2>3, <2>4
<1>4. ASSUME NEW i \in ApLaunches, ApBegin(i)
      PROVE  LaunchesInv'
  <2> USE DEF ApBegin, ApGo, apHistory
  <2>1. FlagsBacked' BY <1>4 DEF FlagsBacked, ApPending
  <2>2. PendingReserved' /\ OneStartAtATime'
    BY <1>4 DEF PendingReserved, OneStartAtATime, ApPending
  <2>3. AskedHaveBegun' BY <1>4 DEF AskedHaveBegun, ApEnding
  <2>4. \A j \in ApLaunches : apPc'[j] = "capturing" => j = i
    BY <1>4, OneHasPid
  <2>5. i \notin apAsked
    BY <1>4 DEF AskedHaveBegun, ApEnding
  <2>6. StopIsOwn' BY <1>4, <2>4, <2>5 DEF StopIsOwn
  <2> QED BY <2>1, <2>2, <2>3, <2>6
<1>5. ASSUME NEW i \in ApLaunches, ApEnd(i) \/ ApRemove(i)
      PROVE  LaunchesInv'
  <2> USE DEF ApEnd, ApRemove, ApGo, apHistory
  <2>1. FlagsBacked' BY <1>5 DEF FlagsBacked, ApPending
  <2>2. PendingReserved' /\ OneStartAtATime'
    BY <1>5 DEF PendingReserved, OneStartAtATime, ApPending
  <2>3. AskedHaveBegun' BY <1>5 DEF AskedHaveBegun, ApEnding
  <2>4. StopIsOwn' BY <1>5 DEF StopIsOwn
  <2> QED BY <2>1, <2>2, <2>3, <2>4
<1>6. CASE ApStopLook
  BY <1>6 DEF ApStopLook, apHistory, FlagsBacked, PendingReserved, OneStartAtATime,
              AskedHaveBegun, StopIsOwn
<1>7. CASE ApStopDo
  <2> USE <1>7 DEF ApStopDo
  <2>1. FlagsBacked' BY DEF FlagsBacked
  <2>2. PendingReserved' /\ OneStartAtATime'
    BY DEF PendingReserved, OneStartAtATime
  <2>3. AskedHaveBegun' BY DEF AskedHaveBegun
  <2>4. StopIsOwn' BY OneHasPid DEF StopIsOwn
  <2> QED BY <2>1, <2>2, <2>3, <2>4
<1>8. CASE ApOtherStarts \/ ApOtherEnds
  BY <1>8 DEF ApOtherStarts, ApOtherEnds, apHistory, FlagsBacked, PendingReserved,
              OneStartAtATime, AskedHaveBegun, StopIsOwn
<1>9. CASE UNCHANGED apVars
  BY <1>9 DEF apVars, apHistory, FlagsBacked, PendingReserved, OneStartAtATime,
              AskedHaveBegun, StopIsOwn
<1> QED
  BY <1>1, <1>2, <1>3, <1>4, <1>5, <1>6, <1>7, <1>8, <1>9, EndingKeepsLaunches
     DEF AppRecordingNext, ApThreadNext, ApEnvironment

\* Whatever the launches, their threads, stops and other processes do, starts and
\* stops stay apart and the flags come to rest, with the exceptions that
\* LaunchesApart names (commands.rs:3757, 4150-5985).
THEOREM Apart == AppRecordingSpec => []LaunchesApart
<1>1. LaunchesInv => LaunchesApart
  BY DEF LaunchesInv, LaunchesApart, NothingStuck, FlagsBacked, ApPending
<1> QED
  BY LaunchesInit, LaunchesNext, <1>1, PTL DEF AppRecordingSpec


-----------------------------------------------------------------------------
(* DesktopControl: the requests that launch them *)

Serving == {"launch", "wait", "starting", "answer"}
Over == {"refused", "captured", "removed", "done"}

Typed ==
    /\ dkClient \in [DkRequests -> {"new", "writing", "waiting", "gave up"} \cup DkReplies]
    /\ dkFile \in [DkRequests -> {"none", "torn", "whole", "claimed"}]
    /\ dkResponse \in [DkRequests -> {"none"} \cup DkReplies]
    /\ dkStep \in {"asleep", "claim", "serve"} \cup Serving
    /\ dkListed \subseteq DkRequests
    /\ dkClaimed \in Seq(DkRequests)
    /\ dkLaunch \in [DkRequests -> 0..ApMaxLaunches]
    /\ dkAnswer \in DkReplies
    /\ dkServes \in [DkRequests -> Nat]
    /\ dkRevoked \subseteq DkRequests

\* The loop's list of claims: each once, its file claimed, none listed again.
Distinct == \A j, k \in 1..Len(dkClaimed) : dkClaimed[j] = dkClaimed[k] => j = k

Claims ==
    \A k \in 1..Len(dkClaimed) :
        dkFile[dkClaimed[k]] = "claimed" /\ dkClaimed[k] \notin dkListed

Steps ==
    /\ dkListed # {} => dkStep = "claim"
    /\ dkStep = "asleep" => dkClaimed = <<>>
    /\ dkStep \in Serving => dkClaimed # <<>>

\* What has not been claimed, what waits in the list and what was taken back has
\* not been served; what is being served, has.
Once ==
    \A r \in DkRequests :
        /\ dkServes[r] \in {0, 1}
        /\ dkFile[r] \in {"torn", "whole"} => dkServes[r] = 0
        /\ dkServes[r] = 0 => dkLaunch[r] = 0

InHand ==
    \A k \in 1..Len(dkClaimed) :
        dkServes[dkClaimed[k]] = IF k = 1 /\ dkStep \in Serving THEN 1 ELSE 0

TakenBack ==
    \A r \in dkRevoked : dkServes[r] = 0 /\ dkFile[r] = "none" /\ dkClient[r] = "gave up"

Serves == Once /\ InHand /\ TakenBack

\* A request that is being written is still there, or was taken too early.
Written ==
    \A r \in DkRequests :
        /\ dkClient[r] = "new" => dkFile[r] = "none" /\ dkServes[r] = 0
        /\ dkClient[r] = "writing" =>
              /\ dkFile[r] = "torn" \/ (dkFile[r] = "none" /\ r \in dkTorn)
              /\ dkServes[r] = 0

Waits ==
    \A r \in DkRequests : dkClient[r] = "waiting" =>
        \/ dkFile[r] = "whole" \/ \E k \in 1..Len(dkClaimed) : dkClaimed[k] = r
        \/ dkResponse[r] # "none"
        \/ r \in dkTorn \/ r \in dkOrphaned

\* The launch of the request that is being served, and a recording since then.
Launching ==
    LET i == dkLaunch[Head(dkClaimed)]
    IN  /\ dkStep = "launch" /\ i # 0 => apPc[i] = "checked"
        /\ dkStep \in {"wait", "starting"} => i # 0 /\ apPc[i] \notin {"none", "checked"}
        /\ dkStep \in {"launch", "wait", "starting"} /\ i # 0 /\ apPid # 0 =>
              Head(dkClaimed) \in dkBegun

\* What an answer says of its request is so, be it about to be written, in its
\* file or with the client.
IsTrueOf(r, answer) ==
    /\ answer = "accepted" => r \in dkBegun
    /\ answer = "refused" =>
          (dkLaunch[r] # 0 /\ apPc[dkLaunch[r]] \in Over) \/ r \in dkMissed

Answers ==
    ~apOverlap /\ ~apStrayStop =>
        /\ dkStep = "answer" => IsTrueOf(Head(dkClaimed), dkAnswer)
        /\ \A r \in DkRequests : IsTrueOf(r, dkResponse[r]) /\ IsTrueOf(r, dkClient[r])

LoopInv == Typed /\ Distinct /\ Claims /\ Steps /\ Serves /\ Written /\ Waits

-----------------------------------------------------------------------------
(* Claiming and serving, whatever recordings do *)

LEMMA Tails ==
    ASSUME NEW S, NEW s \in Seq(S), s # <<>>
    PROVE  /\ 1 \in 1..Len(s) /\ Head(s) = s[1] /\ Head(s) \in S
           /\ Tail(s) \in Seq(S)
           /\ \A k \in 1..Len(Tail(s)) : k + 1 \in 2..Len(s) /\ Tail(s)[k] = s[k + 1]
           /\ \A k \in 2..Len(s) : k - 1 \in 1..Len(Tail(s)) /\ Tail(s)[k - 1] = s[k]
OBVIOUS

LEMMA Appends ==
    ASSUME NEW S, NEW s \in Seq(S), NEW x \in S
    PROVE  /\ Append(s, x) \in Seq(S)
           /\ \A k \in 1..Len(s) : k \in 1..Len(Append(s, x)) /\ Append(s, x)[k] = s[k]
           /\ Len(s) + 1 \in 1..Len(Append(s, x)) /\ Append(s, x)[Len(s) + 1] = x
           /\ \A k \in 1..Len(Append(s, x)) : k \in 1..Len(s) \/ k = Len(s) + 1
OBVIOUS

LEMMA ClaimedRequests ==
    ASSUME Typed
    PROVE  Len(dkClaimed) \in Nat /\ \A k \in 1..Len(dkClaimed) : dkClaimed[k] \in DkRequests
<1>1. dkClaimed \in Seq(DkRequests)
  BY DEF Typed
<1> QED
  BY <1>1

LEMMA LoopInit == DesktopControlInit => LoopInv
<1> SUFFICES ASSUME DesktopControlInit
             PROVE  LoopInv
  OBVIOUS
<1> USE DEF DesktopControlInit
<1>1. Typed
  BY ApAssumption DEF ApAssumption, Typed, DkReplies, Serving
<1>2. Distinct /\ Claims /\ Steps /\ Serves /\ Written /\ Waits
  BY DEF Distinct, Claims, Steps, Serves, Once, InHand, TakenBack, Written, Waits, Serving
<1> QED
  BY <1>1, <1>2 DEF LoopInv

\* A step that leaves the list of claims, or the requests themselves, alone.
LEMMA SameClaims ==
    ASSUME Distinct, Steps, UNCHANGED <<dkStep, dkListed, dkClaimed>>
    PROVE  Distinct' /\ Steps'
  BY DEF Distinct, Steps

LEMMA SameHand ==
    ASSUME InHand, UNCHANGED <<dkStep, dkClaimed, dkServes>>
    PROVE  InHand'
  BY DEF InHand

\* Steps of the clients.
LEMMA ClientKeepsLoop ==
    ASSUME LoopInv, NEW r \in DkRequests, DkWrite(r) \/ DkRead(r) \/ DkGiveUp(r)
    PROVE  LoopInv'
<1>0. Len(dkClaimed) \in Nat /\ \A k \in 1..Len(dkClaimed) : dkClaimed[k] \in DkRequests
  BY ClaimedRequests DEF LoopInv
<1>1. Distinct' /\ Steps'
  <2>1. UNCHANGED <<dkStep, dkListed, dkClaimed>>
    BY DEF DkWrite, DkRead, DkGiveUp, dkLoop
  <2> QED BY <2>1, SameClaims DEF LoopInv
<1> USE <1>0 DEF LoopInv, Typed, dkLoop, dkHistory, DkReplies
<1>2. CASE DkWrite(r)
  <2> USE <1>2 DEF DkWrite
  <2>1. Typed' OBVIOUS
  <2>3. Claims'
    <3>1. \A k \in 1..Len(dkClaimed) : dkClaimed[k] # r
      BY DEF Claims, Written
    <3> QED BY <3>1 DEF Claims
  <2>4. Serves'
    <3>0. dkRevoked \subseteq DkRequests OBVIOUS
    <3>1. /\ UNCHANGED <<dkStep, dkClaimed, dkServes, dkLaunch, dkRevoked>>
          /\ \A q \in DkRequests : q # r => dkFile'[q] = dkFile[q] /\ dkClient'[q] = dkClient[q]
          /\ dkClient[r] # "gave up" /\ dkServes[r] = 0
      BY DEF Written
    <3>2. InHand' BY <3>1, SameHand DEF Serves
    <3> HIDE <1>2 DEF Typed, DkWrite
    <3>3. Once' BY <3>1 DEF Serves, Once
    <3>4. TakenBack' BY <3>0, <3>1 DEF Serves, TakenBack
    <3> QED BY <3>2, <3>3, <3>4 DEF Serves
  <2>5. Written'
    <3>1. ASSUME NEW q \in DkRequests, q # r
          PROVE  /\ dkFile'[q] = dkFile[q] /\ dkClient'[q] = dkClient[q]
                 /\ dkServes'[q] = dkServes[q] /\ dkTorn' = dkTorn
      BY <3>1
    <3>2. /\ dkClient'[r] = "writing" => dkFile'[r] = "torn"
          /\ dkClient'[r] # "new" /\ dkServes'[r] = 0
      BY DEF Written
    <3> HIDE <1>2 DEF Typed, DkWrite
    <3>3. \A q \in DkRequests : q # r =>
              /\ dkClient'[q] = "new" => dkFile'[q] = "none" /\ dkServes'[q] = 0
              /\ dkClient'[q] = "writing" =>
                    /\ dkFile'[q] = "torn" \/ (dkFile'[q] = "none" /\ q \in dkTorn')
                    /\ dkServes'[q] = 0
      BY <3>1 DEF Written
    <3> QED BY <3>2, <3>3 DEF Written
  <2>6. Waits' BY DEF Written, Waits
  <2> QED BY <1>1, <2>1, <2>3, <2>4, <2>5, <2>6
<1>3. CASE DkRead(r)
  <2> USE <1>3 DEF DkRead
  <2>1. Typed' OBVIOUS
  <2>3. Claims' BY DEF Claims
  <2>4. Serves'
    <3>0. dkRevoked \subseteq DkRequests OBVIOUS
    <3>1. /\ UNCHANGED <<dkStep, dkClaimed, dkServes, dkLaunch, dkRevoked, dkFile>>
          /\ \A q \in DkRequests : q # r => dkClient'[q] = dkClient[q]
          /\ dkClient[r] # "gave up"
      OBVIOUS
    <3>2. InHand' BY <3>1, SameHand DEF Serves
    <3> HIDE <1>3 DEF Typed, DkRead
    <3>3. Once' BY <3>1 DEF Serves, Once
    <3>4. TakenBack' BY <3>0, <3>1 DEF Serves, TakenBack
    <3> QED BY <3>2, <3>3, <3>4 DEF Serves
  <2>5. Written' /\ Waits' BY DEF Written, Waits
  <2> QED BY <1>1, <2>1, <2>3, <2>4, <2>5
<1>4. CASE DkGiveUp(r)
  <2> USE <1>4 DEF DkGiveUp
  <2>1. Typed' OBVIOUS
  <2>3. Claims' BY DEF Claims
  <2>4. Serves'
    <3>1. Once' BY DEF Serves, Once
    <3>2. InHand' BY SameHand DEF Serves
    <3>3. TakenBack'
      <4>1. /\ dkRevoked \subseteq DkRequests /\ dkServes' = dkServes
            /\ \A q \in DkRequests : q # r => dkFile'[q] = dkFile[q] /\ dkClient'[q] = dkClient[q]
            /\ dkClient'[r] = "gave up" /\ dkClient[r] # "gave up"
        OBVIOUS
      <4>2. r \in dkRevoked' => dkFile'[r] = "none" /\ dkServes[r] = 0
        <5>1. r \notin dkRevoked BY <4>1 DEF Serves, TakenBack
        <5>2. r \in dkRevoked' => dkFile[r] = "whole" BY <5>1
        <5>3. dkFile[r] = "whole" => dkFile'[r] = "none" OBVIOUS
        <5> QED BY <5>2, <5>3 DEF Serves, Once
      <4>3. dkRevoked' \subseteq dkRevoked \cup {r} OBVIOUS
      <4> HIDE <1>4 DEF Typed, DkGiveUp
      <4> QED BY <4>1, <4>2, <4>3 DEF Serves, TakenBack
    <3> QED BY <3>1, <3>2, <3>3 DEF Serves
  <2>5. Written' /\ Waits' BY DEF Written, Waits
  <2> QED BY <1>1, <2>1, <2>3, <2>4, <2>5
<1> QED
  BY <1>2, <1>3, <1>4

\* Listing and claiming.
LEMMA ClaimKeepsLoop ==
    ASSUME LoopInv, DkList \/ \E r \in DkRequests : DkClaim(r)
    PROVE  LoopInv'
<1>0. Len(dkClaimed) \in Nat /\ \A k \in 1..Len(dkClaimed) : dkClaimed[k] \in DkRequests
  BY ClaimedRequests DEF LoopInv
<1> USE <1>0 DEF LoopInv, Typed, dkFiles, dkHistory, DkReplies
<1>1. CASE DkList
  <2> USE <1>1 DEF DkList
  <2>1. Typed' BY DEF Serving
  <2>2. Distinct' BY DEF Distinct
  <2>3. Claims' BY DEF Claims
  <2>4. Serves'
    <3>1. Once' BY DEF Serves, Once
    <3>2. InHand' BY DEF Serves, InHand, Serving
    <3>3. TakenBack' BY DEF Serves, Once, TakenBack
    <3> QED BY <3>1, <3>2, <3>3 DEF Serves
  <2>5. Written' /\ Waits' BY DEF Written, Waits
  <2>6. Steps'
    <3>1. dkStep = "asleep" /\ dkClaimed' = dkClaimed /\ (dkListed' # {} => dkStep' = "claim")
      OBVIOUS
    <3>2. dkClaimed = <<>> BY <3>1 DEF Steps
    <3>3. dkStep' \notin Serving BY DEF Serving
    <3> HIDE DEF Typed, DkList
    <3> QED BY <3>1, <3>2, <3>3 DEF Steps
  <2> QED BY <2>1, <2>2, <2>3, <2>4, <2>5, <2>6
<1>2. ASSUME NEW r \in DkRequests, DkClaim(r), dkFile[r] # "whole"
      PROVE  LoopInv'
  <2>0. /\ dkListed' = dkListed \ {r} /\ UNCHANGED dkClaimed /\ dkStep = "claim"
        /\ dkFile' = [dkFile EXCEPT ![r] = "none"]
        /\ dkFile[r] = "torn" => r \in dkTorn'
        /\ dkTorn \subseteq dkTorn' /\ r \in dkListed
        /\ UNCHANGED <<dkClient, dkResponse, dkStep, dkLaunch, dkAnswer, dkServes, dkRevoked,
                       dkOrphaned>>
    BY <1>2 DEF DkClaim
  <2> USE <2>0
  <2>1. Typed' OBVIOUS
  <2>2. Distinct' /\ Steps'
    <3> HIDE DEF Typed
    <3>1. Distinct' BY DEF Distinct
    <3>2. Steps' BY DEF Steps, Serving
    <3> QED BY <3>1, <3>2
  <2>3. Claims' BY DEF Claims
  <2>4. Serves'
    <3>1. Once' BY DEF Serves, Once
    <3>2. InHand' BY SameHand DEF Serves
    <3>3. TakenBack' BY DEF Serves, Once, TakenBack
    <3> QED BY <3>1, <3>2, <3>3 DEF Serves
  <2>5. Written' /\ Waits' BY <1>2 DEF Written, Waits
  <2> QED BY <2>1, <2>2, <2>3, <2>4, <2>5
<1>3. ASSUME NEW r \in DkRequests, DkClaim(r), dkFile[r] = "whole"
      PROVE  LoopInv'
  <2>0. /\ dkListed' = dkListed \ {r} /\ dkClaimed' = Append(dkClaimed, r) /\ dkStep = "claim"
        /\ dkFile' = [dkFile EXCEPT ![r] = "claimed"]
        /\ UNCHANGED <<dkClient, dkResponse, dkStep, dkLaunch, dkAnswer, dkServes, dkRevoked,
                       dkTorn, dkOrphaned>>
    BY <1>3 DEF DkClaim
  <2>1. \A k \in 1..Len(dkClaimed) : dkClaimed[k] # r
    BY <1>3 DEF Claims
  <2>2. /\ dkClaimed' \in Seq(DkRequests)
        /\ \A k \in 1..Len(dkClaimed) : k \in 1..Len(dkClaimed') /\ dkClaimed'[k] = dkClaimed[k]
        /\ Len(dkClaimed) + 1 \in 1..Len(dkClaimed') /\ dkClaimed'[Len(dkClaimed) + 1] = r
        /\ \A k \in 1..Len(dkClaimed') : k \in 1..Len(dkClaimed) \/ k = Len(dkClaimed) + 1
    <3> HIDE DEF Typed
    <3>1. dkClaimed \in Seq(DkRequests) BY DEF Typed
    <3> QED BY <2>0, <3>1, Appends
  <2>3. Typed' BY <2>0, <2>2
  <2>4. \A k \in 1..Len(dkClaimed') :
            dkClaimed'[k] = r \/ (k \in 1..Len(dkClaimed) /\ dkClaimed'[k] = dkClaimed[k])
    BY <2>2
  <2>5. Distinct' BY <2>1, <2>2 DEF Distinct
  <2>6. Claims' /\ Steps'
    <3>1. Steps' BY <2>0 DEF Steps, Serving
    <3>2. ASSUME NEW k \in 1..Len(dkClaimed')
          PROVE  dkFile'[dkClaimed'[k]] = "claimed" /\ dkClaimed'[k] \notin dkListed'
      <4>1. CASE dkClaimed'[k] = r BY <4>1, <2>0
      <4>2. CASE k \in 1..Len(dkClaimed) /\ dkClaimed'[k] = dkClaimed[k]
        BY <4>2, <2>0, <2>1 DEF Claims
      <4> QED BY <4>1, <4>2, <2>4
    <3> QED BY <3>1, <3>2 DEF Claims
  <2>7. Serves'
    <3>1. ASSUME NEW k \in 1..Len(dkClaimed')
          PROVE  dkServes'[dkClaimed'[k]] = 0
      <4>1. CASE dkClaimed'[k] = r BY <4>1, <2>0, <1>3 DEF Serves, Once, InHand, TakenBack
      <4>2. CASE k \in 1..Len(dkClaimed) /\ dkClaimed'[k] = dkClaimed[k]
        BY <4>2, <2>0 DEF Serves, Once, InHand, TakenBack, Serving
      <4> QED BY <4>1, <4>2, <2>4
    <3> QED BY <3>1, <2>0, <1>3 DEF Serves, Once, InHand, TakenBack, Serving
  <2>8. Written' BY <2>0, <1>3 DEF Written
  <2>9. Waits'
    <3> SUFFICES ASSUME NEW q \in DkRequests, dkClient'[q] = "waiting"
                 PROVE  \/ dkFile'[q] = "whole"
                        \/ \E k \in 1..Len(dkClaimed') : dkClaimed'[k] = q
                        \/ dkResponse'[q] # "none"
                        \/ q \in dkTorn' \/ q \in dkOrphaned'
      BY DEF Waits
    <3>1. CASE q = r BY <3>1, <2>2
    <3>2. CASE q # r BY <3>2, <2>0, <2>2 DEF Waits
    <3> QED BY <3>1, <3>2
  <2> QED BY <2>3, <2>5, <2>6, <2>7, <2>8, <2>9
<1> QED
  BY <1>1, <1>2, <1>3

\* Serving the head of the list, and its answer.
LEMMA ServeKeepsLoop ==
    ASSUME LoopInv, DkNext \/ DkRespond
    PROVE  LoopInv'
<1>0. Len(dkClaimed) \in Nat /\ \A k \in 1..Len(dkClaimed) : dkClaimed[k] \in DkRequests
  BY ClaimedRequests DEF LoopInv
<1>a. dkClaimed \in Seq(DkRequests)
  BY DEF LoopInv, Typed
<1>b. /\ dkServes \in [DkRequests -> Nat] /\ dkLaunch \in [DkRequests -> 0..ApMaxLaunches]
      /\ dkFile \in [DkRequests -> {"none", "torn", "whole", "claimed"}]
      /\ dkResponse \in [DkRequests -> {"none"} \cup DkReplies]
      /\ dkRevoked \subseteq DkRequests /\ dkAnswer \in DkReplies
  BY DEF LoopInv, Typed
<1> USE <1>0, <1>b DEF LoopInv, dkFiles, dkHistory
<1>1. CASE DkNext /\ dkClaimed = <<>>
  <2>0. /\ dkStep' = "asleep" /\ dkListed = {}
        /\ UNCHANGED <<dkClient, dkFile, dkResponse, dkListed, dkClaimed, dkLaunch, dkAnswer,
                       dkServes, dkRevoked, dkTorn, dkOrphaned>>
    BY <1>1 DEF DkNext, Steps
  <2> USE <2>0
  <2>1. Typed' BY DEF Typed
  <2>2. Distinct' /\ Claims' BY DEF Distinct, Claims
  <2>3. Steps' BY <1>1 DEF Steps, Serving
  <2>4. Serves'
    <3>1. \A k \in 1..Len(dkClaimed) : FALSE BY <1>1
    <3> QED BY <3>1 DEF Serves, Once, InHand, TakenBack
  <2>5. Written' /\ Waits' BY DEF Written, Waits
  <2> QED BY <2>1, <2>2, <2>3, <2>4, <2>5
<1>2. CASE DkNext /\ dkClaimed # <<>>
  <2>0. Head(dkClaimed) = dkClaimed[1] /\ Head(dkClaimed) \in DkRequests /\ 1 \in 1..Len(dkClaimed)
    BY <1>a, <1>2, Tails
  <2>1. /\ dkStep' = "launch" /\ dkListed = {} /\ dkStep \notin Serving
        /\ dkServes' = [dkServes EXCEPT ![dkClaimed[1]] = @ + 1]
        /\ UNCHANGED <<dkClient, dkFile, dkResponse, dkListed, dkClaimed, dkLaunch, dkAnswer,
                       dkRevoked, dkTorn, dkOrphaned>>
    BY <1>2, <2>0 DEF DkNext, Steps, Serving
  <2>2. dkServes[dkClaimed[1]] = 0 /\ dkFile[dkClaimed[1]] = "claimed"
    BY <2>0, <2>1 DEF Serves, Once, InHand, TakenBack, Claims
  <2>3. /\ dkServes'[dkClaimed[1]] = 1
        /\ \A r \in DkRequests : r # dkClaimed[1] => dkServes'[r] = dkServes[r]
    BY <2>0, <2>1, <2>2
  <2>4. Typed'
    <3>1. dkServes' \in [DkRequests -> Nat] BY <2>0, <2>1, <2>2
    <3> QED BY <2>1, <3>1 DEF Serving, Typed
  <2>5. Distinct' /\ Claims' BY <2>1 DEF Distinct, Claims
  <2>6. Steps' BY <1>2, <2>1 DEF Steps, Serving
  <2>7. Serves'
    <3>1. \A r \in DkRequests :
              /\ dkServes'[r] \in {0, 1}
              /\ dkFile'[r] \in {"torn", "whole"} => dkServes'[r] = 0
              /\ dkServes'[r] = 0 => dkLaunch'[r] = 0
      <4> TAKE r \in DkRequests
      <4>1. CASE r = dkClaimed[1] BY <4>1, <2>1, <2>2, <2>3
      <4>2. CASE r # dkClaimed[1] BY <4>2, <2>1, <2>3 DEF Serves, Once, InHand, TakenBack
      <4> QED BY <4>1, <4>2
    <3>2. \A k \in 1..Len(dkClaimed') :
              dkServes'[dkClaimed'[k]] = IF k = 1 /\ dkStep' \in Serving THEN 1 ELSE 0
      BY <2>0, <2>1, <2>3 DEF Serves, Once, InHand, TakenBack, Distinct, Serving
    <3>3. \A r \in dkRevoked' :
              dkServes'[r] = 0 /\ dkFile'[r] = "none" /\ dkClient'[r] = "gave up"
      BY <2>1, <2>2, <2>3 DEF Serves, Once, InHand, TakenBack
    <3> QED BY <3>1, <3>2, <3>3 DEF Serves, Once, InHand, TakenBack
  <2>8. Written' BY <2>1, <2>2, <2>3 DEF Written
  <2>9. Waits' BY <2>1 DEF Waits
  <2> QED BY <2>4, <2>5, <2>6, <2>7, <2>8, <2>9
<1>3. CASE DkRespond
  <2>0. dkClaimed # <<>> /\ dkStep \in Serving
    BY <1>3 DEF DkRespond, Steps, Serving
  <2>1. /\ Head(dkClaimed) = dkClaimed[1] /\ Head(dkClaimed) \in DkRequests
        /\ 1 \in 1..Len(dkClaimed) /\ Tail(dkClaimed) \in Seq(DkRequests)
        /\ \A k \in 1..Len(Tail(dkClaimed)) :
              k + 1 \in 2..Len(dkClaimed) /\ Tail(dkClaimed)[k] = dkClaimed[k + 1]
        /\ \A k \in 2..Len(dkClaimed) :
              k - 1 \in 1..Len(Tail(dkClaimed)) /\ Tail(dkClaimed)[k - 1] = dkClaimed[k]
    BY <1>a, <2>0, Tails
  <2>2. /\ dkStep' = "serve" /\ dkListed = {} /\ dkClaimed' = Tail(dkClaimed)
        /\ dkFile' = [dkFile EXCEPT ![dkClaimed[1]] = "none"]
        /\ dkResponse' = [dkResponse EXCEPT ![dkClaimed[1]] = dkAnswer]
        /\ UNCHANGED <<dkClient, dkListed, dkLaunch, dkAnswer, dkServes, dkRevoked, dkTorn,
                       dkOrphaned>>
    BY <1>3, <2>1 DEF DkRespond, Steps
  <2>3. \A k \in 1..Len(dkClaimed') :
            /\ k \in Nat /\ k + 1 \in 1..Len(dkClaimed) /\ k + 1 # 1
            /\ dkClaimed'[k] = dkClaimed[k + 1] /\ dkClaimed[k + 1] # dkClaimed[1]
    <3> TAKE k \in 1..Len(dkClaimed')
    <3>1. k + 1 \in 2..Len(dkClaimed) /\ dkClaimed'[k] = dkClaimed[k + 1] BY <2>1, <2>2
    <3>2. k \in Nat /\ k + 1 \in 1..Len(dkClaimed) /\ k + 1 # 1 BY <3>1, <2>2
    <3> QED BY <3>1, <3>2, <2>1 DEF Distinct
  <2>4. Typed' BY <2>1, <2>2 DEF Typed
  <2>5. Distinct'
    <3> SUFFICES ASSUME NEW j \in 1..Len(dkClaimed'), NEW k \in 1..Len(dkClaimed'),
                        dkClaimed'[j] = dkClaimed'[k]
                 PROVE  j = k
      BY DEF Distinct
    <3>1. j + 1 = k + 1 BY <2>3 DEF Distinct
    <3> QED BY <3>1, <2>3
  <2>6. Claims'
    <3> SUFFICES ASSUME NEW k \in 1..Len(dkClaimed')
                 PROVE  dkFile'[dkClaimed'[k]] = "claimed" /\ dkClaimed'[k] \notin dkListed'
      BY DEF Claims
    <3>1. dkFile[dkClaimed[k + 1]] = "claimed" /\ dkClaimed[k + 1] \in DkRequests
      BY <2>3 DEF Claims
    <3> QED BY <3>1, <2>2, <2>3
  <2>7. Steps' BY <2>2 DEF Steps, Serving
  <2>8. Serves'
    <3>1. \A k \in 1..Len(dkClaimed') : dkServes'[dkClaimed'[k]] = 0
      <4> TAKE k \in 1..Len(dkClaimed')
      <4>1. dkServes[dkClaimed[k + 1]] = 0 BY <2>3 DEF Serves, InHand
      <4> QED BY <4>1, <2>2, <2>3
    <3>2. dkFile[dkClaimed[1]] = "claimed" BY <2>1 DEF Claims
    <3> QED BY <3>1, <3>2, <2>1, <2>2 DEF Serves, Once, InHand, TakenBack, Serving
  <2>9. Written' BY <2>1, <2>2 DEF Written, Claims
  <2>10. Waits'
    <3> SUFFICES ASSUME NEW q \in DkRequests, dkClient'[q] = "waiting"
                 PROVE  \/ dkFile'[q] = "whole"
                        \/ \E k \in 1..Len(dkClaimed') : dkClaimed'[k] = q
                        \/ dkResponse'[q] # "none"
                        \/ q \in dkTorn' \/ q \in dkOrphaned'
      BY DEF Waits
    <3>1. CASE q = dkClaimed[1] BY <3>1, <2>2 DEF DkReplies
    <3>2. ASSUME NEW k \in 1..Len(dkClaimed), dkClaimed[k] = q, q # dkClaimed[1]
          PROVE  \E m \in 1..Len(dkClaimed') : dkClaimed'[m] = q
      <4>1. k \in 2..Len(dkClaimed) BY <3>2
      <4> QED BY <3>2, <4>1, <2>1, <2>2
    <3>3. CASE q # dkClaimed[1] BY <3>2, <3>3, <2>2 DEF Waits
    <3> QED BY <3>1, <3>3
  <2> QED BY <2>4, <2>5, <2>6, <2>7, <2>8, <2>9, <2>10
<1> QED
  BY <1>1, <1>2, <1>3

\* Launching, waiting, deaths of the app, and what else the app does.
LEMMA RestKeepsLoop ==
    ASSUME LoopInv,
           \/ \E i \in ApLaunches : DkLaunch(i)
           \/ DkReserve \/ DkWait \/ DkStarting \/ DkCrash \/ DkAppStep
    PROVE  LoopInv'
<1>0. Len(dkClaimed) \in Nat /\ \A k \in 1..Len(dkClaimed) : dkClaimed[k] \in DkRequests
  BY ClaimedRequests DEF LoopInv
<1>b. /\ dkServes \in [DkRequests -> Nat] /\ dkLaunch \in [DkRequests -> 0..ApMaxLaunches]
      /\ dkFile \in [DkRequests -> {"none", "torn", "whole", "claimed"}]
      /\ dkResponse \in [DkRequests -> {"none"} \cup DkReplies]
      /\ dkRevoked \subseteq DkRequests /\ dkAnswer \in DkReplies
  BY DEF LoopInv, Typed
<1> USE <1>0, <1>b DEF LoopInv
<1>1. ASSUME NEW i \in ApLaunches, DkLaunch(i)
      PROVE  LoopInv'
  <2>0. /\ dkStep \in Serving /\ dkStep' \in Serving /\ dkAnswer' \in DkReplies
        /\ Head(dkClaimed) = dkClaimed[1] /\ 1 \in 1..Len(dkClaimed)
        /\ UNCHANGED dkLaunch \/ dkLaunch' = [dkLaunch EXCEPT ![Head(dkClaimed)] = i]
        /\ UNCHANGED <<dkClient, dkFile, dkResponse, dkListed, dkClaimed, dkServes, dkRevoked,
                       dkTorn, dkOrphaned>>
    <3>1. dkStep = "launch" /\ dkClaimed # <<>> BY <1>1 DEF DkLaunch, Steps, Serving
    <3>2. Head(dkClaimed) = dkClaimed[1] /\ 1 \in 1..Len(dkClaimed) BY <3>1, Tails
    <3> QED BY <1>1, <3>1, <3>2 DEF DkLaunch, DkReply, DkReplies, dkFiles, dkHistory, Serving
  <2>1. Typed'
    <3>1. i \in 0..ApMaxLaunches BY ApAssumption DEF ApAssumption, ApLaunches
    <3> QED BY <2>0, <3>1 DEF Typed
  <2>2. Distinct' /\ Claims' BY <2>0 DEF Distinct, Claims
  <2>3. Steps' BY <2>0 DEF Steps, Serving
  <2>4. Serves'
    <3>1. dkServes[dkClaimed[1]] = 1 BY <2>0 DEF Serves, InHand
    <3>2. \A r \in DkRequests : dkServes'[r] = 0 => dkLaunch'[r] = 0
      <4> TAKE r \in DkRequests
      <4>1. dkServes[r] = 0 => dkLaunch[r] = 0 BY DEF Serves, Once
      <4>2. dkServes[r] = 0 => r # dkClaimed[1] BY <3>1
      <4> QED BY <4>1, <4>2, <2>0
    <3>3. \A k \in 1..Len(dkClaimed') :
              dkServes'[dkClaimed'[k]] = IF k = 1 /\ dkStep' \in Serving THEN 1 ELSE 0
      BY <2>0 DEF Serves, Once, InHand, TakenBack
    <3> QED BY <2>0, <3>2, <3>3 DEF Serves, Once, InHand, TakenBack
  <2>5. Written' /\ Waits' BY <2>0 DEF Written, Waits
  <2> QED BY <2>1, <2>2, <2>3, <2>4, <2>5
<1>2. CASE DkReserve \/ DkWait \/ DkStarting
  <2>0. /\ dkStep \in Serving /\ dkStep' \in Serving /\ dkAnswer' \in DkReplies
        /\ UNCHANGED <<dkClient, dkFile, dkResponse, dkListed, dkClaimed, dkLaunch, dkServes,
                       dkRevoked, dkTorn, dkOrphaned>>
    BY <1>2 DEF DkReserve, DkWait, DkStarting, DkReply, DkReplies, dkFiles, dkHistory, Serving
  <2>1. Typed' BY <2>0 DEF Typed
  <2>2. Distinct' /\ Claims' BY <2>0 DEF Distinct, Claims
  <2>3. Steps' BY <2>0 DEF Steps, Serving
  <2>4. Serves' BY <2>0 DEF Serves, Once, InHand, TakenBack
  <2>5. Written' /\ Waits' BY <2>0 DEF Written, Waits
  <2> QED BY <2>1, <2>2, <2>3, <2>4, <2>5
<1>3. CASE DkCrash
  <2>0. /\ dkStep' = "asleep" /\ dkListed' = {} /\ dkClaimed' = <<>> /\ Len(<<>>) = 0
        /\ dkOrphaned' = dkOrphaned \cup {r \in DkRequests : dkFile[r] = "claimed"}
        /\ UNCHANGED <<dkClient, dkFile, dkResponse, dkLaunch, dkAnswer, dkServes, dkRevoked,
                       dkTorn>>
    BY <1>3 DEF DkCrash, dkFiles
  <2>1. Typed'
    <3>1. <<>> \in Seq(DkRequests) OBVIOUS
    <3> QED BY <2>0, <3>1 DEF Typed, Serving
  <2>2. Distinct' /\ Claims' BY <2>0 DEF Distinct, Claims
  <2>3. Steps' BY <2>0 DEF Steps, Serving
  <2>4. Serves'
    <3>1. \A k \in 1..Len(dkClaimed') : FALSE BY <2>0
    <3> QED BY <2>0, <3>1 DEF Serves, Once, InHand, TakenBack
  <2>5. Written' /\ Waits' BY <2>0 DEF Written, Waits, Claims
  <2> QED BY <2>1, <2>2, <2>3, <2>4, <2>5
<1>4. CASE DkAppStep
  <2>0. UNCHANGED <<dkClient, dkFile, dkResponse, dkListed, dkClaimed, dkLaunch, dkServes, dkStep,
                    dkAnswer, dkRevoked, dkTorn, dkOrphaned>>
    BY <1>4 DEF DkAppStep, dkFiles, dkLoop, dkHistory
  <2>1. Typed' BY <2>0 DEF Typed
  <2>2. Distinct' /\ Claims' /\ Steps' BY <2>0 DEF Distinct, Claims, Steps
  <2>3. Serves' BY <2>0 DEF Serves, Once, InHand, TakenBack
  <2>4. Written' /\ Waits' BY <2>0 DEF Written, Waits
  <2> QED BY <2>1, <2>2, <2>3, <2>4
<1> QED
  BY <1>1, <1>2, <1>3, <1>4

LEMMA LoopNext == LoopInv /\ [DesktopControlNext]_<<apVars, dkVars>> => LoopInv'
<1> SUFFICES ASSUME LoopInv, [DesktopControlNext]_<<apVars, dkVars>>
             PROVE  LoopInv'
  OBVIOUS
<1>1. CASE UNCHANGED <<apVars, dkVars>>
  <2> USE <1>1 DEF dkVars, dkFiles, dkLoop, dkHistory
  <2>1. Typed' BY DEF LoopInv, Typed
  <2>2. Distinct' /\ Claims' /\ Steps' BY DEF LoopInv, Distinct, Claims, Steps
  <2>3. Serves' BY DEF LoopInv, Serves, Once, InHand, TakenBack
  <2>4. Written' /\ Waits' BY DEF LoopInv, Written, Waits
  <2> QED BY <2>1, <2>2, <2>3, <2>4 DEF LoopInv
<1> QED
  BY <1>1, ClientKeepsLoop, ClaimKeepsLoop, ServeKeepsLoop, RestKeepsLoop
     DEF DesktopControlNext

-----------------------------------------------------------------------------
(* Answers and launches *)

\* What a step of the app's launches never undoes.
LEMMA LaunchesForward ==
    ASSUME AppRecordingTypeOK, AppRecordingNext
    PROVE  /\ apOverlap => apOverlap'
           /\ apStrayStop => apStrayStop'
           /\ \A i \in ApLaunches :
                 /\ apPc[i] \in Over => apPc'[i] \in Over
                 /\ apPc[i] \notin {"none", "checked"} => apPc'[i] \notin {"none", "checked"}
<1> USE DEF AppRecordingTypeOK, Over, ApGo, apHistory
<1>1. ASSUME NEW i \in ApLaunches, ApCheck(i) \/ ApReserve(i)
      PROVE  /\ apOverlap => apOverlap'
             /\ UNCHANGED apStrayStop
             /\ apPc[i] \in {"none", "checked"}
             /\ apPc' = [apPc EXCEPT ![i] = apPc'[i]]
  BY <1>1 DEF ApCheck, ApReserve
<1>2. ASSUME NEW i \in ApLaunches, ApThreadNext(i)
      PROVE  /\ apOverlap => apOverlap'
             /\ UNCHANGED apStrayStop
             /\ apPc'[i] \notin {"none", "checked"}
             /\ apPc[i] \in Over => apPc'[i] \in Over
             /\ apPc' = [apPc EXCEPT ![i] = apPc'[i]]
  BY <1>2 DEF ApThreadNext, ApStartFails, ApCreate, ApSensitive, ApBegin, ApEnd, ApRemove, ApClear,
              ApUnder
<1>3. ASSUME ApEnvironment
      PROVE  UNCHANGED <<apOverlap, apPc>> /\ (apStrayStop => apStrayStop')
  BY <1>3 DEF ApEnvironment, ApStopLook, ApStopDo, ApOtherStarts, ApOtherEnds
<1> QED
  BY <1>1, <1>2, <1>3 DEF AppRecordingNext

\* The death of the app leaves the launches in order.
LEMMA CrashKeepsLaunches ==
    ASSUME LaunchesInv, DkCrash
    PROVE  LaunchesInv'
<1> USE DEF LaunchesInv, AppRecordingTypeOK, DkCrash, apHistory
<1>1. \A i \in ApLaunches : apPc'[i] \in {"none", "refused", "done"}
  OBVIOUS
<1>2. AppRecordingTypeOK'
  BY <1>1, LaunchNumbers DEF ApPending, ApEnding
<1>3. FlagsBacked' /\ PendingReserved' /\ OneStartAtATime' /\ StopIsOwn'
  BY <1>1 DEF FlagsBacked, PendingReserved, OneStartAtATime, StopIsOwn, ApPending
<1>4. AskedHaveBegun'
  BY DEF AskedHaveBegun, ApEnding
<1> QED
  BY <1>2, <1>3, <1>4

\* The head of the list while it is served.
LEMMA HeadServed ==
    ASSUME LoopInv, dkStep \in Serving
    PROVE  /\ Head(dkClaimed) \in DkRequests /\ dkServes[Head(dkClaimed)] = 1
           /\ dkLaunch[Head(dkClaimed)] \in 0..ApMaxLaunches
           /\ dkLaunch[Head(dkClaimed)] # 0 => dkLaunch[Head(dkClaimed)] \in ApLaunches
<1>1. dkClaimed \in Seq(DkRequests) /\ dkClaimed # <<>>
  BY DEF LoopInv, Typed, Steps
<1>2. Head(dkClaimed) \in DkRequests /\ Head(dkClaimed) = dkClaimed[1] /\ 1 \in 1..Len(dkClaimed)
  BY <1>1, Tails
<1>3. dkServes[Head(dkClaimed)] = 1
  BY <1>2 DEF LoopInv, Serves, Once, InHand, TakenBack
<1>4. dkLaunch[Head(dkClaimed)] \in 0..ApMaxLaunches
  BY <1>2 DEF LoopInv, Typed
<1> QED
  BY <1>2, <1>3, <1>4, ApAssumption DEF ApAssumption, ApLaunches

\* Every step but the app's death is one of the launches or leaves them alone.
LEMMA DkOnLaunches ==
    ASSUME LoopInv, [DesktopControlNext]_<<apVars, dkVars>>
    PROVE  DkCrash \/ [AppRecordingNext]_apVars
<1>1. ASSUME NEW r \in DkRequests, DkWrite(r) \/ DkRead(r) \/ DkGiveUp(r) \/ DkClaim(r)
      PROVE  UNCHANGED apVars
  BY <1>1 DEF DkWrite, DkRead, DkGiveUp, DkClaim
<1>2. ASSUME DkList \/ DkNext \/ DkWait \/ DkStarting \/ DkRespond
      PROVE  UNCHANGED apVars
  BY <1>2 DEF DkList, DkNext, DkWait, DkStarting, DkRespond
<1>3. ASSUME NEW i \in ApLaunches, DkLaunch(i)
      PROVE  [AppRecordingNext]_apVars
  BY <1>3 DEF DkLaunch, AppRecordingNext
<1>4. ASSUME DkReserve
      PROVE  AppRecordingNext
  <2>1. dkLaunch[Head(dkClaimed)] \in ApLaunches
    BY <1>4, HeadServed DEF DkReserve, Serving
  <2> QED BY <1>4, <2>1 DEF DkReserve, AppRecordingNext
<1>5. ASSUME DkAppStep
      PROVE  AppRecordingNext
  BY <1>5 DEF DkAppStep, AppRecordingNext
<1> QED
  BY <1>1, <1>2, <1>3, <1>4, <1>5 DEF DesktopControlNext

DkInv == LaunchesInv /\ LoopInv /\ Launching /\ Answers

LEMMA DkInvInit == DesktopControlInit => DkInv
<1> SUFFICES ASSUME DesktopControlInit
             PROVE  DkInv
  OBVIOUS
<1>1. LaunchesInv /\ LoopInv
  BY LaunchesInit, LoopInit DEF DesktopControlInit
<1>2. Launching /\ Answers
  BY DEF DesktopControlInit, Launching, Answers, IsTrueOf
<1> QED
  BY <1>1, <1>2 DEF DkInv

\* A launch that is over stays so, and with its request.
LEMMA OverForward ==
    ASSUME LoopInv,
           \A r \in DkRequests : dkLaunch[r] # 0 => dkLaunch'[r] = dkLaunch[r],
           \A i \in ApLaunches : apPc[i] \in Over => apPc'[i] \in Over
    PROVE  \A r \in DkRequests :
              dkLaunch[r] # 0 /\ apPc[dkLaunch[r]] \in Over =>
                  dkLaunch'[r] # 0 /\ apPc'[dkLaunch'[r]] \in Over
<1> TAKE r \in DkRequests
<1>1. dkLaunch[r] \in 0..ApMaxLaunches
  BY DEF LoopInv, Typed
<1>2. dkLaunch[r] # 0 => dkLaunch[r] \in ApLaunches
  BY <1>1, ApAssumption DEF ApAssumption, ApLaunches
<1> QED
  BY <1>2

\* Steps that serve no request's launch, and leave the head of the list.
LEMMA AsideKeepsAnswers ==
    ASSUME DkInv, NEW r \in DkRequests, DkWrite(r) \/ DkRead(r) \/ DkGiveUp(r)
    PROVE  Launching' /\ Answers'
<1> USE DEF dkFiles, dkLoop, dkHistory, apVars, apHistory
<1>1. UNCHANGED <<apPc, apPid, apOverlap, apStrayStop, dkStep, dkClaimed, dkLaunch, dkBegun,
                  dkAnswer, dkMissed>>
  BY DEF DkWrite, DkRead, DkGiveUp
<1>2. Launching'
  BY <1>1 DEF DkInv, Launching
<1>3. dkStep = "answer" =>
          (IsTrueOf(Head(dkClaimed), dkAnswer) <=> IsTrueOf(Head(dkClaimed), dkAnswer)')
  BY <1>1 DEF IsTrueOf
<1>4. ASSUME NEW q \in DkRequests, IsTrueOf(q, dkResponse[q]), IsTrueOf(q, dkClient[q])
      PROVE  IsTrueOf(q, dkResponse[q])' /\ IsTrueOf(q, dkClient[q])'
  <2>0. q \in DOMAIN dkResponse /\ q \in DOMAIN dkClient
    BY DEF DkInv, LoopInv, Typed
  <2>1. /\ dkResponse'[q] \in {dkResponse[q], "none"}
        /\ dkClient'[q] \in {dkClient[q], dkResponse[q], "writing", "waiting", "gave up"}
    <3>1. CASE DkWrite(r) BY <2>0, <3>1 DEF DkWrite
    <3>2. CASE DkRead(r) BY <2>0, <3>2 DEF DkRead
    <3>3. CASE DkGiveUp(r) BY <2>0, <3>3 DEF DkGiveUp
    <3> QED BY <3>1, <3>2, <3>3
  <2> QED BY <1>1, <1>4, <2>1 DEF IsTrueOf
<1> QED
  BY <1>1, <1>2, <1>3, <1>4 DEF DkInv, Answers

\* Steps of the loop before and after a launch.
LEMMA LoopKeepsAnswers ==
    ASSUME DkInv,
           DkList \/ DkNext \/ DkRespond \/ \E r \in DkRequests : DkClaim(r)
    PROVE  Launching' /\ Answers'
<1> USE DEF DkInv, dkFiles, dkHistory, apVars, apHistory
<1>1. UNCHANGED <<apPc, apPid, apOverlap, apStrayStop, dkLaunch, dkBegun, dkAnswer, dkMissed,
                  dkClient>>
  BY DEF DkList, DkNext, DkRespond, DkClaim
<1>2. CASE DkList \/ \E r \in DkRequests : DkClaim(r)
  <2>1. dkStep' = "claim" /\ UNCHANGED dkResponse
    BY <1>2 DEF DkList, DkClaim
  <2> QED BY <1>1, <2>1 DEF Launching, Answers, IsTrueOf
<1>3. CASE DkNext
  <2>1. UNCHANGED <<dkResponse, dkClaimed>> /\ dkStep \notin Serving
    BY <1>3 DEF DkNext, Serving
  <2>2. CASE dkClaimed = <<>>
    <3>1. dkStep' = "asleep" BY <1>3, <2>2 DEF DkNext
    <3> QED BY <1>1, <2>1, <3>1 DEF Launching, Answers, IsTrueOf
  <2>3. CASE dkClaimed # <<>>
    <3>1. dkStep' = "launch" BY <1>3, <2>3 DEF DkNext
    <3>2. /\ Head(dkClaimed) \in DkRequests /\ Head(dkClaimed) = dkClaimed[1]
          /\ 1 \in 1..Len(dkClaimed)
      <4>1. dkClaimed \in Seq(DkRequests) BY DEF LoopInv, Typed
      <4> QED BY <4>1, <2>3, Tails
    <3>3. dkLaunch[Head(dkClaimed)] = 0 BY <2>1, <3>2 DEF LoopInv, Serves, Once, InHand, TakenBack
    <3> QED BY <1>1, <2>1, <3>1, <3>3 DEF Launching, Answers, IsTrueOf
  <2> QED BY <2>2, <2>3
<1>4. CASE DkRespond
  <2>1. dkStep = "answer" /\ dkStep' = "serve"
        /\ dkResponse' = [dkResponse EXCEPT ![Head(dkClaimed)] = dkAnswer]
    BY <1>4 DEF DkRespond
  <2>2. ASSUME NEW q \in DkRequests
        PROVE  dkResponse'[q] = dkResponse[q] \/ (q = Head(dkClaimed) /\ dkResponse'[q] = dkAnswer)
    BY <2>1 DEF LoopInv, Typed
  <2>3. Launching' BY <2>1 DEF Launching
  <2>4. Answers' BY <1>1, <2>1, <2>2 DEF Answers, IsTrueOf
  <2> QED BY <2>3, <2>4
<1> QED
  BY <1>2, <1>3, <1>4

\* The launch, its reservation, the wait and what comes of it.
LEMMA LaunchKeepsAnswers ==
    ASSUME DkInv, LaunchesInv', (\E i \in ApLaunches : DkLaunch(i)) \/ DkReserve
    PROVE  Launching' /\ Answers'
<1> DEFINE h == Head(dkClaimed)
<1>0. /\ h \in DkRequests /\ dkLaunch[h] \in 0..ApMaxLaunches
      /\ dkLaunch[h] # 0 => dkLaunch[h] \in ApLaunches
      /\ dkStep = "launch"
      /\ UNCHANGED <<dkResponse, dkClient, dkClaimed, dkBegun, dkMissed>>
  BY HeadServed DEF DkInv, DkLaunch, DkReserve, Serving, dkFiles, dkHistory
<1>a. /\ dkLaunch \in [DkRequests -> 0..ApMaxLaunches] /\ AppRecordingTypeOK
      /\ apPc \in [ApLaunches -> {"none", "checked", "refused", "capturing", "done"}
                                    \cup ApPending \cup ApEnding]
  BY DEF DkInv, LoopInv, Typed, LaunchesInv, AppRecordingTypeOK
<1>b. 0 \notin ApLaunches
  BY LaunchNumbers
<1>1. ASSUME NEW i \in ApLaunches, ApCheck(i), dkLaunch[h] = 0,
             dkLaunch' = [dkLaunch EXCEPT ![h] = i],
             IF ApMayLaunch THEN UNCHANGED <<dkStep, dkAnswer>> ELSE DkReply("refused")
      PROVE  Launching' /\ Answers'
  <2>1. /\ apPc[i] = "none"
        /\ apPc' = [apPc EXCEPT ![i] = IF ApMayLaunch THEN "checked" ELSE "refused"]
        /\ UNCHANGED <<apOverlap, apStrayStop, apPid>>
    BY <1>1 DEF ApCheck, ApGo, apHistory
  <2>2. dkLaunch'[h] = i /\ \A r \in DkRequests : r # h => dkLaunch'[r] = dkLaunch[r]
    BY <1>0, <1>a, <1>1
  <2>3. \A j \in ApLaunches : apPc[j] \in Over => apPc'[j] \in Over
    BY <1>a, <2>1 DEF Over
  <2>4. \A r \in DkRequests :
            dkLaunch[r] # 0 /\ apPc[dkLaunch[r]] \in Over =>
                dkLaunch'[r] # 0 /\ apPc'[dkLaunch'[r]] \in Over
    BY <1>1, <2>2, <2>3, OverForward DEF DkInv
  <2>5. Launching'
    <3>1. CASE ApMayLaunch
      <4>1. apPid' = 0 /\ apPc'[i] = "checked" BY <1>a, <2>1, <3>1 DEF ApMayLaunch, ApActive
      <4> QED BY <1>0, <1>1, <2>2, <3>1, <4>1 DEF Launching
    <3>2. CASE ~ApMayLaunch BY <1>1, <3>2 DEF Launching, DkReply
    <3> QED BY <3>1, <3>2
  <2>6. dkStep' = "answer" => IsTrueOf(h, dkAnswer)'
    <3>1. CASE ApMayLaunch BY <1>0, <1>1, <3>1
    <3>2. CASE ~ApMayLaunch
      <4>1. apPc'[i] \in Over BY <1>a, <2>1, <3>2 DEF Over
      <4> QED BY <1>0, <1>1, <1>b, <2>2, <3>2, <4>1 DEF IsTrueOf, DkReply
    <3> QED BY <3>1, <3>2
  <2>7. Answers'
    BY <1>0, <2>1, <2>4, <2>6 DEF Answers, IsTrueOf, DkInv
  <2> QED BY <2>5, <2>7
<1>2. ASSUME DkReply("confirm"), UNCHANGED <<apVars, dkLaunch>>
      PROVE  Launching' /\ Answers'
  BY <1>0, <1>2 DEF DkReply, apVars, apHistory, Launching, Answers, IsTrueOf, DkInv
<1>3. ASSUME DkReserve
      PROVE  Launching' /\ Answers'
  <2>1. /\ dkLaunch[h] # 0 /\ UNCHANGED <<dkLaunch, apPid, apStrayStop>>
        /\ apPc[dkLaunch[h]] = "checked"
        /\ apPc' = [apPc EXCEPT ![dkLaunch[h]] = IF apStarting THEN "refused" ELSE "spawned"]
        /\ apOverlap => apOverlap'
    BY <1>3 DEF DkReserve, ApReserve, ApGo
  <2>2. /\ apStarting => DkReply("refused")
        /\ ~apStarting => dkStep' = "wait"
    BY <1>3 DEF DkReserve
  <2>3. \A j \in ApLaunches : apPc[j] \in Over => apPc'[j] \in Over
    BY <1>a, <2>1 DEF Over
  <2>4. \A r \in DkRequests :
            dkLaunch[r] # 0 /\ apPc[dkLaunch[r]] \in Over =>
                dkLaunch'[r] # 0 /\ apPc'[dkLaunch'[r]] \in Over
    BY <2>1, <2>3, OverForward DEF DkInv
  <2>5. apPc'[dkLaunch[h]] = IF apStarting THEN "refused" ELSE "spawned"
    BY <1>0, <1>a, <2>1
  <2>6. Launching'
    BY <1>0, <2>1, <2>2, <2>5 DEF Launching, DkReply, DkInv
  <2>7. dkStep' = "answer" => IsTrueOf(h, dkAnswer)'
    BY <1>0, <2>1, <2>2, <2>5 DEF IsTrueOf, DkReply, Over
  <2>8. Answers'
    BY <1>0, <2>1, <2>4, <2>7 DEF Answers, IsTrueOf, DkInv
  <2> QED BY <2>6, <2>8
<1> QED
  BY <1>1, <1>2, <1>3 DEF DkLaunch

LEMMA WaitKeepsAnswers ==
    ASSUME DkInv, DkWait \/ DkStarting
    PROVE  Launching' /\ Answers'
<1> DEFINE h == Head(dkClaimed)
<1>0. /\ h \in DkRequests /\ dkLaunch[h] \in ApLaunches /\ dkLaunch[h] # 0
      /\ apPc[dkLaunch[h]] \notin {"none", "checked"}
      /\ apPid # 0 => h \in dkBegun
      /\ dkMissed \subseteq dkMissed'
      /\ UNCHANGED <<dkResponse, dkClient, dkClaimed, dkBegun, dkLaunch, apPc, apPid, apOverlap,
                     apStrayStop>>
  BY HeadServed DEF DkInv, Launching, DkWait, DkStarting, Serving, dkFiles, dkHistory, apVars,
                    apHistory
<1>1. dkStep' \in {"wait", "starting", "answer"}
  BY DEF DkWait, DkStarting, DkReply
<1>2. Launching'
  BY <1>0, <1>1 DEF Launching
<1>3. ~apOverlap /\ ~apStrayStop /\ dkStep' = "answer" => IsTrueOf(h, dkAnswer)'
  <2> SUFFICES ASSUME ~apOverlap, ~apStrayStop, dkStep' = "answer"
               PROVE  IsTrueOf(h, dkAnswer)'
    OBVIOUS
  <2>1. CASE DkWait
    <3>1. ApActive /\ dkAnswer' = "accepted" BY <2>1 DEF DkWait, DkReply
    <3>2. apPid # 0
      <4>1. ASSUME apRecording PROVE apPid # 0
        <5>1. PICK i \in ApLaunches : apPc[i] = "capturing"
          BY <4>1 DEF DkInv, LaunchesInv, FlagsBacked
        <5>2. apPid = i BY <5>1 DEF DkInv, LaunchesInv, AppRecordingTypeOK
        <5> QED BY <5>2, LaunchNumbers
      <4> QED BY <3>1, <4>1 DEF ApActive
    <3> QED BY <1>0, <3>1, <3>2 DEF IsTrueOf
  <2>2. CASE DkStarting
    <3>1. dkAnswer' = "refused" /\ (h \in dkMissed' \/ (~apStarting /\ ~ApActive))
      BY <2>2 DEF DkStarting, DkReply
    <3>2. ASSUME ~apStarting, ~ApActive
          PROVE  apPc[dkLaunch[h]] \in Over
      <4>1. apPc[dkLaunch[h]] \notin ApPending
        BY <1>0, <3>2 DEF DkInv, LaunchesInv, PendingReserved
      <4>2. apPid = 0 BY <3>2 DEF ApActive
      <4>3. apPc[dkLaunch[h]] \notin {"created", "capturing", "captured"}
        BY <1>0, <4>2, LaunchNumbers DEF DkInv, LaunchesInv, AppRecordingTypeOK
      <4>4. apPc[dkLaunch[h]] \in {"none", "checked", "refused", "capturing", "done"}
                                     \cup ApPending \cup ApEnding
        BY <1>0 DEF DkInv, LaunchesInv, AppRecordingTypeOK
      <4> QED BY <1>0, <4>1, <4>3, <4>4 DEF Over, ApPending, ApEnding
    <3> QED BY <1>0, <3>1, <3>2 DEF IsTrueOf
  <2> QED BY <2>1, <2>2
<1>4. Answers'
  BY <1>0, <1>3 DEF Answers, IsTrueOf, DkInv
<1> QED
  BY <1>2, <1>4

\* What else the app does, and its death.
LEMMA AppKeepsAnswers ==
    ASSUME DkInv, DkAppStep \/ DkCrash
    PROVE  Launching' /\ Answers'
<1>1. CASE DkAppStep
  <2>1. /\ UNCHANGED <<dkResponse, dkClient, dkClaimed, dkLaunch, dkStep, dkAnswer, dkMissed>>
        /\ dkBegun \subseteq dkBegun'
        /\ dkStep \in {"launch", "wait", "starting"} /\ apPid' # 0 => Head(dkClaimed) \in dkBegun'
    BY <1>1 DEF DkAppStep, dkFiles, dkLoop, dkHistory
  <2>2. AppRecordingTypeOK /\ AppRecordingNext
    BY <1>1 DEF DkAppStep, AppRecordingNext, DkInv, LaunchesInv
  <2>3. /\ ~apOverlap' /\ ~apStrayStop' => ~apOverlap /\ ~apStrayStop
        /\ \A i \in ApLaunches :
              /\ apPc[i] \in Over => apPc'[i] \in Over
              /\ apPc[i] \notin {"none", "checked"} => apPc'[i] \notin {"none", "checked"}
    BY <2>2, LaunchesForward
  <2>4. \A i \in ApLaunches : i \in Range(dkLaunch) /\ apPc[i] = "checked" => apPc'[i] = "checked"
    <3> USE <2>2 DEF AppRecordingTypeOK, ApGo
    <3>1. ASSUME NEW j \in ApLaunches, ApCheck(j)
          PROVE  apPc' = [apPc EXCEPT ![j] = apPc'[j]] /\ apPc[j] = "none"
      BY <3>1 DEF ApCheck
    <3>2. ASSUME NEW j \in ApLaunches, ApReserve(j) PROVE apPc' = [apPc EXCEPT ![j] = apPc'[j]]
      BY <3>2 DEF ApReserve
    <3>3. ASSUME NEW j \in ApLaunches, ApThreadNext(j)
          PROVE  apPc' = [apPc EXCEPT ![j] = apPc'[j]] /\ apPc[j] # "checked"
      BY <3>3 DEF ApThreadNext, ApStartFails, ApCreate, ApSensitive, ApBegin, ApEnd, ApRemove,
                  ApClear
    <3>4. ASSUME ApEnvironment PROVE UNCHANGED apPc
      BY <3>4 DEF ApEnvironment, ApStopLook, ApStopDo, ApOtherStarts, ApOtherEnds
    <3> QED BY <1>1, <3>1, <3>2, <3>3, <3>4 DEF DkAppStep
  <2>5. Launching'
    <3>1. CASE dkStep \notin Serving BY <2>1, <3>1 DEF Launching, Serving
    <3>2. CASE dkStep \in Serving
      <4>1. /\ Head(dkClaimed) \in DkRequests
            /\ dkLaunch[Head(dkClaimed)] # 0 => dkLaunch[Head(dkClaimed)] \in ApLaunches
        BY <3>2, HeadServed DEF DkInv
      <4>2. dkLaunch[Head(dkClaimed)] \in Range(dkLaunch)
        BY <4>1 DEF Range, DkInv, LoopInv, Typed
      <4> QED BY <2>1, <2>3, <2>4, <4>1, <4>2 DEF Launching, DkInv
    <3> QED BY <3>1, <3>2
  <2>6. \A r \in DkRequests :
            dkLaunch[r] # 0 /\ apPc[dkLaunch[r]] \in Over =>
                dkLaunch'[r] # 0 /\ apPc'[dkLaunch'[r]] \in Over
    BY <2>1, <2>3, OverForward DEF DkInv
  <2>7. dkStep = "answer" => Head(dkClaimed) \in DkRequests
    BY HeadServed DEF DkInv, Serving
  <2>8. Answers'
    BY <2>1, <2>3, <2>6, <2>7 DEF Answers, IsTrueOf, DkInv
  <2> QED BY <2>5, <2>8
<1>2. CASE DkCrash
  <2>1. /\ dkStep' = "asleep"
        /\ UNCHANGED <<dkResponse, dkClient, dkLaunch, dkBegun, dkMissed, apOverlap, apStrayStop>>
        /\ \A i \in ApLaunches : apPc[i] \in Over => apPc'[i] \in Over
    BY <1>2 DEF DkCrash, dkFiles, apHistory, Over
  <2>2. \A r \in DkRequests :
            dkLaunch[r] # 0 /\ apPc[dkLaunch[r]] \in Over =>
                dkLaunch'[r] # 0 /\ apPc'[dkLaunch'[r]] \in Over
    BY <2>1, OverForward DEF DkInv
  <2>3. Launching' BY <2>1 DEF Launching
  <2>4. Answers' BY <2>1, <2>2 DEF Answers, IsTrueOf, DkInv
  <2> QED BY <2>3, <2>4
<1> QED
  BY <1>1, <1>2

LEMMA DkInvNext == DkInv /\ [DesktopControlNext]_<<apVars, dkVars>> => DkInv'
<1> SUFFICES ASSUME DkInv, [DesktopControlNext]_<<apVars, dkVars>>
             PROVE  DkInv'
  OBVIOUS
<1>1. LoopInv'
  BY LoopNext DEF DkInv
<1>2. LaunchesInv'
  BY DkOnLaunches, LaunchesNext, CrashKeepsLaunches DEF DkInv
<1>3. ASSUME UNCHANGED <<apVars, dkVars>>
      PROVE  Launching' /\ Answers'
  BY <1>3 DEF apVars, apHistory, dkVars, dkFiles, dkLoop, dkHistory, DkInv, Launching, Answers,
              IsTrueOf
<1>4. Launching' /\ Answers'
  BY <1>2, <1>3, AsideKeepsAnswers, LoopKeepsAnswers, LaunchKeepsAnswers, WaitKeepsAnswers,
     AppKeepsAnswers
     DEF DesktopControlNext
<1> QED
  BY <1>1, <1>2, <1>4 DEF DkInv

\* However requests, launches, timeouts and deaths of the app interleave: what was
\* revoked is not served, nothing is served twice, nothing is forgotten and no
\* answer is false, with the exceptions that the parts of RequestsServed name
\* (desktop_control.rs:156, index.ts:957, commands.rs:6097).
THEOREM Served == DesktopControlSpec => []RequestsServed
<1>1. DkInv => RequestsServed
  <2> SUFFICES ASSUME DkInv
               PROVE  RequestsServed
    OBVIOUS
  <2>1. RevokedNotServed /\ ServedOnce
    <3>1. \A r \in DkRequests : dkServes[r] \in {0, 1} BY DEF DkInv, LoopInv, Serves, Once
    <3>2. \A r \in dkRevoked : dkServes[r] = 0 BY DEF DkInv, LoopInv, Serves, TakenBack
    <3> QED BY <3>1, <3>2 DEF RevokedNotServed, ServedOnce
  <2>2. NotForgotten
    <3>1. \A k \in 1..Len(dkClaimed) : dkClaimed[k] \in Range(dkClaimed)
      <4>1. dkClaimed \in Seq(DkRequests) BY DEF DkInv, LoopInv, Typed
      <4> QED BY <4>1 DEF Range
    <3> QED BY <3>1 DEF DkInv, LoopInv, Waits, NotForgotten
  <2>3. AnswersAreTrue
    BY DEF DkInv, Answers, IsTrueOf, AnswersAreTrue, Over
  <2> QED BY <2>1, <2>2, <2>3 DEF RequestsServed
<1> QED
  BY DkInvInit, DkInvNext, <1>1, PTL DEF DesktopControlSpec

\* Deaths are counted, and what is remembered of requests is of requests.
Remembered ==
    /\ dkCrashes \in 0..DkMaxCrashes
    /\ dkTorn \cup dkOrphaned \cup dkMissed \cup dkBegun \subseteq DkRequests

LEMMA RememberedNext ==
    DkInv /\ Remembered /\ [DesktopControlNext]_<<apVars, dkVars>> => Remembered'
<1> SUFFICES ASSUME DkInv, Remembered, [DesktopControlNext]_<<apVars, dkVars>>
             PROVE  Remembered'
  OBVIOUS
<1> USE DEF Remembered, dkFiles, dkLoop, dkHistory
<1>1. ASSUME NEW r \in DkRequests, DkWrite(r) \/ DkRead(r) \/ DkGiveUp(r) \/ DkClaim(r)
      PROVE  Remembered'
  BY <1>1 DEF DkWrite, DkRead, DkGiveUp, DkClaim
<1>2. ASSUME DkList \/ DkNext \/ (\E i \in ApLaunches : DkLaunch(i)) \/ DkReserve \/ DkWait \/ DkRespond
      PROVE  Remembered'
  BY <1>2 DEF DkList, DkNext, DkLaunch, DkReserve, DkWait, DkRespond
<1>3. ASSUME DkStarting
      PROVE  Remembered'
  BY <1>3, HeadServed DEF DkStarting, DkInv, Serving
<1>4. ASSUME DkCrash
      PROVE  Remembered'
  BY <1>4, DkAssumption DEF DkCrash
<1>5. ASSUME DkAppStep
      PROVE  Remembered'
  BY <1>5, HeadServed DEF DkAppStep, DkInv, Serving
<1>6. CASE UNCHANGED <<apVars, dkVars>>
  BY <1>6 DEF dkVars
<1> QED BY <1>1, <1>2, <1>3, <1>4, <1>5, <1>6 DEF DesktopControlNext

\* Clients, files, the loop and the launches are in their ranges; while a request is
\* being served there is one in the list of claims, and the file of each in the list
\* is claimed (desktop_control.rs:142-190, commands.rs:6097).
THEOREM RequestTyping == DesktopControlSpec => []DesktopControlTypeOK
<1>1. DkInv /\ Remembered => DesktopControlTypeOK
  <2> SUFFICES ASSUME DkInv, Remembered
               PROVE  DesktopControlTypeOK
    OBVIOUS
  <2>1. /\ dkClaimed \in Seq(DkRequests)
        /\ \A k \in 1..Len(dkClaimed) : dkFile[dkClaimed[k]] = "claimed"
    BY DEF DkInv, LoopInv, Typed, Claims
  <2>2. \A r \in Range(dkClaimed) : \E k \in 1..Len(dkClaimed) : r = dkClaimed[k]
    BY <2>1 DEF Range
  <2>3. /\ Range(dkClaimed) \subseteq DkRequests
        /\ \A r \in Range(dkClaimed) : dkFile[r] = "claimed"
    BY <2>1, <2>2
  <2> QED
    BY <2>3 DEF DkInv, LaunchesInv, LoopInv, Typed, Steps, Serving, Remembered, DesktopControlTypeOK
<1>2. DesktopControlInit => Remembered
  BY DkAssumption DEF DesktopControlInit, Remembered
<1> QED
  BY DkInvInit, DkInvNext, RememberedNext, <1>1, <1>2, PTL DEF DesktopControlSpec

-----------------------------------------------------------------------------
(* CallEnd: the countdown *)

\* The types, flag by flag.
CeFlagsTyped ==
    /\ ceRecording \in BOOLEAN /\ ceByCall \in BOOLEAN /\ ceStopFlag \in BOOLEAN
    /\ ceActive \in BOOLEAN /\ ceCancel \in BOOLEAN
    /\ ceCall \in BOOLEAN /\ ceKept \in BOOLEAN /\ ceDue \in BOOLEAN
    /\ ceTerminal \in {"none", "user", "fired", "stopped"}

CeRecordingsTyped ==
    /\ cePhase \in [CeAll -> {"none", "starting", "capturing", "over", "cleared", "gone"}]
    /\ ceKind \in [CeAll -> {"none", "banner", "window", "direct"}]

CeDetectionTyped ==
    /\ cePoll \in [on : BOOLEAN, watched : BOOLEAN, seen : 0..CeMaxRecordings]
    /\ ceKnown \in {"none", "live", "ended"}
    /\ ceCountdown \in [CeCountdowns -> [pc : {"idle", "ticking", "fired"},
                                         for : 0..CeMaxRecordings, stale : BOOLEAN]]
    /\ ceCalls \in 0..CeMaxCalls

CeRuns(c) == ceCountdown[c].pc # "idle"

\* An active countdown has its thread.
CeActiveBacked == ceActive => \E c \in CeCountdowns : CeRuns(c)

\* Recordings are numbered in the order of their starts, one at a time.
CeOrdered ==
    \A i, j \in CeAll :
        j < i /\ cePhase[i] # "none" => cePhase[j] \in {"over", "cleared", "gone"}

\* AppState.recording, and the flag of a banner's recording, are backed.
CeBacked == ceRecording => CeCapturing # {}

CeByCallBacked ==
    ceByCall => \E i \in CeAll :
        ceKind[i] = "banner" /\ cePhase[i] \in {"starting", "capturing", "over", "cleared"}

\* While a recording runs there is one countdown at most ...
CeOneCountdown ==
    ceRecording => \A c, d \in CeCountdowns : CeRuns(c) /\ CeRuns(d) => c = d

\* ... and the detector arms no other beside it: it knows that the call has ended,
\* and once the countdown is no longer active, why.
CeNotRearmed ==
    ceRecording /\ (\E c \in CeCountdowns : CeRuns(c)) =>
        /\ ceKnown = "ended" \/ ~ceByCall \/ ceCancel
        /\ cePoll.on /\ cePoll.watched => ceKnown = "ended"
        /\ ~ceActive => ceCancel /\ (cePoll.on /\ cePoll.watched => ceTerminal # "none")

\* Nor does its recording change.
CeAimed ==
    ceRecording => \A c \in CeCountdowns :
        ceCountdown[c].pc = "ticking" /\ ~ceCountdown[c].stale =>
            /\ ceCountdown[c].for \in CeCapturing
            /\ ceKind[ceCountdown[c].for] = "banner" \/ CeEnding # {} \/ ceCancel

\* The choice of the user cancels, and is marked.
CeKeptNoted == ceKept => ceCancel /\ ceTerminal # "none"

CeInv ==
    /\ CeFlagsTyped /\ CeRecordingsTyped /\ CeDetectionTyped
    /\ CeActiveBacked /\ CeOrdered /\ CeBacked /\ CeByCallBacked
    /\ CeOneCountdown /\ CeNotRearmed /\ CeAimed /\ CeKeptNoted

\* What the two action properties say of a step.
CeScopedStep ==
    \A c \in CeCountdowns :
        CeFires(c) => /\ ~ceKept
                      /\ ~ceCountdown[c].stale =>
                            \A i \in CeCapturing : ceKind[i] = "banner" /\ ceCountdown[c].for = i

\* The flags are booleans, one by one or together.
LEMMA CeTypes ==
    CallEndTypeOK <=> CeFlagsTyped /\ CeRecordingsTyped /\ CeDetectionTyped /\ CeActiveBacked
BY DEF CallEndTypeOK, CeFlagsTyped, CeRecordingsTyped, CeDetectionTyped, CeActiveBacked, CeRuns

\* One recording starts or captures at a time.
LEMMA CeOneOpen ==
    ASSUME CeRecordingsTyped, CeOrdered, NEW i \in CeAll, NEW j \in CeAll,
           cePhase[i] \in {"starting", "capturing"}, cePhase[j] \in {"starting", "capturing"}
    PROVE  i = j
<1>1. i \in Nat /\ j \in Nat
  BY CeAssumption DEF CeAll
<1>2. ~(j < i) /\ ~(i < j)
  BY DEF CeOrdered
<1> QED BY <1>1, <1>2

\* At first there is no recording and no countdown.
LEMMA CeInitOk == CallEndInit => CeInv
<1> SUFFICES ASSUME CallEndInit PROVE CeInv
  OBVIOUS
<1>1. CeFlagsTyped /\ CeRecordingsTyped
  BY DEF CallEndInit, CeFlagsTyped, CeRecordingsTyped
<1>2. CeDetectionTyped
  BY CeAssumption DEF CallEndInit, CeDetectionTyped, CeNoPoll, CeIdle
<1>3. \A c \in CeCountdowns : ~CeRuns(c) /\ ceCountdown[c].pc # "ticking"
  BY DEF CallEndInit, CeIdle, CeRuns
<1>4. CeActiveBacked /\ CeOrdered /\ CeBacked /\ CeByCallBacked
  BY DEF CallEndInit, CeActiveBacked, CeOrdered, CeBacked, CeByCallBacked
<1>5. CeOneCountdown /\ CeNotRearmed /\ CeAimed /\ CeKeptNoted
  BY DEF CallEndInit, CeOneCountdown, CeNotRearmed, CeAimed, CeKeptNoted
<1> QED BY <1>1, <1>2, <1>4, <1>5 DEF CeInv

-----------------------------------------------------------------------------

\* A recording moves on: its order with the others stays.
LEMMA CeMoved ==
    ASSUME CeRecordingsTyped, CeOrdered, NEW i \in CeAll,
           NEW to \in {"starting", "capturing", "over", "cleared", "gone"},
           cePhase' = [cePhase EXCEPT ![i] = to],
           \/ /\ cePhase[i] = "none"
              /\ \A j \in 1..(i - 1) : cePhase[j] \in {"over", "cleared", "gone"}
           \/ cePhase[i] \in {"starting", "capturing"}
           \/ cePhase[i] # "none" /\ to \in {"over", "cleared", "gone"}
    PROVE  CeOrdered'
<1>1. cePhase \in [CeAll -> {"none", "starting", "capturing", "over", "cleared", "gone"}]
      /\ i \in Nat
  BY CeAssumption DEF CeRecordingsTyped, CeAll
<1> SUFFICES ASSUME NEW k \in CeAll, NEW j \in CeAll, j < k, cePhase'[k] # "none"
             PROVE  cePhase'[j] \in {"over", "cleared", "gone"}
  BY DEF CeOrdered
<1>2. k \in Nat /\ j \in Nat /\ j >= 1
  BY CeAssumption DEF CeAll
<1>3. CASE k = i
  <2>1. cePhase[j] \in {"over", "cleared", "gone"}
    BY <1>1, <1>2, <1>3 DEF CeOrdered
  <2> QED BY <1>1, <1>2, <1>3, <2>1
<1>4. CASE k # i /\ j = i
  <2>1. cePhase[i] \in {"over", "cleared", "gone"}
    BY <1>1, <1>4 DEF CeOrdered
  <2> QED BY <1>1, <1>4, <2>1
<1>5. CASE k # i /\ j # i
  BY <1>1, <1>5 DEF CeOrdered
<1> QED BY <1>3, <1>4, <1>5

\* A start finds no recording.  Those from a window settle the countdown's flags.
LEMMA CeStartStep ==
    ASSUME CeInv, NEW i \in CeAll, NEW kind \in {"banner", "window", "direct"}, CeStart(i, kind)
    PROVE  CeInv' /\ CeScopedStep
<1>1. /\ cePhase[i] = "none" /\ cePhase' = [cePhase EXCEPT ![i] = "starting"]
      /\ ceKind' = [ceKind EXCEPT ![i] = kind]
      /\ ceRecording = FALSE
      /\ UNCHANGED <<ceRecording, ceStopFlag, ceCall, ceDue, cePoll, ceKnown, ceCountdown, ceCalls>>
  BY DEF CeStart, CeGo, ceDetection, ceCallVars, CeInv, CeFlagsTyped
<1>2. \/ UNCHANGED <<ceByCall, ceActive, ceCancel, ceTerminal, ceKept>>
      \/ /\ ceByCall' = (kind = "banner") /\ ceTerminal' = "none" /\ ceCancel' = TRUE
         /\ ceActive' = FALSE /\ ceKept' = FALSE
  BY DEF CeStart, ceFlags
<1>3. CeFlagsTyped'
  BY <1>1, <1>2 DEF CeInv, CeFlagsTyped
<1>4. CeRecordingsTyped' /\ CeDetectionTyped'
  BY <1>1 DEF CeInv, CeRecordingsTyped, CeDetectionTyped
<1>5. CeOrdered'
  BY <1>1, CeMoved DEF CeInv, CeStart
<1>6. CeByCallBacked'
  <2> SUFFICES ASSUME ceByCall'
               PROVE  \E k \in CeAll :
                          /\ ceKind'[k] = "banner"
                          /\ cePhase'[k] \in {"starting", "capturing", "over", "cleared"}
    BY DEF CeByCallBacked
  <2>0. cePhase'[i] = "starting" /\ ceKind'[i] = kind
    BY <1>1 DEF CeInv, CeRecordingsTyped
  <2>1. CASE ceByCall
    <3>1. PICK k \in CeAll : /\ ceKind[k] = "banner"
                             /\ cePhase[k] \in {"starting", "capturing", "over", "cleared"}
      BY <2>1 DEF CeInv, CeByCallBacked
    <3>2. k # i
      BY <1>1, <3>1
    <3>3. cePhase'[k] = cePhase[k] /\ ceKind'[k] = ceKind[k]
      BY <1>1, <3>2 DEF CeInv, CeRecordingsTyped
    <3> QED BY <3>1, <3>3
  <2>2. CASE ~ceByCall
    <3>1. kind = "banner"
      BY <1>2, <2>2
    <3> QED BY <2>0, <3>1
  <2> QED BY <2>1, <2>2
<1>7. CeActiveBacked' /\ CeKeptNoted'
  BY <1>1, <1>2 DEF CeInv, CeActiveBacked, CeRuns, CeKeptNoted
<1>8. CeBacked' /\ CeOneCountdown' /\ CeNotRearmed' /\ CeAimed'
  BY <1>1 DEF CeBacked, CeOneCountdown, CeNotRearmed, CeAimed
<1>9. CeScopedStep
  BY <1>1 DEF CeScopedStep, CeFires
<1> QED BY <1>3, <1>4, <1>5, <1>6, <1>7, <1>8, <1>9 DEF CeInv

\* When a recording begins, every countdown has gone.
LEMMA CeBeginStep ==
    ASSUME CeInv, NEW i \in CeAll, CeBegin(i)
    PROVE  CeInv' /\ CeScopedStep
<1>1. /\ cePhase[i] = "starting" /\ cePhase' = [cePhase EXCEPT ![i] = "capturing"]
      /\ ceRecording' = TRUE /\ ceStopFlag' = FALSE
      /\ UNCHANGED <<ceKind, ceByCall, ceActive, ceCancel, ceTerminal, cePoll, ceKnown, ceCountdown,
                     ceCall, ceCalls, ceKept, ceDue>>
  BY DEF CeBegin, CeGo, ceFlags, ceDetection, ceCallVars, ceHistory
<1>2. ~ceRecording
  <2> SUFFICES ASSUME ceRecording PROVE FALSE
    OBVIOUS
  <2>1. PICK k \in CeAll : cePhase[k] = "capturing"
    BY DEF CeInv, CeBacked, CeCapturing
  <2> QED BY <1>1, <2>1, CeOneOpen DEF CeInv
<1>3. \A c \in CeCountdowns : ~CeRuns(c)' /\ ceCountdown'[c].pc # "ticking"
  BY <1>1, <1>2 DEF CeBegin, CeTicked, CeRuns
<1>4. CeFlagsTyped' /\ CeRecordingsTyped' /\ CeDetectionTyped'
  <2>1. CeFlagsTyped'
    BY <1>1 DEF CeInv, CeFlagsTyped
  <2>2. CeRecordingsTyped' /\ CeDetectionTyped'
    BY <1>1 DEF CeInv, CeRecordingsTyped, CeDetectionTyped
  <2> QED BY <2>1, <2>2
<1>5. CeOrdered'
  BY <1>1, CeMoved DEF CeInv
<1>6. CeBacked'
  <2>1. cePhase'[i] = "capturing"
    BY <1>1 DEF CeInv, CeRecordingsTyped
  <2> QED BY <2>1 DEF CeBacked, CeCapturing
<1>7. CeByCallBacked'
  <2>1. \A k \in CeAll : cePhase[k] \in {"starting", "capturing", "over", "cleared"} =>
            cePhase'[k] \in {"starting", "capturing", "over", "cleared"}
    BY <1>1 DEF CeInv, CeRecordingsTyped
  <2> QED BY <1>1, <2>1 DEF CeInv, CeByCallBacked
<1>8. CeActiveBacked' /\ CeKeptNoted'
  BY <1>1 DEF CeInv, CeActiveBacked, CeRuns, CeKeptNoted
<1>9. CeOneCountdown' /\ CeNotRearmed' /\ CeAimed'
  BY <1>3 DEF CeOneCountdown, CeNotRearmed, CeAimed
<1>10. CeScopedStep
  BY <1>1 DEF CeScopedStep, CeFires
<1> QED BY <1>4, <1>5, <1>6, <1>7, <1>8, <1>9, <1>10 DEF CeInv

\* The end of a recording, and its last stores: no recording, whatever else is on.
LEMMA CeEndStep ==
    ASSUME CeInv, NEW i \in CeAll, CeEnd(i) \/ CeClear(i)
    PROVE  CeInv' /\ CeScopedStep
<1>1. /\ ceRecording' = FALSE /\ ceDue' = FALSE
      /\ UNCHANGED <<ceKind, ceByCall, ceStopFlag, ceActive, ceCancel, ceTerminal, cePoll, ceKnown,
                     ceCountdown, ceCall, ceCalls, ceKept>>
  BY DEF CeEnd, CeClear, ceFlags, ceDetection, ceCallVars
<1>2. PICK to \in {"over", "cleared"} :
          /\ cePhase[i] \in {"starting", "capturing", "over"}
          /\ cePhase' = [cePhase EXCEPT ![i] = to]
  BY DEF CeEnd, CeClear, CeGo
<1>3. CeFlagsTyped'
  BY <1>1 DEF CeInv, CeFlagsTyped
<1>4. CeRecordingsTyped' /\ CeDetectionTyped'
  BY <1>1, <1>2 DEF CeInv, CeRecordingsTyped, CeDetectionTyped
<1>5. CeOrdered'
  BY <1>2, CeMoved DEF CeInv
<1>6. CeByCallBacked'
  <2>1. \A k \in CeAll : cePhase[k] \in {"starting", "capturing", "over", "cleared"} =>
            cePhase'[k] \in {"starting", "capturing", "over", "cleared"}
    BY <1>2 DEF CeInv, CeRecordingsTyped
  <2> QED BY <1>1, <2>1 DEF CeInv, CeByCallBacked
<1>7. CeActiveBacked' /\ CeKeptNoted'
  BY <1>1 DEF CeInv, CeActiveBacked, CeRuns, CeKeptNoted
<1>8. CeBacked' /\ CeOneCountdown' /\ CeNotRearmed' /\ CeAimed'
  BY <1>1 DEF CeBacked, CeOneCountdown, CeNotRearmed, CeAimed
<1>9. CeScopedStep
  BY <1>1 DEF CeScopedStep, CeFires
<1> QED BY <1>3, <1>4, <1>5, <1>6, <1>7, <1>8, <1>9 DEF CeInv

\* The session's guard cancels what is left of a countdown.
LEMMA CeDropStep ==
    ASSUME CeInv, NEW i \in CeAll, CeDrop(i)
    PROVE  CeInv' /\ CeScopedStep
<1>1. /\ cePhase[i] = "cleared" /\ cePhase' = [cePhase EXCEPT ![i] = "gone"]
      /\ ceByCall' = FALSE /\ ceCancel' = TRUE /\ ceDue' = FALSE
      /\ UNCHANGED <<ceKind, ceRecording, ceStopFlag, ceActive, ceTerminal, cePoll, ceKnown,
                     ceCountdown, ceCall, ceCalls, ceKept>>
  BY DEF CeDrop, CeGo, ceDetection, ceCallVars
<1>2. CeCapturing' = CeCapturing
  BY <1>1 DEF CeInv, CeRecordingsTyped, CeCapturing
<1>3. CeFlagsTyped' /\ CeRecordingsTyped' /\ CeDetectionTyped'
  <2>1. CeFlagsTyped'
    BY <1>1 DEF CeInv, CeFlagsTyped
  <2>2. CeRecordingsTyped' /\ CeDetectionTyped'
    BY <1>1 DEF CeInv, CeRecordingsTyped, CeDetectionTyped
  <2> QED BY <2>1, <2>2
<1>4. CeOrdered'
  BY <1>1, CeMoved DEF CeInv
<1>5. CeBacked' /\ CeByCallBacked'
  BY <1>1, <1>2 DEF CeInv, CeBacked, CeByCallBacked
<1>6. CeActiveBacked' /\ CeKeptNoted' /\ CeOneCountdown'
  BY <1>1 DEF CeInv, CeActiveBacked, CeRuns, CeKeptNoted, CeOneCountdown
<1>7. CeNotRearmed'
  BY <1>1 DEF CeInv, CeNotRearmed, CeRuns
<1>8. CeAimed'
  BY <1>1, <1>2 DEF CeInv, CeAimed
<1>9. CeScopedStep
  BY <1>1 DEF CeScopedStep, CeFires
<1> QED BY <1>3, <1>4, <1>5, <1>6, <1>7, <1>8, <1>9 DEF CeInv

\* A call begins or ends, or the user keeps the recording.
LEMMA CeUserStep ==
    ASSUME CeInv, CeCallStarts \/ CeCallEnds \/ CeKeep
    PROVE  CeInv' /\ CeScopedStep
<1>1. /\ UNCHANGED <<cePhase, ceKind, ceRecording, ceStopFlag, ceByCall, cePoll, ceKnown,
                     ceCountdown>>
      /\ \/ UNCHANGED <<ceActive, ceCancel, ceTerminal, ceKept>>
         \/ ceActive' = FALSE /\ ceCancel' = TRUE /\ ceTerminal' = "user" /\ ceKept' = TRUE
  BY DEF CeCallStarts, CeCallEnds, CeKeep, ceRecordings, ceFlags, ceDetection, ceCallVars
<1>2. ceCall' \in BOOLEAN /\ ceDue' \in BOOLEAN
  BY Zenon DEF CeInv, CeFlagsTyped, CeCallStarts, CeCallEnds, CeKeep, ceCallVars
<1>3. ceCalls' \in 0..CeMaxCalls
  <2>1. ceCalls' = ceCalls \/ (ceCalls < CeMaxCalls /\ ceCalls' = ceCalls + 1)
    BY Zenon DEF CeCallStarts, CeCallEnds, CeKeep, ceCallVars
  <2>2. ceCalls \in 0..CeMaxCalls
    BY DEF CeInv, CeDetectionTyped
  <2> QED BY <2>1, <2>2, CeAssumption
<1>9. CeFlagsTyped'
  <2>1. ceTerminal' \in {"none", "user", "fired", "stopped"}
    BY <1>1 DEF CeInv, CeFlagsTyped
  <2>2. ceActive' \in BOOLEAN /\ ceCancel' \in BOOLEAN /\ ceKept' \in BOOLEAN
    BY <1>1 DEF CeInv, CeFlagsTyped
  <2> QED BY <1>1, <1>2, <2>1, <2>2 DEF CeInv, CeFlagsTyped
<1>10. CeRecordingsTyped' /\ CeDetectionTyped'
  BY <1>1, <1>3 DEF CeInv, CeRecordingsTyped, CeDetectionTyped
<1>4. CeActiveBacked' /\ CeOrdered' /\ CeBacked' /\ CeByCallBacked'
  BY <1>1 DEF CeInv, CeActiveBacked, CeRuns, CeOrdered, CeBacked, CeCapturing, CeByCallBacked
<1>5. CeOneCountdown' /\ CeKeptNoted'
  BY <1>1 DEF CeInv, CeOneCountdown, CeRuns, CeKeptNoted
<1>6. CeNotRearmed'
  BY <1>1 DEF CeInv, CeNotRearmed, CeRuns
<1>7. CeAimed'
  BY <1>1 DEF CeInv, CeAimed, CeCapturing, CeEnding
<1>8. CeScopedStep
  BY <1>1 DEF CeScopedStep, CeFires
<1> QED BY <1>4, <1>5, <1>6, <1>7, <1>8, <1>9, <1>10 DEF CeInv

\* What the detector reads at the start of a poll.
LEMMA CePollStartsStep ==
    ASSUME CeInv, CePollStarts
    PROVE  CeInv' /\ CeScopedStep
<1>1. /\ UNCHANGED <<cePhase, ceKind, ceRecording, ceStopFlag, ceByCall, ceActive, ceCancel,
                     ceTerminal, ceCountdown, ceCall, ceCalls, ceKept, ceDue>>
      /\ CeTicked /\ cePoll.on = FALSE
  BY DEF CePollStarts, ceRecordings, ceFlags, ceCallVars, ceHistory, CeInv, CeDetectionTyped
<1>2. \/ /\ cePoll'.on = TRUE /\ cePoll'.watched = (ceRecording /\ ceByCall)
         /\ ceKnown' = ceKnown
      \/ ~ceByCall /\ ceKnown' = "none" /\ cePoll' = cePoll
  BY DEF CePollStarts
<1>3. cePoll' \in [on : BOOLEAN, watched : BOOLEAN, seen : 0..CeMaxRecordings]
  <2>1. (IF CeCapturing = {} THEN 0 ELSE Max(CeCapturing)) \in 0..CeMaxRecordings
    <3> SUFFICES ASSUME CeCapturing # {} PROVE Max(CeCapturing) \in 0..CeMaxRecordings
      BY CeAssumption
    <3>1. PICK k \in CeAll : cePhase[k] = "capturing"
      BY DEF CeCapturing
    <3>2. \A j \in CeCapturing : j = k
      BY <3>1, CeOneOpen DEF CeInv, CeCapturing
    <3>3. k \in CeCapturing /\ k \in Nat /\ k \in 0..CeMaxRecordings
      BY <3>1, CeAssumption DEF CeCapturing, CeAll
    <3>4. \E x \in CeCapturing : \A y \in CeCapturing : x >= y
      BY <3>2, <3>3
    <3> QED BY <3>2, <3>3, <3>4 DEF Max
  <2>2. (ceRecording /\ ceByCall) \in BOOLEAN
    OBVIOUS
  <2> DEFINE seen == IF CeCapturing = {} THEN 0 ELSE Max(CeCapturing)
             watched == ceRecording /\ ceByCall
  <2>3. cePoll' = [on |-> TRUE, watched |-> watched, seen |-> seen] \/ cePoll' = cePoll
    BY DEF CePollStarts
  <2>4. seen \in 0..CeMaxRecordings /\ watched \in BOOLEAN
    BY <2>1, <2>2
  <2> HIDE DEF seen, watched
  <2>5. [on |-> TRUE, watched |-> watched, seen |-> seen]
          \in [on : BOOLEAN, watched : BOOLEAN, seen : 0..CeMaxRecordings]
    BY <2>4
  <2> QED BY <2>3, <2>5 DEF CeInv, CeDetectionTyped
<1>4. CeFlagsTyped' /\ CeRecordingsTyped'
  BY <1>1 DEF CeInv, CeFlagsTyped, CeRecordingsTyped
<1>5. CeDetectionTyped'
  <2>1. ceKnown' \in {"none", "live", "ended"}
    BY <1>2 DEF CeInv, CeDetectionTyped
  <2> QED BY <1>1, <1>3, <2>1 DEF CeInv, CeDetectionTyped
<1>6. CeActiveBacked' /\ CeOrdered' /\ CeBacked' /\ CeByCallBacked'
  BY <1>1 DEF CeInv, CeActiveBacked, CeRuns, CeOrdered, CeBacked, CeCapturing, CeByCallBacked
<1>7. CeOneCountdown' /\ CeKeptNoted'
  BY <1>1 DEF CeInv, CeOneCountdown, CeRuns, CeKeptNoted
<1>8. CeNotRearmed'
  <2> SUFFICES ASSUME ceRecording, NEW c \in CeCountdowns, CeRuns(c)
               PROVE  /\ ceKnown' = "ended" \/ ~ceByCall \/ ceCancel
                      /\ cePoll'.on /\ cePoll'.watched => ceKnown' = "ended"
                      /\ ceActive
    BY <1>1 DEF CeNotRearmed, CeRuns
  <2>1. ~ceCancel
    BY <1>1 DEF CeTicked, CeRuns
  <2>2. ceActive /\ (ceKnown = "ended" \/ ~ceByCall)
    BY <2>1 DEF CeInv, CeNotRearmed
  <2> QED BY <1>1, <1>2, <2>2
<1>9. CeAimed'
  BY <1>1 DEF CeInv, CeAimed, CeCapturing, CeEnding
<1>10. CeScopedStep
  BY <1>1 DEF CeScopedStep, CeFires
<1> QED BY <1>4, <1>5, <1>6, <1>7, <1>8, <1>9, <1>10 DEF CeInv

\* The call is found: a countdown that is active is cancelled.
LEMMA CeDetectedStep ==
    ASSUME CeInv, CeDetected
    PROVE  CeInv' /\ CeScopedStep
<1>1. /\ UNCHANGED <<cePhase, ceKind, ceRecording, ceStopFlag, ceByCall, ceActive, ceTerminal,
                     ceCountdown, ceCall, ceCalls, ceDue>>
      /\ cePoll' = CeNoPoll
  BY DEF CeDetected, ceRecordings, ceCallVars
<1>2. \/ ceCancel' = (ceCancel \/ ceActive) /\ ceKnown' = "live" /\ ceKept' = FALSE
      \/ /\ ceKnown' = IF ceKnown = "none" THEN "live" ELSE ceKnown
         /\ ceCancel' = ceCancel /\ ceKept' = ceKept
  BY DEF CeDetected
<1>3. CeFlagsTyped' /\ CeRecordingsTyped'
  <2>1. ceCancel' \in BOOLEAN /\ ceKept' \in BOOLEAN
    BY <1>2 DEF CeInv, CeFlagsTyped
  <2> QED BY <1>1, <2>1 DEF CeInv, CeFlagsTyped, CeRecordingsTyped
<1>4. CeDetectionTyped'
  <2>1. ceKnown' \in {"none", "live", "ended"}
    BY <1>2 DEF CeInv, CeDetectionTyped
  <2>2. cePoll' \in [on : BOOLEAN, watched : BOOLEAN, seen : 0..CeMaxRecordings]
    BY <1>1, CeAssumption DEF CeNoPoll
  <2> QED BY <1>1, <2>1, <2>2 DEF CeInv, CeDetectionTyped
<1>5. CeActiveBacked' /\ CeOrdered' /\ CeBacked' /\ CeByCallBacked'
  BY <1>1 DEF CeInv, CeActiveBacked, CeRuns, CeOrdered, CeBacked, CeCapturing, CeByCallBacked
<1>6. CeOneCountdown' /\ CeKeptNoted'
  BY <1>1, <1>2 DEF CeInv, CeOneCountdown, CeRuns, CeKeptNoted
<1>7. CeNotRearmed'
  <2> SUFFICES ASSUME ceRecording, NEW c \in CeCountdowns, CeRuns(c)
               PROVE  (ceKnown' = "ended" \/ ~ceByCall \/ ceCancel') /\ (~ceActive => ceCancel')
    BY <1>1 DEF CeNotRearmed, CeRuns, CeNoPoll
  <2>1. (ceKnown = "ended" \/ ~ceByCall \/ ceCancel) /\ (~ceActive => ceCancel)
    BY DEF CeInv, CeNotRearmed
  <2> QED BY <1>2, <2>1
<1>8. CeAimed'
  <2>1. ceCancel => ceCancel'
    BY <1>2
  <2> QED BY <1>1, <2>1 DEF CeInv, CeAimed, CeCapturing, CeEnding
<1>9. CeScopedStep
  BY <1>1 DEF CeScopedStep, CeFires
<1> QED BY <1>3, <1>4, <1>5, <1>6, <1>7, <1>8, <1>9 DEF CeInv

\* No call is found, and the detector defers, or forgets it.
LEMMA CeNoCallStep ==
    ASSUME CeInv, CeNoCall, ceCountdown' = ceCountdown
    PROVE  CeInv' /\ CeScopedStep
<1>1. /\ UNCHANGED <<cePhase, ceKind, ceRecording, ceStopFlag, ceByCall, ceCall, ceCalls, ceDue>>
      /\ cePoll' = CeNoPoll
  BY DEF CeNoCall, ceRecordings, ceCallVars
<1>2. ~\E c \in CeCountdowns : CeArm(c)
  <2> SUFFICES ASSUME NEW c \in CeCountdowns, CeArm(c) PROVE FALSE
    OBVIOUS
  <2>1. ceCountdown[c].pc = "idle" /\ ceCountdown'[c].pc = "ticking"
    BY DEF CeArm, CeInv, CeDetectionTyped
  <2> QED BY <2>1
<1>3. /\ UNCHANGED <<ceActive, ceCancel, ceTerminal>>
      /\ \/ ceActive /\ ceKnown' = ceKnown
         \/ ~ceActive /\ ceKnown' = "none"
  BY <1>2 DEF CeNoCall, ceFlags
<1>4. ceKept' = ceKept
  <2>1. ceKept' = (ceKept /\ ~(ceKnown = "live" /\ ceKnown' = "ended"))
    BY DEF CeNoCall
  <2>2. ceKept \in BOOLEAN
    BY DEF CeInv, CeFlagsTyped
  <2> QED BY <1>3, <2>1, <2>2
<1>5. CeFlagsTyped' /\ CeRecordingsTyped'
  BY <1>1, <1>3, <1>4 DEF CeInv, CeFlagsTyped, CeRecordingsTyped
<1>6. CeDetectionTyped'
  <2>1. ceKnown' \in {"none", "live", "ended"}
    BY <1>3 DEF CeInv, CeDetectionTyped
  <2>2. cePoll' \in [on : BOOLEAN, watched : BOOLEAN, seen : 0..CeMaxRecordings]
    BY <1>1, CeAssumption DEF CeNoPoll
  <2> QED BY <1>1, <2>1, <2>2 DEF CeInv, CeDetectionTyped
<1>7. CeActiveBacked' /\ CeOrdered' /\ CeBacked' /\ CeByCallBacked'
  BY <1>1, <1>3 DEF CeInv, CeActiveBacked, CeRuns, CeOrdered, CeBacked, CeCapturing, CeByCallBacked
<1>8. CeOneCountdown' /\ CeKeptNoted'
  BY <1>1, <1>3, <1>4 DEF CeInv, CeOneCountdown, CeRuns, CeKeptNoted
<1>9. CeNotRearmed'
  <2> SUFFICES ASSUME ceRecording, NEW c \in CeCountdowns, CeRuns(c)
               PROVE  (ceKnown' = "ended" \/ ~ceByCall \/ ceCancel) /\ (~ceActive => ceCancel)
    BY <1>1, <1>3 DEF CeNotRearmed, CeRuns, CeNoPoll
  <2>1. (ceKnown = "ended" \/ ~ceByCall \/ ceCancel) /\ (~ceActive => ceCancel)
    BY DEF CeInv, CeNotRearmed
  <2> QED BY <1>3, <2>1
<1>10. CeAimed'
  BY <1>1, <1>3 DEF CeInv, CeAimed, CeCapturing, CeEnding
<1>11. CeScopedStep
  BY DEF CeScopedStep, CeFires
<1> QED BY <1>5, <1>6, <1>7, <1>8, <1>9, <1>10, <1>11 DEF CeInv

\* Or it arms a countdown: beside a recording there is no other one then.
LEMMA CeArmStep ==
    ASSUME CeInv, CeNoCall, NEW c \in CeCountdowns, CeArm(c),
           ~ceActive, cePoll.watched, CeMayArm, ceKnown' = "ended"
    PROVE  CeInv' /\ CeScopedStep
<1>1. /\ UNCHANGED <<cePhase, ceKind, ceRecording, ceStopFlag, ceByCall, ceCall, ceCalls, ceDue>>
      /\ cePoll.on /\ cePoll' = CeNoPoll
      /\ ceActive' = TRUE /\ ceTerminal' = "none" /\ ceCancel' = FALSE
  BY DEF CeNoCall, CeArm, ceRecordings, ceCallVars
<1> DEFINE stale == ~(ceRecording /\ ceByCall /\ cePoll.seen \in CeCapturing)
<1>2. /\ ceCountdown' = [ceCountdown EXCEPT ![c] = [pc |-> "ticking", for |-> cePoll.seen,
                                                    stale |-> stale]]
      /\ stale \in BOOLEAN
  BY DEF CeArm
<1>3. ceCountdown'[c] = [pc |-> "ticking", for |-> cePoll.seen, stale |-> stale]
      /\ \A d \in CeCountdowns \ {c} : ceCountdown'[d] = ceCountdown[d]
  BY <1>2 DEF CeInv, CeDetectionTyped
<1>4. ceRecording => \A d \in CeCountdowns : ~CeRuns(d)
  BY <1>1 DEF CeInv, CeNotRearmed, CeMayArm
<1>5. ceKept' = FALSE
  <2>1. ceKept' = (ceKept /\ ~(ceKnown = "live" /\ ceKnown' = "ended"))
    BY DEF CeNoCall
  <2>2. ceKnown = "ended" => ~ceKept
    BY DEF CeMayArm, CeInv, CeKeptNoted
  <2> QED BY <2>1, <2>2 DEF CeMayArm
<1>6. CeFlagsTyped' /\ CeRecordingsTyped'
  BY <1>1, <1>5 DEF CeInv, CeFlagsTyped, CeRecordingsTyped
<1>7. CeDetectionTyped'
  <2>1. cePoll.seen \in 0..CeMaxRecordings
    BY DEF CeInv, CeDetectionTyped
  <2>2. cePoll' \in [on : BOOLEAN, watched : BOOLEAN, seen : 0..CeMaxRecordings]
    BY <1>1, CeAssumption DEF CeNoPoll
  <2> HIDE DEF stale
  <2>3. [pc |-> "ticking", for |-> cePoll.seen, stale |-> stale]
          \in [pc : {"idle", "ticking", "fired"}, for : 0..CeMaxRecordings, stale : BOOLEAN]
    BY <1>2, <2>1
  <2> QED BY <1>1, <1>2, <2>2, <2>3 DEF CeInv, CeDetectionTyped
<1>8. CeActiveBacked'
  BY <1>3 DEF CeActiveBacked, CeRuns
<1>9. CeOrdered' /\ CeBacked' /\ CeByCallBacked' /\ CeKeptNoted'
  BY <1>1, <1>5 DEF CeInv, CeOrdered, CeBacked, CeCapturing, CeByCallBacked, CeKeptNoted
<1>10. CeOneCountdown'
  BY <1>1, <1>3, <1>4 DEF CeOneCountdown, CeRuns
<1>11. CeNotRearmed'
  BY <1>1 DEF CeNotRearmed, CeNoPoll
<1>12. CeAimed'
  <2> SUFFICES ASSUME ceRecording, NEW d \in CeCountdowns,
                      ceCountdown'[d].pc = "ticking", ~ceCountdown'[d].stale
               PROVE  /\ ceCountdown'[d].for \in CeCapturing
                      /\ ceKind[ceCountdown'[d].for] = "banner" \/ CeEnding # {}
    BY <1>1 DEF CeAimed, CeCapturing, CeEnding
  <2>1. d = c
    BY <1>3, <1>4 DEF CeRuns
  <2>2. ceCountdown'[d].for = cePoll.seen /\ ceByCall /\ cePoll.seen \in CeCapturing
    <3>1. ceCountdown'[c].for = cePoll.seen /\ ceCountdown'[c].stale = stale
      BY <1>3
    <3>2. ~stale
      BY <2>1, <3>1
    <3> QED BY <2>1, <3>1, <3>2
  <2>3. PICK i \in CeAll : /\ ceKind[i] = "banner"
                           /\ cePhase[i] \in {"starting", "capturing", "over", "cleared"}
    BY <2>2 DEF CeInv, CeByCallBacked
  <2>4. CASE cePhase[i] \in {"over", "cleared"}
    BY <2>2, <2>4 DEF CeEnding
  <2>5. CASE cePhase[i] \in {"starting", "capturing"}
    <3>1. i = cePoll.seen
      BY <2>2, <2>5, CeOneOpen DEF CeInv, CeCapturing
    <3> QED BY <2>2, <2>3, <3>1
  <2> QED BY <2>3, <2>4, <2>5
<1>13. CeScopedStep
  BY <1>3 DEF CeScopedStep, CeFires
<1> QED BY <1>6, <1>7, <1>8, <1>9, <1>10, <1>11, <1>12, <1>13 DEF CeInv

\* A countdown ends: beside a recording there is none left.
LEMMA CeCountdownGoesStep ==
    ASSUME CeInv, NEW c \in CeCountdowns, CeTick(c) \/ CeFired(c)
    PROVE  CeInv' /\ CeScopedStep
<1>1. /\ UNCHANGED <<cePhase, ceKind, ceRecording, ceStopFlag, ceByCall, cePoll, ceKnown, ceCall,
                     ceCalls, ceKept, ceDue>>
      /\ ceActive' = FALSE /\ ceCancel' = TRUE
      /\ CeRuns(c) /\ ceCountdown' = [ceCountdown EXCEPT ![c] = CeIdle]
  BY DEF CeTick, CeFired, CeRuns, ceRecordings, ceDetection, ceCallVars, ceHistory
<1>2. ceTerminal' \in {"fired", "stopped"} \/ (ceCancel /\ ceTerminal' = ceTerminal)
  BY DEF CeTick, CeFired
<1>3. ceCountdown'[c] = CeIdle /\ \A d \in CeCountdowns \ {c} : ceCountdown'[d] = ceCountdown[d]
  BY <1>1 DEF CeInv, CeDetectionTyped
<1>4. CeFlagsTyped' /\ CeRecordingsTyped'
  BY <1>1, <1>2 DEF CeInv, CeFlagsTyped, CeRecordingsTyped
<1>5. CeDetectionTyped'
  <2>1. CeIdle \in [pc : {"idle", "ticking", "fired"}, for : 0..CeMaxRecordings, stale : BOOLEAN]
    BY CeAssumption DEF CeIdle
  <2> QED BY <1>1, <2>1 DEF CeInv, CeDetectionTyped
<1>6. CeActiveBacked' /\ CeOrdered' /\ CeBacked' /\ CeByCallBacked'
  BY <1>1 DEF CeInv, CeActiveBacked, CeOrdered, CeBacked, CeCapturing, CeByCallBacked
<1>7. CeKeptNoted'
  BY <1>1, <1>2 DEF CeInv, CeKeptNoted
<1>8. ceRecording => \A d \in CeCountdowns : ~CeRuns(d)'
  BY <1>1, <1>3 DEF CeInv, CeOneCountdown, CeRuns, CeIdle
<1>9. CeOneCountdown' /\ CeNotRearmed'
  BY <1>1, <1>8 DEF CeOneCountdown, CeNotRearmed
<1>10. CeAimed'
  BY <1>1, <1>8 DEF CeAimed, CeRuns
<1>11. CeScopedStep
  BY <1>3 DEF CeScopedStep, CeFires, CeIdle
<1> QED BY <1>4, <1>5, <1>6, <1>7, <1>9, <1>10, <1>11 DEF CeInv

\* A countdown fires at its own recording, which the user did not keep.
LEMMA CeFireStep ==
    ASSUME CeInv, NEW c \in CeCountdowns, CeFire(c)
    PROVE  CeInv' /\ CeScopedStep
<1>1. /\ UNCHANGED <<cePhase, ceKind, ceRecording, ceActive, ceCancel, ceTerminal, cePoll, ceKnown,
                     ceCall, ceCalls, ceKept, ceDue>>
      /\ ceStopFlag' = TRUE /\ ceByCall' = FALSE
      /\ ceCountdown[c].pc = "ticking" /\ ceCancel = FALSE /\ ceRecording /\ CeEnding = {}
      /\ ceCountdown' = [ceCountdown EXCEPT ![c].pc = "fired"]
  BY DEF CeFire, ceFlags, ceDetection, ceCallVars, ceHistory, CeInv, CeFlagsTyped
<1>2. /\ ceCountdown'[c] = [ceCountdown[c] EXCEPT !.pc = "fired"]
      /\ \A d \in CeCountdowns \ {c} : ceCountdown'[d] = ceCountdown[d]
  BY <1>1 DEF CeInv, CeDetectionTyped
<1>3. ceCountdown'[c].pc = "fired"
  BY <1>2 DEF CeInv, CeDetectionTyped
<1>4. CeFlagsTyped' /\ CeRecordingsTyped'
  BY <1>1 DEF CeInv, CeFlagsTyped, CeRecordingsTyped
<1>5. CeDetectionTyped'
  <2>1. [ceCountdown[c] EXCEPT !.pc = "fired"]
          \in [pc : {"idle", "ticking", "fired"}, for : 0..CeMaxRecordings, stale : BOOLEAN]
    BY DEF CeInv, CeDetectionTyped
  <2> QED BY <1>1, <2>1 DEF CeInv, CeDetectionTyped
<1>6. \A d \in CeCountdowns : CeRuns(d)' <=> CeRuns(d)
  BY <1>1, <1>2, <1>3 DEF CeRuns
<1>7. CeActiveBacked' /\ CeOrdered' /\ CeBacked' /\ CeByCallBacked' /\ CeKeptNoted'
  BY <1>1, <1>6 DEF CeInv, CeActiveBacked, CeOrdered, CeBacked, CeCapturing, CeByCallBacked,
                    CeKeptNoted
<1>8. CeOneCountdown' /\ CeNotRearmed'
  BY <1>1, <1>6 DEF CeInv, CeOneCountdown, CeNotRearmed
<1>9. CeAimed'
  BY <1>1, <1>2, <1>3 DEF CeInv, CeAimed, CeCapturing, CeEnding
<1>10. CeScopedStep
  <2> SUFFICES ASSUME NEW d \in CeCountdowns, CeFires(d)
               PROVE  /\ ~ceKept
                      /\ ~ceCountdown[d].stale =>
                            \A i \in CeCapturing : ceKind[i] = "banner" /\ ceCountdown[d].for = i
    BY DEF CeScopedStep
  <2>1. ~ceKept
    BY <1>1 DEF CeInv, CeKeptNoted
  <2>2. ASSUME ~ceCountdown[d].stale, NEW i \in CeCapturing
        PROVE  ceKind[i] = "banner" /\ ceCountdown[d].for = i
    <3>1. ceCountdown[d].for \in CeCapturing /\ ceKind[ceCountdown[d].for] = "banner"
      BY <1>1, <2>2 DEF CeInv, CeAimed, CeFires
    <3>2. ceCountdown[d].for = i
      BY <2>2, <3>1, CeOneOpen DEF CeInv, CeCapturing
    <3> QED BY <3>1, <3>2
  <2> QED BY <2>1, <2>2
<1> QED BY <1>4, <1>5, <1>7, <1>8, <1>9, <1>10 DEF CeInv

\* Every step keeps the invariant, and fires only as it may.
LEMMA CeNextKeeps == CeInv /\ [CallEndNext]_ceVars => CeInv' /\ [CeScopedStep]_ceVars
<1> SUFFICES ASSUME CeInv, [CallEndNext]_ceVars
             PROVE  CeInv' /\ CeScopedStep
  OBVIOUS
<1>1. ASSUME NEW i \in CeAll, NEW kind \in {"banner", "window", "direct"}, CeStart(i, kind)
      PROVE  CeInv' /\ CeScopedStep
  BY <1>1, CeStartStep
<1>2. ASSUME NEW i \in CeAll, CeBegin(i) \/ CeEnd(i) \/ CeStopped(i) \/ CeClear(i) \/ CeDrop(i)
      PROVE  CeInv' /\ CeScopedStep
  BY <1>2, CeBeginStep, CeEndStep, CeDropStep DEF CeStopped
<1>3. CASE CeCallStarts \/ CeCallEnds \/ CeKeep
  BY <1>3, CeUserStep
<1>4. CASE CePollStarts \/ CeDetected
  BY <1>4, CePollStartsStep, CeDetectedStep
<1>5. CASE CeNoCall
  <2>1. CASE ceCountdown' = ceCountdown
    BY <1>5, <2>1, CeNoCallStep
  <2>2. CASE ceCountdown' # ceCountdown
    <3>1. ~ceActive /\ cePoll.watched /\ CeMayArm /\ ceKnown' = "ended"
      BY <1>5, <2>2 DEF CeNoCall
    <3>2. PICK c \in CeCountdowns : CeArm(c)
      BY <1>5, <2>2 DEF CeNoCall
    <3> QED BY <1>5, <3>1, <3>2, CeArmStep
  <2> QED BY <2>1, <2>2
<1>6. ASSUME NEW c \in CeCountdowns, CeCountdownNext(c)
      PROVE  CeInv' /\ CeScopedStep
  BY <1>6, CeCountdownGoesStep, CeFireStep DEF CeCountdownNext
<1>7. CASE UNCHANGED ceVars
  <2> USE <1>7 DEF ceVars, ceRecordings, ceFlags, ceDetection, ceCallVars, ceHistory
  <2>1. CeFlagsTyped' /\ CeRecordingsTyped' /\ CeDetectionTyped'
    BY DEF CeInv, CeFlagsTyped, CeRecordingsTyped, CeDetectionTyped
  <2>2. CeActiveBacked' /\ CeOrdered' /\ CeBacked' /\ CeByCallBacked'
    BY DEF CeInv, CeActiveBacked, CeRuns, CeOrdered, CeBacked, CeCapturing, CeByCallBacked
  <2>3. CeOneCountdown' /\ CeNotRearmed' /\ CeKeptNoted'
    BY DEF CeInv, CeOneCountdown, CeNotRearmed, CeRuns, CeKeptNoted
  <2>4. CeAimed' /\ CeScopedStep
    BY DEF CeInv, CeAimed, CeCapturing, CeEnding, CeScopedStep, CeFires
  <2> QED BY <2>1, <2>2, <2>3, <2>4 DEF CeInv
<1> QED
  BY <1>1, <1>2, <1>3, <1>4, <1>5, <1>6, <1>7 DEF CallEndNext, CeThreadNext, CeDetectorNext

LEMMA CeStayTyped == CallEndInit /\ [][CallEndNext]_ceVars => []CallEndTypeOK
<1>1. CeInv => CallEndTypeOK
  BY CeTypes DEF CeInv
<1> QED BY <1>1, CeInitOk, CeNextKeeps, PTL

\* Types, and that the detector never defers to a countdown that is gone.
THEOREM CallEndTyping == CallEndSpec => []CallEndTypeOK
<1>1. CallEndSpec => CallEndInit /\ [][CallEndNext]_ceVars
  BY DEF CallEndSpec
<1> QED BY <1>1, CeStayTyped, PTL

\* The countdown stops only the recording it was armed for, and not against the
\* user's choice (call_detect.rs:496-716).
THEOREM Scoped == CallEndSpec => CountdownScoped
<1>1. CeScopedStep => \A c \in CeCountdowns : CeFires(c) /\ ~ceCountdown[c].stale =>
          \A i \in CeCapturing : ceKind[i] = "banner" /\ ceCountdown[c].for = i
  BY DEF CeScopedStep
<1>2. CeScopedStep => \A c \in CeCountdowns : CeFires(c) => ~ceKept
  BY DEF CeScopedStep
<1>3. CallEndSpec => CallEndInit /\ [][CallEndNext]_ceVars
  BY DEF CallEndSpec
<1>4. CallEndSpec => [][CeScopedStep]_ceVars
  BY <1>3, CeInitOk, CeNextKeeps, PTL
<1> QED BY <1>1, <1>2, <1>4, PTL DEF CountdownScoped, AutoStopScoped, KeepHonoured

=============================================================================
