-------------------------- MODULE ParakeetSidecar ---------------------------
(***************************************************************************)
(* The manager of the Parakeet server process (parakeet_sidecar.rs): one   *)
(* per process behind one mutex.  It starts the server, sends it requests, *)
(* restarts it once per request, goes from fp16 to fp32 for good after a   *)
(* crash with a known signature, and gives up in favour of a subprocess    *)
(* per request.  Every wait has a timeout, so that every step ends.        *)
(*                                                                         *)
(* Left out: what is transcribed, the sweep of stale sockets, and other    *)
(* processes that share the persisted blacklist.                           *)
(***************************************************************************)
EXTENDS Naturals

CONSTANTS
    PsModels,   \* models that calls may ask for
    PsMaxCalls  \* bound: calls of the manager

ASSUME PsAssumption == PsMaxCalls \in Nat /\ PsModels # {}

VARIABLES
    psPc,       \* position of the call that holds the mutex
    psCall,     \* what it asks for
    psWanted,   \* the launch spec it wants now: the retry's may differ
    psTry,      \* first or second request to the server
    psAttempt, psOriginal, \* ensure_started's specs
    psState,    \* the manager's state, with its spec
    psAlive,    \* the server of a healthy state lives
    psBlack,    \* fp16_blacklist_fingerprints has this machine's
    psBlackFile, psReady, \* the persisted one; whether it has been read
    psShutdown, \* shutdown_global_parakeet_sidecar, from a signal or a panic hook
    psStuck,    \* the holder of the mutex panicked: its hook waits for the mutex
    psCalls,
    psServers,  \* server processes that run
    psAbandoned, \* those that were dropped without being ended (line 308)
    psRevived,  \* a warm-up came after the shutdown: it does not look for it
    psStarts,   \* starts during this call
    psFallenFor \* the call spec that led to the present fallback

psSpecs == <<psCall, psWanted, psAttempt, psOriginal>>
psBlacklist == <<psBlack, psBlackFile, psReady>>
psHistory == <<psServers, psAbandoned, psRevived, psStarts, psFallenFor>>
psVars == <<psPc, psSpecs, psTry, psState, psAlive, psBlacklist, psShutdown, psStuck, psCalls,
            psHistory>>

PsSpec == [model : PsModels, fp16 : BOOLEAN]
PsSome == CHOOSE s \in PsSpec : TRUE
PsFp32(spec) == [spec EXCEPT !.fp16 = FALSE]
PsOwned == IF psState.st = "healthy" /\ psAlive THEN 1 ELSE 0

\* A call makes at most three starts: the retries end.
ParakeetSidecarTypeOK ==
    /\ psPc \in {"idle", "ensure", "start", "send"}
    /\ psCall \in [spec : PsSpec, warmup : BOOLEAN]
    /\ psWanted \in PsSpec /\ psAttempt \in PsSpec /\ psOriginal \in PsSpec
    /\ psTry \in 1..2
    /\ psState \in [st : {"cold", "starting", "healthy", "fallback", "disabled"}, spec : PsSpec]
    /\ \A flag \in {psAlive, psBlack, psBlackFile, psReady, psStuck, psRevived} : flag \in BOOLEAN
    /\ psShutdown \in {"no", "waiting", "done"}
    /\ psCalls \in 0..PsMaxCalls /\ psStarts \in 0..3
    /\ psServers \in Nat /\ psAbandoned \in Nat
    /\ psFallenFor \in PsSpec
    /\ psPc = "send" => psState.st = "healthy"

ParakeetSidecarInit ==
    /\ psPc = "idle" /\ psTry = 1
    /\ psCall = [spec |-> PsSome, warmup |-> FALSE]
    /\ psWanted = PsSome /\ psAttempt = PsSome /\ psOriginal = PsSome
    /\ psState = [st |-> "cold", spec |-> PsSome]
    /\ psAlive = FALSE
    /\ psBlack = FALSE /\ psBlackFile \in BOOLEAN /\ psReady = FALSE
    /\ psShutdown = "no" /\ psStuck = FALSE
    /\ psCalls = 0 /\ psServers = 0 /\ psAbandoned = 0 /\ psRevived = FALSE
    /\ psStarts = 0 /\ psFallenFor = PsSome

-----------------------------------------------------------------------------
(* A call *)

PsFree == psPc = "idle" /\ ~psStuck

\* The mutex is taken.  transcribe, unlike a warm-up, fails once it is disabled.
PsBegin(call) ==
    /\ PsFree /\ psCalls < PsMaxCalls
    /\ psState.st = "disabled" => call.warmup
    /\ psPc' = "ensure" /\ psTry' = 1 /\ psCalls' = psCalls + 1 /\ psStarts' = 0
    /\ psCall' = call /\ psWanted' = call.spec
    /\ psRevived' = (psRevived \/ psState.st = "disabled")
    /\ UNCHANGED <<psAttempt, psOriginal, psState, psAlive, psBlacklist, psShutdown, psStuck,
                   psServers, psAbandoned, psFallenFor>>

PsGoOn == psPc' = IF psCall.warmup THEN "idle" ELSE "send"

\* run_startup_housekeeping reads the blacklist once, or resets it.
PsHousekeeping ==
    IF psReady THEN UNCHANGED psBlacklist
    ELSE /\ psReady' = TRUE
         /\ \/ psBlack' = psBlackFile /\ UNCHANGED psBlackFile
            \/ psBlack' = FALSE /\ psBlackFile' = FALSE

\* Mutant of PsEffective: an earlier downgrade is forgotten.
PsEffectiveFp16(spec, black) == spec

\* apply_sticky_fp16_downgrade
PsEffective(spec, black) == IF black THEN PsFp32(spec) ELSE spec

\* SidecarLaunchSpec::matches
PsMatches(spec, other) == spec = other

\* The fallback stays, for the spec that it is recorded for.
PsRests(spec) == psState.st = "fallback" /\ PsMatches(psState.spec, spec)

\* ensure_started, up to the first start
PsEnsure ==
    /\ psPc = "ensure"
    /\ PsHousekeeping
    /\ LET spec == PsEffective(psWanted, psBlack')
           runs == psState.st = "healthy" /\ PsMatches(psState.spec, spec) /\ psAlive
       IN \/ runs /\ PsGoOn
             /\ UNCHANGED <<psAttempt, psOriginal, psState, psAlive, psServers>>
          \/ PsRests(spec) /\ psPc' = "idle"
             /\ UNCHANGED <<psAttempt, psOriginal, psState, psAlive, psServers>>
          \/ /\ ~runs /\ ~PsRests(spec)
             /\ psPc' = "start" /\ psAttempt' = spec /\ psOriginal' = spec
             /\ psServers' = psServers - PsOwned \* stop_running_sidecar
             /\ psState' = [st |-> "starting", spec |-> spec] /\ psAlive' = FALSE
    /\ UNCHANGED <<psCall, psWanted, psTry, psShutdown, psStuck, psCalls, psAbandoned, psRevived,
                   psStarts, psFallenFor>>

\* remember_fp16_downgrade: the file is written if possible.
PsRemember == psBlack' = TRUE /\ psBlackFile' \in {TRUE, psBlackFile} /\ UNCHANGED psReady

PsNextAttempt(spec) == PsFp32(spec)

\* start_once, with its health check, and what becomes of a failure
PsStart ==
    /\ psPc = "start"
    /\ psStarts' = psStarts + 1
    /\ \/ /\ psState' = [st |-> "healthy", spec |-> psAttempt] /\ psAlive' = TRUE
          /\ psServers' = psServers + 1
          /\ PsGoOn
          /\ UNCHANGED <<psAttempt, psBlacklist, psFallenFor>>
       \/ /\ psAttempt.fp16 \* the crash signature
          /\ PsRemember
          /\ psAttempt' = PsNextAttempt(psAttempt)
          /\ psState' = [st |-> "starting", spec |-> psAttempt']
          /\ UNCHANGED <<psPc, psAlive, psServers, psFallenFor>>
       \/ /\ psState' = [st |-> "fallback", spec |-> psOriginal]
          /\ psFallenFor' = psCall.spec
          /\ psPc' = "idle"
          /\ UNCHANGED <<psAttempt, psAlive, psBlacklist, psServers>>
    /\ UNCHANGED <<psCall, psWanted, psOriginal, psTry, psShutdown, psStuck, psCalls, psAbandoned,
                   psRevived>>

\* transcribe_once: an answer, perhaps that there was no text.
PsAnswered ==
    /\ psPc = "send" /\ psAlive
    /\ psPc' = "idle"
    /\ UNCHANGED <<psSpecs, psTry, psState, psAlive, psBlacklist, psShutdown, psStuck, psCalls,
                   psHistory>>

\* The first request fails: stopped, and once more, downgraded if the server's
\* last words say so.
PsFirstFails ==
    /\ psPc = "send" /\ psTry = 1
    /\ \/ UNCHANGED <<psWanted, psBlacklist>>
       \/ psWanted.fp16 /\ PsRemember /\ psWanted' = PsFp32(psWanted)
    /\ psServers' = psServers - PsOwned
    /\ psState' = [psState EXCEPT !.st = "cold"] /\ psAlive' = FALSE
    /\ psTry' = 2 /\ psPc' = "ensure"
    /\ UNCHANGED <<psCall, psAttempt, psOriginal, psShutdown, psStuck, psCalls, psAbandoned,
                   psRevived, psStarts, psFallenFor>>

\* The second one fails too: the state is overwritten, with the spec as it was
\* asked for, and the server's handle is dropped.
PsSecondFails ==
    /\ psPc = "send" /\ psTry = 2
    /\ psAbandoned' = psAbandoned + PsOwned
    /\ psState' = [st |-> "fallback", spec |-> psCall.spec] /\ psAlive' = FALSE
    /\ psFallenFor' = psCall.spec
    /\ psPc' = "idle"
    /\ UNCHANGED <<psSpecs, psTry, psBlacklist, psShutdown, psStuck, psCalls, psServers, psRevived,
                   psStarts>>

-----------------------------------------------------------------------------
(* The server, and the end of the process *)

PsServerDies ==
    /\ PsOwned = 1
    /\ psAlive' = FALSE /\ psServers' = psServers - 1
    /\ UNCHANGED <<psPc, psSpecs, psTry, psState, psBlacklist, psShutdown, psStuck, psCalls,
                   psAbandoned, psRevived, psStarts, psFallenFor>>

\* Ctrl-C, the end of the program, or a panic on any thread (the hook).
PsAskShutdown ==
    /\ psShutdown = "no"
    /\ psShutdown' = "waiting"
    /\ UNCHANGED <<psPc, psSpecs, psTry, psState, psAlive, psBlacklist, psStuck, psCalls, psHistory>>

\* The panic of a thread inside the manager: its hook wants the mutex it holds.
PsPanic ==
    /\ psPc # "idle" /\ ~psStuck
    /\ psStuck' = TRUE
    /\ UNCHANGED <<psPc, psSpecs, psTry, psState, psAlive, psBlacklist, psShutdown, psCalls, psHistory>>

PsShutdownDone ==
    /\ PsFree /\ psShutdown = "waiting"
    /\ psServers' = psServers - PsOwned
    /\ psState' = [psState EXCEPT !.st = "disabled"] /\ psAlive' = FALSE
    /\ psShutdown' = "done"
    /\ UNCHANGED <<psPc, psSpecs, psTry, psBlacklist, psStuck, psCalls, psAbandoned, psRevived,
                   psStarts, psFallenFor>>

-----------------------------------------------------------------------------
PsCallNext ==
    ~psStuck /\ (PsEnsure \/ PsStart \/ PsAnswered \/ PsFirstFails \/ PsSecondFails)

ParakeetSidecarNext ==
    \/ \E spec \in PsSpec, warmup \in BOOLEAN : PsBegin([spec |-> spec, warmup |-> warmup])
    \/ PsCallNext
    \/ PsServerDies \/ PsAskShutdown \/ PsPanic \/ PsShutdownDone

\* Every wait of a call has a timeout, and calls do not come for ever.
ParakeetSidecarFairness == WF_psVars(PsCallNext) /\ WF_psVars(PsShutdownDone)

ParakeetSidecarSpec ==
    ParakeetSidecarInit /\ [][ParakeetSidecarNext]_psVars /\ ParakeetSidecarFairness

-----------------------------------------------------------------------------
(* Properties *)

\* A request goes to a server of the model that was asked for, with fp16 only if
\* that was asked for too and has not crashed here (parakeet_sidecar.rs:334).
ServedAsAsked ==
    psPc = "send" =>
        /\ psState.spec.model = psCall.spec.model
        /\ psState.spec.fp16 => psCall.spec.fp16 /\ ~psBlack

\* After a crash with the fp16 signature no server is started with fp16 any
\* more, also by a later process that could read the blacklist (:608).
Fp16NotRetried == psPc = "start" /\ psAttempt.fp16 => ~psBlack /\ ~psBlackFile

\* Once the manager has given up on what a call asks for, it does not start a
\* server for the same again, unless fp16 was asked for and is blacklisted: what
\* it compares is then not what it recorded (:307 against :328).
FallbackSticks ==
    [][psPc = "ensure" /\ psPc' = "start" /\ psState.st = "fallback" /\ psFallenFor = psWanted
         => psWanted.fp16 /\ psBlack']_psVars

\* Every server that runs is the manager's, or was dropped by a second failure;
\* after a shutdown the manager has none, unless a warm-up came later (:1269).
OneServer ==
    /\ psServers = PsOwned + psAbandoned
    /\ psShutdown = "done" /\ ~psRevived => PsOwned = 0

\* The manager serves what was asked for, has one server, and sticks to what it
\* learned from failures (parakeet_sidecar.rs:270-674).
SidecarSound ==
    /\ [](ServedAsAsked /\ Fp16NotRetried /\ OneServer)
    /\ FallbackSticks

\* A shutdown gets the mutex, unless the thread that holds it panicked.
PsStopWaits == psShutdown = "waiting" /\ ~psStuck

=============================================================================
