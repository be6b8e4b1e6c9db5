---------------------------- MODULE Registration ----------------------------
(***************************************************************************)
(* One process from registerGlasstrace() to its end: the synchronous       *)
(* registration (register.ts), configureOtel() resuming after each await   *)
(* (otel-config.ts), the background key resolution and init, the circuit   *)
(* breaker and the heartbeat as far as they touch the lifecycle, and the   *)
(* shutdown coordinator.  An action is the code between two awaits.        *)
(***************************************************************************)
EXTENDS ShutdownCoordinator

VARIABLES
    mode,               \* anonymous or configured (dev) key
    providerRegistered, \* another tool has registered an OTel provider
    otelPc,             \* the await configureOtel() is suspended at
    initPc,             \* the await the background task is suspended at
    keyResolved,
    circuitOpen         \* the breaker is OPEN or HALF_OPEN (ExportPipeline)

registrationVars == <<mode, providerRegistered, otelPc, initPc, keyResolved,
                      circuitOpen>>
vars == <<lifecycleVars, coordinatorVars, registrationVars>>

OtelPc == {"none", "tick", "import_vercel", "import_prisma_vercel",
           "import_prisma_bare", "done", "rejected"}
InitPc == {"none", "read_key", "init", "done", "abandoned"}

TypeOK ==
    /\ core \in CoreState
    /\ auth \in AuthState
    /\ otel \in OtelState
    /\ degradationSources \in SUBSET DegradationSource
    /\ shutdownHooks \in Seq(Hook)
    /\ shutdownExecuted \in BOOLEAN
    /\ hooksAtStart \in SUBSET Hook
    /\ hookIndex \in Nat
    /\ awaited \in Hook \cup {"none"}
    /\ shutdownDone \in BOOLEAN
    /\ hookCalls \in [Hook -> Nat]
    /\ hooksEnded \in SUBSET Hook
    /\ handlers \in SUBSET Signal
    /\ reraise \in SUBSET [signal : Signal, waits : BOOLEAN]
    /\ beforeExitArmed \in BOOLEAN
    /\ coexistenceState \in {"unknown", "sole-owner", "coexisting"}
    /\ otherListeners \in BOOLEAN
    /\ alive \in BOOLEAN
    /\ mode \in {"anonymous", "dev"}
    /\ providerRegistered \in BOOLEAN
    /\ otelPc \in OtelPc
    /\ initPc \in InitPc
    /\ keyResolved \in BOOLEAN
    /\ circuitOpen \in BOOLEAN

Init ==
    /\ LifecycleInit
    /\ CoordinatorInit
    /\ mode \in {"anonymous", "dev"}
    /\ providerRegistered \in BOOLEAN
    /\ otelPc = "none"
    /\ initPc = "none"
    /\ keyResolved = FALSE
    /\ circuitOpen = FALSE

-----------------------------------------------------------------------------
(* registerGlasstrace(): one synchronous call, from IDLE only.  A configured *)
(* key, which may be an anonymous one, is resolved by its end.              *)

Registering == CoreAfter(core, "REGISTERING", degradationSources)

Register ==
    /\ alive
    /\ core = "IDLE"
    /\ core' = CoreAfter(Registering, "KEY_PENDING", degradationSources)
    /\ auth' = IF mode = "anonymous" THEN "ANONYMOUS" ELSE "AUTHENTICATED"
    /\ otel' = OtelAfter(otel, "CONFIGURING")
    /\ keyResolved' \in IF mode = "dev" THEN {TRUE} ELSE BOOLEAN
    /\ handlers' = Signal
    /\ coexistenceState' =
           IF providerRegistered THEN "coexisting" ELSE coexistenceState
    /\ otelPc' = "tick"
    /\ initPc' = "read_key"
    /\ UNCHANGED <<degradationSources, shutdownHooks, shutdownExecuted,
                   hooksAtStart, hookIndex, awaited, shutdownDone, hookCalls,
                   hooksEnded, reraise, beforeExitArmed, otherListeners, alive, mode,
                   providerRegistered, circuitOpen>>

RegisterInProduction ==
    /\ alive
    /\ core = "IDLE"
    /\ core' = CoreAfter(Registering, "PRODUCTION_DISABLED", degradationSources)
    /\ UNCHANGED <<auth, otel, degradationSources, coordinatorVars,
                   registrationVars>>

\* The catch clause: the exception came before the signal handlers, after
\* them, or after the auth state and the configured key as well.
RegisterFails ==
    /\ alive
    /\ core = "IDLE"
    /\ core' = CoreAfter(Registering, "REGISTRATION_FAILED", degradationSources)
    /\ \E reached \in {"nothing", "handlers", "key"} :
           /\ handlers' = IF reached = "nothing" THEN {} ELSE Signal
           /\ coexistenceState' =
                  IF reached # "nothing" /\ providerRegistered
                  THEN "coexisting" ELSE coexistenceState
           /\ auth' = IF reached = "key" /\ mode = "dev"
                      THEN "AUTHENTICATED" ELSE auth
           /\ keyResolved' \in IF reached = "key" THEN BOOLEAN ELSE {FALSE}
    /\ UNCHANGED <<otel, degradationSources, shutdownHooks, shutdownExecuted,
                   hooksAtStart, hookIndex, awaited, shutdownDone, hookCalls,
                   hooksEnded, reraise, beforeExitArmed, otherListeners, alive, mode,
                   providerRegistered, otelPc, initPc, circuitOpen>>

\* Another tool registers its provider before configureOtel() has probed.
OtherProviderAppears ==
    /\ alive
    /\ ~providerRegistered
    /\ otelPc \in {"none", "tick"}
    /\ providerRegistered' = TRUE
    /\ UNCHANGED <<lifecycleVars, coordinatorVars, mode, otelPc, initPc,
                   keyResolved, circuitOpen>>

-----------------------------------------------------------------------------
(* configureOtel(), resumed. *)

OtelStepUnchanged ==
    UNCHANGED <<auth, shutdownExecuted, hooksAtStart, hookIndex, awaited,
                shutdownDone, hookCalls, hooksEnded, handlers, reraise, otherListeners, alive,
                mode, providerRegistered, initPc, keyResolved,
                circuitOpen>>

ProbeSoleOwner ==
    /\ alive
    /\ otelPc = "tick"
    /\ ~providerRegistered
    /\ coexistenceState' = "sole-owner"
    /\ otelPc' = "import_vercel"
    /\ UNCHANGED <<core, otel, degradationSources, shutdownHooks, beforeExitArmed>>
    /\ OtelStepUnchanged

CoexistencePath ==
    /\ alive
    /\ otelPc = "tick"
    /\ providerRegistered
    /\ coexistenceState' = "coexisting"
    /\ otelPc' = "done"
    /\ OtelStepUnchanged

CoexistAlreadyPresent ==
    /\ CoexistencePath
    /\ otel' = OtelAfter(otel, "PROCESSOR_PRESENT")
    /\ UNCHANGED <<core, degradationSources, shutdownHooks, beforeExitArmed>>

CoexistAttached ==
    /\ CoexistencePath
    /\ RegisterHook("coexistence-flush")
    /\ beforeExitArmed' = TRUE
    /\ otel' = OtelAfter(otel, "AUTO_ATTACHED")
    /\ UNCHANGED <<core, degradationSources>>

\* Mutant: the source is pushed under another name than the one it is known by.
CoexistFailed_OtherKey ==
    /\ CoexistencePath
    /\ otel' = OtelAfter(otel, "COEXISTENCE_FAILED")
    /\ PushDegradationSource("coexistence-failed")
    /\ UNCHANGED <<shutdownHooks, beforeExitArmed>>

CoexistFailed ==
    /\ CoexistencePath
    /\ otel' = OtelAfter(otel, "COEXISTENCE_FAILED")
    /\ PushDegradationSource("otel-coexistence-failed")
    /\ UNCHANGED <<shutdownHooks, beforeExitArmed>>

\* @vercel/otel is installed: load @prisma/instrumentation, then register.
VercelFound ==
    /\ alive
    /\ otelPc = "import_vercel"
    /\ otelPc' = "import_prisma_vercel"
    /\ UNCHANGED <<core, otel, degradationSources, shutdownHooks, beforeExitArmed,
                   coexistenceState>>
    /\ OtelStepUnchanged

VercelRegistered ==
    /\ alive
    /\ otelPc = "import_prisma_vercel"
    /\ otelPc' = "done"
    /\ RegisterHook("otel-shutdown")
    /\ beforeExitArmed' = TRUE
    /\ otel' = OtelAfter(otel, "OWNS_PROVIDER")
    /\ UNCHANGED <<core, degradationSources, coexistenceState>>
    /\ OtelStepUnchanged

\* The bare provider and its hook come before the last await.
BareProvider ==
    /\ alive
    /\ otelPc = "import_vercel"
    /\ otelPc' = "import_prisma_bare"
    /\ RegisterHook("otel-shutdown")
    /\ beforeExitArmed' = TRUE
    /\ UNCHANGED <<core, otel, degradationSources, coexistenceState>>
    /\ OtelStepUnchanged

BareConfigured ==
    /\ alive
    /\ otelPc = "import_prisma_bare"
    /\ otelPc' = "done"
    /\ otel' = OtelAfter(otel, "OWNS_PROVIDER")
    /\ UNCHANGED <<core, degradationSources, shutdownHooks, beforeExitArmed,
                   coexistenceState>>
    /\ OtelStepUnchanged

\* registerOTel() or the provider constructor throws: a warning, no more.
ConfigureRejects ==
    /\ alive
    /\ otelPc \in {"import_vercel", "import_prisma_vercel"}
    /\ otelPc' = "rejected"
    /\ UNCHANGED <<core, otel, degradationSources, shutdownHooks, beforeExitArmed,
                   coexistenceState>>
    /\ OtelStepUnchanged

OtelStep ==
    \/ ProbeSoleOwner
    \/ CoexistAlreadyPresent
    \/ CoexistAttached
    \/ CoexistFailed
    \/ VercelFound
    \/ VercelRegistered
    \/ BareProvider
    \/ BareConfigured
    \/ ConfigureRejects

-----------------------------------------------------------------------------
(* The background task: key, then init. *)

BackgroundUnchanged ==
    UNCHANGED <<otel, shutdownExecuted, hooksAtStart, hookIndex, awaited,
                shutdownDone, hookCalls, hooksEnded, handlers, reraise, beforeExitArmed,
                coexistenceState, otherListeners, alive, mode,
                providerRegistered, otelPc>>

\* isCurrentRegistration() is false once the SDK is stopping; the dev path
\* does not ask.
KeyRead ==
    /\ alive
    /\ initPc = "read_key"
    /\ IF mode = "anonymous" /\ core \in Stopping
       THEN initPc' = "abandoned" /\ UNCHANGED keyResolved
       ELSE initPc' = "init" /\ keyResolved' = TRUE
    /\ UNCHANGED <<core, auth, degradationSources, shutdownHooks, circuitOpen>>
    /\ BackgroundUnchanged

\* Mutant: after a failed init the core is left as it is.
CoreAfterInit_OnlySuccess(ok) ==
    IF ok /\ core = "KEY_PENDING"
    THEN CoreAfter(CoreAfter(core, "KEY_RESOLVED", degradationSources),
                   "ACTIVE", degradationSources)
    ELSE core

\* KEY_PENDING -> KEY_RESOLVED -> ACTIVE or ACTIVE_DEGRADED.
CoreAfterInit(ok) ==
    LET resolved == IF core = "KEY_PENDING"
                    THEN CoreAfter(core, "KEY_RESOLVED", degradationSources)
                    ELSE core
    IN  IF resolved = "KEY_RESOLVED"
        THEN CoreAfter(resolved, IF ok THEN "ACTIVE" ELSE "ACTIVE_DEGRADED",
                       degradationSources)
        ELSE resolved

\* startHeartbeat(); its hook is registered once per process.
StartHeartbeat ==
    shutdownHooks' = IF "heartbeat-final-report" \in ToSet(shutdownHooks)
                     THEN shutdownHooks
                     ELSE WithHook(shutdownHooks, "heartbeat-final-report")

InitReturns ==
    /\ alive
    /\ initPc = "init"
    /\ initPc' = "done"
    /\ UNCHANGED keyResolved
    /\ BackgroundUnchanged

\* An answer of the backend takes several turns of the event loop, the one tick
\* configureOtel() yields is over with the first.  An init may fail before it.
InitAnswers == InitReturns /\ otelPc # "tick"

\* performInit() came back during the shutdown.
InitTooLate ==
    /\ InitReturns
    /\ core \in Stopping
    /\ UNCHANGED <<core, auth, degradationSources, shutdownHooks, circuitOpen>>

InitFailed ==
    /\ InitReturns
    /\ core \notin Stopping
    /\ core' = CoreAfterInit(FALSE)
    /\ UNCHANGED <<auth, degradationSources, shutdownHooks, circuitOpen>>

\* Mutant: the result is used without looking whether the SDK is stopping.
InitServed_Unchecked ==
    /\ InitAnswers
    /\ core' = CoreAfterInit(TRUE)
    /\ StartHeartbeat
    /\ UNCHANGED <<auth, degradationSources, circuitOpen>>

InitServed ==
    /\ InitAnswers
    /\ core \notin Stopping
    /\ core' = CoreAfterInit(TRUE)
    /\ StartHeartbeat
    /\ UNCHANGED <<auth, degradationSources, circuitOpen>>

\* Served with an account claim: the new key is a rotation, which closes the
\* circuit and clears its degradation source.
InitServedClaim ==
    /\ InitAnswers
    /\ core \notin Stopping
    /\ auth' = AuthAfterClaim(auth)
    /\ circuitOpen' = FALSE
    /\ degradationSources' = IF circuitOpen
                             THEN degradationSources \ {"export-circuit"}
                             ELSE degradationSources
    /\ core' = Recomputed(CoreAfterInit(TRUE), degradationSources')
    /\ StartHeartbeat

-----------------------------------------------------------------------------
(* The breaker and the heartbeat, seen from the lifecycle. *)

RuntimeUnchanged ==
    UNCHANGED <<otel, coordinatorVars, mode, providerRegistered, otelPc, initPc,
                keyResolved>>

CircuitOpens ==
    /\ alive
    /\ keyResolved
    /\ ~circuitOpen
    /\ circuitOpen' = TRUE
    /\ PushDegradationSource("export-circuit")
    /\ UNCHANGED auth
    /\ RuntimeUnchanged

CircuitCloses ==
    /\ alive
    /\ circuitOpen
    /\ circuitOpen' = FALSE
    /\ ClearDegradationSource("export-circuit")
    /\ UNCHANGED auth
    /\ RuntimeUnchanged

\* A heartbeat's init reports a claim; nothing asks whether we are stopping.
HeartbeatClaims ==
    /\ alive
    /\ "heartbeat-final-report" \in ToSet(shutdownHooks)
    /\ auth' = AuthAfterClaim(auth)
    /\ circuitOpen' = FALSE
    /\ IF circuitOpen THEN ClearDegradationSource("export-circuit")
                      ELSE UNCHANGED <<degradationSources, core>>
    /\ RuntimeUnchanged

-----------------------------------------------------------------------------
(* The shutdown coordinator in this process. *)

\* beforeExit fires when the event loop has nothing left to wait for.
EventLoopDrains ==
    /\ otelPc \in {"done", "rejected"}
    /\ initPc \in {"done", "abandoned"}
    /\ BeforeExit
    /\ UNCHANGED registrationVars

\* A heartbeat tick finds the marker that `glasstrace uninit' leaves.  The first
\* tick is HEARTBEAT_INTERVAL_MS after the init: no import takes that long.
HeartbeatFindsMarker ==
    /\ otelPc \in {"done", "rejected"}
    /\ "heartbeat-final-report" \in ToSet(shutdownHooks)
    /\ ShutdownRequested
    /\ UNCHANGED registrationVars

Signalled(s) == SignalArrives(s) /\ UNCHANGED registrationVars
SignalEnds(r) == SignalSettles(r) /\ UNCHANGED registrationVars
HookStep == HookEnds /\ UNCHANGED registrationVars

Next ==
    \/ Register
    \/ RegisterInProduction
    \/ RegisterFails
    \/ OtherProviderAppears
    \/ ProbeSoleOwner
    \/ CoexistAlreadyPresent
    \/ CoexistAttached
    \/ CoexistFailed
    \/ VercelFound
    \/ VercelRegistered
    \/ BareProvider
    \/ BareConfigured
    \/ ConfigureRejects
    \/ KeyRead
    \/ InitTooLate
    \/ InitFailed
    \/ InitServed
    \/ InitServedClaim
    \/ CircuitOpens
    \/ CircuitCloses
    \/ HeartbeatClaims
    \/ EventLoopDrains
    \/ HeartbeatFindsMarker
    \/ \E s \in Signal : Signalled(s)
    \/ \E r \in reraise : SignalEnds(r)
    \/ HookStep

Spec == Init /\ [][Next]_vars

\* Awaits come back (imports resolve or reject, the init request has a 10 s
\* timeout), a running hook returns or times out, a settled promise runs its
\* continuation.  Signals, exits and breaker events need not happen.
Fairness ==
    /\ WF_vars(OtelStep)
    /\ WF_vars(KeyRead)
    /\ WF_vars(InitTooLate \/ InitFailed \/ InitServed \/ InitServedClaim)
    /\ WF_vars(HookStep)
    /\ WF_vars(\E r \in reraise : SignalEnds(r))

FairSpec == Spec /\ Fairness

-----------------------------------------------------------------------------
(* Safety. *)

\* lifecycle.ts, the registry: in a ready core the registry's truth wins,
\* whenever each source was pushed or cleared relative to the core becoming
\* ready and to the other source.
RegistryWins ==
    core \in Ready /\ degradationSources # {} => core = "ACTIVE_DEGRADED"

\* The "export-circuit" source is registered exactly during an outage: key
\* rotation by a claim, recovery and opening may come in any order.
CircuitSourceInStep ==
    circuitOpen <=> "export-circuit" \in degradationSources

\* When executeShutdown() is over, every hook registered before it began has
\* been called, even if others failed, timed out or were inserted meanwhile.
EarlierHooksRun ==
    shutdownDone => \A h \in hooksAtStart : hookCalls[h] > 0

\* A hook registered before the shutdown starts only after all hooks of lower
\* priority number registered before it have ended: the final health report
\* comes after the OTel flush it counts.
HookOrder ==
    \A h, k \in hooksAtStart :
        priority[k] < priority[h] /\ hookCalls[h] > 0 => k \in hooksEnded

\* The registry, the core it decides on and the circuit are in step.
RegistrySound == RegistryWins /\ CircuitSourceInStep

\* The coordinator skips no hook and calls them in order.
HooksSound == TypeOK /\ EarlierHooksRun /\ HookOrder

\* Whatever is in flight when the shutdown begins, it does not start the
\* heartbeat (a timer, and a final report nobody would run) after it.
NoHeartbeatAfterShutdown ==
    shutdownExecuted /\ "heartbeat-final-report" \in ToSet(shutdownHooks) =>
        "heartbeat-final-report" \in hooksAtStart

\* lifecycle.ts, "Execute all registered shutdown hooks in priority order":
\* no hook function is called twice.
HookRunsOnce == \A h \in Hook : hookCalls[h] <= 1

\* otel-config.ts, "should re-raise after draining its hooks": our handler
\* kills the process only when the shutdown sequence is over.
ReraiseAfterDrain == ~alive => shutdownDone

\* README.md, "FSM coupling": while the breaker is OPEN, getStatus().tracing
\* is "degraded".
OpenCircuitReportsDegraded ==
    circuitOpen /\ core \notin Stopping => Tracing = "degraded"

-----------------------------------------------------------------------------
(* Liveness. *)

\* A shutdown that has begun ends, whatever hooks do and whatever is
\* registered while it runs.
ShutdownCompletes == shutdownExecuted ~> (shutdownDone \/ ~alive)

\* Registration comes to a decision: ready or stopping, never pending for good.
RegistrationSettles ==
    core = "KEY_PENDING" ~> (core \in Ready \cup Stopping \/ ~alive)
=============================================================================
