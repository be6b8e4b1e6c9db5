------------------------------ MODULE Lifecycle ------------------------------
(***************************************************************************)
(* The state machines of lifecycle.ts: core, auth and OTel state with      *)
(* their transition tables, the degradation source registry, and what      *)
(* getStatus() makes of them.  The module says what a call does; who calls *)
(* it is in Registration.                                                  *)
(*                                                                         *)
(* No listener inside the SDK calls setCoreState(), so the reentrancy      *)
(* branch of setCoreState() is not reachable and is left out.              *)
(***************************************************************************)
EXTENDS Naturals

VARIABLES
    core,
    auth,
    otel,
    degradationSources

lifecycleVars == <<core, auth, otel, degradationSources>>

CoreState == {"IDLE", "REGISTERING", "KEY_PENDING", "KEY_RESOLVED", "ACTIVE",
              "ACTIVE_DEGRADED", "SHUTTING_DOWN", "SHUTDOWN",
              "PRODUCTION_DISABLED", "REGISTRATION_FAILED"}
AuthState == {"ANONYMOUS", "AUTHENTICATED", "CLAIMING", "CLAIMED"}
OtelState == {"UNCONFIGURED", "CONFIGURING", "OWNS_PROVIDER", "AUTO_ATTACHED",
              "PROCESSOR_PRESENT", "COEXISTENCE_FAILED"}
DegradationSource == {"export-circuit", "otel-coexistence-failed"}

Ready == {"ACTIVE", "ACTIVE_DEGRADED"}
Stopping == {"SHUTTING_DOWN", "SHUTDOWN"}

VALID_CORE_TRANSITIONS ==
    [IDLE                |-> {"REGISTERING", "REGISTRATION_FAILED", "SHUTTING_DOWN"},
     REGISTERING         |-> {"KEY_PENDING", "PRODUCTION_DISABLED",
                              "REGISTRATION_FAILED", "SHUTTING_DOWN"},
     KEY_PENDING         |-> {"KEY_RESOLVED", "REGISTRATION_FAILED", "SHUTTING_DOWN"},
     KEY_RESOLVED        |-> {"ACTIVE", "ACTIVE_DEGRADED", "SHUTTING_DOWN"},
     ACTIVE              |-> {"ACTIVE_DEGRADED", "SHUTTING_DOWN"},
     ACTIVE_DEGRADED     |-> {"ACTIVE", "SHUTTING_DOWN"},
     SHUTTING_DOWN       |-> {"SHUTDOWN"},
     SHUTDOWN            |-> {},
     PRODUCTION_DISABLED |-> {},
     REGISTRATION_FAILED |-> {}]

VALID_OTEL_TRANSITIONS(from) ==
    CASE from = "UNCONFIGURED" -> {"CONFIGURING"}
      [] from = "CONFIGURING"  -> {"OWNS_PROVIDER", "AUTO_ATTACHED",
                                   "PROCESSOR_PRESENT", "COEXISTENCE_FAILED"}
      [] OTHER                 -> {}

VALID_AUTH_TRANSITIONS ==
    [ANONYMOUS     |-> {"CLAIMING"},
     AUTHENTICATED |-> {"CLAIMING"},
     CLAIMING      |-> {"CLAIMED"},
     CLAIMED       |-> {"CLAIMING"}]

LifecycleInit ==
    /\ core = "IDLE"
    /\ auth = "ANONYMOUS"
    /\ otel = "UNCONFIGURED"
    /\ degradationSources = {}

-----------------------------------------------------------------------------
(* The state a call leaves behind.  An invalid transition is ignored. *)

Guarded(from, to, valid) == IF to \in valid THEN to ELSE from

\* Mutant: setCoreState() without the catch-up after entering ACTIVE.
CoreAfter_NoCatchUp(from, to, sources) ==
    Guarded(from, to, VALID_CORE_TRANSITIONS[from])

\* setCoreState(to).  Entering ACTIVE catches up with the sources registered
\* while the core was not yet ready.
CoreAfter(from, to, sources) ==
    IF from # "ACTIVE" /\ sources # {}
       /\ Guarded(from, to, VALID_CORE_TRANSITIONS[from]) = "ACTIVE"
    THEN "ACTIVE_DEGRADED"
    ELSE Guarded(from, to, VALID_CORE_TRANSITIONS[from])

\* recomputeCoreFromDegradationSources()
Recomputed(from, sources) ==
    IF from = "ACTIVE" /\ sources # {}
    THEN CoreAfter(from, "ACTIVE_DEGRADED", sources)
    ELSE IF from = "ACTIVE_DEGRADED" /\ sources = {}
    THEN CoreAfter(from, "ACTIVE", sources)
    ELSE from

OtelAfter(from, to) == Guarded(from, to, VALID_OTEL_TRANSITIONS(from))

\* setAuthState(CLAIMING) ... setAuthState(CLAIMED), one synchronous turn.
AuthAfterClaim(from) ==
    LET claiming == Guarded(from, "CLAIMING", VALID_AUTH_TRANSITIONS[from])
    IN  Guarded(claiming, "CLAIMED", VALID_AUTH_TRANSITIONS[claiming])

\* Mutant: a source pushed while the core is not ready is not remembered.
PushDegradationSource_OnlyWhenReady(key) ==
    /\ degradationSources' = IF core \in Ready
                             THEN degradationSources \cup {key}
                             ELSE degradationSources
    /\ core' = Recomputed(core, degradationSources')

PushDegradationSource(key) ==
    /\ degradationSources' = degradationSources \cup {key}
    /\ core' = Recomputed(core, degradationSources')

ClearDegradationSource(key) ==
    /\ degradationSources' = degradationSources \ {key}
    /\ core' = Recomputed(core, degradationSources')

\* getStatus().tracing
Tracing ==
    CASE otel \in {"COEXISTENCE_FAILED", "UNCONFIGURED", "CONFIGURING"} ->
             "not-configured"
      [] core = "ACTIVE_DEGRADED" /\ otel \in
             {"OWNS_PROVIDER", "AUTO_ATTACHED", "PROCESSOR_PRESENT"} -> "degraded"
      [] core # "ACTIVE_DEGRADED" /\ otel \in
             {"AUTO_ATTACHED", "PROCESSOR_PRESENT"} -> "coexistence"
      [] OTHER -> "active"
=============================================================================
