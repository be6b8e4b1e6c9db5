------------------------ MODULE ExportCircuitBreaker ------------------------
(***************************************************************************)
(* The export-path circuit breaker of the SDK (export-circuit-breaker.ts): *)
(* CLOSED -> OPEN -> HALF_OPEN, one singleton per process, shared by every *)
(* GlasstraceExporter.  This module holds the breaker's state and one      *)
(* action per operation of its interface; it has no next-state relation of *)
(* its own, because an operation happens only when an exporter, the probe  *)
(* timer or a credential rotation calls it: see ExportPipeline.            *)
(*                                                                         *)
(* Delays are in seconds.  The payloads of the otel:circuit_* events, the  *)
(* outage clock and the failure category are wording and are left out; the *)
(* two effects the rest of the SDK depends on are kept: the opened/closed  *)
(* event stream and the "export-circuit" degradation source.               *)
(***************************************************************************)
EXTENDS Integers

CONSTANTS
    FailureThreshold,   \* FAILURE_THRESHOLD, 5 in the code
    InitialBackoff,     \* INITIAL_BACKOFF_MS, 30 s in the code
    BackoffFactor,      \* BACKOFF_FACTOR, 2 in the code
    MaxBackoff          \* MAX_BACKOFF_MS, 1800 s in the code

ASSUME BreakerConstants ==
    /\ FailureThreshold \in Nat \ {0}
    /\ InitialBackoff \in Nat \ {0}
    /\ BackoffFactor \in Nat \ {0, 1}
    /\ MaxBackoff \in Nat
    /\ InitialBackoff <= MaxBackoff

VARIABLES
    circuit,                \* the breaker's state
    consecutiveFailures,
    currentBackoff,
    pendingTimer,           \* delay of the armed probe timer, or NoTimer
    halfOpenProbeInFlight,
    generation,             \* bumped by every credential rotation
    outagesAnnounced,       \* opened events minus closed events so far
    degraded                \* "export-circuit" is a degradation source

breakerVars == <<circuit, consecutiveFailures, currentBackoff, pendingTimer,
                 halfOpenProbeInFlight, generation, outagesAnnounced, degraded>>

NoTimer == 0
CircuitState == {"CLOSED", "OPEN", "HALF_OPEN"}

BreakerTypeOK ==
    /\ circuit \in CircuitState
    /\ consecutiveFailures \in Nat
    /\ currentBackoff \in InitialBackoff .. MaxBackoff
    /\ pendingTimer \in Nat
    /\ halfOpenProbeInFlight \in BOOLEAN
    /\ generation \in Nat
    /\ outagesAnnounced \in Int
    /\ degraded \in BOOLEAN

BreakerInit ==
    /\ circuit = "CLOSED"
    /\ consecutiveFailures = 0
    /\ currentBackoff = InitialBackoff
    /\ pendingTimer = NoTimer
    /\ halfOpenProbeInFlight = FALSE
    /\ generation = 0
    /\ outagesAnnounced = 0
    /\ degraded = FALSE

-----------------------------------------------------------------------------
(* shouldExport(), split into its answer and its side effect. *)

\* Mutant: no single-probe gate.
ShouldExport_EveryProbe == circuit # "OPEN"

ShouldExport ==
    \/ circuit = "CLOSED"
    \/ circuit = "HALF_OPEN" /\ ~halfOpenProbeInFlight

Admit ==
    /\ ShouldExport
    /\ halfOpenProbeInFlight' = (halfOpenProbeInFlight \/ circuit = "HALF_OPEN")
    /\ UNCHANGED <<circuit, consecutiveFailures, currentBackoff, pendingTimer,
                   generation, outagesAnnounced, degraded>>

Refuse ==
    /\ ~ShouldExport
    /\ UNCHANGED breakerVars

-----------------------------------------------------------------------------
(* The transitions. *)

\* Mutant: the doubling is not capped.
NextBackoff_Uncapped == currentBackoff * BackoffFactor

NextBackoff ==
    LET grown == currentBackoff * BackoffFactor
    IN  IF grown <= MaxBackoff THEN grown ELSE MaxBackoff

\* First trip: announce the outage, degrade the core, arm the probe timer.
TransitionToOpen ==
    /\ circuit' = "OPEN"
    /\ halfOpenProbeInFlight' = FALSE
    /\ outagesAnnounced' = outagesAnnounced + 1
    /\ degraded' = TRUE
    /\ pendingTimer' = currentBackoff
    /\ UNCHANGED <<currentBackoff, generation>>

\* Mutant: the next outage starts with this one's delay.
TransitionToClosed_KeepsBackoff ==
    /\ circuit' = "CLOSED"
    /\ consecutiveFailures' = 0
    /\ halfOpenProbeInFlight' = FALSE
    /\ pendingTimer' = NoTimer
    /\ outagesAnnounced' = outagesAnnounced - 1
    /\ degraded' = FALSE
    /\ UNCHANGED currentBackoff

\* Mutant: the probe permit is not given back.
TransitionToClosed_KeepsPermit ==
    /\ circuit' = "CLOSED"
    /\ consecutiveFailures' = 0
    /\ currentBackoff' = InitialBackoff
    /\ pendingTimer' = NoTimer
    /\ outagesAnnounced' = outagesAnnounced - 1
    /\ degraded' = FALSE
    /\ UNCHANGED halfOpenProbeInFlight

\* The outage is over: forget it, announce the end, drop the degradation.
TransitionToClosed ==
    /\ circuit' = "CLOSED"
    /\ consecutiveFailures' = 0
    /\ currentBackoff' = InitialBackoff
    /\ halfOpenProbeInFlight' = FALSE
    /\ pendingTimer' = NoTimer
    /\ outagesAnnounced' = outagesAnnounced - 1
    /\ degraded' = FALSE

\* Mutant: reopens without arming the timer again.
ReopenAfterProbe_NoTimer ==
    /\ circuit' = "OPEN"
    /\ halfOpenProbeInFlight' = FALSE
    /\ currentBackoff' = NextBackoff
    /\ UNCHANGED <<consecutiveFailures, pendingTimer, generation,
                   outagesAnnounced, degraded>>

\* Mutant: reopens through the first-trip path, announcing again.
ReopenAfterProbe_Announces ==
    /\ currentBackoff' = NextBackoff
    /\ pendingTimer' = NextBackoff
    /\ circuit' = "OPEN"
    /\ halfOpenProbeInFlight' = FALSE
    /\ outagesAnnounced' = outagesAnnounced + 1
    /\ degraded' = TRUE
    /\ UNCHANGED <<consecutiveFailures, generation>>

\* Mutant: every reopening waits the initial delay.
ReopenAfterProbe_Restarts ==
    /\ circuit' = "OPEN"
    /\ halfOpenProbeInFlight' = FALSE
    /\ currentBackoff' = InitialBackoff
    /\ pendingTimer' = InitialBackoff
    /\ UNCHANGED <<consecutiveFailures, generation, outagesAnnounced, degraded>>

\* A failed probe: same outage, longer wait, no new announcement.
ReopenAfterProbe ==
    /\ circuit' = "OPEN"
    /\ halfOpenProbeInFlight' = FALSE
    /\ currentBackoff' = NextBackoff
    /\ pendingTimer' = NextBackoff
    /\ UNCHANGED <<consecutiveFailures, generation, outagesAnnounced, degraded>>

RecordSuccess ==
    \/ /\ circuit = "HALF_OPEN"
       /\ TransitionToClosed
       /\ UNCHANGED generation
    \/ /\ circuit # "HALF_OPEN"
       /\ consecutiveFailures' = 0
       /\ UNCHANGED <<circuit, currentBackoff, pendingTimer,
                      halfOpenProbeInFlight, generation, outagesAnnounced,
                      degraded>>

RecordFailure ==
    \/ /\ circuit = "HALF_OPEN"
       /\ ReopenAfterProbe
    \/ /\ circuit = "CLOSED"
       /\ consecutiveFailures' = consecutiveFailures + 1
       /\ \/ /\ consecutiveFailures' >= FailureThreshold
             /\ TransitionToOpen
          \/ /\ consecutiveFailures' < FailureThreshold
             /\ UNCHANGED <<circuit, currentBackoff, pendingTimer,
                            halfOpenProbeInFlight, generation,
                            outagesAnnounced, degraded>>
    \/ /\ circuit = "OPEN"
       /\ UNCHANGED breakerVars

\* The timer callback; its guard against a breaker that is no longer OPEN.
ProbeTimerFires ==
    /\ pendingTimer # NoTimer
    /\ pendingTimer' = NoTimer
    /\ circuit' = IF circuit = "OPEN" THEN "HALF_OPEN" ELSE circuit
    /\ halfOpenProbeInFlight' = (circuit # "OPEN" /\ halfOpenProbeInFlight)
    /\ UNCHANGED <<consecutiveFailures, currentBackoff, generation,
                   outagesAnnounced, degraded>>

ResetForKeyRotation ==
    /\ generation' = generation + 1
    /\ \/ /\ circuit # "CLOSED"
          /\ TransitionToClosed
       \/ /\ circuit = "CLOSED"
          /\ consecutiveFailures' = 0
          /\ currentBackoff' = InitialBackoff
          /\ pendingTimer' = NoTimer
          /\ UNCHANGED <<circuit, halfOpenProbeInFlight, outagesAnnounced,
                         degraded>>

-----------------------------------------------------------------------------
(* What holds of the breaker whoever calls it, in whatever order. *)

\* The probe timer is armed exactly while the circuit is OPEN, with the
\* current delay: an OPEN circuit without a timer would drop every batch for
\* the rest of the process, a timer left over from an outage that a key
\* rotation ended would cut the next outage's wait short.
TimerArmedIffOpen ==
    pendingTimer = (IF circuit = "OPEN" THEN currentBackoff ELSE NoTimer)

\* One outage is announced once and ended once however many probes fail in
\* between, and the core is degraded by "export-circuit" exactly that long.
OutageAnnouncedOnce ==
    /\ outagesAnnounced = (IF circuit = "CLOSED" THEN 0 ELSE 1)
    /\ degraded <=> circuit # "CLOSED"

\* A CLOSED circuit carries nothing over from the last outage: no longer
\* wait, no probe permit taken, and a failure count below the threshold.
ClosedIsFresh ==
    circuit = "CLOSED" =>
        /\ currentBackoff = InitialBackoff
        /\ ~halfOpenProbeInFlight
        /\ consecutiveFailures < FailureThreshold

\* All of it, the ranges of the breaker's fields included.
BreakerConsistent ==
    BreakerTypeOK /\ TimerArmedIffOpen /\ OutageAnnouncedOnce /\ ClosedIsFresh
=============================================================================
