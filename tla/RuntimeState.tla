---------------------------- MODULE RuntimeState ----------------------------
(***************************************************************************)
(* The file that tells `glasstrace status` about the running SDK           *)
(* (runtime-state.ts).  A listener of lifecycle events writes it: at once  *)
(* at the start and at shutdown, else up to a second later, once for all   *)
(* the events in between.                                                  *)
(***************************************************************************)
EXTENDS Naturals

VARIABLES sdk,         \* the lifecycle layers of the process
          writer,      \* the module's variables
          stateFile    \* what the file says; core IDLE: there is none

runtimeVars == <<sdk, writer, stateFile>>

Off == [core |-> "IDLE", auth |-> "ANONYMOUS", otel |-> "UNCONFIGURED", circuit |-> "closed"]
NoWriter == [started |-> FALSE, scenario |-> "none", lastError |-> "none", timer |-> FALSE,
             failed |-> FALSE]

\* writeStateNow() takes the states as they are when it runs.
Snapshot(s, w) ==
  [core |-> s.core, auth |-> s.auth, otel |-> s.otel, scenario |-> w.scenario,
   lastError |-> w.lastError]

\* A failure is logged; the next event writes again.
WriteStateNow(s, w) ==
  \/ stateFile' = Snapshot(s, w) /\ writer' = [w EXCEPT !.failed = FALSE]
  \/ stateFile' = stateFile /\ writer' = [w EXCEPT !.failed = TRUE]

DebouncedWrite(w) == [w EXCEPT !.timer = TRUE]

\* startRuntimeStateWriter(), during registration; then the key, the cache
\* and the step to KEY_PENDING, without an await.
Register(auth) ==
  /\ sdk.core = "IDLE"
  /\ sdk' = [sdk EXCEPT !.core = "KEY_PENDING", !.auth = auth]
  /\ LET registering == [sdk EXCEPT !.core = "REGISTERING"]
         started == [NoWriter EXCEPT !.started = TRUE]
     IN \/ /\ stateFile' = Snapshot(registering, started)
           /\ writer' = DebouncedWrite(started)
        \/ /\ stateFile' = stateFile
           /\ writer' = DebouncedWrite([started EXCEPT !.failed = TRUE])

\* core:state_changed
CoreChanges(to) ==
  /\ sdk.core # to
  /\ sdk' = [sdk EXCEPT !.core = to]
  /\ IF to = "SHUTDOWN" THEN WriteStateNow(sdk', writer)
     ELSE writer' = DebouncedWrite(writer) /\ UNCHANGED stateFile

\* auth:key_resolved
KeyIsResolved == writer' = DebouncedWrite(writer) /\ UNCHANGED <<sdk, stateFile>>

\* Mutant: the writer does not listen to claims.
AuthClaimed_Unheard(core) ==
  /\ sdk' = [sdk EXCEPT !.auth = "CLAIMED", !.core = core]
  /\ writer' = IF sdk.core = core THEN writer ELSE DebouncedWrite(writer)
  /\ UNCHANGED stateFile

\* The core goes on, then auth:claim_started and auth:claim_completed follow.
AuthClaimed(core) ==
  /\ sdk' = [sdk EXCEPT !.auth = "CLAIMED", !.core = core]
  /\ writer' = DebouncedWrite(writer)
  /\ UNCHANGED stateFile

OtelConfigured(state, scenario) ==
  /\ sdk.otel = "UNCONFIGURED" /\ sdk.core # "IDLE"
  /\ sdk' = [sdk EXCEPT !.otel = state]
  /\ writer' = DebouncedWrite([writer EXCEPT !.scenario = scenario,
                 !.lastError = IF state = "COEXISTENCE_FAILED" THEN "auto-attach" ELSE @])
  /\ UNCHANGED stateFile

CircuitOpened ==
  /\ sdk.core # "IDLE" /\ sdk.circuit = "closed"
  /\ sdk' = [sdk EXCEPT !.circuit = "open"]
  /\ writer' = DebouncedWrite([writer EXCEPT !.lastError = "circuit-open"])
  /\ UNCHANGED stateFile

\* Mutant: the record of the outage stays.
CircuitClosed_KeepsError ==
  /\ sdk.circuit = "open"
  /\ sdk' = [sdk EXCEPT !.circuit = "closed"]
  /\ UNCHANGED <<writer, stateFile>>

\* Only the record of an outage is cleared.
CircuitClosed ==
  /\ sdk.circuit = "open"
  /\ sdk' = [sdk EXCEPT !.circuit = "closed"]
  /\ writer' = IF writer.lastError = "circuit-open"
               THEN DebouncedWrite([writer EXCEPT !.lastError = "none"]) ELSE writer
  /\ UNCHANGED stateFile

\* The timer of debouncedWrite(); a write at shutdown does not cancel it.
TimerFires ==
  /\ writer.timer
  /\ WriteStateNow(sdk, [writer EXCEPT !.timer = FALSE])
  /\ UNCHANGED sdk

ProcessEnds == sdk' = Off /\ writer' = NoWriter /\ UNCHANGED stateFile

RuntimeInit == sdk = Off /\ writer = NoWriter /\ stateFile = Snapshot(Off, NoWriter)

-----------------------------------------------------------------------------
\* Properties

RuntimeTypeOK ==
  /\ sdk.core \in {"IDLE", "KEY_PENDING", "ACTIVE", "ACTIVE_DEGRADED", "SHUTTING_DOWN", "SHUTDOWN"}
  /\ sdk.circuit \in {"open", "closed"}
  /\ writer \in [started : BOOLEAN, scenario : {"none", "A", "C/F"},
                 lastError : {"none", "auto-attach", "circuit-open"},
                 timer : BOOLEAN, failed : BOOLEAN]

\* While the process lives, the file is what `status` would be told by the
\* process itself, or the timer is set that will make it so, or the last write
\* failed.
FileCatchesUp ==
  writer.started => writer.timer \/ writer.failed \/ stateFile = Snapshot(sdk, writer)

\* An outage that is over is not reported any more, and a record of one that
\* goes on is only replaced by that of a failed attachment.
OutageRecordFollowsCircuit ==
  writer.started =>
    /\ writer.lastError = "circuit-open" => sdk.circuit = "open"
    /\ sdk.circuit = "open" => writer.lastError \in {"circuit-open", "auto-attach"}

\* "preserve the failure across subsequent writes": the record of a failed
\* attachment stays.  An outage replaces it, and takes it away when it ends.
AttachmentFailureKept ==
  writer.started /\ sdk.otel = "COEXISTENCE_FAILED" => writer.lastError = "auto-attach"
=============================================================================
