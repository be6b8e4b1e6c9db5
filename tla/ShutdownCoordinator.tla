------------------------ MODULE ShutdownCoordinator ------------------------
(***************************************************************************)
(* The shutdown coordinator of lifecycle.ts: the hook list, which          *)
(* registerShutdownHook() keeps sorted in place, executeShutdown(), which  *)
(* walks that same array with a live iterator and awaits each hook, and    *)
(* the triggers: SIGTERM/SIGINT handlers, beforeExit, a direct call.       *)
(*                                                                         *)
(* A hook is its name; what its function does belongs to the module of the *)
(* component that registers it.  A hook ends by returning, by throwing or  *)
(* by its timeout, which are one outcome to the coordinator.               *)
(***************************************************************************)
EXTENDS Lifecycle, FiniteSets, SequencesExt

VARIABLES
    shutdownHooks,      \* _shutdownHooks, sorted by priority
    shutdownExecuted,   \* _shutdownExecuted
    hooksAtStart,       \* the hooks registered when executeShutdown() began
    hookIndex,          \* position of the live iterator, 0 before it starts
    awaited,            \* the hook whose promise the loop awaits, or "none"
    shutdownDone,       \* the promise of the running executeShutdown() settled
    hookCalls,          \* how often each hook function has been called
    hooksEnded,         \* hooks that have returned, thrown or timed out
    handlers,           \* signals our once-handler is armed for
    reraise,            \* signals whose handler waits in .finally(), with
                        \* the executeShutdown() call it waits for
    beforeExitArmed,
    coexistenceState,
    otherListeners,     \* another party listened to signals at registration
    alive               \* the process has not been killed by a re-raise

coordinatorVars == <<shutdownHooks, shutdownExecuted, hooksAtStart, hookIndex,
                     awaited, shutdownDone, hookCalls, hooksEnded, handlers,
                     reraise, beforeExitArmed, coexistenceState, otherListeners,
                     alive>>

Signal == {"SIGTERM", "SIGINT"}
Hook == {"otel-shutdown", "coexistence-flush", "heartbeat-final-report"}
priority == [h \in Hook |->
    CASE h = "otel-shutdown" -> 0
      [] h = "coexistence-flush" -> 5
      [] h = "heartbeat-final-report" -> 10]

CoordinatorInit ==
    /\ shutdownHooks = <<>>
    /\ shutdownExecuted = FALSE
    /\ hooksAtStart = {}
    /\ hookIndex = 0
    /\ awaited = "none"
    /\ shutdownDone = FALSE
    /\ hookCalls = [h \in Hook |-> 0]
    /\ hooksEnded = {}
    /\ handlers = {}
    /\ reraise = {}
    /\ beforeExitArmed = FALSE
    /\ coexistenceState = "unknown"
    /\ otherListeners \in BOOLEAN
    /\ alive = TRUE

-----------------------------------------------------------------------------
\* Mutant: the list is not sorted after the push.
WithHook_Unsorted(hooks, h) == Append(hooks, h)

\* registerShutdownHook(): push, then a stable sort of the same array.
WithHook(hooks, h) ==
    LET before == {i \in DOMAIN hooks : priority[hooks[i]] <= priority[h]}
    IN  InsertAt(hooks, Cardinality(before) + 1, h)

RegisterHook(h) == shutdownHooks' = WithHook(shutdownHooks, h)

-----------------------------------------------------------------------------
(* executeShutdown() *)

\* The iterator stands at index i of the array as it is now: call that hook,
\* or finish when there is none.  hookCalls, awaited, shutdownDone and core
\* follow.
IteratorAt(i, coreNow) ==
    /\ hookIndex' = i
    /\ IF i <= Len(shutdownHooks)
       THEN /\ hookCalls' = [hookCalls EXCEPT ![shutdownHooks[i]] = @ + 1]
            /\ awaited' = shutdownHooks[i]
            /\ core' = coreNow
            /\ UNCHANGED shutdownDone
       ELSE /\ core' = CoreAfter(coreNow, "SHUTDOWN", degradationSources)
            /\ awaited' = "none"
            /\ shutdownDone' = TRUE
            /\ UNCHANGED hookCalls

StartShutdown ==
    /\ ~shutdownExecuted
    /\ shutdownExecuted' = TRUE
    /\ hooksAtStart' = ToSet(shutdownHooks)
    /\ IteratorAt(1, CoreAfter(core, "SHUTTING_DOWN", degradationSources))

\* A later call of executeShutdown() returns at once.
ShutdownAgain ==
    /\ shutdownExecuted
    /\ UNCHANGED <<core, shutdownExecuted, hooksAtStart, hookIndex, awaited,
                   hookCalls, shutdownDone>>

\* Mutant: a hook that throws ends the sequence.
HookEnds_Abort ==
    /\ alive /\ shutdownExecuted /\ ~shutdownDone
    /\ hooksEnded' = hooksEnded \cup {awaited}
    /\ \/ IteratorAt(hookIndex + 1, core)
       \/ IteratorAt(Len(shutdownHooks) + 1, core)
    /\ UNCHANGED <<auth, otel, degradationSources, shutdownHooks,
                   shutdownExecuted, hooksAtStart, handlers, reraise,
                   beforeExitArmed, coexistenceState, otherListeners, alive>>

\* Mutant: no timeout; a flush that never settles is awaited for good.
HookEnds_NoTimeout ==
    /\ alive /\ shutdownExecuted /\ ~shutdownDone
    /\ awaited # "coexistence-flush"
    /\ hooksEnded' = hooksEnded \cup {awaited}
    /\ IteratorAt(hookIndex + 1, core)
    /\ UNCHANGED <<auth, otel, degradationSources, shutdownHooks,
                   shutdownExecuted, hooksAtStart, handlers, reraise,
                   beforeExitArmed, coexistenceState, otherListeners, alive>>

\* The awaited hook returned, threw or timed out; the loop goes on either way.
HookEnds ==
    /\ alive /\ shutdownExecuted /\ ~shutdownDone
    /\ hooksEnded' = hooksEnded \cup {awaited}
    /\ IteratorAt(hookIndex + 1, core)
    /\ UNCHANGED <<auth, otel, degradationSources, shutdownHooks,
                   shutdownExecuted, hooksAtStart, handlers, reraise,
                   beforeExitArmed, coexistenceState, otherListeners, alive>>

-----------------------------------------------------------------------------
(* Triggers. *)

\* Our handler runs; process.once() has disarmed it for this signal.
SignalArrives(s) ==
    /\ alive
    /\ s \in handlers
    /\ handlers' = handlers \ {s}
    /\ reraise' = reraise \cup {[signal |-> s, waits |-> ~shutdownExecuted]}
    /\ StartShutdown \/ ShutdownAgain
    /\ UNCHANGED <<auth, otel, degradationSources, shutdownHooks, hooksEnded,
                   beforeExitArmed, coexistenceState, otherListeners, alive>>

\* .finally(): remove the handlers, then kill the process with the signal
\* unless the coexisting provider owns it.
SignalSettles(r) ==
    /\ alive
    /\ r \in reraise
    /\ r.waits => shutdownDone
    /\ handlers' = {}
    /\ reraise' = reraise \ {r}
    /\ alive' = (coexistenceState = "coexisting" /\ otherListeners)
    /\ UNCHANGED <<lifecycleVars, shutdownHooks, shutdownExecuted, hooksAtStart,
                   hookIndex, awaited, shutdownDone, hookCalls, hooksEnded,
                   beforeExitArmed, coexistenceState, otherListeners>>

\* Another component calls executeShutdown().
ShutdownRequested ==
    /\ alive
    /\ StartShutdown \/ ShutdownAgain
    /\ UNCHANGED <<auth, otel, degradationSources, shutdownHooks, hooksEnded,
                   handlers, reraise, beforeExitArmed, coexistenceState,
                   otherListeners, alive>>

BeforeExit ==
    /\ alive
    /\ beforeExitArmed
    /\ beforeExitArmed' = FALSE
    /\ StartShutdown \/ ShutdownAgain
    /\ UNCHANGED <<auth, otel, degradationSources, shutdownHooks, hooksEnded,
                   handlers, reraise, coexistenceState, otherListeners, alive>>
=============================================================================
