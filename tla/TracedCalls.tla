----------------------------- MODULE TracedCalls -----------------------------
(***************************************************************************)
(* The wrappers that put a span around a call of the host:                 *)
(* tracedRequestMiddleware() (middleware/), withAsyncCausality()           *)
(* (async-context/) with the span leak guard they share                    *)
(* (wrapper-hardening.ts), and the tRPC wrappers of TrpcBatch.  Whatever   *)
(* OpenTelemetry does, the host's handler runs once and its outcome is     *)
(* passed on; whatever the handler does, its span ends once.               *)
(***************************************************************************)
EXTENDS TrpcBatch

CONSTANTS Call,       \* calls of wrapped functions
          MaxThens,   \* bound: how often a thenable calls back
          Wrapped     \* bound: {TRUE}, {FALSE}: wrapped calls, or a tRPC request

VARIABLES tracer,     \* the global tracer: "noop" until the SDK registers
          notices,    \* lifecycle events that are emitted once
          call,       \* of each call: where it is and what the caller got
          span,       \* of each call: its span
          guard,      \* of each call: its watchdog is off, armed or done
          mode        \* which of the two independent parts goes on

vars == <<trpcVars, tracer, notices, call, span, guard, mode>>

\* What the handler gives back.  "badThen": reading `then` throws.
Sync == {"value", "throws", "badThen"}
Deferred == {"promise", "thenable"}

Idle == [pc |-> "idle", wrapper |-> "none", linked |-> FALSE, runs |-> 0, thens |-> 0,
         inner |-> "pending", outcome |-> "none"]
Unstarted == [state |-> "none", ends |-> 0, error |-> FALSE, late |-> FALSE]

\* A step of call c; the tRPC part stands still.
Step(c, pc) == /\ call[c].pc = pc
               /\ mode = "wrapped"
               /\ UNCHANGED <<trpcVars, mode>>

\* endSpanSafely()
Ended(s) == [s EXCEPT !.state = "ended", !.ends = @ + 1]

\* recordSpanError(); OpenTelemetry drops it when the span has ended.
Failed(s) == [s EXCEPT !.error = TRUE, !.late = @ \/ s.state = "ended"]

\* startSpanLeakGuard()
Arm(c) == guard' = [guard EXCEPT ![c] = "armed"]

\* Mutant: the guard ends the span each time it is asked to.
EndOnce_Again(c, s) == /\ guard' = [guard EXCEPT ![c] = "done"]
                       /\ span' = [span EXCEPT ![c] = Ended(s)]

\* endOnce(): of settle() or of the timer, for the span as it is by then.
EndOnce(c, s) == /\ guard' = [guard EXCEPT ![c] = "done"]
                 /\ span' = [span EXCEPT ![c] = IF guard[c] = "done" THEN s ELSE Ended(s)]

\* Mutant: the error is recorded on a span that may be over.
SettleWithError_Unasked(c) == EndOnce(c, Failed(span[c]))

\* `if (!guard.ended()) recordSpanError(); guard.settle()`
SettleWithError(c) == EndOnce(c, IF guard[c] = "done" THEN span[c] ELSE Failed(span[c]))

Settle(c, outcome) == IF outcome = "throws" THEN SettleWithError(c) ELSE EndOnce(c, span[c])

\* The call is done with; its caller may have been answered before.
Answered(r, outcome) == [r EXCEPT !.outcome = IF @ = "none" THEN outcome ELSE @]
Over(c, outcome) == call' = [call EXCEPT ![c] = [Answered(@, outcome) EXCEPT !.pc = "over"]]

\* The handler called with no span around it; what it returns goes back as it is.
RunBare(c) == /\ call' = [call EXCEPT ![c] = [call[c] EXCEPT !.pc = "over", !.runs = @ + 1, !.outcome = "bare"]]
              /\ UNCHANGED guard

-----------------------------------------------------------------------------
\* Both wrappers, up to the handler

\* The wrapper is called, or for withAsyncCausality() its continuation: a valid
\* span context was there to link to when it was made, or not.
Invoke(c) ==
  /\ Step(c, "idle")
  /\ \E w \in {"middleware", "async"}, linked \in BOOLEAN :
       /\ w = "middleware" => ~ linked
       /\ call' = [call EXCEPT ![c] = [@ EXCEPT !.pc = "starting", !.wrapper = w, !.linked = linked]]
  /\ UNCHANGED <<tracer, notices, span, guard>>

Notify(what) == notices' = notices \cup {what}

\* The tracer is still the no-op one: one event for the process, the span is
\* ended, and the handler runs without it.
StartsNoop(c) ==
  /\ Step(c, "starting") /\ tracer = "noop"
  /\ Notify(<<"skipped_uninstalled", call[c].wrapper>>)
  /\ span' = [span EXCEPT ![c] = Ended(@)]
  /\ RunBare(c)
  /\ UNCHANGED tracer

\* startSpan() or startActiveSpan() throws before the handler was called.
StartThrows(c) ==
  /\ Step(c, "starting") /\ tracer = "broken"
  /\ RunBare(c)
  /\ UNCHANGED <<tracer, notices, span>>

\* The span is open and the handler called under it; an orphan of
\* withAsyncCausality() is noticed once.
StartsSpan(c) ==
  /\ Step(c, "starting") /\ tracer \in {"sdk", "lateThrow"}
  /\ span' = [span EXCEPT ![c].state = "open"]
  /\ IF call[c].wrapper = "async"
     THEN /\ IF call[c].linked THEN UNCHANGED notices ELSE Notify(<<"no_originating_context", "async">>)
          /\ Arm(c)
     ELSE UNCHANGED <<notices, guard>>
  /\ call' = [call EXCEPT ![c] = [call[c] EXCEPT !.pc = "handling", !.runs = @ + 1]]
  /\ UNCHANGED tracer

-----------------------------------------------------------------------------
\* withAsyncCausality(): one await for whatever the callback is

AsyncReturns(c) ==
  /\ Step(c, "handling") /\ call[c].wrapper = "async"
  /\ \E result \in Sync \cup Deferred :
       IF result \in {"value", "throws"}
       THEN Over(c, result) /\ Settle(c, result)
       ELSE /\ call' = [call EXCEPT ![c].pc = "awaiting"]
            /\ UNCHANGED <<span, guard>>
  /\ UNCHANGED <<tracer, notices>>

\* The await ends, a throwing `then` included; or it never does.
AwaitEnds(c) ==
  /\ Step(c, "awaiting")
  /\ \E outcome \in {"value", "throws"} : Over(c, outcome) /\ Settle(c, outcome)
  /\ UNCHANGED <<tracer, notices>>

-----------------------------------------------------------------------------
\* tracedRequestMiddleware()

\* Mutant: a tracer that throws is answered by the handler once more.
AfterCallback_RunsAgain(r) ==
  IF tracer = "lateThrow" THEN [Answered(r, "bare") EXCEPT !.runs = @ + 1] ELSE r

\* The outer catch: startActiveSpan() throws after its callback; the handler
\* has run, so the error is passed on.
AfterCallback(r) == IF tracer = "lateThrow" THEN Answered(r, "tracer") ELSE r

\* The handler returns or throws at once, or gives something whose `then`
\* cannot be read: its span ends here, without a guard.
ReturnsNow(c) ==
  /\ Step(c, "handling") /\ call[c].wrapper = "middleware"
  /\ \E result \in Sync :
       /\ call' = [call EXCEPT ![c] =
            [Answered(AfterCallback(@), IF result = "value" THEN "value" ELSE "throws") EXCEPT !.pc = "over"]]
       /\ span' = [span EXCEPT ![c] = Ended(IF result = "value" THEN @ ELSE Failed(@))]
  /\ UNCHANGED <<tracer, notices, guard>>

\* A promise: its `then` is chained to, and may be a subclass's that throws.
ReturnsPromise(c) ==
  /\ Step(c, "handling") /\ call[c].wrapper = "middleware"
  /\ \/ /\ call' = [call EXCEPT ![c] = [AfterCallback(@) EXCEPT !.pc = "chained"]]
        /\ Arm(c)
        /\ UNCHANGED span
     \/ /\ call' = [call EXCEPT ![c] = [Answered(AfterCallback(@), "throws") EXCEPT !.pc = "over"]]
        /\ span' = [span EXCEPT ![c] = Ended(Failed(@))]
        /\ guard' = [guard EXCEPT ![c] = "done"]
  /\ UNCHANGED <<tracer, notices>>

PromiseSettles(c) ==
  /\ Step(c, "chained")
  /\ \E outcome \in {"value", "throws"} : Over(c, outcome) /\ Settle(c, outcome)
  /\ UNCHANGED <<tracer, notices>>

\* Mutant: only a promise gets a watchdog.
ReturnsThenable_Unguarded(c) ==
  /\ Step(c, "handling") /\ call[c].wrapper = "middleware"
  /\ call' = [call EXCEPT ![c].pc = "calling"]
  /\ UNCHANGED <<tracer, notices, span, guard>>

\* Any other thenable: the executor of the wrapper's promise calls its `then`.
ReturnsThenable(c) ==
  /\ Step(c, "handling") /\ call[c].wrapper = "middleware"
  /\ call' = [call EXCEPT ![c].pc = "calling"]
  /\ Arm(c)
  /\ UNCHANGED <<tracer, notices, span>>

\* The thenable calls one of the callbacks: only the first call counts, and a
\* value that is itself a thenable locks the promise until that one settles.
CallsBack(c) ==
  /\ call[c].pc \in {"calling", "promised"} /\ Step(c, call[c].pc)
  /\ call[c].thens < MaxThens
  /\ \E outcome \in {"value", "throws", "locked"} :
       call' = [call EXCEPT ![c] = [call[c] EXCEPT !.thens = @ + 1,
                                                   !.inner = IF @ = "pending" THEN outcome ELSE @]]
  /\ UNCHANGED <<tracer, notices, span, guard>>

\* Its `then` returns, or throws: that counts unless it has called back.
ThenReturns(c) ==
  /\ Step(c, "calling")
  /\ \E threw \in BOOLEAN :
       call' = [call EXCEPT ![c] = [AfterCallback(call[c]) EXCEPT !.pc = "promised",
                                    !.inner = IF threw /\ @ = "pending" THEN "throws" ELSE @]]
  /\ UNCHANGED <<tracer, notices, span, guard>>

LockedSettles(c) ==
  /\ Step(c, "promised") /\ call[c].inner = "locked"
  /\ \E outcome \in {"value", "throws"} : call' = [call EXCEPT ![c].inner = outcome]
  /\ UNCHANGED <<tracer, notices, span, guard>>

\* The observer of the wrapper's promise.
Observe(c) ==
  /\ Step(c, "promised") /\ call[c].inner \in {"value", "throws"}
  /\ Over(c, call[c].inner)
  /\ Settle(c, call[c].inner)
  /\ UNCHANGED <<tracer, notices>>

-----------------------------------------------------------------------------

\* The timer of the guard, ten minutes after it was set.
Watchdog(c) ==
  /\ guard[c] = "armed" /\ mode = "wrapped"
  /\ EndOnce(c, span[c])
  /\ UNCHANGED <<trpcVars, tracer, notices, call, mode>>

\* The SDK registers its provider; external.
Register ==
  /\ tracer = "noop" /\ mode = "wrapped"
  /\ tracer' = "sdk"
  /\ UNCHANGED <<trpcVars, notices, call, span, guard, mode>>

\* A tRPC request.
Trpc == /\ mode = "trpc"
        /\ TrpcNext
        /\ UNCHANGED <<tracer, notices, call, span, guard, mode>>

Init ==
  /\ TrpcInit
  /\ mode \in {IF w THEN "wrapped" ELSE "trpc" : w \in Wrapped}
  /\ mode = "wrapped" => request = CHOOSE r \in Requests : TRUE
  /\ mode = "wrapped" => layers = 1
  /\ IF mode = "wrapped" THEN tracer \in {"noop", "sdk", "broken", "lateThrow"} ELSE tracer = "noop"
  /\ notices = {}
  /\ call = [c \in Call |-> Idle]
  /\ span = [c \in Call |-> Unstarted]
  /\ guard = [c \in Call |-> "off"]

Starts(c) == Invoke(c) \/ StartsNoop(c) \/ StartThrows(c) \/ StartsSpan(c)

Handles(c) == \/ AsyncReturns(c) \/ ReturnsNow(c) \/ ReturnsPromise(c) \/ ReturnsThenable(c)
              \/ ThenReturns(c)

Continues(c) == AwaitEnds(c) \/ PromiseSettles(c) \/ CallsBack(c) \/ LockedSettles(c) \/ Observe(c)

Next == \/ \E c \in Call : Starts(c) \/ Handles(c) \/ Continues(c) \/ Watchdog(c)
        \/ Register \/ Trpc

\* A handler that is called returns or throws (its promise need not settle),
\* the event loop runs the observer and the timers.
Fairness == \A c \in Call : /\ WF_vars(StartsNoop(c) \/ StartThrows(c) \/ StartsSpan(c))
                            /\ WF_vars(Handles(c))
                            /\ WF_vars(Observe(c))
                            /\ WF_vars(Watchdog(c))

Spec == Init /\ [][Next]_vars
FairSpec == Spec /\ Fairness

-----------------------------------------------------------------------------
\* Properties

\* However OpenTelemetry fails, before the handler, after it or not at all, the
\* host's handler has run exactly once when its caller gets an answer: a retry
\* would repeat its side effects.
HandlerRunsOnce ==
  \A c \in Call : call[c].runs <= 1 /\ (call[c].outcome # "none" => call[c].runs = 1)

\* A span is ended at most once, and never touched after its end, whichever of
\* the watchdog, the settlement and a late or second callback comes first.
SpanEndsOnce == \A c \in Call : span[c].ends <= 1 /\ ~ span[c].late

\* Handlers run and spans end exactly once.
CallsOnce == HandlerRunsOnce /\ SpanEndsOnce

\* A span that was opened ends, also when the handler's promise or thenable
\* never settles: "a guard that guarantees a wrapped call's span ends".
EverySpanEnds == \A c \in Call : span[c].state = "open" ~> span[c].state = "ended"
=============================================================================
