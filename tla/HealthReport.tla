---------------------------- MODULE HealthReport ----------------------------
(***************************************************************************)
(* The health report and who sends it: the counters of                     *)
(* health-collector.ts, performInit() of init-client.ts with its two       *)
(* module-level flags, and its three callers, which share all of that: the *)
(* background init of register.ts, the periodic tick and the final report  *)
(* of heartbeat.ts.  An action is the code between two awaits.             *)
(*                                                                         *)
(* tracesExported and tracesDropped are handled alike; the one counter     *)
(* `spans' stands for both.  Time is counted in heartbeat intervals: a     *)
(* backoff window is the number of ticks that fall into it.                *)
(***************************************************************************)
EXTENDS Integers

CONSTANTS
    MaxSpans,           \* bound: spans recorded in the whole run
    MaxTicks,           \* bound: ticks that get past the backoff check
    MaxHookCalls        \* bound: calls of the final-report hook (the
                        \* coordinator may call it again, see Registration)

ASSUME HealthReportConstants ==
    /\ MaxSpans \in Nat
    /\ MaxTicks \in Nat
    /\ MaxHookCalls \in Nat \ {0}

Caller == {"background", "tick", "final"}
Phase == {"idle", "sent", "saving", "returned"}

VARIABLES
    spans,              \* tracesExported and tracesDropped
    initFailures,
    lastInitSucceeded,
    rateLimitBackoff,
    call,               \* each caller's performInit(): where it is, what it
                        \* reported and how it came out
    heartbeatTimer,     \* the interval is set
    hookRegistered,
    tickInProgress,
    backoffAttempts,
    backoffTicks,       \* ticks still inside the window up to backoffUntil
    markerWait,         \* what the tick that found the marker awaits: the
                        \* shutdown it started, or an empty promise
    shutdownFired,
    shutdown,           \* executeShutdown(): no, earlier hooks, report, over
    initDone,           \* background init has been started
    \* What has happened so far.
    ticksSent,
    hookCalls,
    finalReports,
    recorded,           \* [spans, failures] ever recorded
    acknowledged,       \* [spans, failures] in reports the backend accepted
    overlapped          \* a report was taken while another was unanswered

vars == <<spans, initFailures, lastInitSucceeded, rateLimitBackoff, call,
          heartbeatTimer, hookRegistered, tickInProgress, backoffAttempts,
          backoffTicks, markerWait, shutdownFired, shutdown, initDone, ticksSent,
          hookCalls, finalReports, recorded, acknowledged, overlapped>>

Report == [spans : Nat, failures : Nat]
NoReport == [spans |-> 0, failures |-> 0]
Call == [phase : Phase, report : Report, ok : BOOLEAN]

TypeOK ==
    /\ spans \in Nat
    /\ initFailures \in Nat
    /\ lastInitSucceeded \in BOOLEAN
    /\ rateLimitBackoff \in BOOLEAN
    /\ call \in [Caller -> Call]
    /\ heartbeatTimer \in BOOLEAN
    /\ hookRegistered \in BOOLEAN
    /\ tickInProgress \in BOOLEAN
    /\ backoffAttempts \in Nat
    /\ backoffTicks \in 0 .. 7
    /\ markerWait \in {"none", "shutdown", "nothing"}
    /\ shutdownFired \in BOOLEAN
    /\ shutdown \in {"no", "earlier_hooks", "report_hook", "over"}
    /\ initDone \in BOOLEAN
    /\ ticksSent \in Nat
    /\ hookCalls \in Nat
    /\ finalReports \in Nat
    /\ recorded \in Report
    /\ acknowledged \in Report
    /\ overlapped \in BOOLEAN

Init ==
    /\ spans = 0
    /\ initFailures = 0
    /\ lastInitSucceeded = FALSE
    /\ rateLimitBackoff = FALSE
    /\ call = [c \in Caller |-> [phase |-> "idle", report |-> NoReport, ok |-> FALSE]]
    /\ heartbeatTimer = FALSE
    /\ hookRegistered = FALSE
    /\ tickInProgress = FALSE
    /\ backoffAttempts = 0
    /\ backoffTicks = 0
    /\ markerWait = "none"
    /\ shutdownFired = FALSE
    /\ shutdown = "no"
    /\ initDone = FALSE
    /\ ticksSent = 0
    /\ hookCalls = 0
    /\ finalReports = 0
    /\ recorded = NoReport
    /\ acknowledged = NoReport
    /\ overlapped = FALSE

Larger(a, b) == IF a > b THEN a ELSE b
At(c, phase) == call[c].phase = phase

heartbeatVars == <<heartbeatTimer, hookRegistered, tickInProgress,
                   backoffAttempts, backoffTicks, markerWait>>
shutdownVars == <<shutdownFired, shutdown, hookCalls, finalReports>>

-----------------------------------------------------------------------------
(* health-collector.ts *)

\* collectHealthReport(): a snapshot, the counters stay.
collectHealthReport == [spans |-> spans, failures |-> initFailures]

\* Mutant: the counters are zeroed instead of reduced.
acknowledgeHealthReport_Zeroes(report) ==
    /\ spans' = 0
    /\ initFailures' = 0
    /\ acknowledged' = [spans    |-> acknowledged.spans + report.spans,
                        failures |-> acknowledged.failures + report.failures]

\* Mutant: the subtraction is not clamped.
acknowledgeHealthReport_Unclamped(report) ==
    /\ spans' = spans - report.spans
    /\ initFailures' = initFailures - report.failures
    /\ acknowledged' = [spans    |-> acknowledged.spans + report.spans,
                        failures |-> acknowledged.failures + report.failures]

\* acknowledgeHealthReport(): subtract what was reported, never below zero.
acknowledgeHealthReport(report) ==
    /\ spans' = Larger(0, spans - report.spans)
    /\ initFailures' = Larger(0, initFailures - report.failures)
    /\ acknowledged' = [spans    |-> acknowledged.spans + report.spans,
                        failures |-> acknowledged.failures + report.failures]

\* recordSpansExported() / recordSpansDropped()
RecordSpans ==
    /\ recorded.spans < MaxSpans
    /\ spans' = spans + 1
    /\ recorded' = [recorded EXCEPT !.spans = @ + 1]
    /\ UNCHANGED <<initFailures, lastInitSucceeded, rateLimitBackoff, call,
                   heartbeatVars, shutdownVars, initDone, ticksSent,
                   acknowledged, overlapped>>

-----------------------------------------------------------------------------
(* performInit() *)

\* From the call to its first await.  A pending rate-limit flag is used up
\* and nothing is sent.
BeginInit(c) ==
    /\ lastInitSucceeded' = FALSE
    /\ rateLimitBackoff' = FALSE
    /\ call' = [call EXCEPT ![c] =
           [phase  |-> IF rateLimitBackoff THEN "returned" ELSE "sent",
            report |-> collectHealthReport,
            ok     |-> FALSE]]
    /\ overlapped' = (overlapped \/ \E d \in Caller : At(d, "sent"))

\* The response applies: acknowledge, then await the disk writes.
Served(c) ==
    /\ At(c, "sent")
    /\ lastInitSucceeded' = TRUE
    /\ acknowledgeHealthReport(call[c].report)
    /\ call' = [call EXCEPT ![c].phase = "saving", ![c].ok = TRUE]
    /\ UNCHANGED <<rateLimitBackoff, heartbeatVars, shutdownVars, initDone,
                   ticksSent, recorded, overlapped>>

Saved(c) ==
    /\ At(c, "saving")
    /\ call' = [call EXCEPT ![c].phase = "returned"]
    /\ UNCHANGED <<spans, initFailures, lastInitSucceeded, rateLimitBackoff,
                   heartbeatVars, shutdownVars, initDone, ticksSent, recorded,
                   acknowledged, overlapped>>

\* Mutant: a failed init is counted by the inner and by the outer catch.
Rejected_Twice(c) ==
    /\ At(c, "sent")
    /\ initFailures' = initFailures + 2
    /\ recorded' = [recorded EXCEPT !.failures = @ + 1]
    /\ rateLimitBackoff' \in {rateLimitBackoff, TRUE}
    /\ call' = [call EXCEPT ![c].phase = "returned"]
    /\ UNCHANGED <<spans, lastInitSucceeded, heartbeatVars, shutdownVars,
                   initDone, ticksSent, acknowledged, overlapped>>

\* Any failure counts once; status 429 also leaves the flag.
Rejected(c) ==
    /\ At(c, "sent")
    /\ initFailures' = initFailures + 1
    /\ recorded' = [recorded EXCEPT !.failures = @ + 1]
    /\ rateLimitBackoff' \in {rateLimitBackoff, TRUE}
    /\ call' = [call EXCEPT ![c].phase = "returned"]
    /\ UNCHANGED <<spans, lastInitSucceeded, heartbeatVars, shutdownVars,
                   initDone, ticksSent, acknowledged, overlapped>>

Returns(c) == call' = [call EXCEPT ![c].phase = "idle"]

-----------------------------------------------------------------------------
(* backgroundInit() *)

\* Mutant: the heartbeat is started together with the request.
BackgroundStarts_WithHeartbeat ==
    /\ ~initDone
    /\ initDone' = TRUE
    /\ BeginInit("background")
    /\ heartbeatTimer' = TRUE
    /\ hookRegistered' = TRUE
    /\ UNCHANGED <<spans, initFailures, tickInProgress, backoffAttempts,
                   backoffTicks, markerWait, shutdownVars, ticksSent, recorded,
                   acknowledged>>

BackgroundStarts ==
    /\ ~initDone
    /\ initDone' = TRUE
    /\ BeginInit("background")
    /\ UNCHANGED <<spans, initFailures, heartbeatVars, shutdownVars, ticksSent,
                   recorded, acknowledged>>

\* Stopping: leave.  Otherwise start the heartbeat if the init succeeded.
BackgroundContinues ==
    /\ At("background", "returned")
    /\ Returns("background")
    /\ LET start == shutdown = "no" /\ lastInitSucceeded
       IN  /\ heartbeatTimer' = (heartbeatTimer \/ start)
           /\ hookRegistered' = (hookRegistered \/ start)
    /\ UNCHANGED <<spans, initFailures, lastInitSucceeded, rateLimitBackoff,
                   tickInProgress, backoffAttempts, backoffTicks, markerWait,
                   shutdownVars, initDone, ticksSent, recorded, acknowledged,
                   overlapped>>

-----------------------------------------------------------------------------
(* heartbeatTick() *)

\* The interval fires; a tick that is still running makes it a no-op.
TimerFires ==
    /\ heartbeatTimer
    /\ ~tickInProgress

\* The shutdown marker is there: stop the timer, start the shutdown unless one
\* is running, and wait for it (executeShutdown() returns at once if it is).
TickFindsMarker ==
    /\ TimerFires
    /\ tickInProgress' = TRUE
    /\ heartbeatTimer' = FALSE
    /\ markerWait' = IF shutdown = "no" THEN "shutdown" ELSE "nothing"
    /\ shutdown' = IF shutdown = "no" THEN "earlier_hooks" ELSE shutdown
    /\ UNCHANGED <<spans, initFailures, lastInitSucceeded, rateLimitBackoff,
                   call, hookRegistered, backoffAttempts, backoffTicks,
                   shutdownFired, hookCalls, finalReports, initDone,
                   ticksSent, recorded, acknowledged, overlapped>>

TickLeavesMarker ==
    /\ markerWait # "none"
    /\ markerWait = "shutdown" => shutdown = "over"
    /\ markerWait' = "none"
    /\ tickInProgress' = FALSE
    /\ UNCHANGED <<spans, initFailures, lastInitSucceeded, rateLimitBackoff,
                   call, heartbeatTimer, hookRegistered, backoffAttempts,
                   backoffTicks, shutdownVars, initDone, ticksSent, recorded,
                   acknowledged, overlapped>>

\* Mutant: the early return does not reset tickInProgress.
TickBacksOff_KeepsGate ==
    /\ TimerFires
    /\ backoffTicks > 0
    /\ backoffTicks' = backoffTicks - 1
    /\ tickInProgress' = TRUE
    /\ UNCHANGED <<spans, initFailures, lastInitSucceeded, rateLimitBackoff,
                   call, heartbeatTimer, hookRegistered, backoffAttempts,
                   markerWait, shutdownVars, initDone, ticksSent, recorded,
                   acknowledged, overlapped>>

TickBacksOff ==
    /\ TimerFires
    /\ backoffTicks > 0
    /\ backoffTicks' = backoffTicks - 1
    /\ UNCHANGED <<spans, initFailures, lastInitSucceeded, rateLimitBackoff,
                   call, heartbeatTimer, hookRegistered, tickInProgress,
                   backoffAttempts, markerWait, shutdownVars, initDone,
                   ticksSent, recorded, acknowledged, overlapped>>

TickSends ==
    /\ TimerFires
    /\ backoffTicks = 0
    /\ ticksSent < MaxTicks
    /\ ticksSent' = ticksSent + 1
    /\ tickInProgress' = TRUE
    /\ BeginInit("tick")
    /\ UNCHANGED <<spans, initFailures, heartbeatTimer, hookRegistered,
                   backoffAttempts, backoffTicks, markerWait, shutdownVars,
                   initDone, recorded, acknowledged>>

\* The window in intervals: 1, 2, 4 ... at most 6, with 20 % jitter either way.
BackoffWindow(attempts) ==
    LET delay == IF attempts > 3 THEN 6 ELSE <<1, 2, 4>>[attempts]
    IN  ((delay * 8) \div 10) .. ((delay * 12) \div 10)

\* Mutant: the flag is read but stays set.
TickContinues_Peeks(claim) ==
    /\ At("tick", "returned")
    /\ claim => call["tick"].ok
    /\ Returns("tick")
    /\ tickInProgress' = FALSE
    /\ \/ /\ ~claim /\ rateLimitBackoff
          /\ backoffAttempts' = backoffAttempts + 1
          /\ backoffTicks' \in BackoffWindow(backoffAttempts + 1)
       \/ /\ claim \/ ~rateLimitBackoff
          /\ backoffAttempts' = 0
          /\ backoffTicks' = 0
    /\ UNCHANGED <<spans, initFailures, lastInitSucceeded, rateLimitBackoff,
                   heartbeatTimer, hookRegistered, markerWait, shutdownVars,
                   initDone, ticksSent, recorded, acknowledged, overlapped>>

\* The call returned a claim, or null: a served call without a claim, a failed
\* one and a skipped one look alike, only the flag tells a 429 apart.
TickContinues(claim) ==
    /\ At("tick", "returned")
    /\ claim => call["tick"].ok
    /\ Returns("tick")
    /\ tickInProgress' = FALSE
    /\ \/ /\ ~claim /\ rateLimitBackoff
          /\ rateLimitBackoff' = FALSE
          /\ backoffAttempts' = backoffAttempts + 1
          /\ backoffTicks' \in BackoffWindow(backoffAttempts + 1)
       \/ /\ claim \/ ~rateLimitBackoff
          /\ backoffAttempts' = 0
          /\ backoffTicks' = 0
          /\ UNCHANGED rateLimitBackoff
    /\ UNCHANGED <<spans, initFailures, lastInitSucceeded, heartbeatTimer,
                   hookRegistered, markerWait, shutdownVars, initDone,
                   ticksSent, recorded, acknowledged, overlapped>>

-----------------------------------------------------------------------------
(* Shutdown, as far as the heartbeat takes part in it. *)

\* A signal, or beforeExit.
ShutdownBegins ==
    /\ shutdown = "no"
    /\ shutdown' = "earlier_hooks"
    /\ UNCHANGED <<spans, initFailures, lastInitSucceeded, rateLimitBackoff,
                   call, heartbeatVars, shutdownFired, hookCalls,
                   finalReports, initDone, ticksSent, recorded, acknowledged,
                   overlapped>>

\* Mutant: the hook sends its report without stopping the timer.
FinalReport_KeepsTimer ==
    /\ shutdown \in {"earlier_hooks", "report_hook"}
    /\ hookRegistered
    /\ hookCalls < MaxHookCalls
    /\ hookCalls' = hookCalls + 1
    /\ shutdown' = "report_hook"
    /\ ~shutdownFired
    /\ shutdownFired' = TRUE
    /\ finalReports' = finalReports + 1
    /\ BeginInit("final")
    /\ UNCHANGED <<spans, initFailures, heartbeatVars, initDone, ticksSent,
                   recorded, acknowledged>>

\* Mutant: no shutdownFired guard.
FinalReport_Unguarded ==
    /\ shutdown \in {"earlier_hooks", "report_hook"}
    /\ hookRegistered
    /\ hookCalls < MaxHookCalls
    /\ hookCalls' = hookCalls + 1
    /\ shutdown' = "report_hook"
    /\ shutdownFired' = TRUE
    /\ finalReports' = finalReports + 1
    /\ heartbeatTimer' = FALSE
    /\ BeginInit("final")
    /\ UNCHANGED <<spans, initFailures, hookRegistered, tickInProgress,
                   backoffAttempts, backoffTicks, markerWait, initDone,
                   ticksSent, recorded, acknowledged>>

\* The hook function, first call.
FinalReport ==
    /\ shutdown \in {"earlier_hooks", "report_hook"}
    /\ hookRegistered
    /\ hookCalls < MaxHookCalls
    /\ hookCalls' = hookCalls + 1
    /\ shutdown' = "report_hook"
    /\ ~shutdownFired
    /\ shutdownFired' = TRUE
    /\ finalReports' = finalReports + 1
    /\ heartbeatTimer' = FALSE
    /\ BeginInit("final")
    /\ UNCHANGED <<spans, initFailures, hookRegistered, tickInProgress,
                   backoffAttempts, backoffTicks, markerWait, initDone,
                   ticksSent, recorded, acknowledged>>

\* Called again, possibly while the first call is still out (it timed out).
FinalReportAgain ==
    /\ shutdown = "report_hook"
    /\ hookCalls < MaxHookCalls
    /\ hookCalls' = hookCalls + 1
    /\ shutdownFired
    /\ UNCHANGED <<spans, initFailures, lastInitSucceeded, rateLimitBackoff,
                   call, heartbeatVars, shutdownFired, shutdown, finalReports,
                   initDone, ticksSent, recorded, acknowledged, overlapped>>

FinalContinues ==
    /\ At("final", "returned")
    /\ Returns("final")
    /\ UNCHANGED <<spans, initFailures, lastInitSucceeded, rateLimitBackoff,
                   heartbeatVars, shutdownVars, initDone, ticksSent, recorded,
                   acknowledged, overlapped>>

\* No hook of ours, or it ended or timed out.
ShutdownEnds ==
    /\ \/ shutdown = "report_hook"
       \/ shutdown = "earlier_hooks" /\ ~hookRegistered
    /\ shutdown' = "over"
    /\ UNCHANGED <<spans, initFailures, lastInitSucceeded, rateLimitBackoff,
                   call, heartbeatVars, shutdownFired, hookCalls,
                   finalReports, initDone, ticksSent, recorded, acknowledged,
                   overlapped>>

-----------------------------------------------------------------------------
Next ==
    \/ RecordSpans
    \/ \E c \in Caller : Served(c)
    \/ \E c \in Caller : Saved(c)
    \/ \E c \in Caller : Rejected(c)
    \/ BackgroundStarts
    \/ BackgroundContinues
    \/ TickFindsMarker
    \/ TickLeavesMarker
    \/ TickBacksOff
    \/ TickSends
    \/ \E claim \in BOOLEAN : TickContinues(claim)
    \/ ShutdownBegins
    \/ FinalReport
    \/ FinalReportAgain
    \/ FinalContinues
    \/ ShutdownEnds

Spec == Init /\ [][Next]_vars

\* The transport answers or times out, disk writes end, a settled promise runs
\* its continuation, and a shutdown that has begun goes on.  The interval is
\* unref'd and promises nothing; neither do signals.
Fairness ==
    /\ \A c \in Caller : WF_vars(Served(c) \/ Rejected(c) \/ Saved(c))
    /\ WF_vars(BackgroundContinues)
    /\ WF_vars(\E claim \in BOOLEAN : TickContinues(claim))
    /\ WF_vars(FinalContinues)
    /\ WF_vars(TickLeavesMarker)
    /\ WF_vars(FinalReport \/ ShutdownEnds)

FairSpec == Spec /\ Fairness

-----------------------------------------------------------------------------
(* Safety. *)

\* health-collector.ts, core invariant: what has been recorded is either still
\* counted or was in exactly one accepted report; activity during a request
\* is kept.  Across failures, retries, backoff and shutdown.
ReportedExactlyOnce ==
    /\ acknowledged.spans + spans = recorded.spans
    /\ acknowledged.failures + initFailures = recorded.failures

\* It does hold as long as no report is taken while another is unanswered.
ReportedExactlyOnceUnlessOverlapped == ~overlapped => ReportedExactlyOnce

\* Even if two reports overlap, the sum the backend has been told plus what is
\* still counted never falls behind what was recorded.
NeverUnderReported ==
    /\ acknowledged.spans + spans >= recorded.spans
    /\ acknowledged.failures + initFailures >= recorded.failures

\* However often the coordinator calls the hook, one final report is sent.
OneFinalReport == finalReports <= 1

\* heartbeat.ts, "Stops the timer first": once the final report is on its way
\* no tick begins one.
NoTickAfterFinalReport ==
    [][shutdownFired => ticksSent' = ticksSent]_vars

\* A 429 makes the tick that got it back off; it is never left behind to
\* swallow a later tick's request.
RateLimitSpentByItsTick ==
    [][ticksSent' # ticksSent => ~rateLimitBackoff]_vars

\* didLastInitSucceed() is read after an await and shared by all callers; the
\* background init finds the outcome of its own request there.
BackgroundReadsItsOwnOutcome ==
    At("background", "returned") => lastInitSucceeded = call["background"].ok

\* No counter falls behind or below zero, and no caller reads the outcome of
\* another's request, however the three overlap.
ReportsSound == TypeOK /\ NeverUnderReported /\ BackgroundReadsItsOwnOutcome

\* What a tick may do: none after the final report, none on another's 429.
TicksInOrder == NoTickAfterFinalReport /\ RateLimitSpentByItsTick

-----------------------------------------------------------------------------
(* Liveness. *)

\* The gate against concurrent ticks opens again on every path out of a tick,
\* also when the tick has started the shutdown and waits for it.
TickGateReopens == tickInProgress ~> ~tickInProgress
=============================================================================
