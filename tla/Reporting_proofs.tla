--------------------------- MODULE Reporting_proofs ---------------------------
(***************************************************************************)
(* The health report, the call it goes out with, and the upload of source  *)
(* maps.                                                                   *)
(*                                                                         *)
(* Nothing recorded is lost, nothing is reported twice unless two reports  *)
(* overlap, and the three callers of performInit() stay out of each        *)
(* other's way, for any number of spans, ticks and hook calls.             *)
(*                                                                         *)
(* A call of httpsPostJson() settles in time, leaves nothing behind and    *)
(* stops when it is aborted, for every timeout, deadline, list of delays,  *)
(* number of attempts and lag of the timers.                               *)
(*                                                                         *)
(* An upload of source maps keeps its promises, whatever its puts do.      *)
(***************************************************************************)
EXTENDS HealthReport, HttpsTransport, SourceMapUpload, TLAPS


\* The counters against what was recorded and reported.  An accepted report
\* never exceeds the counters if it was the only one that was out.
Counted ==
    /\ NeverUnderReported
    /\ ~overlapped => ReportedExactlyOnce
    /\ ~overlapped => \A c \in Caller : At(c, "sent") =>
           /\ call[c].report.spans <= spans
           /\ call[c].report.failures <= initFailures
           /\ \A d \in Caller : At(d, "sent") => c = d

\* The background init is alone: tick and hook exist only after it.
BackgroundAlone ==
    /\ ~initDone => At("background", "idle")
    /\ ~initDone \/ ~At("background", "idle") =>
           ~heartbeatTimer /\ ~hookRegistered /\ At("tick", "idle") /\ At("final", "idle")
    /\ At("background", "sent") => ~lastInitSucceeded /\ ~call["background"].ok
    /\ At("background", "saving") => lastInitSucceeded /\ call["background"].ok
    /\ BackgroundReadsItsOwnOutcome
    /\ ~At("background", "idle") /\ rateLimitBackoff =>
           At("background", "returned") /\ ~call["background"].ok

\* One final report, and no timer from then on.
FinalOnce ==
    /\ finalReports <= 1
    /\ ~shutdownFired => finalReports = 0 /\ At("final", "idle")
    /\ shutdownFired => ~heartbeatTimer /\ shutdown # "no"

\* The gate of the tick, and who may hold the rate-limit flag.
TickGate ==
    /\ ~At("tick", "idle") => tickInProgress
    /\ At("tick", "sent") => ~call["tick"].ok
    /\ markerWait # "none" => At("tick", "idle") /\ tickInProgress
    /\ heartbeatTimer /\ rateLimitBackoff => At("tick", "returned") /\ ~call["tick"].ok

HealthInv == TypeOK /\ Counted /\ BackgroundAlone /\ FinalOnce /\ TickGate

LEMMA HealthInit == Init => HealthInv
<1> SUFFICES ASSUME Init PROVE HealthInv
  OBVIOUS
<1>1. TypeOK
  <2>1. call \in [Caller -> Call] /\ recorded \in Report /\ acknowledged \in Report
    BY DEF Init, Call, Phase, Report, NoReport
  <2>2. /\ spans \in Nat /\ initFailures \in Nat /\ backoffAttempts \in Nat
        /\ backoffTicks \in 0 .. 7 /\ ticksSent \in Nat /\ hookCalls \in Nat
        /\ finalReports \in Nat
    BY DEF Init
  <2>3. /\ markerWait \in {"none", "shutdown", "nothing"}
        /\ shutdown \in {"no", "earlier_hooks", "report_hook", "over"}
    BY DEF Init
  <2>4. QED
    BY Zenon, <2>1, <2>2, <2>3 DEF Init, TypeOK
<1>2. \A c \in Caller : call[c].phase = "idle"
  BY DEF Init
<1>3. Counted
  BY <1>2 DEF Init, Counted, NeverUnderReported, ReportedExactlyOnce, At, NoReport
<1>4. BackgroundAlone
  BY <1>2 DEF Init, BackgroundAlone, BackgroundReadsItsOwnOutcome, At, Caller
<1>5. FinalOnce
  BY <1>2 DEF Init, FinalOnce, At, Caller
<1>6. TickGate
  BY <1>2 DEF Init, TickGate, At, Caller
<1>7. QED
  BY <1>1, <1>3, <1>4, <1>5, <1>6 DEF HealthInv

-----------------------------------------------------------------------------
(* Types *)

\* The three assignments of performInit() that are made by all callers.
LEMMA BeginInitTypes ==
    ASSUME TypeOK, NEW c \in Caller, BeginInit(c)
    PROVE  /\ lastInitSucceeded' \in BOOLEAN /\ rateLimitBackoff' \in BOOLEAN
           /\ call' \in [Caller -> Call] /\ overlapped' \in BOOLEAN
<1>1. lastInitSucceeded' \in BOOLEAN /\ rateLimitBackoff' \in BOOLEAN
  BY DEF BeginInit
<1>2. call' \in [Caller -> Call]
  BY DEF TypeOK, BeginInit, collectHealthReport, Call, Report, Phase
<1>3. overlapped' \in BOOLEAN
  BY DEF TypeOK, BeginInit
<1>4. QED
  BY <1>1, <1>2, <1>3

\* acknowledgeHealthReport() keeps the counters natural, and it is the clamp
\* that does.
LEMMA AcknowledgeTypes ==
    ASSUME TypeOK, NEW report \in Report, acknowledgeHealthReport(report)
    PROVE  /\ spans' \in Nat /\ initFailures' \in Nat /\ acknowledged' \in Report
           /\ spans' >= spans - report.spans
           /\ initFailures' >= initFailures - report.failures
           /\ report.spans <= spans => spans' = spans - report.spans
           /\ report.failures <= initFailures => initFailures' = initFailures - report.failures
BY DEF TypeOK, acknowledgeHealthReport, Larger, Report

LEMMA BackoffWindowBounded ==
    ASSUME NEW attempts \in Nat \ {0}
    PROVE  BackoffWindow(attempts) \subseteq 0 .. 7
<1>1. CASE attempts > 3
  BY <1>1 DEF BackoffWindow
<1>2. CASE attempts = 1
  BY <1>2 DEF BackoffWindow
<1>3. CASE attempts = 2
  BY <1>3 DEF BackoffWindow
<1>4. CASE attempts = 3
  BY <1>4 DEF BackoffWindow
<1>5. QED
  BY <1>1, <1>2, <1>3, <1>4

LEMMA TypesKept == TypeOK /\ [Next]_vars => TypeOK'
<1> SUFFICES ASSUME TypeOK, [Next]_vars PROVE TypeOK'
  OBVIOUS
<1>1. CASE RecordSpans
  BY <1>1 DEF RecordSpans, TypeOK, Report, heartbeatVars, shutdownVars
<1>2. ASSUME NEW c \in Caller, Served(c) PROVE TypeOK'
  <2>1. call[c].report \in Report /\ call' \in [Caller -> Call]
    BY <1>2 DEF Served, TypeOK, Call, Phase
  <2>2. spans' \in Nat /\ initFailures' \in Nat /\ acknowledged' \in Report
    BY <1>2, <2>1, AcknowledgeTypes DEF Served
  <2>3. QED
    BY <1>2, <2>1, <2>2 DEF Served, TypeOK, heartbeatVars, shutdownVars
<1>3. ASSUME NEW c \in Caller, Saved(c) PROVE TypeOK'
  <2>1. call' \in [Caller -> Call]
    BY <1>3 DEF Saved, TypeOK, Call, Phase
  <2>2. QED
    BY <1>3, <2>1 DEF Saved, TypeOK, heartbeatVars, shutdownVars
<1>4. ASSUME NEW c \in Caller, Rejected(c) PROVE TypeOK'
  <2>1. call' \in [Caller -> Call] /\ rateLimitBackoff' \in BOOLEAN
    BY <1>4 DEF Rejected, TypeOK, Call, Phase
  <2>2. recorded' \in Report /\ initFailures' \in Nat
    BY <1>4 DEF Rejected, TypeOK, Report
  <2>3. QED
    BY <1>4, <2>1, <2>2 DEF Rejected, TypeOK, heartbeatVars, shutdownVars
<1>5. CASE BackgroundStarts
  BY <1>5, BeginInitTypes DEF BackgroundStarts, TypeOK, Caller, heartbeatVars, shutdownVars
<1>6. CASE BackgroundContinues
  <2>1. call' \in [Caller -> Call]
    BY <1>6 DEF BackgroundContinues, Returns, TypeOK, Call, Phase
  <2>2. heartbeatTimer' \in BOOLEAN /\ hookRegistered' \in BOOLEAN
    BY <1>6 DEF BackgroundContinues, TypeOK
  <2>3. QED
    BY <1>6, <2>1, <2>2 DEF BackgroundContinues, TypeOK, shutdownVars
<1>7. CASE TickFindsMarker
  BY <1>7 DEF TickFindsMarker, TypeOK
<1>8. CASE TickLeavesMarker
  BY <1>8 DEF TickLeavesMarker, TypeOK, shutdownVars
<1>9. CASE TickBacksOff
  BY <1>9 DEF TickBacksOff, TypeOK, shutdownVars
<1>10. CASE TickSends
  BY <1>10, BeginInitTypes DEF TickSends, TypeOK, Caller, shutdownVars
<1>11. ASSUME NEW claim \in BOOLEAN, TickContinues(claim) PROVE TypeOK'
  <2>1. call' \in [Caller -> Call]
    BY <1>11 DEF TickContinues, Returns, TypeOK, Call, Phase
  <2>2. backoffAttempts' \in Nat /\ backoffTicks' \in 0 .. 7
    BY <1>11, BackoffWindowBounded DEF TickContinues, TypeOK
  <2>3. rateLimitBackoff' \in BOOLEAN /\ tickInProgress' \in BOOLEAN
    BY <1>11 DEF TickContinues, TypeOK
  <2>4. QED
    BY <1>11, <2>1, <2>2, <2>3 DEF TickContinues, TypeOK, shutdownVars
<1>12. CASE ShutdownBegins
  BY <1>12 DEF ShutdownBegins, TypeOK, heartbeatVars
<1>13. CASE FinalReport
  <2>1. /\ lastInitSucceeded' \in BOOLEAN /\ rateLimitBackoff' \in BOOLEAN
        /\ call' \in [Caller -> Call] /\ overlapped' \in BOOLEAN
    BY <1>13, BeginInitTypes DEF FinalReport, Caller
  <2>2. finalReports' \in Nat /\ hookCalls' \in Nat
    BY <1>13 DEF FinalReport, TypeOK
  <2>3. shutdownFired' = TRUE /\ heartbeatTimer' = FALSE /\ shutdown' = "report_hook"
    BY <1>13 DEF FinalReport
  <2>4. QED
    BY <1>13, <2>1, <2>2, <2>3 DEF FinalReport, TypeOK
<1>14. CASE FinalReportAgain
  BY <1>14 DEF FinalReportAgain, TypeOK, heartbeatVars
<1>15. CASE FinalContinues
  <2>1. call' \in [Caller -> Call]
    BY <1>15 DEF FinalContinues, Returns, TypeOK, Call, Phase
  <2>2. QED
    BY <1>15, <2>1 DEF FinalContinues, TypeOK, heartbeatVars, shutdownVars
<1>16. CASE ShutdownEnds
  BY <1>16 DEF ShutdownEnds, TypeOK, heartbeatVars
<1>17. CASE UNCHANGED vars
  BY <1>17 DEF vars, TypeOK
<1>18. QED
  BY <1>1, <1>2, <1>3, <1>4, <1>5, <1>6, <1>7, <1>8, <1>9, <1>10, <1>11, <1>12,
     <1>13, <1>14, <1>15, <1>16, <1>17 DEF Next

-----------------------------------------------------------------------------
(* Counting *)

\* What beginning a request does to the counting: nothing, or it is the only
\* one out and its report is what the counters say.
LEMMA BeginInitCounts ==
    ASSUME TypeOK, Counted, NEW c \in Caller, BeginInit(c),
           UNCHANGED <<spans, initFailures, recorded, acknowledged>>
    PROVE  Counted'
<1>1. /\ \A d \in Caller : d # c => call'[d] = call[d]
      /\ call'[c].report = [spans |-> spans, failures |-> initFailures]
  BY DEF BeginInit, TypeOK, collectHealthReport
<1>2. ~overlapped' => ~overlapped /\ \A d \in Caller : ~At(d, "sent")
  BY DEF BeginInit
<1>3. ASSUME ~overlapped', NEW d \in Caller, At(d, "sent")' PROVE d = c
  BY <1>1, <1>2, <1>3 DEF At
<1>4. NeverUnderReported'
  BY DEF Counted, NeverUnderReported
<1>5. ~overlapped' => ReportedExactlyOnce'
  BY <1>2 DEF Counted, ReportedExactlyOnce
<1>6. ASSUME ~overlapped', NEW d \in Caller, At(d, "sent")'
      PROVE  /\ call'[d].report.spans <= spans' /\ call'[d].report.failures <= initFailures'
             /\ \A e \in Caller : At(e, "sent")' => d = e
  BY <1>1, <1>3, <1>6 DEF TypeOK
<1>7. QED
  BY <1>4, <1>5, <1>6 DEF Counted, At

\* Steps that only move a caller that is not waiting for an answer.
LEMMA QuietCounts ==
    ASSUME TypeOK, Counted, UNCHANGED <<spans, initFailures, recorded, acknowledged, overlapped>>,
           \A d \in Caller : At(d, "sent")' => At(d, "sent") /\ call'[d].report = call[d].report
    PROVE  Counted'
BY DEF Counted, NeverUnderReported, ReportedExactlyOnce, At

LEMMA CountedKept == TypeOK /\ Counted /\ [Next]_vars => Counted'
<1> SUFFICES ASSUME TypeOK, Counted, [Next]_vars PROVE Counted'
  OBVIOUS
<1>1. CASE RecordSpans
  <2>1. /\ spans' = spans + 1 /\ recorded'.spans = recorded.spans + 1
        /\ recorded'.failures = recorded.failures
        /\ UNCHANGED <<initFailures, call, acknowledged, overlapped>>
    BY <1>1 DEF RecordSpans, TypeOK, Report
  <2>2. NeverUnderReported' /\ (~overlapped' => ReportedExactlyOnce')
    BY <2>1 DEF TypeOK, Report, Counted, NeverUnderReported, ReportedExactlyOnce
  <2>3. \A c \in Caller : call[c].report.spans \in Nat
    BY DEF TypeOK, Call, Report
  <2>4. QED
    BY <2>1, <2>2, <2>3 DEF TypeOK, Counted, At
<1>2. ASSUME NEW c \in Caller, Served(c) PROVE Counted'
  <2>1. /\ call[c].report \in Report /\ At(c, "sent")
        /\ acknowledgeHealthReport(call[c].report)
        /\ UNCHANGED <<recorded, overlapped>>
    BY <1>2 DEF Served, TypeOK, Call
  <2>2. /\ spans' \in Nat /\ spans' >= spans - call[c].report.spans
        /\ initFailures' \in Nat /\ initFailures' >= initFailures - call[c].report.failures
        /\ call[c].report.spans <= spans => spans' = spans - call[c].report.spans
        /\ call[c].report.failures <= initFailures =>
               initFailures' = initFailures - call[c].report.failures
    BY <2>1, AcknowledgeTypes
  <2>3. /\ acknowledged'.spans = acknowledged.spans + call[c].report.spans
        /\ acknowledged'.failures = acknowledged.failures + call[c].report.failures
    BY <2>1 DEF acknowledgeHealthReport
  <2>4. NeverUnderReported'
    BY <2>1, <2>2, <2>3 DEF TypeOK, Report, Counted, NeverUnderReported
  <2>5. ~overlapped' => ReportedExactlyOnce'
    BY <2>1, <2>2, <2>3 DEF TypeOK, Report, Counted, ReportedExactlyOnce
  <2>6. \A d \in Caller : At(d, "sent")' => d # c /\ At(d, "sent")
    BY <1>2 DEF Served, TypeOK, At
  <2>7. ~overlapped' => \A d \in Caller : ~At(d, "sent")'
    BY <2>1, <2>6 DEF Counted
  <2>8. QED
    BY <2>4, <2>5, <2>7 DEF Counted, At
<1>3. ASSUME NEW c \in Caller, Saved(c) PROVE Counted'
  BY <1>3, QuietCounts DEF Saved, TypeOK, At
<1>4. ASSUME NEW c \in Caller, Rejected(c) PROVE Counted'
  <2>1. /\ initFailures' = initFailures + 1 /\ recorded'.failures = recorded.failures + 1
        /\ recorded'.spans = recorded.spans
        /\ UNCHANGED <<spans, acknowledged, overlapped>>
    BY <1>4 DEF Rejected, TypeOK, Report
  <2>2. NeverUnderReported' /\ (~overlapped' => ReportedExactlyOnce')
    BY <2>1 DEF TypeOK, Report, Counted, NeverUnderReported, ReportedExactlyOnce
  <2>3. \A d \in Caller : At(d, "sent")' => At(d, "sent") /\ call'[d].report = call[d].report
    BY <1>4 DEF Rejected, TypeOK, At
  <2>4. \A d \in Caller : call[d].report.failures \in Nat
    BY DEF TypeOK, Call, Report
  <2>5. QED
    BY <2>1, <2>2, <2>3, <2>4 DEF TypeOK, Counted, At
<1>5. CASE BackgroundStarts
  BY <1>5, BeginInitCounts DEF BackgroundStarts, Caller
<1>6. CASE BackgroundContinues
  BY <1>6, QuietCounts DEF BackgroundContinues, Returns, TypeOK, At
<1>7. CASE TickFindsMarker
  BY <1>7, QuietCounts DEF TickFindsMarker, At
<1>8. CASE TickLeavesMarker
  BY <1>8, QuietCounts DEF TickLeavesMarker, At
<1>9. CASE TickBacksOff
  BY <1>9, QuietCounts DEF TickBacksOff, At
<1>10. CASE TickSends
  BY <1>10, BeginInitCounts DEF TickSends, Caller
<1>11. ASSUME NEW claim \in BOOLEAN, TickContinues(claim) PROVE Counted'
  BY <1>11, QuietCounts DEF TickContinues, Returns, TypeOK, At
<1>12. CASE ShutdownBegins
  BY <1>12, QuietCounts DEF ShutdownBegins, At
<1>13. CASE FinalReport
  BY <1>13, BeginInitCounts DEF FinalReport, Caller
<1>14. CASE FinalReportAgain
  BY <1>14, QuietCounts DEF FinalReportAgain, At
<1>15. CASE FinalContinues
  BY <1>15, QuietCounts DEF FinalContinues, Returns, TypeOK, At
<1>16. CASE ShutdownEnds
  BY <1>16, QuietCounts DEF ShutdownEnds, At
<1>17. CASE UNCHANGED vars
  BY <1>17, QuietCounts DEF vars, At
<1>18. QED
  BY <1>1, <1>2, <1>3, <1>4, <1>5, <1>6, <1>7, <1>8, <1>9, <1>10, <1>11, <1>12,
     <1>13, <1>14, <1>15, <1>16, <1>17 DEF Next

-----------------------------------------------------------------------------
(* The callers *)

Callers == BackgroundAlone /\ FinalOnce /\ TickGate

\* Only the caller changes its call.
OnlyOf(c) == \A d \in Caller : d # c => call'[d] = call[d]

LEMMA CallersKept == TypeOK /\ Callers /\ [Next]_vars => Callers'
<1> SUFFICES ASSUME TypeOK, Callers, [Next]_vars PROVE Callers'
  OBVIOUS
<1> USE DEF Callers, BackgroundAlone, BackgroundReadsItsOwnOutcome, FinalOnce, TickGate, At
<1>1. CASE RecordSpans
  BY <1>1 DEF RecordSpans, heartbeatVars, shutdownVars
<1>2. ASSUME NEW c \in Caller, Served(c) PROVE Callers'
  <2>1. OnlyOf(c) /\ call'[c].phase = "saving" /\ call'[c].ok
    BY <1>2 DEF Served, TypeOK, Call, OnlyOf
  <2>2. call[c].phase = "sent" /\ lastInitSucceeded' = TRUE
        /\ UNCHANGED <<rateLimitBackoff, heartbeatVars, shutdownVars, initDone>>
    BY <1>2 DEF Served
  <2>3. QED
    BY <2>1, <2>2 DEF Caller, OnlyOf, heartbeatVars, shutdownVars
<1>3. ASSUME NEW c \in Caller, Saved(c) PROVE Callers'
  <2>1. OnlyOf(c) /\ call'[c].phase = "returned" /\ call'[c].ok = call[c].ok
    BY <1>3 DEF Saved, TypeOK, Call, OnlyOf
  <2>2. call[c].phase = "saving"
        /\ UNCHANGED <<lastInitSucceeded, rateLimitBackoff, heartbeatVars, shutdownVars, initDone>>
    BY <1>3 DEF Saved
  <2>3. QED
    BY <2>1, <2>2 DEF Caller, OnlyOf, heartbeatVars, shutdownVars
<1>4. ASSUME NEW c \in Caller, Rejected(c) PROVE Callers'
  <2>1. OnlyOf(c) /\ call'[c].phase = "returned" /\ call'[c].ok = call[c].ok
    BY <1>4 DEF Rejected, TypeOK, Call, OnlyOf
  <2>2. call[c].phase = "sent"
        /\ UNCHANGED <<lastInitSucceeded, heartbeatVars, shutdownVars, initDone>>
    BY <1>4 DEF Rejected
  <2>3. lastInitSucceeded \in BOOLEAN /\ call[c].ok \in BOOLEAN
    BY DEF TypeOK, Call
  <2>4. c = "background" => lastInitSucceeded = FALSE /\ call[c].ok = FALSE
    BY <2>2, <2>3
  <2>5. QED
    BY <2>1, <2>2, <2>4 DEF Caller, OnlyOf, heartbeatVars, shutdownVars
<1>5. CASE BackgroundStarts
  <2>1. /\ OnlyOf("background") /\ call'["background"].phase \in {"sent", "returned"}
        /\ call'["background"].ok = FALSE
    BY <1>5 DEF BackgroundStarts, BeginInit, TypeOK, Caller, OnlyOf
  <2>2. QED
    BY <1>5, <2>1 DEF BackgroundStarts, BeginInit, Caller, OnlyOf, heartbeatVars, shutdownVars
<1>6. CASE BackgroundContinues
  <2>1. OnlyOf("background") /\ call'["background"].phase = "idle"
    BY <1>6 DEF BackgroundContinues, Returns, TypeOK, Call, Caller, OnlyOf
  <2>2. /\ call["background"].phase = "returned" /\ ~heartbeatTimer /\ initDone
        /\ heartbeatTimer' => shutdown = "no" /\ lastInitSucceeded
        /\ UNCHANGED <<rateLimitBackoff, tickInProgress, markerWait, shutdownVars, initDone>>
    BY <1>6 DEF BackgroundContinues
  <2>3. QED
    BY <2>1, <2>2 DEF Caller, OnlyOf, shutdownVars
<1>7. CASE TickFindsMarker
  BY <1>7 DEF TickFindsMarker, TimerFires
<1>8. CASE TickLeavesMarker
  BY <1>8 DEF TickLeavesMarker, shutdownVars
<1>9. CASE TickBacksOff
  BY <1>9 DEF TickBacksOff, shutdownVars
<1>10. CASE TickSends
  <2>1. OnlyOf("tick") /\ call'["tick"].ok = FALSE
    BY <1>10 DEF TickSends, BeginInit, TypeOK, Caller, OnlyOf
  <2>2. heartbeatTimer /\ ~tickInProgress /\ tickInProgress' = TRUE /\ rateLimitBackoff' = FALSE
        /\ UNCHANGED <<heartbeatTimer, hookRegistered, markerWait, shutdownVars, initDone>>
    BY <1>10 DEF TickSends, BeginInit, TimerFires
  <2>3. QED
    BY <2>1, <2>2 DEF Caller, OnlyOf, shutdownVars
<1>11. ASSUME NEW claim \in BOOLEAN, TickContinues(claim) PROVE Callers'
  <2>1. OnlyOf("tick") /\ call'["tick"].phase = "idle"
    BY <1>11 DEF TickContinues, Returns, TypeOK, Call, Caller, OnlyOf
  <2>2. /\ call["tick"].phase = "returned"
        /\ rateLimitBackoff' => rateLimitBackoff /\ call["tick"].ok
        /\ UNCHANGED <<lastInitSucceeded, heartbeatTimer, hookRegistered, markerWait,
                       shutdownVars, initDone>>
    BY <1>11 DEF TickContinues
  <2>3. QED
    BY <2>1, <2>2 DEF Caller, OnlyOf, shutdownVars
<1>12. CASE ShutdownBegins
  BY <1>12 DEF ShutdownBegins, heartbeatVars
<1>13. CASE FinalReport
  <2>1. OnlyOf("final")
    BY <1>13 DEF FinalReport, BeginInit, TypeOK, OnlyOf
  <2>2. /\ hookRegistered /\ ~shutdownFired /\ shutdownFired' = TRUE /\ heartbeatTimer' = FALSE
        /\ finalReports' = 1 /\ shutdown' = "report_hook"
        /\ UNCHANGED <<hookRegistered, tickInProgress, markerWait, initDone>>
    BY <1>13 DEF FinalReport
  <2>3. QED
    BY <2>1, <2>2 DEF Caller, OnlyOf
<1>14. CASE FinalReportAgain
  BY <1>14 DEF FinalReportAgain, heartbeatVars
<1>15. CASE FinalContinues
  <2>1. OnlyOf("final") /\ call'["final"].phase = "idle"
    BY <1>15 DEF FinalContinues, Returns, TypeOK, Call, Caller, OnlyOf
  <2>2. QED
    BY <1>15, <2>1 DEF FinalContinues, Caller, OnlyOf, heartbeatVars, shutdownVars
<1>16. CASE ShutdownEnds
  BY <1>16 DEF ShutdownEnds, heartbeatVars
<1>17. CASE UNCHANGED vars
  BY <1>17 DEF vars
<1>18. QED
  BY <1>1, <1>2, <1>3, <1>4, <1>5, <1>6, <1>7, <1>8, <1>9, <1>10, <1>11, <1>12,
     <1>13, <1>14, <1>15, <1>16, <1>17 DEF Next

-----------------------------------------------------------------------------
LEMMA HealthInvAlways == Spec => []HealthInv
<1>1. HealthInv /\ [Next]_vars => HealthInv'
  BY TypesKept, CountedKept, CallersKept DEF HealthInv, Callers
<1>2. QED
  BY HealthInit, <1>1, PTL DEF Spec

\* Reports carry what was recorded: nothing is forgotten, and the background
\* init acts on the outcome of its own request (health-collector.ts,
\* init-client.ts didLastInitSucceed()).
THEOREM ReportsStaySound == Spec => []ReportsSound
<1>1. HealthInv => ReportsSound
  BY DEF HealthInv, Counted, BackgroundAlone, ReportsSound
<1>2. QED
  BY HealthInvAlways, <1>1, PTL

\* Without two unanswered reports at a time, everything recorded is counted
\* or was in exactly one accepted report (acknowledgeHealthReport()).
THEOREM ReportedOnce == Spec => []ReportedExactlyOnceUnlessOverlapped
<1>1. HealthInv => ReportedExactlyOnceUnlessOverlapped
  BY DEF HealthInv, Counted, ReportedExactlyOnceUnlessOverlapped
<1>2. QED
  BY HealthInvAlways, <1>1, PTL

\* The shutdown hook of the heartbeat sends one report however often it runs.
THEOREM ReportIsFinal == Spec => []OneFinalReport
<1>1. HealthInv => OneFinalReport
  BY DEF HealthInv, FinalOnce, OneFinalReport
<1>2. QED
  BY HealthInvAlways, <1>1, PTL

\* A step that sends a tick's report.
LEMMA OnlyTickSends ==
    ASSUME [Next]_vars, ticksSent' # ticksSent
    PROVE  TickSends
BY DEF Next, vars, RecordSpans, Served, Saved, Rejected, BackgroundStarts, BackgroundContinues,
       TickFindsMarker, TickLeavesMarker, TickBacksOff, TickContinues, ShutdownBegins,
       FinalReport, FinalReportAgain, FinalContinues, ShutdownEnds

\* heartbeatTick(): no request after the final report, and none that uses up
\* a rate-limit flag another caller left.
THEOREM TicksStayInOrder == Spec => TicksInOrder
<1>1. HealthInv /\ [Next]_vars => [shutdownFired => ticksSent' = ticksSent]_vars
  <2> SUFFICES ASSUME HealthInv, [Next]_vars, shutdownFired, ticksSent' # ticksSent PROVE FALSE
    OBVIOUS
  <2>1. heartbeatTimer
    BY OnlyTickSends DEF TickSends, TimerFires
  <2>2. QED
    BY <2>1 DEF HealthInv, FinalOnce
<1>2. HealthInv /\ [Next]_vars => [ticksSent' # ticksSent => ~rateLimitBackoff]_vars
  <2> SUFFICES ASSUME HealthInv, [Next]_vars, rateLimitBackoff, ticksSent' # ticksSent PROVE FALSE
    OBVIOUS
  <2>1. heartbeatTimer /\ ~tickInProgress
    BY OnlyTickSends DEF TickSends, TimerFires
  <2>2. QED
    BY <2>1 DEF HealthInv, TickGate, At
<1>3. QED
  BY HealthInvAlways, <1>1, <1>2, PTL
     DEF Spec, TicksInOrder, NoTickAfterFinalReport, RateLimitSpentByItsTick

-----------------------------------------------------------------------------
(* One call of httpsPostJson().                                            *)


PostTypeOK ==
  /\ now \in Nat /\ timer \in Nat
  /\ post \in [pc : {"loop", "sending", "sleeping", "settled"}, attempt : Nat,
               result : {"none", "transport", "answer", "status", "parse"}]
  /\ {listening, aborted} \subseteq BOOLEAN
  /\ socket \in [Attempt -> {"unused", "open", "answering", "closed"}]

Waiting == post.pc \in {"sending", "sleeping"}

\* A timer is never set past the deadline, which is why its lag counts once;
\* the loop is entered only with an attempt left; whoever waits listens.
PostInv ==
  /\ PostTypeOK
  /\ Waiting => listening /\ timer <= Deadline /\ now <= timer + Lag
  /\ post.pc = "loop" => now <= Deadline + Lag /\ post.attempt < MaxAttempts
  /\ post.pc = "sending" => post.attempt \in Attempt
  /\ post.pc = "sleeping" => post.attempt < MaxAttempts
  /\ \A a \in Attempt :
       socket[a] \in {"open", "answering"} => post.pc = "sending" /\ a = post.attempt
  /\ post.pc \in {"loop", "settled"} => timer = NoTimer /\ ~ listening
  /\ aborted => post.pc \in {"loop", "settled"}

\* Min of two: Math.min(), where it is applied to times.
LEMMA LeastOfTwo ==
  ASSUME NEW a \in Nat, NEW b \in Nat
  PROVE  Least(a, b) \in Nat /\ Least(a, b) <= a /\ Least(a, b) <= b
<1>1. \E x \in {a, b} : \A y \in {a, b} : x =< y
  <2>1. CASE a <= b
    BY <2>1
  <2>2. CASE b <= a
    BY <2>2
  <2>3. QED
    BY <2>1, <2>2
<1>2. Least(a, b) \in {a, b} /\ \A y \in {a, b} : Least(a, b) =< y
  BY <1>1 DEF Least, Min
<1>3. QED
  BY <1>2

\* A step of an attempt that fails: the call is over, or it sleeps with a
\* timer that is not past the deadline.
LEMMA FailureSettlesOrSleeps ==
  ASSUME PostTypeOK, post.pc = "sending", post.attempt \in Attempt, RetryAfterFailure
  PROVE  \/ /\ post' = [post EXCEPT !.pc = "settled", !.result = "transport"]
            /\ timer' = NoTimer /\ listening' = FALSE
         \/ /\ post' = [post EXCEPT !.pc = "sleeping"] /\ ~ aborted
            /\ post.attempt < MaxAttempts
            /\ listening' = TRUE
            /\ timer' \in Nat /\ now <= timer' /\ timer' <= Deadline
<1>1. CASE Current = MaxAttempts \/ now >= Deadline \/ aborted
  BY <1>1 DEF RetryAfterFailure, SettlesAs, Cleanup
<1>2. CASE ~ (Current = MaxAttempts \/ now >= Deadline \/ aborted)
  <2>1. Delay \in Nat
    <3>1. Len(RetryDelays) \in Nat \ {0}
      BY TransportAssumption
    <3>2. Min({Current, Len(RetryDelays)}) \in 1 .. Len(RetryDelays)
      <4>1. Current \in Nat \ {0}
        BY DEF Current, Attempt
      <4>2. \E x \in {Current, Len(RetryDelays)} : \A y \in {Current, Len(RetryDelays)} : x =< y
        BY <3>1, <4>1
      <4>3. /\ Min({Current, Len(RetryDelays)}) \in {Current, Len(RetryDelays)}
            /\ Min({Current, Len(RetryDelays)}) <= Len(RetryDelays)
        BY <4>2 DEF Min
      <4>4. QED
        BY <3>1, <4>1, <4>3
    <3>3. QED
      BY <3>2, TransportAssumption DEF Delay, Least
  <2>2. Deadline - now \in Nat
    BY <1>2, TransportAssumption DEF PostTypeOK
  <2>3. Least(Delay, Deadline - now) \in Nat /\ Least(Delay, Deadline - now) <= Deadline - now
    BY <2>1, <2>2, LeastOfTwo
  <2>4. /\ post' = [post EXCEPT !.pc = "sleeping"] /\ ~ aborted
        /\ timer' = now + Least(Delay, Deadline - now) /\ listening' = TRUE
    BY <1>2 DEF RetryAfterFailure
  <2>5. post.attempt < MaxAttempts
    BY <1>2, TransportAssumption DEF Current, Attempt
  <2>6. QED
    BY <2>3, <2>4, <2>5, TransportAssumption DEF PostTypeOK
<1>3. QED
  BY <1>1, <1>2

LEMMA NoTimerIsANumber == NoTimer \in Nat
BY TransportAssumption DEF NoTimer

LEMMA PostStarts == PostInit => PostInv
<1> SUFFICES ASSUME PostInit PROVE PostInv
  OBVIOUS
<1>1. PostTypeOK
  <2>1. now \in Nat /\ timer \in Nat
    BY NoTimerIsANumber DEF PostInit
  <2>2. post \in [pc : {"loop", "sending", "sleeping", "settled"}, attempt : Nat,
                  result : {"none", "transport", "answer", "status", "parse"}]
    BY DEF PostInit
  <2>3. {listening, aborted} \subseteq BOOLEAN
    BY Zenon DEF PostInit
  <2>4. socket \in [Attempt -> {"unused", "open", "answering", "closed"}]
    BY DEF PostInit
  <2>5. QED
    BY <2>1, <2>2, <2>3, <2>4 DEF PostTypeOK
<1>2. post.pc = "loop" /\ post.attempt = 0 /\ now = 0 /\ timer = NoTimer /\ ~ listening
  BY DEF PostInit
<1>3. \A a \in Attempt : socket[a] = "unused"
  BY DEF PostInit
<1>4. now <= Deadline + Lag /\ post.attempt < MaxAttempts
  BY <1>2, TransportAssumption
<1>5. QED
  BY <1>1, <1>2, <1>3, <1>4 DEF PostInv, Waiting

\* The head of the loop keeps the invariant.
LEMMA NextAttemptKeeps ==
  ASSUME PostInv, NextAttempt
  PROVE  PostInv'
<1>1. CASE post' = [post EXCEPT !.pc = "settled", !.result = "transport"]
           /\ UNCHANGED <<timer, listening, socket>>
  BY <1>1 DEF NextAttempt, PostInv, PostTypeOK, Waiting, NoTimer, Attempt
<1>2. CASE /\ ~ aborted /\ now < Deadline
           /\ post' = [post EXCEPT !.pc = "sending", !.attempt = @ + 1]
           /\ socket' = [socket EXCEPT ![post.attempt + 1] = "open"]
           /\ timer' = now + Least(Timeout, Deadline - now)
           /\ listening' = TRUE
  <2>1. now \in Nat /\ Deadline \in Nat /\ Timeout \in Nat /\ Lag \in Nat /\ MaxAttempts \in Nat
    BY TransportAssumption DEF PostInv, PostTypeOK
  <2>2. Deadline - now \in Nat
    BY <1>2, <2>1
  <2>3. Least(Timeout, Deadline - now) \in Nat /\ Least(Timeout, Deadline - now) <= Deadline - now
    BY <2>1, <2>2, LeastOfTwo
  <2>4. timer' \in Nat /\ timer' <= Deadline /\ now <= timer' + Lag
    BY <1>2, <2>1, <2>3
  <2>5. post.pc = "loop" /\ post.attempt \in Nat /\ post.attempt + 1 \in Attempt
    BY <2>1 DEF NextAttempt, PostInv, PostTypeOK, Attempt
  <2>6. \A a \in Attempt : socket'[a] = IF a = post.attempt + 1 THEN "open" ELSE socket[a]
    BY <1>2, <2>5 DEF PostInv, PostTypeOK
  <2>7. PostTypeOK'
    <3>1. now' \in Nat /\ timer' \in Nat
      BY <2>1, <2>4 DEF NextAttempt
    <3>2. post' \in [pc : {"loop", "sending", "sleeping", "settled"}, attempt : Nat,
                     result : {"none", "transport", "answer", "status", "parse"}]
      <4>1. post \in [pc : {"loop", "sending", "sleeping", "settled"}, attempt : Nat,
                      result : {"none", "transport", "answer", "status", "parse"}]
        BY DEF PostInv, PostTypeOK
      <4>2. post.attempt + 1 \in Nat
        BY <2>5
      <4>3. QED
        BY <4>1, <4>2, <1>2
    <3>3. {listening', aborted'} \subseteq BOOLEAN
      <4>1. aborted' = aborted /\ listening' = TRUE
        BY <1>2 DEF NextAttempt
      <4>2. aborted \in BOOLEAN
        BY Zenon DEF PostInv, PostTypeOK
      <4>3. QED
        BY Zenon, <4>1, <4>2
    <3>4. socket' \in [Attempt -> {"unused", "open", "answering", "closed"}]
      BY <1>2, <2>5 DEF PostInv, PostTypeOK
    <3>5. QED
      BY <3>1, <3>2, <3>3, <3>4 DEF PostTypeOK
  <2>8. /\ post'.pc = "sending" /\ post'.attempt = post.attempt + 1
        /\ now' = now /\ aborted' = aborted /\ listening'
    BY <1>2 DEF NextAttempt, PostInv, PostTypeOK
  <2>9. \A a \in Attempt : socket[a] \notin {"open", "answering"}
    BY <2>5 DEF PostInv
  <2>10. QED
    BY <1>2, <2>4, <2>5, <2>6, <2>7, <2>8, <2>9 DEF PostInv, Waiting, Attempt
<1>3. QED
  BY <1>1, <1>2 DEF NextAttempt, SettlesAs

\* A failed attempt keeps it, whether the connection or the timer ended it.
LEMMA FailureKeeps ==
  ASSUME PostInv, post.pc = "sending", Socket("closed"), RetryAfterFailure,
         UNCHANGED <<now, aborted>>
  PROVE  PostInv'
<1>1. post.attempt \in Attempt /\ PostTypeOK
  BY DEF PostInv
<1>2. \A a \in Attempt : socket'[a] = IF a = post.attempt THEN "closed" ELSE socket[a]
  BY <1>1 DEF Socket, Current, PostTypeOK
<1>3. socket' \in [Attempt -> {"unused", "open", "answering", "closed"}]
  BY <1>1 DEF Socket, Current, PostTypeOK
<1>4. \A a \in Attempt : socket'[a] \notin {"open", "answering"}
  BY <1>2 DEF PostInv
<1>5. CASE /\ post' = [post EXCEPT !.pc = "settled", !.result = "transport"]
           /\ timer' = NoTimer /\ listening' = FALSE
  BY <1>1, <1>3, <1>4, <1>5, NoTimerIsANumber DEF PostInv, PostTypeOK, Waiting, NoTimer
<1>6. CASE /\ post' = [post EXCEPT !.pc = "sleeping"] /\ ~ aborted
           /\ post.attempt < MaxAttempts
           /\ listening' = TRUE
           /\ timer' \in Nat /\ now <= timer' /\ timer' <= Deadline
  <2>1. post'.pc = "sleeping" /\ post'.attempt = post.attempt /\ now' = now /\ aborted' = aborted
    BY <1>1, <1>6 DEF PostTypeOK
  <2>2. PostTypeOK'
    BY <1>1, <1>3, <1>6, <2>1 DEF PostTypeOK
  <2>3. timer' <= Deadline /\ now' <= timer' + Lag
    BY <1>1, <1>6, <2>1, TransportAssumption DEF PostTypeOK
  <2>4. QED
    BY <1>4, <1>6, <2>1, <2>2, <2>3 DEF PostInv, Waiting
<1>7. QED
  BY <1>1, <1>5, <1>6, FailureSettlesOrSleeps

LEMMA PostStepKeeps == PostInv /\ [PostNext]_postVars => PostInv'
<1> SUFFICES ASSUME PostInv, [PostNext]_postVars
             PROVE  PostInv'
  OBVIOUS
<1>1. CASE NextAttempt
  BY <1>1, NextAttemptKeeps
<1>2. CASE ResponseBegins
  <2>1. /\ post.attempt \in Attempt
        /\ socket' = [socket EXCEPT ![post.attempt] = "answering"]
    BY <1>2 DEF ResponseBegins, Socket, Current, PostInv
  <2>2. QED
    BY <1>2, <2>1 DEF ResponseBegins, PostInv, PostTypeOK, Waiting, Attempt, NoTimer
<1>3. CASE ResponseEnds
  <2>1. /\ post.attempt \in Attempt
        /\ socket' = [socket EXCEPT ![post.attempt] = "closed"]
        /\ timer' = NoTimer /\ listening' = FALSE /\ UNCHANGED <<now, aborted>>
        /\ \E r \in {"answer", "status", "parse"} : post' = [post EXCEPT !.pc = "settled", !.result = r]
    BY <1>3 DEF ResponseEnds, Socket, Current, PostInv, SettlesAs, Cleanup
  <2>2. \A a \in Attempt : socket'[a] \notin {"open", "answering"}
    BY <1>3, <2>1 DEF ResponseEnds, PostInv, PostTypeOK
  <2>3. PostTypeOK' /\ post'.pc = "settled"
    BY <2>1, NoTimerIsANumber DEF PostInv, PostTypeOK
  <2>4. NoTimer' = NoTimer
    BY DEF NoTimer
  <2>5. QED
    BY <2>1, <2>2, <2>3, <2>4 DEF PostInv, Waiting
<1>4. CASE ConnectionFails
  BY <1>4, FailureKeeps DEF ConnectionFails
<1>5. CASE AttemptTimesOut
  BY <1>5, FailureKeeps DEF AttemptTimesOut
<1>6. CASE SleepEnds
  <2>1. now \in Nat /\ timer \in Nat /\ now <= timer + Lag /\ timer <= Deadline /\ post.attempt < MaxAttempts
    BY <1>6 DEF SleepEnds, PostInv, Waiting, PostTypeOK
  <2>2. now <= Deadline + Lag
    BY <2>1, TransportAssumption
  <2>3. QED
    BY <1>6, <2>1, <2>2, NoTimerIsANumber
       DEF SleepEnds, Cleanup, PostInv, PostTypeOK, Waiting, NoTimer
<1>7. CASE Abort
  <2>1. CASE post.pc = "sending" /\ listening /\ Socket("closed") /\ SettlesAs("transport") /\ Cleanup
    <3>1. /\ post.attempt \in Attempt
          /\ socket' = [socket EXCEPT ![post.attempt] = "closed"]
          /\ timer' = NoTimer /\ listening' = FALSE /\ now' = now /\ aborted' = TRUE
          /\ post' = [post EXCEPT !.pc = "settled", !.result = "transport"]
      BY <1>7, <2>1 DEF Abort, Socket, Current, PostInv, SettlesAs, Cleanup
    <3>2. \A a \in Attempt : socket'[a] \notin {"open", "answering"}
      BY <2>1, <3>1 DEF PostInv, PostTypeOK
    <3>3. PostTypeOK' /\ post'.pc = "settled"
      BY <3>1, NoTimerIsANumber DEF PostInv, PostTypeOK
    <3>4. NoTimer' = NoTimer
      BY DEF NoTimer
    <3>5. QED
      BY <3>1, <3>2, <3>3, <3>4 DEF PostInv, Waiting
  <2>2. CASE post.pc = "sleeping" /\ listening /\ SettlesAs("transport") /\ Cleanup /\ UNCHANGED socket
    BY <1>7, <2>2, NoTimerIsANumber
       DEF Abort, SettlesAs, Cleanup, PostInv, PostTypeOK, Waiting, NoTimer
  <2>3. CASE ~ listening /\ UNCHANGED <<post, timer, listening, socket>>
    <3>1. post.pc \in {"loop", "settled"}
      BY <2>3 DEF PostInv, PostTypeOK, Waiting
    <3>2. QED
      BY <1>7, <2>3, <3>1 DEF Abort, PostInv, PostTypeOK, Waiting, NoTimer
  <2>4. QED
    BY <1>7, <2>1, <2>2, <2>3 DEF Abort
<1>8. CASE TimePasses
  <2>1. Waiting /\ now \in Nat /\ timer \in Nat /\ Lag \in Nat
    BY <1>8, TransportAssumption DEF TimePasses, Pending, PostInv, PostTypeOK, Waiting
  <2>2. now' \in Nat /\ now' <= timer' + Lag
    BY <1>8, <2>1 DEF TimePasses
  <2>3. QED
    BY <1>8, <2>1, <2>2 DEF TimePasses, PostInv, PostTypeOK, Waiting, NoTimer
<1>9. CASE UNCHANGED postVars
  BY <1>9 DEF postVars, PostInv, PostTypeOK, Waiting, NoTimer
<1>10. QED
  BY <1>1, <1>2, <1>3, <1>4, <1>5, <1>6, <1>7, <1>8, <1>9 DEF PostNext, Settled

LEMMA PostInvariant == PostSpec => []PostInv
BY PostStarts, PostStepKeeps, PTL DEF PostSpec

\* The call is over when the deadline and one lag of the event loop have
\* passed, with no socket, timer or listener left behind.
THEOREM CallSettlesCleanly == PostSpec => []SettlesCleanly
<1>1. PostInv => SettledInTime
  <2> SUFFICES ASSUME PostInv, Pending
               PROVE  now <= Deadline + Lag
    BY DEF SettledInTime
  <2>1. CASE post.pc = "loop"
    BY <2>1 DEF PostInv
  <2>2. CASE Waiting
    <3>1. now \in Nat /\ timer \in Nat /\ now <= timer + Lag /\ timer <= Deadline
      BY <2>2 DEF PostInv, PostTypeOK
    <3>2. QED
      BY <3>1, TransportAssumption
  <2>3. QED
    BY <2>1, <2>2 DEF PostInv, PostTypeOK, Pending, Waiting
<1>2. PostInv => NothingLeftBehind
  <2> SUFFICES ASSUME PostInv
               PROVE  NothingLeftBehind
    OBVIOUS
  <2>1. \A a \in Sent : socket[a] # "closed" => post.pc = "sending" /\ a = Current
    BY DEF Sent, PostInv, PostTypeOK, Current
  <2>2. post.pc \in {"loop", "settled"} => timer = NoTimer /\ ~ listening
    BY DEF PostInv
  <2>3. QED
    BY <2>1, <2>2 DEF NothingLeftBehind, Pending
<1>3. QED
  BY <1>1, <1>2, PostInvariant, PTL DEF SettlesCleanly

\* An aborted call sends nothing more and does not change but to end.
THEOREM AbortedCallStops == PostSpec => AbortStops
<1>1. PostInv /\ [PostNext]_postVars =>
        [aborted => socket' = socket /\ (post.pc = "loop" \/ UNCHANGED post)]_postVars
  <2> SUFFICES ASSUME PostInv, PostNext, aborted
               PROVE  socket' = socket /\ (post.pc = "loop" \/ UNCHANGED post)
    OBVIOUS
  <2>1. post.pc \in {"loop", "settled"}
    BY DEF PostInv
  <2>2. CASE NextAttempt
    BY <2>2 DEF NextAttempt
  <2>3. CASE TimePasses
    BY <2>3 DEF TimePasses
  <2>4. CASE Settled
    BY <2>4 DEF Settled, postVars
  <2>5. QED
    BY <2>1, <2>2, <2>3, <2>4
       DEF PostNext, ResponseBegins, ResponseEnds, ConnectionFails, AttemptTimesOut, SleepEnds, Abort
<1>2. QED
  BY <1>1, PostInvariant, PTL DEF PostSpec, AbortStops

-----------------------------------------------------------------------------
\* The upload of source maps: a manifest is whole and a build hash names what
\* was accepted under it, for any compilers, maps, sizes and concurrency, with
\* the puts of a chunk ending in any order and going on after one of them
\* failed.

Put == [file : File, version : Nat, late : BOOLEAN]

\* The state keeps its shape.
Shape ==
    /\ disk \in [File -> Nat]
    /\ job = [pc |-> job.pc, kind |-> job.kind, infos |-> job.infos,
              todo |-> job.todo, hash |-> job.hash, read |-> job.read,
              tokens |-> job.tokens, skipped |-> job.skipped, jobs |-> job.jobs]
    /\ job.pc \in {"idle", "discover", "hash", "read", "presign", "chunk"}
    /\ job.infos \subseteq File /\ job.todo \subseteq File
    /\ job.tokens \subseteq File
    /\ flight \subseteq Put

\* Nothing is left of the upload before.
Fresh ==
    /\ job.pc \in {"idle", "discover", "hash", "presign"} =>
           DOMAIN job.read = {} /\ job.skipped = {}
    /\ job.pc = "discover" => DOMAIN job.hash = {}

UploadingFiles == {p.file : p \in Uploading}

\* ManifestIsWhole speaks of the end of an upload.  While its chunks are under
\* way, every token is in one place: to do, being put, skipped, or in the blob
\* store; and only puts of earlier uploads are late.
Chunks ==
    /\ job.pc # "chunk" => Uploading = {}
    /\ \A p, q \in Uploading : p.file = q.file => p = q
    /\ job.pc = "chunk" =>
         /\ job.tokens = job.todo \cup UploadingFiles \cup job.skipped
                             \cup DOMAIN job.read
         /\ job.todo \cap (UploadingFiles \cup job.skipped \cup DOMAIN job.read) = {}
         /\ UploadingFiles \cap (job.skipped \cup DOMAIN job.read) = {}
         /\ job.skipped \cap DOMAIN job.read = {}
         /\ \A f \in DOMAIN job.read :
                [file |-> f, version |-> job.read[f]] \in blobs

AsOnDisk(versions) == \A f \in DOMAIN versions : versions[f] = disk[f]

\* HashIdentifiesMaps speaks of what was accepted.  Until then, as long as no
\* map changes, the hash, the files read and the versions being put are all
\* what is on the disk.
Steady ==
    ~ changed /\ job.pc \in {"hash", "read", "presign", "chunk"} =>
      /\ job.infos \subseteq Readable
      /\ AsOnDisk(job.hash) /\ AsOnDisk(job.read)
      /\ DOMAIN job.hash = IF job.pc = "hash" THEN job.infos \ job.todo ELSE job.infos
      /\ job.pc \in {"hash", "read"} => job.todo \subseteq job.infos
      /\ job.pc = "read" => DOMAIN job.read = job.infos \ job.todo
      /\ job.pc = "chunk" => job.tokens \subseteq job.infos
      /\ \A p \in Uploading : p.version \in {0, disk[p.file]}

UploadInv == Shape /\ Fresh /\ Chunks /\ Steady /\ UploadSound

\* An upload that has ended.
LEMMA EndedJob ==
    ASSUME End
    PROVE  /\ job' = [pc |-> "idle", kind |-> "none", infos |-> {}, todo |-> {},
                      hash |-> Empty, read |-> Empty, tokens |-> {},
                      skipped |-> {}, jobs |-> job.jobs]
           /\ DOMAIN Empty = {}
BY DEF End, NoJob, Empty

\* The build and its clean-up: a map that changes under an upload is noticed.
LEMMA BuildSteps ==
    ASSUME UploadInv,
           (\E c \in Compiler : EmitMaps(c)) \/ (\E f \in File : RemoveMap(f))
    PROVE  UploadInv'
<1> USE DEF UploadInv
<1>1. /\ UNCHANGED <<job, blobs, flight, accepted>>
      /\ changed' = (changed \/ job.pc # "idle")
  BY DEF EmitMaps, RemoveMap
<1>2. disk' \in [File -> Nat]
  <2>1. ASSUME NEW c \in Compiler, EmitMaps(c) PROVE disk' \in [File -> Nat]
    <3>1. disk' = [f \in File |-> IF f \in MapsOf[c] THEN disk[f] + 1 ELSE disk[f]]
      BY <2>1 DEF EmitMaps
    <3>2. \A f \in File : disk[f] \in Nat /\ disk[f] + 1 \in Nat
      BY DEF Shape
    <3>3. QED
      BY <3>1, <3>2
  <2>2. ASSUME NEW f \in File, RemoveMap(f) PROVE disk' \in [File -> Nat]
    BY <2>2 DEF RemoveMap, Shape
  <2>3. QED
    BY <2>1, <2>2
<1>3. Shape'
  BY <1>1, <1>2 DEF Shape
<1>4. Fresh' /\ Chunks' /\ UploadSound'
  BY <1>1 DEF Fresh, Chunks, Uploading, UploadingFiles, UploadSound,
     ManifestIsWhole, HashIdentifiesMaps
<1>5. Steady'
  BY <1>1 DEF Steady
<1>6. QED
  BY <1>3, <1>4, <1>5

\* An upload begins.
LEMMA BeginSteps ==
    ASSUME UploadInv, AfterEmit \/ ScriptUploads
    PROVE  UploadInv'
<1> USE DEF UploadInv
<1>1. PICK kind \in {"build", "auto"} : Begin(kind)
  BY DEF AfterEmit, ScriptUploads
<1>2. /\ job' = [pc |-> "discover", kind |-> kind, infos |-> {}, todo |-> {},
                 hash |-> Empty, read |-> Empty, tokens |-> {}, skipped |-> {},
                 jobs |-> job.jobs + 1]
      /\ UNCHANGED <<disk, blobs, flight, accepted>> /\ job.pc = "idle"
      /\ DOMAIN Empty = {}
  BY <1>1 DEF Begin, NoJob, Empty
<1>3. Shape' /\ Fresh'
  BY <1>2 DEF Shape, Fresh
<1>4. Uploading' = {}
  BY <1>2 DEF Chunks, Uploading
<1>5. Chunks' /\ Steady'
  BY <1>2, <1>4 DEF Chunks, Steady
<1>6. UploadSound'
  BY <1>2 DEF UploadSound, ManifestIsWhole, HashIdentifiesMaps
<1>7. QED
  BY <1>3, <1>5, <1>6

\* The stages before anything is put: discover, hash, choose, read, presign.
LEMMA DiscoverSteps ==
    ASSUME UploadInv, DiscoverSourceMapFiles
    PROVE  UploadInv'
<1> USE DEF UploadInv
<1>1. /\ UNCHANGED <<disk, changed, blobs, flight, accepted>> /\ job.pc = "discover"
  BY DEF DiscoverSourceMapFiles, Kept
<1>2. UploadSound' /\ Uploading' = {} /\ Readable' = Readable /\ Readable \subseteq File
  BY <1>1 DEF UploadSound, ManifestIsWhole, HashIdentifiesMaps, Chunks, Uploading,
     Readable
<1>3. CASE End
  BY <1>1, <1>2, <1>3, EndedJob DEF Shape, Fresh, Chunks, Steady
<1>4. CASE job' = [job EXCEPT !.pc = "hash", !.infos = Readable, !.todo = Readable]
  <2>1. job' = [pc |-> "hash", kind |-> job.kind, infos |-> Readable,
              todo |-> Readable, hash |-> job.hash, read |-> job.read,
              tokens |-> job.tokens, skipped |-> job.skipped, jobs |-> job.jobs]
    BY <1>4 DEF Shape
  <2>2. Shape' /\ Fresh' /\ Chunks'
    BY <1>1, <1>2, <2>1 DEF Shape, Fresh, Chunks
  <2>3. Steady'
    BY <1>1, <1>2, <2>1 DEF Fresh, Steady, AsOnDisk
  <2>4. QED
    BY <1>2, <2>2, <2>3
<1>5. QED
  BY <1>3, <1>4 DEF DiscoverSourceMapFiles

\* One more file is hashed; one that cannot be read is left out.
LEMMA HashSteps ==
    ASSUME UploadInv, HashNext
    PROVE  UploadInv'
<1> USE DEF UploadInv
<1>1. /\ UNCHANGED <<disk, changed, blobs, flight, accepted>> /\ job.pc = "hash"
  BY DEF HashNext, Kept
<1>2. PICK f \in job.todo :
          job' = [job EXCEPT !.todo = @ \ {f},
                     !.hash = IF disk[f] = 0 THEN @ ELSE With(@, f, disk[f])]
  BY DEF HashNext
<1>3. job' = [pc |-> "hash", kind |-> job.kind, infos |-> job.infos,
              todo |-> job.todo \ {f},
              hash |-> IF disk[f] = 0 THEN job.hash ELSE With(job.hash, f, disk[f]),
              read |-> job.read, tokens |-> job.tokens, skipped |-> job.skipped,
              jobs |-> job.jobs]
  BY <1>1, <1>2 DEF Shape
<1>4. UploadSound' /\ Uploading' = {} /\ Readable' = Readable
  BY <1>1 DEF UploadSound, ManifestIsWhole, HashIdentifiesMaps, Chunks, Uploading,
     Readable
<1>5. Shape' /\ Fresh' /\ Chunks'
  BY <1>1, <1>3, <1>4 DEF Shape, Fresh, Chunks
<1>6. Steady'
  <2> SUFFICES ASSUME ~ changed PROVE Steady'
    BY <1>1 DEF Steady
  <2>1. disk[f] # 0 /\ f \in job.infos
    BY <1>1 DEF Steady, Readable
  <2>2. /\ job'.read = job.read
        /\ job'.hash = [g \in DOMAIN job.hash \cup {f} |->
                          IF g = f THEN disk[f] ELSE job.hash[g]]
    BY <1>3, <2>1 DEF With
  <2>3. DOMAIN job'.hash = job'.infos \ job'.todo
    <3>1. DOMAIN job'.hash = DOMAIN job.hash \cup {f}
      BY <2>2
    <3>2. DOMAIN job.hash = job.infos \ job.todo /\ job.todo \subseteq job.infos
      BY <1>1 DEF Steady
    <3>3. job'.infos = job.infos /\ job'.todo = job.todo \ {f}
      BY <1>3
    <3>4. QED
      BY <2>1, <3>1, <3>2, <3>3
  <2>4. AsOnDisk(job'.hash)
    BY <1>1, <2>2 DEF Steady, AsOnDisk
  <2>5. QED
    BY <1>1, <1>3, <1>4, <2>2, <2>3, <2>4 DEF Steady, AsOnDisk
<1>7. QED
  BY <1>4, <1>5, <1>6

\* The hash is complete.
LEMMA ChooseSteps ==
    ASSUME UploadInv, ChooseUpload
    PROVE  UploadInv'
<1> USE DEF UploadInv
<1>1. /\ UNCHANGED <<disk, changed, blobs, flight, accepted>>
      /\ job.pc = "hash" /\ job.todo = {}
  BY DEF ChooseUpload, Kept
<1>2. PICK pc \in {"read", "presign"}, todo \in {job.infos, {}} :
          /\ pc = "read" => todo = job.infos
          /\ job' = [pc |-> pc, kind |-> job.kind, infos |-> job.infos,
                     todo |-> todo, hash |-> job.hash, read |-> job.read,
                     tokens |-> job.tokens, skipped |-> job.skipped, jobs |-> job.jobs]
  <2>1. CASE job' = [job EXCEPT !.pc = "read", !.todo = job.infos]
    BY <2>1 DEF Shape
  <2>2. CASE Goto("presign")
    BY <1>1, <2>2 DEF Shape, Goto
  <2>3. QED
    BY <2>1, <2>2 DEF ChooseUpload
<1>3. UploadSound' /\ Uploading' = {} /\ Readable' = Readable
  BY <1>1 DEF UploadSound, ManifestIsWhole, HashIdentifiesMaps, Chunks, Uploading,
     Readable
<1>4. Shape' /\ Fresh' /\ Chunks'
  BY <1>1, <1>2, <1>3 DEF Shape, Fresh, Chunks
<1>5. Steady'
  BY <1>1, <1>2, <1>3 DEF Steady, Fresh, AsOnDisk
<1>6. QED
  BY <1>3, <1>4, <1>5

\* One more file is read for the post.
LEMMA ReadSteps ==
    ASSUME UploadInv, ReadNext
    PROVE  UploadInv'
<1> USE DEF UploadInv
<1>1. /\ UNCHANGED <<disk, changed, blobs, flight, accepted>> /\ job.pc = "read"
  BY DEF ReadNext, Kept
<1>2. PICK f \in job.todo :
          job' = [job EXCEPT !.todo = @ \ {f},
                     !.read = IF disk[f] = 0 THEN @ ELSE With(@, f, disk[f])]
  BY DEF ReadNext
<1>3. job' = [pc |-> "read", kind |-> job.kind, infos |-> job.infos,
              todo |-> job.todo \ {f}, hash |-> job.hash,
              read |-> IF disk[f] = 0 THEN job.read ELSE With(job.read, f, disk[f]),
              tokens |-> job.tokens, skipped |-> job.skipped, jobs |-> job.jobs]
  BY <1>1, <1>2 DEF Shape
<1>4. UploadSound' /\ Uploading' = {} /\ Readable' = Readable
  BY <1>1 DEF UploadSound, ManifestIsWhole, HashIdentifiesMaps, Chunks, Uploading,
     Readable
<1>5. Shape' /\ Fresh' /\ Chunks'
  BY <1>1, <1>3, <1>4 DEF Shape, Fresh, Chunks
<1>6. Steady'
  <2> SUFFICES ASSUME ~ changed PROVE Steady'
    BY <1>1 DEF Steady
  <2>1. disk[f] # 0 /\ f \in job.infos
    BY <1>1 DEF Steady, Readable
  <2>2. /\ job'.hash = job.hash
        /\ job'.read = [g \in DOMAIN job.read \cup {f} |->
                          IF g = f THEN disk[f] ELSE job.read[g]]
    BY <1>3, <2>1 DEF With
  <2>3. DOMAIN job'.read = job'.infos \ job'.todo
    <3>1. DOMAIN job'.read = DOMAIN job.read \cup {f}
      BY <2>2
    <3>2. DOMAIN job.read = job.infos \ job.todo /\ job.todo \subseteq job.infos
      BY <1>1 DEF Steady
    <3>3. job'.infos = job.infos /\ job'.todo = job.todo \ {f}
      BY <1>3
    <3>4. QED
      BY <2>1, <3>1, <3>2, <3>3
  <2>4. AsOnDisk(job'.read)
    BY <1>1, <2>2 DEF Steady, AsOnDisk
  <2>5. QED
    BY <1>1, <1>3, <1>4, <2>2, <2>3, <2>4 DEF Steady, AsOnDisk
<1>7. QED
  BY <1>4, <1>5, <1>6

\* The backend accepts the post or the manifest, or does not.
LEMMA SubmitSteps ==
    ASSUME UploadInv, PostMaps \/ SubmitManifest
    PROVE  UploadInv'
<1> USE DEF UploadInv
<1>1. /\ UNCHANGED <<disk, changed, blobs, flight>> /\ End /\ Uploading = {}
      /\ job.todo = {}
      /\ job.pc \in {"read", "chunk"}
      /\ accepted' \in {Accepting(IF job.pc = "read" THEN "post" ELSE "manifest"),
                        accepted}
  BY DEF PostMaps, SubmitManifest, Kept, Chunks
<1>2. Uploading' = {}
  BY <1>1 DEF Uploading
<1>3. Shape' /\ Fresh' /\ Chunks' /\ Steady'
  BY <1>1, <1>2, EndedJob DEF Shape, Fresh, Chunks, Steady
<1>4. CASE accepted' = accepted
  BY <1>1, <1>3, <1>4 DEF UploadSound, ManifestIsWhole, HashIdentifiesMaps
<1>5. CASE job.pc = "read" /\ accepted' = Accepting("post")
  <2>1. ManifestIsWhole'
    BY <1>5 DEF ManifestIsWhole, Accepting
  <2>2. HashIdentifiesMaps'
    BY <1>1, <1>5 DEF HashIdentifiesMaps, Accepting, Steady, AsOnDisk
  <2>3. QED
    BY <1>3, <2>1, <2>2 DEF UploadSound
<1>6. CASE job.pc = "chunk" /\ accepted' = Accepting("manifest")
  <2>1. UploadingFiles = {}
    BY <1>1 DEF UploadingFiles
  <2>2. ManifestIsWhole'
    BY <1>1, <1>6, <2>1 DEF ManifestIsWhole, Accepting, Chunks
  <2>3. HashIdentifiesMaps'
    BY <1>1, <1>6, <2>1 DEF HashIdentifiesMaps, Accepting, Steady, AsOnDisk, Chunks
  <2>4. QED
    BY <1>3, <2>2, <2>3 DEF UploadSound
<1>7. QED
  BY <1>1, <1>4, <1>5, <1>6

\* The tokens come, and none of them is put yet.
LEMMA PresignSteps ==
    ASSUME UploadInv, Presign
    PROVE  UploadInv'
<1> USE DEF UploadInv
<1>1. /\ UNCHANGED <<disk, changed, blobs, flight, accepted>> /\ job.pc = "presign"
  BY DEF Presign, Kept
<1>2. UploadSound' /\ Uploading' = {} /\ Readable' = Readable /\ Uploading = {}
  BY <1>1 DEF UploadSound, ManifestIsWhole, HashIdentifiesMaps, Chunks, Uploading,
     Readable
<1>3. CASE End
  BY <1>1, <1>2, <1>3, EndedJob DEF Shape, Fresh, Chunks, Steady
<1>4. ASSUME NEW tokens \in SUBSET job.infos,
             job' = [job EXCEPT !.pc = "chunk", !.todo = tokens, !.tokens = tokens]
      PROVE  UploadInv'
  <2>1. job' = [pc |-> "chunk", kind |-> job.kind, infos |-> job.infos,
              todo |-> tokens, hash |-> job.hash, read |-> job.read,
              tokens |-> tokens, skipped |-> job.skipped, jobs |-> job.jobs]
    BY <1>4 DEF Shape
  <2>2. Shape' /\ Fresh'
    BY <1>1, <1>2, <2>1 DEF Shape, Fresh
  <2>3. UploadingFiles' = {}
    BY <1>2 DEF UploadingFiles
  <2>4. Chunks'
    BY <1>1, <1>2, <2>1, <2>3 DEF Fresh, Chunks
  <2>5. Steady'
    BY <1>1, <1>2, <2>1 DEF Steady, AsOnDisk
  <2>6. QED
    BY <1>2, <2>2, <2>4, <2>5
<1>5. QED
  BY <1>3, <1>4 DEF Presign

\* The next chunk, when the one before is done.
LEMMA ChunkSteps ==
    ASSUME UploadInv, StartChunk
    PROVE  UploadInv'
<1> USE DEF UploadInv
<1>1. /\ UNCHANGED <<disk, changed, blobs, accepted>>
      /\ job.pc = "chunk" /\ Uploading = {}
  BY DEF StartChunk, Kept
<1>2. PICK chunk \in SUBSET job.todo :
          /\ job' = [job EXCEPT !.todo = @ \ chunk]
          /\ flight' = flight \cup [file : chunk, version : {0}, late : {FALSE}]
  BY DEF StartChunk
<1>3. job' = [pc |-> "chunk", kind |-> job.kind, infos |-> job.infos,
              todo |-> job.todo \ chunk, hash |-> job.hash, read |-> job.read,
              tokens |-> job.tokens, skipped |-> job.skipped, jobs |-> job.jobs]
  BY <1>1, <1>2 DEF Shape
<1>4. Uploading' = [file : chunk, version : {0}, late : {FALSE}]
  BY <1>1, <1>2 DEF Uploading
<1>5. UploadingFiles' = chunk /\ UploadingFiles = {}
  <2>1. ASSUME NEW f \in chunk PROVE f \in UploadingFiles'
    <3>1. [file |-> f, version |-> 0, late |-> FALSE] \in Uploading'
      BY <1>4
    <3>2. QED
      BY <3>1 DEF UploadingFiles
  <2>2. UploadingFiles' \subseteq chunk
    BY <1>4 DEF UploadingFiles
  <2>3. QED
    BY <1>1, <2>1, <2>2 DEF UploadingFiles
<1>6. Shape'
  <2>1. [file : chunk, version : {0}, late : {FALSE}] \subseteq Put
    <3>1. chunk \subseteq File
      BY DEF Shape
    <3> SUFFICES ASSUME NEW p \in [file : chunk, version : {0}, late : {FALSE}]
                 PROVE  p \in Put
      OBVIOUS
    <3>2. p = [file |-> p.file, version |-> p.version, late |-> p.late]
      OBVIOUS
    <3>3. p.file \in chunk /\ p.version = 0 /\ p.late = FALSE
      OBVIOUS
    <3>4. p.file \in File /\ p.version \in Nat
      BY <3>1, <3>3
    <3>5. p.late \in BOOLEAN
      BY <3>3, Zenon
    <3>6. QED
      BY <3>2, <3>4, <3>5, Zenon DEF Put
  <2>2. QED
    BY <1>1, <1>2, <1>3, <2>1 DEF Shape
<1>7. Fresh'
  BY <1>3 DEF Fresh
<1>8. Chunks'
  <2>1. \A p, q \in Uploading' : p.file = q.file => p = q
    <3>1. \A p \in Uploading' : p = [file |-> p.file, version |-> 0, late |-> FALSE]
      <4> TAKE p \in Uploading'
      <4>1. p \in [file : chunk, version : {0}, late : {FALSE}]
        BY <1>4
      <4>2. p = [file |-> p.file, version |-> p.version, late |-> p.late]
        BY <4>1
      <4>3. p.version = 0 /\ p.late = FALSE
        BY <4>1
      <4>4. QED
        BY <4>2, <4>3
    <3>2. QED
      BY <3>1
  <2>2. QED
    BY <1>1, <1>3, <1>5, <2>1 DEF Chunks
<1>9. Steady'
  BY <1>1, <1>3, <1>4 DEF Steady, AsOnDisk, Readable
<1>10. UploadSound'
  BY <1>1 DEF UploadSound, ManifestIsWhole, HashIdentifiesMaps
<1>11. QED
  BY <1>6, <1>7, <1>8, <1>9, <1>10

\* A file of the chunk is read, if it still can be.
LEMMA ReadForPutSteps ==
    ASSUME UploadInv, NEW p \in flight, ReadForPut(p)
    PROVE  UploadInv'
<1> USE DEF UploadInv
<1>1. /\ UNCHANGED <<disk, changed, blobs, accepted>> /\ p.version = 0
      /\ p \in Put /\ p.file \in File /\ disk[p.file] \in Nat
      /\ p = [file |-> p.file, version |-> p.version, late |-> p.late]
  BY DEF ReadForPut, Kept, Shape, Put
<1>2. UploadSound' /\ Readable' = Readable
  BY <1>1 DEF UploadSound, ManifestIsWhole, HashIdentifiesMaps, Readable
<1>3. CASE disk[p.file] # 0
  <2> DEFINE q == [p EXCEPT !.version = disk[p.file]]
  <2>1. /\ flight' = (flight \ {p}) \cup {q} /\ UNCHANGED job
        /\ q = [file |-> p.file, version |-> disk[p.file], late |-> p.late]
        /\ q \in Put /\ q.file = p.file /\ q.late = p.late
        /\ q.version = disk[p.file]
    BY <1>1, <1>3 DEF ReadForPut, Put
  <2> HIDE DEF q
  <2>2. Shape' /\ Fresh'
    BY <1>1, <2>1 DEF Shape, Fresh
  <2>3. CASE p.late
    <3>1. Uploading' = Uploading
      BY <2>1, <2>3 DEF Uploading
    <3>2. UploadingFiles' = UploadingFiles
      BY <3>1 DEF UploadingFiles
    <3>3. Chunks' /\ Steady'
      BY <1>1, <1>2, <2>1, <3>1, <3>2 DEF Chunks, Steady, AsOnDisk
    <3>4. QED
      BY <1>2, <2>2, <3>3
  <2>4. CASE ~ p.late
    <3>1. p \in Uploading /\ Uploading' = (Uploading \ {p}) \cup {q}
      BY <2>1, <2>4 DEF Uploading
    <3>2. UploadingFiles' = UploadingFiles
      BY <2>1, <3>1 DEF UploadingFiles
    <3>3. \A r, s \in Uploading' : r.file = s.file => r = s
      BY <2>1, <3>1 DEF Chunks
    <3>4. Chunks'
      BY <1>1, <2>1, <3>1, <3>2, <3>3 DEF Chunks
    <3>5. Steady'
      BY <1>1, <1>2, <2>1, <3>1 DEF Steady, AsOnDisk
    <3>6. QED
      BY <1>2, <2>2, <3>4, <3>5
  <2>5. QED
    BY <2>3, <2>4
<1>4. CASE disk[p.file] = 0
  <2>1. /\ flight' = flight \ {p}
        /\ job' = IF p.late THEN job ELSE [job EXCEPT !.skipped = @ \cup {p.file}]
    BY <1>4 DEF ReadForPut
  <2>2. CASE p.late
    <3>1. Uploading' = Uploading /\ job' = job
      BY <2>1, <2>2 DEF Uploading
    <3>2. UploadingFiles' = UploadingFiles
      BY <3>1 DEF UploadingFiles
    <3>3. Shape' /\ Fresh'
      BY <1>1, <2>1, <3>1 DEF Shape, Fresh
    <3>4. Chunks' /\ Steady'
      BY <1>1, <1>2, <3>1, <3>2 DEF Chunks, Steady, AsOnDisk
    <3>5. QED
      BY <1>2, <3>3, <3>4
  <2>3. CASE ~ p.late
    <3>1. p \in Uploading /\ Uploading' = Uploading \ {p} /\ job.pc = "chunk"
      BY <2>1, <2>3 DEF Uploading, Chunks
    <3>2. job' = [pc |-> "chunk", kind |-> job.kind, infos |-> job.infos,
                  todo |-> job.todo, hash |-> job.hash, read |-> job.read,
                  tokens |-> job.tokens, skipped |-> job.skipped \cup {p.file},
                  jobs |-> job.jobs]
      BY <2>1, <2>3, <3>1 DEF Shape
    <3>3. p.file \in UploadingFiles /\ UploadingFiles' = UploadingFiles \ {p.file}
      BY <3>1 DEF UploadingFiles, Chunks
    <3>4. Shape' /\ Fresh'
      <4>1. flight' \subseteq Put
        BY <2>1 DEF Shape
      <4>2. Shape'
        BY <1>1, <3>2, <4>1 DEF Shape
      <4>3. Fresh'
        BY <3>2 DEF Fresh
      <4>4. QED
        BY <4>2, <4>3
    <3>5. Chunks'
      BY <1>1, <3>1, <3>2, <3>3 DEF Chunks
    <3>6. Steady'
      BY <1>1, <1>2, <3>1, <3>2 DEF Steady, AsOnDisk
    <3>7. QED
      BY <1>2, <3>4, <3>5, <3>6
  <2>4. QED
    BY <2>2, <2>3
<1>5. QED
  BY <1>3, <1>4

\* A put ends; with the first that fails, the upload.
LEMMA PutSteps ==
    ASSUME UploadInv, NEW p \in flight, PutEnds(p)
    PROVE  UploadInv'
<1> USE DEF UploadInv
<1>1. /\ UNCHANGED <<disk, changed, accepted>> /\ p.version # 0
      /\ p \in Put /\ p.file \in File
  BY DEF PutEnds, Kept, Shape, Put
<1>2. blobs \subseteq blobs' /\ Readable' = Readable
  BY <1>1 DEF PutEnds, Readable
<1>3. UploadSound'
  BY <1>1, <1>2 DEF UploadSound, ManifestIsWhole, HashIdentifiesMaps
<1>4. CASE p.late
  <2>1. flight' = flight \ {p} /\ job' = job
    BY <1>4 DEF PutEnds
  <2>2. Uploading' = Uploading
    BY <1>4, <2>1 DEF Uploading
  <2>3. UploadingFiles' = UploadingFiles
    BY <2>2 DEF UploadingFiles
  <2>4. Shape' /\ Fresh'
    BY <1>1, <2>1 DEF Shape, Fresh
  <2>5. Chunks' /\ Steady'
    BY <1>1, <1>2, <2>1, <2>2, <2>3 DEF Chunks, Steady, AsOnDisk
  <2>6. QED
    BY <1>3, <2>4, <2>5
<1>5. CASE /\ ~ p.late
           /\ blobs' = blobs \cup {[file |-> p.file, version |-> p.version]}
           /\ flight' = flight \ {p}
           /\ job' = [job EXCEPT !.read = With(@, p.file, p.version)]
  <2>1. p \in Uploading /\ Uploading' = Uploading \ {p} /\ job.pc = "chunk"
    BY <1>5 DEF Uploading, Chunks
  <2>2. job' = [pc |-> "chunk", kind |-> job.kind, infos |-> job.infos,
                todo |-> job.todo, hash |-> job.hash,
                read |-> With(job.read, p.file, p.version),
                tokens |-> job.tokens, skipped |-> job.skipped, jobs |-> job.jobs]
    BY <1>5, <2>1 DEF Shape
  <2>3. p.file \in UploadingFiles /\ UploadingFiles' = UploadingFiles \ {p.file}
    BY <2>1 DEF UploadingFiles, Chunks
  <2>4. /\ DOMAIN job'.read = DOMAIN job.read \cup {p.file}
        /\ \A f \in DOMAIN job'.read :
               job'.read[f] = IF f = p.file THEN p.version ELSE job.read[f]
    <3>1. job'.read = [g \in DOMAIN job.read \cup {p.file} |->
                          IF g = p.file THEN p.version ELSE job.read[g]]
      BY <2>2 DEF With
    <3>2. QED
      BY <3>1
  <2>5. Shape' /\ Fresh'
    BY <1>1, <1>5, <2>2 DEF Shape, Fresh
  <2>6. Chunks'
    <3>1. \A f \in DOMAIN job'.read :
              [file |-> f, version |-> job'.read[f]] \in blobs'
      BY <1>5, <2>1, <2>4 DEF Chunks
    <3>2. \A r, s \in Uploading' : r.file = s.file => r = s
      BY <2>1 DEF Chunks
    <3>3. /\ job'.tokens = job.tokens /\ job'.todo = job.todo
          /\ job'.skipped = job.skipped /\ job'.pc = "chunk"
      BY <2>2
    <3>4. QED
      BY <2>1, <2>3, <2>4, <3>1, <3>2, <3>3 DEF Chunks
  <2>7. Steady'
    <3> SUFFICES ASSUME ~ changed PROVE Steady'
      BY <1>1 DEF Steady
    <3>1. p.version = disk[p.file]
      BY <1>1, <2>1 DEF Steady
    <3>2. AsOnDisk(job'.read)
      BY <2>1, <2>4, <3>1 DEF Steady, AsOnDisk
    <3>3. /\ job'.infos = job.infos /\ job'.hash = job.hash
          /\ job'.tokens = job.tokens /\ job'.pc = "chunk"
      BY <2>2
    <3>4. QED
      BY <1>1, <1>2, <2>1, <3>2, <3>3 DEF Steady, AsOnDisk
  <2>8. QED
    BY <1>3, <2>5, <2>6, <2>7
<1>6. CASE ~ p.late /\ flight' = GiveUp(p) /\ End /\ UNCHANGED blobs
  <2>1. \A q \in flight' : q \in Put /\ q.late
    BY <1>6 DEF GiveUp, Put, Shape
  <2>2. Uploading' = {} /\ flight' \subseteq Put
    BY <2>1 DEF Uploading
  <2>3. Shape' /\ Fresh' /\ Chunks' /\ Steady'
    BY <1>1, <1>6, <2>2, EndedJob DEF Shape, Fresh, Chunks, Steady
  <2>4. QED
    BY <1>3, <2>3
<1>7. QED
  BY <1>4, <1>5, <1>6 DEF PutEnds

\* Each action preserves the invariant.
LEMMA StepUploadInv == UploadInv /\ [UploadNext]_uploadVars => UploadInv'
<1> SUFFICES ASSUME UploadInv, [UploadNext]_uploadVars
             PROVE  UploadInv'
  OBVIOUS
<1>1. CASE UNCHANGED uploadVars
  BY <1>1 DEF uploadVars, UploadInv, Shape, Fresh, Chunks, Steady, Uploading,
     UploadingFiles, Readable, AsOnDisk, UploadSound, ManifestIsWhole,
     HashIdentifiesMaps
<1>2. QED
  BY <1>1, BuildSteps, BeginSteps, DiscoverSteps, HashSteps, ChooseSteps, ReadSteps,
     SubmitSteps, PresignSteps, ChunkSteps, ReadForPutSteps, PutSteps, Zenon DEF UploadNext

\* It holds at the start.
LEMMA InitUploadInv == UploadInit => UploadInv
<1> SUFFICES ASSUME UploadInit PROVE UploadInv
  OBVIOUS
<1>1. DOMAIN Empty = {} /\ Uploading = {}
  BY DEF UploadInit, Empty, Uploading
<1>2. disk \in [File -> Nat]
  BY DEF UploadInit
<1>3. QED
  BY <1>1, <1>2 DEF UploadInit, NoJob, UploadInv, Shape, Fresh, Chunks, Steady,
     UploadSound, ManifestIsWhole, HashIdentifiesMaps

\* A manifest the backend accepted lists every map that had a token and could
\* be read, with the version that is in the blob store, and unless a map has
\* changed meanwhile the build hash was taken of the files that are accepted
\* under it.
THEOREM UploadsStaySound == UploadSpec => []UploadSound
<1>1. UploadInv => UploadSound
  BY DEF UploadInv
<1>2. QED
  BY <1>1, InitUploadInv, StepUploadInv, PTL DEF UploadSpec

=============================================================================
