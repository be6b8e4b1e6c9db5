------------------------ MODULE ExportPipeline_proofs ------------------------
(***************************************************************************)
(* Type correctness and safety of the exporter around its circuit breaker, *)
(* for every set of batches, every buffer limit and every setting of the   *)
(* breaker.                                                                *)
(*                                                                         *)
(* The breaker's part is one lemma: every step of the pipeline is, for the *)
(* breaker, one of its operations (StepIsBreakerOp), and those preserve    *)
(* BreakerInv whoever calls them (BreakerOpPreserves).                     *)
(*                                                                         *)
(* The accounting needs sums over sets of batches.  Spans() unfolds to a   *)
(* function on the subsets of a finite set; that this function exists, and *)
(* what it does when a batch is added, is proved by a minimal              *)
(* counterexample, the strict subset order on finite sets being            *)
(* well-founded.                                                           *)
(***************************************************************************)
EXTENDS ExportPipeline, FiniteSetTheorems, SequenceTheorems, TLAPS

-----------------------------------------------------------------------------
(* What every operation of the breaker preserves, whoever calls it. *)

BreakerInv ==
    /\ BreakerTypeOK
    /\ TimerArmedIffOpen
    /\ OutageAnnouncedOnce
    /\ ClosedIsFresh

BreakerOp ==
    \/ Admit
    \/ Refuse
    \/ RecordSuccess
    \/ RecordFailure
    \/ ProbeTimerFires
    \/ ResetForKeyRotation
    \/ UNCHANGED breakerVars

\* The next delay of nextBackoffMs() stays between INITIAL_BACKOFF_MS and
\* MAX_BACKOFF_MS and is longer than the present one, unless it is the maximum.
LEMMA NextBackoffInRange ==
    ASSUME BreakerTypeOK
    PROVE  /\ NextBackoff \in InitialBackoff .. MaxBackoff
           /\ NextBackoff >= currentBackoff
           /\ NextBackoff > currentBackoff \/ NextBackoff = MaxBackoff
<1>1. /\ InitialBackoff \in Nat \ {0}
      /\ BackoffFactor \in Nat \ {0, 1}
      /\ MaxBackoff \in Nat
  BY BreakerConstants
<1>2. /\ currentBackoff \in Nat
      /\ InitialBackoff <= currentBackoff
      /\ currentBackoff <= MaxBackoff
  BY <1>1 DEF BreakerTypeOK
<1>3. \A c, f \in Nat : c > 0 /\ f > 1 => c * f \in Nat /\ c * f > c
  OBVIOUS
<1> DEFINE grown == currentBackoff * BackoffFactor
<1>4. grown \in Nat /\ grown > currentBackoff
  BY <1>1, <1>2, <1>3
<1>5. NextBackoff = IF grown <= MaxBackoff THEN grown ELSE MaxBackoff
  BY DEF NextBackoff
<1> HIDE DEF grown
<1>6. QED
  BY <1>1, <1>2, <1>4, <1>5

\* The two flags stay Boolean under every operation.
LEMMA FlagsTyped ==
    ASSUME BreakerTypeOK, BreakerOp
    PROVE  halfOpenProbeInFlight' \in BOOLEAN /\ degraded' \in BOOLEAN
BY Zenon DEF BreakerTypeOK, BreakerOp, Admit, Refuse, RecordSuccess,
   RecordFailure, ProbeTimerFires, ResetForKeyRotation, breakerVars,
   TransitionToOpen, TransitionToClosed, ReopenAfterProbe

\* After an operation the circuit is as it was, or it took one of the
\* transitions of the breaker.  The operations of each kind together:
\* nothing the invariant reads changed but the permit, the failure count
\* below the threshold or the generation ...
Quiet ==
    /\ UNCHANGED <<circuit, currentBackoff, pendingTimer, outagesAnnounced,
                   degraded>>
    /\ circuit = "CLOSED" => ~halfOpenProbeInFlight'
    /\ consecutiveFailures' \in Nat
    /\ circuit = "CLOSED" => consecutiveFailures' < FailureThreshold
    /\ generation' \in Nat

\* ... the first trip ...
Opening ==
    /\ circuit = "CLOSED"
    /\ TransitionToOpen
    /\ consecutiveFailures' \in Nat

\* ... a failed probe ...
Reopening ==
    /\ circuit = "HALF_OPEN"
    /\ ReopenAfterProbe

\* ... the timer ...
Probing ==
    /\ circuit = "OPEN"
    /\ circuit' = "HALF_OPEN"
    /\ pendingTimer' = NoTimer
    /\ UNCHANGED <<consecutiveFailures, currentBackoff, generation,
                   outagesAnnounced, degraded>>

\* ... and the end of the outage.
Closing ==
    /\ circuit # "CLOSED"
    /\ TransitionToClosed
    /\ generation' \in Nat

\* Every operation is of one of the five kinds.
LEMMA OpKinds ==
    ASSUME BreakerInv, BreakerOp
    PROVE  Quiet \/ Opening \/ Reopening \/ Probing \/ Closing
<1>1. FailureThreshold \in Nat \ {0}
  BY BreakerConstants
<1>2. CASE Admit
  BY <1>2 DEF BreakerInv, BreakerTypeOK, ClosedIsFresh, Admit, Quiet
<1>3. CASE Refuse \/ UNCHANGED breakerVars
  BY <1>3 DEF BreakerInv, BreakerTypeOK, ClosedIsFresh, Refuse, breakerVars, Quiet
<1>4. CASE RecordSuccess
  BY <1>1, <1>4
     DEF BreakerInv, BreakerTypeOK, ClosedIsFresh, RecordSuccess, Quiet, Closing
<1>5. CASE RecordFailure
  BY <1>1, <1>5
     DEF BreakerInv, BreakerTypeOK, ClosedIsFresh, RecordFailure, Quiet,
         Opening, Reopening, breakerVars
<1>6. CASE ProbeTimerFires
  <2>1. circuit = "OPEN"
    BY <1>6 DEF BreakerInv, TimerArmedIffOpen, ProbeTimerFires
  <2>2. QED
    BY <1>6, <2>1 DEF ProbeTimerFires, Probing
<1>7. CASE ResetForKeyRotation
  <2>1. generation' \in Nat
    BY <1>7 DEF BreakerInv, BreakerTypeOK, ResetForKeyRotation
  <2>2. CASE circuit # "CLOSED"
    BY <1>7, <2>1, <2>2 DEF ResetForKeyRotation, Closing
  <2>3. CASE circuit = "CLOSED"
    BY <1>1, <1>7, <2>1, <2>3
       DEF BreakerInv, TimerArmedIffOpen, ClosedIsFresh, ResetForKeyRotation,
           Quiet
  <2>4. QED
    BY <2>2, <2>3
<1>8. QED
  BY <1>2, <1>3, <1>4, <1>5, <1>6, <1>7 DEF BreakerOp

\* Every operation of the breaker, in whatever state it is called, keeps the
\* timer armed exactly while OPEN, the outage announced exactly once and a
\* closed circuit fresh.
LEMMA BreakerOpPreserves ==
    ASSUME BreakerInv, BreakerOp
    PROVE  BreakerInv'
<1>1. BreakerTypeOK /\ TimerArmedIffOpen /\ OutageAnnouncedOnce /\ ClosedIsFresh
  BY DEF BreakerInv
<1>2. /\ FailureThreshold \in Nat \ {0}
      /\ InitialBackoff \in Nat \ {0}
      /\ MaxBackoff \in Nat
      /\ InitialBackoff <= MaxBackoff
  BY BreakerConstants
<1>3. halfOpenProbeInFlight' \in BOOLEAN /\ degraded' \in BOOLEAN
  BY <1>1, FlagsTyped
<1>4. Quiet \/ Opening \/ Reopening \/ Probing \/ Closing
  BY OpKinds
<1>5. NextBackoff \in InitialBackoff .. MaxBackoff
  BY <1>1, NextBackoffInRange
<1>6. BreakerTypeOK'
  <2>1. /\ circuit' \in CircuitState
        /\ consecutiveFailures' \in Nat
        /\ generation' \in Nat
        /\ outagesAnnounced' \in Int
    BY <1>1, <1>4
       DEF BreakerTypeOK, CircuitState, Quiet, Opening, Reopening, Probing,
           Closing, TransitionToOpen, ReopenAfterProbe, TransitionToClosed
  <2>2. /\ currentBackoff' \in InitialBackoff .. MaxBackoff
        /\ pendingTimer' \in Nat
    BY <1>1, <1>2, <1>4, <1>5
       DEF BreakerTypeOK, NoTimer, Quiet, Opening, Reopening, Probing,
           Closing, TransitionToOpen, ReopenAfterProbe, TransitionToClosed
  <2>3. QED
    BY <1>3, <2>1, <2>2, Zenon DEF BreakerTypeOK
<1>7. TimerArmedIffOpen'
  BY <1>1, <1>4
     DEF TimerArmedIffOpen, Quiet, Opening, Reopening, Probing, Closing,
         TransitionToOpen, ReopenAfterProbe, TransitionToClosed
<1>8. OutageAnnouncedOnce'
  BY <1>1, <1>4
     DEF OutageAnnouncedOnce, Quiet, Opening, Reopening, Probing, Closing,
         TransitionToOpen, ReopenAfterProbe, TransitionToClosed
<1>9. ClosedIsFresh'
  BY <1>1, <1>2, <1>4
     DEF ClosedIsFresh, Quiet, Opening, Reopening, Probing, Closing,
         TransitionToOpen, ReopenAfterProbe, TransitionToClosed
<1>10. QED
  BY <1>6, <1>7, <1>8, <1>9 DEF BreakerInv

-----------------------------------------------------------------------------
(* The exporter around it. *)

\* Each step of the pipeline is one operation of the breaker or leaves it alone.
LEMMA StepIsBreakerOp ==
    ASSUME [Next]_vars
    PROVE  BreakerOp
BY Zenon DEF Next, vars, BreakerOp, ExportBuffered, ExportRefused, ExportIssued,
   EvictOldest, FlushRefused, FlushIssued, ExportSucceeds, ExportFails,
   StaleAnswer, ProbeTimer, SetConfiguredKey, ResolveAnonymousKey, ClaimKey,
   CoreShutsDown, ForceFlush, ShutdownWithKey, ShutdownWithoutKey

\* The exporter's own part of the type invariant.
PipelineTypeOK ==
    /\ keySource \in KeySources
    /\ apiKey \in 0 .. MaxKey
    /\ notified \in BOOLEAN
    /\ offered \in SUBSET Batch
    /\ pendingBatches \in Seq(Batch)
    /\ pendingSpanCount \in Int
    /\ flushQueue \in Seq(Batch)
    /\ issuing \in SUBSET Batch
    /\ delegateKey \in 0 .. MaxKey
    /\ inFlight \in SUBSET Export
    /\ shut \in BOOLEAN
    /\ callbacks \in [Batch -> Nat]
    /\ tracesExported \in Int
    /\ tracesDropped \in Int
    /\ straggled \in BOOLEAN
    /\ coreStopped \in BOOLEAN

\* The type invariant is that of the breaker and that of the exporter.
LEMMA TypeOKSplit == TypeOK <=> BreakerTypeOK /\ PipelineTypeOK
BY DEF TypeOK, PipelineTypeOK

\* Dropping a batch keeps the counters and the callbacks typed.
LEMMA DropBatchTyped ==
    ASSUME PipelineTypeOK, NEW b \in Batch, DropBatch(b)
    PROVE  tracesDropped' \in Int /\ callbacks' \in [Batch -> Nat]
BY PipelineConstants DEF PipelineTypeOK, DropBatch

\* Issuing a batch through a delegate keeps the exports and the counter typed.
LEMMA IssueBatchTyped ==
    ASSUME TypeOK, NEW b \in Batch, IssueBatch(b), delegateKey' \in 0 .. MaxKey
    PROVE  inFlight' \in SUBSET Export /\ tracesExported' \in Int
<1>1. [batch |-> b, generation |-> generation, key |-> delegateKey',
       probe |-> circuit = "HALF_OPEN"] \in Export
  BY DEF TypeOK, BreakerTypeOK, Export
<1>2. inFlight' \in SUBSET Export
  BY <1>1 DEF TypeOK, IssueBatch
<1>3. tracesExported' \in Int
  BY PipelineConstants DEF TypeOK, IssueBatch
<1>4. QED
  BY <1>2, <1>3

\* Taking the buffer over into the flush loop.
LEMMA StartFlushTyped ==
    ASSUME PipelineTypeOK, StartFlush, apiKey' \in 0 .. MaxKey
    PROVE  /\ flushQueue' \in Seq(Batch)
           /\ issuing' \in SUBSET Batch
           /\ pendingBatches' \in Seq(Batch)
           /\ pendingSpanCount' \in Int
           /\ delegateKey' \in 0 .. MaxKey
BY DEF PipelineTypeOK, StartFlush, EnsureDelegate

\* The completion callback.
LEMMA AnsweredTyped ==
    ASSUME PipelineTypeOK, NEW e \in inFlight, Answered(e)
    PROVE  PipelineTypeOK'
<1>1. e.batch \in Batch
  BY DEF PipelineTypeOK, Export
<1>2. inFlight' \in SUBSET Export /\ callbacks' \in [Batch -> Nat]
  BY <1>1 DEF PipelineTypeOK, Answered
<1>3. QED
  BY <1>2, Zenon DEF PipelineTypeOK, Answered

\* One step per action: the exporter's state stays typed.
LEMMA PipelineStepTyped ==
    ASSUME TypeOK, Next
    PROVE  PipelineTypeOK'
<1>1. PipelineTypeOK
  BY TypeOKSplit
<1>2. ASSUME NEW b \in Batch, ExportBuffered(b)
      PROVE  PipelineTypeOK'
  <2>1. /\ offered' \in SUBSET Batch
        /\ pendingBatches' \in Seq(Batch)
        /\ pendingSpanCount' \in Int
    BY <1>1, <1>2, PipelineConstants DEF PipelineTypeOK, ExportBuffered, Offer
  <2>2. QED
    BY <1>1, <1>2, <2>1, Zenon DEF PipelineTypeOK, ExportBuffered
<1>3. ASSUME NEW b \in Batch, ExportRefused(b)
      PROVE  PipelineTypeOK'
  <2>1. offered' \in SUBSET Batch
    BY <1>1, <1>3 DEF PipelineTypeOK, ExportRefused, Offer
  <2>2. tracesDropped' \in Int /\ callbacks' \in [Batch -> Nat]
    BY <1>1, <1>3, DropBatchTyped DEF ExportRefused
  <2>3. QED
    BY <1>1, <1>3, <2>1, <2>2, Zenon DEF PipelineTypeOK, ExportRefused
<1>4. ASSUME NEW b \in Batch, ExportIssued(b)
      PROVE  PipelineTypeOK'
  <2>1. offered' \in SUBSET Batch
    BY <1>1, <1>4 DEF PipelineTypeOK, ExportIssued, Offer
  <2>2. delegateKey' \in 0 .. MaxKey /\ apiKey' = apiKey
    BY <1>1, <1>4, Zenon DEF PipelineTypeOK, ExportIssued, EnsureDelegate
  <2>3. inFlight' \in SUBSET Export /\ tracesExported' \in Int
    BY <1>4, <2>2, IssueBatchTyped DEF ExportIssued
  <2>4. QED
    BY <1>1, <1>4, <2>1, <2>2, <2>3, Zenon DEF PipelineTypeOK, ExportIssued
<1>5. ASSUME EvictOldest
      PROVE  PipelineTypeOK'
  <2>1. pendingBatches # <<>>
    BY <1>1, <1>5 DEF PipelineTypeOK, EvictOldest, Evicting
  <2>2. Head(pendingBatches) \in Batch /\ Tail(pendingBatches) \in Seq(Batch)
    BY <1>1, <2>1 DEF PipelineTypeOK
  <2>3. tracesDropped' \in Int /\ callbacks' \in [Batch -> Nat]
    BY <1>1, <1>5, <2>2, DropBatchTyped DEF EvictOldest
  <2>4. pendingSpanCount' \in Int
    BY <1>1, <1>5, <2>2, PipelineConstants DEF PipelineTypeOK, EvictOldest
  <2>5. QED
    BY <1>1, <1>5, <2>2, <2>3, <2>4, Zenon DEF PipelineTypeOK, EvictOldest
<1>6. ASSUME Flushing
      PROVE  Head(flushQueue) \in Batch /\ Tail(flushQueue) \in Seq(Batch)
  BY <1>1, <1>6 DEF PipelineTypeOK, Flushing
<1>7. ASSUME FlushRefused
      PROVE  PipelineTypeOK'
  <2>1. Head(flushQueue) \in Batch /\ Tail(flushQueue) \in Seq(Batch)
    BY <1>6, <1>7 DEF FlushRefused
  <2>2. tracesDropped' \in Int /\ callbacks' \in [Batch -> Nat]
    BY <1>1, <1>7, <2>1, DropBatchTyped DEF FlushRefused
  <2>3. QED
    BY <1>1, <1>7, <2>1, <2>2, Zenon DEF PipelineTypeOK, FlushRefused
<1>8. ASSUME FlushIssued
      PROVE  PipelineTypeOK'
  <2>1. Head(flushQueue) \in Batch /\ Tail(flushQueue) \in Seq(Batch)
    BY <1>6, <1>8 DEF FlushIssued
  <2>2. delegateKey' \in 0 .. MaxKey
    BY <1>1, <1>8, Zenon DEF PipelineTypeOK, FlushIssued
  <2>3. inFlight' \in SUBSET Export /\ tracesExported' \in Int
    BY <1>8, <2>1, <2>2, IssueBatchTyped DEF FlushIssued
  <2>4. {Head(flushQueue)} \in SUBSET Batch
    BY <2>1
  <2>5. QED
    BY <1>1, <1>8, <2>1, <2>2, <2>3, <2>4, Zenon DEF PipelineTypeOK, FlushIssued
<1>9. ASSUME NEW e \in inFlight,
             ExportSucceeds(e) \/ ExportFails(e) \/ StaleAnswer(e)
      PROVE  PipelineTypeOK'
  BY <1>1, <1>9, AnsweredTyped DEF ExportSucceeds, ExportFails, StaleAnswer
<1>10. ASSUME ProbeTimer
       PROVE  PipelineTypeOK'
  BY <1>1, <1>10, Zenon DEF PipelineTypeOK, ProbeTimer, pipelineVars
<1>11. 1 \in 0 .. MaxKey
  BY PipelineConstants
<1>12. ASSUME SetConfiguredKey
       PROVE  PipelineTypeOK'
  BY <1>1, <1>11, <1>12, Zenon DEF PipelineTypeOK, SetConfiguredKey
<1>13. ASSUME ResolveAnonymousKey
       PROVE  PipelineTypeOK'
  <2>1. apiKey' \in 0 .. MaxKey /\ StartFlush
    BY <1>11, <1>13, Zenon DEF ResolveAnonymousKey
  <2>2. QED
    BY <1>1, <1>13, <2>1, StartFlushTyped, Zenon
       DEF PipelineTypeOK, ResolveAnonymousKey
<1>14. ASSUME ClaimKey
       PROVE  PipelineTypeOK'
  <2>1. apiKey' \in 0 .. MaxKey /\ StartFlush
    BY <1>1, <1>14, PipelineConstants DEF PipelineTypeOK, ClaimKey
  <2>2. QED
    BY <1>1, <1>14, <2>1, StartFlushTyped, Zenon DEF PipelineTypeOK, ClaimKey
<1>15. ASSUME ForceFlush \/ ShutdownWithKey
       PROVE  PipelineTypeOK'
  <2>1. apiKey' \in 0 .. MaxKey /\ StartFlush
    BY <1>1, <1>15, Zenon DEF PipelineTypeOK, ForceFlush, ShutdownWithKey
  <2>2. CASE ForceFlush
    BY <1>1, <2>1, <2>2, StartFlushTyped, Zenon DEF PipelineTypeOK, ForceFlush
  <2>3. CASE ShutdownWithKey
    BY <1>1, <2>1, <2>3, StartFlushTyped, Zenon
       DEF PipelineTypeOK, ShutdownWithKey
  <2>4. QED
    BY <1>15, <2>2, <2>3
<1>16. ASSUME ShutdownWithoutKey
       PROVE  PipelineTypeOK'
  <2>1. /\ tracesDropped' \in Int
        /\ pendingBatches' \in Seq(Batch)
        /\ pendingSpanCount' \in Int
    BY <1>1, <1>16 DEF PipelineTypeOK, ShutdownWithoutKey
  <2>2. callbacks' \in [Batch -> Nat]
    BY <1>1, <1>16 DEF PipelineTypeOK, ShutdownWithoutKey
  <2>3. QED
    BY <1>1, <1>16, <2>1, <2>2, Zenon DEF PipelineTypeOK, ShutdownWithoutKey
<1>17. ASSUME CoreShutsDown
       PROVE  PipelineTypeOK'
  <2>1. coreStopped' \in BOOLEAN
    BY <1>17, Zenon DEF CoreShutsDown
  <2>2. QED
    BY <1>1, <1>17, <2>1, Zenon DEF PipelineTypeOK, CoreShutsDown, pipelineVars
<1>18. QED
  BY <1>2, <1>3, <1>4, <1>5, <1>7, <1>8, <1>9, <1>10, <1>12, <1>13, <1>14,
     <1>15, <1>16, <1>17, Zenon DEF Next

-----------------------------------------------------------------------------
(* The breaker in the pipeline. *)

PipelineInv == TypeOK /\ BreakerInv

\* The invariant holds initially.
LEMMA InitPipelineInv == Init => PipelineInv
<1> SUFFICES ASSUME Init
             PROVE  PipelineInv
  OBVIOUS
<1>1. BreakerTypeOK
  <2>1. InitialBackoff \in InitialBackoff .. MaxBackoff
    BY BreakerConstants
  <2>2. halfOpenProbeInFlight \in BOOLEAN /\ degraded \in BOOLEAN
    BY Zenon DEF Init, BreakerInit
  <2>3. /\ circuit \in CircuitState
        /\ consecutiveFailures \in Nat
        /\ pendingTimer \in Nat
        /\ generation \in Nat
        /\ outagesAnnounced \in Int
    BY DEF Init, BreakerInit, CircuitState, NoTimer
  <2>4. QED
    BY <2>1, <2>2, <2>3, Zenon DEF Init, BreakerInit, BreakerTypeOK
<1>2. PipelineTypeOK
  <2>1. notified \in BOOLEAN /\ shut \in BOOLEAN
    BY Zenon DEF Init
  <2>2. /\ apiKey \in 0 .. MaxKey
        /\ delegateKey \in 0 .. MaxKey
        /\ pendingSpanCount \in Int
        /\ tracesExported \in Int
        /\ tracesDropped \in Int
    BY PipelineConstants DEF Init, API_KEY_PENDING
  <2>3. /\ pendingBatches \in Seq(Batch)
        /\ flushQueue \in Seq(Batch)
        /\ callbacks \in [Batch -> Nat]
    BY DEF Init
  <2>4. offered \in SUBSET Batch /\ issuing \in SUBSET Batch
        /\ inFlight \in SUBSET Export
    BY DEF Init
  <2>5. QED
    BY <2>1, <2>2, <2>3, <2>4, Zenon DEF Init, PipelineTypeOK
<1>3. TimerArmedIffOpen /\ OutageAnnouncedOnce /\ ClosedIsFresh
  BY BreakerConstants
     DEF Init, BreakerInit, TimerArmedIffOpen, OutageAnnouncedOnce,
         ClosedIsFresh, NoTimer
<1>4. QED
  BY <1>1, <1>2, <1>3, TypeOKSplit DEF PipelineInv, BreakerInv

\* Each step preserves it: the breaker by its own lemma, the exporter by types.
LEMMA StepPipelineInv == PipelineInv /\ [Next]_vars => PipelineInv'
<1> SUFFICES ASSUME PipelineInv, [Next]_vars
             PROVE  PipelineInv'
  OBVIOUS
<1>1. BreakerInv'
  BY StepIsBreakerOp, BreakerOpPreserves DEF PipelineInv
<1>2. PipelineTypeOK'
  <2>1. CASE Next
    BY <2>1, PipelineStepTyped DEF PipelineInv
  <2>2. CASE UNCHANGED vars
    BY <2>2, TypeOKSplit, Zenon DEF PipelineInv, PipelineTypeOK, vars, pipelineVars
  <2>3. QED
    BY <2>1, <2>2
<1>3. TypeOK'
  <2>1. BreakerTypeOK'
    BY <1>1 DEF BreakerInv
  <2>2. QED
    BY <1>2, <2>1 DEF TypeOK, PipelineTypeOK
<1>4. QED
  BY <1>1, <1>3 DEF PipelineInv

\* It holds in every state of every behaviour.
LEMMA PipelineInvariant == Spec => []PipelineInv
BY InitPipelineInv, StepPipelineInv, PTL DEF Spec

\* The state of exporter and breaker stays within its types, in particular
\* the delay between INITIAL_BACKOFF_MS and MAX_BACKOFF_MS, however often
\* probes fail.
THEOREM TypeCorrect == Spec => []TypeOK
<1>1. PipelineInv => TypeOK
  BY DEF PipelineInv
<1>2. QED
  BY <1>1, PipelineInvariant, PTL

\* The breaker is never OPEN without its probe timer, and no timer survives
\* the outage it was armed for: recovery, key rotation, stale answers and
\* flushes may be interleaved in any way.
THEOREM OpenHasTimer == Spec => []TimerArmedIffOpen
<1>1. PipelineInv => TimerArmedIffOpen
  BY DEF PipelineInv, BreakerInv
<1>2. QED
  BY <1>1, PipelineInvariant, PTL

\* Opened and closed events alternate, and "export-circuit" is a degradation
\* source exactly during an outage.
THEOREM OutagesAlternate == Spec => []OutageAnnouncedOnce
<1>1. PipelineInv => OutageAnnouncedOnce
  BY DEF PipelineInv, BreakerInv
<1>2. QED
  BY <1>1, PipelineInvariant, PTL

\* Nothing of an outage is left over once the circuit is CLOSED.
THEOREM ClosedForgets == Spec => []ClosedIsFresh
<1>1. PipelineInv => ClosedIsFresh
  BY DEF PipelineInv, BreakerInv
<1>2. QED
  BY <1>1, PipelineInvariant, PTL

\* All of it together: the breaker is consistent whatever the exporter, the
\* delegate and the lifecycle do.
THEOREM BreakerStaysConsistent == Spec => []BreakerConsistent
<1>1. PipelineInv => BreakerConsistent
  BY DEF PipelineInv, BreakerInv, BreakerConsistent
<1>2. QED
  BY <1>1, PipelineInvariant, PTL

-----------------------------------------------------------------------------
(* Keys and generations. *)

\* CurrentGenerationUsesCurrentKey is not inductive: it says nothing of the
\* generation a key belongs to, nor of the delegate a running flush loop goes
\* on using.  The generation counts the rotations, so a key and the generation
\* of its exports determine each other.
KeyInv ==
    /\ generation = (IF apiKey = API_KEY_PENDING THEN 0 ELSE apiKey - 1)
    /\ apiKey = API_KEY_PENDING => flushQueue = <<>> /\ inFlight = {}
    /\ ~notified /\ keySource # "configured_dev" => apiKey \in {API_KEY_PENDING, 1}
    /\ Flushing => delegateKey = apiKey
    /\ \A e \in inFlight : e.key = e.generation + 1

\* An export issued with the current key under the current generation.
LEMMA IssueBatchKeyed ==
    ASSUME TypeOK, KeyInv, NEW b \in Batch, IssueBatch(b),
           delegateKey' = apiKey, apiKey # API_KEY_PENDING
    PROVE  \A e \in inFlight' : e.key = e.generation + 1
<1> DEFINE new == [batch |-> b, generation |-> generation, key |-> delegateKey',
                   probe |-> circuit = "HALF_OPEN"]
<1>1. inFlight' = inFlight \cup {new}
  BY DEF IssueBatch
<1>2. new.key = new.generation + 1
  BY DEF TypeOK, KeyInv, API_KEY_PENDING
<1> HIDE DEF new
<1>3. QED
  BY <1>1, <1>2 DEF KeyInv

\* The operations of the breaker the exporter calls leave the generation alone.
LEMMA GenerationKept ==
    ASSUME Admit \/ Refuse \/ RecordSuccess \/ RecordFailure \/ ProbeTimerFires
           \/ UNCHANGED breakerVars
    PROVE  generation' = generation
BY DEF Admit, Refuse, RecordSuccess, RecordFailure, ProbeTimerFires,
   ReopenAfterProbe, TransitionToOpen, breakerVars

\* One step per action: exports and delegate stay on the current key.
LEMMA StepKeyInv == PipelineInv /\ KeyInv /\ [Next]_vars => KeyInv'
<1> SUFFICES ASSUME PipelineInv, KeyInv, [Next]_vars
             PROVE  KeyInv'
  OBVIOUS
<1>1. TypeOK
  BY DEF PipelineInv
<1>2. ASSUME NEW b \in Batch, ExportBuffered(b)
      PROVE  KeyInv'
  BY <1>2, GenerationKept DEF KeyInv, ExportBuffered, Flushing
<1>3. ASSUME NEW b \in Batch, ExportRefused(b)
      PROVE  KeyInv'
  BY <1>3, GenerationKept DEF KeyInv, ExportRefused, Flushing
<1>4. ASSUME NEW b \in Batch, ExportIssued(b)
      PROVE  KeyInv'
  <2>1. /\ UNCHANGED <<keySource, notified, apiKey, flushQueue, generation>>
        /\ delegateKey' = apiKey
        /\ apiKey # API_KEY_PENDING
        /\ IssueBatch(b)
    BY <1>4, GenerationKept DEF ExportIssued, EnsureDelegate
  <2>2. \A e \in inFlight' : e.key = e.generation + 1
    BY <1>1, <2>1, IssueBatchKeyed
  <2>3. QED
    BY <2>1, <2>2 DEF KeyInv, Flushing
<1>5. ASSUME EvictOldest
      PROVE  KeyInv'
  BY <1>5, GenerationKept DEF KeyInv, EvictOldest, Flushing
<1>6. ASSUME FlushRefused
      PROVE  KeyInv'
  BY <1>1, <1>6, GenerationKept DEF KeyInv, FlushRefused, Flushing
<1>7. ASSUME FlushIssued
      PROVE  KeyInv'
  <2>1. Head(flushQueue) \in Batch
    BY <1>1, <1>7 DEF TypeOK, FlushIssued, Flushing
  <2>2. /\ UNCHANGED <<keySource, notified, apiKey, delegateKey, generation>>
        /\ delegateKey = apiKey
        /\ apiKey # API_KEY_PENDING
        /\ IssueBatch(Head(flushQueue))
    BY <1>7, GenerationKept DEF KeyInv, FlushIssued, Flushing
  <2>3. \A e \in inFlight' : e.key = e.generation + 1
    BY <1>1, <2>1, <2>2, IssueBatchKeyed
  <2>4. QED
    BY <2>2, <2>3 DEF KeyInv, Flushing
<1>8. ASSUME NEW e \in inFlight,
             ExportSucceeds(e) \/ ExportFails(e) \/ StaleAnswer(e)
      PROVE  KeyInv'
  <2>1. generation' = generation
    BY <1>8, GenerationKept DEF ExportSucceeds, ExportFails, StaleAnswer
  <2>2. Answered(e)
    BY <1>8 DEF ExportSucceeds, ExportFails, StaleAnswer
  <2>3. QED
    BY <2>1, <2>2 DEF KeyInv, Answered, Flushing
<1>9. ASSUME ProbeTimer \/ CoreShutsDown
      PROVE  KeyInv'
  BY <1>9, GenerationKept
     DEF KeyInv, ProbeTimer, CoreShutsDown, pipelineVars, Flushing
<1>10. ASSUME SetConfiguredKey
       PROVE  KeyInv'
  BY <1>1, <1>10, GenerationKept
     DEF KeyInv, SetConfiguredKey, Busy, Flushing, API_KEY_PENDING
<1>11. ASSUME ResolveAnonymousKey
       PROVE  KeyInv'
  <2>1. apiKey = API_KEY_PENDING \/ apiKey = 1
    BY <1>11 DEF KeyInv, ResolveAnonymousKey
  <2>2. QED
    BY <1>11, <2>1, GenerationKept
       DEF KeyInv, ResolveAnonymousKey, StartFlush, EnsureDelegate, Flushing,
           API_KEY_PENDING
<1>12. ASSUME ClaimKey
       PROVE  KeyInv'
  BY <1>1, <1>12
     DEF KeyInv, TypeOK, ClaimKey, ResetForKeyRotation, StartFlush,
         EnsureDelegate, Flushing, API_KEY_PENDING
<1>13. ASSUME ForceFlush \/ ShutdownWithKey
       PROVE  KeyInv'
  <2>1. /\ UNCHANGED <<breakerVars, keySource, notified, apiKey, inFlight>>
        /\ apiKey # API_KEY_PENDING
        /\ StartFlush
    BY <1>13 DEF ForceFlush, ShutdownWithKey
  <2>2. QED
    BY <2>1, GenerationKept DEF KeyInv, StartFlush, EnsureDelegate, Flushing
<1>14. ASSUME ShutdownWithoutKey
       PROVE  KeyInv'
  BY <1>14, GenerationKept DEF KeyInv, ShutdownWithoutKey, Flushing
<1>15. CASE UNCHANGED vars
  BY <1>15, GenerationKept DEF KeyInv, vars, pipelineVars, Flushing
<1>16. QED
  BY <1>2, <1>3, <1>4, <1>5, <1>6, <1>7, <1>8, <1>9, <1>10, <1>11, <1>12,
     <1>13, <1>14, <1>15, Zenon DEF Next

\* It holds in every state of every behaviour.
LEMMA KeyInvariant == Spec => [](PipelineInv /\ KeyInv)
<1>1. Init => KeyInv
  BY DEF Init, BreakerInit, KeyInv, Flushing, API_KEY_PENDING
<1>2. QED
  BY <1>1, InitPipelineInv, StepPipelineInv, StepKeyInv, PTL DEF Spec

\* A result the breaker believes is a result for the current key: whatever the
\* order of claims, flushes, rebuilt delegates and late answers, no export
\* under the current generation was sent with another key.
THEOREM ResultsAreOfTheCurrentKey == Spec => []CurrentGenerationUsesCurrentKey
<1>1. ASSUME PipelineInv, KeyInv
      PROVE  CurrentGenerationUsesCurrentKey
  <2>1. apiKey \in 0 .. MaxKey /\ MaxKey \in Nat
    BY <1>1, PipelineConstants DEF PipelineInv, TypeOK
  <2>2. QED
    BY <1>1, <2>1 DEF KeyInv, CurrentGenerationUsesCurrentKey, API_KEY_PENDING
<1>2. QED
  BY <1>1, KeyInvariant, PTL

-----------------------------------------------------------------------------
(* The single probe. *)

\* SingleProbe is not inductive: a stale answer would take the probe away and
\* leave the permit.  The probe is of the current generation, so its answer is
\* never stale while the circuit is HALF_OPEN.
ProbeInv ==
    circuit = "HALF_OPEN" /\ ~straggled =>
        /\ halfOpenProbeInFlight <=> inFlight # {}
        /\ \A e, f \in inFlight : e = f
        /\ \A e \in inFlight : e.probe /\ e.generation = generation

\* An admitted export in HALF_OPEN is alone, and it is the probe.
LEMMA IssueKeepsProbe ==
    ASSUME ProbeInv, Admit, straggled' = straggled, NEW b \in Batch, IssueBatch(b)
    PROVE  ProbeInv'
<1> SUFFICES ASSUME circuit' = "HALF_OPEN", ~straggled'
             PROVE  ProbeInv'
  BY DEF ProbeInv
<1> DEFINE new == [batch |-> b, generation |-> generation, key |-> delegateKey',
                   probe |-> circuit = "HALF_OPEN"]
<1>1. circuit = "HALF_OPEN" /\ generation' = generation
  BY DEF Admit
<1>2. inFlight = {}
  BY <1>1 DEF Admit, ShouldExport, ProbeInv
<1>3. inFlight' = {new}
  BY <1>2 DEF IssueBatch
<1>4. new.probe /\ new.generation = generation
  BY <1>1
<1>5. halfOpenProbeInFlight'
  BY <1>1, Zenon DEF Admit
<1> HIDE DEF new
<1>6. QED
  BY <1>1, <1>3, <1>4, <1>5 DEF ProbeInv

\* An answer in HALF_OPEN is the probe's and ends that state.
LEMMA AnswerKeepsProbe ==
    ASSUME ProbeInv, NEW e \in inFlight,
           ExportSucceeds(e) \/ ExportFails(e) \/ StaleAnswer(e)
    PROVE  circuit' # "HALF_OPEN" \/ straggled'
<1>1. CASE ExportSucceeds(e)
  BY <1>1 DEF ExportSucceeds, RecordSuccess, TransitionToClosed
<1>2. CASE ExportFails(e)
  BY <1>2 DEF ExportFails, RecordFailure, ReopenAfterProbe, TransitionToOpen,
     breakerVars
<1>3. CASE StaleAnswer(e)
  BY <1>3 DEF StaleAnswer, Answered, ProbeInv, breakerVars
<1>4. QED
  BY <1>1, <1>2, <1>3

\* One step per action that issues, answers or moves the circuit.
LEMMA StepProbeInv == PipelineInv /\ ProbeInv /\ [Next]_vars => ProbeInv'
<1> SUFFICES ASSUME PipelineInv, ProbeInv, [Next]_vars
             PROVE  ProbeInv'
  OBVIOUS
<1>1. ASSUME NEW b \in Batch, ExportIssued(b)
      PROVE  ProbeInv'
  BY <1>1, IssueKeepsProbe DEF ExportIssued
<1>2. ASSUME FlushIssued
      PROVE  ProbeInv'
  <2>1. Head(flushQueue) \in Batch
    BY <1>2 DEF PipelineInv, TypeOK, FlushIssued, Flushing
  <2>2. QED
    BY <1>2, <2>1, IssueKeepsProbe DEF FlushIssued
<1>3. ASSUME NEW e \in inFlight,
             ExportSucceeds(e) \/ ExportFails(e) \/ StaleAnswer(e)
      PROVE  ProbeInv'
  BY <1>3, AnswerKeepsProbe DEF ProbeInv
<1>4. ASSUME ProbeTimer
      PROVE  ProbeInv'
  <2>1. ~straggled' => inFlight' = {}
    BY <1>4 DEF ProbeTimer, pipelineVars
  <2>2. circuit = "OPEN"
    BY <1>4 DEF ProbeTimer, ProbeTimerFires, PipelineInv, BreakerInv,
       TimerArmedIffOpen
  <2>3. ~halfOpenProbeInFlight'
    BY <1>4, <2>2, Zenon DEF ProbeTimer, ProbeTimerFires
  <2>4. QED
    BY <2>1, <2>3 DEF ProbeInv
<1>5. ASSUME ClaimKey
      PROVE  ProbeInv'
  BY <1>5 DEF ClaimKey, ResetForKeyRotation, TransitionToClosed, ProbeInv
<1>6. ASSUME UNCHANGED <<breakerVars, inFlight, straggled>>
      PROVE  ProbeInv'
  BY <1>6 DEF ProbeInv, breakerVars
<1>7. ASSUME NEW b \in Batch, ExportBuffered(b) \/ ExportRefused(b)
      PROVE  ProbeInv'
  BY <1>6, <1>7 DEF ExportBuffered, ExportRefused, Refuse
<1>8. ASSUME EvictOldest \/ FlushRefused \/ SetConfiguredKey
             \/ ResolveAnonymousKey \/ ForceFlush \/ ShutdownWithKey
             \/ ShutdownWithoutKey \/ CoreShutsDown
      PROVE  ProbeInv'
  BY <1>6, <1>8 DEF EvictOldest, FlushRefused, Refuse, SetConfiguredKey,
     ResolveAnonymousKey, ForceFlush, ShutdownWithKey, ShutdownWithoutKey,
     CoreShutsDown, pipelineVars
<1>9. CASE UNCHANGED vars
  BY <1>6, <1>9 DEF vars, pipelineVars
<1>10. QED
  BY <1>1, <1>2, <1>3, <1>4, <1>5, <1>7, <1>8, <1>9, Zenon DEF Next

\* It holds in every state of every behaviour.
LEMMA ProbeInvariant == Spec => [](PipelineInv /\ ProbeInv)
<1>1. Init => ProbeInv
  BY DEF Init, BreakerInit, ProbeInv
<1>2. PipelineInv /\ ProbeInv /\ [Next]_vars => ProbeInv'
  BY StepProbeInv
<1>3. QED
  BY <1>1, <1>2, InitPipelineInv, StepPipelineInv, PTL DEF Spec

\* If no export was still unanswered when the probe timer fired, HALF_OPEN
\* has one export out, the probe, exactly while its permit is taken.  The
\* condition is needed: see the run on OnlyProbeDecides.
THEOREM OneProbe == Spec => []SingleProbe
<1>1. PipelineInv /\ ProbeInv => SingleProbe
  BY DEF ProbeInv, SingleProbe
<1>2. QED
  BY <1>1, ProbeInvariant, PTL

\* export() and flushPending() hand nothing to the delegate while the circuit
\* is OPEN, also when it opens between two batches of one flush.
THEOREM OpenCircuitIssuesNothing == Spec => NothingIssuedWhileOpen
<1>1. ASSUME [Next]_vars
      PROVE  [inFlight' \ inFlight # {} => circuit # "OPEN"]_vars
  <2>1. ASSUME inFlight' \ inFlight # {}, Next
        PROVE  circuit # "OPEN"
    <3>1. Admit \/ inFlight' \subseteq inFlight
      BY <2>1 DEF Next, ExportBuffered, ExportRefused, ExportIssued, EvictOldest,
         FlushRefused, FlushIssued, ExportSucceeds, ExportFails, StaleAnswer,
         Answered, ProbeTimer, SetConfiguredKey, ResolveAnonymousKey, ClaimKey,
         CoreShutsDown, ForceFlush, ShutdownWithKey, ShutdownWithoutKey,
         pipelineVars
    <3>2. QED
      BY <2>1, <3>1 DEF Admit, ShouldExport
  <2>2. QED
    BY <1>1, <2>1
<1>2. QED
  BY <1>1, PTL DEF Spec, NothingIssuedWhileOpen

\* What a step of the exporter does to the breaker, failures apart.
LEMMA BreakerStep ==
    ASSUME [Next]_vars
    PROVE  \/ \E e \in inFlight : ExportFails(e)
           \/ Admit \/ Refuse \/ RecordSuccess \/ ProbeTimerFires
           \/ ResetForKeyRotation \/ UNCHANGED breakerVars
BY Zenon DEF Next, vars, ExportBuffered, ExportRefused, ExportIssued,
   EvictOldest, FlushRefused, FlushIssued, ExportSucceeds, StaleAnswer,
   ProbeTimer, SetConfiguredKey, ResolveAnonymousKey, ClaimKey,
   CoreShutsDown, ForceFlush, ShutdownWithKey, ShutdownWithoutKey

\* The delay changes within an outage only when an export fails in HALF_OPEN.
LEMMA BackoffStep ==
    ASSUME PipelineInv, [Next]_vars, circuit # "CLOSED", circuit' # "CLOSED"
    PROVE  \/ currentBackoff' = currentBackoff
           \/ /\ circuit = "HALF_OPEN"
              /\ currentBackoff' = NextBackoff
              /\ \E e \in inFlight : ExportFails(e)
<1>1. \/ \E e \in inFlight : ExportFails(e)
      \/ Admit \/ Refuse \/ RecordSuccess \/ ProbeTimerFires
      \/ ResetForKeyRotation \/ UNCHANGED breakerVars
  BY BreakerStep
<1>2. ASSUME NEW e \in inFlight, ExportFails(e)
      PROVE  \/ currentBackoff' = currentBackoff
             \/ circuit = "HALF_OPEN" /\ currentBackoff' = NextBackoff
  BY <1>2 DEF ExportFails, RecordFailure, ReopenAfterProbe, breakerVars
<1>3. CASE Admit \/ Refuse \/ RecordSuccess \/ ProbeTimerFires
           \/ ResetForKeyRotation \/ UNCHANGED breakerVars
  BY <1>3 DEF Admit, Refuse, RecordSuccess, ProbeTimerFires,
     ResetForKeyRotation, TransitionToClosed, breakerVars
<1>4. QED
  BY <1>1, <1>2, <1>3

\* Only a failed export reopens a HALF_OPEN circuit, with the next delay.
LEMMA ReopenStep ==
    ASSUME PipelineInv, [Next]_vars, circuit = "HALF_OPEN", circuit' = "OPEN"
    PROVE  currentBackoff' = NextBackoff
<1>1. \/ \E e \in inFlight : ExportFails(e)
      \/ Admit \/ Refuse \/ RecordSuccess \/ ProbeTimerFires
      \/ ResetForKeyRotation \/ UNCHANGED breakerVars
  BY BreakerStep
<1>2. ASSUME NEW e \in inFlight, ExportFails(e)
      PROVE  currentBackoff' = NextBackoff
  BY <1>2 DEF ExportFails, RecordFailure, ReopenAfterProbe
<1>3. ~(Admit \/ Refuse \/ RecordSuccess \/ ProbeTimerFires
        \/ ResetForKeyRotation \/ UNCHANGED breakerVars)
  BY DEF Admit, Refuse, RecordSuccess, ProbeTimerFires, ResetForKeyRotation,
     TransitionToClosed, breakerVars
<1>4. QED
  BY <1>1, <1>2, <1>3

\* Within an outage the wait never shrinks, it grows only by the failure of the
\* probe itself, under the condition of OneProbe, and with every reopening.
THEOREM OnlyProbesLengthenTheWait == Spec => BackoffGrowsByProbe
<1> DEFINE Grows ==
      circuit # "CLOSED" /\ circuit' # "CLOSED" =>
          /\ currentBackoff' >= currentBackoff
          /\ currentBackoff' # currentBackoff /\ ~straggled =>
                 \E e \in inFlight \ inFlight' : e.probe
          /\ circuit = "HALF_OPEN" /\ circuit' = "OPEN" =>
                 currentBackoff' > currentBackoff \/ currentBackoff' = MaxBackoff
<1>1. ASSUME PipelineInv, ProbeInv, [Next]_vars
      PROVE  Grows
  <2> SUFFICES ASSUME circuit # "CLOSED", circuit' # "CLOSED"
               PROVE  /\ currentBackoff' >= currentBackoff
                      /\ currentBackoff' # currentBackoff /\ ~straggled =>
                             \E e \in inFlight \ inFlight' : e.probe
                      /\ circuit = "HALF_OPEN" /\ circuit' = "OPEN" =>
                             \/ currentBackoff' > currentBackoff
                             \/ currentBackoff' = MaxBackoff
    OBVIOUS
  <2>1. BreakerTypeOK
    BY <1>1 DEF PipelineInv, BreakerInv
  <2>2. currentBackoff \in Nat
    BY <2>1, BreakerConstants DEF BreakerTypeOK
  <2>3. circuit = "HALF_OPEN" /\ circuit' = "OPEN" =>
            \/ currentBackoff' > currentBackoff
            \/ currentBackoff' = MaxBackoff
    BY <1>1, <2>1, ReopenStep, NextBackoffInRange
  <2>4. CASE currentBackoff' = currentBackoff
    BY <2>2, <2>4, <2>3
  <2>5. CASE /\ circuit = "HALF_OPEN"
             /\ currentBackoff' = NextBackoff
             /\ \E e \in inFlight : ExportFails(e)
    <3>1. PICK e \in inFlight : ExportFails(e)
      BY <2>5
    <3>2. ~straggled => e.probe /\ e \in inFlight \ inFlight'
      BY <1>1, <2>5, <3>1 DEF ProbeInv, ExportFails, Answered
    <3>3. NextBackoff >= currentBackoff
      BY <2>1, NextBackoffInRange
    <3>4. QED
      BY <2>5, <2>3, <3>2, <3>3
  <2>6. QED
    BY <1>1, <2>4, <2>5, BackoffStep
<1>2. PipelineInv /\ ProbeInv /\ [Next]_vars => [Grows]_vars
  BY <1>1
<1> HIDE DEF Grows
<1>3. Spec => [][Grows]_vars
  BY <1>2, ProbeInvariant, PTL DEF Spec
<1>4. QED
  BY <1>3 DEF Grows, BackoffGrowsByProbe

-----------------------------------------------------------------------------
(* Sums over sets of batches. *)

\* A nonempty set of subsets of a finite set has a minimal member.
LEMMA MinimalSubset ==
    ASSUME NEW S, IsFiniteSet(S), NEW C \in SUBSET (SUBSET S), C # {}
    PROVE  \E s \in C : \A t \in C : t \subseteq s => t = s
<1>1. IsWellFoundedOn(StrictSubsetOrdering(S), FiniteSubsetsOf(S))
  BY FS_StrictSubsetOrderingWellFounded
<1>2. C \subseteq FiniteSubsetsOf(S)
  BY FS_Subset DEF FiniteSubsetsOf
<1>3. PICK s \in C : \A t \in C : <<t, s>> \notin StrictSubsetOrdering(S)
  BY <1>1, <1>2, WFMin
<1>4. ASSUME NEW t \in C, t \subseteq s, t # s PROVE FALSE
  <2>1. <<t, s>> \in StrictSubsetOrdering(S)
    BY <1>4 DEF StrictSubsetOrdering
  <2>2. QED
    BY <1>3, <2>1
<1>5. QED
  BY <1>4

\* The member a fold over s takes first.
Pick(s) == CHOOSE x \in s : TRUE

\* g is the sum function that folding over the subsets of S defines.
Sums(g, S) ==
    g = [s \in SUBSET S |->
            IF s = {} THEN 0 ELSE SpanCount[Pick(s)] + g[s \ {Pick(s)}]]

\* It is a member.
LEMMA PickIn == \A s : s # {} => Pick(s) \in s
BY DEF Pick

\* The equation of a sum function at one subset.
LEMMA SumsAt ==
    ASSUME NEW S, NEW g, Sums(g, S)
    PROVE  \A s \in SUBSET S :
               g[s] = IF s = {} THEN 0 ELSE SpanCount[Pick(s)] + g[s \ {Pick(s)}]
BY Zenon DEF Sums

\* Two sum functions agree on the finite sets both are defined on.
LEMMA SumsAgree ==
    ASSUME NEW S, NEW T, NEW g, NEW h, Sums(g, S), Sums(h, T),
           NEW u \in SUBSET S, u \in SUBSET T, IsFiniteSet(u)
    PROVE  g[u] = h[u]
<1> DEFINE C == {s \in SUBSET u : g[s] # h[s]}
<1> SUFFICES ASSUME C # {} PROVE FALSE
  OBVIOUS
<1>1. PICK s \in C : \A t \in C : t \subseteq s => t = s
  <2>1. C \in SUBSET (SUBSET u) /\ C # {}
    OBVIOUS
  <2> HIDE DEF C
  <2>2. QED
    BY <2>1, MinimalSubset
<1>2. /\ g[s] = IF s = {} THEN 0 ELSE SpanCount[Pick(s)] + g[s \ {Pick(s)}]
      /\ h[s] = IF s = {} THEN 0 ELSE SpanCount[Pick(s)] + h[s \ {Pick(s)}]
  BY SumsAt
<1>3. CASE s = {}
  BY <1>1, <1>2, <1>3
<1>4. CASE s # {}
  <2>1. Pick(s) \in s
    BY <1>4, PickIn
  <2>2. s \ {Pick(s)} \notin C
    BY <1>1, <2>1
  <2>3. g[s \ {Pick(s)}] = h[s \ {Pick(s)}]
    BY <2>2
  <2>4. QED
    BY <1>1, <1>2, <1>4, <2>3
<1>5. QED
  BY <1>3, <1>4

\* Spans() of the community modules is the value of a sum function, if there
\* is one.
LEMMA SpansUnfold ==
    ASSUME NEW S, \E g : Sums(g, S)
    PROVE  \E g : Sums(g, S) /\ Spans(S) = g[S]
<1> DEFINE it == CHOOSE g : Sums(g, S)
<1>1. Sums(it, S)
  OBVIOUS
<1>2. Spans(S) = it[S]
  BY DEF Spans, MapThenSumSet, MapThenFoldSet, Sums, Pick
<1>3. QED
  BY <1>1, <1>2

\* There is one for every finite set: otherwise take a minimal set without; the
\* functions of its proper subsets agree, and make up one for the set.
LEMMA SumsExist ==
    ASSUME NEW S, IsFiniteSet(S)
    PROVE  \E g : Sums(g, S)
<1> DEFINE C == {s \in SUBSET S : ~ \E g : Sums(g, s)}
<1> SUFFICES ASSUME C # {} PROVE FALSE
  <2>1. S \in SUBSET S
    OBVIOUS
  <2>2. QED
    BY <2>1
<1>1. PICK s \in C : \A t \in C : t \subseteq s => t = s
  <2>1. C \in SUBSET (SUBSET S) /\ C # {}
    OBVIOUS
  <2> HIDE DEF C
  <2>2. QED
    BY <2>1, MinimalSubset
<1>2. ASSUME NEW t \in SUBSET s, t # s
      PROVE  \E g : Sums(g, t) /\ Spans(t) = g[t]
  <2>1. t \notin C
    BY <1>1, <1>2
  <2>2. QED
    BY <2>1, SpansUnfold
<1>3. ASSUME NEW t \in SUBSET s, t # s
      PROVE  Spans(t) = IF t = {} THEN 0
                        ELSE SpanCount[Pick(t)] + Spans(t \ {Pick(t)})
  <2>1. PICK g : Sums(g, t) /\ Spans(t) = g[t]
    BY <1>2, <1>3
  <2>2. g[t] = IF t = {} THEN 0 ELSE SpanCount[Pick(t)] + g[t \ {Pick(t)}]
    BY <2>1, SumsAt
  <2>3. CASE t = {}
    BY <2>1, <2>2, <2>3
  <2>4. CASE t # {}
    <3> DEFINE u == t \ {Pick(t)}
    <3>1. u \in SUBSET s /\ u # s /\ IsFiniteSet(u)
      BY <2>4, PickIn, FS_Subset
    <3>2. PICK h : Sums(h, u) /\ Spans(u) = h[u]
      BY <1>2, <3>1
    <3>3. g[u] = h[u]
      BY <2>1, <3>1, <3>2, SumsAgree
    <3>4. QED
      BY <2>1, <2>2, <2>4, <3>2, <3>3
  <2>5. QED
    BY <2>3, <2>4
<1> DEFINE f == [t \in SUBSET s |->
                   IF t = {} THEN 0 ELSE SpanCount[Pick(t)] + Spans(t \ {Pick(t)})]
<1>4. ASSUME NEW t \in SUBSET s, t # {}
      PROVE  Spans(t \ {Pick(t)}) = f[t \ {Pick(t)}]
  <2> DEFINE u == t \ {Pick(t)}
  <2>1. u \in SUBSET s /\ u # s
    BY <1>4, PickIn
  <2>2. Spans(u) = IF u = {} THEN 0 ELSE SpanCount[Pick(u)] + Spans(u \ {Pick(u)})
    BY <1>3, <2>1
  <2>3. f[u] = IF u = {} THEN 0 ELSE SpanCount[Pick(u)] + Spans(u \ {Pick(u)})
    BY <2>1
  <2>4. QED
    BY <2>2, <2>3
<1>5. f = [t \in SUBSET s |->
              IF t = {} THEN 0 ELSE SpanCount[Pick(t)] + f[t \ {Pick(t)}]]
  <2> HIDE DEF f
  <2>1. \A t \in SUBSET s :
            f[t] = IF t = {} THEN 0 ELSE SpanCount[Pick(t)] + f[t \ {Pick(t)}]
    BY <1>4 DEF f
  <2>2. f = [t \in SUBSET s |-> f[t]]
    BY DEF f
  <2>3. QED
    BY <2>1, <2>2
<1>6. Sums(f, s)
  BY <1>5, Zenon DEF Sums
<1>7. QED
  BY <1>1, <1>6

\* Spans(), one batch at a time.
LEMMA SpansAt ==
    ASSUME NEW S, IsFiniteSet(S)
    PROVE  Spans(S) = IF S = {} THEN 0 ELSE SpanCount[Pick(S)] + Spans(S \ {Pick(S)})
<1>1. PICK g : Sums(g, S) /\ Spans(S) = g[S]
  BY SumsExist, SpansUnfold
<1>2. g[S] = IF S = {} THEN 0 ELSE SpanCount[Pick(S)] + g[S \ {Pick(S)}]
  BY <1>1, SumsAt
<1> DEFINE u == S \ {Pick(S)}
<1>3. IsFiniteSet(u) /\ u \in SUBSET S
  BY FS_Subset
<1>4. PICK h : Sums(h, u) /\ Spans(u) = h[u]
  BY <1>3, SumsExist, SpansUnfold
<1>5. g[u] = h[u]
  BY <1>1, <1>3, <1>4, SumsAgree
<1>6. QED
  BY <1>1, <1>2, <1>4, <1>5

\* A sum of span counts is a natural number.
LEMMA SpansTyped ==
    ASSUME NEW S \in SUBSET Batch, IsFiniteSet(S)
    PROVE  Spans(S) \in Nat
<1> DEFINE C == {s \in SUBSET S : Spans(s) \notin Nat}
<1> SUFFICES ASSUME C # {} PROVE FALSE
  OBVIOUS
<1>1. PICK s \in C : \A t \in C : t \subseteq s => t = s
  <2>1. C \in SUBSET (SUBSET S) /\ C # {}
    OBVIOUS
  <2> HIDE DEF C
  <2>2. QED
    BY <2>1, MinimalSubset
<1>2. IsFiniteSet(s)
  BY FS_Subset
<1>3. CASE s = {}
  BY <1>1, <1>2, <1>3, SpansAt
<1>4. CASE s # {}
  <2>1. Pick(s) \in s /\ SpanCount[Pick(s)] \in Nat
    BY <1>4, PickIn, PipelineConstants
  <2>2. Spans(s \ {Pick(s)}) \in Nat
    BY <1>1, <2>1
  <2>3. Spans(s) = SpanCount[Pick(s)] + Spans(s \ {Pick(s)})
    BY <1>2, <1>4, SpansAt
  <2>4. QED
    BY <1>1, <2>1, <2>2, <2>3
<1>5. QED
  BY <1>3, <1>4

\* The order of the fold does not matter: any batch may be taken out first.
LEMMA SpansWithout ==
    ASSUME NEW S \in SUBSET Batch, IsFiniteSet(S)
    PROVE  \A b \in S : Spans(S) = SpanCount[b] + Spans(S \ {b})
<1> DEFINE C == {s \in SUBSET S :
                   \E b \in s : Spans(s) # SpanCount[b] + Spans(s \ {b})}
<1> SUFFICES ASSUME C # {} PROVE FALSE
  <2>1. S \in SUBSET S
    OBVIOUS
  <2>2. QED
    BY <2>1
<1>1. PICK s \in C : \A t \in C : t \subseteq s => t = s
  <2>1. C \in SUBSET (SUBSET S) /\ C # {}
    OBVIOUS
  <2> HIDE DEF C
  <2>2. QED
    BY <2>1, MinimalSubset
<1>2. PICK b \in s : Spans(s) # SpanCount[b] + Spans(s \ {b})
  BY <1>1
<1>3. IsFiniteSet(s) /\ s \in SUBSET Batch
  BY <1>1, FS_Subset
<1> DEFINE p == Pick(s)
           r == s \ {p, b}
<1>4. p \in s /\ Spans(s) = SpanCount[p] + Spans(s \ {p})
  BY <1>2, <1>3, PickIn, SpansAt
<1>5. p # b
  BY <1>2, <1>4
<1>6. ASSUME NEW t \in SUBSET s, t # s, NEW x \in t
      PROVE  Spans(t) = SpanCount[x] + Spans(t \ {x})
  <2>1. t \notin C
    BY <1>1, <1>6
  <2>2. QED
    BY <2>1
<1> HIDE DEF p, C
<1>7. Spans(s \ {p}) = SpanCount[b] + Spans(r)
  <2>1. (s \ {p}) \ {b} = r /\ b \in s \ {p} /\ s \ {p} # s
    BY <1>4, <1>5
  <2>2. QED
    BY <1>6, <2>1
<1>8. Spans(s \ {b}) = SpanCount[p] + Spans(r)
  <2>1. (s \ {b}) \ {p} = r /\ p \in s \ {b} /\ s \ {b} # s
    BY <1>4, <1>5
  <2>2. QED
    BY <1>6, <2>1
<1>9. /\ Spans(r) \in Nat /\ SpanCount[p] \in Nat /\ SpanCount[b] \in Nat
  <2>1. r \in SUBSET Batch /\ IsFiniteSet(r)
    BY <1>3, FS_Subset
  <2>2. QED
    BY <1>3, <1>4, <2>1, SpansTyped, PipelineConstants
<1>10. QED
  BY <1>2, <1>4, <1>7, <1>8, <1>9

\* What a new batch adds.
LEMMA SpansWith ==
    ASSUME NEW S \in SUBSET Batch, IsFiniteSet(S), NEW b \in Batch, b \notin S
    PROVE  /\ Spans(S \cup {b}) = Spans(S) + SpanCount[b]
           /\ IsFiniteSet(S \cup {b})
<1>1. /\ IsFiniteSet(S \cup {b}) /\ S \cup {b} \in SUBSET Batch
      /\ (S \cup {b}) \ {b} = S
  BY FS_AddElement
<1>2. Spans(S \cup {b}) = SpanCount[b] + Spans(S)
  BY <1>1, SpansWithout
<1>3. SpanCount[b] \in Nat /\ Spans(S) \in Nat
  BY SpansTyped, PipelineConstants
<1>4. QED
  BY <1>1, <1>2, <1>3

-----------------------------------------------------------------------------
(* Queues of batches. *)

\* No batch is twice in a queue.
Injective(q) == \A i, j \in 1 .. Len(q) : q[i] = q[j] => i = j

\* The elements of a queue.
LEMMA Elements ==
    ASSUME NEW q \in Seq(Batch)
    PROVE  /\ Len(q) \in Nat /\ DOMAIN q = 1 .. Len(q)
           /\ \A i \in 1 .. Len(q) : q[i] \in Batch /\ q[i] \in ToSet(q)
           /\ \A b \in ToSet(q) : \E i \in 1 .. Len(q) : q[i] = b
           /\ ToSet(q) \in SUBSET Batch
           /\ q = <<>> <=> ToSet(q) = {}
           /\ q = <<>> <=> Len(q) = 0
<1>1. /\ Len(q) \in Nat /\ DOMAIN q = 1 .. Len(q)
      /\ \A i \in 1 .. Len(q) : q[i] \in Batch /\ q[i] \in ToSet(q)
      /\ \A b \in ToSet(q) : \E i \in 1 .. Len(q) : q[i] = b
  BY ElementOfSeq, LenProperties DEF ToSet
<1>2. q = <<>> <=> Len(q) = 0
  BY EmptySeq
<1>3. q = <<>> <=> ToSet(q) = {}
  BY <1>1, <1>2
<1>4. QED
  BY <1>1, <1>2, <1>3

\* A new batch at the end of a queue.
LEMMA Appended ==
    ASSUME NEW q \in Seq(Batch), Injective(q), NEW b \in Batch, b \notin ToSet(q)
    PROVE  /\ Append(q, b) \in Seq(Batch) /\ Injective(Append(q, b))
           /\ ToSet(Append(q, b)) = ToSet(q) \cup {b}
           /\ Len(Append(q, b)) = Len(q) + 1
           /\ Append(q, b)[Len(Append(q, b))] = b
<1> DEFINE r == Append(q, b)
<1>1. /\ r \in Seq(Batch) /\ Len(r) = Len(q) + 1
      /\ \A i \in 1 .. Len(q) : r[i] = q[i]
      /\ r[Len(q) + 1] = b
  BY AppendProperties
<1> HIDE DEF r
<1>2. /\ Len(q) \in Nat
      /\ \A i \in 1 .. Len(q) : q[i] \in ToSet(q)
  BY Elements
<1>3. Injective(r)
  <2> SUFFICES ASSUME NEW i \in 1 .. Len(r), NEW j \in 1 .. Len(r), r[i] = r[j]
               PROVE  i = j
    BY DEF Injective
  <2>1. CASE i <= Len(q) /\ j <= Len(q)
    <3>1. i \in 1 .. Len(q) /\ j \in 1 .. Len(q) /\ q[i] = q[j]
      BY <1>1, <1>2, <2>1
    <3>2. QED
      BY <3>1 DEF Injective
  <2>2. CASE i > Len(q) /\ j > Len(q)
    BY <1>1, <1>2, <2>2
  <2>3. CASE i <= Len(q) /\ j > Len(q)
    <3>1. r[j] = b /\ r[i] \in ToSet(q)
      BY <1>1, <1>2, <2>3
    <3>2. QED
      BY <3>1
  <2>4. CASE i > Len(q) /\ j <= Len(q)
    <3>1. r[i] = b /\ r[j] \in ToSet(q)
      BY <1>1, <1>2, <2>4
    <3>2. QED
      BY <3>1
  <2>5. QED
    BY <1>2, <2>1, <2>2, <2>3, <2>4
<1>4. ASSUME NEW x \in ToSet(r) PROVE x \in ToSet(q) \cup {b}
  <2>1. PICK i \in 1 .. Len(q) + 1 : r[i] = x
    BY <1>1, Elements
  <2>2. QED
    BY <1>1, <1>2, <2>1
<1>5. ASSUME NEW x \in ToSet(q) \cup {b} PROVE x \in ToSet(r)
  <2>1. CASE x = b
    <3>1. Len(q) + 1 \in 1 .. Len(r)
      BY <1>1, <1>2
    <3>2. QED
      BY <1>1, <2>1, <3>1, Elements
  <2>2. CASE x \in ToSet(q)
    <3>1. PICK i \in 1 .. Len(q) : q[i] = x
      BY <2>2, Elements
    <3>2. i \in 1 .. Len(r) /\ r[i] = x
      BY <1>1, <1>2, <3>1
    <3>3. QED
      BY <1>1, <3>2, Elements
  <2>3. QED
    BY <2>1, <2>2
<1>6. ToSet(r) = ToSet(q) \cup {b}
  BY <1>4, <1>5
<1>7. QED
  BY <1>1, <1>3, <1>6 DEF r

\* The oldest batch taken from a queue.
LEMMA TailTaken ==
    ASSUME NEW q \in Seq(Batch), Injective(q), q # <<>>
    PROVE  /\ Head(q) \in Batch /\ Head(q) \in ToSet(q)
           /\ Tail(q) \in Seq(Batch) /\ Injective(Tail(q))
           /\ ToSet(Tail(q)) = ToSet(q) \ {Head(q)}
           /\ Len(Tail(q)) = Len(q) - 1
           /\ Len(q) > 1 => Tail(q)[Len(Tail(q))] = q[Len(q)]
<1> DEFINE r == Tail(q)
<1>1. /\ Head(q) \in Batch /\ Head(q) = q[1]
      /\ r \in Seq(Batch) /\ Len(r) = Len(q) - 1
      /\ \A i \in 1 .. Len(q) - 1 : r[i] = q[i + 1]
  BY HeadTailProperties
<1> HIDE DEF r
<1>2. Len(q) \in Nat /\ Len(q) >= 1
  BY Elements
<1>3. Injective(r)
  <2> SUFFICES ASSUME NEW i \in 1 .. Len(r), NEW j \in 1 .. Len(r), r[i] = r[j]
               PROVE  i = j
    BY DEF Injective
  <2>1. i + 1 \in 1 .. Len(q) /\ j + 1 \in 1 .. Len(q) /\ q[i + 1] = q[j + 1]
    BY <1>1, <1>2
  <2>2. i + 1 = j + 1
    BY <2>1 DEF Injective
  <2>3. QED
    BY <2>2
<1>4. 1 \in 1 .. Len(q) /\ Head(q) \in ToSet(q)
  BY <1>1, <1>2, Elements
<1>5. ASSUME NEW x \in ToSet(r) PROVE x \in ToSet(q) \ {Head(q)}
  <2>1. PICK i \in 1 .. Len(q) - 1 : r[i] = x
    BY <1>1, Elements
  <2>2. i + 1 \in 1 .. Len(q) /\ q[i + 1] = x /\ i + 1 # 1
    BY <1>1, <1>2, <2>1
  <2>3. x # q[1]
    BY <1>4, <2>2 DEF Injective
  <2>4. QED
    BY <1>1, <2>2, <2>3, Elements
<1>6. ASSUME NEW x \in ToSet(q), x # Head(q) PROVE x \in ToSet(r)
  <2>1. PICK i \in 1 .. Len(q) : q[i] = x
    BY Elements
  <2>2. i - 1 \in 1 .. Len(r) /\ r[i - 1] = x
    BY <1>1, <1>2, <1>6, <2>1
  <2>3. QED
    BY <1>1, <2>2, Elements
<1>7. ToSet(r) = ToSet(q) \ {Head(q)}
  BY <1>5, <1>6
<1>8. Len(q) > 1 => r[Len(r)] = q[Len(q)]
  BY <1>1, <1>2
<1>9. QED
  BY <1>1, <1>3, <1>4, <1>7, <1>8 DEF r

\* All but the newest batch.
LEMMA FrontTaken ==
    ASSUME NEW q \in Seq(Batch), Injective(q), q # <<>>
    PROVE  ToSet(Front(q)) = ToSet(q) \ {q[Len(q)]}
<1> DEFINE r == SubSeq(q, 1, Len(q) - 1)
<1>1. Len(q) \in Nat /\ Len(q) >= 1 /\ \A i \in 1 .. Len(q) : q[i] \in Batch
  BY Elements
<1>2. /\ r \in Seq(Batch) /\ Len(r) = Len(q) - 1
      /\ \A i \in 1 .. Len(q) - 1 : r[i] = q[i]
  <2>1. \A i \in 1 .. Len(q) - 1 : q[i] \in Batch
    BY <1>1
  <2>2. QED
    <3>1. Len(q) - 1 \in Int /\ 1 \in Int
      BY <1>1
    <3>2. /\ r \in Seq(Batch)
          /\ Len(r) = IF 1 <= Len(q) - 1 THEN (Len(q) - 1) - 1 + 1 ELSE 0
          /\ \A i \in 1 .. (Len(q) - 1) - 1 + 1 : r[i] = q[1 + i - 1]
      BY <2>1, <3>1, SubSeqProperties
    <3> HIDE DEF r
    <3>3. (Len(q) - 1) - 1 + 1 = Len(q) - 1
      BY <1>1
    <3>4. Len(r) = Len(q) - 1
      <4> DEFINE n == Len(q)
      <4>1. n \in Nat /\ n >= 1
        BY <1>1
      <4> HIDE DEF n
      <4>2. (IF 1 <= n - 1 THEN (n - 1) - 1 + 1 ELSE 0) = n - 1
        BY <4>1
      <4>3. QED
        BY <3>2, <4>2 DEF n
    <3>5. ASSUME NEW i \in 1 .. Len(q) - 1 PROVE r[i] = q[i]
      <4>1. 1 + i - 1 = i
        OBVIOUS
      <4>2. r[i] = q[1 + i - 1]
        BY <3>2, <3>3
      <4>3. QED
        BY <4>1, <4>2
    <3>6. QED
      BY <3>2, <3>4, <3>5
<1> HIDE DEF r
<1>3. ASSUME NEW x \in ToSet(r) PROVE x \in ToSet(q) \ {q[Len(q)]}
  <2>1. PICK i \in 1 .. Len(q) - 1 : r[i] = x
    BY <1>2, Elements
  <2>2. i \in 1 .. Len(q) /\ Len(q) \in 1 .. Len(q) /\ q[i] = x /\ i # Len(q)
    BY <1>1, <1>2, <2>1
  <2>3. x # q[Len(q)]
    BY <2>2 DEF Injective
  <2>4. QED
    BY <2>2, <2>3, Elements
<1>4. ASSUME NEW x \in ToSet(q), x # q[Len(q)] PROVE x \in ToSet(r)
  <2>1. PICK i \in 1 .. Len(q) : q[i] = x
    BY Elements
  <2>2. i \in 1 .. Len(r) /\ r[i] = x
    BY <1>1, <1>2, <1>4, <2>1
  <2>3. QED
    BY <1>2, <2>2, Elements
<1>5. ToSet(r) = ToSet(q) \ {q[Len(q)]}
  BY <1>3, <1>4
<1>6. QED
  BY <1>5 DEF r, Front

\* The positions of a batch in a queue.
LEMMA PositionsOf ==
    ASSUME NEW q \in Seq(Batch), Injective(q), NEW b
    PROVE  Cardinality({i \in DOMAIN q : q[i] = b}) = IF b \in ToSet(q) THEN 1 ELSE 0
<1> DEFINE at == {i \in DOMAIN q : q[i] = b}
<1>1. CASE b \in ToSet(q)
  <2>1. PICK i \in 1 .. Len(q) : q[i] = b
    BY <1>1, Elements
  <2>2. at = {i}
    BY <2>1, Elements DEF Injective
  <2>3. QED
    BY <1>1, <2>2, FS_Singleton
<1>2. CASE b \notin ToSet(q)
  <2>1. at = {}
    BY <1>2, Elements
  <2>2. QED
    BY <1>2, <2>1, FS_EmptySet
<1>3. QED
  BY <1>1, <1>2

-----------------------------------------------------------------------------
(* The places of a batch. *)

\* The four places a batch can be in.
Buffered == ToSet(pendingBatches)
Queued == ToSet(flushQueue)
Out == {e.batch : e \in inFlight}
Done == {b \in Batch : callbacks[b] # 0}

\* EveryBatchHeldOnce counts the places a batch is in; inductive is that the
\* places are disjoint, hold a batch once, and make up what was offered.
PlaceInv ==
    /\ IsFiniteSet(offered)
    /\ Injective(pendingBatches)
    /\ Injective(flushQueue)
    /\ \A e, f \in inFlight : e.batch = f.batch => e = f
    /\ \A b \in Batch : callbacks[b] \in {0, 1}
    /\ offered = Buffered \cup Queued \cup Out \cup Done
    /\ Buffered \cap (Queued \cup Out \cup Done) = {}
    /\ Queued \cap (Out \cup Done) = {}
    /\ Out \cap Done = {}

\* With it, the sums over the places are kept by every move between them.  The
\* bound on the buffer is about all but its newest batch, whose own size no
\* check limits.
CountInv ==
    /\ pendingSpanCount = Spans(Buffered)
    /\ tracesExported + tracesDropped + pendingSpanCount + Spans(Queued)
           = Spans(offered)
    /\ Len(pendingBatches) > 2 =>
           pendingSpanCount - SpanCount[pendingBatches[Len(pendingBatches)]]
               <= MaxPendingSpans
    /\ shut => pendingBatches = <<>>

\* The inductive invariant.
AccountInv == PlaceInv /\ CountInv

\* The places are finite sets of batches.
LEMMA PlaceTypes ==
    ASSUME TypeOK, PlaceInv
    PROVE  /\ Buffered \in SUBSET Batch /\ IsFiniteSet(Buffered) /\ Spans(Buffered) \in Nat
           /\ Queued \in SUBSET Batch /\ IsFiniteSet(Queued) /\ Spans(Queued) \in Nat
           /\ offered \in SUBSET Batch /\ Spans(offered) \in Nat
           /\ Out \in SUBSET Batch
           /\ \A b \in Batch : SpanCount[b] \in Nat
           /\ Spans({}) = 0
<1>1. Buffered \in SUBSET Batch /\ Queued \in SUBSET Batch
  BY Elements DEF TypeOK, Buffered, Queued
<1>2. IsFiniteSet(Buffered) /\ IsFiniteSet(Queued) /\ IsFiniteSet(offered)
  <2>1. Buffered \in SUBSET offered /\ Queued \in SUBSET offered /\ IsFiniteSet(offered)
    BY DEF PlaceInv
  <2>2. QED
    BY <2>1, FS_Subset
<1>3. Spans({}) = 0
  BY FS_EmptySet, SpansAt
<1>4. Out \in SUBSET Batch
  BY DEF TypeOK, Export, Out
<1>5. QED
  BY <1>1, <1>2, <1>3, <1>4, SpansTyped, PipelineConstants DEF TypeOK

\* The amounts in the equation.
LEMMA Amounts ==
    ASSUME TypeOK, AccountInv
    PROVE  /\ tracesExported \in Int /\ tracesDropped \in Int /\ pendingSpanCount \in Int
           /\ Spans(Buffered) \in Nat /\ Spans(Queued) \in Nat /\ Spans(offered) \in Nat
           /\ \A b \in Batch : SpanCount[b] \in Nat
           /\ pendingSpanCount = Spans(Buffered)
           /\ tracesExported + tracesDropped + pendingSpanCount + Spans(Queued)
                  = Spans(offered)
BY PlaceTypes DEF AccountInv, CountInv, TypeOK

\* A result callback for a batch that has had none.
LEMMA CalledBack ==
    ASSUME TypeOK, PlaceInv, NEW b \in Batch, b \notin Done,
           callbacks' = [callbacks EXCEPT ![b] = @ + 1]
    PROVE  Done' = Done \cup {b} /\ \A c \in Batch : callbacks'[c] \in {0, 1}
<1>1. \A c \in Batch : callbacks'[c] = IF c = b THEN 1 ELSE callbacks[c]
  BY DEF TypeOK, Done
<1>2. QED
  BY <1>1 DEF PlaceInv, Done

\* A batch handed to the delegate.
LEMMA Issued ==
    ASSUME TypeOK, PlaceInv, NEW b \in Batch, b \notin Out, IssueBatch(b)
    PROVE  /\ Out' = Out \cup {b}
           /\ \A e, f \in inFlight' : e.batch = f.batch => e = f
<1> DEFINE new == [batch |-> b, generation |-> generation, key |-> delegateKey',
                   probe |-> circuit = "HALF_OPEN"]
<1>1. inFlight' = inFlight \cup {new} /\ new.batch = b
  BY DEF IssueBatch
<1> HIDE DEF new
<1>2. Out' = Out \cup {b}
  BY <1>1 DEF Out
<1>3. QED
  BY <1>1, <1>2 DEF Out, PlaceInv

\* From the delegate to the callback.
LEMMA AnswerPlaces ==
    ASSUME TypeOK, AccountInv, NEW e \in inFlight, Answered(e)
    PROVE  AccountInv'
<1> USE DEF AccountInv
<1>1. e.batch \in Batch /\ e.batch \in Out /\ e.batch \notin Done
  BY DEF TypeOK, Export, Out, PlaceInv
<1>2. /\ UNCHANGED <<offered, pendingBatches, pendingSpanCount, flushQueue, shut,
                     tracesExported, tracesDropped>>
      /\ inFlight' = inFlight \ {e}
  BY DEF Answered
<1>3. Done' = Done \cup {e.batch} /\ \A c \in Batch : callbacks'[c] \in {0, 1}
  BY <1>1, CalledBack DEF Answered
<1>4. Out' = Out \ {e.batch}
  BY <1>2 DEF Out, PlaceInv
<1>5. Buffered' = Buffered /\ Queued' = Queued
  BY <1>2 DEF Buffered, Queued
<1>6. PlaceInv'
  BY <1>1, <1>2, <1>3, <1>4, <1>5 DEF PlaceInv, Injective
<1>7. CountInv'
  BY <1>2, <1>5 DEF CountInv
<1>8. QED
  BY <1>6, <1>7

\* From the buffer to the flush loop, which is not running.
LEMMA StartFlushPlaces ==
    ASSUME TypeOK, AccountInv, ~Busy, StartFlush,
           UNCHANGED <<offered, inFlight, callbacks, tracesExported, tracesDropped>>
    PROVE  AccountInv'
<1> USE DEF AccountInv
<1>1. /\ flushQueue = <<>> /\ pendingBatches' = <<>> /\ flushQueue' = pendingBatches
      /\ pendingSpanCount' = 0
  BY DEF Busy, Flushing, StartFlush
<1>2. Queued = {} /\ Buffered' = {} /\ Queued' = Buffered
  BY <1>1 DEF Buffered, Queued, ToSet
<1>3. Out' = Out /\ Done' = Done
  BY DEF Out, Done
<1>4. PlaceInv'
  BY <1>1, <1>2, <1>3 DEF PlaceInv, Injective
<1>5. CountInv'
  <2>1. Spans({}) = 0 /\ Len(pendingBatches') = 0
    BY <1>1, PlaceTypes
  <2>2. tracesExported' + tracesDropped' + pendingSpanCount' + Spans(Queued')
            = Spans(offered')
    BY <1>1, <1>2, <2>1 DEF CountInv, TypeOK
  <2>3. QED
    BY <1>1, <1>2, <2>1, <2>2 DEF CountInv
<1>6. QED
  BY <1>4, <1>5

\* A new batch enters the buffer.
LEMMA BufferPlaces ==
    ASSUME TypeOK, AccountInv, NEW b \in Batch, ExportBuffered(b)
    PROVE  AccountInv'
<1> USE DEF AccountInv
<1>1. /\ ~Evicting /\ ~shut /\ b \notin offered /\ offered' = offered \cup {b}
      /\ pendingBatches' = Append(pendingBatches, b)
      /\ pendingSpanCount' = pendingSpanCount + SpanCount[b]
      /\ UNCHANGED <<flushQueue, inFlight, shut, callbacks, tracesExported,
                     tracesDropped>>
  BY DEF ExportBuffered, Offer, Busy
<1>2. Out' = Out /\ Done' = Done /\ Queued' = Queued
  BY <1>1 DEF Out, Done, Queued
<1>3. b \notin Buffered \cup Queued \cup Out \cup Done
  BY <1>1 DEF PlaceInv
<1>4. /\ Buffered' = Buffered \cup {b} /\ Injective(pendingBatches')
      /\ Len(pendingBatches') = Len(pendingBatches) + 1
      /\ pendingBatches'[Len(pendingBatches')] = b
  BY <1>1, <1>3, Appended DEF TypeOK, PlaceInv, Buffered
<1>5. /\ Spans(Buffered') = Spans(Buffered) + SpanCount[b]
      /\ Spans(offered') = Spans(offered) + SpanCount[b] /\ IsFiniteSet(offered')
  <2>1. IsFiniteSet(offered) /\ IsFiniteSet(Buffered)
    BY PlaceTypes DEF PlaceInv
  <2>2. QED
    BY <1>1, <1>3, <1>4, <2>1, PlaceTypes, SpansWith
<1>6. PlaceInv'
  BY <1>1, <1>2, <1>3, <1>4, <1>5 DEF PlaceInv, Injective
<1>7. CountInv'
  <2>1. SpanCount[b] \in Nat
    BY PlaceTypes
  <2>2. Len(pendingBatches) \in Nat /\ MaxPendingSpans \in Nat
    BY Elements, PipelineConstants DEF TypeOK
  <2>3. Len(pendingBatches') > 2 =>
            pendingSpanCount' - SpanCount[pendingBatches'[Len(pendingBatches')]]
                <= MaxPendingSpans
    BY <1>1, <1>4, <2>1, <2>2 DEF Evicting, TypeOK
  <2>4. tracesExported' + tracesDropped' + pendingSpanCount' + Spans(Queued')
           = Spans(offered')
    <3>1. /\ tracesExported' = tracesExported /\ tracesDropped' = tracesDropped
          /\ pendingSpanCount' = pendingSpanCount + SpanCount[b]
          /\ Spans(Queued') = Spans(Queued)
          /\ Spans(offered') = Spans(offered) + SpanCount[b]
      BY <1>1, <1>2, <1>5
    <3>8. /\ tracesExported \in Int /\ tracesDropped \in Int
          /\ pendingSpanCount \in Int /\ Spans(Queued) \in Nat
          /\ tracesExported + tracesDropped + pendingSpanCount + Spans(Queued)
                 = Spans(offered)
      BY Amounts
    <3>9. QED
      BY <2>1, <3>1, <3>8
  <2>5. pendingSpanCount' = Spans(Buffered')
    BY <1>1, <1>5 DEF CountInv
  <2>6. QED
    BY <1>1, <2>3, <2>4, <2>5 DEF CountInv
<1>8. QED
  BY <1>6, <1>7

\* A new batch is refused, or issued at once.
LEMMA ExportPlaces ==
    ASSUME TypeOK, AccountInv, NEW b \in Batch, ExportRefused(b) \/ ExportIssued(b)
    PROVE  AccountInv'
<1> USE DEF AccountInv
<1>1. /\ b \notin offered /\ offered' = offered \cup {b}
      /\ UNCHANGED <<pendingBatches, pendingSpanCount, flushQueue, shut>>
  BY DEF ExportRefused, ExportIssued, Offer
<1>2. b \notin Buffered \cup Queued \cup Out \cup Done
  BY <1>1 DEF PlaceInv
<1>3. \/ /\ Done' = Done \cup {b} /\ Out' = Out
         /\ tracesDropped' = tracesDropped + SpanCount[b]
         /\ UNCHANGED <<tracesExported, inFlight>>
         /\ \A c \in Batch : callbacks'[c] \in {0, 1}
      \/ /\ Out' = Out \cup {b} /\ Done' = Done
         /\ tracesExported' = tracesExported + SpanCount[b]
         /\ UNCHANGED <<tracesDropped, callbacks>>
         /\ \A e, f \in inFlight' : e.batch = f.batch => e = f
  <2>1. CASE ExportRefused(b)
    BY <1>2, <2>1, CalledBack DEF ExportRefused, DropBatch, Out
  <2>2. CASE ExportIssued(b)
    <3>1. IssueBatch(b) /\ UNCHANGED <<tracesDropped, callbacks>>
      BY <2>2 DEF ExportIssued
    <3>2. QED
      BY <1>2, <3>1, Issued DEF IssueBatch, Done
  <2>3. QED
    BY <2>1, <2>2
<1>4. Buffered' = Buffered /\ Queued' = Queued
  BY <1>1 DEF Buffered, Queued
<1>5. Spans(offered') = Spans(offered) + SpanCount[b] /\ IsFiniteSet(offered')
  BY <1>1, PlaceTypes, SpansWith DEF PlaceInv
<1>6. PlaceInv'
  <2>1. /\ \A c \in Batch : callbacks'[c] \in {0, 1}
        /\ \A e, f \in inFlight' : e.batch = f.batch => e = f
    BY <1>3 DEF PlaceInv
  <2>2. QED
    BY <1>1, <1>2, <1>3, <1>4, <1>5, <2>1 DEF PlaceInv, Injective
<1>7. CountInv'
  <2>1. tracesExported' + tracesDropped' + pendingSpanCount' + Spans(Queued')
           = Spans(offered')
    <3>1. SpanCount[b] \in Nat
      BY Amounts
    <3>2. QED
      BY <1>1, <1>3, <1>4, <1>5, <3>1, Amounts
  <2>2. QED
    BY <1>1, <1>4, <2>1 DEF CountInv
<1>8. QED
  BY <1>6, <1>7

\* The flush loop: to the callback or to the delegate.
LEMMA FlushPlaces ==
    ASSUME TypeOK, AccountInv, FlushRefused \/ FlushIssued
    PROVE  AccountInv'
<1> USE DEF AccountInv
<1> DEFINE b == Head(flushQueue)
<1>1. /\ flushQueue # <<>> /\ flushQueue' = Tail(flushQueue)
      /\ UNCHANGED <<offered, pendingBatches, pendingSpanCount, shut>>
  BY DEF FlushRefused, FlushIssued, Flushing
<1>2. /\ b \in Batch /\ b \in Queued /\ Queued' = Queued \ {b}
      /\ Injective(flushQueue')
  BY <1>1, TailTaken DEF TypeOK, PlaceInv, Queued
<1>3. b \notin Buffered \cup Out \cup Done
  BY <1>2 DEF PlaceInv
<1>4. \/ FlushRefused /\ DropBatch(b) /\ UNCHANGED <<inFlight, tracesExported>>
      \/ FlushIssued /\ IssueBatch(b) /\ UNCHANGED <<callbacks, tracesDropped>>
  BY DEF FlushRefused, FlushIssued
<1> HIDE DEF b
<1>5. \/ /\ Done' = Done \cup {b} /\ Out' = Out
         /\ tracesDropped' = tracesDropped + SpanCount[b]
         /\ UNCHANGED <<tracesExported, inFlight>>
         /\ \A c \in Batch : callbacks'[c] \in {0, 1}
      \/ /\ Out' = Out \cup {b} /\ Done' = Done
         /\ tracesExported' = tracesExported + SpanCount[b]
         /\ UNCHANGED <<tracesDropped, callbacks>>
         /\ \A e, f \in inFlight' : e.batch = f.batch => e = f
  <2>1. CASE DropBatch(b) /\ UNCHANGED <<inFlight, tracesExported>>
    BY <1>2, <1>3, <2>1, CalledBack DEF DropBatch, Out
  <2>2. CASE IssueBatch(b) /\ UNCHANGED <<callbacks, tracesDropped>>
    BY <1>2, <1>3, <2>2, Issued DEF IssueBatch, Done
  <2>3. QED
    BY <1>4, <2>1, <2>2
<1>6. Buffered' = Buffered
  BY <1>1 DEF Buffered
<1>7. Spans(Queued) = SpanCount[b] + Spans(Queued')
  BY <1>2, PlaceTypes, SpansWithout
<1>8. PlaceInv'
  <2>1. /\ \A c \in Batch : callbacks'[c] \in {0, 1}
        /\ \A e, f \in inFlight' : e.batch = f.batch => e = f
    BY <1>5 DEF PlaceInv
  <2>2. QED
    BY <1>1, <1>2, <1>3, <1>5, <1>6, <2>1 DEF PlaceInv, Injective
<1>9. CountInv'
  <2>1. Spans(Queued') \in Nat
    <3>1. Queued' \in SUBSET Batch /\ IsFiniteSet(Queued')
      BY <1>2, PlaceTypes, FS_Subset
    <3>2. QED
      BY <3>1, SpansTyped
  <2>2. tracesExported' + tracesDropped' + pendingSpanCount' + Spans(Queued')
           = Spans(offered')
    <3>1. SpanCount[b] \in Nat
      BY <1>2, Amounts
    <3>2. /\ \/ /\ tracesExported' = tracesExported
                /\ tracesDropped' = tracesDropped + SpanCount[b]
             \/ /\ tracesExported' = tracesExported + SpanCount[b]
                /\ tracesDropped' = tracesDropped
          /\ pendingSpanCount' = pendingSpanCount /\ Spans(offered') = Spans(offered)
      BY <1>1, <1>5
    <3>8. /\ tracesExported \in Int /\ tracesDropped \in Int
          /\ pendingSpanCount \in Int /\ Spans(Queued) \in Nat
          /\ tracesExported + tracesDropped + pendingSpanCount + Spans(Queued)
                 = Spans(offered)
      BY Amounts
    <3>9. QED
      BY <1>7, <2>1, <3>1, <3>2, <3>8
  <2>3. QED
    BY <1>1, <1>6, <2>2 DEF CountInv
<1>10. QED
  BY <1>8, <1>9

\* The eviction loop: from the buffer to the callback.
LEMMA EvictPlaces ==
    ASSUME TypeOK, AccountInv, EvictOldest
    PROVE  AccountInv'
<1> USE DEF AccountInv
<1> DEFINE b == Head(pendingBatches)
<1>1. /\ Len(pendingBatches) > 1 /\ pendingBatches' = Tail(pendingBatches)
      /\ pendingSpanCount' = pendingSpanCount - SpanCount[b] /\ DropBatch(b)
      /\ UNCHANGED <<offered, flushQueue, inFlight, shut, tracesExported>>
  BY DEF EvictOldest, Evicting
<1>2. pendingBatches # <<>>
  BY <1>1, Elements DEF TypeOK
<1>3. /\ b \in Batch /\ b \in Buffered /\ Buffered' = Buffered \ {b}
      /\ Injective(pendingBatches')
      /\ Len(pendingBatches') = Len(pendingBatches) - 1
      /\ pendingBatches'[Len(pendingBatches')] = pendingBatches[Len(pendingBatches)]
  BY <1>1, <1>2, TailTaken DEF TypeOK, PlaceInv, Buffered
<1> HIDE DEF b
<1>4. b \notin Queued \cup Out \cup Done
  BY <1>3 DEF PlaceInv
<1>5. /\ Done' = Done \cup {b} /\ \A c \in Batch : callbacks'[c] \in {0, 1}
      /\ tracesDropped' = tracesDropped + SpanCount[b]
  BY <1>1, <1>3, <1>4, CalledBack DEF DropBatch
<1>6. Queued' = Queued /\ Out' = Out
  BY <1>1 DEF Queued, Out
<1>7. Spans(Buffered) = SpanCount[b] + Spans(Buffered')
  BY <1>3, PlaceTypes, SpansWithout
<1>8. PlaceInv'
  BY <1>1, <1>3, <1>4, <1>5, <1>6 DEF PlaceInv, Injective
<1>9. CountInv'
  <2>1. Spans(Buffered') \in Nat
    <3>1. Buffered' \in SUBSET Batch /\ IsFiniteSet(Buffered')
      BY <1>3, PlaceTypes, FS_Subset
    <3>2. QED
      BY <3>1, SpansTyped
  <2>2. SpanCount[b] \in Nat /\ Len(pendingBatches) \in Nat /\ MaxPendingSpans \in Nat
    BY <1>3, PlaceTypes, Elements, PipelineConstants DEF TypeOK
  <2>3. pendingSpanCount' = Spans(Buffered')
    BY <1>1, <1>7, <2>1, <2>2 DEF CountInv
  <2>4. tracesExported' + tracesDropped' + pendingSpanCount' + Spans(Queued')
           = Spans(offered')
    <3>1. /\ tracesExported' = tracesExported
          /\ tracesDropped' = tracesDropped + SpanCount[b]
          /\ pendingSpanCount' = pendingSpanCount - SpanCount[b]
          /\ Spans(Queued') = Spans(Queued) /\ Spans(offered') = Spans(offered)
      BY <1>1, <1>5, <1>6
    <3>8. /\ tracesExported \in Int /\ tracesDropped \in Int
          /\ pendingSpanCount \in Int /\ Spans(Queued) \in Nat
          /\ tracesExported + tracesDropped + pendingSpanCount + Spans(Queued)
                 = Spans(offered)
      BY Amounts
    <3>9. QED
      BY <2>2, <3>1, <3>8
  <2>5. pendingBatches[Len(pendingBatches)] \in Batch
    BY <1>1, <2>2, Elements DEF TypeOK
  <2>6. Len(pendingBatches') > 2 =>
            pendingSpanCount' - SpanCount[pendingBatches'[Len(pendingBatches')]]
                <= MaxPendingSpans
    <3>1. SpanCount[pendingBatches[Len(pendingBatches)]] \in Nat
      BY <2>5, Amounts
    <3>2. Len(pendingBatches) > 2 =>
              pendingSpanCount - SpanCount[pendingBatches[Len(pendingBatches)]]
                  <= MaxPendingSpans
      BY DEF CountInv
    <3>3. /\ pendingSpanCount' = pendingSpanCount - SpanCount[b]
          /\ Len(pendingBatches') > 2 => Len(pendingBatches) > 2
      BY <1>1, <1>3, <2>2
    <3>4. pendingSpanCount \in Int
      BY Amounts
    <3>5. QED
      BY <1>3, <2>2, <3>1, <3>2, <3>3, <3>4
  <2>7. shut' => pendingBatches' = <<>>
    BY <1>1, <1>2 DEF CountInv
  <2>8. QED
    BY <2>3, <2>4, <2>6, <2>7 DEF CountInv
<1>10. QED
  BY <1>8, <1>9

\* A shutdown without a key: the whole buffer to the callbacks.
LEMMA ShutdownPlaces ==
    ASSUME TypeOK, AccountInv, ShutdownWithoutKey
    PROVE  AccountInv'
<1> USE DEF AccountInv
<1>1. /\ pendingBatches' = <<>> /\ pendingSpanCount' = 0
      /\ tracesDropped' = tracesDropped + pendingSpanCount
      /\ UNCHANGED <<offered, flushQueue, inFlight, tracesExported>>
      /\ callbacks' = [b \in Batch |->
             callbacks[b] + (IF b \in Buffered THEN 1 ELSE 0)]
  BY DEF ShutdownWithoutKey, Buffered
<1>2. Buffered' = {} /\ Queued' = Queued /\ Out' = Out
  BY <1>1 DEF Buffered, Queued, Out, ToSet
<1>3. \A b \in Batch : callbacks'[b] = IF b \in Buffered THEN 1 ELSE callbacks[b]
  BY <1>1 DEF TypeOK, PlaceInv, Done
<1>4. Done' = Done \cup Buffered /\ \A b \in Batch : callbacks'[b] \in {0, 1}
  BY <1>3, PlaceTypes DEF Done, PlaceInv
<1>5. PlaceInv'
  BY <1>1, <1>2, <1>4 DEF PlaceInv, Injective
<1>6. CountInv'
  <2>1. Spans({}) = 0 /\ Len(pendingBatches') = 0
    BY <1>1, PlaceTypes
  <2>2. tracesExported' + tracesDropped' + pendingSpanCount' + Spans(Queued')
           = Spans(offered')
    BY <1>1, <1>2, PlaceTypes DEF CountInv, TypeOK
  <2>3. QED
    BY <1>1, <1>2, <2>1, <2>2 DEF CountInv
<1>7. QED
  BY <1>5, <1>6

\* Steps that move no batch.
LEMMA AccountQuiet ==
    ASSUME AccountInv,
           UNCHANGED <<offered, pendingBatches, pendingSpanCount, flushQueue, inFlight,
                       shut, callbacks, tracesExported, tracesDropped>>
    PROVE  AccountInv'
BY DEF AccountInv, PlaceInv, CountInv, Buffered, Queued, Out, Done, Injective

\* Each action preserves the invariant.
LEMMA StepAccountInv == PipelineInv /\ AccountInv /\ [Next]_vars => AccountInv'
<1> SUFFICES ASSUME PipelineInv, AccountInv, [Next]_vars
             PROVE  AccountInv'
  OBVIOUS
<1>1. TypeOK
  BY DEF PipelineInv
<1>2. ASSUME ResolveAnonymousKey \/ ClaimKey \/ ForceFlush \/ ShutdownWithKey
      PROVE  AccountInv'
  <2>1. /\ ~Busy /\ StartFlush
        /\ UNCHANGED <<offered, inFlight, callbacks, tracesExported, tracesDropped>>
    BY <1>2 DEF ResolveAnonymousKey, ClaimKey, ForceFlush, ShutdownWithKey
  <2>2. QED
    BY <1>1, <2>1, StartFlushPlaces
<1>3. ASSUME NEW e \in inFlight,
             ExportSucceeds(e) \/ ExportFails(e) \/ StaleAnswer(e)
      PROVE  AccountInv'
  BY <1>1, <1>3, AnswerPlaces DEF ExportSucceeds, ExportFails, StaleAnswer
<1>4. ASSUME ProbeTimer \/ SetConfiguredKey \/ CoreShutsDown \/ UNCHANGED vars
      PROVE  AccountInv'
  BY <1>4, AccountQuiet
     DEF ProbeTimer, SetConfiguredKey, CoreShutsDown, vars, pipelineVars
<1>5. QED
  BY <1>1, <1>2, <1>3, <1>4, BufferPlaces, ExportPlaces, FlushPlaces, EvictPlaces,
     ShutdownPlaces, Zenon DEF Next

\* It holds at the start.
LEMMA InitAccountInv == Init => AccountInv
<1> SUFFICES ASSUME Init PROVE AccountInv
  OBVIOUS
<1>1. Buffered = {} /\ Queued = {} /\ Out = {} /\ Done = {}
  BY DEF Init, Buffered, Queued, Out, Done, ToSet
<1>2. PlaceInv
  BY <1>1, FS_EmptySet DEF Init, PlaceInv, Injective
<1>3. Spans({}) = 0
  BY FS_EmptySet, SpansAt
<1>4. CountInv
  BY <1>1, <1>3 DEF Init, CountInv
<1>5. QED
  BY <1>2, <1>4 DEF AccountInv

\* It holds in every state of every behaviour.
LEMMA AccountInvariant == Spec => [](PipelineInv /\ AccountInv)
BY InitAccountInv, StepAccountInv, InitPipelineInv, StepPipelineInv, PTL DEF Spec

\* Disjoint places that hold a batch once are one holder in all.
LEMMA HeldOnce ==
    ASSUME TypeOK, PlaceInv
    PROVE  EveryBatchHeldOnce
<1> SUFFICES ASSUME NEW b \in Batch
             PROVE  Holders(b) = (IF b \in offered THEN 1 ELSE 0)
  BY DEF EveryBatchHeldOnce
<1>1. Cardinality({i \in DOMAIN pendingBatches : pendingBatches[i] = b})
          = IF b \in Buffered THEN 1 ELSE 0
  BY PositionsOf DEF TypeOK, PlaceInv, Buffered
<1>2. Cardinality({i \in DOMAIN flushQueue : flushQueue[i] = b})
          = IF b \in Queued THEN 1 ELSE 0
  BY PositionsOf DEF TypeOK, PlaceInv, Queued
<1>3. Cardinality({e \in inFlight : e.batch = b}) = IF b \in Out THEN 1 ELSE 0
  <2>1. CASE b \in Out
    <3>1. PICK e \in inFlight : e.batch = b
      BY <2>1 DEF Out
    <3>2. {f \in inFlight : f.batch = b} = {e}
      BY <3>1 DEF PlaceInv
    <3>3. QED
      BY <2>1, <3>2, FS_Singleton
  <2>2. CASE b \notin Out
    <3>1. {f \in inFlight : f.batch = b} = {}
      BY <2>2 DEF Out
    <3>2. QED
      BY <2>2, <3>1, FS_EmptySet
  <2>3. QED
    BY <2>1, <2>2
<1>4. callbacks[b] = IF b \in Done THEN 1 ELSE 0
  BY DEF PlaceInv, Done
<1> DEFINE n == Cardinality({i \in DOMAIN pendingBatches : pendingBatches[i] = b})
           m == Cardinality({i \in DOMAIN flushQueue : flushQueue[i] = b})
           k == Cardinality({e \in inFlight : e.batch = b})
<1>5. Holders(b) = n + m + k + callbacks[b]
  BY DEF Holders
<1> HIDE DEF n, m, k
<1>6. n + m + k + callbacks[b] = (IF b \in offered THEN 1 ELSE 0)
  BY <1>1, <1>2, <1>3, <1>4 DEF PlaceInv, n, m, k
<1>7. QED
  BY <1>5, <1>6

\* The bound on the memory of the buffer.
LEMMA BufferFits ==
    ASSUME TypeOK, AccountInv
    PROVE  BufferBounded
<1>1. ASSUME Len(pendingBatches) > 2
      PROVE  Spans(ToSet(Front(pendingBatches))) <= MaxPendingSpans
  <2> DEFINE b == pendingBatches[Len(pendingBatches)]
  <2>1. /\ pendingBatches \in Seq(Batch) /\ Injective(pendingBatches)
        /\ pendingBatches # <<>> /\ b \in Buffered /\ b \in Batch
    <3>1. /\ pendingBatches \in Seq(Batch) /\ Injective(pendingBatches)
          /\ Len(pendingBatches) \in 1 .. Len(pendingBatches)
      BY <1>1, Elements DEF TypeOK, AccountInv, PlaceInv
    <3>2. QED
      BY <3>1, Elements DEF Buffered
  <2>2. ToSet(Front(pendingBatches)) = Buffered \ {b}
    BY <2>1, FrontTaken DEF Buffered
  <2>3. Spans(Buffered) = SpanCount[b] + Spans(Buffered \ {b})
    BY <2>1, PlaceTypes, SpansWithout DEF AccountInv
  <2>4. Buffered \ {b} \in SUBSET Batch /\ IsFiniteSet(Buffered \ {b})
    BY PlaceTypes, FS_Subset DEF AccountInv
  <2>5. Spans(Buffered \ {b}) \in Nat /\ SpanCount[b] \in Nat
    BY <2>1, <2>4, SpansTyped, PlaceTypes DEF AccountInv
  <2>6. pendingSpanCount - SpanCount[b] <= MaxPendingSpans
        /\ pendingSpanCount = Spans(Buffered)
    BY <1>1 DEF AccountInv, CountInv
  <2> HIDE DEF b
  <2>7. QED
    BY <2>2, <2>3, <2>5, <2>6
<1>2. QED
  BY <1>1 DEF BufferBounded, AccountInv, CountInv

\* Every batch given to export() is in exactly one place until its callback has
\* run once; the health counters and the buffer account for every span; and the
\* buffer without its newest batch fits MAX_PENDING_SPANS: across eviction,
\* refusal, a flush in which the circuit opens, late answers and shutdown.
THEOREM BatchesStayAccounted == Spec => []BatchesAccounted
<1>1. PipelineInv /\ AccountInv => BatchesAccounted
  <2> SUFFICES ASSUME PipelineInv, AccountInv PROVE BatchesAccounted
    OBVIOUS
  <2>1. EveryBatchHeldOnce /\ BufferBounded
    BY HeldOnce, BufferFits DEF PipelineInv, AccountInv
  <2>2. SpansAccountedOnce
    BY DEF AccountInv, CountInv, SpansAccountedOnce, Buffered, Queued
  <2>3. QED
    BY <2>1, <2>2 DEF BatchesAccounted
<1>2. QED
  BY <1>1, AccountInvariant, PTL
=============================================================================
