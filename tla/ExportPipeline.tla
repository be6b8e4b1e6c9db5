--------------------------- MODULE ExportPipeline ---------------------------
(***************************************************************************)
(* GlasstraceExporter (enriching-exporter.ts) around the circuit breaker,  *)
(* with the API key it authenticates by (otel-config.ts) and the exports   *)
(* the OTLP delegate has in flight.                                        *)
(*                                                                         *)
(* JavaScript runs each handler to completion.  Two handlers loop over     *)
(* batches and consult state at every iteration: bufferSpans evicts until  *)
(* the buffer fits, flushPending issues batch after batch.  Each iteration *)
(* is a step of its own here, and Busy keeps everything else out of the    *)
(* middle of a loop, except the one thing that can happen there: the       *)
(* delegate answering synchronously the export it was just given.          *)
(*                                                                         *)
(* Enrichment of the spans and the per-trace error store are left out: no  *)
(* branch of this control flow reads them.                                 *)
(***************************************************************************)
EXTENDS ExportCircuitBreaker, Sequences, FiniteSets, FiniteSetsExt, SequencesExt

CONSTANTS
    Batch,                  \* the batches the span processor will export
    SpanCount,              \* number of spans of each batch
    MaxPendingSpans,        \* MAX_PENDING_SPANS, 1024 in the code
    MaxKey,                 \* bound: keys 1 .. MaxKey, each claim moves to the next
    KeySources              \* which of the three registration paths to explore

ASSUME PipelineConstants ==
    /\ SpanCount \in [Batch -> Nat \ {0}]
    /\ MaxPendingSpans \in Nat
    /\ MaxKey \in Nat \ {0}
    /\ KeySources \subseteq {"key_file", "configured_anon", "configured_dev"}

API_KEY_PENDING == 0

VARIABLES
    keySource,          \* where registerGlasstrace() takes the first key from
    apiKey,             \* resolvedApiKey
    notified,           \* the first key's notifyApiKeyResolved() has run
    offered,            \* batches given to export() so far
    pendingBatches,
    pendingSpanCount,
    flushQueue,         \* what the running flushPending() loop has left
    issuing,            \* the batch its current iteration has issued, if any
    delegateKey,        \* key the delegate was built with
    inFlight,           \* exports the delegate has not answered
    shut,               \* shutdown() has been called
    coreStopped,        \* the core is SHUTTING_DOWN or SHUTDOWN (lifecycle.ts)
    callbacks,          \* how often each batch's resultCallback has run
    tracesExported,     \* health-collector.ts counters
    tracesDropped,
    straggled           \* history: an export was still unanswered when the
                        \* probe timer last fired

pipelineVars == <<keySource, apiKey, notified, offered, pendingBatches,
                  pendingSpanCount, flushQueue, issuing, delegateKey, inFlight,
                  shut, callbacks, tracesExported, tracesDropped>>
vars == <<breakerVars, pipelineVars, straggled, coreStopped>>

Spans(S) == MapThenSumSet(LAMBDA b : SpanCount[b], S)

\* An export in flight remembers the generation it was issued under, the key
\* of its delegate and whether the breaker admitted it as a probe.
Export == [batch : Batch, generation : Nat, key : 0 .. MaxKey, probe : BOOLEAN]

TypeOK ==
    /\ BreakerTypeOK
    /\ keySource \in KeySources
    /\ apiKey \in 0 .. MaxKey
    /\ notified \in BOOLEAN
    /\ offered \in SUBSET Batch
    /\ pendingBatches \in Seq(Batch)
    /\ pendingSpanCount \in Int
    /\ flushQueue \in Seq(Batch)
    /\ issuing \in SUBSET Batch
    /\ delegateKey \in 0 .. MaxKey
    /\ inFlight \in SUBSET Export
    /\ shut \in BOOLEAN
    /\ callbacks \in [Batch -> Nat]
    /\ tracesExported \in Int
    /\ tracesDropped \in Int
    /\ straggled \in BOOLEAN
    /\ coreStopped \in BOOLEAN

Init ==
    /\ BreakerInit
    /\ keySource \in KeySources
    /\ apiKey = API_KEY_PENDING
    /\ notified = FALSE
    /\ offered = {}
    /\ pendingBatches = <<>>
    /\ pendingSpanCount = 0
    /\ flushQueue = <<>>
    /\ issuing = {}
    /\ delegateKey = API_KEY_PENDING
    /\ inFlight = {}
    /\ shut = FALSE
    /\ callbacks = [b \in Batch |-> 0]
    /\ tracesExported = 0
    /\ tracesDropped = 0
    /\ straggled = FALSE
    /\ coreStopped = FALSE

-----------------------------------------------------------------------------
(* Loops in progress. *)

\* Mutant: the limit is applied to batches, not to spans.
Evicting_CountsBatches ==
    Len(pendingBatches) > MaxPendingSpans /\ Len(pendingBatches) > 1

Evicting == pendingSpanCount > MaxPendingSpans /\ Len(pendingBatches) > 1
Flushing == flushQueue # <<>>
Busy == Evicting \/ Flushing

\* Mutant: the first delegate is kept for the life of the exporter.
EnsureDelegate_Reuses ==
    delegateKey' = IF delegateKey = API_KEY_PENDING THEN apiKey' ELSE delegateKey

\* ensureDelegate(): rebuilt when the key it was built with is not current.
EnsureDelegate == delegateKey' = apiKey'

\* recordSpansDropped(n) and resultCallback({ code: 0 }) for one batch.
DropBatch(b) ==
    /\ tracesDropped' = tracesDropped + SpanCount[b]
    /\ callbacks' = [callbacks EXCEPT ![b] = @ + 1]

\* exporter.export(...) followed by recordSpansExported(n).
IssueBatch(b) ==
    /\ inFlight' = inFlight \cup
           {[batch |-> b, generation |-> generation, key |-> delegateKey',
             probe |-> circuit = "HALF_OPEN"]}
    /\ tracesExported' = tracesExported + SpanCount[b]

\* Mutant: the span count survives the flush.
StartFlush_KeepsCount ==
    /\ flushQueue' = pendingBatches
    /\ issuing' = {}
    /\ pendingBatches' = <<>>
    /\ UNCHANGED pendingSpanCount
    /\ IF pendingBatches = <<>> THEN UNCHANGED delegateKey ELSE EnsureDelegate

\* flushPending(): take the whole buffer; the loop itself is FlushNext.
StartFlush ==
    /\ flushQueue' = pendingBatches
    /\ issuing' = {}
    /\ pendingBatches' = <<>>
    /\ pendingSpanCount' = 0
    /\ IF pendingBatches = <<>> THEN UNCHANGED delegateKey ELSE EnsureDelegate

-----------------------------------------------------------------------------
(* export(spans, resultCallback) *)

\* A fresh batch; nothing reaches the exporter once its processor is shut down.
\* A processor wired by hand may export before registerGlasstrace() has run.
Offer(b) ==
    /\ ~Busy
    /\ ~shut
    /\ b \notin offered
    /\ offered' = offered \cup {b}

\* No key yet: bufferSpans().  Its re-read of the key is the same synchronous
\* turn as the first read and never differs.
ExportBuffered(b) ==
    /\ Offer(b)
    /\ apiKey = API_KEY_PENDING
    /\ pendingBatches' = Append(pendingBatches, b)
    /\ pendingSpanCount' = pendingSpanCount + SpanCount[b]
    /\ UNCHANGED <<breakerVars, keySource, apiKey, notified, flushQueue,
                   issuing, delegateKey, inFlight, shut, callbacks,
                   tracesExported, tracesDropped, straggled, coreStopped>>

\* One turn of the eviction loop of bufferSpans().
EvictOldest ==
    /\ Evicting
    /\ pendingBatches' = Tail(pendingBatches)
    /\ pendingSpanCount' = pendingSpanCount - SpanCount[Head(pendingBatches)]
    /\ DropBatch(Head(pendingBatches))
    /\ UNCHANGED <<breakerVars, keySource, apiKey, notified, offered,
                   flushQueue, issuing, delegateKey, inFlight, shut,
                   tracesExported, straggled, coreStopped>>

ExportRefused(b) ==
    /\ Offer(b)
    /\ apiKey # API_KEY_PENDING
    /\ Refuse
    /\ DropBatch(b)
    /\ UNCHANGED <<keySource, apiKey, notified, pendingBatches,
                   pendingSpanCount, flushQueue, issuing, delegateKey,
                   inFlight, shut, tracesExported, straggled, coreStopped>>

ExportIssued(b) ==
    /\ Offer(b)
    /\ apiKey # API_KEY_PENDING
    /\ Admit
    /\ UNCHANGED apiKey
    /\ EnsureDelegate
    /\ IssueBatch(b)
    /\ UNCHANGED <<keySource, notified, pendingBatches, pendingSpanCount,
                   flushQueue, issuing, shut, callbacks, tracesDropped,
                   straggled, coreStopped>>

-----------------------------------------------------------------------------
(* The flushPending() loop. *)

FlushRefused ==
    /\ Flushing
    /\ Refuse
    /\ DropBatch(Head(flushQueue))
    /\ flushQueue' = Tail(flushQueue)
    /\ issuing' = {}
    /\ UNCHANGED <<keySource, apiKey, notified, offered, pendingBatches,
                   pendingSpanCount, delegateKey, inFlight, shut,
                   tracesExported, straggled, coreStopped>>

\* Mutant: a flush does not consult the breaker.
FlushIssued_IgnoresBreaker ==
    /\ Flushing
    /\ UNCHANGED <<breakerVars, delegateKey>>
    /\ IssueBatch(Head(flushQueue))
    /\ flushQueue' = Tail(flushQueue)
    /\ issuing' = {Head(flushQueue)}
    /\ UNCHANGED <<keySource, apiKey, notified, offered, pendingBatches,
                   pendingSpanCount, shut, callbacks, tracesDropped,
                   straggled, coreStopped>>

FlushIssued ==
    /\ Flushing
    /\ Admit
    /\ UNCHANGED delegateKey
    /\ IssueBatch(Head(flushQueue))
    /\ flushQueue' = Tail(flushQueue)
    /\ issuing' = {Head(flushQueue)}
    /\ UNCHANGED <<keySource, apiKey, notified, offered, pendingBatches,
                   pendingSpanCount, shut, callbacks, tracesDropped,
                   straggled, coreStopped>>

FlushNext == FlushRefused \/ FlushIssued

-----------------------------------------------------------------------------
(* The delegate answers an export: the completion callback. *)

MayAnswer(e) ==
    /\ e \in inFlight
    /\ ~Evicting
    /\ Flushing => e.batch \in issuing

Answered(e) ==
    /\ inFlight' = inFlight \ {e}
    /\ callbacks' = [callbacks EXCEPT ![e.batch] = @ + 1]
    /\ UNCHANGED <<keySource, apiKey, notified, offered, pendingBatches,
                   pendingSpanCount, flushQueue, issuing, delegateKey, shut,
                   tracesExported, tracesDropped, straggled, coreStopped>>

ExportSucceeds(e) ==
    /\ MayAnswer(e)
    /\ e.generation = generation
    /\ RecordSuccess
    /\ Answered(e)

ExportFails(e) ==
    /\ MayAnswer(e)
    /\ e.generation = generation
    /\ RecordFailure
    /\ Answered(e)

\* Mutant: a stale answer is discarded together with its callback.
StaleAnswer_NoCallback(e) ==
    /\ MayAnswer(e)
    /\ e.generation # generation
    /\ inFlight' = inFlight \ {e}
    /\ UNCHANGED <<breakerVars, keySource, apiKey, notified, offered,
                   pendingBatches, pendingSpanCount, flushQueue, issuing,
                   delegateKey, shut, callbacks, tracesExported,
                   tracesDropped, straggled, coreStopped>>

\* Issued under a key that has been rotated away: reported, not recorded.
StaleAnswer(e) ==
    /\ MayAnswer(e)
    /\ e.generation # generation
    /\ UNCHANGED breakerVars
    /\ Answered(e)

Answer(e) == ExportSucceeds(e) \/ ExportFails(e) \/ StaleAnswer(e)

ProbeTimer ==
    /\ ~Busy
    /\ ProbeTimerFires
    /\ straggled' = (inFlight # {})
    /\ UNCHANGED <<pipelineVars, coreStopped>>

-----------------------------------------------------------------------------
(* The key.  setResolvedApiKey() is a rotation only if a key was set before. *)

\* registerGlasstrace() with a configured key: stored, nobody is notified.
SetConfiguredKey ==
    /\ ~Busy
    /\ keySource # "key_file"
    /\ apiKey = API_KEY_PENDING
    /\ apiKey' = 1
    /\ UNCHANGED <<breakerVars, keySource, notified, offered, pendingBatches,
                   pendingSpanCount, flushQueue, issuing, delegateKey,
                   inFlight, shut, callbacks, tracesExported, tracesDropped,
                   straggled, coreStopped>>

\* Mutant: the key is stored but the exporter is not notified.
ResolveAnonymousKey_Silent ==
    /\ ~Busy
    /\ ~coreStopped
    /\ ~notified
    /\ keySource # "configured_dev"
    /\ keySource = "configured_anon" => apiKey = 1
    /\ apiKey' = 1
    /\ notified' = TRUE
    /\ UNCHANGED <<breakerVars, keySource, offered, pendingBatches,
                   pendingSpanCount, flushQueue, issuing, delegateKey,
                   inFlight, shut, callbacks, tracesExported, tracesDropped,
                   straggled, coreStopped>>

\* Background task of the anonymous paths: set (again, if it was configured)
\* and notify in the same turn.  isCurrentRegistration(), asked again after the
\* awaited key: once the core shuts down the key is dropped.
ResolveAnonymousKey ==
    /\ ~Busy
    /\ ~coreStopped
    /\ ~notified
    /\ keySource # "configured_dev"
    /\ keySource = "configured_anon" => apiKey = 1
    /\ apiKey' = 1
    /\ notified' = TRUE
    /\ StartFlush
    /\ UNCHANGED <<breakerVars, keySource, offered, inFlight, shut, callbacks,
                   tracesExported, tracesDropped, straggled, coreStopped>>

\* An account claim reported by the backend replaces the key and notifies.
\* backgroundInit() bails out once the core shuts down; the claim callback of a
\* heartbeat that is still awaiting its answer does not.
ClaimKey ==
    /\ ~Busy
    /\ keySource # "configured_dev" => notified
    /\ apiKey # API_KEY_PENDING
    /\ apiKey < MaxKey
    /\ apiKey' = apiKey + 1
    /\ ResetForKeyRotation
    /\ StartFlush
    /\ UNCHANGED <<keySource, notified, offered, inFlight, shut, callbacks,
                   tracesExported, tracesDropped, straggled, coreStopped>>

-----------------------------------------------------------------------------
(* The end of the core. *)

\* The shutdown coordinator moves the core to SHUTTING_DOWN, at any time after
\* the configured key was stored.  Its hooks reach the exporter only through the
\* span processor: provider.shutdown() when the SDK owns the provider, at most
\* forceFlush() when it coexists with another one.
CoreShutsDown ==
    /\ ~Busy
    /\ ~coreStopped
    /\ keySource # "key_file" => apiKey # API_KEY_PENDING
    /\ coreStopped' = TRUE
    /\ UNCHANGED <<breakerVars, pipelineVars, straggled>>

-----------------------------------------------------------------------------
(* forceFlush() and shutdown(), called by the span processor. *)

ForceFlush ==
    /\ ~Busy
    /\ apiKey # API_KEY_PENDING
    /\ pendingBatches # <<>>
    /\ UNCHANGED apiKey
    /\ StartFlush
    /\ UNCHANGED <<breakerVars, keySource, notified, offered, inFlight, shut,
                   callbacks, tracesExported, tracesDropped,
                   straggled, coreStopped>>

ShutdownWithKey ==
    /\ ~Busy
    /\ ~shut
    /\ apiKey # API_KEY_PENDING
    /\ shut' = TRUE
    /\ UNCHANGED apiKey
    /\ StartFlush
    /\ UNCHANGED <<breakerVars, keySource, notified, offered, inFlight,
                   callbacks, tracesExported, tracesDropped,
                   straggled, coreStopped>>

\* The key never came: every buffered batch is dropped and answered.
ShutdownWithoutKey ==
    /\ ~Busy
    /\ ~shut
    /\ apiKey = API_KEY_PENDING
    /\ shut' = TRUE
    /\ tracesDropped' = tracesDropped + pendingSpanCount
    /\ callbacks' = [b \in Batch |->
           callbacks[b] + (IF b \in ToSet(pendingBatches) THEN 1 ELSE 0)]
    /\ pendingBatches' = <<>>
    /\ pendingSpanCount' = 0
    /\ UNCHANGED <<breakerVars, keySource, apiKey, notified, offered,
                   flushQueue, issuing, delegateKey, inFlight, tracesExported,
                   straggled, coreStopped>>

-----------------------------------------------------------------------------
Next ==
    \/ \E b \in Batch : ExportBuffered(b)
    \/ \E b \in Batch : ExportRefused(b)
    \/ \E b \in Batch : ExportIssued(b)
    \/ EvictOldest
    \/ FlushRefused
    \/ FlushIssued
    \/ \E e \in inFlight : ExportSucceeds(e)
    \/ \E e \in inFlight : ExportFails(e)
    \/ \E e \in inFlight : StaleAnswer(e)
    \/ ProbeTimer
    \/ SetConfiguredKey
    \/ ResolveAnonymousKey
    \/ ClaimKey
    \/ CoreShutsDown
    \/ ForceFlush
    \/ ShutdownWithKey
    \/ ShutdownWithoutKey

Spec == Init /\ [][Next]_vars

\* Every loop ends (synchronous code), the delegate answers every export (the
\* OTLP exporter has its own timeout), an armed timer fires, registration
\* stores a configured key, and the anonymous key resolves unless the core shuts
\* down first: getOrCreateAnonKey() falls back to an ephemeral key.  Nothing is
\* assumed of offers, claims, the core's shutdown, forceFlush() or shutdown():
\* a span processor calls the last only if its own flush did not time out.
Fairness ==
    /\ WF_vars(EvictOldest)
    /\ WF_vars(FlushNext)
    /\ \A b \in Batch : WF_vars(\E e \in inFlight : e.batch = b /\ Answer(e))
    /\ WF_vars(ProbeTimer)
    /\ WF_vars(SetConfiguredKey)
    /\ WF_vars(ResolveAnonymousKey)

FairSpec == Spec /\ Fairness

-----------------------------------------------------------------------------
(* Safety of the breaker among its exports. *)

\* The completion callback trusts a result whose generation is current; such
\* an export must have been sent with the key that is current.  This joins
\* three places: the generation bump, ensureDelegate() and the order of the
\* two in setResolvedApiKey() / notifyApiKeyResolved().
CurrentGenerationUsesCurrentKey ==
    \A e \in inFlight : e.generation = generation => e.key = apiKey

\* While HALF_OPEN at most one export is out: the probe, and the permit is
\* taken exactly as long as it is out.  A permit taken with no probe out would
\* block every export for good.  Exports that outlived the backoff are the one
\* exception, see OnlyProbeDecides.
SingleProbe ==
    circuit = "HALF_OPEN" /\ ~straggled =>
        /\ halfOpenProbeInFlight <=> inFlight # {}
        /\ \A e, f \in inFlight : e = f
        /\ \A e \in inFlight : e.probe

\* README.md, "Recovery": the probe's own result ends the HALF_OPEN state,
\* unless the key is rotated under it.
OnlyProbeDecides ==
    [][circuit = "HALF_OPEN" /\ circuit' # "HALF_OPEN" =>
           \/ apiKey' # apiKey
           \/ \E e \in inFlight \ inFlight' : e.probe]_vars

\* The wait never shrinks within an outage, and it grows only when a probe
\* has failed; failures counted while OPEN do not lengthen it.  Every
\* reopening does, up to the maximum.
BackoffGrowsByProbe ==
    [][circuit # "CLOSED" /\ circuit' # "CLOSED" =>
           /\ currentBackoff' >= currentBackoff
           /\ currentBackoff' # currentBackoff /\ ~straggled =>
                  \E e \in inFlight \ inFlight' : e.probe
           /\ circuit = "HALF_OPEN" /\ circuit' = "OPEN" =>
                  currentBackoff' > currentBackoff \/ currentBackoff' = MaxBackoff]_vars

-----------------------------------------------------------------------------
(* Safety of the exporter. *)

\* Every batch given to export() is in exactly one place: buffered, in the
\* flush loop, with the delegate, or answered once.  A span processor stops
\* exporting when a callback is lost and misbehaves when one comes twice.
Holders(b) ==
    Cardinality({i \in DOMAIN pendingBatches : pendingBatches[i] = b})
    + Cardinality({i \in DOMAIN flushQueue : flushQueue[i] = b})
    + Cardinality({e \in inFlight : e.batch = b})
    + callbacks[b]

EveryBatchHeldOnce ==
    \A b \in Batch : Holders(b) = (IF b \in offered THEN 1 ELSE 0)

\* The health counters and the buffer account for every span offered, each
\* span exactly once, across eviction, refusal, flush and shutdown.
SpansAccountedOnce ==
    /\ pendingSpanCount = Spans(ToSet(pendingBatches))
    /\ tracesExported + tracesDropped + pendingSpanCount
           + Spans(ToSet(flushQueue)) = Spans(offered)

\* What the buffer holds besides its newest batch fits MaxPendingSpans, unless
\* that is a single batch that was too large by itself, and a shut exporter
\* holds nothing: this is the bound on memory while the key is pending.
BufferBounded ==
    /\ Len(pendingBatches) > 2 =>
           Spans(ToSet(Front(pendingBatches))) <= MaxPendingSpans
    /\ shut => pendingBatches = <<>>

\* The conservation laws of the exporter together: batches, spans, memory.
BatchesAccounted == EveryBatchHeldOnce /\ SpansAccountedOnce /\ BufferBounded

\* No batch is handed to the delegate while the circuit is OPEN, neither by
\* export() nor by a flush in the middle of which the circuit opened.
NothingIssuedWhileOpen ==
    [][inFlight' \ inFlight # {} => circuit # "OPEN"]_vars

-----------------------------------------------------------------------------
(* Liveness. *)

\* Still buffered, and nobody is left who has to announce a key: storing a
\* configured development key notifies nobody, and an anonymous key that comes
\* after the core's shutdown is dropped.  Only an account claim, or a span
\* processor that calls forceFlush() or shutdown(), would answer the batch.
Stranded(b) ==
    /\ b \in ToSet(pendingBatches)
    /\ keySource = "configured_dev" \/ (coreStopped /\ ~notified)

\* Every batch given to export() is answered in the end, whatever the key, the
\* circuit and the core do meanwhile, unless it was stranded.
EveryBatchAnswered ==
    \A b \in Batch : b \in offered ~> (callbacks[b] = 1 \/ Stranded(b))

\* An OPEN circuit is left: it is never stuck without a probe.
OpenIsLeft == circuit = "OPEN" ~> circuit # "OPEN"

\* A probe permit is given back: HALF_OPEN never blocks exports for good.
ProbePermitReturned == halfOpenProbeInFlight ~> ~halfOpenProbeInFlight

\* The two together: no outage lasts for good.
OutagesEnd == OpenIsLeft /\ ProbePermitReturned
=============================================================================
