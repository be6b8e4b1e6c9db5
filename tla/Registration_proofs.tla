------------------------- MODULE Registration_proofs -------------------------
(***************************************************************************)
(* The core state and the degradation registry of lifecycle.ts never       *)
(* disagree, and the registry never disagrees with the circuit breaker,    *)
(* whatever registration, init, claims, the breaker and the shutdown do in *)
(* whatever order.                                                         *)
(*                                                                         *)
(* executeShutdown() skips no hook and keeps their order while hooks are   *)
(* inserted into the array it walks, and no init that comes back during    *)
(* the shutdown starts the heartbeat.                                      *)
(***************************************************************************)
EXTENDS Registration, FiniteSetTheorems, SequenceTheorems, TLAPS

\* RegistryWins as it is used in the proof: only a core without degradation
\* sources is ACTIVE.
Agrees(c, sources) == c = "ACTIVE" => sources = {}

\* The two ways to say it are equivalent.
LEMMA RegistryWinsAgrees == RegistryWins <=> Agrees(core, degradationSources)
BY DEF RegistryWins, Agrees, Ready

\* setCoreState() with unchanged sources: the catch-up on entering ACTIVE.
LEMMA CoreAfterAgrees ==
    ASSUME NEW from, NEW to, NEW sources, Agrees(from, sources)
    PROVE  Agrees(CoreAfter(from, to, sources), sources)
BY DEF Agrees, CoreAfter

\* recomputeCoreFromDegradationSources(), whatever the core was.
LEMMA RecomputedAgrees ==
    ASSUME NEW from, NEW sources
    PROVE  Agrees(Recomputed(from, sources), sources)
<1>1. ASSUME from = "ACTIVE", sources # {}
      PROVE  Recomputed(from, sources) = "ACTIVE_DEGRADED"
  BY <1>1 DEF Recomputed, CoreAfter, Guarded, VALID_CORE_TRANSITIONS
<1>2. QED
  BY <1>1 DEF Agrees, Recomputed

\* Steps of the coordinator change the core by setCoreState() only.
LEMMA IteratorAgrees ==
    ASSUME NEW i, NEW coreNow, Agrees(coreNow, degradationSources),
           IteratorAt(i, coreNow)
    PROVE  Agrees(core', degradationSources)
BY CoreAfterAgrees DEF IteratorAt

\* So do the triggers of the shutdown.
LEMMA TriggerAgrees ==
    ASSUME Agrees(core, degradationSources), StartShutdown \/ ShutdownAgain
    PROVE  Agrees(core', degradationSources)
<1>1. CASE StartShutdown
  BY <1>1, CoreAfterAgrees, IteratorAgrees DEF StartShutdown
<1>2. CASE ShutdownAgain
  BY <1>2 DEF ShutdownAgain
<1>3. QED
  BY <1>1, <1>2

\* What backgroundInit() does to the core after the init request.
LEMMA InitCoreAgrees ==
    ASSUME NEW ok, Agrees(core, degradationSources)
    PROVE  Agrees(CoreAfterInit(ok), degradationSources)
<1> DEFINE resolved == IF core = "KEY_PENDING"
                       THEN CoreAfter(core, "KEY_RESOLVED", degradationSources)
                       ELSE core
<1>1. Agrees(resolved, degradationSources)
  BY CoreAfterAgrees
<1>2. CoreAfterInit(ok) =
          IF resolved = "KEY_RESOLVED"
          THEN CoreAfter(resolved, IF ok THEN "ACTIVE" ELSE "ACTIVE_DEGRADED",
                         degradationSources)
          ELSE resolved
  BY DEF CoreAfterInit
<1> HIDE DEF resolved
<1>3. QED
  BY <1>1, <1>2, CoreAfterAgrees

-----------------------------------------------------------------------------
RegistryInv == RegistryWins /\ CircuitSourceInStep

\* Steps that touch neither the core nor the registry nor the circuit.
LEMMA QuietStep ==
    ASSUME RegistryInv, UNCHANGED <<core, degradationSources, circuitOpen>>
    PROVE  RegistryInv'
BY DEF RegistryInv, RegistryWins, CircuitSourceInStep

\* Steps that only set the core, in agreement with the registry.
LEMMA CoreStep ==
    ASSUME RegistryInv, UNCHANGED <<degradationSources, circuitOpen>>,
           Agrees(core', degradationSources)
    PROVE  RegistryInv'
BY DEF RegistryInv, RegistryWins, CircuitSourceInStep, Agrees, Ready

\* Each action preserves the invariant.
LEMMA StepRegistryInv == RegistryInv /\ [Next]_vars => RegistryInv'
<1> SUFFICES ASSUME RegistryInv, [Next]_vars
             PROVE  RegistryInv'
  OBVIOUS
<1>1. Agrees(core, degradationSources)
  BY RegistryWinsAgrees DEF RegistryInv
<1>2. CASE Register \/ RegisterInProduction \/ RegisterFails
  <2>1. Agrees(core', degradationSources)
    BY <1>1, <1>2, CoreAfterAgrees
       DEF Register, RegisterInProduction, RegisterFails, Registering
  <2>2. UNCHANGED <<degradationSources, circuitOpen>>
    BY <1>2 DEF Register, RegisterInProduction, RegisterFails, registrationVars
  <2>3. QED
    BY <2>1, <2>2, CoreStep
<1>3. CASE OtherProviderAppears \/ ProbeSoleOwner \/ CoexistAlreadyPresent
           \/ CoexistAttached \/ VercelFound \/ VercelRegistered \/ BareProvider
           \/ BareConfigured \/ ConfigureRejects \/ KeyRead \/ InitTooLate
  BY <1>3, QuietStep
     DEF OtherProviderAppears, ProbeSoleOwner, CoexistAlreadyPresent,
         CoexistAttached, VercelFound, VercelRegistered, BareProvider,
         BareConfigured, ConfigureRejects, KeyRead, InitTooLate,
         CoexistencePath, OtelStepUnchanged, lifecycleVars
<1>4. CASE CoexistFailed
  <2>1. /\ degradationSources' = degradationSources \cup {"otel-coexistence-failed"}
        /\ core' = Recomputed(core, degradationSources')
        /\ circuitOpen' = circuitOpen
    BY <1>4 DEF CoexistFailed, PushDegradationSource, CoexistencePath,
       OtelStepUnchanged
  <2>2. RegistryWins'
    BY <2>1, RecomputedAgrees DEF RegistryWins, Agrees, Ready
  <2>3. CircuitSourceInStep'
    BY <2>1 DEF RegistryInv, CircuitSourceInStep
  <2>4. QED
    BY <2>2, <2>3 DEF RegistryInv
<1>5. CASE InitFailed \/ InitServed
  <2>1. Agrees(core', degradationSources)
    BY <1>1, <1>5, InitCoreAgrees DEF InitFailed, InitServed
  <2>2. UNCHANGED <<degradationSources, circuitOpen>>
    BY <1>5 DEF InitFailed, InitServed
  <2>3. QED
    BY <2>1, <2>2, CoreStep
<1>6. CASE InitServedClaim
  <2>1. RegistryWins'
    BY <1>6, RecomputedAgrees DEF InitServedClaim, RegistryWins, Agrees, Ready
  <2>2. CircuitSourceInStep'
    BY <1>6 DEF InitServedClaim, RegistryInv, CircuitSourceInStep
  <2>3. QED
    BY <2>1, <2>2 DEF RegistryInv
<1>7. CASE CircuitOpens \/ CircuitCloses
  <2>1. RegistryWins'
    BY <1>7, RecomputedAgrees
       DEF CircuitOpens, CircuitCloses, PushDegradationSource,
           ClearDegradationSource, RegistryWins, Agrees, Ready
  <2>2. CircuitSourceInStep'
    BY <1>7 DEF CircuitOpens, CircuitCloses, PushDegradationSource,
       ClearDegradationSource, RegistryInv, CircuitSourceInStep
  <2>3. QED
    BY <2>1, <2>2 DEF RegistryInv
<1>8. CASE HeartbeatClaims
  <2>1. CASE circuitOpen
    <3>1. RegistryWins'
      BY <1>8, <2>1, RecomputedAgrees
         DEF HeartbeatClaims, ClearDegradationSource, RegistryWins, Agrees, Ready
    <3>2. CircuitSourceInStep'
      BY <1>8, <2>1
         DEF HeartbeatClaims, ClearDegradationSource, CircuitSourceInStep
    <3>3. QED
      BY <3>1, <3>2 DEF RegistryInv
  <2>2. CASE ~circuitOpen
    BY <1>8, <2>2
       DEF HeartbeatClaims, RegistryInv, RegistryWins, CircuitSourceInStep
  <2>3. QED
    BY <2>1, <2>2
<1>9. CASE EventLoopDrains \/ HeartbeatFindsMarker
           \/ \E s \in Signal : Signalled(s)
  <2>1. StartShutdown \/ ShutdownAgain
    BY <1>9 DEF EventLoopDrains, BeforeExit, HeartbeatFindsMarker,
       ShutdownRequested, Signalled, SignalArrives
  <2>2. UNCHANGED <<degradationSources, circuitOpen>>
    BY <1>9 DEF EventLoopDrains, BeforeExit, HeartbeatFindsMarker,
       ShutdownRequested, Signalled, SignalArrives, registrationVars
  <2>3. QED
    BY <1>1, <2>1, <2>2, TriggerAgrees, CoreStep
<1>10. CASE \E r \in reraise : SignalEnds(r)
  BY <1>10, QuietStep DEF SignalEnds, SignalSettles, lifecycleVars,
     registrationVars
<1>11. CASE HookStep
  <2>1. Agrees(core', degradationSources)
    BY <1>1, <1>11, IteratorAgrees DEF HookStep, HookEnds
  <2>2. UNCHANGED <<degradationSources, circuitOpen>>
    BY <1>11 DEF HookStep, HookEnds, registrationVars
  <2>3. QED
    BY <2>1, <2>2, CoreStep
<1>12. CASE UNCHANGED vars
  BY <1>12, QuietStep DEF vars, lifecycleVars, registrationVars
<1>13. QED
  BY <1>2, <1>3, <1>4, <1>5, <1>6, <1>7, <1>8, <1>9, <1>10, <1>11, <1>12,
     Zenon DEF Next

\* The invariant holds in every state of every behaviour.
LEMMA RegistryInvariant == Spec => []RegistryInv
<1>1. Init => RegistryInv
  BY DEF Init, LifecycleInit, RegistryInv, RegistryWins, CircuitSourceInStep
<1>2. QED
  BY <1>1, StepRegistryInv, PTL DEF Spec

\* A core with a registered degradation source is never shown as ACTIVE: the
\* catch-up in setCoreState() and the recomputation cover every order in which
\* sources, registration, claims and shutdown can meet.
THEOREM RegistryAlwaysWins == Spec => []RegistryWins
<1>1. RegistryInv => RegistryWins
  BY DEF RegistryInv
<1>2. QED
  BY <1>1, RegistryInvariant, PTL

\* The "export-circuit" source is registered exactly while the circuit is open.
THEOREM CircuitSourceFollows == Spec => []CircuitSourceInStep
<1>1. RegistryInv => CircuitSourceInStep
  BY DEF RegistryInv
<1>2. QED
  BY <1>1, RegistryInvariant, PTL

\* Registry, core and circuit stay in step on every path.
THEOREM RegistryStaysSound == Spec => []RegistrySound
<1>1. RegistryInv => RegistrySound
  BY DEF RegistryInv, RegistrySound
<1>2. QED
  BY <1>1, RegistryInvariant, PTL

-----------------------------------------------------------------------------
(* The shutdown hooks. *)

\* A nonempty set of natural numbers has a least element.
LEMMA SmallestOf ==
  ASSUME NEW T \in SUBSET Nat, T # {}
  PROVE  \E m \in T : \A k \in T : m <= k
<1>1. \E m \in T : \A k \in T : ~ (<<k, m>> \in OpToRel(<, Nat))
  BY NatLessThanWellFounded, WFMin
<1>2. \A j, k \in T : <<j, k>> \in OpToRel(<, Nat) <=> j < k
  BY DEF OpToRel
<1>3. \A j, k \in T : ~ (j < k) => k <= j
  OBVIOUS
<1>4. QED
  BY <1>1, <1>2, <1>3, Zenon

\* The order registerShutdownHook() keeps by sorting after every push.
Sorted(hooks) ==
  \A i, j \in 1 .. Len(hooks) : i < j => priority[hooks[i]] <= priority[hooks[j]]

\* InsertAt() of the community modules, element by element.
LEMMA InsertedAt ==
  ASSUME NEW hooks \in Seq(Hook), NEW h \in Hook, NEW p \in 1 .. Len(hooks) + 1
  PROVE  /\ InsertAt(hooks, p, h) \in Seq(Hook)
         /\ Len(InsertAt(hooks, p, h)) = Len(hooks) + 1
         /\ \A i \in 1 .. Len(hooks) + 1 :
              InsertAt(hooks, p, h)[i] =
                IF i < p THEN hooks[i] ELSE IF i = p THEN h ELSE hooks[i - 1]
<1> DEFINE left == SubSeq(hooks, 1, p - 1)
           right == SubSeq(hooks, p, Len(hooks))
<1>1. Len(hooks) \in Nat /\ \A i \in 1 .. Len(hooks) : hooks[i] \in Hook
  BY ElementOfSeq, LenProperties
<1>2. left \in Seq(Hook) /\ Len(left) = p - 1 /\ \A i \in 1 .. p - 1 : left[i] = hooks[i]
  <2>1. \A i \in 1 .. p - 1 : hooks[i] \in Hook
    BY <1>1
  <2>2. QED
    BY <1>1, <2>1, SubSeqProperties
<1>3. /\ right \in Seq(Hook) /\ Len(right) = Len(hooks) - p + 1
      /\ \A i \in 1 .. Len(hooks) - p + 1 : right[i] = hooks[p + i - 1]
  <2>1. \A i \in p .. Len(hooks) : hooks[i] \in Hook
    BY <1>1
  <2>2. QED
    BY <1>1, <2>1, SubSeqProperties
<1> DEFINE one == <<h>>
<1>4. one \in Seq(Hook) /\ Len(one) = 1 /\ one[1] = h
  OBVIOUS
<1>5. InsertAt(hooks, p, h) = (left \o one) \o right
  BY DEF InsertAt
<1> HIDE DEF left, right, one
<1> DEFINE front == left \o one
           whole == front \o right
<1>6. /\ front \in Seq(Hook) /\ Len(front) = p
      /\ \A i \in 1 .. p : front[i] = IF i <= p - 1 THEN left[i] ELSE one[i - (p - 1)]
  <2>1. /\ front \in Seq(Hook) /\ Len(front) = Len(left) + Len(one)
        /\ \A i \in 1 .. Len(left) + Len(one) :
             front[i] = IF i <= Len(left) THEN left[i] ELSE one[i - Len(left)]
    BY <1>2, <1>4, ConcatProperties
  <2>2. Len(left) + Len(one) = p
    BY <1>1, <1>2, <1>4
  <2>3. QED
    BY <1>2, <2>1, <2>2
<1> HIDE DEF front
<1>7. /\ whole \in Seq(Hook) /\ Len(whole) = Len(hooks) + 1
      /\ \A i \in 1 .. Len(hooks) + 1 : whole[i] = IF i <= p THEN front[i] ELSE right[i - p]
  <2>1. /\ whole \in Seq(Hook) /\ Len(whole) = Len(front) + Len(right)
        /\ \A i \in 1 .. Len(front) + Len(right) :
             whole[i] = IF i <= Len(front) THEN front[i] ELSE right[i - Len(front)]
    BY <1>3, <1>6, ConcatProperties
  <2>2. Len(front) + Len(right) = Len(hooks) + 1
    BY <1>1, <1>3, <1>6
  <2>3. QED
    BY <1>6, <2>1, <2>2
<1>8. InsertAt(hooks, p, h) = whole
  BY <1>5 DEF front
<1> HIDE DEF whole
<1>9. ASSUME NEW i \in 1 .. Len(hooks) + 1
      PROVE  whole[i] = IF i < p THEN hooks[i] ELSE IF i = p THEN h ELSE hooks[i - 1]
  <2>1. CASE i < p
    BY <1>1, <1>2, <1>6, <1>7, <2>1
  <2>2. CASE i = p
    <3>1. front[p] = one[1]
      BY <1>1, <1>6
    <3>2. QED
      BY <1>1, <1>4, <1>7, <2>2, <3>1
  <2>3. CASE i > p
    BY <1>1, <1>3, <1>7, <2>3
  <2>4. i \in Int /\ p \in Int
    BY <1>1
  <2>5. QED
    BY <2>1, <2>2, <2>3, <2>4
<1>10. QED
  BY <1>7, <1>8, <1>9

\* Priorities are natural numbers.
LEMMA PriorityTyped == \A h \in Hook : priority[h] \in Nat
BY DEF Hook, priority

\* Sorting after the push is an insertion at one position, before which the
\* hooks run earlier or at the same priority.
LEMMA WithHookSorted ==
  ASSUME NEW hooks \in Seq(Hook), NEW h \in Hook, Sorted(hooks)
  PROVE  \E p \in 1 .. Len(hooks) + 1 :
            WithHook(hooks, h) = InsertAt(hooks, p, h) /\ Sorted(WithHook(hooks, h))
<1> DEFINE before == {i \in DOMAIN hooks : priority[hooks[i]] <= priority[h]}
           after == {i \in 1 .. Len(hooks) + 1 : i \notin before}
<1>1. PICK p \in after : \A k \in after : p <= k
  <2>1. Len(hooks) + 1 \in after /\ after \in SUBSET Nat
    OBVIOUS
  <2>2. QED
    BY <2>1, SmallestOf
<1>2. before = 1 .. p - 1
  <2>1. ASSUME NEW i \in 1 .. p - 1 PROVE i \in before
    BY <1>1
  <2>2. ASSUME NEW i \in before, i >= p PROVE FALSE
    <3>1. i \in 1 .. Len(hooks) /\ p \in 1 .. Len(hooks) /\ p < i
      BY <1>1, <2>2
    <3>2. priority[hooks[p]] <= priority[hooks[i]] /\ priority[hooks[i]] <= priority[h]
      BY <3>1, <2>2 DEF Sorted
    <3>3. priority[hooks[p]] <= priority[h]
      BY <3>1, <3>2, PriorityTyped
    <3>4. QED
      BY <1>1, <3>1, <3>3
  <2>3. QED
    BY <1>1, <2>1, <2>2
<1> HIDE DEF before
<1>3. p \in 1 .. Len(hooks) + 1 /\ Cardinality(before) + 1 = p
  <2>1. p \in 1 .. Len(hooks) + 1 /\ p - 1 \in Int /\ 1 <= p
    OBVIOUS
  <2>2. Cardinality(1 .. p - 1) = p - 1
    BY <2>1, FS_Interval
  <2>3. QED
    BY <1>2, <2>1, <2>2
<1>4. WithHook(hooks, h) = InsertAt(hooks, p, h)
  BY <1>3 DEF WithHook, before
<1>5. \A i \in 1 .. p - 1 : priority[hooks[i]] <= priority[h]
  BY <1>2 DEF before
<1>6. \A i \in p .. Len(hooks) : priority[h] <= priority[hooks[i]]
  <2>1. ASSUME NEW i \in p .. Len(hooks) PROVE priority[h] <= priority[hooks[i]]
    <3>1. ~ (priority[hooks[i]] <= priority[h]) /\ hooks[i] \in Hook
      BY <1>2, <1>3 DEF before
    <3>2. QED
      BY <3>1, PriorityTyped
  <2>2. QED
    BY <2>1
<1> DEFINE new == InsertAt(hooks, p, h)
<1>7. /\ Len(new) = Len(hooks) + 1
      /\ \A i \in 1 .. Len(hooks) + 1 :
           new[i] = IF i < p THEN hooks[i] ELSE IF i = p THEN h ELSE hooks[i - 1]
  BY <1>3, InsertedAt
<1> HIDE DEF before, after, new
<1>8. ASSUME NEW i \in 1 .. Len(new), NEW j \in 1 .. Len(new), i < j
      PROVE  priority[new[i]] <= priority[new[j]]
  <2>1. CASE i < p /\ j < p
    BY <1>3, <1>7, <1>8, <2>1 DEF Sorted
  <2>2. CASE i < p /\ j = p
    BY <1>3, <1>5, <1>7, <1>8, <2>2
  <2>3. CASE i < p /\ j > p
    BY <1>3, <1>7, <1>8, <2>3 DEF Sorted
  <2>4. CASE i = p
    BY <1>3, <1>6, <1>7, <1>8, <2>4
  <2>5. CASE i > p
    BY <1>3, <1>7, <1>8, <2>5 DEF Sorted
  <2>6. QED
    BY <1>3, <2>1, <2>2, <2>3, <2>4, <2>5
<1>9. Sorted(new)
  BY <1>8 DEF Sorted
<1>10. QED
  BY <1>3, <1>4, <1>9 DEF new

\* Hook h is in the list.
Registered(h) == h \in ToSet(shutdownHooks)

\* The core states of a process whose registration has completed.
Late == {"KEY_PENDING"} \cup Ready \cup Stopping

\* What the moment of the registration says about the coordinator: nothing is
\* armed before it, the init runs in a core that is past it and that stops when
\* the shutdown begins, and configureOtel() registers each hook once.
Phases ==
    /\ core = "IDLE" => /\ handlers = {} /\ ~beforeExitArmed
                        /\ shutdownHooks = <<>> /\ ~shutdownExecuted
                        /\ initPc = "none" /\ otelPc = "none"
    /\ initPc # "none" => core \in Late
    /\ shutdownExecuted /\ initPc # "none" => core \in Stopping
    /\ otelPc \in {"none", "tick"} => ~Registered("coexistence-flush")
    /\ otelPc \in {"none", "tick", "import_vercel", "import_prisma_vercel"} =>
           ~Registered("otel-shutdown")

\* A position the iterator has reached: its hook, if it was registered when the
\* shutdown began, has been called, and has ended unless it is the awaited one.
Passed(i) ==
    shutdownHooks[i] \in hooksAtStart =>
        /\ hookCalls[shutdownHooks[i]] > 0
        /\ shutdownHooks[i] \in hooksEnded \cup {awaited}

\* The loop of executeShutdown() is suspended at its await.
Iterating ==
    /\ hookIndex \in 1 .. Len(shutdownHooks)
    /\ awaited \in Hook
    /\ \A i \in 1 .. hookIndex : Passed(i)

\* The invariant of the loop, whose array grows under it.
IteratorInv ==
    /\ Sorted(shutdownHooks)
    /\ hooksAtStart \subseteq ToSet(shutdownHooks)
    /\ ~shutdownExecuted => /\ ~shutdownDone /\ hooksAtStart = {}
                            /\ \A h \in Hook : hookCalls[h] = 0
    /\ shutdownExecuted /\ ~shutdownDone => Iterating
    /\ EarlierHooksRun
    /\ HookOrder

\* The inductive invariant.
HooksInv == TypeOK /\ Phases /\ IteratorInv /\ NoHeartbeatAfterShutdown

\* The types of the variables of the loop.
WalkTypes ==
    /\ shutdownHooks \in Seq(Hook)
    /\ shutdownExecuted \in BOOLEAN
    /\ hooksAtStart \in SUBSET Hook
    /\ hookIndex \in Nat
    /\ awaited \in Hook \cup {"none"}
    /\ shutdownDone \in BOOLEAN
    /\ hookCalls \in [Hook -> Nat]
    /\ hooksEnded \in SUBSET Hook

\* Its variables.
walkVars == <<shutdownHooks, shutdownExecuted, hooksAtStart, hookIndex, awaited,
              shutdownDone, hookCalls, hooksEnded>>

\* The elements of a hook list.
LEMMA HookAt ==
    ASSUME NEW hooks \in Seq(Hook)
    PROVE  /\ Len(hooks) \in Nat /\ DOMAIN hooks = 1 .. Len(hooks)
           /\ \A i \in 1 .. Len(hooks) : hooks[i] \in Hook /\ hooks[i] \in ToSet(hooks)
           /\ \A h \in ToSet(hooks) : \E i \in 1 .. Len(hooks) : hooks[i] = h
           /\ ToSet(hooks) \subseteq Hook
BY ElementOfSeq, LenProperties DEF ToSet

\* What registering a hook does to the list.
LEMMA WithHookProperties ==
    ASSUME NEW hooks \in Seq(Hook), NEW h \in Hook, Sorted(hooks)
    PROVE  \E p \in 1 .. Len(hooks) + 1 :
              LET new == WithHook(hooks, h) IN
              /\ new \in Seq(Hook) /\ Sorted(new)
              /\ Len(new) = Len(hooks) + 1
              /\ \A i \in 1 .. Len(hooks) + 1 :
                   new[i] = IF i < p THEN hooks[i] ELSE IF i = p THEN h ELSE hooks[i - 1]
              /\ ToSet(new) = ToSet(hooks) \cup {h}
<1> DEFINE new == WithHook(hooks, h)
<1>1. PICK p \in 1 .. Len(hooks) + 1 : new = InsertAt(hooks, p, h) /\ Sorted(new)
  BY WithHookSorted
<1> HIDE DEF new
<1>2. /\ new \in Seq(Hook) /\ Len(new) = Len(hooks) + 1
      /\ \A i \in 1 .. Len(hooks) + 1 :
           new[i] = IF i < p THEN hooks[i] ELSE IF i = p THEN h ELSE hooks[i - 1]
  <2> DEFINE ins == InsertAt(hooks, p, h)
  <2>1. /\ ins \in Seq(Hook) /\ Len(ins) = Len(hooks) + 1
        /\ \A i \in 1 .. Len(hooks) + 1 :
             ins[i] = IF i < p THEN hooks[i] ELSE IF i = p THEN h ELSE hooks[i - 1]
    BY InsertedAt
  <2>2. new = ins
    BY <1>1
  <2> HIDE DEF ins
  <2>3. QED
    BY <2>1, <2>2
<1>3. Len(hooks) \in Nat /\ p \in Nat
  BY HookAt
<1>4. ASSUME NEW g \in ToSet(new) PROVE g \in ToSet(hooks) \cup {h}
  <2>1. PICK i \in 1 .. Len(hooks) + 1 : new[i] = g
    BY <1>2, HookAt
  <2>2. CASE i < p
    <3>1. i \in 1 .. Len(hooks) /\ new[i] = hooks[i]
      BY <1>2, <1>3, <2>2
    <3>2. QED
      BY <2>1, <3>1, HookAt
  <2>3. CASE i > p
    <3>1. i - 1 \in 1 .. Len(hooks) /\ new[i] = hooks[i - 1]
      BY <1>2, <1>3, <2>3
    <3>2. QED
      BY <2>1, <3>1, HookAt
  <2>4. CASE i = p
    BY <1>2, <2>1, <2>4
  <2>5. QED
    BY <1>3, <2>2, <2>3, <2>4
<1>5. ASSUME NEW g \in ToSet(hooks) PROVE g \in ToSet(new)
  <2>1. PICK i \in 1 .. Len(hooks) : hooks[i] = g
    BY HookAt
  <2>2. CASE i < p
    <3>1. i \in 1 .. Len(new) /\ new[i] = g
      BY <1>2, <1>3, <2>1, <2>2
    <3>2. QED
      BY <1>2, <3>1, HookAt
  <2>3. CASE i >= p
    <3>1. i + 1 \in 1 .. Len(new) /\ new[i + 1] = g
      BY <1>2, <1>3, <2>1, <2>3
    <3>2. QED
      BY <1>2, <3>1, HookAt
  <2>4. QED
    BY <1>3, <2>2, <2>3
<1>6. h \in ToSet(new)
  <2>1. p \in 1 .. Len(new) /\ new[p] = h
    BY <1>2, <1>3
  <2>2. QED
    BY <1>2, <2>1, HookAt
<1>7. ToSet(new) = ToSet(hooks) \cup {h}
  BY <1>4, <1>5, <1>6
<1>8. QED
  BY <1>1, <1>2, <1>7 DEF new

\* Steps that leave the loop and its array alone.
LEMMA WalkQuiet ==
    ASSUME IteratorInv, UNCHANGED walkVars
    PROVE  IteratorInv'
BY DEF IteratorInv, walkVars, Iterating, Passed, EarlierHooksRun, HookOrder, Sorted

\* A hook is inserted, possibly before the position of the iterator: positions
\* behind it shift, so a hook may be met twice, but none that was there at the
\* start is skipped.
LEMMA WalkRegisters ==
    ASSUME WalkTypes, IteratorInv, NEW h \in Hook, ~Registered(h), RegisterHook(h),
           UNCHANGED <<shutdownExecuted, hooksAtStart, hookIndex, awaited,
                       shutdownDone, hookCalls, hooksEnded>>
    PROVE  /\ IteratorInv' /\ WalkTypes'
           /\ ToSet(shutdownHooks') = ToSet(shutdownHooks) \cup {h}
<1>1. PICK p \in 1 .. Len(shutdownHooks) + 1 :
          /\ shutdownHooks' \in Seq(Hook) /\ Sorted(shutdownHooks')
          /\ Len(shutdownHooks') = Len(shutdownHooks) + 1
          /\ \A i \in 1 .. Len(shutdownHooks) + 1 :
               shutdownHooks'[i] = IF i < p THEN shutdownHooks[i]
                                   ELSE IF i = p THEN h ELSE shutdownHooks[i - 1]
          /\ ToSet(shutdownHooks') = ToSet(shutdownHooks) \cup {h}
  <2>1. shutdownHooks \in Seq(Hook) /\ Sorted(shutdownHooks)
        /\ shutdownHooks' = WithHook(shutdownHooks, h)
    BY DEF RegisterHook, WalkTypes, IteratorInv
  <2>2. QED
    BY <2>1, WithHookProperties
<1>2. Len(shutdownHooks) \in Nat /\ h \notin hooksAtStart
  BY HookAt DEF WalkTypes, IteratorInv, Registered
<1>3. ASSUME Iterating PROVE Iterating'
  <2>1. hookIndex' \in 1 .. Len(shutdownHooks') /\ awaited' \in Hook
    BY <1>1, <1>2, <1>3 DEF Iterating
  <2>2. ASSUME NEW i \in 1 .. hookIndex PROVE Passed(i)'
    <3>1. i \in 1 .. Len(shutdownHooks) /\ p \in Nat
      BY <1>2, <1>3 DEF Iterating
    <3>2. CASE i < p
      <4>1. shutdownHooks'[i] = shutdownHooks[i]
        BY <1>1, <3>1, <3>2
      <4>2. QED
        BY <1>3, <4>1 DEF Iterating, Passed
    <3>3. CASE i = p
      <4>1. shutdownHooks'[i] = h
        BY <1>1, <3>3
      <4>2. QED
        BY <1>2, <4>1 DEF Passed
    <3>4. CASE i > p
      <4>1. shutdownHooks'[i] = shutdownHooks[i - 1] /\ i - 1 \in 1 .. hookIndex
        BY <1>1, <1>3, <3>1, <3>4 DEF Iterating
      <4>2. QED
        BY <1>3, <4>1 DEF Iterating, Passed
    <3>5. QED
      BY <3>1, <3>2, <3>3, <3>4
  <2>3. QED
    BY <2>1, <2>2 DEF Iterating
<1>4. IteratorInv'
  BY <1>1, <1>3 DEF IteratorInv, EarlierHooksRun, HookOrder
<1>5. QED
  BY <1>1, <1>4 DEF WalkTypes

\* executeShutdown() begins: the first hook is called, or there is none.
LEMMA WalkStarts ==
    ASSUME WalkTypes, IteratorInv, StartShutdown, UNCHANGED <<shutdownHooks, hooksEnded>>
    PROVE  IteratorInv' /\ WalkTypes'
<1> DEFINE hooks == shutdownHooks
<1>1. /\ Len(hooks) \in Nat /\ ToSet(hooks) \subseteq Hook
      /\ \A i \in 1 .. Len(hooks) : hooks[i] \in Hook
      /\ \A h \in ToSet(hooks) : \E i \in 1 .. Len(hooks) : hooks[i] = h
  BY HookAt DEF WalkTypes
<1>2. /\ ~shutdownExecuted /\ shutdownExecuted' /\ hookIndex' = 1
      /\ hooksAtStart' = ToSet(hooks) /\ ~shutdownDone
      /\ \A h \in Hook : hookCalls[h] = 0
  BY DEF StartShutdown, IteratorAt, IteratorInv
<1>3. CASE 1 <= Len(hooks)
  <2>1. /\ hookCalls' = [hookCalls EXCEPT ![hooks[1]] = @ + 1]
        /\ awaited' = hooks[1] /\ ~shutdownDone' /\ hooks[1] \in Hook
    BY <1>1, <1>2, <1>3 DEF StartShutdown, IteratorAt
  <2>2. \A h \in Hook : hookCalls'[h] = IF h = hooks[1] THEN 1 ELSE 0
    BY <1>2, <2>1 DEF WalkTypes
  <2>3. Iterating'
    BY <1>1, <1>2, <1>3, <2>1, <2>2 DEF Iterating, Passed
  <2>4. HookOrder'
    <3>1. ASSUME NEW h \in ToSet(hooks), NEW k \in ToSet(hooks),
                 priority[k] < priority[h], hookCalls'[h] > 0
          PROVE  FALSE
      <4>1. h = hooks[1]
        BY <1>1, <2>2, <3>1
      <4>2. PICK j \in 1 .. Len(hooks) : hooks[j] = k
        BY <1>1
      <4>3. priority[h] <= priority[k]
        <5>1. CASE j = 1
          BY <3>1, <4>1, <4>2, <5>1, <1>1, PriorityTyped
        <5>2. CASE 1 < j
          BY <1>1, <1>3, <4>1, <4>2, <5>2 DEF Sorted, IteratorInv
        <5>3. QED
          BY <1>1, <5>1, <5>2
      <4>4. QED
        BY <1>1, <3>1, <4>3, PriorityTyped
    <3>2. QED
      BY <1>2, <3>1 DEF HookOrder
  <2>5. EarlierHooksRun'
    BY <2>1 DEF EarlierHooksRun
  <2>6. IteratorInv'
    BY <1>2, <2>3, <2>4, <2>5 DEF IteratorInv, Sorted
  <2>7. WalkTypes'
    <3>1. hookCalls' \in [Hook -> Nat]
      BY <2>1 DEF WalkTypes
    <3>2. shutdownDone' = shutdownDone
      BY <1>3 DEF StartShutdown, IteratorAt
    <3>3. QED
      BY <1>1, <1>2, <2>1, <3>1, <3>2 DEF WalkTypes
  <2>8. QED
    BY <2>6, <2>7
<1>4. CASE ~(1 <= Len(hooks))
  <2>1. /\ shutdownDone' /\ awaited' = "none" /\ hookCalls' = hookCalls
        /\ shutdownDone' = TRUE
    BY <1>4 DEF StartShutdown, IteratorAt
  <2>2. ToSet(hooks) = {}
    BY <1>1, <1>4
  <2>3. IteratorInv'
    BY <1>2, <2>1, <2>2 DEF IteratorInv, Sorted, EarlierHooksRun, HookOrder
  <2>4. WalkTypes'
    BY <1>1, <1>2, <2>1 DEF WalkTypes
  <2>5. QED
    BY <2>3, <2>4
<1>5. QED
  BY <1>3, <1>4

\* A trigger begins the shutdown or finds it begun.
LEMMA WalkTriggered ==
    ASSUME WalkTypes, IteratorInv, StartShutdown \/ ShutdownAgain,
           UNCHANGED <<shutdownHooks, hooksEnded>>
    PROVE  IteratorInv' /\ WalkTypes'
<1>1. CASE StartShutdown
  BY <1>1, WalkStarts
<1>2. CASE ShutdownAgain
  <2>1. UNCHANGED walkVars
    BY <1>2 DEF ShutdownAgain, walkVars
  <2>2. QED
    BY <2>1, WalkQuiet DEF walkVars, WalkTypes
<1>3. QED
  BY <1>1, <1>2

\* The awaited hook ends and the iterator moves on, or comes to the end.
LEMMA WalkAdvances ==
    ASSUME WalkTypes, IteratorInv, HookEnds
    PROVE  IteratorInv' /\ WalkTypes'
<1> DEFINE hooks == shutdownHooks
           next == hookIndex + 1
<1>1. /\ Len(hooks) \in Nat /\ ToSet(hooks) \subseteq Hook
      /\ \A i \in 1 .. Len(hooks) : hooks[i] \in Hook
      /\ \A h \in ToSet(hooks) : \E i \in 1 .. Len(hooks) : hooks[i] = h
  BY HookAt DEF WalkTypes
<1>2. /\ shutdownExecuted /\ ~shutdownDone /\ hookIndex' = next
      /\ hooksEnded' = hooksEnded \cup {awaited}
      /\ UNCHANGED <<shutdownHooks, shutdownExecuted, hooksAtStart>>
  BY DEF HookEnds, IteratorAt
<1>3. /\ hookIndex \in 1 .. Len(hooks) /\ awaited \in Hook
      /\ \A i \in 1 .. hookIndex : Passed(i)
  BY <1>2 DEF IteratorInv, Iterating
<1>4. hooksEnded' \in SUBSET Hook /\ hookIndex' \in Nat
  BY <1>2, <1>3 DEF WalkTypes
<1>5. \A h, k \in hooksAtStart :
          priority[k] < priority[h] /\ hookCalls[h] > 0 => k \in hooksEnded'
  BY <1>2 DEF IteratorInv, HookOrder
<1>6. CASE next <= Len(hooks)
  <2>1. /\ hookCalls' = [hookCalls EXCEPT ![hooks[next]] = @ + 1]
        /\ awaited' = hooks[next] /\ ~shutdownDone' /\ shutdownDone' = FALSE
        /\ hooks[next] \in Hook /\ next \in 1 .. Len(hooks)
    BY <1>1, <1>2, <1>3, <1>6 DEF HookEnds, IteratorAt, WalkTypes
  <2>2. \A h \in Hook : hookCalls'[h] = IF h = hooks[next] THEN hookCalls[h] + 1 ELSE hookCalls[h]
    BY <2>1 DEF WalkTypes
  <2>3. ASSUME NEW i \in 1 .. next PROVE Passed(i)'
    <3>1. CASE i = next
      BY <1>1, <1>2, <2>1, <2>2, <3>1 DEF Passed, WalkTypes
    <3>2. CASE i < next
      <4>1. i \in 1 .. hookIndex /\ hooks[i] \in Hook
        BY <1>1, <1>3, <3>2
      <4>2. hookCalls[hooks[i]] \in Nat
        BY <4>1 DEF WalkTypes
      <4>3. QED
        BY <1>2, <1>3, <2>2, <4>1, <4>2 DEF Passed
    <3>3. QED
      BY <1>3, <3>1, <3>2
  <2>4. Iterating'
    BY <1>2, <2>1, <2>3 DEF Iterating
  <2>5. ASSUME NEW h \in hooksAtStart, NEW k \in hooksAtStart,
               priority[k] < priority[h], hookCalls'[h] > 0
        PROVE  k \in hooksEnded'
    <3>1. CASE h = hooks[next]
      <4>1. PICK j \in 1 .. Len(hooks) : hooks[j] = k
        BY <1>1 DEF IteratorInv
      <4>2. h \in Hook /\ k \in Hook
        BY DEF WalkTypes
      <4>3. ~(priority[h] <= priority[k])
        BY <2>5, <4>2, PriorityTyped
      <4>4. j < next
        <5>1. j # next
          BY <3>1, <4>1, <4>2, <2>5, PriorityTyped
        <5>2. ~(next < j)
          BY <2>1, <3>1, <4>1, <4>3 DEF Sorted, IteratorInv
        <5>3. QED
          BY <1>3, <5>1, <5>2
      <4>5. j \in 1 .. hookIndex
        BY <1>3, <4>4
      <4>6. QED
        BY <1>2, <1>3, <4>1, <4>5 DEF Passed
    <3>2. CASE h # hooks[next]
      <4>1. hookCalls[h] > 0
        BY <2>2, <2>5, <3>2 DEF WalkTypes
      <4>2. QED
        BY <1>5, <2>5, <4>1
    <3>3. QED
      BY <3>1, <3>2
  <2>6. HookOrder'
    BY <1>2, <2>5 DEF HookOrder
  <2>7. EarlierHooksRun'
    BY <2>1 DEF EarlierHooksRun
  <2>8. IteratorInv'
    BY <1>2, <2>4, <2>6, <2>7 DEF IteratorInv, Sorted
  <2>9. WalkTypes'
    <3>1. hookCalls' \in [Hook -> Nat]
      BY <2>1 DEF WalkTypes
    <3>2. QED
      BY <1>2, <1>4, <2>1, <3>1 DEF WalkTypes
  <2>10. QED
    BY <2>8, <2>9
<1>7. CASE ~(next <= Len(hooks))
  <2>1. /\ shutdownDone' /\ awaited' = "none" /\ hookCalls' = hookCalls
        /\ shutdownDone' = TRUE
    BY <1>7 DEF HookEnds, IteratorAt
  <2>2. ASSUME NEW h \in hooksAtStart PROVE hookCalls[h] > 0
    <3>1. PICK j \in 1 .. Len(hooks) : hooks[j] = h
      BY <1>1 DEF IteratorInv
    <3>2. j \in 1 .. hookIndex
      BY <1>1, <1>3, <1>7
    <3>3. QED
      BY <1>3, <3>1, <3>2 DEF Passed
  <2>3. IteratorInv'
    BY <1>2, <1>5, <2>1, <2>2 DEF IteratorInv, Sorted, EarlierHooksRun, HookOrder
  <2>4. WalkTypes'
    BY <1>2, <1>4, <2>1 DEF WalkTypes
  <2>5. QED
    BY <2>3, <2>4
<1>8. QED
  BY <1>6, <1>7

\* The types of the other variables.
OtherTypes ==
    /\ core \in CoreState
    /\ auth \in AuthState
    /\ otel \in OtelState
    /\ degradationSources \in SUBSET DegradationSource
    /\ handlers \in SUBSET Signal
    /\ reraise \in SUBSET [signal : Signal, waits : BOOLEAN]
    /\ beforeExitArmed \in BOOLEAN
    /\ coexistenceState \in {"unknown", "sole-owner", "coexisting"}
    /\ otherListeners \in BOOLEAN
    /\ alive \in BOOLEAN
    /\ mode \in {"anonymous", "dev"}
    /\ providerRegistered \in BOOLEAN
    /\ otelPc \in OtelPc
    /\ initPc \in InitPc
    /\ keyResolved \in BOOLEAN
    /\ circuitOpen \in BOOLEAN

\* TypeOK is the two together.
LEMMA TypeParts == TypeOK <=> WalkTypes /\ OtherTypes
BY DEF TypeOK, WalkTypes, OtherTypes

\* The transition functions of lifecycle.ts stay within their state types.
LEMMA LifecycleTypes ==
    /\ \A sources : \A from, to \in CoreState : CoreAfter(from, to, sources) \in CoreState
    /\ \A sources : \A from \in CoreState : Recomputed(from, sources) \in CoreState
    /\ \A from, to \in OtelState : OtelAfter(from, to) \in OtelState
    /\ \A from \in AuthState : AuthAfterClaim(from) \in AuthState
    /\ \A ok : core \in CoreState => CoreAfterInit(ok) \in CoreState
<1>1. \A sources : \A from, to \in CoreState : CoreAfter(from, to, sources) \in CoreState
  BY DEF CoreAfter, Guarded, CoreState
<1>2. \A sources : \A from \in CoreState : Recomputed(from, sources) \in CoreState
  BY <1>1 DEF Recomputed, CoreState
<1>3. \A from, to \in OtelState : OtelAfter(from, to) \in OtelState
  BY DEF OtelAfter, Guarded
<1>4. \A from \in AuthState : AuthAfterClaim(from) \in AuthState
  BY DEF AuthAfterClaim, Guarded, AuthState
<1>5. ASSUME NEW ok, core \in CoreState PROVE CoreAfterInit(ok) \in CoreState
  <2>1. CoreAfter(core, "KEY_RESOLVED", degradationSources) \in CoreState
    BY <1>1, <1>5 DEF CoreState
  <2>2. \A c \in CoreState : CoreAfter(c, IF ok THEN "ACTIVE" ELSE "ACTIVE_DEGRADED",
                         degradationSources) \in CoreState
    <3>1. (IF ok THEN "ACTIVE" ELSE "ACTIVE_DEGRADED") \in CoreState
      BY Zenon DEF CoreState
    <3>2. QED
      BY <1>1, <3>1
  <2>3. QED
    BY <1>5, <2>1, <2>2 DEF CoreAfterInit
<1>6. QED
  BY <1>1, <1>2, <1>3, <1>4, <1>5

\* Where the calls of setCoreState() can take a core that is past registration.
LEMMA LateStays ==
    /\ \A sources : \A c \in Late :
           /\ CoreAfter(c, "SHUTTING_DOWN", sources) \in Stopping
           /\ Recomputed(c, sources) \in Late
    /\ \A sources : \A c \in Stopping :
           /\ CoreAfter(c, "SHUTDOWN", sources) \in Stopping
           /\ Recomputed(c, sources) = c
    /\ \A sources : \A c \in Late \ Stopping : Recomputed(c, sources) \in Late \ Stopping
    /\ \A ok : core \in Late \ Stopping => CoreAfterInit(ok) \in Ready
    /\ \A ok : core \in Stopping => CoreAfterInit(ok) = core
    /\ \A sources : \A c \in CoreState \ {"IDLE"} :
           /\ CoreAfter(c, "SHUTTING_DOWN", sources) # "IDLE"
           /\ CoreAfter(c, "SHUTDOWN", sources) # "IDLE"
           /\ Recomputed(c, sources) # "IDLE"
    /\ Late \subseteq CoreState \ {"IDLE"} /\ Stopping \subseteq Late
    /\ CoreAfter("IDLE", "REGISTERING", degradationSources) = "REGISTERING"
    /\ CoreAfter("REGISTERING", "KEY_PENDING", degradationSources) = "KEY_PENDING"
    /\ CoreAfter("REGISTERING", "PRODUCTION_DISABLED", degradationSources) = "PRODUCTION_DISABLED"
    /\ CoreAfter("REGISTERING", "REGISTRATION_FAILED", degradationSources) = "REGISTRATION_FAILED"
    /\ \A sources : Recomputed("IDLE", sources) = "IDLE"
<1>1. \A sources : \A c \in Late : CoreAfter(c, "SHUTTING_DOWN", sources) \in Stopping
  BY DEF Late, Ready, Stopping, CoreAfter, Guarded, VALID_CORE_TRANSITIONS
<1>2. \A sources : \A c \in Late : Recomputed(c, sources) \in Late
  BY DEF Late, Ready, Stopping, Recomputed, CoreAfter, Guarded, VALID_CORE_TRANSITIONS
<1>3. \A sources : \A c \in Stopping : CoreAfter(c, "SHUTDOWN", sources) \in Stopping
  BY DEF Stopping, CoreAfter, Guarded, VALID_CORE_TRANSITIONS
<1>4. \A sources : \A c \in Stopping : Recomputed(c, sources) = c
  BY DEF Stopping, Recomputed
<1>5. \A sources : \A c \in Late \ Stopping : Recomputed(c, sources) \in Late \ Stopping
  BY DEF Late, Ready, Stopping, Recomputed, CoreAfter, Guarded, VALID_CORE_TRANSITIONS
<1>6. ASSUME NEW ok, core \in Late \ Stopping PROVE CoreAfterInit(ok) \in Ready
  <2>1. CASE core = "KEY_PENDING"
    BY <2>1 DEF Ready, CoreAfterInit, CoreAfter, Guarded, VALID_CORE_TRANSITIONS
  <2>2. CASE core \in Ready
    BY <2>2 DEF Ready, CoreAfterInit
  <2>3. QED
    BY <1>6, <2>1, <2>2 DEF Late
<1>7. \A ok : core \in Stopping => CoreAfterInit(ok) = core
  BY DEF Stopping, CoreAfterInit
<1>8. \A sources : \A c \in CoreState \ {"IDLE"} :
           /\ CoreAfter(c, "SHUTTING_DOWN", sources) # "IDLE"
           /\ CoreAfter(c, "SHUTDOWN", sources) # "IDLE"
           /\ Recomputed(c, sources) # "IDLE"
  BY DEF Recomputed, CoreAfter, Guarded
<1>10. Late \subseteq CoreState \ {"IDLE"} /\ Stopping \subseteq Late
  BY DEF Late, Ready, Stopping, CoreState
<1>11. CoreAfter("IDLE", "REGISTERING", degradationSources) = "REGISTERING"
  BY DEF CoreAfter, Guarded, VALID_CORE_TRANSITIONS
<1>12. CoreAfter("REGISTERING", "KEY_PENDING", degradationSources) = "KEY_PENDING"
  BY DEF CoreAfter, Guarded, VALID_CORE_TRANSITIONS
<1>13. CoreAfter("REGISTERING", "PRODUCTION_DISABLED", degradationSources) = "PRODUCTION_DISABLED"
  BY DEF CoreAfter, Guarded, VALID_CORE_TRANSITIONS
<1>14. CoreAfter("REGISTERING", "REGISTRATION_FAILED", degradationSources) = "REGISTRATION_FAILED"
  BY DEF CoreAfter, Guarded, VALID_CORE_TRANSITIONS
<1>15. \A sources : Recomputed("IDLE", sources) = "IDLE"
  BY DEF Recomputed
<1>16. QED
  BY <1>1, <1>2, <1>3, <1>4, <1>5, <1>6, <1>7, <1>8, <1>10, <1>11, <1>12,
     <1>13, <1>14, <1>15

\* What Phases and NoHeartbeatAfterShutdown ask of a step that changes neither
\* the hook list nor the shutdown's state.
LEMMA PhasesQuiet ==
    ASSUME HooksInv, UNCHANGED walkVars,
           core' = "IDLE" => /\ core = "IDLE" /\ handlers' \subseteq handlers
                             /\ beforeExitArmed' = beforeExitArmed
                             /\ initPc' = initPc /\ otelPc' = otelPc,
           initPc' # "none" => core' \in Late,
           shutdownExecuted /\ initPc' # "none" => core' \in Stopping,
           otelPc' \in {"none", "tick"} => otelPc \in {"none", "tick"},
           otelPc' \in {"import_vercel", "import_prisma_vercel"} =>
               otelPc \in {"none", "tick", "import_vercel", "import_prisma_vercel"}
    PROVE  Phases' /\ NoHeartbeatAfterShutdown'
<1>1. Phases'
  BY DEF HooksInv, Phases, walkVars, Registered
<1>2. NoHeartbeatAfterShutdown'
  BY DEF HooksInv, NoHeartbeatAfterShutdown, walkVars
<1>3. QED
  BY <1>1, <1>2

\* The same for a trigger, which needs a core past IDLE.
LEMMA PhasesTriggered ==
    ASSUME HooksInv, StartShutdown \/ ShutdownAgain, core # "IDLE",
           UNCHANGED <<shutdownHooks, hooksEnded, initPc, otelPc, degradationSources>>
    PROVE  Phases' /\ NoHeartbeatAfterShutdown' /\ core' \in CoreState
<1> USE DEF HooksInv
<1>1. CASE ShutdownAgain
  <2>1. UNCHANGED <<core, shutdownExecuted, hooksAtStart>>
    BY <1>1 DEF ShutdownAgain
  <2>2. QED
    BY <2>1 DEF Phases, Registered, NoHeartbeatAfterShutdown, TypeOK
<1>2. CASE StartShutdown
  <2> DEFINE coreNow == CoreAfter(core, "SHUTTING_DOWN", degradationSources)
  <2>1. /\ ~shutdownExecuted /\ shutdownExecuted'
        /\ hooksAtStart' = ToSet(shutdownHooks)
        /\ core' = coreNow \/ core' = CoreAfter(coreNow, "SHUTDOWN", degradationSources)
    BY <1>2 DEF StartShutdown, IteratorAt
  <2>2. coreNow \in CoreState \ {"IDLE"}
    <3>1. core \in CoreState \ {"IDLE"} /\ "SHUTTING_DOWN" \in CoreState
      BY DEF TypeOK, CoreState
    <3>2. QED
      BY <3>1, LifecycleTypes, LateStays
  <2>3. core \in Late => coreNow \in Stopping
    BY LateStays
  <2> HIDE DEF coreNow
  <2>4. core' \in CoreState \ {"IDLE"}
    <3>1. "SHUTDOWN" \in CoreState
      BY DEF CoreState
    <3>2. QED
      BY <2>1, <2>2, <3>1, LifecycleTypes, LateStays
  <2>5. core \in Late => core' \in Stopping
    BY <2>1, <2>3, LateStays
  <2>6. Phases'
    BY <2>4, <2>5, LateStays DEF Phases, Registered
  <2>7. NoHeartbeatAfterShutdown'
    BY <2>1 DEF NoHeartbeatAfterShutdown
  <2>8. QED
    BY <2>4, <2>6, <2>7
<1>3. QED
  BY <1>1, <1>2

\* registerGlasstrace(), its production branch and its catch clause.
LEMMA RegisterSteps ==
    ASSUME HooksInv, Register \/ RegisterInProduction \/ RegisterFails
    PROVE  HooksInv'
<1> USE DEF HooksInv
<1>1. /\ UNCHANGED walkVars /\ core = "IDLE"
  BY DEF Register, RegisterInProduction, RegisterFails, walkVars, coordinatorVars
<1>2. IteratorInv'
  BY <1>1, WalkQuiet
<1>3. /\ core' \in {"KEY_PENDING", "PRODUCTION_DISABLED", "REGISTRATION_FAILED"}
      /\ ~shutdownExecuted
      /\ initPc' # "none" => core' = "KEY_PENDING"
      /\ otelPc' \in {"none", "tick"} /\ otelPc \in {"none", "tick"}
  BY <1>1, LateStays DEF Register, RegisterInProduction, RegisterFails, Registering,
     Phases, registrationVars
<1>4. Phases' /\ NoHeartbeatAfterShutdown'
  BY <1>1, <1>3, PhasesQuiet DEF Late
<1>5. OtherTypes'
  <2>1. OtherTypes /\ core' \in CoreState
    BY <1>3, TypeParts DEF CoreState
  <2>2. CASE Register
    <3>1. otel' \in OtelState
      BY <2>1, <2>2, LifecycleTypes DEF Register, OtherTypes, OtelState
    <3>2. coexistenceState' \in {"unknown", "sole-owner", "coexisting"}
      BY <2>1, <2>2 DEF Register, OtherTypes
    <3>3. keyResolved' \in BOOLEAN
      BY <2>2 DEF Register
    <3>4. QED
      BY <2>1, <2>2, <3>1, <3>2, <3>3 DEF Register, OtherTypes, AuthState, OtelPc, InitPc
  <2>3. CASE RegisterInProduction
    BY <2>1, <2>3 DEF RegisterInProduction, OtherTypes, registrationVars, coordinatorVars
  <2>4. CASE RegisterFails
    <3>1. keyResolved' \in BOOLEAN /\ handlers' \in SUBSET Signal
      BY <2>4 DEF RegisterFails
    <3>2. auth' \in AuthState
      BY <2>1, <2>4 DEF RegisterFails, OtherTypes, AuthState
    <3>3. coexistenceState' \in {"unknown", "sole-owner", "coexisting"}
      BY <2>1, <2>4 DEF RegisterFails, OtherTypes
    <3>4. QED
      BY <2>1, <2>4, <3>1, <3>2, <3>3 DEF RegisterFails, OtherTypes
  <2>5. QED
    BY <2>2, <2>3, <2>4
<1>6. WalkTypes'
  BY <1>1, TypeParts DEF WalkTypes, walkVars
<1>7. TypeOK'
  BY <1>5, <1>6 DEF TypeOK, WalkTypes, OtherTypes
<1>8. QED
  BY <1>2, <1>4, <1>7

\* The steps of configureOtel() that register no hook.
LEMMA OtelQuietSteps ==
    ASSUME HooksInv,
           \/ OtherProviderAppears \/ ProbeSoleOwner \/ CoexistAlreadyPresent
           \/ CoexistFailed \/ VercelFound \/ BareConfigured \/ ConfigureRejects
    PROVE  HooksInv'
<1> USE DEF HooksInv
<1>1. UNCHANGED walkVars
  BY DEF OtherProviderAppears, ProbeSoleOwner, CoexistAlreadyPresent, CoexistFailed,
     VercelFound, BareConfigured, ConfigureRejects, CoexistencePath,
     OtelStepUnchanged, walkVars, coordinatorVars
<1>2. IteratorInv'
  BY <1>1, WalkQuiet
<1>3. \/ core' = core \/ core' = Recomputed(core, degradationSources')
  BY DEF OtherProviderAppears, ProbeSoleOwner, CoexistAlreadyPresent, CoexistFailed,
     VercelFound, BareConfigured, ConfigureRejects, CoexistencePath,
     OtelStepUnchanged, lifecycleVars, PushDegradationSource
<1>4. UNCHANGED <<handlers, beforeExitArmed, initPc>>
  BY DEF OtherProviderAppears, ProbeSoleOwner, CoexistAlreadyPresent, CoexistFailed,
     VercelFound, BareConfigured, ConfigureRejects, CoexistencePath,
     OtelStepUnchanged, coordinatorVars
<1>5. \/ otelPc' = otelPc
      \/ otelPc = "tick" /\ otelPc' \in {"import_vercel", "done"}
      \/ otelPc \in {"import_vercel", "import_prisma_vercel"}
         /\ otelPc' \in {"import_prisma_vercel", "rejected"}
      \/ otelPc = "import_prisma_bare" /\ otelPc' = "done"
  BY DEF OtherProviderAppears, ProbeSoleOwner, CoexistAlreadyPresent, CoexistFailed,
     VercelFound, BareConfigured, ConfigureRejects, CoexistencePath
<1>6. core' \in CoreState /\ (core \in Late => core' \in Late)
      /\ (core \in Stopping => core' \in Stopping) /\ (core' = "IDLE" => core = "IDLE")
  <2>1. core \in CoreState
    BY DEF TypeOK
  <2>2. QED
    BY <1>3, <2>1, LifecycleTypes, LateStays
<1>7. otelPc' # otelPc => core # "IDLE"
  BY <1>5 DEF Phases
<1>8. Phases' /\ NoHeartbeatAfterShutdown'
  BY <1>1, <1>4, <1>5, <1>6, <1>7, PhasesQuiet DEF Phases
<1>9. OtherTypes'
  <2>1. OtherTypes
    BY TypeParts
  <2>2. otel' \in OtelState
    <3>1. otel \in OtelState /\ {"PROCESSOR_PRESENT", "COEXISTENCE_FAILED", "OWNS_PROVIDER"}
              \subseteq OtelState
      BY <2>1 DEF OtherTypes, OtelState
    <3>2. otel' = otel \/ \E to \in OtelState : otel' = OtelAfter(otel, to)
      BY <3>1 DEF OtherProviderAppears, ProbeSoleOwner, CoexistAlreadyPresent, CoexistFailed,
         VercelFound, BareConfigured, ConfigureRejects, lifecycleVars
    <3>3. QED
      BY <3>1, <3>2, LifecycleTypes
  <2>3. degradationSources' \in SUBSET DegradationSource
    BY <2>1 DEF OtherProviderAppears, ProbeSoleOwner, CoexistAlreadyPresent, CoexistFailed,
     VercelFound, BareConfigured, ConfigureRejects, lifecycleVars, OtherTypes,
     PushDegradationSource, DegradationSource
  <2>4. coexistenceState' \in {"unknown", "sole-owner", "coexisting"}
        /\ providerRegistered' \in BOOLEAN
    BY <2>1 DEF OtherProviderAppears, ProbeSoleOwner, CoexistAlreadyPresent, CoexistFailed,
     VercelFound, BareConfigured, ConfigureRejects, CoexistencePath, OtherTypes,
     OtelStepUnchanged, coordinatorVars
  <2>5. otelPc' \in OtelPc
    BY <1>5, <2>1 DEF OtherTypes, OtelPc
  <2>6. UNCHANGED <<auth, reraise, otherListeners, alive, mode, keyResolved, circuitOpen>>
    BY DEF OtherProviderAppears, ProbeSoleOwner, CoexistAlreadyPresent, CoexistFailed,
     VercelFound, BareConfigured, ConfigureRejects, CoexistencePath,
     OtelStepUnchanged, lifecycleVars, coordinatorVars
  <2>7. QED
    BY <1>4, <1>6, <2>1, <2>2, <2>3, <2>4, <2>5, <2>6 DEF OtherTypes
<1>10. WalkTypes'
  BY <1>1, TypeParts DEF WalkTypes, walkVars
<1>11. TypeOK'
  BY <1>9, <1>10 DEF TypeOK, WalkTypes, OtherTypes
<1>12. QED
  BY <1>2, <1>8, <1>11

\* The steps of configureOtel() that register a hook.
LEMMA OtelHookSteps ==
    ASSUME HooksInv, CoexistAttached \/ VercelRegistered \/ BareProvider
    PROVE  HooksInv'
<1> USE DEF HooksInv
<1>1. PICK h \in {"otel-shutdown", "coexistence-flush"} :
          RegisterHook(h) /\ ~Registered(h)
          /\ (h = "coexistence-flush" => otelPc' = "done")
          /\ (h = "otel-shutdown" => otelPc \in {"import_vercel", "import_prisma_vercel"})
  BY DEF CoexistAttached, VercelRegistered, BareProvider, CoexistencePath, Phases
<1>2. UNCHANGED <<shutdownExecuted, hooksAtStart, hookIndex, awaited, shutdownDone,
                  hookCalls, hooksEnded, core, handlers, initPc, auth, degradationSources,
                  reraise, otherListeners, alive, mode, keyResolved, circuitOpen,
                  providerRegistered>>
  BY DEF CoexistAttached, VercelRegistered, BareProvider, CoexistencePath,
     OtelStepUnchanged
<1>3. /\ IteratorInv' /\ WalkTypes'
      /\ ToSet(shutdownHooks') = ToSet(shutdownHooks) \cup {h}
  BY <1>1, <1>2, TypeParts, WalkRegisters DEF Hook
<1>4. otelPc' \in {"done", "import_prisma_bare"} /\ core # "IDLE"
  BY DEF CoexistAttached, VercelRegistered, BareProvider, CoexistencePath, Phases
<1>5. Phases'
  BY <1>2, <1>4 DEF Phases
<1>6. NoHeartbeatAfterShutdown'
  BY <1>2, <1>3 DEF NoHeartbeatAfterShutdown
<1>7. OtherTypes'
  <2>1. OtherTypes
    BY TypeParts
  <2>2. otel' \in OtelState
    BY <2>1, LifecycleTypes DEF CoexistAttached, VercelRegistered, BareProvider,
       OtherTypes, OtelState
  <2>3. beforeExitArmed' \in BOOLEAN /\ coexistenceState' \in {"unknown", "sole-owner", "coexisting"}
    BY <2>1 DEF CoexistAttached, VercelRegistered, BareProvider, CoexistencePath,
       OtherTypes
  <2>4. QED
    BY <1>2, <1>4, <2>1, <2>2, <2>3 DEF OtherTypes, OtelPc
<1>8. TypeOK'
  BY <1>3, <1>7 DEF TypeOK, WalkTypes, OtherTypes
<1>9. QED
  BY <1>3, <1>5, <1>6, <1>8

\* The background task up to an init that starts no heartbeat.
LEMMA KeyStep ==
    ASSUME HooksInv, KeyRead \/ InitTooLate \/ InitFailed
    PROVE  HooksInv'
<1> USE DEF HooksInv
<1>1. UNCHANGED walkVars
  BY DEF KeyRead, InitTooLate, InitFailed, InitReturns, BackgroundUnchanged, walkVars
<1>2. IteratorInv'
  BY <1>1, WalkQuiet
<1>3. /\ UNCHANGED <<otel, auth, degradationSources, handlers, beforeExitArmed, otelPc,
                     circuitOpen, reraise, coexistenceState, otherListeners, alive,
                     mode, providerRegistered>>
      /\ initPc \in {"read_key", "init"} /\ initPc' \in {"init", "done", "abandoned"}
  BY DEF KeyRead, InitTooLate, InitFailed, InitReturns, BackgroundUnchanged
<1>4. core' = core \/ core' = CoreAfterInit(FALSE)
  BY DEF KeyRead, InitTooLate, InitFailed
<1>5. /\ core' \in Late /\ core' \in CoreState
      /\ core \in Stopping => core' \in Stopping
      /\ core' # "IDLE"
  <2>1. core \in Late
    BY <1>3 DEF Phases
  <2>2. core' \in Late /\ (core \in Stopping => core' \in Stopping)
    <3>1. core \in Stopping => CoreAfterInit(FALSE) = core
      BY LateStays, Zenon
    <3>2. core \in Late \ Stopping => CoreAfterInit(FALSE) \in Ready
      BY LateStays, Zenon
    <3>3. QED
      BY <1>4, <2>1, <3>1, <3>2 DEF Late
  <2>3. QED
    BY <2>2, LateStays
<1>6. Phases' /\ NoHeartbeatAfterShutdown'
  BY <1>1, <1>3, <1>5, PhasesQuiet DEF Phases
<1>7. keyResolved' \in BOOLEAN
  BY DEF KeyRead, InitTooLate, InitFailed, InitReturns, TypeOK
<1>8. OtherTypes'
  BY <1>3, <1>5, <1>7, TypeParts DEF OtherTypes, InitPc
<1>9. WalkTypes'
  BY <1>1, TypeParts DEF WalkTypes, walkVars
<1>10. TypeOK'
  BY <1>8, <1>9 DEF TypeOK, WalkTypes, OtherTypes
<1>11. QED
  BY <1>2, <1>6, <1>10

\* The heartbeat and its hook start only if the SDK is not stopping, which in
\* a process that waits for init means that no shutdown has begun.
LEMMA HeartbeatStarts ==
    ASSUME HooksInv, InitServed \/ InitServedClaim
    PROVE  HooksInv'
<1> USE DEF HooksInv
<1> DEFINE H == "heartbeat-final-report"
<1>1. /\ UNCHANGED <<shutdownExecuted, hooksAtStart, hookIndex, awaited, shutdownDone,
                     hookCalls, hooksEnded, otel, handlers, beforeExitArmed, otelPc,
                     reraise, coexistenceState, otherListeners, alive, mode,
                     providerRegistered, keyResolved>>
      /\ initPc = "init" /\ initPc' = "done" /\ core \notin Stopping /\ StartHeartbeat
  BY DEF InitServed, InitServedClaim, InitAnswers, InitReturns,
     BackgroundUnchanged
<1>2. ~shutdownExecuted /\ core \in Late \ Stopping
  BY <1>1 DEF Phases
<1>3. /\ IteratorInv' /\ WalkTypes'
      /\ ToSet(shutdownHooks') \subseteq ToSet(shutdownHooks) \cup {H}
  <2>1. CASE H \in ToSet(shutdownHooks)
    <3>1. UNCHANGED walkVars
      BY <1>1, <2>1 DEF StartHeartbeat, walkVars
    <3>2. QED
      BY <3>1, WalkQuiet, TypeParts DEF walkVars, WalkTypes
  <2>2. CASE H \notin ToSet(shutdownHooks)
    <3>1. RegisterHook(H) /\ ~Registered(H) /\ H \in Hook
      BY <1>1, <2>2 DEF StartHeartbeat, RegisterHook, Registered, Hook
    <3>2. QED
      BY <1>1, <3>1, WalkRegisters, TypeParts
  <2>3. QED
    BY <2>1, <2>2
<1>4. core' \in Ready
  <2>1. CoreAfterInit(TRUE) \in Ready
    BY <1>2, LateStays
  <2>3. \A sources : \A c \in Ready : Recomputed(c, sources) \in Ready
    BY DEF Ready, Recomputed, CoreAfter, Guarded, VALID_CORE_TRANSITIONS
  <2>4. QED
    BY <2>1, <2>3 DEF InitServed, InitServedClaim
<1>5. core' \in Late /\ core' \in CoreState /\ core' # "IDLE"
  BY <1>4 DEF Ready, Late, CoreState
<1>6. Phases'
  BY <1>1, <1>2, <1>3, <1>5 DEF Phases, Registered
<1>7. NoHeartbeatAfterShutdown'
  BY <1>1, <1>2 DEF NoHeartbeatAfterShutdown
<1>8. OtherTypes'
  <2>1. OtherTypes
    BY TypeParts
  <2>2. auth' \in AuthState
    BY <2>1, LifecycleTypes DEF InitServed, InitServedClaim, OtherTypes
  <2>3. degradationSources' \in SUBSET DegradationSource /\ circuitOpen' \in BOOLEAN
    BY <2>1 DEF InitServed, InitServedClaim, OtherTypes
  <2>4. QED
    BY <1>1, <1>5, <2>1, <2>2, <2>3 DEF OtherTypes, InitPc
<1>9. TypeOK'
  BY <1>3, <1>8 DEF TypeOK, WalkTypes, OtherTypes
<1>10. QED
  BY <1>3, <1>6, <1>7, <1>9

\* The breaker and the heartbeat's claims.
LEMMA RuntimeSteps ==
    ASSUME HooksInv, CircuitOpens \/ CircuitCloses \/ HeartbeatClaims
    PROVE  HooksInv'
<1> USE DEF HooksInv
<1>1. /\ UNCHANGED walkVars
      /\ UNCHANGED <<otel, handlers, reraise, beforeExitArmed, coexistenceState,
                     otherListeners, alive, mode, providerRegistered, otelPc, initPc,
                     keyResolved>>
  BY DEF CircuitOpens, CircuitCloses, HeartbeatClaims, RuntimeUnchanged, walkVars,
     coordinatorVars
<1>2. IteratorInv'
  BY <1>1, WalkQuiet
<1>3. core' = core \/ core' = Recomputed(core, degradationSources')
  BY DEF CircuitOpens, CircuitCloses, HeartbeatClaims, PushDegradationSource,
     ClearDegradationSource
<1>4. core' \in CoreState /\ (core \in Late => core' \in Late)
      /\ (core \in Stopping => core' \in Stopping) /\ (core' = "IDLE" => core = "IDLE")
  <2>1. core \in CoreState
    BY DEF TypeOK
  <2>2. QED
    BY <1>3, <2>1, LifecycleTypes, LateStays
<1>5. Phases' /\ NoHeartbeatAfterShutdown'
  BY <1>1, <1>4, PhasesQuiet DEF Phases
<1>6. OtherTypes'
  <2>1. OtherTypes
    BY TypeParts
  <2>2. auth' \in AuthState
    BY <2>1, LifecycleTypes DEF CircuitOpens, CircuitCloses, HeartbeatClaims, OtherTypes
  <2>3. circuitOpen' \in BOOLEAN
    BY DEF CircuitOpens, CircuitCloses, HeartbeatClaims
  <2>4. degradationSources' \in SUBSET DegradationSource
    BY <2>1 DEF CircuitOpens, CircuitCloses, HeartbeatClaims, PushDegradationSource,
     ClearDegradationSource, OtherTypes, DegradationSource
  <2>5. QED
    BY <1>1, <1>4, <2>1, <2>2, <2>3, <2>4 DEF OtherTypes
<1>7. WalkTypes'
  BY <1>1, TypeParts DEF WalkTypes, walkVars
<1>8. TypeOK'
  BY <1>6, <1>7 DEF TypeOK, WalkTypes, OtherTypes
<1>9. QED
  BY <1>2, <1>5, <1>8

\* The triggers of the shutdown.
LEMMA TriggerSteps ==
    ASSUME HooksInv,
           EventLoopDrains \/ HeartbeatFindsMarker \/ \E s \in Signal : Signalled(s)
    PROVE  HooksInv'
<1> USE DEF HooksInv
<1>1. /\ StartShutdown \/ ShutdownAgain
      /\ UNCHANGED <<auth, otel, degradationSources, shutdownHooks, hooksEnded,
                     coexistenceState, otherListeners, alive>>
      /\ UNCHANGED registrationVars
  BY DEF EventLoopDrains, BeforeExit, HeartbeatFindsMarker, ShutdownRequested,
     Signalled, SignalArrives
<1>2. core # "IDLE"
  <2>1. ASSUME HeartbeatFindsMarker PROVE shutdownHooks # <<>>
    BY <2>1 DEF HeartbeatFindsMarker, ToSet
  <2>2. QED
    BY <2>1 DEF EventLoopDrains, BeforeExit, Signalled, SignalArrives, Phases
<1>3. Phases' /\ NoHeartbeatAfterShutdown' /\ core' \in CoreState
  BY <1>1, <1>2, PhasesTriggered DEF registrationVars
<1>4. IteratorInv' /\ WalkTypes'
  BY <1>1, TypeParts, WalkTriggered
<1>5. /\ handlers' \in SUBSET Signal /\ beforeExitArmed' \in BOOLEAN
      /\ reraise' \in SUBSET [signal : Signal, waits : BOOLEAN]
  <2>1. CASE EventLoopDrains \/ HeartbeatFindsMarker
    BY <2>1 DEF EventLoopDrains, BeforeExit, HeartbeatFindsMarker, ShutdownRequested,
       TypeOK
  <2>2. CASE \E s \in Signal : Signalled(s)
    <3>1. PICK s \in Signal :
              /\ handlers' = handlers \ {s} /\ beforeExitArmed' = beforeExitArmed
              /\ reraise' = reraise \cup {[signal |-> s, waits |-> ~shutdownExecuted]}
      BY <2>2 DEF Signalled, SignalArrives
    <3>3. [signal |-> s, waits |-> ~shutdownExecuted] \in [signal : Signal, waits : BOOLEAN]
      BY DEF TypeOK
    <3>4. QED
      BY <3>1, <3>3 DEF TypeOK
  <2>3. QED
    BY <2>1, <2>2
<1>6. OtherTypes'
  BY <1>1, <1>3, <1>5, TypeParts DEF OtherTypes, registrationVars
<1>7. TypeOK'
  BY <1>4, <1>6 DEF TypeOK, WalkTypes, OtherTypes
<1>8. QED
  BY <1>3, <1>4, <1>7

\* The .finally() of a signal handler.
LEMMA SignalEndSteps ==
    ASSUME HooksInv, \E r \in reraise : SignalEnds(r)
    PROVE  HooksInv'
<1> USE DEF HooksInv
<1>1. /\ UNCHANGED walkVars /\ UNCHANGED registrationVars /\ UNCHANGED lifecycleVars
      /\ handlers' = {} /\ reraise' \subseteq reraise /\ alive' \in BOOLEAN
      /\ UNCHANGED <<beforeExitArmed, coexistenceState, otherListeners>>
  BY DEF SignalEnds, SignalSettles, walkVars
<1>2. IteratorInv'
  BY <1>1, WalkQuiet
<1>3. Phases' /\ NoHeartbeatAfterShutdown'
  BY <1>1, PhasesQuiet DEF Phases, lifecycleVars, registrationVars
<1>4. OtherTypes'
  BY <1>1, TypeParts DEF OtherTypes, lifecycleVars, registrationVars
<1>5. WalkTypes'
  BY <1>1, TypeParts DEF WalkTypes, walkVars
<1>6. TypeOK'
  BY <1>4, <1>5 DEF TypeOK, WalkTypes, OtherTypes
<1>7. QED
  BY <1>2, <1>3, <1>6

\* The loop of executeShutdown() goes on.
LEMMA HookSteps ==
    ASSUME HooksInv, HookStep
    PROVE  HooksInv'
<1> USE DEF HooksInv
<1>1. /\ HookEnds /\ shutdownExecuted
      /\ UNCHANGED <<auth, otel, degradationSources, shutdownHooks, shutdownExecuted,
                     hooksAtStart, handlers, reraise, beforeExitArmed,
                     coexistenceState, otherListeners, alive>>
      /\ UNCHANGED registrationVars
      /\ core' = core \/ core' = CoreAfter(core, "SHUTDOWN", degradationSources)
  BY DEF HookStep, HookEnds, IteratorAt
<1>2. IteratorInv' /\ WalkTypes'
  BY <1>1, TypeParts, WalkAdvances
<1>3. core \in CoreState \ {"IDLE"} /\ "SHUTDOWN" \in CoreState
  BY <1>1 DEF TypeOK, Phases, CoreState
<1>4. core' \in CoreState \ {"IDLE"} /\ (core \in Stopping => core' \in Stopping)
  BY <1>1, <1>3, LifecycleTypes, LateStays
<1>5. Phases'
  BY <1>1, <1>4, LateStays DEF Phases, Registered, registrationVars
<1>6. NoHeartbeatAfterShutdown'
  BY <1>1 DEF NoHeartbeatAfterShutdown
<1>7. OtherTypes'
  BY <1>1, <1>4, TypeParts DEF OtherTypes, registrationVars
<1>8. TypeOK'
  BY <1>2, <1>7 DEF TypeOK, WalkTypes, OtherTypes
<1>9. QED
  BY <1>2, <1>5, <1>6, <1>8

\* Each action preserves the invariant.
LEMMA HooksInvStep == HooksInv /\ [Next]_vars => HooksInv'
<1> SUFFICES ASSUME HooksInv, [Next]_vars
             PROVE  HooksInv'
  OBVIOUS
<1>1. CASE UNCHANGED vars
  <2>1. UNCHANGED walkVars
    BY <1>1 DEF vars, walkVars, coordinatorVars
  <2>2. IteratorInv'
    BY <2>1, WalkQuiet DEF HooksInv
  <2>3. Phases' /\ NoHeartbeatAfterShutdown'
    BY <1>1 DEF HooksInv, Phases, Registered, NoHeartbeatAfterShutdown, vars,
       lifecycleVars, coordinatorVars, registrationVars
  <2>4. TypeOK'
    BY <1>1 DEF HooksInv, TypeOK, vars, lifecycleVars, coordinatorVars,
       registrationVars
  <2>5. QED
    BY <2>2, <2>3, <2>4 DEF HooksInv
<1>2. QED
  BY <1>1, RegisterSteps, OtelQuietSteps, OtelHookSteps, KeyStep, HeartbeatStarts,
     RuntimeSteps, TriggerSteps, SignalEndSteps, HookSteps, Zenon DEF Next

\* It holds at the start.
LEMMA HooksInvInit == Init => HooksInv
<1> SUFFICES ASSUME Init PROVE HooksInv
  OBVIOUS
<1> USE DEF Init, LifecycleInit, CoordinatorInit
<1>1. TypeOK
  <2>1. shutdownHooks \in Seq(Hook) /\ hookCalls \in [Hook -> Nat]
    OBVIOUS
  <2>2. OtherTypes
    BY DEF OtherTypes, CoreState, AuthState, OtelState, OtelPc, InitPc
  <2>3. WalkTypes
    BY <2>1 DEF WalkTypes
  <2>4. QED
    BY <2>2, <2>3, TypeParts
<1>2. Phases /\ NoHeartbeatAfterShutdown
  BY DEF Phases, Registered, ToSet, NoHeartbeatAfterShutdown
<1>3. IteratorInv
  BY DEF IteratorInv, Sorted, EarlierHooksRun, HookOrder
<1>4. QED
  BY <1>1, <1>2, <1>3 DEF HooksInv

\* The invariant holds in every state of every behaviour.
LEMMA HooksInvariant == Spec => []HooksInv
BY HooksInvInit, HooksInvStep, PTL DEF Spec

\* Every hook that was registered when the shutdown began has been called when
\* it is over, and only after the hooks of lower priority that were there with
\* it have ended, although executeShutdown() walks an array that configureOtel()
\* keeps sorting under it.
THEOREM HooksStaySound == Spec => []HooksSound
<1>1. HooksInv => HooksSound
  BY DEF HooksInv, IteratorInv, HooksSound
<1>2. QED
  BY <1>1, HooksInvariant, PTL

\* An init that was in flight when the shutdown began does not start the
\* heartbeat: its guard looks at the core, which the shutdown has moved.
THEOREM NoLateHeartbeat == Spec => []NoHeartbeatAfterShutdown
<1>1. HooksInv => NoHeartbeatAfterShutdown
  BY DEF HooksInv
<1>2. QED
  BY <1>1, HooksInvariant, PTL
=============================================================================
