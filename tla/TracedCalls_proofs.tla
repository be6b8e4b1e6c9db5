--------------------------- MODULE TracedCalls_proofs ---------------------------
(***************************************************************************)
(* The handler of the host runs once and its span ends once, for any       *)
(* number of calls and of callbacks of a thenable; and a traced procedure  *)
(* of a batch gets the index of its own member, for any batch.             *)
(***************************************************************************)
EXTENDS TracedCalls, FiniteSetTheorems, WellFoundedInduction, TLAPS

CallRecord ==
  [pc : {"idle", "starting", "handling", "awaiting", "chained", "calling", "promised", "over"},
   wrapper : {"none", "middleware", "async"}, linked : BOOLEAN, runs : Nat, thens : Nat,
   inner : {"pending", "value", "throws", "locked"},
   outcome : {"none", "bare", "tracer", "value", "throws"}]

SpanRecord == [state : {"none", "open", "ended"}, ends : Nat, error : BOOLEAN, late : BOOLEAN]

Types ==
  /\ call \in [Call -> CallRecord]
  /\ span \in [Call -> SpanRecord]
  /\ guard \in [Call -> {"off", "armed", "done"}]

\* A span that has not been ended can be; one that has been is left alone.
SpanGood(s) == ~ s.late /\ s.ends <= 1 /\ (s.ends = 0 => s.state # "ended")

\* The guard knows whether the span of a call under way has ended.
Good(r, s, g) ==
  /\ SpanGood(s)
  /\ r.pc \in {"idle", "starting"} =>
       r.runs = 0 /\ r.outcome = "none" /\ s.ends = 0 /\ g = "off"
  /\ r.pc \notin {"idle", "starting"} => r.runs = 1
  /\ r.pc # "over" /\ g # "done" => s.ends = 0
  /\ g = "armed" => s.ends = 0
  /\ r.pc = "handling" /\ r.wrapper = "middleware" => g = "off"

CallInv == Types /\ \A c \in Call : Good(call[c], span[c], guard[c])

\* A step of c is none of another call.
Others(c) == \A d \in Call : d # c =>
               call'[d] = call[d] /\ span'[d] = span[d] /\ guard'[d] = guard[d]

LEMMA OneCallSteps ==
  ASSUME CallInv, NEW c \in Call, Types', Others(c), Good(call'[c], span'[c], guard'[c])
  PROVE  CallInv'
BY DEF CallInv, Others, Good, SpanGood

-----------------------------------------------------------------------------
\* Ending a span

LEMMA EndedTyped ==
  ASSUME NEW s \in SpanRecord, SpanGood(s)
  PROVE  /\ Ended(s) \in SpanRecord /\ Ended(s).state = "ended" /\ Ended(s).ends = s.ends + 1
         /\ ~ Ended(s).late
         /\ Failed(s) \in SpanRecord /\ Failed(s).state = s.state /\ Failed(s).ends = s.ends
         /\ s.ends = 0 => ~ Failed(s).late
<1>1. s.ends + 1 \in Nat /\ (s.late \/ s.state = "ended") \in BOOLEAN
  BY DEF SpanRecord
<1>2. /\ Ended(s) \in SpanRecord /\ Ended(s).state = "ended" /\ Ended(s).ends = s.ends + 1
      /\ Ended(s).late = s.late
  BY <1>1 DEF Ended, SpanRecord
<1>3. /\ Failed(s) \in SpanRecord /\ Failed(s).state = s.state /\ Failed(s).ends = s.ends
      /\ Failed(s).late = (s.late \/ s.state = "ended")
  BY <1>1 DEF Failed, SpanRecord
<1>4. QED
  BY <1>2, <1>3 DEF SpanGood

LEMMA EndOnceEnds ==
  ASSUME Types, NEW c \in Call, NEW s \in SpanRecord, SpanGood(s),
         guard[c] # "done" => s.ends = 0, EndOnce(c, s)
  PROVE  /\ span' \in [Call -> SpanRecord] /\ guard' \in [Call -> {"off", "armed", "done"}]
         /\ \A d \in Call : d # c => span'[d] = span[d] /\ guard'[d] = guard[d]
         /\ SpanGood(span'[c]) /\ guard'[c] = "done"
<1> DEFINE end == IF guard[c] = "done" THEN s ELSE Ended(s)
<1>1. end \in SpanRecord /\ SpanGood(end)
  BY EndedTyped DEF SpanGood, SpanRecord
<1>2. span' = [span EXCEPT ![c] = end] /\ guard' = [guard EXCEPT ![c] = "done"]
  BY DEF EndOnce
<1> HIDE DEF end
<1>3. QED
  BY <1>1, <1>2 DEF Types

LEMMA SettleEnds ==
  ASSUME CallInv, NEW c \in Call, call[c].pc # "over", NEW outcome, Settle(c, outcome)
  PROVE  /\ span' \in [Call -> SpanRecord] /\ guard' \in [Call -> {"off", "armed", "done"}]
         /\ \A d \in Call : d # c => span'[d] = span[d] /\ guard'[d] = guard[d]
         /\ SpanGood(span'[c]) /\ guard'[c] = "done"
<1>1. /\ span[c] \in SpanRecord /\ SpanGood(span[c]) /\ (guard[c] # "done" => span[c].ends = 0)
  BY DEF CallInv, Types, Good
<1> DEFINE s == IF guard[c] = "done" THEN span[c] ELSE Failed(span[c])
<1>2. s \in SpanRecord /\ SpanGood(s) /\ (guard[c] # "done" => s.ends = 0)
  BY <1>1, EndedTyped DEF SpanGood
<1>3. EndOnce(c, s) \/ EndOnce(c, span[c])
  BY DEF Settle, SettleWithError
<1> HIDE DEF s
<1>4. QED
  BY <1>1, <1>2, <1>3, EndOnceEnds DEF CallInv

LEMMA AnsweredTyped ==
  ASSUME NEW r \in CallRecord, NEW outcome \in {"bare", "tracer", "value", "throws"}
  PROVE  /\ Answered(r, outcome) \in CallRecord
         /\ Answered(r, outcome).pc = r.pc /\ Answered(r, outcome).runs = r.runs
         /\ Answered(r, outcome).wrapper = r.wrapper
BY DEF Answered, CallRecord

LEMMA OverEnds ==
  ASSUME Types, NEW c \in Call, NEW outcome \in {"value", "throws"}, Over(c, outcome)
  PROVE  /\ call' \in [Call -> CallRecord]
         /\ \A d \in Call : d # c => call'[d] = call[d]
         /\ call'[c].pc = "over" /\ call'[c].runs = call[c].runs
<1> DEFINE r == [Answered(call[c], outcome) EXCEPT !.pc = "over"]
<1>1. Answered(call[c], outcome) \in CallRecord /\ Answered(call[c], outcome).runs = call[c].runs
  BY AnsweredTyped DEF Types
<1>2. r \in CallRecord /\ r.pc = "over" /\ r.runs = call[c].runs
  BY <1>1 DEF CallRecord
<1>3. call' = [call EXCEPT ![c] = r]
  BY DEF Over
<1> HIDE DEF r
<1>4. QED
  BY <1>2, <1>3 DEF Types

\* A call under way that is over with a settled guard.
LEMMA OverAndSettled ==
  ASSUME CallInv, NEW c \in Call, call[c].pc \notin {"idle", "starting", "over"},
         NEW outcome \in {"value", "throws"}, Over(c, outcome), Settle(c, outcome)
  PROVE  CallInv'
<1>1. Types /\ call[c].runs = 1
  BY DEF CallInv, Good
<1>2. /\ call' \in [Call -> CallRecord] /\ call'[c].pc = "over" /\ call'[c].runs = 1
      /\ \A d \in Call : d # c => call'[d] = call[d]
  BY <1>1, OverEnds
<1>3. /\ span' \in [Call -> SpanRecord] /\ guard' \in [Call -> {"off", "armed", "done"}]
      /\ \A d \in Call : d # c => span'[d] = span[d] /\ guard'[d] = guard[d]
      /\ SpanGood(span'[c]) /\ guard'[c] = "done"
  BY SettleEnds
<1>4. Types' /\ Others(c) /\ Good(call'[c], span'[c], guard'[c])
  BY <1>2, <1>3 DEF Types, Others, Good
<1>5. QED
  BY <1>4, OneCallSteps

LEMMA AfterCallbackTyped ==
  ASSUME NEW r \in CallRecord
  PROVE  /\ AfterCallback(r) \in CallRecord /\ AfterCallback(r).pc = r.pc
         /\ AfterCallback(r).runs = r.runs /\ AfterCallback(r).wrapper = r.wrapper
BY AnsweredTyped DEF AfterCallback

\* A step that gives c the record r and the span s.
LEMMA CallBecomes ==
  ASSUME CallInv, NEW c \in Call, NEW r \in CallRecord, NEW s \in SpanRecord,
         NEW g \in {"off", "armed", "done"}, Good(r, s, g),
         call' = [call EXCEPT ![c] = r],
         span' = [span EXCEPT ![c] = s] \/ (s = span[c] /\ UNCHANGED span),
         guard' = [guard EXCEPT ![c] = g] \/ (g = guard[c] /\ UNCHANGED guard)
  PROVE  CallInv'
<1>1. Types
  BY DEF CallInv
<1>2. /\ call' \in [Call -> CallRecord] /\ call'[c] = r
      /\ \A d \in Call : d # c => call'[d] = call[d]
  BY <1>1 DEF Types
<1>3. /\ span' \in [Call -> SpanRecord] /\ span'[c] = s
      /\ \A d \in Call : d # c => span'[d] = span[d]
  BY <1>1 DEF Types
<1>4. /\ guard' \in [Call -> {"off", "armed", "done"}] /\ guard'[c] = g
      /\ \A d \in Call : d # c => guard'[d] = guard[d]
  BY <1>1 DEF Types
<1>5. Types' /\ Others(c) /\ Good(call'[c], span'[c], guard'[c])
  BY <1>2, <1>3, <1>4 DEF Types, Others
<1>6. QED
  BY <1>5, OneCallSteps

LEMMA OnlyCallBecomes ==
  ASSUME CallInv, NEW c \in Call, NEW r \in CallRecord, Good(r, span[c], guard[c]),
         call' = [call EXCEPT ![c] = r], UNCHANGED <<span, guard>>
  PROVE  CallInv'
<1>1. span[c] \in SpanRecord /\ guard[c] \in {"off", "armed", "done"}
  BY DEF CallInv, Types
<1>2. QED
  BY <1>1, CallBecomes

-----------------------------------------------------------------------------
\* Up to the handler

LEMMA StartsKeep ==
  ASSUME CallInv, NEW c \in Call, Starts(c)
  PROVE  CallInv'
<1>1. /\ call[c] \in CallRecord /\ span[c] \in SpanRecord /\ guard[c] \in {"off", "armed", "done"}
      /\ Good(call[c], span[c], guard[c]) /\ call[c].pc \in {"idle", "starting"}
  BY DEF CallInv, Types, Starts, Invoke, StartsNoop, StartThrows, StartsSpan, Step
<1>2. SpanGood(span[c]) /\ span[c].ends = 0 /\ guard[c] = "off" /\ call[c].runs = 0
  BY <1>1 DEF Good
<1>3. CASE Invoke(c)
  <2> PICK w \in {"middleware", "async"}, linked \in BOOLEAN :
        call' = [call EXCEPT ![c] = [@ EXCEPT !.pc = "starting", !.wrapper = w, !.linked = linked]]
    BY <1>3 DEF Invoke
  <2> DEFINE r == [call[c] EXCEPT !.pc = "starting", !.wrapper = w, !.linked = linked]
  <2>1. r \in CallRecord /\ r.pc = "starting" /\ r.runs = 0 /\ r.outcome = call[c].outcome
    BY <1>1, <1>2 DEF CallRecord
  <2>2. Good(r, span[c], guard[c])
    BY <1>1, <1>2, <2>1 DEF Good
  <2>3. call' = [call EXCEPT ![c] = r] /\ UNCHANGED <<span, guard>>
    BY <1>3 DEF Invoke
  <2> HIDE DEF r
  <2>4. QED
    BY <2>1, <2>2, <2>3, OnlyCallBecomes
<1>4. CASE StartsNoop(c) \/ StartThrows(c)
  <2> DEFINE r == [call[c] EXCEPT !.pc = "over", !.runs = 1, !.outcome = "bare"]
  <2>1. call[c].runs + 1 = 1
    BY <1>2
  <2>2. r \in CallRecord /\ r.pc = "over" /\ r.runs = 1
    BY <1>1, <2>1 DEF CallRecord
  <2>3. call' = [call EXCEPT ![c] = r] /\ UNCHANGED guard
    BY <1>4, <2>1 DEF StartsNoop, StartThrows, RunBare
  <2> HIDE DEF r
  <2>4. Ended(span[c]) \in SpanRecord /\ SpanGood(Ended(span[c]))
    BY <1>1, <1>2, EndedTyped DEF SpanGood
  <2>5. Good(r, span[c], guard[c]) /\ Good(r, Ended(span[c]), guard[c])
    BY <1>2, <2>2, <2>4 DEF Good
  <2>6. CASE StartsNoop(c)
    <3>1. span' = [span EXCEPT ![c] = Ended(span[c])]
      BY <2>6 DEF StartsNoop
    <3>2. QED
      BY <1>1, <2>2, <2>3, <2>4, <2>5, <3>1, CallBecomes
  <2>7. CASE StartThrows(c)
    <3>1. UNCHANGED span
      BY <2>7 DEF StartThrows
    <3>2. QED
      BY <1>1, <2>2, <2>3, <2>5, <3>1, CallBecomes
  <2>8. QED
    BY <1>4, <2>6, <2>7
<1>5. CASE StartsSpan(c)
  <2> DEFINE r == [call[c] EXCEPT !.pc = "handling", !.runs = 1]
             s == [span[c] EXCEPT !.state = "open"]
             g == IF call[c].wrapper = "async" THEN "armed" ELSE guard[c]
  <2>1. call[c].runs + 1 = 1
    BY <1>2
  <2>2. r \in CallRecord /\ r.pc = "handling" /\ r.runs = 1 /\ r.wrapper = call[c].wrapper
    BY <1>1, <2>1 DEF CallRecord
  <2>3. s \in SpanRecord /\ s.ends = 0 /\ s.state = "open" /\ s.late = span[c].late
    BY <1>1, <1>2 DEF SpanRecord
  <2>4. Good(r, s, g)
    BY <1>2, <2>2, <2>3 DEF Good, SpanGood
  <2>5. call' = [call EXCEPT ![c] = r]
    BY <1>5, <2>1 DEF StartsSpan
  <2>9. span' = [span EXCEPT ![c] = s]
    BY <1>5 DEF StartsSpan, CallInv, Types
  <2>6. guard' = [guard EXCEPT ![c] = g] \/ (g = guard[c] /\ UNCHANGED guard)
    BY <1>5 DEF StartsSpan, Arm
  <2>7. g \in {"off", "armed", "done"}
    BY <1>1
  <2> HIDE DEF r, s, g
  <2>8. QED
    BY <2>2, <2>3, <2>4, <2>5, <2>6, <2>7, <2>9, CallBecomes
<1>6. QED
  BY <1>3, <1>4, <1>5 DEF Starts

-----------------------------------------------------------------------------
\* The handler

LEMMA HandlesKeep ==
  ASSUME CallInv, NEW c \in Call, Handles(c)
  PROVE  CallInv'
<1>1. /\ call[c] \in CallRecord /\ span[c] \in SpanRecord /\ guard[c] \in {"off", "armed", "done"}
      /\ Good(call[c], span[c], guard[c]) /\ call[c].pc \in {"handling", "calling"}
  BY DEF CallInv, Types, Handles, AsyncReturns, ReturnsNow, ReturnsPromise, ReturnsThenable,
         ThenReturns, Step
<1>2. SpanGood(span[c]) /\ call[c].runs = 1 /\ (guard[c] # "done" => span[c].ends = 0)
  BY <1>1 DEF Good
<1>3. ASSUME span[c].ends = 0
      PROVE  /\ Ended(span[c]) \in SpanRecord /\ SpanGood(Ended(span[c]))
             /\ Ended(Failed(span[c])) \in SpanRecord /\ SpanGood(Ended(Failed(span[c])))
  <2>1. Failed(span[c]) \in SpanRecord /\ SpanGood(Failed(span[c])) /\ Failed(span[c]).ends = 0
    BY <1>1, <1>2, <1>3, EndedTyped DEF SpanGood
  <2>2. QED
    BY <1>1, <1>2, <1>3, <2>1, EndedTyped DEF SpanGood
<1>4. CASE AsyncReturns(c)
  <2>1. CASE \E result \in {"value", "throws"} : Over(c, result) /\ Settle(c, result)
    BY <1>1, <2>1, OverAndSettled
  <2>2. CASE call' = [call EXCEPT ![c].pc = "awaiting"] /\ UNCHANGED <<span, guard>>
    <3> DEFINE r == [call[c] EXCEPT !.pc = "awaiting"]
    <3>1. r \in CallRecord /\ r.pc = "awaiting" /\ r.runs = 1 /\ call' = [call EXCEPT ![c] = r]
      BY <1>1, <1>2, <2>2 DEF CallRecord
    <3> HIDE DEF r
    <3>2. Good(r, span[c], guard[c])
      BY <1>1, <1>2, <3>1 DEF Good
    <3>3. QED
      BY <2>2, <3>1, <3>2, OnlyCallBecomes
  <2>3. QED
    BY <1>4, <2>1, <2>2 DEF AsyncReturns, Sync, Deferred
<1>5. CASE ReturnsNow(c)
  <2>1. PICK result \in Sync :
          /\ call' = [call EXCEPT ![c] =
               [Answered(AfterCallback(@), IF result = "value" THEN "value" ELSE "throws") EXCEPT !.pc = "over"]]
          /\ span' = [span EXCEPT ![c] = Ended(IF result = "value" THEN @ ELSE Failed(@))]
          /\ UNCHANGED guard
    BY <1>5 DEF ReturnsNow
  <2> DEFINE a == Answered(AfterCallback(call[c]), IF result = "value" THEN "value" ELSE "throws")
             r == [a EXCEPT !.pc = "over"]
             s == Ended(IF result = "value" THEN span[c] ELSE Failed(span[c]))
  <2>2. span[c].ends = 0 /\ guard[c] = "off"
    BY <1>1, <1>5 DEF Good, ReturnsNow, Step
  <2>3. a \in CallRecord /\ a.runs = 1
    BY <1>1, <1>2, AfterCallbackTyped, AnsweredTyped
  <2>4. r \in CallRecord /\ r.pc = "over" /\ r.runs = 1
    BY <2>3 DEF CallRecord
  <2>5. s \in SpanRecord /\ SpanGood(s)
    BY <1>3, <2>2
  <2>6. call' = [call EXCEPT ![c] = r] /\ span' = [span EXCEPT ![c] = s] /\ UNCHANGED guard
    BY <2>1
  <2> HIDE DEF a, r, s
  <2>7. Good(r, s, guard[c])
    BY <2>2, <2>4, <2>5 DEF Good
  <2>8. QED
    BY <1>1, <2>4, <2>5, <2>6, <2>7, CallBecomes
<1>6. CASE ReturnsPromise(c)
  <2>1. span[c].ends = 0 /\ guard[c] = "off"
    BY <1>1, <1>6 DEF Good, ReturnsPromise, Step
  <2>2. CASE /\ call' = [call EXCEPT ![c] = [AfterCallback(@) EXCEPT !.pc = "chained"]]
             /\ Arm(c) /\ UNCHANGED span
    <3> DEFINE r == [AfterCallback(call[c]) EXCEPT !.pc = "chained"]
    <3>1. r \in CallRecord /\ r.pc = "chained" /\ r.runs = 1
      BY <1>1, <1>2, AfterCallbackTyped DEF CallRecord
    <3>2. call' = [call EXCEPT ![c] = r] /\ guard' = [guard EXCEPT ![c] = "armed"]
      BY <2>2 DEF Arm
    <3> HIDE DEF r
    <3>3. Good(r, span[c], "armed")
      BY <1>2, <2>1, <3>1 DEF Good
    <3>4. QED
      BY <1>1, <2>2, <3>1, <3>2, <3>3, CallBecomes
  <2>3. CASE /\ call' = [call EXCEPT ![c] = [Answered(AfterCallback(@), "throws") EXCEPT !.pc = "over"]]
             /\ span' = [span EXCEPT ![c] = Ended(Failed(@))]
             /\ guard' = [guard EXCEPT ![c] = "done"]
    <3> DEFINE a == Answered(AfterCallback(call[c]), "throws")
               r == [a EXCEPT !.pc = "over"]
               s == Ended(Failed(span[c]))
    <3>1. a \in CallRecord /\ a.runs = 1
      BY <1>1, <1>2, AfterCallbackTyped, AnsweredTyped
    <3>2. r \in CallRecord /\ r.pc = "over" /\ r.runs = 1
      BY <3>1 DEF CallRecord
    <3>3. s \in SpanRecord /\ SpanGood(s)
      BY <1>3, <2>1
    <3>4. call' = [call EXCEPT ![c] = r] /\ span' = [span EXCEPT ![c] = s]
      BY <2>3
    <3> HIDE DEF r, s
    <3>5. Good(r, s, "done")
      BY <3>2, <3>3 DEF Good
    <3>6. QED
      BY <2>3, <3>2, <3>3, <3>4, <3>5, CallBecomes
  <2>4. QED
    BY <1>6, <2>2, <2>3 DEF ReturnsPromise
<1>7. CASE ReturnsThenable(c)
  <2> DEFINE r == [call[c] EXCEPT !.pc = "calling"]
  <2>1. span[c].ends = 0
    BY <1>1, <1>7 DEF Good, ReturnsThenable, Step
  <2>2. r \in CallRecord /\ r.pc = "calling" /\ r.runs = 1
    BY <1>1, <1>2 DEF CallRecord
  <2>3. call' = [call EXCEPT ![c] = r] /\ guard' = [guard EXCEPT ![c] = "armed"] /\ UNCHANGED span
    BY <1>7 DEF ReturnsThenable, Arm
  <2> HIDE DEF r
  <2>4. Good(r, span[c], "armed")
    BY <1>2, <2>1, <2>2 DEF Good
  <2>5. QED
    BY <1>1, <2>2, <2>3, <2>4, CallBecomes
<1>8. CASE ThenReturns(c)
  <2>1. PICK threw \in BOOLEAN :
          call' = [call EXCEPT ![c] = [AfterCallback(call[c]) EXCEPT !.pc = "promised",
                                       !.inner = IF threw /\ @ = "pending" THEN "throws" ELSE @]]
    BY <1>8 DEF ThenReturns
  <2> DEFINE a == AfterCallback(call[c])
             r == [a EXCEPT !.pc = "promised",
                            !.inner = IF threw /\ a.inner = "pending" THEN "throws" ELSE a.inner]
  <2>2. a \in CallRecord /\ a.runs = 1
    BY <1>1, <1>2, AfterCallbackTyped
  <2>3. r \in CallRecord /\ r.pc = "promised" /\ r.runs = 1
    BY <2>2 DEF CallRecord
  <2>4. call' = [call EXCEPT ![c] = r]
    BY <2>1
  <2>5. UNCHANGED <<span, guard>>
    BY <1>8 DEF ThenReturns
  <2> HIDE DEF r
  <2>6. Good(r, span[c], guard[c])
    BY <1>1, <1>2, <2>3 DEF Good
  <2>7. QED
    BY <2>3, <2>4, <2>5, <2>6, OnlyCallBecomes
<1>9. QED
  BY <1>4, <1>5, <1>6, <1>7, <1>8 DEF Handles

-----------------------------------------------------------------------------
\* After the handler

LEMMA ContinuesKeep ==
  ASSUME CallInv, NEW c \in Call, Continues(c)
  PROVE  CallInv'
<1>1. call[c] \in CallRecord /\ Good(call[c], span[c], guard[c])
  BY DEF CallInv, Types
<1>2. CASE AwaitEnds(c)
  BY <1>2, OverAndSettled DEF AwaitEnds, Step
<1>3. CASE PromiseSettles(c)
  BY <1>3, OverAndSettled DEF PromiseSettles, Step
<1>4. CASE CallsBack(c)
  <2>1. PICK outcome \in {"value", "throws", "locked"} :
          call' = [call EXCEPT ![c] = [call[c] EXCEPT !.thens = @ + 1,
                                         !.inner = IF @ = "pending" THEN outcome ELSE @]]
    BY <1>4 DEF CallsBack
  <2> DEFINE r == [call[c] EXCEPT !.thens = @ + 1,
                                  !.inner = IF @ = "pending" THEN outcome ELSE @]
  <2>2. call[c].thens + 1 \in Nat
    BY <1>1 DEF CallRecord
  <2>3. r \in CallRecord /\ r.pc = call[c].pc /\ r.runs = call[c].runs
    BY <1>1, <2>2 DEF CallRecord
  <2>4. call' = [call EXCEPT ![c] = r] /\ UNCHANGED <<span, guard>>
    BY <1>4, <2>1 DEF CallsBack
  <2>5. call[c].pc \in {"calling", "promised"}
    BY <1>4 DEF CallsBack
  <2> HIDE DEF r
  <2>6. Good(r, span[c], guard[c])
    BY <1>1, <2>3, <2>5 DEF Good
  <2>7. QED
    BY <2>3, <2>4, <2>6, OnlyCallBecomes
<1>5. CASE LockedSettles(c)
  <2>1. PICK outcome \in {"value", "throws"} : call' = [call EXCEPT ![c].inner = outcome]
    BY <1>5 DEF LockedSettles
  <2> DEFINE r == [call[c] EXCEPT !.inner = outcome]
  <2>2. r \in CallRecord /\ r.pc = call[c].pc /\ r.runs = call[c].runs
    BY <1>1 DEF CallRecord
  <2>3. call' = [call EXCEPT ![c] = r] /\ UNCHANGED <<span, guard>> /\ call[c].pc = "promised"
    BY <1>5, <2>1 DEF LockedSettles, Step
  <2> HIDE DEF r
  <2>4. Good(r, span[c], guard[c])
    BY <1>1, <2>2, <2>3 DEF Good
  <2>5. QED
    BY <2>2, <2>3, <2>4, OnlyCallBecomes
<1>6. CASE Observe(c)
  BY <1>6, OverAndSettled DEF Observe, Step
<1>7. QED
  BY <1>2, <1>3, <1>4, <1>5, <1>6 DEF Continues

\* The timer only ends a span that the guard knows to be open.
LEMMA WatchdogKeeps ==
  ASSUME CallInv, NEW c \in Call, Watchdog(c)
  PROVE  CallInv'
<1>1. /\ Types /\ guard[c] = "armed" /\ Good(call[c], span[c], guard[c])
      /\ EndOnce(c, span[c]) /\ UNCHANGED call
  BY DEF CallInv, Watchdog
<1>2. span[c] \in SpanRecord /\ SpanGood(span[c]) /\ span[c].ends = 0
  BY <1>1 DEF Types, Good
<1>3. /\ span' \in [Call -> SpanRecord] /\ guard' \in [Call -> {"off", "armed", "done"}]
      /\ \A d \in Call : d # c => span'[d] = span[d] /\ guard'[d] = guard[d]
      /\ SpanGood(span'[c]) /\ guard'[c] = "done"
  BY <1>1, <1>2, EndOnceEnds
<1>4. Types' /\ Others(c) /\ Good(call'[c], span'[c], guard'[c])
  BY <1>1, <1>3 DEF Types, Others, Good
<1>5. QED
  BY <1>4, OneCallSteps

-----------------------------------------------------------------------------
\* tracedRequestMiddleware(), withAsyncCausality() and startSpanLeakGuard():
\* whatever the tracer does and whoever comes first, the watchdog, the
\* settlement or a second callback, handlers run and spans end once.
THEOREM CallsRunOnce == Spec => []CallsOnce
<1>1. Init => CallInv
  <2> SUFFICES ASSUME Init PROVE CallInv
    OBVIOUS
  <2>1. Idle \in CallRecord /\ Unstarted \in SpanRecord /\ Good(Idle, Unstarted, "off")
    BY DEF Idle, Unstarted, CallRecord, SpanRecord, Good, SpanGood
  <2>2. /\ call = [c \in Call |-> Idle] /\ span = [c \in Call |-> Unstarted]
        /\ guard = [c \in Call |-> "off"]
    BY DEF Init
  <2>3. QED
    BY <2>1, <2>2 DEF CallInv, Types
<1>2. CallInv /\ [Next]_vars => CallInv'
  <2> SUFFICES ASSUME CallInv, [Next]_vars PROVE CallInv'
    OBVIOUS
  <2>1. ASSUME NEW c \in Call, Starts(c) \/ Handles(c) \/ Continues(c) \/ Watchdog(c) PROVE CallInv'
    BY <2>1, StartsKeep, HandlesKeep, ContinuesKeep, WatchdogKeeps
  <2>2. CASE Register \/ Trpc \/ UNCHANGED vars
    <3>1. UNCHANGED <<call, span, guard>>
      BY <2>2 DEF Register, Trpc, vars
    <3>2. QED
      BY <3>1 DEF CallInv, Types, Good, SpanGood
  <2>3. QED
    BY <2>1, <2>2 DEF Next
<1>3. CallInv => CallsOnce
  <2> SUFFICES ASSUME CallInv, NEW c \in Call
               PROVE  /\ call[c].runs <= 1 /\ (call[c].outcome # "none" => call[c].runs = 1)
                      /\ span[c].ends <= 1 /\ ~ span[c].late
    BY DEF CallsOnce, HandlerRunsOnce, SpanEndsOnce
  <2>1. Good(call[c], span[c], guard[c])
    BY DEF CallInv
  <2>2. QED
    BY <2>1 DEF Good, SpanGood
<1>4. QED
  BY <1>1, <1>2, <1>3, PTL DEF Spec

-----------------------------------------------------------------------------
\* The loops of buildEnvelope() and parseBatchUrl()

\* Whatever holds at 0 and from each number to the next holds up to n: the
\* smallest number where it did not would have one before it.
LEMMA UpTo ==
  ASSUME NEW n \in Nat, NEW T \in SUBSET (0 .. n), 0 \in T,
         \A i \in 0 .. n - 1 : i \in T => i + 1 \in T
  PROVE  T = 0 .. n
<1> DEFINE C == (0 .. n) \ T
<1> SUFFICES ASSUME C # {} PROVE FALSE
  OBVIOUS
<1>1. C \in SUBSET Nat
  OBVIOUS
<1>2. \E m \in C : \A k \in C : ~ (<<k, m>> \in OpToRel(<, Nat))
  <2> HIDE DEF C
  <2>1. QED
    BY <1>1, NatLessThanWellFounded, WFMin
<1>3. PICK m \in C : \A k \in C : ~ (<<k, m>> \in OpToRel(<, Nat))
  BY <1>2
<1>4. m \in 1 .. n /\ m - 1 \in 0 .. n - 1 /\ m - 1 < m /\ (m - 1) + 1 = m
  OBVIOUS
<1>5. m - 1 \in C
  BY <1>4
<1>6. <<m - 1, m>> \in OpToRel(<, Nat)
  BY <1>4 DEF OpToRel
<1>7. QED
  BY <1>3, <1>5, <1>6

\* What the loop has kept after each round.
Keeps(f, s, kept, n) ==
  f = [i \in 0 .. n |->
         IF i = 0 THEN <<>> ELSE IF s[i] \in kept THEN Append(f[i - 1], s[i]) ELSE f[i - 1]]

LEMMA LoopRuns ==
  ASSUME NEW s, NEW kept, NEW n \in Nat
  PROVE  \E f : Keeps(f, s, kept, n)
<1> DEFINE T == {m \in 0 .. n : \E f : Keeps(f, s, kept, m)}
<1>1. 0 \in T
  <2> DEFINE f == [i \in 0 .. 0 |-> <<>>]
  <2>1. Keeps(f, s, kept, 0)
    BY DEF Keeps
  <2>2. QED
    BY <2>1
<1>2. ASSUME NEW m \in 0 .. n - 1, m \in T PROVE m + 1 \in T
  <2>1. PICK f : Keeps(f, s, kept, m)
    BY <1>2
  <2> DEFINE step(i) == IF s[i] \in kept THEN Append(f[i - 1], s[i]) ELSE f[i - 1]
             g == [i \in 0 .. m + 1 |-> IF i = 0 THEN <<>> ELSE step(i)]
  <2>2. \A i \in 0 .. m : f[i] = IF i = 0 THEN <<>> ELSE step(i)
    BY <2>1 DEF Keeps
  <2>3. \A i \in 0 .. m : g[i] = f[i]
    BY <2>2
  <2>4. ASSUME NEW i \in 0 .. m + 1, i # 0 PROVE g[i - 1] = f[i - 1]
    <3>1. i - 1 \in 0 .. m
      BY <2>4
    <3> HIDE DEF g
    <3>2. QED
      BY <2>3, <3>1
  <2>5. \A i \in 0 .. m + 1 : i # 0 =>
          step(i) = IF s[i] \in kept THEN Append(g[i - 1], s[i]) ELSE g[i - 1]
    BY <2>4
  <2>6. g = [i \in 0 .. m + 1 |->
               IF i = 0 THEN <<>>
               ELSE IF s[i] \in kept THEN Append(g[i - 1], s[i]) ELSE g[i - 1]]
    BY <2>5
  <2> HIDE DEF g
  <2>7. Keeps(g, s, kept, m + 1)
    BY <2>6 DEF Keeps
  <2>8. QED
    BY <2>7
<1>3. T = 0 .. n
  <2> HIDE DEF T
  <2>1. T \in SUBSET (0 .. n)
    BY DEF T
  <2>2. QED
    BY <1>1, <1>2, <2>1, UpTo
<1>4. QED
  BY <1>3

LEMMA FilteredIs ==
  ASSUME NEW s, NEW kept, Len(s) \in Nat
  PROVE  \E f : /\ Filtered(s, kept) = f[Len(s)] /\ f[0] = <<>>
                /\ \A i \in 1 .. Len(s) :
                     f[i] = IF s[i] \in kept THEN Append(f[i - 1], s[i]) ELSE f[i - 1]
<1> DEFINE f == CHOOSE f : Keeps(f, s, kept, Len(s))
<1>1. Keeps(f, s, kept, Len(s))
  BY LoopRuns
<1>2. Filtered(s, kept) = f[Len(s)]
  BY DEF Filtered, Keeps
<1> HIDE DEF f
<1>3. \A i \in 0 .. Len(s) :
        f[i] = IF i = 0 THEN <<>> ELSE IF s[i] \in kept THEN Append(f[i - 1], s[i]) ELSE f[i - 1]
  BY <1>1 DEF Keeps
<1>4. QED
  BY <1>1, <1>2, <1>3

LEMMA FilteredTyped ==
  ASSUME NEW S, NEW s \in Seq(S), NEW kept
  PROVE  Filtered(s, kept) \in Seq(S)
<1>1. PICK f : /\ Filtered(s, kept) = f[Len(s)] /\ f[0] = <<>>
               /\ \A i \in 1 .. Len(s) :
                    f[i] = IF s[i] \in kept THEN Append(f[i - 1], s[i]) ELSE f[i - 1]
  BY FilteredIs
<1> DEFINE T == {i \in 0 .. Len(s) : f[i] \in Seq(S)}
<1>2. 0 \in T
  <2>1. 0 \in 0 .. Len(s) /\ <<>> \in Seq(S)
    OBVIOUS
  <2>2. QED
    BY <1>1, <2>1
<1>3. ASSUME NEW i \in 0 .. Len(s) - 1, i \in T PROVE i + 1 \in T
  <2>1. i + 1 \in 1 .. Len(s) /\ (i + 1) - 1 = i /\ s[i + 1] \in S
    OBVIOUS
  <2>2. f[i + 1] = IF s[i + 1] \in kept THEN Append(f[i], s[i + 1]) ELSE f[i]
    BY <1>1, <2>1
  <2>3. f[i] \in Seq(S) /\ i + 1 \in 0 .. Len(s)
    BY <1>3
  <2>4. Append(f[i], s[i + 1]) \in Seq(S)
    BY <2>1, <2>3
  <2>5. f[i + 1] \in Seq(S)
    BY <2>2, <2>3, <2>4
  <2>6. QED
    BY <2>3, <2>5
<1>4. T = 0 .. Len(s)
  <2> HIDE DEF T
  <2>1. T \in SUBSET (0 .. Len(s)) /\ Len(s) \in Nat
    BY DEF T
  <2>2. QED
    BY <1>2, <1>3, <2>1, UpTo
<1>5. QED
  BY <1>1, <1>4

Occurrences(names, n, k) == {i \in 1 .. k : names[i] = n}

LEMMA OccurrencesCount ==
  ASSUME NEW names, NEW n, NEW k \in Nat
  PROVE  /\ IsFiniteSet(Occurrences(names, n, k))
         /\ Cardinality(Occurrences(names, n, k)) \in Nat
<1>1. Occurrences(names, n, k) \subseteq 1 .. k
  BY DEF Occurrences
<1>2. 1 \in Int /\ k \in Int
  OBVIOUS
<1>3. IsFiniteSet(1 .. k)
  BY <1>2, FS_Interval
<1>4. IsFiniteSet(Occurrences(names, n, k))
  BY <1>1, <1>3, FS_Subset
<1>5. QED
  BY <1>4, FS_CardinalityType

LEMMA NoneAtFirst ==
  ASSUME NEW names, NEW n
  PROVE  Cardinality(Occurrences(names, n, 0)) = 0
<1>1. Occurrences(names, n, 0) = {}
  BY DEF Occurrences
<1>2. QED
  BY <1>1, FS_EmptySet

LEMMA OneMore ==
  ASSUME NEW names, NEW n, NEW k \in Nat
  PROVE  Cardinality(Occurrences(names, n, k + 1)) =
           Cardinality(Occurrences(names, n, k)) + (IF names[k + 1] = n THEN 1 ELSE 0)
<1>1. IsFiniteSet(Occurrences(names, n, k)) /\ Cardinality(Occurrences(names, n, k)) \in Nat
  BY OccurrencesCount
<1>2. CASE names[k + 1] = n
  <2>1. Occurrences(names, n, k + 1) = Occurrences(names, n, k) \cup {k + 1}
    BY <1>2 DEF Occurrences
  <2>2. k + 1 \notin Occurrences(names, n, k)
    BY DEF Occurrences
  <2>3. Cardinality(Occurrences(names, n, k) \cup {k + 1}) = Cardinality(Occurrences(names, n, k)) + 1
    BY <1>1, <2>2, FS_AddElement
  <2>4. QED
    BY <1>2, <2>1, <2>3
<1>3. CASE names[k + 1] # n
  <2>1. Occurrences(names, n, k + 1) = Occurrences(names, n, k)
    BY <1>3 DEF Occurrences
  <2>2. QED
    BY <1>1, <1>3, <2>1
<1>4. QED
  BY <1>2, <1>3

\* The positions of a name are all of its members, and the k-th is the member
\* that is the k-th of its name.
LEMMA PositionsAre ==
  ASSUME NEW S, NEW names \in Seq(S), NEW n
  PROVE  /\ Positions(names, n) \in Seq(1 .. Len(names))
         /\ Len(Positions(names, n)) = Cardinality(Occurrences(names, n, Len(names)))
         /\ \A k \in 1 .. Len(Positions(names, n)) :
              /\ names[Positions(names, n)[k]] = n
              /\ Rank(names, Positions(names, n)[k]) = k
<1> DEFINE N == Len(names)
           s == [i \in DOMAIN names |-> i]
           kept == {i \in DOMAIN names : names[i] = n}
           Count(i) == Cardinality(Occurrences(names, n, i))
           Right(at, i) == /\ at \in Seq(1 .. N) /\ Len(at) = Count(i)
                           /\ \A k \in 1 .. Len(at) : names[at[k]] = n /\ Count(at[k]) = k
<1>1. N \in Nat /\ DOMAIN names = 1 .. N
  OBVIOUS
<1>2. s \in Seq(1 .. N) /\ Len(s) = N /\ \A i \in 1 .. N : s[i] = i
  BY <1>1
<1>3. Positions(names, n) = Filtered(s, kept)
  BY DEF Positions
<1>4. PICK f : /\ Filtered(s, kept) = f[N] /\ f[0] = <<>>
               /\ \A i \in 1 .. N : f[i] = IF i \in kept THEN Append(f[i - 1], i) ELSE f[i - 1]
  <2> HIDE DEF s, kept, N
  <2>1. PICK f : /\ Filtered(s, kept) = f[Len(s)] /\ f[0] = <<>>
                 /\ \A i \in 1 .. Len(s) :
                      f[i] = IF s[i] \in kept THEN Append(f[i - 1], s[i]) ELSE f[i - 1]
    <3>1. s \in Seq(1 .. N)
      BY <1>2
    <3>2. Len(s) \in Nat
      BY <3>1
    <3>3. QED
      BY <3>2, FilteredIs
  <2>2. \A i \in 1 .. N : f[i] = IF i \in kept THEN Append(f[i - 1], i) ELSE f[i - 1]
    BY <1>2, <2>1
  <2>3. QED
    BY <1>2, <2>1, <2>2
<1> HIDE DEF s
<1> DEFINE T == {i \in 0 .. N : Right(f[i], i)}
<1>5. 0 \in T
  <2>1. f[0] = <<>> /\ Count(0) = 0 /\ 0 \in 0 .. N
    BY <1>1, <1>4, NoneAtFirst
  <2> HIDE DEF Count, N
  <2>2. <<>> \in Seq(1 .. N) /\ Len(<<>>) = 0
    OBVIOUS
  <2>3. Right(f[0], 0)
    BY <2>1, <2>2
  <2>4. QED
    BY <2>1, <2>3
<1>6. ASSUME NEW i \in 0 .. N - 1, i \in T PROVE i + 1 \in T
  <2>1. i \in Nat /\ i + 1 \in 1 .. N /\ (i + 1) - 1 = i
    BY <1>1
  <2>2. f[i + 1] = IF names[i + 1] = n THEN Append(f[i], i + 1) ELSE f[i]
    BY <1>1, <1>4, <2>1
  <2>3. Right(f[i], i)
    BY <1>6
  <2>4. Count(i + 1) = Count(i) + IF names[i + 1] = n THEN 1 ELSE 0
    BY <2>1, OneMore
  <2>5. CASE names[i + 1] = n
    <3> DEFINE at == Append(f[i], i + 1)
    <3>1. /\ at \in Seq(1 .. N) /\ Len(at) = Len(f[i]) + 1 /\ at[Len(f[i]) + 1] = i + 1
          /\ \A k \in 1 .. Len(f[i]) : at[k] = f[i][k]
      BY <2>1, <2>3
    <3> HIDE DEF at
    <3>2. Count(i + 1) = Len(f[i]) + 1
      BY <2>3, <2>4, <2>5
    <3>3. ASSUME NEW k \in 1 .. Len(at) PROVE names[at[k]] = n /\ Count(at[k]) = k
      <4>1. CASE k = Len(f[i]) + 1
        BY <2>5, <3>1, <3>2, <4>1
      <4>2. CASE k \in 1 .. Len(f[i])
        BY <2>3, <3>1, <4>2
      <4>3. QED
        <5>1. Len(f[i]) \in Nat
          BY <2>3
        <5>2. QED
          BY <3>1, <4>1, <4>2, <5>1
    <3>4. f[i + 1] = at
      BY <2>2, <2>5 DEF at
    <3>5. QED
      BY <2>1, <3>1, <3>2, <3>3, <3>4
  <2>6. CASE names[i + 1] # n
    <3>1. f[i + 1] = f[i] /\ Count(i + 1) = Count(i)
      <4>1. Count(i) \in Nat
        BY <2>1, OccurrencesCount
      <4>2. QED
        BY <2>2, <2>4, <2>6, <4>1
    <3>2. QED
      BY <2>1, <2>3, <3>1
  <2>7. QED
    BY <2>5, <2>6
<1>7. T = 0 .. N
  <2> HIDE DEF T
  <2>1. T \in SUBSET (0 .. N)
    BY DEF T
  <2>2. QED
    BY <1>1, <1>5, <1>6, <2>1, UpTo
<1>8. Right(Positions(names, n), N)
  <2>1. N \in 0 .. N
    BY <1>1
  <2>2. N \in T
    BY <1>7, <2>1
  <2> HIDE DEF Right
  <2>3. Right(f[N], N)
    BY <2>2
  <2>4. QED
    BY <1>3, <1>4, <2>3
<1>9. ASSUME NEW k \in 1 .. N, names[k] = n PROVE Rank(names, k) = Count(k)
  BY <1>9 DEF Rank, Occurrences
<1> HIDE DEF N, Count
<1>10. ASSUME NEW k \in 1 .. Len(Positions(names, n))
       PROVE  names[Positions(names, n)[k]] = n /\ Rank(names, Positions(names, n)[k]) = k
  <2> DEFINE at == Positions(names, n)
  <2>1. at \in Seq(1 .. N) /\ k \in 1 .. Len(at) /\ names[at[k]] = n /\ Count(at[k]) = k
    BY <1>8, <1>10
  <2> HIDE DEF at
  <2>2. at[k] \in 1 .. N
    BY <1>1, <2>1
  <2>3. Rank(names, at[k]) = k
    BY <1>9, <2>1, <2>2
  <2>4. QED
    BY <2>1, <2>3 DEF at
<1>11. QED
  BY <1>8, <1>10 DEF N, Count

-----------------------------------------------------------------------------
\* Calls of a name that have arrived

Arrives(calls, at) == [i \in DOMAIN at |-> calls[at[i]]]
Taken(calls, at, n, k) == Cardinality(Occurrences(Arrives(calls, at), n, k))

Distinct(at) == \A i, j \in DOMAIN at : at[i] = at[j] => i = j

LEMMA TakenIsNat ==
  ASSUME NEW calls, NEW at, NEW n, NEW k \in Nat
  PROVE  Taken(calls, at, n, k) \in Nat
BY OccurrencesCount DEF Taken

LEMMA NoneTaken ==
  ASSUME NEW calls, NEW at, NEW n
  PROVE  Taken(calls, at, n, 0) = 0
BY NoneAtFirst DEF Taken

\* Of the calls of a name no more arrive than there are.
LEMMA TakenFits ==
  ASSUME NEW S, NEW calls \in Seq(S), NEW at \in Seq(DOMAIN calls), Distinct(at), NEW n,
         NEW k \in 0 .. Len(at)
  PROVE  Taken(calls, at, n, k) <= Len(Positions(calls, n))
<1> DEFINE A == Occurrences(Arrives(calls, at), n, k)
           P == Occurrences(calls, n, Len(calls))
           f == [i \in A |-> at[i]]
<1>1. Len(calls) \in Nat /\ Len(at) \in Nat /\ DOMAIN calls = 1 .. Len(calls)
  OBVIOUS
<1>2. ASSUME NEW i \in A PROVE i \in DOMAIN at /\ at[i] \in P
  <2>1. i \in DOMAIN at /\ i \in 1 .. k /\ Arrives(calls, at)[i] = n
    BY DEF Occurrences
  <2>2. at[i] \in 1 .. Len(calls) /\ calls[at[i]] = n
    BY <1>1, <2>1 DEF Arrives
  <2>3. QED
    BY <2>1, <2>2 DEF Occurrences
<1>3. f \in Injection(A, P)
  <2> HIDE DEF A, P
  <2>1. f \in [A -> P] /\ \A i, j \in A : f[i] = f[j] => i = j
    BY <1>2 DEF Distinct
  <2>2. QED
    BY <2>1 DEF Injection, IsInjective
<1>4. IsFiniteSet(P) /\ Cardinality(P) = Len(Positions(calls, n))
  BY <1>1, OccurrencesCount, PositionsAre
<1>5. Cardinality(A) <= Cardinality(P)
  <2> HIDE DEF A, P, f
  <2>1. QED
    BY <1>3, <1>4, FS_Injection
<1>6. QED
  BY <1>4, <1>5 DEF Taken

\* One more arrival.
LEMMA TakenGrows ==
  ASSUME NEW S, NEW at \in Seq(S), NEW calls, NEW n, NEW more,
         DOMAIN more = 1 .. Len(at) + 1, \A i \in 1 .. Len(at) : more[i] = at[i]
  PROVE  /\ \A k \in 0 .. Len(at) : Taken(calls, more, n, k) = Taken(calls, at, n, k)
         /\ Taken(calls, more, n, Len(at) + 1)
              = Taken(calls, at, n, Len(at)) + (IF calls[more[Len(at) + 1]] = n THEN 1 ELSE 0)
<1> DEFINE c == more[Len(at) + 1]
<1>1. Len(at) \in Nat /\ DOMAIN at = 1 .. Len(at)
  OBVIOUS
<1>2. /\ \A i \in 1 .. Len(at) : Arrives(calls, more)[i] = Arrives(calls, at)[i]
      /\ Arrives(calls, more)[Len(at) + 1] = calls[c]
  BY <1>1 DEF Arrives
<1>3. ASSUME NEW k \in 0 .. Len(at) PROVE Taken(calls, more, n, k) = Taken(calls, at, n, k)
  <2>1. \A i \in 1 .. k : Arrives(calls, more)[i] = Arrives(calls, at)[i]
    BY <1>1, <1>2
  <2>2. Occurrences(Arrives(calls, more), n, k) = Occurrences(Arrives(calls, at), n, k)
    BY <2>1 DEF Occurrences
  <2>3. QED
    BY <2>2 DEF Taken
<1>4. Taken(calls, more, n, Len(at) + 1)
        = Taken(calls, more, n, Len(at)) + (IF calls[c] = n THEN 1 ELSE 0)
  BY <1>1, <1>2, OneMore DEF Taken
<1>5. Taken(calls, more, n, Len(at)) = Taken(calls, at, n, Len(at))
  BY <1>1, <1>3
<1>6. QED
  BY <1>3, <1>4, <1>5

\* When the calls of one name arrive in their order, the k-th to arrive is the
\* k-th call of the name.
LEMMA TakenInOrder ==
  ASSUME NEW S, NEW calls \in Seq(S), NEW at \in Seq(DOMAIN calls), Distinct(at),
         NEW j \in DOMAIN at,
         \A i \in DOMAIN at, c \in DOMAIN calls :
           c < at[i] /\ calls[c] = calls[at[i]] => \E h \in 1 .. i - 1 : at[h] = c
  PROVE  Taken(calls, at, calls[at[j]], j) = Rank(calls, at[j])
<1> DEFINE n == calls[at[j]]
           A == Occurrences(Arrives(calls, at), n, j)
           R == Occurrences(calls, n, at[j])
           f == [i \in A |-> at[i]]
<1>1. /\ Len(calls) \in Nat /\ Len(at) \in Nat /\ DOMAIN calls = 1 .. Len(calls)
      /\ DOMAIN at = 1 .. Len(at) /\ j \in 1 .. Len(at) /\ at[j] \in 1 .. Len(calls)
  OBVIOUS
<1>2. ASSUME NEW i \in A PROVE i \in DOMAIN at /\ at[i] \in R
  <2>1. i \in DOMAIN at /\ i \in 1 .. j /\ Arrives(calls, at)[i] = n
    BY <1>1 DEF Occurrences
  <2>2. at[i] \in 1 .. Len(calls) /\ calls[at[i]] = n
    BY <1>1, <2>1 DEF Arrives
  <2>3. ~ (at[j] < at[i])
    <3> SUFFICES ASSUME at[j] < at[i] PROVE FALSE
      OBVIOUS
    <3>1. PICK h \in 1 .. i - 1 : at[h] = at[j]
      BY <1>1, <2>1, <2>2
    <3>2. h \in DOMAIN at /\ h # j
      BY <1>1, <2>1, <3>1
    <3>3. QED
      BY <3>1, <3>2 DEF Distinct
  <2>4. at[i] \in 1 .. at[j]
    BY <1>1, <2>2, <2>3
  <2>5. QED
    BY <2>1, <2>2, <2>4 DEF Occurrences
<1>3. ASSUME NEW d \in R PROVE \E i \in A : at[i] = d
  <2>1. d \in 1 .. at[j] /\ calls[d] = n
    BY DEF Occurrences
  <2>2. PICK i \in 1 .. j : at[i] = d
    <3>1. CASE d = at[j]
      BY <1>1, <3>1
    <3>2. CASE d < at[j]
      <4>1. d \in DOMAIN calls
        BY <1>1, <2>1
      <4>2. PICK h \in 1 .. j - 1 : at[h] = d
        BY <2>1, <3>2, <4>1
      <4>3. QED
        BY <1>1, <4>2
    <3>3. QED
      BY <1>1, <2>1, <3>1, <3>2
  <2>3. i \in DOMAIN at /\ Arrives(calls, at)[i] = n
    BY <1>1, <2>1, <2>2 DEF Arrives
  <2>4. QED
    BY <2>2, <2>3 DEF Occurrences
<1>4. f \in Injection(A, R) /\ f \in Surjection(A, R)
  <2> HIDE DEF A, R
  <2>1. f \in [A -> R] /\ \A i, k \in A : f[i] = f[k] => i = k
    BY <1>2 DEF Distinct
  <2>2. \A d \in R : \E i \in A : f[i] = d
    BY <1>3
  <2>3. QED
    BY <2>1, <2>2 DEF Injection, IsInjective, Surjection
<1>5. IsFiniteSet(R)
  BY <1>1, OccurrencesCount
<1>6. Cardinality(A) = Cardinality(R)
  <2> HIDE DEF A, R, f
  <2>1. QED
    BY <1>4, <1>5, FS_Injection
<1>7. Rank(calls, at[j]) = Cardinality(R)
  BY DEF Rank, Occurrences
<1>8. QED
  BY <1>6, <1>7 DEF Taken

-----------------------------------------------------------------------------
\* The index of a span is the position of its member

\* The calls of a request reach their middleware once each; the index of an
\* arrival is the position, in the batch, that its arrivals so far make it, and
\* the counter of a name is what has arrived of it.  The members of the batch
\* suffice because the request makes no more calls of a name.
OnceEach ==
  /\ entered \in Seq(Calls) /\ Distinct(entered)
  /\ \A c \in Calls : ~ chain[c].returns /\ chain[c].depth = 0 => c \notin Range(entered)
  /\ \A c \in Calls : c \notin Range(entered) => spans[c][1].index = 0

OwnIndex(c, n, k) ==
  spans[c][1].index = IF n \in Range(envelope.names) THEN Positions(envelope.names, n)[k] ELSE 0

Counted ==
  LET calls == request.calls names == envelope.names
  IN /\ names \in Seq(Range(names))
     /\ \A n \in Range(names) : Len(Positions(calls, n)) <= Len(Positions(names, n))
     /\ DOMAIN envelope.seen = Range(names)
     /\ \A n \in Range(names) : envelope.seen[n] = Taken(calls, entered, n, Len(entered))

Indexed ==
  \A j \in DOMAIN entered :
    OwnIndex(entered[j], request.calls[entered[j]], Taken(request.calls, entered, request.calls[entered[j]], j))

TrpcTypes ==
  /\ request \in Requests
  /\ envelope = [names |-> envelope.names, seen |-> envelope.seen]
  /\ envelope.seen = [n \in DOMAIN envelope.seen |-> envelope.seen[n]]
  /\ chain \in [Calls -> [depth : {0, 1}, returns : BOOLEAN]]
  /\ spans \in [Calls -> [{1} -> [state : {"none", "open", "ended"}, index : Nat, error : BOOLEAN]]]

BatchInv ==
  layers = 1 =>
    /\ TrpcTypes /\ OnceEach
    /\ Arrived => entered = <<>> /\ mismatches = {}
    /\ ~ Arrived => Counted /\ Indexed
    /\ \A s \in mismatches : request.calls[s[1]] \notin Range(envelope.names)

LEMMA OfItsOwn ==
  ASSUME NEW S, NEW s \in Seq(S)
  PROVE  s \in Seq(Range(s))
BY DEF Range

\* What is read off a URL is the names of a batch, none of them counted yet.
LEMMA Parsed ==
  ASSUME NEW r \in Requests, 1 \in DOMAIN r.urls, NEW e, e = ParseBatchUrl(r.urls[1])
  PROVE  /\ e = [names |-> e.names, seen |-> [n \in Range(e.names) |-> 0]]
         /\ e.names \in Seq(Range(e.names))
         /\ \A n \in Range(e.names) : Len(Positions(r.calls, n)) <= Len(Positions(e.names, n))
<1> DEFINE url == r.urls[1]
<1>2. e = NoBatch \/ \E names \in Seq(Range(url.segments)) : e = BuildEnvelope(names)
  <2> DEFINE names == Filtered(url.segments, Range(url.segments) \ {Empty})
  <2>1. url.segments \in Seq(Range(url.segments))
    BY RequestsAssumption
  <2>2. names \in Seq(Range(url.segments))
    <3> DEFINE S == Range(url.segments) kept == S \ {Empty}
    <3> HIDE DEF S, kept
    <3>1. url.segments \in Seq(S)
      BY <2>1 DEF S
    <3>2. Filtered(url.segments, kept) \in Seq(S)
      BY <3>1, FilteredTyped
    <3>3. QED
      BY <3>2 DEF S, kept
  <2>3. e = NoBatch \/ e = BuildEnvelope(names)
    BY DEF ParseBatchUrl
  <2> HIDE DEF names
  <2>4. QED
    BY <2>2, <2>3
<1>3. /\ e = [names |-> e.names, seen |-> [n \in Range(e.names) |-> 0]]
      /\ e.names \in Seq(Range(e.names))
  <2>1. CASE e = NoBatch
    <3>1. e.names = <<>> /\ Range(<<>>) = {}
      BY <2>1 DEF NoBatch, Range
    <3>2. <<>> \in Seq({})
      OBVIOUS
    <3>3. QED
      BY <2>1, <3>1, <3>2 DEF NoBatch
  <2>2. CASE \E names \in Seq(Range(url.segments)) : e = BuildEnvelope(names)
    BY <2>2, OfItsOwn DEF BuildEnvelope
  <2>3. QED
    BY <1>2, <2>1, <2>2
<1>4. \A n \in Range(e.names) : Len(Positions(r.calls, n)) <= Len(Positions(e.names, n))
  BY MembersAssumption
<1>5. QED
  BY <1>3, <1>4

LEMMA CallsAreAList ==
  ASSUME request \in Requests
  PROVE  request.calls \in Seq(Range(request.calls)) /\ Calls = DOMAIN request.calls
BY RequestsAssumption DEF Calls

LEMMA BatchInit == TrpcInit => BatchInv
<1> SUFFICES ASSUME TrpcInit, layers = 1 PROVE BatchInv
  BY DEF BatchInv
<1>1. TrpcTypes
  <2>1. Layer = {1}
    BY DEF Layer
  <2>2. envelope = [names |-> envelope.names, seen |-> envelope.seen]
        /\ envelope.seen = [n \in DOMAIN envelope.seen |-> envelope.seen[n]]
    BY DEF TrpcInit, Unread
  <2>3. chain \in [Calls -> [depth : {0, 1}, returns : BOOLEAN]]
    BY DEF TrpcInit
  <2>4. spans \in [Calls -> [{1} -> [state : {"none", "open", "ended"}, index : Nat, error : BOOLEAN]]]
    BY <2>1 DEF TrpcInit, NoSpan
  <2>5. QED
    BY <2>2, <2>3, <2>4 DEF TrpcInit, TrpcTypes
<1>2. OnceEach
  <2>1. entered \in Seq(Calls) /\ Distinct(entered) /\ Range(entered) = {}
    BY DEF TrpcInit, Distinct, Range
  <2>2. \A c \in Calls : spans[c][1].index = 0
    BY DEF TrpcInit, NoSpan, Layer
  <2>3. QED
    BY <2>1, <2>2 DEF OnceEach
<1>3. QED
  BY <1>1, <1>2 DEF BatchInv, TrpcInit, Arrived

LEMMA BatchWraps ==
  ASSUME BatchInv, layers = 1, WrapBatchedHttpHandler
  PROVE  BatchInv'
<1> USE DEF WrapBatchedHttpHandler
<1>1. /\ TrpcTypes /\ OnceEach /\ entered = <<>> /\ mismatches = {} /\ request \in Requests
      /\ layers' = 1 /\ Calls' = Calls
  BY DEF BatchInv, TrpcTypes, Calls
<1>2. /\ envelope' = [names |-> envelope'.names, seen |-> [n \in Range(envelope'.names) |-> 0]]
      /\ envelope'.names \in Seq(Range(envelope'.names))
      /\ \A n \in Range(envelope'.names) :
           Len(Positions(request.calls, n)) <= Len(Positions(envelope'.names, n))
  <2>1. CASE envelope' = NoBatch
    <3>1. envelope'.names = <<>> /\ Range(<<>>) = {} /\ <<>> \in Seq({})
      BY <2>1 DEF NoBatch, Range
    <3>2. QED
      BY <2>1, <3>1 DEF NoBatch
  <2>2. CASE \E url \in ExtractRequestUrl : envelope' = ParseBatchUrl(url)
    <3>1. 1 \in DOMAIN request.urls /\ envelope' = ParseBatchUrl(request.urls[1])
      BY <2>2 DEF ExtractRequestUrl
    <3> HIDE DEF WrapBatchedHttpHandler
    <3>2. QED
      BY <1>1, <3>1, Parsed
  <2>3. QED
    BY <2>1, <2>2
<1>3. TrpcTypes' /\ OnceEach'
  BY <1>1, <1>2 DEF TrpcTypes, OnceEach, Calls
<1>4. Counted'
  <2>1. entered' = <<>> /\ Len(<<>>) = 0 /\ request' = request
    BY <1>1
  <2>2. \A n : Taken(request'.calls, entered', n, Len(entered')) = 0
    BY <2>1, NoneTaken
  <2>3. QED
    BY <1>2, <2>1, <2>2 DEF Counted
<1>5. Indexed'
  BY <1>1 DEF Indexed
<1>6. QED
  BY <1>1, <1>3, <1>4, <1>5 DEF BatchInv

LEMMA BatchReturns ==
  ASSUME BatchInv, layers = 1, NEW c \in Calls, Return(c)
  PROVE  BatchInv'
<1> USE DEF Return
<1>1. TrpcTypes /\ OnceEach /\ layers' = 1 /\ Calls' = Calls
  BY DEF BatchInv, Calls
<1>2. chain[c].depth = 1 /\ chain' = [chain EXCEPT ![c] = [depth |-> 0, returns |-> TRUE]]
  <2>1. chain[c].depth \in {0, 1} /\ chain[c].depth > 0
    BY <1>1 DEF TrpcTypes
  <2>2. chain[c].depth = 1 /\ chain[c].depth - 1 = 0
    BY <2>1
  <2>3. QED
    BY <2>2
<1>3. PICK error \in BOOLEAN :
        spans' = [spans EXCEPT ![c][1] = [@ EXCEPT !.state = "ended", !.error = error]]
  BY <1>2
<1>4. /\ spans' \in [Calls -> [{1} -> [state : {"none", "open", "ended"}, index : Nat, error : BOOLEAN]]]
      /\ \A d \in Calls : spans'[d][1].index = spans[d][1].index
  <2> DEFINE R == [state : {"none", "open", "ended"}, index : Nat, error : BOOLEAN]
             old == spans[c][1]
             new == [old EXCEPT !.state = "ended", !.error = error]
  <2>1. spans \in [Calls -> [{1} -> R]] /\ old \in R
    BY <1>1 DEF TrpcTypes
  <2>2. new \in R /\ new.index = old.index
    BY <2>1
  <2>3. spans' = [spans EXCEPT ![c] = [spans[c] EXCEPT ![1] = new]]
    BY <1>3
  <2> HIDE DEF R, new
  <2>4. QED
    BY <2>1, <2>2, <2>3 DEF R
<1>5. TrpcTypes'
  BY <1>1, <1>2, <1>4 DEF TrpcTypes
<1>6. OnceEach'
  BY <1>1, <1>2, <1>4 DEF OnceEach, TrpcTypes
<1>7. ASSUME Indexed PROVE Indexed'
  <2>1. \A j \in DOMAIN entered : entered[j] \in Calls
    BY <1>1 DEF OnceEach
  <2>2. QED
    BY <1>4, <1>7, <2>1 DEF Indexed, OwnIndex
<1>8. QED
  BY <1>1, <1>5, <1>6, <1>7 DEF BatchInv, Arrived, Counted

LEMMA BatchEnters ==
  ASSUME BatchInv, layers = 1, NEW c \in Calls, Enter(c)
  PROVE  BatchInv'
<1> DEFINE calls == request.calls
           names == envelope.names
           name == calls[c]
           more == Append(entered, c)
           k == Taken(calls, entered, name, Len(entered)) + 1
           index == ResolveBatchMember(name)
<1>1. /\ TrpcTypes /\ OnceEach /\ Counted /\ Indexed /\ ~ Arrived
      /\ \A s \in mismatches : calls[s[1]] \notin Range(names)
  BY DEF BatchInv, Enter
<1>2. calls \in Seq(Range(calls)) /\ Calls = DOMAIN calls
  BY <1>1, CallsAreAList DEF TrpcTypes
<1>3. chain[c].depth = 0 /\ ~ chain[c].returns
  <2>1. chain[c].depth \in {0, 1} /\ chain[c].depth + 1 \in Layer /\ ~ chain[c].returns
    BY <1>1 DEF TrpcTypes, Enter
  <2>2. chain[c].depth + 1 = 1
    BY <2>1 DEF Layer
  <2>3. QED
    BY <2>1, <2>2
<1>4. /\ chain' = [chain EXCEPT ![c].depth = 1]
      /\ spans' = [spans EXCEPT ![c][1] = [Started EXCEPT !.index = index]]
      /\ envelope' = IF index = 0 THEN envelope ELSE [envelope EXCEPT !.seen[name] = @ + 1]
      /\ mismatches' \subseteq IF index = 0 THEN mismatches \cup {<<c, 1>>} ELSE mismatches
      /\ entered' = more
      /\ request' = request /\ layers' = layers /\ Calls' = Calls
  <2>1. chain[c].depth + 1 = 1
    BY <1>3
  <2>2. QED
    BY <2>1 DEF Enter, Calls
<1>5. entered \in Seq(Calls) /\ Distinct(entered) /\ c \notin Range(entered)
  BY <1>1, <1>3 DEF OnceEach
<1>6. /\ Len(entered) \in Nat /\ Len(more) = Len(entered) + 1 /\ more \in Seq(Calls)
      /\ DOMAIN more = 1 .. Len(entered) + 1 /\ more[Len(entered) + 1] = c
      /\ \A j \in 1 .. Len(entered) : more[j] = entered[j] /\ entered[j] \in Calls /\ entered[j] # c
  BY <1>5 DEF Range
<1>7. Distinct(more)
  BY <1>5, <1>6 DEF Distinct
<1> HIDE DEF more
<1>8. ASSUME NEW n
      PROVE  /\ \A j \in 1 .. Len(entered) : Taken(calls, more, n, j) = Taken(calls, entered, n, j)
             /\ Taken(calls, more, n, Len(more))
                  = Taken(calls, entered, n, Len(entered)) + (IF name = n THEN 1 ELSE 0)
             /\ Taken(calls, entered, n, Len(entered)) \in Nat
  <2>1. /\ \A j \in 0 .. Len(entered) : Taken(calls, more, n, j) = Taken(calls, entered, n, j)
        /\ Taken(calls, more, n, Len(entered) + 1)
             = Taken(calls, entered, n, Len(entered)) + (IF name = n THEN 1 ELSE 0)
    <3> HIDE DEF calls
    <3>1. QED
      BY <1>5, <1>6, TakenGrows
  <2>2. QED
    BY <1>6, <2>1, TakenIsNat
<1>9. k = Taken(calls, more, name, Len(more)) /\ k \in Nat \ {0}
  BY <1>8
<1>10. k <= Len(Positions(calls, name))
  <2>1. Len(more) \in 0 .. Len(more) /\ more \in Seq(DOMAIN calls)
    BY <1>2, <1>6
  <2> HIDE DEF calls, k, name
  <2>2. QED
    BY <1>2, <1>7, <1>9, <2>1, TakenFits
<1>11. ASSUME name \in Range(names)
       PROVE  index = Positions(names, name)[k] /\ index \in 1 .. Len(names)
  <2>1. names \in Seq(Range(names)) /\ name \in DOMAIN envelope.seen
        /\ envelope.seen[name] + 1 = k
        /\ Len(Positions(calls, name)) <= Len(Positions(names, name))
    BY <1>1, <1>11 DEF Counted
  <2>2. /\ Positions(names, name) \in Seq(1 .. Len(names))
        /\ Positions(calls, name) \in Seq(1 .. Len(calls))
    <3> HIDE DEF names, name, calls
    <3>1. QED
      BY <1>2, <2>1, PositionsAre
  <2>3. Len(Positions(names, name)) \in Nat /\ Len(Positions(calls, name)) \in Nat
    BY <2>2
  <2>4. k \in 1 .. Len(Positions(names, name))
    BY <1>9, <1>10, <2>1, <2>3
  <2>5. ~ (k > Len(Positions(names, name)))
    BY <2>3, <2>4
  <2>6. index = Positions(names, name)[k]
    BY <2>1, <2>5 DEF ResolveBatchMember
  <2>7. Positions(names, name)[k] \in 1 .. Len(names)
    BY <2>2, <2>4
  <2>8. QED
    BY <2>6, <2>7
<1>12. ASSUME name \notin Range(names) PROVE index = 0
  BY <1>1, <1>12 DEF Counted, ResolveBatchMember
<1>13. index \in Nat /\ (index = 0 <=> name \notin Range(names))
  <2>1. Len(names) \in Nat
    BY <1>1 DEF Counted
  <2>2. QED
    BY <1>11, <1>12, <2>1
<1> HIDE DEF k, index
<1>14. /\ envelope'.names = names /\ DOMAIN envelope'.seen = Range(names)
       /\ envelope' = [names |-> envelope'.names, seen |-> envelope'.seen]
       /\ envelope'.seen = [n \in DOMAIN envelope'.seen |-> envelope'.seen[n]]
       /\ \A n \in Range(names) :
            envelope'.seen[n] = envelope.seen[n] + (IF n = name THEN 1 ELSE 0)
  <2>1. /\ envelope = [names |-> names, seen |-> envelope.seen]
        /\ envelope.seen = [n \in Range(names) |-> envelope.seen[n]]
        /\ \A n \in Range(names) : envelope.seen[n] \in Nat
    BY <1>1, <1>8 DEF Counted, TrpcTypes
  <2>2. CASE index = 0
    <3>1. envelope' = envelope /\ name \notin Range(names)
      BY <1>4, <1>13, <2>2
    <3>2. QED
      BY <2>1, <3>1
  <2>3. CASE index # 0
    <3> DEFINE seen == [envelope.seen EXCEPT ![name] = @ + 1]
    <3>1. envelope' = [names |-> names, seen |-> seen] /\ name \in Range(names)
      BY <1>4, <1>13, <2>1, <2>3
    <3>2. /\ DOMAIN seen = Range(names) /\ seen = [n \in Range(names) |-> seen[n]]
          /\ \A n \in Range(names) : seen[n] = envelope.seen[n] + (IF n = name THEN 1 ELSE 0)
      BY <2>1
    <3> HIDE DEF seen
    <3>3. QED
      BY <3>1, <3>2
  <2>4. QED
    BY <2>2, <2>3
<1>15. Counted'
  <2>1. \A n \in Range(names) : envelope'.seen[n] = Taken(calls, more, n, Len(more))
    BY <1>1, <1>8, <1>14 DEF Counted
  <2>2. QED
    BY <1>1, <1>4, <1>14, <2>1 DEF Counted
<1>16. /\ \A d \in Calls : d # c => spans'[d] = spans[d]
       /\ spans'[c][1].index = index
       /\ spans' \in [Calls -> [{1} -> [state : {"none", "open", "ended"}, index : Nat, error : BOOLEAN]]]
  <2> DEFINE R == [state : {"none", "open", "ended"}, index : Nat, error : BOOLEAN]
             new == [Started EXCEPT !.index = index]
  <2>1. spans \in [Calls -> [{1} -> R]]
    BY <1>1 DEF TrpcTypes
  <2>2. new \in R /\ new.index = index
    BY <1>13 DEF Started, NoSpan
  <2>3. spans' = [spans EXCEPT ![c] = [spans[c] EXCEPT ![1] = new]]
    BY <1>4
  <2> HIDE DEF R, new
  <2>4. QED
    BY <2>1, <2>2, <2>3 DEF R
<1>17. Indexed'
  <2> SUFFICES ASSUME NEW j \in DOMAIN more
               PROVE  spans'[more[j]][1].index
                        = IF calls[more[j]] \in Range(names)
                          THEN Positions(names, calls[more[j]])[Taken(calls, more, calls[more[j]], j)]
                          ELSE 0
    BY <1>4, <1>14 DEF Indexed, OwnIndex
  <2>1. CASE j \in 1 .. Len(entered)
    <3>1. OwnIndex(entered[j], calls[entered[j]], Taken(calls, entered, calls[entered[j]], j))
      BY <1>1, <1>5, <2>1 DEF Indexed
    <3>2. /\ more[j] = entered[j] /\ spans'[entered[j]] = spans[entered[j]]
          /\ Taken(calls, more, calls[entered[j]], j) = Taken(calls, entered, calls[entered[j]], j)
      BY <1>6, <1>8, <1>16, <2>1
    <3>3. QED
      BY <3>1, <3>2 DEF OwnIndex
  <2>2. CASE j = Len(entered) + 1
    <3>1. more[j] = c /\ calls[more[j]] = name /\ Taken(calls, more, name, j) = k
      BY <1>6, <1>9, <2>2
    <3>2. spans'[c][1].index = IF name \in Range(names) THEN Positions(names, name)[k] ELSE 0
      BY <1>11, <1>12, <1>16
    <3>3. QED
      BY <3>1, <3>2
  <2>3. QED
    BY <1>6, <2>1, <2>2
<1>18. OnceEach'
  <2>1. ASSUME NEW d \in Calls, ~ chain'[d].returns, chain'[d].depth = 0 PROVE d \notin Range(more)
    <3>1. d # c
      BY <1>1, <1>4, <2>1 DEF TrpcTypes
    <3>2. chain'[d] = chain[d]
      BY <1>1, <1>4, <3>1 DEF TrpcTypes
    <3>3. d \notin Range(entered)
      BY <1>1, <2>1, <3>2 DEF OnceEach
    <3>4. QED
      BY <1>5, <1>6, <3>1, <3>3 DEF Range
  <2>2. ASSUME NEW d \in Calls, d \notin Range(more) PROVE spans'[d][1].index = 0
    <3>1. d # c /\ d \notin Range(entered)
      BY <1>5, <1>6, <2>2 DEF Range
    <3>2. QED
      BY <1>1, <1>16, <3>1 DEF OnceEach
  <2>3. QED
    BY <1>4, <1>6, <1>7, <2>1, <2>2 DEF OnceEach
<1>19. TrpcTypes'
  <2>1. chain' \in [Calls -> [depth : {0, 1}, returns : BOOLEAN]]
    BY <1>1, <1>4 DEF TrpcTypes
  <2>2. QED
    BY <1>1, <1>4, <1>14, <1>16, <2>1 DEF TrpcTypes
<1>20. \A s \in mismatches' : calls[s[1]] \notin Range(names)
  <2>1. \A s \in mismatches' : s \in mismatches \/ (index = 0 /\ s = <<c, 1>>)
    BY <1>4
  <2>2. <<c, 1>>[1] = c
    OBVIOUS
  <2>3. QED
    BY <1>1, <1>13, <2>1, <2>2
<1>21. ~ Arrived'
  <2>1. CASE index = 0
    BY <1>1, <1>4, <2>1 DEF Arrived
  <2>2. CASE index # 0
    <3>1. name \in DOMAIN envelope'.seen
      BY <1>13, <1>14, <2>2
    <3>2. DOMAIN Unread.seen = {}
      BY DEF Unread
    <3>3. QED
      BY <3>1, <3>2 DEF Arrived
  <2>3. QED
    BY <2>1, <2>2
<1>22. QED
  BY <1>4, <1>14, <1>15, <1>17, <1>18, <1>19, <1>20, <1>21 DEF BatchInv

\* The invariant is what the property asks for, where calls of a name come in
\* their order.
LEMMA BatchInvSays == BatchInv => IndexOwnInOrder
<1> SUFFICES ASSUME BatchInv, layers = 1, ArrivedInOrder
             PROVE  /\ \A s \in Labelled : IsMember(s[1], spans[s[1]][s[2]].index)
                    /\ \A s \in mismatches : request.calls[s[1]] \notin Range(envelope.names)
  BY DEF IndexOwnInOrder
<1> DEFINE calls == request.calls
           names == envelope.names
<1>1. TrpcTypes /\ OnceEach /\ (~ Arrived => Counted /\ Indexed) /\ (Arrived => entered = <<>>)
  BY DEF BatchInv
<1>2. calls \in Seq(Range(calls)) /\ Calls = DOMAIN calls
  BY <1>1, CallsAreAList DEF TrpcTypes
<1>3. ASSUME NEW c \in Calls, spans[c][1].index # 0 PROVE IsMember(c, spans[c][1].index)
  <2> DEFINE n == calls[c]
  <2>1. c \in Range(entered) /\ entered \in Seq(Calls) /\ Distinct(entered)
    BY <1>1, <1>3 DEF OnceEach
  <2>2. PICK j \in 1 .. Len(entered) : entered[j] = c
    BY <2>1 DEF Range
  <2> DEFINE k == Taken(calls, entered, n, j)
  <2>3. ~ Arrived
    BY <1>1, <2>2
  <2>4. OwnIndex(c, n, k) /\ Counted
    BY <1>1, <2>1, <2>2, <2>3 DEF Indexed
  <2>5. n \in Range(names) /\ spans[c][1].index = Positions(names, n)[k]
    BY <1>3, <2>4 DEF OwnIndex
  <2>6. names \in Seq(Range(names)) /\ Len(Positions(calls, n)) <= Len(Positions(names, n))
    BY <2>4, <2>5 DEF Counted
  <2>7. k <= Len(Positions(calls, n)) /\ k = Rank(calls, c)
    <3> DEFINE at == entered
    <3>1. \A i \in DOMAIN entered, d \in DOMAIN calls :
            d < entered[i] /\ calls[d] = calls[entered[i]] => \E h \in 1 .. i - 1 : entered[h] = d
      BY <1>2 DEF ArrivedInOrder
    <3>2. j \in DOMAIN entered /\ j \in 0 .. Len(entered) /\ entered \in Seq(DOMAIN calls)
      BY <1>2, <2>1, <2>2
    <3> HIDE DEF calls, n, k
    <3>3. Taken(calls, entered, n, j) <= Len(Positions(calls, n))
      BY <1>2, <2>1, <3>2, TakenFits
    <3>4. Taken(calls, entered, calls[entered[j]], j) = Rank(calls, entered[j])
      BY <1>2, <2>1, <3>1, <3>2, TakenInOrder
    <3>5. QED
      BY <2>2, <3>3, <3>4 DEF n, k
  <2>8. k \in Nat /\ k >= 1
    <3> DEFINE who == Arrives(calls, entered)
    <3>1. who[j] = n /\ j - 1 \in Nat /\ (j - 1) + 1 = j
      BY <2>1, <2>2 DEF Arrives
    <3> HIDE DEF who, n
    <3>2. Cardinality(Occurrences(who, n, j)) = Cardinality(Occurrences(who, n, j - 1)) + 1
      BY <3>1, OneMore
    <3>3. Cardinality(Occurrences(who, n, j - 1)) \in Nat
      BY <3>1, OccurrencesCount
    <3>4. QED
      BY <3>2, <3>3 DEF Taken, who
  <2> HIDE DEF k
  <2>9. /\ Len(Positions(calls, n)) \in Nat /\ Positions(names, n) \in Seq(1 .. Len(names))
        /\ \A h \in 1 .. Len(Positions(names, n)) :
              names[Positions(names, n)[h]] = n /\ Rank(names, Positions(names, n)[h]) = h
    <3> HIDE DEF n, names, calls
    <3>1. Positions(calls, n) \in Seq(1 .. Len(calls))
      BY <1>2, PositionsAre
    <3>2. QED
      BY <2>6, <3>1, PositionsAre
  <2>10. k \in 1 .. Len(Positions(names, n))
    BY <2>6, <2>7, <2>8, <2>9
  <2>11. /\ Positions(names, n)[k] \in DOMAIN names
         /\ names[Positions(names, n)[k]] = n /\ Rank(names, Positions(names, n)[k]) = k
    BY <2>6, <2>9, <2>10
  <2>12. QED
    BY <2>5, <2>7, <2>11 DEF IsMember
<1>4. ASSUME NEW s \in Labelled PROVE IsMember(s[1], spans[s[1]][s[2]].index)
  <2>1. PICK c \in Calls : s = <<c, 1>> /\ spans[c][1].index # 0
    BY <1>4 DEF Labelled, Layer
  <2>2. QED
    BY <1>3, <2>1
<1>5. QED
  BY <1>4 DEF BatchInv

\* Nothing else touches the request.
LEMMA BatchAlways == Spec => []BatchInv
<1>1. Init => BatchInv
  BY BatchInit DEF Init
<1>2. BatchInv /\ [Next]_vars => BatchInv'
  <2> SUFFICES ASSUME BatchInv, [Next]_vars PROVE BatchInv'
    OBVIOUS
  <2>1. CASE UNCHANGED trpcVars
    BY <2>1 DEF trpcVars, BatchInv, TrpcTypes, OnceEach, Counted, Indexed, OwnIndex, Arrived, Calls
  <2>2. CASE TrpcNext
    <3>1. CASE layers = 1
      BY <2>2, <3>1, BatchWraps, BatchEnters, BatchReturns DEF TrpcNext
    <3>2. CASE layers # 1
      BY <2>2, <3>2 DEF TrpcNext, WrapBatchedHttpHandler, Enter, Return, BatchInv
    <3>3. QED
      BY <3>1, <3>2
  <2>3. UNCHANGED trpcVars \/ TrpcNext
    BY DEF vars, Next, Starts, Handles, Continues, Watchdog, Register, Trpc, Step, Invoke,
       StartsNoop, StartThrows, StartsSpan, AsyncReturns, ReturnsNow, ReturnsPromise,
       ReturnsThenable, ThenReturns, AwaitEnds, PromiseSettles, CallsBack, LockedSettles, Observe
  <2>4. QED
    BY <2>1, <2>2, <2>3
<1>3. QED
  BY <1>1, <1>2, PTL DEF Spec

\* resolveBatchMember(): for every batch, calls of it and procedures beside it,
\* in every order in which calls of one name keep theirs, a span has the index
\* of its own member and none of the batch is reported as a mismatch.
THEOREM IndicesAreOwn == Spec => []IndexOwnInOrder
BY BatchAlways, BatchInvSays, PTL
=============================================================================
