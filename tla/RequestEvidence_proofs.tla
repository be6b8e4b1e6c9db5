---------------------- MODULE RequestEvidence_proofs ----------------------
(***************************************************************************)
(* Proofs about RequestEvidence, for any lists, results, inputs and number *)
(* of operations: first a span and its counters, then the compiled         *)
(* policies, then what an operation holds at each of its awaits and the    *)
(* invariant step by step, at last the theorems.                           *)
(***************************************************************************)
EXTENDS RequestEvidence, FiniteSetTheorems, TLAPS

-----------------------------------------------------------------------------
\* A span and its counters

Spans(S) == [recording : BOOLEAN, operations : Nat, reserved : Nat, omitted : [Reasons -> Nat],
             scalars : SUBSET S, label : Nat, status : Nat]

\* A span of which the counters alone have changed: by n in all.
Counts(before, after, n) ==
  /\ TotalOmitted(after) = TotalOmitted(before) + n
  /\ after.operations = before.operations /\ after.reserved = before.reserved
  /\ after.scalars = before.scalars /\ after.recording = before.recording
  /\ after.label = before.label

LEMMA VerdictsTyped ==
  /\ \A value : CheckText(value) \in Reasons \cup {Accepted}
  /\ \A suffix, value : CheckScalarField(suffix, value) \in Reasons \cup {Accepted}
  /\ \A f : FieldVerdict(f) \in Reasons \cup {Accepted}
  /\ \A r, taken : RelationVerdict(r, taken) \in Reasons \cup {Accepted}
<1>1. \A value : UnsafeReason(value) \in Reasons \cup {Accepted}
  BY DEF UnsafeReason, Reasons, Accepted
<1>2. \A value : CheckText(value) \in Reasons \cup {Accepted}
  BY <1>1 DEF CheckText, Reasons, Accepted
<1>3. \A suffix, value : CheckScalarField(suffix, value) \in Reasons \cup {Accepted}
  BY DEF CheckScalarField, Reasons, Accepted
<1>4. \A f : FieldVerdict(f) \in Reasons \cup {Accepted}
  BY <1>2 DEF FieldVerdict, Reasons
<1>5. \A r, taken : RelationVerdict(r, taken) \in Reasons \cup {Accepted}
  BY DEF RelationVerdict, Reasons, Accepted
<1>6. QED
  BY <1>2, <1>3, <1>4, <1>5

LEMMA TotalTyped ==
  ASSUME NEW S, NEW span \in Spans(S)
  PROVE  TotalOmitted(span) \in Nat
BY DEF Spans, TotalOmitted, Reasons

LEMMA RecordOmissionCounts ==
  ASSUME NEW S, NEW span \in Spans(S), NEW reason \in Reasons
  PROVE  RecordOmission(span, reason) \in Spans(S) /\ Counts(span, RecordOmission(span, reason), 1)
<1> DEFINE after == RecordOmission(span, reason)
<1>1. after = [span EXCEPT !.omitted = [span.omitted EXCEPT ![reason] = span.omitted[reason] + 1]]
  BY DEF RecordOmission, Spans
<1>2. after \in Spans(S)
  BY <1>1 DEF Spans
<1>3. \A r \in Reasons : after.omitted[r] = span.omitted[r] + IF r = reason THEN 1 ELSE 0
  BY <1>1 DEF Spans
<1>4. TotalOmitted(after) = TotalOmitted(span) + 1
  BY <1>2, <1>3 DEF Spans, TotalOmitted, Reasons
<1>5. /\ after.operations = span.operations /\ after.reserved = span.reserved
      /\ after.label = span.label /\ after.scalars = span.scalars
      /\ after.recording = span.recording
  BY <1>1 DEF Spans
<1>6. QED
  BY <1>2, <1>4, <1>5 DEF Counts

LEMMA DisjointAdd ==
  ASSUME NEW A, NEW B, IsFiniteSet(A), IsFiniteSet(B), A \cap B = {}
  PROVE  /\ Cardinality(A \cup B) = Cardinality(A) + Cardinality(B)
         /\ Cardinality(A) \in Nat /\ Cardinality(B) \in Nat
<1>1. Cardinality(A \cup B) = Cardinality(A) + Cardinality(B) - Cardinality(A \cap B)
  BY FS_Union
<1>2. Cardinality(A \cap B) = 0
  BY FS_EmptySet
<1>3. Cardinality(A) \in Nat /\ Cardinality(B) \in Nat
  BY FS_CardinalityType
<1>4. QED
  BY <1>1, <1>2, <1>3

\* Every refusal among finitely many verdicts has one of the nine reasons.
LEMMA RefusalsByReason ==
  ASSUME NEW verdicts, IsFiniteSet(DOMAIN verdicts),
         \A i \in DOMAIN verdicts : verdicts[i] \in Reasons \cup {Accepted}
  PROVE  LET n(r) == Cardinality({i \in DOMAIN verdicts : verdicts[i] = r})
         IN /\ \A r : n(r) \in Nat
            /\ Cardinality({i \in DOMAIN verdicts : verdicts[i] # Accepted}) \in Nat
            /\ Cardinality({i \in DOMAIN verdicts : verdicts[i] # Accepted})
                 = n("pii") + n("secret") + n("raw_payload") + n("unsupported_key") + n("value_too_long")
                     + n("raw_timestamp") + n("unhashed_id") + n("non_finite") + n("scalar_cap_exceeded")
<1> DEFINE Having(R) == {i \in DOMAIN verdicts : verdicts[i] \in R}
           One(r) == {i \in DOMAIN verdicts : verdicts[i] = r}
           n(r) == Cardinality(One(r))
           N(R) == Cardinality(Having(R))
<1>1. \A R : IsFiniteSet(Having(R)) /\ N(R) \in Nat
  <2> SUFFICES ASSUME NEW R PROVE IsFiniteSet(Having(R)) /\ N(R) \in Nat
    OBVIOUS
  <2>1. Having(R) \in SUBSET (DOMAIN verdicts)
    OBVIOUS
  <2>2. QED
    BY <2>1, FS_Subset, FS_CardinalityType
<1>2. \A r : One(r) = Having({r})
  OBVIOUS
<1>3. \A r : IsFiniteSet(One(r)) /\ n(r) \in Nat
  BY <1>1, <1>2
<1>4. ASSUME NEW R, NEW r, r \notin R
      PROVE  N(R \cup {r}) = N(R) + n(r)
  <2>1. Having(R \cup {r}) = Having(R) \cup One(r) /\ Having(R) \cap One(r) = {}
    BY <1>4
  <2>2. IsFiniteSet(Having(R)) /\ IsFiniteSet(One(r))
    BY <1>1, <1>3
  <2> HIDE DEF Having, One
  <2>3. Cardinality(Having(R) \cup One(r)) = Cardinality(Having(R)) + Cardinality(One(r))
    BY <2>1, <2>2, DisjointAdd
  <2>4. QED
    BY <2>1, <2>3, Zenon
<1> DEFINE R1 == {"pii"}
           R2 == R1 \cup {"secret"}
           R3 == R2 \cup {"raw_payload"}
           R4 == R3 \cup {"unsupported_key"}
           R5 == R4 \cup {"value_too_long"}
           R6 == R5 \cup {"raw_timestamp"}
           R7 == R6 \cup {"unhashed_id"}
           R8 == R7 \cup {"non_finite"}
           R9 == R8 \cup {"scalar_cap_exceeded"}
<1>5. {i \in DOMAIN verdicts : verdicts[i] # Accepted} = Having(R9)
  BY DEF Reasons, Accepted
<1>6. N(R1) = n("pii")
  BY <1>2
<1>7. /\ "secret" \notin R1 /\ "raw_payload" \notin R2 /\ "unsupported_key" \notin R3
      /\ "value_too_long" \notin R4 /\ "raw_timestamp" \notin R5 /\ "unhashed_id" \notin R6
      /\ "non_finite" \notin R7 /\ "scalar_cap_exceeded" \notin R8
  OBVIOUS
<1> HIDE DEF Having, One, n, N
<1>8. /\ N(R2) = N(R1) + n("secret") /\ N(R3) = N(R2) + n("raw_payload")
      /\ N(R4) = N(R3) + n("unsupported_key") /\ N(R5) = N(R4) + n("value_too_long")
      /\ N(R6) = N(R5) + n("raw_timestamp") /\ N(R7) = N(R6) + n("unhashed_id")
      /\ N(R8) = N(R7) + n("non_finite") /\ N(R9) = N(R8) + n("scalar_cap_exceeded")
  BY <1>4, <1>7
<1> HIDE DEF R1, R2, R3, R4, R5, R6, R7, R8, R9
<1>9. /\ n("pii") \in Nat /\ n("secret") \in Nat /\ n("raw_payload") \in Nat
      /\ n("unsupported_key") \in Nat /\ n("value_too_long") \in Nat /\ n("raw_timestamp") \in Nat
      /\ n("unhashed_id") \in Nat /\ n("non_finite") \in Nat /\ n("scalar_cap_exceeded") \in Nat
  BY <1>3
<1>10. N(R9) = n("pii") + n("secret") + n("raw_payload") + n("unsupported_key") + n("value_too_long")
                 + n("raw_timestamp") + n("unhashed_id") + n("non_finite") + n("scalar_cap_exceeded")
  BY <1>6, <1>8, <1>9
<1>11. Cardinality({i \in DOMAIN verdicts : verdicts[i] # Accepted}) = N(R9) /\ N(R9) \in Nat
  BY <1>1, <1>5 DEF N
<1>12. QED
  BY <1>3, <1>10, <1>11 DEF n, One

LEMMA OmissionsCount ==
  ASSUME NEW S, NEW span \in Spans(S), NEW verdicts, IsFiniteSet(DOMAIN verdicts),
         \A i \in DOMAIN verdicts : verdicts[i] \in Reasons \cup {Accepted}
  PROVE  /\ Omissions(span, verdicts) \in Spans(S)
         /\ Counts(span, Omissions(span, verdicts),
                   Cardinality({i \in DOMAIN verdicts : verdicts[i] # Accepted}))
<1> DEFINE after == Omissions(span, verdicts)
           more(r) == Cardinality({i \in DOMAIN verdicts : verdicts[i] = r})
           all == Cardinality({i \in DOMAIN verdicts : verdicts[i] # Accepted})
<1>1. /\ \A r : more(r) \in Nat
      /\ all \in Nat
      /\ all = more("pii") + more("secret") + more("raw_payload") + more("unsupported_key")
                 + more("value_too_long") + more("raw_timestamp") + more("unhashed_id")
                 + more("non_finite") + more("scalar_cap_exceeded")
  BY RefusalsByReason
<1>2. after = [span EXCEPT !.omitted = [r \in Reasons |-> span.omitted[r] + more(r)]]
  BY DEF Omissions, Spans
<1> HIDE DEF more, all
<1>3. [r \in Reasons |-> span.omitted[r] + more(r)] \in [Reasons -> Nat]
  BY <1>1 DEF Spans
<1>4. after \in Spans(S)
  BY <1>2, <1>3 DEF Spans
<1>5. \A r \in Reasons : /\ after.omitted[r] = span.omitted[r] + more(r)
                         /\ span.omitted[r] \in Nat /\ more(r) \in Nat
  BY <1>1, <1>2 DEF Spans
<1>6. TotalOmitted(after) = TotalOmitted(span) + all
  <2> DEFINE old == span.omitted
             new == after.omitted
  <2>1. \A r \in Reasons : new[r] = old[r] + more(r) /\ old[r] \in Nat /\ more(r) \in Nat
    BY <1>5
  <2> HIDE DEF old, new, after
  <2>2. /\ new["pii"] = old["pii"] + more("pii") /\ old["pii"] \in Nat /\ more("pii") \in Nat
        /\ new["secret"] = old["secret"] + more("secret") /\ old["secret"] \in Nat /\ more("secret") \in Nat
        /\ new["raw_payload"] = old["raw_payload"] + more("raw_payload")
        /\ old["raw_payload"] \in Nat /\ more("raw_payload") \in Nat
    BY <2>1 DEF Reasons
  <2>3. /\ new["unsupported_key"] = old["unsupported_key"] + more("unsupported_key")
        /\ old["unsupported_key"] \in Nat /\ more("unsupported_key") \in Nat
        /\ new["value_too_long"] = old["value_too_long"] + more("value_too_long")
        /\ old["value_too_long"] \in Nat /\ more("value_too_long") \in Nat
        /\ new["raw_timestamp"] = old["raw_timestamp"] + more("raw_timestamp")
        /\ old["raw_timestamp"] \in Nat /\ more("raw_timestamp") \in Nat
    BY <2>1 DEF Reasons
  <2>4. /\ new["unhashed_id"] = old["unhashed_id"] + more("unhashed_id")
        /\ old["unhashed_id"] \in Nat /\ more("unhashed_id") \in Nat
        /\ new["non_finite"] = old["non_finite"] + more("non_finite")
        /\ old["non_finite"] \in Nat /\ more("non_finite") \in Nat
        /\ new["scalar_cap_exceeded"] = old["scalar_cap_exceeded"] + more("scalar_cap_exceeded")
        /\ old["scalar_cap_exceeded"] \in Nat /\ more("scalar_cap_exceeded") \in Nat
    BY <2>1 DEF Reasons
  <2>5. /\ TotalOmitted(after)
             = new["pii"] + new["secret"] + new["raw_payload"] + new["unsupported_key"]
                 + new["value_too_long"] + new["raw_timestamp"] + new["unhashed_id"]
                 + new["non_finite"] + new["scalar_cap_exceeded"]
        /\ TotalOmitted(span)
             = old["pii"] + old["secret"] + old["raw_payload"] + old["unsupported_key"]
                 + old["value_too_long"] + old["raw_timestamp"] + old["unhashed_id"]
                 + old["non_finite"] + old["scalar_cap_exceeded"]
    BY DEF TotalOmitted, old, new
  <2>6. QED
    BY <1>1, <2>2, <2>3, <2>4, <2>5
<1>7. /\ after.operations = span.operations /\ after.reserved = span.reserved
      /\ after.label = span.label /\ after.scalars = span.scalars
      /\ after.recording = span.recording
  BY <1>2 DEF Spans
<1>8. QED
  BY <1>4, <1>6, <1>7 DEF Counts, all

\* What the host or an operation may do to a span: only while capture is on and
\* the span records does anything come of it.
Gated(before, after) == Grows(before, after) => config.on /\ before.recording

LEMMA CaptureKeeps ==
  ASSUME NEW S, NEW span \in Spans(S), NEW suffix, NEW value, NEW scalar \in S
  PROVE  LET after == Capture(span, suffix, value, scalar)
             heard == config.on /\ span.recording
             fits == CheckScalarField(suffix, value) = Accepted /\ span.reserved < MaxScalars
         IN /\ after \in Spans(S) /\ Gated(span, after)
            /\ TotalOmitted(after) = TotalOmitted(span) + (IF heard /\ ~ fits THEN 1 ELSE 0)
            /\ after.reserved = span.reserved + (IF heard /\ fits THEN 1 ELSE 0)
            /\ after.operations = span.operations /\ after.label = span.label
            /\ after.scalars \in SUBSET (span.scalars \cup {scalar})
<1> DEFINE after == Capture(span, suffix, value, scalar)
           found == CheckScalarField(suffix, value)
           kept == AttachScalar([span EXCEPT !.reserved = @ + 1], scalar)
<1>0. /\ TotalOmitted(span) \in Nat /\ span.reserved \in Nat /\ MaxScalars \in Nat
      /\ span.scalars \in SUBSET S
  BY TotalTyped, BudgetAssumption DEF Spans
<1>1. CASE ~ IsCaptureEnabled \/ ~ span.recording
  <2>1. after = span
    BY <1>1 DEF Capture
  <2>2. QED
    BY <1>0, <1>1, <2>1 DEF Gated, Grows, IsCaptureEnabled
<1>2. CASE IsCaptureEnabled /\ span.recording /\ found # Accepted
  <2>1. after = RecordOmission(span, found) /\ found \in Reasons
    BY <1>2, VerdictsTyped DEF Capture
  <2>2. after \in Spans(S) /\ Counts(span, after, 1)
    BY <2>1, RecordOmissionCounts
  <2> HIDE DEF after
  <2>3. QED
    BY <1>0, <1>2, <2>2 DEF Counts, Gated, IsCaptureEnabled, after
<1>3. CASE IsCaptureEnabled /\ span.recording /\ found = Accepted /\ span.reserved >= MaxScalars
  <2>1. after = RecordOmission(span, "scalar_cap_exceeded") /\ "scalar_cap_exceeded" \in Reasons
    BY <1>3 DEF Capture, Reasons
  <2>2. after \in Spans(S) /\ Counts(span, after, 1)
    BY <2>1, RecordOmissionCounts
  <2> HIDE DEF after
  <2>3. QED
    BY <1>0, <1>3, <2>2 DEF Counts, Gated, IsCaptureEnabled, after
<1>4. CASE IsCaptureEnabled /\ span.recording /\ found = Accepted /\ ~ span.reserved >= MaxScalars
  <2>1. after = kept
    BY <1>4 DEF Capture
  <2>2. after = [span EXCEPT !.reserved = span.reserved + 1, !.scalars = span.scalars \cup {scalar}]
    BY <2>1 DEF AttachScalar, Spans
  <2> HIDE DEF after, kept
  <2>3. after \in Spans(S)
    <3>1. span.scalars \cup {scalar} \in SUBSET S /\ span.reserved + 1 \in Nat
      BY <1>0
    <3>2. QED
      BY <2>2, <3>1 DEF Spans
  <2>4. /\ after.label = span.label /\ after.operations = span.operations
        /\ after.omitted = span.omitted /\ after.reserved = span.reserved + 1
        /\ after.scalars = span.scalars \cup {scalar}
    BY <2>2 DEF Spans
  <2>5. TotalOmitted(after) = TotalOmitted(span)
    BY <2>4 DEF TotalOmitted
  <2>6. QED
    BY <1>0, <1>4, <2>3, <2>4, <2>5 DEF Gated, IsCaptureEnabled, after
<1>5. QED
  BY <1>1, <1>2, <1>3, <1>4

LEMMA CaptureOmissionKeeps ==
  ASSUME NEW S, NEW span \in Spans(S), NEW reason \in Reasons
  PROVE  LET after == CaptureOmission(span, reason)
         IN /\ after \in Spans(S) /\ Gated(span, after)
            /\ after.scalars = span.scalars
<1> DEFINE after == CaptureOmission(span, reason)
<1>1. CASE ~ IsCaptureEnabled \/ ~ span.recording
  <2>1. after = span
    BY <1>1 DEF CaptureOmission
  <2>2. QED
    BY <2>1 DEF Gated, Grows
<1>2. CASE IsCaptureEnabled /\ span.recording
  <2>1. after = RecordOmission(span, reason)
    BY <1>2 DEF CaptureOmission
  <2>2. after \in Spans(S) /\ Counts(span, after, 1)
    BY <2>1, RecordOmissionCounts
  <2> HIDE DEF after
  <2>3. QED
    BY <1>2, <2>2 DEF Counts, Gated, IsCaptureEnabled, after
<1>3. QED
  BY <1>1, <1>2

LEMMA MinOfTwo ==
  ASSUME NEW m \in Nat, NEW n \in Nat
  PROVE  /\ Min({m, n}) \in Nat /\ Min({m, n}) <= m /\ Min({m, n}) <= n
         /\ Min({m, n}) \in {m, n}
<1> DEFINE least == IF m <= n THEN m ELSE n
<1>1. least \in {m, n} /\ \A y \in {m, n} : least <= y
  OBVIOUS
<1>2. Min({m, n}) \in {m, n} /\ \A y \in {m, n} : Min({m, n}) <= y
  <2> HIDE DEF least
  <2>1. QED
    BY <1>1 DEF Min
<1>3. QED
  BY <1>2

LEMMA VerdictsFinite ==
  ASSUME NEW input \in Inputs
  PROVE  /\ IsFiniteSet(DOMAIN Verdicts(input))
         /\ \A i \in DOMAIN Verdicts(input) : Verdicts(input)[i] \in Reasons \cup {Accepted}
<1> DEFINE All == Reasons \cup {Accepted}
           fields == [i \in DOMAIN input.fields |-> FieldVerdict(input.fields[i])]
           taken == {input.fields[i].key : i \in {j \in DOMAIN fields : fields[j] = Accepted}}
           relations == [i \in DOMAIN input.relations |-> RelationVerdict(input.relations[i], taken)]
           scalars == ScalarVerdicts(input.scalars)
<1>1. fields \in Seq(All)
  <2>1. input.fields \in Seq(Range(input.fields))
    BY InputsAssumption
  <2>2. \A i \in DOMAIN input.fields : FieldVerdict(input.fields[i]) \in All
    BY VerdictsTyped
  <2>3. QED
    BY <2>1, <2>2
<1>2. relations \in Seq(All)
  <2> HIDE DEF taken
  <2>1. input.relations \in Seq(Range(input.relations))
    BY InputsAssumption
  <2>2. \A i \in DOMAIN input.relations : RelationVerdict(input.relations[i], taken) \in All
    BY VerdictsTyped
  <2>3. QED
    BY <2>1, <2>2
<1>3. scalars \in Seq(All)
  <2> DEFINE m == Min({Len(input.scalars), MaxScalars + 1})
             v(i) == IF i > MaxScalars THEN "scalar_cap_exceeded"
                     ELSE CheckScalarField(input.scalars[i].suffix, input.scalars[i].value)
  <2>1. input.scalars \in Seq(Range(input.scalars))
    BY InputsAssumption
  <2>2. m \in Nat
    BY <2>1, MinOfTwo, BudgetAssumption
  <2>3. \A i \in 1 .. m : v(i) \in All
    BY VerdictsTyped DEF Reasons
  <2>4. scalars = [i \in 1 .. m |-> v(i)]
    BY DEF ScalarVerdicts
  <2> HIDE DEF m, v, scalars
  <2>5. QED
    BY <2>2, <2>3, <2>4
<1>4. Verdicts(input) = fields \o relations \o scalars
  BY DEF Verdicts
<1> HIDE DEF fields, relations, scalars, All
<1>5. Verdicts(input) \in Seq(All)
  BY <1>1, <1>2, <1>3, <1>4
<1>6. DOMAIN Verdicts(input) = 1 .. Len(Verdicts(input)) /\ Len(Verdicts(input)) \in Nat
  BY <1>5
<1>7. \A i \in DOMAIN Verdicts(input) : Verdicts(input)[i] \in All
  BY <1>5
<1>8. QED
  BY <1>6, <1>7, FS_Interval DEF All

LEMMA OmitIfCounts ==
  ASSUME NEW S, NEW span \in Spans(S), NEW reason \in Reasons, NEW refused
  PROVE  /\ OmitIf(refused, span, reason) \in Spans(S)
         /\ Counts(span, OmitIf(refused, span, reason), IF refused THEN 1 ELSE 0)
<1>1. TotalOmitted(span) \in Nat
  BY TotalTyped
<1>2. CASE refused
  <2>1. OmitIf(refused, span, reason) = RecordOmission(span, reason)
    BY <1>2 DEF OmitIf
  <2>2. QED
    BY <1>2, <2>1, RecordOmissionCounts
<1>3. CASE ~ refused
  BY <1>1, <1>3 DEF OmitIf, Counts
<1>4. QED
  BY <1>2, <1>3

\* A status and a phase that are not allowed, counted.
LEMMA StatusAndPhase ==
  ASSUME NEW input
  PROVE  Cardinality({name \in {"status", "phase"} : input[name] = "bad"})
           = (IF input.status = "bad" THEN 1 ELSE 0) + (IF input.phase = "bad" THEN 1 ELSE 0)
<1> DEFINE Bad == {name \in {"status", "phase"} : input[name] = "bad"}
<1>1. CASE input.status = "bad" /\ input.phase = "bad"
  <2>1. Bad = {"status"} \cup {"phase"} /\ "phase" \notin {"status"}
    BY <1>1
  <2>2. Cardinality({"status"} \cup {"phase"}) = Cardinality({"status"}) + 1
    BY <2>1, FS_AddElement, FS_Singleton
  <2>3. Cardinality({"status"}) = 1
    BY FS_Singleton
  <2> HIDE DEF Bad
  <2>4. Cardinality(Bad) = 2
    BY <2>1, <2>2, <2>3
  <2>5. QED
    BY <1>1, <2>4 DEF Bad
<1>2. CASE input.status = "bad" /\ ~ input.phase = "bad"
  <2>1. Bad = {"status"}
    BY <1>2
  <2> HIDE DEF Bad
  <2>2. Cardinality(Bad) = 1
    BY <2>1, FS_Singleton
  <2>3. QED
    BY <1>2, <2>2 DEF Bad
<1>3. CASE ~ input.status = "bad" /\ input.phase = "bad"
  <2>1. Bad = {"phase"}
    BY <1>3
  <2> HIDE DEF Bad
  <2>2. Cardinality(Bad) = 1
    BY <2>1, FS_Singleton
  <2>3. QED
    BY <1>3, <2>2 DEF Bad
<1>4. CASE ~ input.status = "bad" /\ ~ input.phase = "bad"
  <2>1. Bad = {}
    BY <1>4
  <2>2. QED
    BY <1>4, <2>1, FS_EmptySet
<1>5. QED
  BY <1>1, <1>2, <1>3, <1>4

LEMMA RefusalsNumber ==
  ASSUME NEW input \in Inputs, NEW admitted \in Nat
  PROVE  RefusalsDue(input, admitted) \in Nat
<1> DEFINE bad == Cardinality({name \in {"status", "phase"} : input[name] = "bad"})
<1>0. bad = (IF input.status = "bad" THEN 1 ELSE 0) + (IF input.phase = "bad" THEN 1 ELSE 0)
  BY StatusAndPhase
<1>1. bad \in Nat
  <2> HIDE DEF bad
  <2>1. QED
    BY <1>0
<1>2. Cardinality({i \in DOMAIN Verdicts(input) : Verdicts(input)[i] # Accepted}) \in Nat
  BY VerdictsFinite, RefusalsByReason
<1>3. QED
  BY <1>1, <1>2 DEF RefusalsDue

\* A call leaves on its span what it is due, to the last omission.
LEMMA RecordSideEffectKeeps ==
  ASSUME NEW S, NEW span \in Spans(S), NEW input \in Inputs, NEW id \in Nat,
         \A i \in DOMAIN input.scalars : input.scalars[i] \in S
  PROVE  LET after == RecordSideEffect(span, input, id)
             heard == config.on /\ span.recording /\ input.kindKnown
             admitted == heard /\ CheckText(input.label) = Accepted /\ span.operations < MaxOperations
         IN /\ after \in Spans(S) /\ Gated(span, after)
            /\ TotalOmitted(after)
                 = TotalOmitted(span) + (IF heard THEN RefusalsDue(input, span.operations) ELSE 0)
            /\ after.operations = span.operations + (IF admitted THEN 1 ELSE 0)
            /\ after.label = IF admitted THEN id ELSE span.label
            /\ after.reserved = span.reserved
<1> DEFINE after == RecordSideEffect(span, input, id)
           labelled == CheckText(input.label)
           noted == OmitIf(input.status = "bad", span, "unsupported_key")
           checked == OmitIf(input.phase = "bad", noted, "unsupported_key")
           attached == AttachOperation(checked, input, id)
           scalars == {input.scalars[i] : i \in {j \in 1 .. Min({Len(input.scalars), MaxScalars}) :
                         CheckScalarField(input.scalars[j].suffix, input.scalars[j].value) = Accepted}}
           counted == Omissions(attached.span, Verdicts(input))
           bad == Cardinality({name \in {"status", "phase"} : input[name] = "bad"})
           refused == Cardinality({i \in DOMAIN Verdicts(input) : Verdicts(input)[i] # Accepted})
<1>0. /\ TotalOmitted(span) \in Nat /\ span.operations \in Nat /\ MaxOperations \in Nat
      /\ span.reserved \in Nat
  BY TotalTyped, BudgetAssumption DEF Spans
<1>1. CASE ~ IsCaptureEnabled \/ ~ input.kindKnown \/ ~ span.recording
  <2>1. after = span
    BY <1>1 DEF RecordSideEffect
  <2>2. QED
    BY <1>0, <1>1, <2>1 DEF Gated, Grows, IsCaptureEnabled
<1>2. CASE ~ (~ IsCaptureEnabled \/ ~ input.kindKnown \/ ~ span.recording)
  <2>0. config.on /\ span.recording /\ input.kindKnown
    BY <1>2 DEF IsCaptureEnabled
  <2>1. after = IF labelled # Accepted THEN RecordOmission(span, labelled)
                ELSE IF ~ attached.ok THEN attached.span
                ELSE [counted EXCEPT !.scalars = @ \cup scalars]
    BY <1>2 DEF RecordSideEffect
  <2>2. Gated(span, after)
    BY <2>0 DEF Gated
  <2>3. labelled = Accepted =>
          RefusalsDue(input, span.operations)
            = bad + (IF span.operations >= MaxOperations THEN 1 ELSE refused)
    BY DEF RefusalsDue
  <2>4. labelled # Accepted => RefusalsDue(input, span.operations) = 1
    BY DEF RefusalsDue
  <2>5. "unsupported_key" \in Reasons /\ "value_too_long" \in Reasons
    BY DEF Reasons
  <2>6. bad = (IF input.status = "bad" THEN 1 ELSE 0) + (IF input.phase = "bad" THEN 1 ELSE 0)
    BY StatusAndPhase
  <2>7. refused \in Nat
    BY VerdictsFinite, RefusalsByReason
  <2> HIDE DEF after, counted, scalars, bad, refused
  <2>8. noted \in Spans(S) /\ Counts(span, noted, IF input.status = "bad" THEN 1 ELSE 0)
    BY <2>5, OmitIfCounts
  <2> HIDE DEF noted
  <2>9. checked \in Spans(S) /\ Counts(noted, checked, IF input.phase = "bad" THEN 1 ELSE 0)
    BY <2>5, <2>8, OmitIfCounts
  <2> HIDE DEF checked
  <2>10. /\ TotalOmitted(checked) = TotalOmitted(span) + bad /\ bad \in Nat
         /\ checked.operations = span.operations /\ checked.reserved = span.reserved
         /\ checked.label = span.label
    BY <1>0, <2>6, <2>8, <2>9 DEF Counts
  <2>11. CASE labelled # Accepted
    <3>1. after = RecordOmission(span, labelled) /\ labelled \in Reasons
      BY <2>1, <2>11, VerdictsTyped
    <3>2. after \in Spans(S) /\ Counts(span, after, 1)
      BY <3>1, RecordOmissionCounts
    <3>3. QED
      BY <1>0, <2>0, <2>2, <2>4, <2>11, <3>2 DEF Counts, after
  <2>12. CASE labelled = Accepted /\ ~ attached.ok
    <3>1. after = attached.span /\ span.operations >= MaxOperations
      <4>1. after = attached.span
        BY <2>1, <2>12
      <4>2. attached.ok <=> checked.operations < MaxOperations
        BY DEF AttachOperation
      <4> HIDE DEF attached
      <4>3. ~ span.operations < MaxOperations
        BY <2>10, <2>12, <4>2
      <4>4. QED
        BY <1>0, <4>1, <4>3
    <3>2. after = RecordOmission(checked, "value_too_long")
      BY <2>10, <3>1 DEF AttachOperation
    <3>3. after \in Spans(S) /\ Counts(checked, after, 1)
      BY <2>5, <2>9, <3>2, RecordOmissionCounts
    <3>4. RefusalsDue(input, span.operations) = bad + 1
      BY <2>3, <2>12, <3>1
    <3>5. QED
      BY <1>0, <2>0, <2>2, <2>10, <2>12, <3>1, <3>3, <3>4 DEF Counts, after
  <2>13. CASE labelled = Accepted /\ attached.ok
    <3> DEFINE put == attached.span
               status == IF input.status = "ok" THEN id ELSE checked.status
    <3>1. after = [counted EXCEPT !.scalars = @ \cup scalars] /\ checked.operations < MaxOperations
      BY <2>1, <2>13 DEF AttachOperation
    <3>2. put = [checked EXCEPT !.operations = checked.operations + 1, !.label = id,
                                !.status = status]
      BY <1>0, <2>9, <2>10, <3>1 DEF AttachOperation, Spans
    <3>3. status \in Nat /\ checked.operations + 1 \in Nat
      BY <2>9 DEF Spans
    <3> HIDE DEF put, status
    <3>4. /\ put \in Spans(S) /\ put.operations = checked.operations + 1
          /\ put.omitted = checked.omitted /\ put.label = id
          /\ put.reserved = checked.reserved
      BY <2>9, <3>2, <3>3 DEF Spans
    <3>5. TotalOmitted(put) = TotalOmitted(checked)
      BY <3>4 DEF TotalOmitted
    <3>6. counted \in Spans(S) /\ Counts(put, counted, refused)
      BY <3>4, VerdictsFinite, OmissionsCount DEF counted, put, refused
    <3>7. scalars \in SUBSET S
      <4>1. input.scalars \in Seq(Range(input.scalars))
        BY InputsAssumption
      <4>2. MaxScalars \in Nat /\ Len(input.scalars) \in Nat
        BY <4>1, BudgetAssumption
      <4>3. 1 .. Min({Len(input.scalars), MaxScalars}) \subseteq DOMAIN input.scalars
        BY <4>1, <4>2, MinOfTwo
      <4>4. QED
        BY <4>3 DEF scalars
    <3>8. after = [counted EXCEPT !.scalars = counted.scalars \cup scalars]
      BY <3>1, <3>6 DEF Spans
    <3>9. counted.scalars \cup scalars \in SUBSET S
      BY <3>6, <3>7 DEF Spans
    <3>10. /\ after \in Spans(S) /\ after.operations = counted.operations
           /\ after.omitted = counted.omitted /\ after.label = counted.label
           /\ after.reserved = counted.reserved
      BY <3>6, <3>8, <3>9 DEF Spans
    <3>11. TotalOmitted(after) = TotalOmitted(counted)
      BY <3>10 DEF TotalOmitted
    <3>12. RefusalsDue(input, span.operations) = bad + refused
      BY <1>0, <2>3, <2>10, <2>13, <3>1
    <3>13. TotalOmitted(after) = TotalOmitted(span) + (bad + refused)
      BY <1>0, <2>7, <2>10, <3>5, <3>6, <3>11 DEF Counts
    <3>14. /\ after.operations = span.operations + 1 /\ after.label = id
           /\ after.reserved = span.reserved /\ span.operations < MaxOperations
      BY <2>10, <3>1, <3>4, <3>6, <3>10 DEF Counts
    <3>15. QED
      BY <2>0, <2>2, <2>13, <3>10, <3>12, <3>13, <3>14 DEF after
  <2>14. QED
    BY <2>11, <2>12, <2>13
<1>3. QED
  BY <1>1, <1>2

-----------------------------------------------------------------------------
\* What becomes of one bucket

\* The bucket that is kept by a kind of policy, and the columns it may hold.
Chosen(kind) == IF kind = "rows" THEN RowColumns(RowEntries) ELSE Selectors(AggregateEntries)
Buckets(kind) == [invalid : BOOLEAN, chosen : Seq(Chosen(kind))]

\* A bucket stands for the set of what was said of it, in any order.
StandsFor(kind, bucket, said) ==
  IF kind = "rows"
  THEN /\ bucket.invalid <=> ~ RowsAgree(said)
       /\ ~ bucket.invalid => Range(bucket.chosen) = RowColumns(said)
  ELSE /\ bucket.invalid <=> ~ SelectorsAgree(Selectors(said))
       /\ IsFiniteSet(Selectors(said))
       /\ ~ bucket.invalid => /\ Range(bucket.chosen) = Selectors(said)
                              /\ Cardinality(Selectors(said)) = Len(bucket.chosen)

LEMMA KeysDiffer ==
  ASSUME NEW column, column \in Seq(Range(column)), NEW i, NEW j, i # j
  PROVE  DeriveScalarKey(column, i) # DeriveScalarKey(column, j)
<1>1. Len(column) \in Nat
  OBVIOUS
<1>2. \A x : Len(Append(column, x)) = Len(column) + 1 /\ Append(column, x)[Len(column) + 1] = x
  BY <1>1
<1>3. \A x : Append(column, x) # column
  BY <1>1, <1>2
<1>4. Append(column, i) # Append(column, j)
  BY <1>2
<1>5. QED
  BY <1>3, <1>4 DEF DeriveScalarKey

LEMMA RangeOfAppend ==
  ASSUME NEW S, NEW s \in Seq(S), NEW x \in S
  PROVE  Append(s, x) \in Seq(S) /\ Range(Append(s, x)) = Range(s) \cup {x}
<1>1. /\ Append(s, x) \in Seq(S) /\ DOMAIN Append(s, x) = 1 .. Len(s) + 1
      /\ DOMAIN s = 1 .. Len(s) /\ Len(s) \in Nat
      /\ \A i \in 1 .. Len(s) : Append(s, x)[i] = s[i]
      /\ Append(s, x)[Len(s) + 1] = x
  OBVIOUS
<1>2. DOMAIN Append(s, x) = DOMAIN s \cup {Len(s) + 1}
  BY <1>1
<1>3. QED
  BY <1>1, <1>2 DEF Range

\* Nothing that is said can make up for what has been said.
LEMMA RowBucketStands ==
  ASSUME NEW bucket \in Buckets("rows"), NEW said \in SUBSET RowEntries, NEW e \in RowEntries,
         StandsFor("rows", bucket, said)
  PROVE  LET after == IF bucket.invalid THEN bucket ELSE RowBucket(bucket, e)
         IN after \in Buckets("rows") /\ StandsFor("rows", after, said \cup {e})
<1> DEFINE more == said \cup {e}
           after == IF bucket.invalid THEN bucket ELSE RowBucket(bucket, e)
           chosen == Range(bucket.chosen)
           column == [column |-> e.column, intent |-> e.intent]
           same == {c \in chosen : c.column = e.column}
           key == DeriveScalarKey(e.column, e.intent)
           appended == [bucket EXCEPT !.chosen = Append(@, column)]
<1>1. /\ bucket.invalid <=> ~ RowsAgree(said)
      /\ ~ bucket.invalid => chosen = RowColumns(said)
  BY DEF StandsFor
<1>2. SUFFICES /\ after \in Buckets("rows")
               /\ after.invalid <=> ~ RowsAgree(more)
               /\ ~ after.invalid => Range(after.chosen) = RowColumns(more)
  BY DEF StandsFor
<1>3. /\ Invalid(bucket) \in Buckets("rows") /\ Invalid(bucket).invalid
      /\ bucket.invalid \in BOOLEAN /\ bucket.chosen \in Seq(Chosen("rows"))
  BY DEF Buckets, Invalid
<1>4. RowColumns(more) = RowColumns(said) \cup {column}
  BY DEF RowColumns
<1>5. CASE bucket.invalid
  <2>1. ~ RowsAgree(more)
    BY <1>1, <1>5 DEF RowsAgree
  <2>2. QED
    BY <1>5, <2>1
<1>6. CASE ~ bucket.invalid /\ (~ e.named \/ e.intent \notin Intents)
  <2>1. ~ RowsAgree(more)
    BY <1>6 DEF RowsAgree
  <2>2. after = Invalid(bucket)
    BY <1>6 DEF RowBucket
  <2>3. QED
    BY <1>3, <2>1, <2>2
<1>7. CASE ~ bucket.invalid /\ e.named /\ e.intent \in Intents
  <2>1. RowsAgree(said) /\ chosen = RowColumns(said)
    BY <1>1, <1>7
  <2>2. \A f \in said : [column |-> f.column, intent |-> f.intent] \in chosen
    BY <2>1 DEF RowColumns
  <2>3. \A c \in chosen : \E f \in said : c = [column |-> f.column, intent |-> f.intent]
    BY <2>1 DEF RowColumns
  <2> HIDE DEF chosen
  <2>4. CASE same # {} /\ \A c \in same : c.intent = e.intent
    <3>1. after = bucket
      BY <1>7, <2>4 DEF RowBucket, chosen
    <3>2. PICK f \in said : f.column = e.column /\ f.intent = e.intent
      BY <2>3, <2>4
    <3>3. RowsAgree(more)
      BY <1>7, <2>1, <3>2 DEF RowsAgree
    <3>4. RowColumns(more) = RowColumns(said)
      BY <1>4, <3>2 DEF RowColumns
    <3>5. ~ bucket.invalid /\ Range(bucket.chosen) = RowColumns(more)
      BY <1>7, <2>1, <3>4 DEF chosen
    <3> HIDE DEF after, more
    <3>6. QED
      BY <1>7, <3>1, <3>3, <3>5
  <2>5. CASE same # {} /\ ~ \A c \in same : c.intent = e.intent
    <3>1. after = Invalid(bucket)
      BY <1>7, <2>5 DEF RowBucket, chosen
    <3>2. PICK f \in said : f.column = e.column /\ f.intent # e.intent
      BY <2>3, <2>5
    <3>3. DeriveScalarKey(e.column, f.intent) # DeriveScalarKey(e.column, e.intent)
      BY <3>2, KeysDiffer, EntriesAssumption
    <3>4. ~ RowsAgree(more)
      BY <3>2, <3>3 DEF RowsAgree
    <3>5. QED
      BY <1>3, <3>1, <3>4
  <2>6. CASE same = {} /\ \E c \in chosen : DeriveScalarKey(c.column, c.intent) = key
    <3>1. after = Invalid(bucket)
      BY <1>7, <2>6 DEF RowBucket, chosen
    <3>2. PICK c \in chosen : DeriveScalarKey(c.column, c.intent) = key
      BY <2>6
    <3>3. PICK f \in said : c = [column |-> f.column, intent |-> f.intent]
      BY <2>3
    <3>4. f.column # e.column
      BY <2>6, <3>2, <3>3
    <3>5. ~ RowsAgree(more)
      BY <3>2, <3>3, <3>4 DEF RowsAgree
    <3>6. QED
      BY <1>3, <3>1, <3>5
  <2>7. CASE same = {} /\ ~ \E c \in chosen : DeriveScalarKey(c.column, c.intent) = key
    <3>1. after = appended
      BY <1>7, <2>7 DEF RowBucket, chosen
    <3>2. column \in Chosen("rows")
      BY DEF Chosen, RowColumns
    <3>3. /\ Append(bucket.chosen, column) \in Seq(Chosen("rows"))
          /\ Range(Append(bucket.chosen, column)) = chosen \cup {column}
      BY <1>3, <3>2, RangeOfAppend DEF chosen
    <3>4. after \in Buckets("rows") /\ ~ after.invalid /\ after.chosen = Append(bucket.chosen, column)
      <4> HIDE DEF column
      <4>1. QED
        BY <1>7, <3>1, <3>3 DEF Buckets
    <3>5. \A f \in said : f.column # e.column /\ DeriveScalarKey(f.column, f.intent) # key
      <4>1. SUFFICES ASSUME NEW f \in said
                     PROVE  f.column # e.column /\ DeriveScalarKey(f.column, f.intent) # key
        OBVIOUS
      <4> DEFINE c == [column |-> f.column, intent |-> f.intent]
      <4>2. c \in chosen /\ c.column = f.column /\ c.intent = f.intent
        BY <2>2
      <4> HIDE DEF c, key
      <4>3. QED
        BY <2>7, <4>2
    <3>6. RowsAgree(more)
      BY <1>7, <2>1, <3>5 DEF RowsAgree
    <3>7. QED
      <4>1. Range(after.chosen) = RowColumns(more)
        BY <1>4, <2>1, <3>3, <3>4
      <4> HIDE DEF after, more
      <4>2. QED
        BY <3>4, <3>6, <4>1
  <2>8. QED
    BY <2>4, <2>5, <2>6, <2>7
<1>8. QED
  BY <1>3, <1>5, <1>6, <1>7

LEMMA AggregateBucketStands ==
  ASSUME NEW bucket \in Buckets("aggregates"), NEW said \in SUBSET AggregateEntries,
         NEW e \in AggregateEntries, StandsFor("aggregates", bucket, said)
  PROVE  LET after == IF bucket.invalid THEN bucket ELSE AggregateBucket(bucket, e)
         IN after \in Buckets("aggregates") /\ StandsFor("aggregates", after, said \cup {e})
<1> DEFINE more == said \cup {e}
           after == IF bucket.invalid THEN bucket ELSE AggregateBucket(bucket, e)
           chosen == Range(bucket.chosen)
           selector == [selector |-> e.selector, key |-> e.key]
           same == {c \in chosen : c.selector = e.selector}
           appended == [bucket EXCEPT !.chosen = Append(@, selector)]
           before == Selectors(said)
           now == Selectors(more)
<1>1. /\ bucket.invalid <=> ~ SelectorsAgree(before)
      /\ IsFiniteSet(before)
      /\ ~ bucket.invalid => chosen = before /\ Cardinality(before) = Len(bucket.chosen)
  BY DEF StandsFor
<1>2. now = before \cup IF e.valid THEN {selector} ELSE {}
  BY DEF Selectors
<1>3. IsFiniteSet(now) /\ Cardinality(now) \in Nat /\ Cardinality(before) \in Nat
  <2> HIDE DEF before, now, selector
  <2>1. IsFiniteSet(now)
    BY <1>1, <1>2, FS_AddElement
  <2>2. QED
    BY <1>1, <2>1, FS_CardinalityType
<1>4. SUFFICES /\ after \in Buckets("aggregates")
               /\ after.invalid <=> ~ SelectorsAgree(now)
               /\ ~ after.invalid => /\ Range(after.chosen) = now
                                     /\ Cardinality(now) = Len(after.chosen)
  BY <1>3 DEF StandsFor
<1>5. /\ Invalid(bucket) \in Buckets("aggregates") /\ Invalid(bucket).invalid
      /\ bucket.invalid \in BOOLEAN /\ bucket.chosen \in Seq(Chosen("aggregates"))
      /\ Len(bucket.chosen) \in Nat /\ MaxSelectors \in Nat
  <2>1. /\ Invalid(bucket) \in Buckets("aggregates") /\ Invalid(bucket).invalid
        /\ bucket.invalid \in BOOLEAN /\ bucket.chosen \in Seq(Chosen("aggregates"))
    BY DEF Buckets, Invalid
  <2>2. MaxSelectors \in Nat
    BY EntriesAssumption
  <2>3. QED
    BY <2>1, <2>2
<1> HIDE DEF before, now, chosen, more
<1>6. CASE bucket.invalid
  <2>1. before \subseteq now /\ ~ SelectorsAgree(before)
    BY <1>1, <1>2, <1>6
  <2>2. Cardinality(before) <= Cardinality(now)
    BY <1>3, <2>1, FS_Subset
  <2>3. ~ SelectorsAgree(now)
    BY <1>3, <1>5, <2>1, <2>2 DEF SelectorsAgree
  <2>4. QED
    BY <1>6, <2>3
<1>7. CASE ~ bucket.invalid /\ ~ e.valid
  <2>1. after = bucket /\ now = before
    BY <1>2, <1>7 DEF AggregateBucket
  <2> HIDE DEF after
  <2>2. QED
    BY <1>1, <1>7, <2>1 DEF chosen
<1>8. CASE ~ bucket.invalid /\ e.valid
  <2>1. SelectorsAgree(before) /\ chosen = before /\ Cardinality(before) = Len(bucket.chosen)
    BY <1>1, <1>8
  <2>2. now = chosen \cup {selector} /\ selector.selector = e.selector /\ selector.key = e.key
    BY <1>2, <1>8, <2>1
  <2> HIDE DEF selector
  <2>3. CASE same # {} /\ \A c \in same : c.key = e.key
    <3>1. after = bucket
      BY <1>8, <2>3 DEF AggregateBucket, chosen
    <3>2. PICK c \in chosen : c.selector = e.selector /\ c.key = e.key
      BY <2>3
    <3>3. \E f \in said : c = [selector |-> f.selector, key |-> f.key]
      BY <2>1, <3>2 DEF before, Selectors
    <3>4. c = selector
      BY <3>2, <3>3 DEF selector
    <3>5. now = chosen
      BY <2>2, <3>4
    <3> HIDE DEF after
    <3>6. QED
      BY <1>8, <2>1, <3>1, <3>5 DEF chosen
  <2>4. CASE same # {} /\ ~ \A c \in same : c.key = e.key
    <3>1. after = Invalid(bucket)
      BY <1>8, <2>4 DEF AggregateBucket, chosen
    <3>2. PICK c \in chosen : c.selector = e.selector /\ c.key # e.key
      BY <2>4
    <3>3. ~ SelectorsAgree(now)
      BY <2>2, <3>2 DEF SelectorsAgree
    <3> HIDE DEF after
    <3>4. QED
      BY <1>5, <3>1, <3>3
  <2>5. CASE same = {} /\ \E c \in chosen : c.key = e.key
    <3>1. after = Invalid(bucket)
      BY <1>8, <2>5 DEF AggregateBucket, chosen
    <3>2. PICK c \in chosen : c.key = e.key
      BY <2>5
    <3>3. c.selector # e.selector
      BY <2>5, <3>2
    <3>4. ~ SelectorsAgree(now)
      BY <2>2, <3>2, <3>3 DEF SelectorsAgree
    <3> HIDE DEF after
    <3>5. QED
      BY <1>5, <3>1, <3>4
  <2>6. CASE same = {} /\ ~ \E c \in chosen : c.key = e.key
    <3>1. selector \notin chosen
      BY <2>2, <2>6
    <3>2. Cardinality(now) = Len(bucket.chosen) + 1
      BY <1>1, <2>1, <2>2, <3>1, FS_AddElement
    <3>3. CASE Len(bucket.chosen) >= MaxSelectors
      <4>1. after = Invalid(bucket)
        BY <1>8, <2>6, <3>3 DEF AggregateBucket, chosen
      <4>2. ~ SelectorsAgree(now)
        BY <1>5, <3>2, <3>3 DEF SelectorsAgree
      <4> HIDE DEF after
      <4>3. QED
        BY <1>5, <4>1, <4>2
    <3>4. CASE ~ Len(bucket.chosen) >= MaxSelectors
      <4>1. after = appended
        BY <1>8, <2>6, <3>4 DEF AggregateBucket, chosen, selector
      <4>2. selector \in Chosen("aggregates")
        BY <1>8 DEF Chosen, Selectors, selector
      <4>3. /\ Append(bucket.chosen, selector) \in Seq(Chosen("aggregates"))
            /\ Range(Append(bucket.chosen, selector)) = now
            /\ Len(Append(bucket.chosen, selector)) = Len(bucket.chosen) + 1
        BY <1>5, <2>2, <4>2, RangeOfAppend DEF chosen
      <4>4. after \in Buckets("aggregates") /\ ~ after.invalid /\ after.chosen = Append(bucket.chosen, selector)
        BY <1>8, <4>1, <4>3 DEF Buckets
      <4>5. \A c \in chosen : c.selector # e.selector /\ c.key # e.key
        BY <2>6
      <4>6. SelectorsAgree(now)
        BY <1>5, <2>1, <2>2, <3>2, <3>4, <4>5 DEF SelectorsAgree
      <4> HIDE DEF after
      <4>7. QED
        BY <3>2, <4>3, <4>4, <4>6
    <3>5. QED
      BY <3>3, <3>4
  <2>7. QED
    BY <2>3, <2>4, <2>5, <2>6
<1>9. QED
  BY <1>6, <1>7, <1>8


-----------------------------------------------------------------------------
\* The loop over the entries

\* Whatever holds at 0 and from each number to the next holds up to n.
LEMMA HoldsUpTo ==
  ASSUME NEW n \in Nat, NEW T \in SUBSET (0 .. n), 0 \in T,
         \A i \in 0 .. n - 1 : i \in T => i + 1 \in T
  PROVE  T = 0 .. n
<1> DEFINE Missing == (0 .. n) \ T
<1> SUFFICES ASSUME Missing # {} PROVE FALSE
  OBVIOUS
<1>1. Missing \in SUBSET Nat
  OBVIOUS
<1>2. \E m \in Missing : \A k \in Missing : ~ (<<k, m>> \in OpToRel(<, Nat))
  <2> HIDE DEF Missing
  <2>1. QED
    BY <1>1, NatLessThanWellFounded, WFMin
<1>3. PICK m \in Missing : \A k \in Missing : ~ (<<k, m>> \in OpToRel(<, Nat))
  BY <1>2
<1>4. m # 0 /\ m - 1 \in 0 .. n - 1 /\ m - 1 < m /\ (m - 1) + 1 = m
  OBVIOUS
<1>5. m - 1 \in Missing /\ <<m - 1, m>> \in OpToRel(<, Nat)
  BY <1>4 DEF OpToRel
<1>6. QED
  BY <1>3, <1>5

\* The policy after each entry.
Loops(f, kind, allow, n) ==
  f = [i \in 0 .. n |-> IF i = 0 THEN Compiling(kind) ELSE ReadEntry(kind, f[i - 1], allow[i])]

LEMMA LoopExists ==
  ASSUME NEW kind, NEW allow, NEW n \in Nat
  PROVE  \E f : Loops(f, kind, allow, n)
<1> DEFINE T == {m \in 0 .. n : \E f : Loops(f, kind, allow, m)}
<1>1. 0 \in T
  <2> DEFINE f == [i \in 0 .. 0 |-> Compiling(kind)]
  <2>1. Loops(f, kind, allow, 0)
    BY DEF Loops
  <2>2. QED
    BY <2>1
<1>2. ASSUME NEW m \in 0 .. n - 1, m \in T PROVE m + 1 \in T
  <2>1. PICK f : Loops(f, kind, allow, m)
    BY <1>2
  <2> DEFINE at(i) == IF i = 0 THEN Compiling(kind) ELSE ReadEntry(kind, f[i - 1], allow[i])
             g == [i \in 0 .. m + 1 |-> at(i)]
  <2>2. \A i \in 0 .. m : f[i] = at(i)
    BY <2>1 DEF Loops
  <2> HIDE DEF at
  <2>3. \A i \in 0 .. m : g[i] = f[i]
    BY <2>2
  <2>4. \A i \in 0 .. m + 1 : i # 0 => g[i - 1] = f[i - 1]
    <3> HIDE DEF g
    <3>1. \A i \in 0 .. m + 1 : i # 0 => i - 1 \in 0 .. m
      OBVIOUS
    <3>2. QED
      BY <2>3, <3>1
  <2>5. \A i \in 0 .. m + 1 :
          at(i) = IF i = 0 THEN Compiling(kind) ELSE ReadEntry(kind, g[i - 1], allow[i])
    <3> HIDE DEF g
    <3>1. QED
      BY <2>4 DEF at
  <2>6. g = [i \in 0 .. m + 1 |-> IF i = 0 THEN Compiling(kind) ELSE ReadEntry(kind, g[i - 1], allow[i])]
    BY <2>5
  <2> HIDE DEF g
  <2>7. Loops(g, kind, allow, m + 1)
    BY <2>6 DEF Loops
  <2>8. QED
    BY <2>7
<1>3. T = 0 .. n
  <2> HIDE DEF T
  <2>1. T \in SUBSET (0 .. n)
    BY DEF T
  <2>2. QED
    BY <1>1, <1>2, <2>1, HoldsUpTo
<1>4. QED
  BY <1>3

LEMMA CompileLoops ==
  ASSUME NEW kind, NEW allow, Len(allow) \in Nat
  PROVE  \E f : /\ Compile(kind, allow) = f[Len(allow)] /\ f[0] = Compiling(kind)
                /\ \A i \in 1 .. Len(allow) : f[i] = ReadEntry(kind, f[i - 1], allow[i])
<1> DEFINE f == CHOOSE f : Loops(f, kind, allow, Len(allow))
<1>1. Loops(f, kind, allow, Len(allow))
  BY LoopExists
<1>2. Compile(kind, allow) = f[Len(allow)]
  BY DEF Compile, Loops
<1> HIDE DEF f
<1>3. \A i \in 0 .. Len(allow) :
        f[i] = IF i = 0 THEN Compiling(kind) ELSE ReadEntry(kind, f[i - 1], allow[i])
  BY <1>1 DEF Loops
<1>4. QED
  BY <1>2, <1>3

\* What has been said of a bucket, and what has been counted, after n entries.
SaidUpTo(kind, allow, name, n) ==
  {allow[i] : i \in {j \in 1 .. n : allow[j].shape = "data" /\ BucketName(kind, allow[j]) = name}}

Objects(allow, n) == {i \in 1 .. n : allow[i].shape # "notAnObject"}
UsedUp(kind, allow, n) == n + Members(kind) * Cardinality(Objects(allow, n))
UnsafeUpTo(allow, n) == \E i \in 1 .. n : allow[i].shape = "unsafe"

LEMMA UsedUpGrows ==
  ASSUME NEW kind, NEW allow, NEW n \in Nat
  PROVE  /\ UsedUp(kind, allow, n) \in Nat
         /\ UsedUp(kind, allow, n + 1) = UsedUp(kind, allow, n) + Positions(kind, allow[n + 1])
<1> DEFINE old == Objects(allow, n)
<1>1. IsFiniteSet(old) /\ Cardinality(old) \in Nat
  <2>1. IsFiniteSet(1 .. n) /\ old \in SUBSET (1 .. n)
    BY FS_Interval DEF Objects
  <2>2. QED
    BY <2>1, FS_Subset, FS_CardinalityType
<1>2. Objects(allow, n + 1) = IF allow[n + 1].shape # "notAnObject" THEN old \cup {n + 1} ELSE old
  BY DEF Objects
<1>3. n + 1 \notin old
  BY DEF Objects
<1> HIDE DEF old
<1>4. Cardinality(Objects(allow, n + 1)) =
        IF allow[n + 1].shape # "notAnObject" THEN Cardinality(old) + 1 ELSE Cardinality(old)
  BY <1>1, <1>2, <1>3, FS_AddElement
<1>5. QED
  BY <1>1, <1>4 DEF UsedUp, Members, Positions, old


\* A policy after n entries is void if it must be, and else counts what it has
\* read and has buckets that stand for what has been said.
Policies(kind) == [void : BOOLEAN, used : Nat, bucket : [BucketNames(kind) -> Buckets(kind)]]

ReadsUpTo(kind, policy, allow, n) ==
  /\ policy.void <=> UnsafeUpTo(allow, n) \/ UsedUp(kind, allow, n) > MaxPositions
  /\ ~ policy.void =>
       /\ policy \in Policies(kind) /\ policy.used = UsedUp(kind, allow, n)
       /\ \A name \in BucketNames(kind) :
            StandsFor(kind, policy.bucket[name], SaidUpTo(kind, allow, name, n))

Kinds == {"rows", "aggregates"}

LEMMA CompilingReads ==
  ASSUME NEW kind \in Kinds, NEW allow
  PROVE  ReadsUpTo(kind, Compiling(kind), allow, 0)
<1>1. UsedUp(kind, allow, 0) = 0
  <2>1. Objects(allow, 0) = {}
    BY DEF Objects
  <2>2. Cardinality(Objects(allow, 0)) = 0
    BY <2>1, FS_EmptySet
  <2>3. Members(kind) * 0 = 0
    BY DEF Members
  <2>4. QED
    BY <2>2, <2>3 DEF UsedUp
<1>2. ~ UnsafeUpTo(allow, 0) /\ 0 <= MaxPositions
  BY EntriesAssumption DEF UnsafeUpTo
<1>3. Fresh \in Buckets(kind)
  BY DEF Fresh, Buckets
<1>4. Compiling(kind) \in Policies(kind) /\ ~ Compiling(kind).void /\ Compiling(kind).used = 0
  BY <1>3 DEF Compiling, Policies
<1>5. ASSUME NEW name \in BucketNames(kind)
      PROVE  StandsFor(kind, Compiling(kind).bucket[name], SaidUpTo(kind, allow, name, 0))
  <2>1. SaidUpTo(kind, allow, name, 0) = {} /\ Compiling(kind).bucket[name] = Fresh
    BY DEF SaidUpTo, Compiling
  <2>2. Range(Fresh.chosen) = {} /\ Len(Fresh.chosen) = 0 /\ ~ Fresh.invalid
    BY DEF Fresh, Range
  <2>3. RowColumns({}) = {} /\ Selectors({}) = {}
    BY DEF RowColumns, Selectors
  <2>4. IsFiniteSet({}) /\ Cardinality({}) = 0 /\ 0 <= MaxSelectors
    BY FS_EmptySet, EntriesAssumption
  <2>5. RowsAgree({}) /\ SelectorsAgree({})
    BY <2>4 DEF RowsAgree, SelectorsAgree
  <2>6. QED
    BY <2>1, <2>2, <2>3, <2>4, <2>5 DEF StandsFor
<1>6. ~ (UnsafeUpTo(allow, 0) \/ UsedUp(kind, allow, 0) > MaxPositions)
  BY <1>1, <1>2, EntriesAssumption
<1>7. QED
  BY <1>1, <1>4, <1>5, <1>6 DEF ReadsUpTo

LEMMA SaidUpToGrows ==
  ASSUME NEW kind, NEW allow, NEW n \in Nat, NEW name
  PROVE  SaidUpTo(kind, allow, name, n + 1) =
           IF allow[n + 1].shape = "data" /\ BucketName(kind, allow[n + 1]) = name
           THEN SaidUpTo(kind, allow, name, n) \cup {allow[n + 1]} ELSE SaidUpTo(kind, allow, name, n)
<1>1. 1 .. n + 1 = (1 .. n) \cup {n + 1}
  OBVIOUS
<1>2. QED
  BY <1>1 DEF SaidUpTo

LEMMA BucketStands ==
  ASSUME NEW kind \in Kinds, NEW bucket \in Buckets(kind), NEW said \in SUBSET Entries(kind),
         NEW e \in Entries(kind), StandsFor(kind, bucket, said), ~ bucket.invalid
  PROVE  LET after == IF kind = "rows" THEN RowBucket(bucket, e) ELSE AggregateBucket(bucket, e)
         IN after \in Buckets(kind) /\ StandsFor(kind, after, said \cup {e})
<1>1. CASE kind = "rows"
  BY <1>1, RowBucketStands DEF Entries
<1>2. CASE kind = "aggregates"
  BY <1>2, AggregateBucketStands DEF Entries
<1>3. QED
  BY <1>1, <1>2 DEF Kinds

LEMMA EntryReads ==
  ASSUME NEW kind \in Kinds, NEW allow \in Seq(Entries(kind)), NEW n \in 0 .. Len(allow) - 1,
         NEW policy, ReadsUpTo(kind, policy, allow, n)
  PROVE  ReadsUpTo(kind, ReadEntry(kind, policy, allow[n + 1]), allow, n + 1)
<1> DEFINE e == allow[n + 1]
           after == ReadEntry(kind, policy, e)
           used == policy.used + Positions(kind, e)
           named == BucketName(kind, e)
           bucket == policy.bucket[named]
           read == IF kind = "rows" THEN RowBucket(bucket, e) ELSE AggregateBucket(bucket, e)
<1>1. n \in Nat /\ n + 1 \in Nat /\ e \in Entries(kind) /\ 1 .. n + 1 = (1 .. n) \cup {n + 1}
  OBVIOUS
<1>2. /\ UsedUp(kind, allow, n) \in Nat /\ MaxPositions \in Nat /\ Positions(kind, e) \in Nat
      /\ UsedUp(kind, allow, n + 1) = UsedUp(kind, allow, n) + Positions(kind, e)
  BY <1>1, UsedUpGrows, EntriesAssumption DEF Positions, Members
<1>3. UnsafeUpTo(allow, n + 1) <=> UnsafeUpTo(allow, n) \/ e.shape = "unsafe"
  BY <1>1 DEF UnsafeUpTo
<1>4. CASE policy.void
  <2>1. after = NoPolicy
    BY <1>4 DEF ReadEntry
  <2>2. UnsafeUpTo(allow, n + 1) \/ UsedUp(kind, allow, n + 1) > MaxPositions
    BY <1>2, <1>3, <1>4 DEF ReadsUpTo
  <2>3. QED
    BY <2>1, <2>2 DEF ReadsUpTo, NoPolicy
<1>5. CASE ~ policy.void
  <2>1. /\ policy \in Policies(kind) /\ used = UsedUp(kind, allow, n + 1)
        /\ \A name \in BucketNames(kind) :
             StandsFor(kind, policy.bucket[name], SaidUpTo(kind, allow, name, n))
        /\ ~ UnsafeUpTo(allow, n)
    BY <1>2, <1>5 DEF ReadsUpTo
  <2>2. CASE used > MaxPositions \/ e.shape = "unsafe"
    <3>1. after = NoPolicy
      BY <2>2 DEF ReadEntry
    <3>2. QED
      BY <1>3, <2>1, <2>2, <3>1 DEF ReadsUpTo, NoPolicy
  <2>3. CASE ~ (used > MaxPositions \/ e.shape = "unsafe")
    <3>1. after = IF e.shape # "data" \/ bucket.invalid THEN [policy EXCEPT !.used = used]
                  ELSE [policy EXCEPT !.used = used, !.bucket[named] = read]
      BY <1>5, <2>3 DEF ReadEntry
    <3>2. named \in BucketNames(kind) /\ used \in Nat
      BY <1>1, <1>2, <2>1 DEF BucketNames
    <3>3. ~ (UnsafeUpTo(allow, n + 1) \/ UsedUp(kind, allow, n + 1) > MaxPositions)
      BY <1>3, <2>1, <2>3
    <3>4. bucket \in Buckets(kind) /\ bucket.invalid \in BOOLEAN
      BY <2>1, <3>2 DEF Policies, Buckets
    <3>5. SaidUpTo(kind, allow, named, n) \in SUBSET Entries(kind)
      BY <1>1 DEF SaidUpTo
    <3> HIDE DEF e, named, used, bucket, read, after
    <3>6. CASE e.shape # "data" \/ bucket.invalid
      <4>1. after = [policy EXCEPT !.used = used]
        BY <3>1, <3>6
      <4>2. after \in Policies(kind) /\ ~ after.void /\ after.used = used /\ after.bucket = policy.bucket
        BY <1>5, <2>1, <3>2, <4>1 DEF Policies
      <4>3. ASSUME NEW name \in BucketNames(kind)
            PROVE  StandsFor(kind, after.bucket[name], SaidUpTo(kind, allow, name, n + 1))
        <5>1. CASE e.shape = "data" /\ named = name
          <6>1. SaidUpTo(kind, allow, name, n + 1) = SaidUpTo(kind, allow, name, n) \cup {e}
            BY <1>1, <5>1, SaidUpToGrows DEF e, named
          <6>2. bucket.invalid /\ bucket = policy.bucket[name]
            BY <3>6, <5>1 DEF bucket
          <6>3. StandsFor(kind, bucket, SaidUpTo(kind, allow, name, n))
            BY <2>1, <6>2
          <6>4. SaidUpTo(kind, allow, name, n) \in SUBSET Entries(kind)
            BY <3>5, <5>1
          <6> DEFINE said == SaidUpTo(kind, allow, name, n)
          <6> HIDE DEF said
          <6>5. StandsFor(kind, bucket, said \cup {e})
            <7>1. bucket \in Buckets(kind) /\ said \in SUBSET Entries(kind) /\ e \in Entries(kind)
              BY <1>1, <3>4, <6>4 DEF said, e
            <7>2. StandsFor(kind, bucket, said) /\ bucket.invalid
              BY <6>2, <6>3 DEF said
            <7>3. CASE kind = "rows"
              BY <7>1, <7>2, <7>3, RowBucketStands DEF Entries
            <7>4. CASE kind = "aggregates"
              BY <7>1, <7>2, <7>4, AggregateBucketStands DEF Entries
            <7>5. QED
              BY <7>3, <7>4 DEF Kinds
          <6>6. QED
            BY <4>2, <6>1, <6>2, <6>5 DEF said
        <5>2. CASE ~ (e.shape = "data" /\ named = name)
          <6>1. SaidUpTo(kind, allow, name, n + 1) = SaidUpTo(kind, allow, name, n)
            BY <1>1, <5>2, SaidUpToGrows DEF e, named
          <6>2. QED
            BY <2>1, <4>2, <6>1
        <5>3. QED
          BY <5>1, <5>2
      <4>4. QED
        BY <2>1, <3>3, <4>2, <4>3 DEF ReadsUpTo, after, e
    <3>7. CASE e.shape = "data" /\ ~ bucket.invalid
      <4>1. after = [policy EXCEPT !.used = used, !.bucket[named] = read]
        BY <3>1, <3>7
      <4>2. StandsFor(kind, bucket, SaidUpTo(kind, allow, named, n))
        BY <2>1, <3>2 DEF bucket
      <4>3. read \in Buckets(kind) /\ StandsFor(kind, read, SaidUpTo(kind, allow, named, n) \cup {e})
        BY <1>1, <3>4, <3>5, <3>7, <4>2, BucketStands DEF read, e
      <4>4. after = [policy EXCEPT !.used = used, !.bucket = [policy.bucket EXCEPT ![named] = read]]
        BY <2>1, <4>1 DEF Policies
      <4>5. [policy.bucket EXCEPT ![named] = read] \in [BucketNames(kind) -> Buckets(kind)]
        BY <2>1, <4>3 DEF Policies
      <4>6. /\ after \in Policies(kind) /\ ~ after.void /\ after.used = used
            /\ after.bucket = [policy.bucket EXCEPT ![named] = read]
        BY <1>5, <2>1, <3>2, <4>4, <4>5 DEF Policies
      <4>7. policy.bucket \in [BucketNames(kind) -> Buckets(kind)]
        BY <2>1 DEF Policies
      <4>8. ASSUME NEW name \in BucketNames(kind)
            PROVE  StandsFor(kind, after.bucket[name], SaidUpTo(kind, allow, name, n + 1))
        <5>1. CASE named = name
          <6>1. SaidUpTo(kind, allow, name, n + 1) = SaidUpTo(kind, allow, named, n) \cup {e}
            BY <1>1, <3>7, <5>1, SaidUpToGrows DEF e, named
          <6>2. after.bucket[name] = read
            BY <4>6, <4>7, <5>1
          <6>3. QED
            BY <4>3, <6>1, <6>2
        <5>2. CASE named # name
          <6>1. SaidUpTo(kind, allow, name, n + 1) = SaidUpTo(kind, allow, name, n)
            BY <1>1, <5>2, SaidUpToGrows DEF e, named
          <6>2. after.bucket[name] = policy.bucket[name]
            BY <4>6, <4>7, <5>2
          <6>3. QED
            BY <2>1, <6>1, <6>2
        <5>3. QED
          BY <5>1, <5>2
      <4>9. QED
        BY <2>1, <3>3, <4>6, <4>8 DEF ReadsUpTo, after, e
    <3>8. QED
      BY <3>6, <3>7
  <2>4. QED
    BY <2>2, <2>3
<1>6. QED
  BY <1>4, <1>5

LEMMA CompileReads ==
  ASSUME NEW kind \in Kinds, NEW allow \in Seq(Entries(kind))
  PROVE  ReadsUpTo(kind, Compile(kind, allow), allow, Len(allow))
<1>1. Len(allow) \in Nat
  OBVIOUS
<1>2. PICK f : /\ Compile(kind, allow) = f[Len(allow)] /\ f[0] = Compiling(kind)
               /\ \A i \in 1 .. Len(allow) : f[i] = ReadEntry(kind, f[i - 1], allow[i])
  BY <1>1, CompileLoops
<1> DEFINE T == {i \in 0 .. Len(allow) : ReadsUpTo(kind, f[i], allow, i)}
<1>3. 0 \in T
  BY <1>1, <1>2, CompilingReads
<1>4. ASSUME NEW i \in 0 .. Len(allow) - 1, i \in T PROVE i + 1 \in T
  <2>1. i + 1 \in 1 .. Len(allow) /\ (i + 1) - 1 = i /\ i + 1 \in 0 .. Len(allow)
    BY <1>1
  <2>2. f[i + 1] = ReadEntry(kind, f[i], allow[i + 1])
    BY <1>2, <2>1
  <2>3. ReadsUpTo(kind, f[i + 1], allow, i + 1)
    BY <1>4, <2>2, EntryReads
  <2>4. QED
    BY <2>1, <2>3
<1>5. T = 0 .. Len(allow)
  <2> HIDE DEF T
  <2>1. T \in SUBSET (0 .. Len(allow))
    BY DEF T
  <2>2. QED
    BY <1>1, <1>3, <1>4, <2>1, HoldsUpTo
<1>6. QED
  BY <1>1, <1>2, <1>5

\* What a compiled policy admits of a name is what the list says of it.
LEMMA AdmitsWhatIsSaid ==
  ASSUME NEW kind \in Kinds, NEW allow \in Seq(Entries(kind)), NEW name \in BucketNames(kind)
  PROVE  LET policy == Compile(kind, allow) said == SaidOf(kind, allow, name)
         IN /\ Admits(policy, name) \in Seq(Chosen(kind))
            /\ kind = "rows" => Range(Admits(policy, name)) =
                 IF Void(kind, allow) \/ ~ RowsAgree(said) THEN {} ELSE RowColumns(said)
            /\ kind = "aggregates" => Range(Admits(policy, name)) =
                 IF Void(kind, allow) \/ ~ SelectorsAgree(Selectors(said)) THEN {} ELSE Selectors(said)
<1> DEFINE policy == Compile(kind, allow)
           said == SaidOf(kind, allow, name)
           bucket == policy.bucket[name]
<1>1. ReadsUpTo(kind, policy, allow, Len(allow))
  BY CompileReads
<1>2. Len(allow) \in Nat /\ DOMAIN allow = 1 .. Len(allow)
  OBVIOUS
<1>3. SaidUpTo(kind, allow, name, Len(allow)) = said
  BY <1>2 DEF SaidUpTo, SaidOf, Range
<1>4. Void(kind, allow) <=> UnsafeUpTo(allow, Len(allow)) \/ UsedUp(kind, allow, Len(allow)) > MaxPositions
  BY <1>2 DEF Void, UnsafeUpTo, UsedUp, Objects, Range
<1>5. Range(<<>>) = {} /\ <<>> \in Seq(Chosen(kind))
  BY DEF Range
<1> HIDE DEF policy, said
<1>6. CASE policy.void
  BY <1>1, <1>4, <1>5, <1>6 DEF Admits, ReadsUpTo, policy, said
<1>7. CASE ~ policy.void
  <2>1. bucket \in Buckets(kind) /\ StandsFor(kind, bucket, said) /\ ~ Void(kind, allow)
    BY <1>1, <1>3, <1>4, <1>7 DEF ReadsUpTo, Policies
  <2>2. Admits(policy, name) = IF bucket.invalid THEN <<>> ELSE bucket.chosen
    BY <1>7 DEF Admits
  <2> HIDE DEF bucket
  <2>3. bucket.invalid \in BOOLEAN /\ bucket.chosen \in Seq(Chosen(kind))
    BY <2>1 DEF Buckets
  <2>4. QED
    BY <1>5, <2>1, <2>2, <2>3 DEF StandsFor, Kinds, policy, said
<1>8. QED
  BY <1>6, <1>7

-----------------------------------------------------------------------------
\* An operation and its span

Columns == RowColumns(RowEntries)
Scalars == [row : Nat, column : {e.column : e \in RowEntries} \cup {<<>>},
            intent : {e.intent : e \in RowEntries} \cup {"id"}, key : Nat]
Shown == Scalars \cup Selectors(AggregateEntries)

Pcs == {"idle", "querying", "projecting", "hashing", "asking", "capturing", "yielding", "idHashing", "done"}

Ops == [pc : Pcs, view : Configs \cup {NoView}, columns : Seq(Columns) \cup Seq(Selectors(AggregateEntries)),
        result : RowResults \cup {<<row>> : row \in SingleResults} \cup {<<>>},
        todo : SUBSET ((Nat \X Nat) \cup Columns), attempts : Nat,
        committed : SUBSET Scalars, awaited : Scalars]

DbSpans == [state : {"none", "open", "ended"}, evidence : Spans(Shown), family : {0, 2, 3},
            rows : Seq([candidates : Nat, emitted : Nat]), emittedRows : Nat]

\* The cells of a result that are captured, and what each of them becomes.
Cells(x) == Present(x.columns, Selected(x.result))
ScalarAt(x, p) ==
  LET column == x.columns[p[1]]
  IN [row |-> p[2], column |-> column.column, intent |-> column.intent,
      key |-> IF column.intent = "id" THEN x.view.key ELSE 0]
FromCells(x) == {ScalarAt(x, p) : p \in Cells(x)}

\* An identifier is under the key of the view, which is there.
Keyed(x, scalar) ==
  scalar.intent = "id" => scalar.key = x.view.key /\ scalar.key # 0 /\ x.view.full

\* What projectBoundedRows() holds between two attempts.
Projecting(x) ==
  /\ x.columns \in Seq(Columns) /\ x.result \in RowResults
  /\ x.todo \subseteq Cells(x)
  /\ \A p \in x.todo : x.columns[p[1]].intent = "id" => x.view.full
  /\ x.committed \subseteq FromCells(x) /\ \A scalar \in x.committed : Keyed(x, scalar)
  /\ IsFiniteSet(x.committed) /\ Cardinality(x.committed) <= MaxScalars

\* What it holds while it waits for a hash.
Hashing(x) ==
  /\ Cardinality(x.committed) < MaxScalars
  /\ x.awaited \in FromCells(x) /\ Keyed(x, x.awaited)

\* The conjuncts of BundlesAddUp and IdentifiersAreKeyed for one operation.
AddsUp(s) ==
  s.family = 3 =>
    /\ Len(s.rows) <= MaxRows /\ Cardinality(s.evidence.scalars) \in 1 .. MaxScalars
    /\ \A r \in DOMAIN s.rows :
         /\ s.rows[r].emitted = Cardinality({scalar \in s.evidence.scalars : scalar.row = r})
         /\ s.rows[r].emitted <= s.rows[r].candidates
    /\ s.emittedRows = Cardinality({scalar.row : scalar \in s.evidence.scalars})

ShowsKeyed(x, s) ==
  \A scalar \in s.evidence.scalars :
    scalar.intent = "id" =>
      /\ scalar.key # 0
      /\ s.family = 3 => scalar.key = x.view.key /\ x.view.full

OpGood(x, s) ==
  /\ x \in Ops /\ s \in DbSpans
  /\ x.pc \notin {"idle", "done"} => s.state = "open"
  /\ x.pc \in {"querying", "projecting", "hashing"} => x.view.on
  /\ s.family # 0 => x.pc = "done"
  /\ x.pc \in {"idle", "querying"} => x.committed = {}
  /\ AddsUp(s)
  /\ part = "aggregates" =>
       /\ x.pc \in {"idle", "querying", "done"}
       /\ x.pc = "querying" => x.columns \in Seq(Selectors(AggregateEntries))
  /\ part = "rows" =>
       /\ x.pc = "querying" => x.columns \in Seq(Columns)
       /\ x.pc \in {"projecting", "hashing"} => Projecting(x)
       /\ x.pc = "hashing" => Hashing(x)
       /\ x.pc = "idHashing" => x.awaited.key # 0
       /\ x.pc \in {"asking", "capturing", "yielding", "idHashing"} => x.todo \subseteq Columns
       /\ ShowsKeyed(x, s)

\* What the host has put on its span.
HostScalars ==
  (UNION {Range(input.scalars) : input \in Inputs})
    \cup [suffix : {"flag", "id", "ms"}, value : {"boolean", "hash", "epoch"}]

Dues == [operations : Nat, latest : Nat, captured : Nat, refused : Nat]

\* What a span tells is what the calls were due.
Tells(span, owed) ==
  /\ TotalOmitted(span) = owed.refused
  /\ span.label = owed.latest
  /\ span.operations = owed.operations /\ owed.operations <= MaxOperations
  /\ span.reserved = owed.captured /\ owed.captured <= MaxScalars

EvidenceInv ==
  /\ config \in Configs /\ calls \in Nat /\ part \in Parts
  /\ part \in {"rows", "aggregates"} => list \in Seq(Entries(part))
  /\ hostSpan \in Spans(HostScalars) /\ Tells(hostSpan, due) /\ due \in Dues
  /\ op \in [Operation -> Ops] /\ dbSpan \in [Operation -> DbSpans]
  /\ \A o \in Operation : OpGood(op[o], dbSpan[o])


\* A step of one operation.
MayShow(o, s) ==
  Grows(dbSpan[o].evidence, s.evidence) => dbSpan[o].state = "open" /\ (config.on \/ op[o].view.on)

Goes(o) ==
  \E x, s : /\ op' = [op EXCEPT ![o] = x] /\ dbSpan' = [dbSpan EXCEPT ![o] = s]
            /\ OpGood(x, s) /\ MayShow(o, s)

\* Two spans that show the same.
SameShown(s, t) ==
  /\ t.evidence.scalars = s.evidence.scalars /\ t.evidence.omitted = s.evidence.omitted
  /\ t.family = s.family /\ t.rows = s.rows /\ t.emittedRows = s.emittedRows

LEMMA SameShownGood ==
  ASSUME NEW s, NEW t, SameShown(s, t)
  PROVE  /\ AddsUp(s) => AddsUp(t)
         /\ \A x : ShowsKeyed(x, s) => ShowsKeyed(x, t)
         /\ ~ Grows(s.evidence, t.evidence)
BY DEF SameShown, AddsUp, ShowsKeyed, Grows

LEMMA SpanEnds ==
  ASSUME NEW s \in DbSpans
  PROVE  EndSpan(s) \in DbSpans /\ SameShown(s, EndSpan(s))
<1>1. EndSpan(s) = [s EXCEPT !.state = "ended", !.evidence = [s.evidence EXCEPT !.recording = FALSE]]
  BY DEF EndSpan, DbSpans
<1>2. /\ s.evidence \in Spans(Shown)
      /\ [s.evidence EXCEPT !.recording = FALSE] \in Spans(Shown)
      /\ [s.evidence EXCEPT !.recording = FALSE].scalars = s.evidence.scalars
      /\ [s.evidence EXCEPT !.recording = FALSE].omitted = s.evidence.omitted
  BY DEF DbSpans, Spans
<1> DEFINE evidence == [s.evidence EXCEPT !.recording = FALSE]
<1> HIDE DEF evidence
<1>3. EndSpan(s) = [s EXCEPT !.state = "ended", !.evidence = evidence] /\ evidence \in Spans(Shown)
  BY <1>1, <1>2 DEF evidence
<1>4. evidence.scalars = s.evidence.scalars /\ evidence.omitted = s.evidence.omitted
  BY <1>2 DEF evidence
<1>5. QED
  BY <1>3, <1>4 DEF DbSpans, SameShown

LEMMA SpanOpens ==
  ASSUME NEW s \in DbSpans
  PROVE  LET t == [s EXCEPT !.state = "open", !.evidence.recording = TRUE]
         IN t \in DbSpans /\ SameShown(s, t) /\ t.state = "open"
<1> DEFINE t == [s EXCEPT !.state = "open", !.evidence.recording = TRUE]
           evidence == [s.evidence EXCEPT !.recording = TRUE]
<1>1. t = [s EXCEPT !.state = "open", !.evidence = evidence]
  BY DEF DbSpans
<1>2. /\ evidence \in Spans(Shown)
      /\ evidence.scalars = s.evidence.scalars /\ evidence.omitted = s.evidence.omitted
  BY DEF DbSpans, Spans
<1> HIDE DEF evidence, t
<1>3. t \in DbSpans /\ SameShown(s, t) /\ t.state = "open"
  BY <1>1, <1>2 DEF DbSpans, SameShown
<1>4. QED
  BY <1>3 DEF t

\* The evidence of an owned span is replaced.
LEMMA EvidenceReplaced ==
  ASSUME NEW s \in DbSpans, NEW evidence \in Spans(Shown)
  PROVE  LET t == [s EXCEPT !.evidence = evidence]
         IN /\ t \in DbSpans /\ t.evidence = evidence /\ t.state = s.state /\ t.family = s.family
            /\ t.rows = s.rows /\ t.emittedRows = s.emittedRows
BY DEF DbSpans

LEMMA OpTyped ==
  ASSUME EvidenceInv, NEW o \in Operation
  PROVE  /\ op[o] \in Ops /\ dbSpan[o] \in DbSpans /\ OpGood(op[o], dbSpan[o])
         /\ dbSpan' = dbSpan => dbSpan' = [dbSpan EXCEPT ![o] = dbSpan[o]]
         /\ op' = op => op' = [op EXCEPT ![o] = op[o]]
BY DEF EvidenceInv

LEMMA DoneGoes ==
  ASSUME EvidenceInv, NEW o \in Operation, Done(o)
  PROVE  Goes(o)
<1> DEFINE x == [op[o] EXCEPT !.pc = "done"]
           s == EndSpan(dbSpan[o])
<1>1. op[o] \in Ops /\ dbSpan[o] \in DbSpans /\ OpGood(op[o], dbSpan[o])
  BY OpTyped
<1>2. op' = [op EXCEPT ![o] = x] /\ dbSpan' = [dbSpan EXCEPT ![o] = s]
  BY DEF Done, Goto
<1>3. s \in DbSpans /\ SameShown(dbSpan[o], s)
  BY <1>1, SpanEnds
<1>4. /\ x \in Ops /\ x.pc = "done" /\ x.view = op[o].view
  BY <1>1 DEF Ops, Pcs
<1> HIDE DEF x, s
<1>5. AddsUp(s) /\ (part = "rows" => ShowsKeyed(x, s)) /\ ~ Grows(dbSpan[o].evidence, s.evidence)
  BY <1>1, <1>3, <1>4, SameShownGood DEF OpGood, ShowsKeyed
<1>6. OpGood(x, s)
  BY <1>3, <1>4, <1>5 DEF OpGood
<1>7. QED
  BY <1>2, <1>5, <1>6 DEF Goes, MayShow

LEMMA BareGoes ==
  ASSUME EvidenceInv, NEW o \in Operation, RunBare(o)
  PROVE  Goes(o)
<1> DEFINE x == [op[o] EXCEPT !.pc = "done"]
           s == dbSpan[o]
<1>1. op[o] \in Ops /\ s \in DbSpans /\ OpGood(op[o], s)
  BY OpTyped
<1>2. op' = [op EXCEPT ![o] = x] /\ dbSpan' = [dbSpan EXCEPT ![o] = s]
  BY OpTyped DEF RunBare, Goto
<1>3. x \in Ops /\ x.pc = "done" /\ x.view = op[o].view
  BY <1>1 DEF Ops, Pcs
<1> HIDE DEF x
<1>4. OpGood(x, s)
  BY <1>1, <1>3 DEF OpGood, ShowsKeyed
<1>5. QED
  BY <1>2, <1>4 DEF Goes, MayShow, Grows


LEMMA FindManyBegins ==
  ASSUME EvidenceInv, NEW o \in Operation, NEW model \in BucketNames("rows"), BeginFindMany(o, model)
  PROVE  Goes(o)
<1> DEFINE columns == Admits(RowPolicy, model)
           x == [op[o] EXCEPT !.pc = "querying", !.view = config, !.columns = columns]
           s == [dbSpan[o] EXCEPT !.state = "open", !.evidence.recording = TRUE]
<1>1. op[o] \in Ops /\ dbSpan[o] \in DbSpans /\ OpGood(op[o], dbSpan[o]) /\ op[o].pc = "idle" /\ part = "rows"
  BY OpTyped DEF BeginFindMany, At
<1>2. CASE RunBare(o)
  BY <1>2, BareGoes
<1>3. CASE ~ RunBare(o)
  <2>1. /\ RowsAreWanted(columns, config)
        /\ op' = [op EXCEPT ![o] = x] /\ OpenOwnedSpan(o)
    BY <1>3 DEF BeginFindMany, OperationConfigView
  <2>2. columns \in Seq(Columns)
    <3>1. list \in Seq(Entries("rows")) /\ "rows" \in Kinds
      BY <1>1 DEF EvidenceInv, Kinds
    <3>2. columns \in Seq(Chosen("rows"))
      BY <3>1, AdmitsWhatIsSaid DEF RowPolicy, CompileRowPolicy
    <3>3. QED
      BY <3>2 DEF Chosen, Columns
  <2>3. dbSpan' = [dbSpan EXCEPT ![o] = s]
    BY <2>1 DEF OpenOwnedSpan, EvidenceInv, DbSpans
  <2>4. s \in DbSpans /\ SameShown(dbSpan[o], s) /\ s.state = "open"
    BY <1>1, SpanOpens
  <2>5. config \in Configs /\ config.on
    BY <2>1 DEF EvidenceInv, RowsAreWanted
  <2> HIDE DEF columns
  <2>6. /\ x \in Ops /\ x.pc = "querying" /\ x.view = config /\ x.columns = columns
        /\ x.committed = op[o].committed
    BY <1>1, <2>2, <2>5 DEF Ops, Pcs
  <2> HIDE DEF x, s
  <2>7. dbSpan[o].family = 0 /\ op[o].committed = {}
    BY <1>1 DEF OpGood
  <2>8. /\ AddsUp(s) /\ ShowsKeyed(x, s) /\ s.family = 0
        /\ ~ Grows(dbSpan[o].evidence, s.evidence)
    <3>1. ShowsKeyed(op[o], dbSpan[o]) /\ AddsUp(dbSpan[o])
      BY <1>1 DEF OpGood
    <3>2. ShowsKeyed(x, s)
      BY <2>4, <2>7, <3>1 DEF ShowsKeyed, SameShown
    <3>3. QED
      BY <2>4, <2>7, <3>1, <3>2, SameShownGood DEF SameShown
  <2>9. OpGood(x, s)
    BY <1>1, <2>2, <2>4, <2>5, <2>6, <2>7, <2>8 DEF OpGood
  <2>10. QED
    BY <2>1, <2>3, <2>8, <2>9 DEF Goes, MayShow
<1>4. QED
  BY <1>2, <1>3

LEMMA AggregateBegins ==
  ASSUME EvidenceInv, NEW o \in Operation, NEW name \in BucketNames("aggregates"), BeginAggregate(o, name)
  PROVE  Goes(o)
<1> DEFINE columns == Admits(AggregatePolicy, name)
           x == [op[o] EXCEPT !.pc = "querying", !.view = config, !.columns = columns]
           s == [dbSpan[o] EXCEPT !.state = "open", !.evidence.recording = TRUE]
<1>1. /\ op[o] \in Ops /\ dbSpan[o] \in DbSpans /\ OpGood(op[o], dbSpan[o]) /\ op[o].pc = "idle"
      /\ part = "aggregates"
  BY OpTyped DEF BeginAggregate, At
<1>2. CASE RunBare(o)
  BY <1>2, BareGoes
<1>3. CASE ~ RunBare(o)
  <2>1. config.on /\ op' = [op EXCEPT ![o] = x] /\ OpenOwnedSpan(o)
    BY <1>3 DEF BeginAggregate, OperationConfigView
  <2>2. columns \in Seq(Selectors(AggregateEntries))
    <3>1. list \in Seq(Entries("aggregates")) /\ "aggregates" \in Kinds
      BY <1>1 DEF EvidenceInv, Kinds
    <3>2. columns \in Seq(Chosen("aggregates"))
      BY <3>1, AdmitsWhatIsSaid DEF AggregatePolicy, CompileAggregatePolicy
    <3>3. QED
      BY <3>2 DEF Chosen
  <2>3. dbSpan' = [dbSpan EXCEPT ![o] = s]
    BY <2>1 DEF OpenOwnedSpan, EvidenceInv, DbSpans
  <2>4. s \in DbSpans /\ SameShown(dbSpan[o], s) /\ s.state = "open"
    BY <1>1, SpanOpens
  <2>5. config \in Configs
    BY DEF EvidenceInv
  <2> HIDE DEF columns
  <2>6. /\ x \in Ops /\ x.pc = "querying" /\ x.view = config /\ x.columns = columns
        /\ x.committed = op[o].committed
    BY <1>1, <2>2, <2>5 DEF Ops, Pcs
  <2> HIDE DEF x, s
  <2>7. dbSpan[o].family = 0 /\ op[o].committed = {}
    BY <1>1 DEF OpGood
  <2>8. AddsUp(s) /\ s.family = 0 /\ ~ Grows(dbSpan[o].evidence, s.evidence)
    BY <1>1, <2>4, <2>7, SameShownGood DEF OpGood, SameShown
  <2>9. OpGood(x, s)
    BY <1>1, <2>1, <2>2, <2>4, <2>6, <2>7, <2>8 DEF OpGood
  <2>10. QED
    BY <2>1, <2>3, <2>8, <2>9 DEF Goes, MayShow
<1>4. QED
  BY <1>2, <1>3

LEMMA SingleBegins ==
  ASSUME EvidenceInv, NEW o \in Operation, NEW model \in BucketNames("rows"), BeginSingle(o, model)
  PROVE  Goes(o)
<1> DEFINE columns == LegacyColumns(list, model)
           x == [op[o] EXCEPT !.pc = "asking", !.todo = columns]
           s == [dbSpan[o] EXCEPT !.state = "open", !.evidence.recording = TRUE]
<1>1. op[o] \in Ops /\ dbSpan[o] \in DbSpans /\ OpGood(op[o], dbSpan[o]) /\ op[o].pc = "idle" /\ part = "rows"
  BY OpTyped DEF BeginSingle, At
<1>2. CASE RunBare(o)
  BY <1>2, BareGoes
<1>3. CASE ~ RunBare(o)
  <2>1. op' = [op EXCEPT ![o] = x] /\ OpenOwnedSpan(o)
    BY <1>3 DEF BeginSingle
  <2>2. columns \subseteq Columns
    <3>1. list \in Seq(RowEntries)
      BY <1>1 DEF EvidenceInv, Entries
    <3>2. \A i \in DOMAIN list : list[i] \in RowEntries
      BY <3>1
    <3>3. QED
      BY <3>2 DEF LegacyColumns, LegacyPositions, Columns, RowColumns
  <2>3. dbSpan' = [dbSpan EXCEPT ![o] = s]
    BY <2>1 DEF OpenOwnedSpan, EvidenceInv, DbSpans
  <2>4. s \in DbSpans /\ SameShown(dbSpan[o], s) /\ s.state = "open"
    BY <1>1, SpanOpens
  <2> HIDE DEF columns
  <2>6. x \in Ops /\ x.pc = "asking" /\ x.view = op[o].view /\ x.todo = columns
    BY <1>1, <2>2 DEF Ops, Pcs
  <2> HIDE DEF x, s
  <2>7. dbSpan[o].family = 0
    BY <1>1 DEF OpGood
  <2>8. /\ AddsUp(s) /\ ShowsKeyed(x, s) /\ s.family = 0
        /\ ~ Grows(dbSpan[o].evidence, s.evidence)
    BY <1>1, <2>4, <2>6, <2>7, SameShownGood DEF OpGood, ShowsKeyed, SameShown
  <2>9. OpGood(x, s)
    BY <1>1, <2>2, <2>4, <2>6, <2>8 DEF OpGood
  <2>10. QED
    BY <2>1, <2>3, <2>8, <2>9 DEF Goes, MayShow
<1>4. QED
  BY <1>2, <1>3


\* A step of projectBoundedRows() leaves the operation good if what it holds is.
LEMMA RowStepGood ==
  ASSUME NEW x, NEW s, OpGood(x, s), part = "rows", x.pc \in {"querying", "projecting", "hashing"},
         NEW y \in Ops, y.pc \in {"projecting", "hashing"}, y.view = x.view,
         Projecting(y), y.pc = "hashing" => Hashing(y),
         NEW t \in DbSpans, t.state = s.state, t.family = s.family,
         t.evidence.scalars = s.evidence.scalars
  PROVE  OpGood(y, t)
<1>1. s.family = 0 /\ s.state = "open" /\ x.view.on /\ ShowsKeyed(x, s)
  BY DEF OpGood
<1>2. AddsUp(t)
  BY <1>1 DEF AddsUp
<1>3. ShowsKeyed(y, t)
  BY <1>1 DEF ShowsKeyed
<1>4. QED
  BY <1>1, <1>2, <1>3 DEF OpGood

LEMMA CellsAre ==
  ASSUME NEW x \in Ops, x.columns \in Seq(Columns), x.result \in RowResults
  PROVE  /\ \E m \in Nat : m <= MaxRows /\ DOMAIN Selected(x.result) = 1 .. m
         /\ IsFiniteSet(Cells(x)) /\ Cells(x) \subseteq Nat \X Nat
         /\ \A p \in Cells(x) : /\ p[1] \in DOMAIN x.columns /\ p[2] \in DOMAIN Selected(x.result)
                                /\ p[2] \in Nat /\ x.columns[p[1]] \in Columns
                                /\ ScalarAt(x, p) \in Scalars
<1> DEFINE m == Min({Len(x.result), MaxRows})
<1>1. x.result \in Seq(Range(x.result)) /\ Len(x.result) \in Nat /\ MaxRows \in Nat
  BY ResultsAssumption, SizesAssumption
<1>2. m \in Nat /\ m <= MaxRows
  BY <1>1, MinOfTwo
<1> HIDE DEF m
<1>3. DOMAIN Selected(x.result) = 1 .. m
  BY <1>1, <1>2 DEF Selected, m
<1>4. DOMAIN x.columns = 1 .. Len(x.columns) /\ Len(x.columns) \in Nat
  OBVIOUS
<1>5. Cells(x) \subseteq (1 .. Len(x.columns)) \X (1 .. m)
  BY <1>3, <1>4 DEF Cells, Present
<1>6. IsFiniteSet((1 .. Len(x.columns)) \X (1 .. m))
  <2>1. IsFiniteSet(1 .. Len(x.columns)) /\ IsFiniteSet(1 .. m)
    BY <1>2, <1>4, FS_Interval
  <2>2. QED
    BY <2>1, FS_Product
<1>7. IsFiniteSet(Cells(x)) /\ Cells(x) \subseteq Nat \X Nat
  BY <1>2, <1>4, <1>5, <1>6, FS_Subset
<1>8. x.view.key \in Nat
  BY ConfigsAssumption DEF Ops, NoView
<1>9. ASSUME NEW p \in Cells(x)
      PROVE  /\ p[1] \in DOMAIN x.columns /\ p[2] \in DOMAIN Selected(x.result)
             /\ p[2] \in Nat /\ x.columns[p[1]] \in Columns /\ ScalarAt(x, p) \in Scalars
  <2>1. p[1] \in 1 .. Len(x.columns) /\ p[2] \in 1 .. m
    BY <1>5
  <2>2. x.columns[p[1]] \in Columns /\ p[2] \in Nat
    BY <1>2, <1>4, <2>1
  <2>3. PICK e \in RowEntries : x.columns[p[1]] = [column |-> e.column, intent |-> e.intent]
    BY <2>2 DEF Columns, RowColumns
  <2>4. ScalarAt(x, p) \in Scalars
    BY <1>8, <2>2, <2>3 DEF ScalarAt, Scalars
  <2>5. QED
    BY <1>3, <1>4, <2>1, <2>2, <2>4
<1>10. QED
  BY <1>2, <1>3, <1>7, <1>9

\* Nothing but the work and its result has changed, by one scalar at most.
LEMMA ProjectingKept ==
  ASSUME NEW x, Projecting(x), NEW y, y.columns = x.columns, y.result = x.result, y.view = x.view,
         y.todo \subseteq x.todo,
         \/ y.committed = x.committed
         \/ /\ Cardinality(x.committed) < MaxScalars
            /\ \E scalar \in FromCells(x) : Keyed(x, scalar) /\ y.committed = x.committed \cup {scalar}
  PROVE  Projecting(y)
<1>1. Cells(y) = Cells(x) /\ FromCells(y) = FromCells(x) /\ \A scalar : Keyed(y, scalar) <=> Keyed(x, scalar)
  BY DEF Cells, FromCells, ScalarAt, Keyed
<1>2. MaxScalars \in Nat /\ IsFiniteSet(x.committed) /\ Cardinality(x.committed) \in Nat
  BY BudgetAssumption, FS_CardinalityType DEF Projecting
<1>3. IsFiniteSet(y.committed) /\ Cardinality(y.committed) <= MaxScalars
  <2>1. CASE y.committed = x.committed
    BY <2>1 DEF Projecting
  <2>2. CASE y.committed # x.committed
    <3>1. PICK scalar : y.committed = x.committed \cup {scalar}
      BY <2>2
    <3>2. Cardinality(x.committed) < MaxScalars
      BY <2>2
    <3>3. QED
      <4> DEFINE old == x.committed
      <4>1. /\ IsFiniteSet(old \cup {scalar})
            /\ Cardinality(old \cup {scalar})
                 = IF scalar \in old THEN Cardinality(old) ELSE Cardinality(old) + 1
        <5> HIDE DEF old
        <5>1. IsFiniteSet(old)
          BY <1>2 DEF old
        <5>2. QED
          BY <5>1, FS_AddElement
      <4>2. QED
        BY <1>2, <3>1, <3>2, <4>1
  <2>3. QED
    BY <2>1, <2>2
<1>4. y.committed \subseteq FromCells(y) /\ \A scalar \in y.committed : Keyed(y, scalar)
  BY <1>1 DEF Projecting
<1>5. QED
  BY <1>1, <1>3, <1>4 DEF Projecting

LEMMA FindManyReturnsGoes ==
  ASSUME EvidenceInv, NEW o \in Operation, FindManyReturns(o)
  PROVE  Goes(o)
<1>1. /\ op[o] \in Ops /\ dbSpan[o] \in DbSpans /\ OpGood(op[o], dbSpan[o]) /\ op[o].pc = "querying"
      /\ part = "rows"
  BY OpTyped DEF FindManyReturns, At
<1>2. CASE Done(o)
  BY <1>2, DoneGoes
<1>3. CASE ~ Done(o)
  <2>1. PICK rows \in RowResults :
          /\ op' = [op EXCEPT ![o] = [@ EXCEPT !.pc = "projecting", !.result = rows,
                                               !.todo = CandidatesOf(o, Selected(rows))]]
          /\ UNCHANGED dbSpan
    BY <1>3 DEF FindManyReturns
  <2> DEFINE todo == CandidatesOf(o, Selected(rows))
             x == [op[o] EXCEPT !.pc = "projecting", !.result = rows, !.todo = todo]
  <2>2. op' = [op EXCEPT ![o] = x] /\ dbSpan' = [dbSpan EXCEPT ![o] = dbSpan[o]]
    BY <2>1, OpTyped DEF EvidenceInv
  <2>3. op[o].columns \in Seq(Columns) /\ op[o].committed = {}
    BY <1>1 DEF OpGood
  <2> DEFINE y == [op[o] EXCEPT !.result = rows]
  <2>4. y \in Ops /\ y.columns = op[o].columns /\ y.result = rows /\ y.view = op[o].view
    BY <1>1 DEF Ops
  <2>5. Cells(y) \subseteq Nat \X Nat
    BY <2>3, <2>4, CellsAre
  <2>6. todo \subseteq Cells(y) /\ \A p \in todo : op[o].columns[p[1]].intent = "id" => op[o].view.full
    BY <2>4 DEF CandidatesOf, Cells
  <2> HIDE DEF todo, y
  <2>7. /\ x \in Ops /\ x.pc = "projecting" /\ x.columns = op[o].columns /\ x.view = op[o].view
        /\ x.result = rows /\ x.todo = todo /\ x.committed = {}
    BY <1>1, <2>3, <2>5, <2>6 DEF Ops, Pcs
  <2> HIDE DEF x
  <2>8. Cells(x) = Cells(y)
    BY <2>4, <2>7 DEF Cells
  <2>9. IsFiniteSet({}) /\ Cardinality({}) = 0 /\ 0 <= MaxScalars
    BY FS_EmptySet, BudgetAssumption
  <2>10. Projecting(x)
    BY <2>3, <2>6, <2>7, <2>8, <2>9 DEF Projecting
  <2>11. OpGood(x, dbSpan[o])
    BY <1>1, <2>7, <2>10, RowStepGood
  <2>12. QED
    BY <2>2, <2>11 DEF Goes, MayShow, Grows
<1>4. QED
  BY <1>2, <1>3


\* recordViewOmission() counts and shows nothing else.
LEMMA ViewOmissionShows ==
  ASSUME EvidenceInv, NEW o \in Operation, NEW reason \in Reasons, ViewOmission(o, reason)
  PROVE  \E s \in DbSpans : /\ dbSpan' = [dbSpan EXCEPT ![o] = s]
                            /\ s.state = dbSpan[o].state /\ s.family = dbSpan[o].family
                            /\ s.evidence.scalars = dbSpan[o].evidence.scalars
<1> DEFINE evidence == RecordOmission(dbSpan[o].evidence, reason)
           s == [dbSpan[o] EXCEPT !.evidence = evidence]
<1>1. dbSpan[o] \in DbSpans /\ dbSpan[o].evidence \in Spans(Shown)
  BY OpTyped DEF DbSpans
<1>2. evidence \in Spans(Shown) /\ evidence.scalars = dbSpan[o].evidence.scalars
  BY <1>1, RecordOmissionCounts DEF Counts
<1>3. dbSpan' = [dbSpan EXCEPT ![o] = s]
  BY <1>1 DEF ViewOmission, DbSpans, EvidenceInv
<1> HIDE DEF evidence
<1>4. s \in DbSpans /\ s.state = dbSpan[o].state /\ s.family = dbSpan[o].family /\ s.evidence = evidence
  BY <1>1, <1>2, EvidenceReplaced
<1>5. QED
  BY <1>2, <1>3, <1>4

LEMMA AttemptTyped ==
  ASSUME EvidenceInv, NEW o \in Operation, Projecting(op[o]), NEW p
  PROVE  /\ Attempted(o, p) \in Ops /\ Attempted(o, p).pc = op[o].pc
         /\ Attempted(o, p).columns = op[o].columns /\ Attempted(o, p).result = op[o].result
         /\ Attempted(o, p).view = op[o].view /\ Attempted(o, p).committed = op[o].committed
         /\ Attempted(o, p).todo \subseteq op[o].todo
<1>1. op[o] \in Ops
  BY OpTyped
<1>2. op[o].todo \ {p} \in SUBSET ((Nat \X Nat) \cup Columns) /\ op[o].attempts + 1 \in Nat
  BY <1>1 DEF Ops
<1> DEFINE todo == op[o].todo \ {p} attempts == op[o].attempts + 1
<1> HIDE DEF todo, attempts
<1>3. Attempted(o, p) = [op[o] EXCEPT !.todo = todo, !.attempts = attempts]
  BY <1>1 DEF Attempted, Ops, todo, attempts
<1>4. todo \in SUBSET ((Nat \X Nat) \cup Columns) /\ attempts \in Nat /\ todo \subseteq op[o].todo
  BY <1>2 DEF todo, attempts
<1>5. QED
  BY <1>1, <1>3, <1>4 DEF Ops

LEMMA PrepareGoes ==
  ASSUME EvidenceInv, NEW o \in Operation, PrepareRowScalar(o)
  PROVE  Goes(o)
<1>1. /\ op[o] \in Ops /\ dbSpan[o] \in DbSpans /\ OpGood(op[o], dbSpan[o]) /\ op[o].pc = "projecting"
      /\ part = "rows" /\ MorePrepares(o)
  BY OpTyped DEF PrepareRowScalar, At
<1>2. /\ Projecting(op[o]) /\ dbSpan[o].state = "open" /\ op[o].view.on
      /\ Cardinality(op[o].committed) < MaxScalars
  BY <1>1 DEF OpGood, MorePrepares
<1>3. PICK p \in NextCandidate(o) :
        LET value == op[o].result[p[2]][ColumnOf(o, p).column]
            isId == ColumnOf(o, p).intent = "id"
        IN \/ /\ ~ isId /\ value = "good"
              /\ op' = [op EXCEPT ![o] = [Attempted(o, p) EXCEPT !.committed = @ \cup {Scalar(o, p, 0)}]]
              /\ UNCHANGED dbSpan
           \/ /\ ~ isId /\ value # "good"
              /\ op' = [op EXCEPT ![o] = Attempted(o, p)]
              /\ ViewOmission(o, "raw_payload")
           \/ /\ isId /\ (value = "bad" \/ IdKey(o) = 0)
              /\ op' = [op EXCEPT ![o] = Attempted(o, p)]
              /\ ViewOmission(o, "unhashed_id")
           \/ /\ isId /\ value # "bad" /\ IdKey(o) # 0
              /\ op' = [op EXCEPT ![o] = [Attempted(o, p) EXCEPT !.pc = "hashing",
                                             !.awaited = Scalar(o, p, IdKey(o))]]
              /\ UNCHANGED dbSpan
  BY DEF PrepareRowScalar
<1> DEFINE isId == ColumnOf(o, p).intent = "id"
           y == Attempted(o, p)
<1>4. p \in op[o].todo /\ p \in Cells(op[o])
  BY <1>2 DEF NextCandidate, Projecting
<1>5. ScalarAt(op[o], p) \in Scalars /\ ScalarAt(op[o], p) \in FromCells(op[o])
  BY <1>1, <1>2, <1>4, CellsAre DEF Projecting, FromCells
<1>6. /\ y \in Ops /\ y.pc = "projecting" /\ y.columns = op[o].columns /\ y.result = op[o].result
      /\ y.view = op[o].view /\ y.committed = op[o].committed /\ y.todo \subseteq op[o].todo
  BY <1>1, <1>2, AttemptTyped
<1>7. isId => op[o].view.full
  BY <1>2, <1>4 DEF Projecting, ColumnOf
<1> HIDE DEF y
<1>8. Projecting(y)
  BY <1>2, <1>6, ProjectingKept
<1>9. dbSpan' = dbSpan => dbSpan' = [dbSpan EXCEPT ![o] = dbSpan[o]]
  BY OpTyped
<1>10. CASE ~ isId /\ op' = [op EXCEPT ![o] = [y EXCEPT !.committed = @ \cup {Scalar(o, p, 0)}]] /\ UNCHANGED dbSpan
  <2> DEFINE scalar == ScalarAt(op[o], p)
             committed == op[o].committed \cup {scalar}
             x == [y EXCEPT !.committed = committed]
  <2>1. Scalar(o, p, 0) = scalar /\ Keyed(op[o], scalar)
    BY <1>10 DEF Scalar, ScalarAt, ColumnOf, Keyed
  <2>2. committed \in SUBSET Scalars
    BY <1>1, <1>5 DEF Ops
  <2>3. op' = [op EXCEPT ![o] = x]
    BY <1>6, <1>10, <2>1 DEF Ops
  <2> HIDE DEF scalar
  <2>4. committed = op[o].committed \cup {scalar}
    OBVIOUS
  <2> HIDE DEF committed
  <2>5. /\ x \in Ops /\ x.pc = "projecting" /\ x.columns = op[o].columns /\ x.result = op[o].result
        /\ x.view = op[o].view /\ x.committed = committed /\ x.todo \subseteq op[o].todo
    BY <1>6, <2>2 DEF Ops
  <2> HIDE DEF x
  <2>6. Projecting(x)
    BY <1>2, <1>5, <2>1, <2>4, <2>5, ProjectingKept DEF scalar
  <2>7. OpGood(x, dbSpan[o])
    BY <1>1, <2>5, <2>6, RowStepGood
  <2>8. QED
    BY <1>9, <1>10, <2>3, <2>7 DEF Goes, MayShow, Grows
<1>11. CASE op' = [op EXCEPT ![o] = y] /\ \E reason \in {"raw_payload", "unhashed_id"} : ViewOmission(o, reason)
  <2>1. PICK s \in DbSpans : /\ dbSpan' = [dbSpan EXCEPT ![o] = s]
                             /\ s.state = dbSpan[o].state /\ s.family = dbSpan[o].family
                             /\ s.evidence.scalars = dbSpan[o].evidence.scalars
    BY <1>11, ViewOmissionShows DEF Reasons
  <2>2. OpGood(y, s)
    BY <1>1, <1>6, <1>8, <2>1, RowStepGood
  <2>3. MayShow(o, s)
    BY <1>2 DEF MayShow
  <2>4. QED
    BY <1>11, <2>1, <2>2, <2>3 DEF Goes
<1>12. CASE /\ isId /\ IdKey(o) # 0 /\ UNCHANGED dbSpan
            /\ op' = [op EXCEPT ![o] = [y EXCEPT !.pc = "hashing", !.awaited = Scalar(o, p, IdKey(o))]]
  <2> DEFINE scalar == ScalarAt(op[o], p)
             x == [y EXCEPT !.pc = "hashing", !.awaited = scalar]
  <2>1. Scalar(o, p, IdKey(o)) = scalar /\ Keyed(op[o], scalar)
    BY <1>7, <1>12 DEF Scalar, ScalarAt, ColumnOf, Keyed, IdKey
  <2>2. op' = [op EXCEPT ![o] = x]
    BY <1>12, <2>1
  <2>3. scalar \in Scalars /\ scalar \in FromCells(op[o])
    BY <1>5
  <2> HIDE DEF scalar
  <2>4. /\ x \in Ops /\ x.pc = "hashing" /\ x.columns = op[o].columns /\ x.result = op[o].result
        /\ x.view = op[o].view /\ x.committed = op[o].committed /\ x.todo \subseteq op[o].todo
        /\ x.awaited = scalar
    BY <1>6, <2>3 DEF Ops, Pcs
  <2> HIDE DEF x
  <2>5. Projecting(x)
    BY <1>2, <2>4, ProjectingKept
  <2>6. FromCells(x) = FromCells(op[o])
    BY <2>4 DEF FromCells, Cells, ScalarAt
  <2>7. Hashing(x)
    BY <1>2, <2>1, <2>3, <2>4, <2>6 DEF Hashing, Keyed
  <2>8. OpGood(x, dbSpan[o])
    BY <1>1, <2>4, <2>5, <2>7, RowStepGood
  <2>9. QED
    BY <1>9, <1>12, <2>2, <2>8 DEF Goes, MayShow, Grows
<1>13. QED
  BY <1>3, <1>10, <1>11, <1>12 DEF y

LEMMA RowHashedGoes ==
  ASSUME EvidenceInv, NEW o \in Operation, RowHashed(o)
  PROVE  Goes(o)
<1>1. /\ op[o] \in Ops /\ dbSpan[o] \in DbSpans /\ OpGood(op[o], dbSpan[o]) /\ op[o].pc = "hashing"
      /\ part = "rows"
  BY OpTyped DEF RowHashed, At
<1>2. Projecting(op[o]) /\ Hashing(op[o]) /\ dbSpan[o].state = "open" /\ op[o].view.on
  BY <1>1 DEF OpGood
<1> DEFINE scalar == op[o].awaited
           committed == op[o].committed \cup {scalar}
           x == [op[o] EXCEPT !.pc = "projecting", !.committed = committed]
           y == [op[o] EXCEPT !.pc = "projecting"]
<1>3. CASE op' = [op EXCEPT ![o] = [op[o] EXCEPT !.pc = "projecting", !.committed = @ \cup {op[o].awaited}]]
           /\ UNCHANGED dbSpan
  <2>1. op' = [op EXCEPT ![o] = x]
    BY <1>1, <1>3 DEF Ops
  <2>2. committed \in SUBSET Scalars /\ committed = op[o].committed \cup {scalar}
    BY <1>1 DEF Ops
  <2> HIDE DEF committed
  <2>3. /\ x \in Ops /\ x.pc = "projecting" /\ x.columns = op[o].columns /\ x.result = op[o].result
        /\ x.view = op[o].view /\ x.committed = committed /\ x.todo \subseteq op[o].todo
    BY <1>1, <2>2 DEF Ops, Pcs
  <2> HIDE DEF x
  <2>4. Projecting(x)
    BY <1>2, <2>2, <2>3, ProjectingKept DEF Hashing
  <2>5. OpGood(x, dbSpan[o])
    BY <1>1, <2>3, <2>4, RowStepGood
  <2>6. dbSpan' = [dbSpan EXCEPT ![o] = dbSpan[o]]
    BY <1>3, OpTyped
  <2>7. QED
    BY <2>1, <2>5, <2>6 DEF Goes, MayShow, Grows
<1>4. CASE Goto(o, "projecting") /\ ViewOmission(o, "unhashed_id")
  <2>1. op' = [op EXCEPT ![o] = y]
    BY <1>4 DEF Goto
  <2>2. /\ y \in Ops /\ y.pc = "projecting" /\ y.columns = op[o].columns /\ y.result = op[o].result
        /\ y.view = op[o].view /\ y.committed = op[o].committed /\ y.todo \subseteq op[o].todo
    BY <1>1 DEF Ops, Pcs
  <2> HIDE DEF y
  <2>3. PICK s \in DbSpans : /\ dbSpan' = [dbSpan EXCEPT ![o] = s]
                             /\ s.state = dbSpan[o].state /\ s.family = dbSpan[o].family
                             /\ s.evidence.scalars = dbSpan[o].evidence.scalars
    BY <1>4, ViewOmissionShows DEF Reasons
  <2>4. Projecting(y)
    BY <1>2, <2>2, ProjectingKept
  <2>5. OpGood(y, s)
    BY <1>1, <2>2, <2>3, <2>4, RowStepGood
  <2>6. QED
    BY <1>2, <2>1, <2>3, <2>5 DEF Goes, MayShow
<1>5. QED
  BY <1>3, <1>4 DEF RowHashed

\* The operation ends, with what it had written by then.
LEMMA ClosesGoes ==
  ASSUME EvidenceInv, NEW o \in Operation, NEW w \in DbSpans, AddsUp(w),
         part = "rows" => ShowsKeyed(op[o], w), MayShow(o, w),
         Goto(o, "done"), dbSpan' = [dbSpan EXCEPT ![o] = EndSpan(w)]
  PROVE  Goes(o)
<1> DEFINE x == [op[o] EXCEPT !.pc = "done"]
           s == EndSpan(w)
<1>1. op[o] \in Ops
  BY OpTyped
<1>2. op' = [op EXCEPT ![o] = x]
  BY DEF Goto
<1>3. s \in DbSpans /\ SameShown(w, s)
  BY SpanEnds
<1>4. x \in Ops /\ x.pc = "done" /\ x.view = op[o].view
  BY <1>1 DEF Ops, Pcs
<1> HIDE DEF x, s
<1>5. AddsUp(s) /\ (part = "rows" => ShowsKeyed(x, s)) /\ MayShow(o, s)
  BY <1>3, <1>4 DEF SameShown, AddsUp, ShowsKeyed, MayShow, Grows
<1>6. OpGood(x, s)
  BY <1>3, <1>4, <1>5 DEF OpGood
<1>7. QED
  BY <1>2, <1>5, <1>6 DEF Goes, s

LEMMA AggregateReturnsGoes ==
  ASSUME EvidenceInv, NEW o \in Operation, AggregateReturns(o)
  PROVE  Goes(o)
<1>1. /\ op[o] \in Ops /\ dbSpan[o] \in DbSpans /\ OpGood(op[o], dbSpan[o]) /\ op[o].pc = "querying"
      /\ part = "aggregates"
  BY OpTyped DEF AggregateReturns, At
<1>2. /\ op[o].columns \in Seq(Selectors(AggregateEntries)) /\ dbSpan[o].state = "open" /\ op[o].view.on
      /\ dbSpan[o].family = 0
  BY <1>1 DEF OpGood
<1>3. CASE Done(o)
  BY <1>3, DoneGoes
<1>4. /\ DOMAIN op[o].columns = 1 .. Len(op[o].columns) /\ Len(op[o].columns) \in Nat
      /\ \A i \in DOMAIN op[o].columns : op[o].columns[i] \in Selectors(AggregateEntries)
  BY <1>2
<1>5. IsFiniteSet(1 .. Len(op[o].columns)) /\ IsFiniteSet(DOMAIN op[o].columns)
  <2>1. 1 \in Int /\ Len(op[o].columns) \in Int
    BY <1>4
  <2>2. QED
    BY <1>4, <2>1, FS_Interval
<1>6. CASE ~ Done(o)
  <2> DEFINE columns == op[o].columns
             present(result) == {i \in DOMAIN columns : result[columns[i].selector] # "absent"}
             verdicts(result) == [i \in present(result) |-> AdmitAggregateValue(result[columns[i].selector])]
             good(result) == {i \in present(result) : verdicts(result)[i] = Accepted}
             counted(result) == [dbSpan[o] EXCEPT !.evidence = Omissions(@, verdicts(result))]
             bundled(result) == [counted(result) EXCEPT !.evidence.scalars = {columns[i] : i \in good(result)}]
  <2>1. PICK result \in AggregateResults :
          /\ \E written \in {counted(result)} \cup
                  IF good(result) = {} THEN {} ELSE {bundled(result), [bundled(result) EXCEPT !.family = 2]} :
                  dbSpan' = [dbSpan EXCEPT ![o] = EndSpan(written)]
          /\ Goto(o, "done")
    BY <1>6 DEF AggregateReturns
  <2>2. PICK written \in {counted(result), bundled(result), [bundled(result) EXCEPT !.family = 2]} :
          dbSpan' = [dbSpan EXCEPT ![o] = EndSpan(written)]
    BY <2>1
  <2> DEFINE evidence == Omissions(dbSpan[o].evidence, verdicts(result))
             scalars == {columns[i] : i \in good(result)}
             shown == [evidence EXCEPT !.scalars = scalars]
             c == counted(result)
             b == bundled(result)
  <2>3. evidence \in Spans(Shown)
    <3>1. IsFiniteSet(DOMAIN columns)
      BY <1>5
    <3>2. present(result) \in SUBSET DOMAIN columns /\ DOMAIN verdicts(result) = present(result)
      OBVIOUS
    <3>3. IsFiniteSet(DOMAIN verdicts(result))
      <4> HIDE DEF verdicts, present
      <4>1. QED
        BY <3>1, <3>2, FS_Subset
    <3>4. dbSpan[o].evidence \in Spans(Shown)
      BY <1>1 DEF DbSpans
    <3>5. \A i \in DOMAIN verdicts(result) : verdicts(result)[i] \in Reasons \cup {Accepted}
      BY DEF AdmitAggregateValue, Reasons, Accepted
    <3>6. QED
      <4> HIDE DEF verdicts
      <4>1. QED
        BY <3>3, <3>4, <3>5, OmissionsCount
  <2>4. scalars \in SUBSET Shown
    BY <1>4 DEF Shown
  <2> HIDE DEF scalars
  <2>5. shown \in Spans(Shown)
    BY <2>3, <2>4 DEF Spans
  <2>6. c = [dbSpan[o] EXCEPT !.evidence = evidence]
    BY <1>1 DEF DbSpans
  <2>7. b = [c EXCEPT !.evidence.scalars = scalars]
    BY DEF scalars
  <2> HIDE DEF evidence, c, b
  <2>8. c \in DbSpans /\ c.evidence = evidence /\ c.family = 0
    BY <1>1, <1>2, <2>3, <2>6 DEF DbSpans
  <2>9. b = [c EXCEPT !.evidence = shown]
    BY <2>7, <2>8 DEF DbSpans
  <2> HIDE DEF shown
  <2>10. b \in DbSpans /\ b.family = 0
    BY <2>5, <2>8, <2>9 DEF DbSpans
  <2> DEFINE marked == [b EXCEPT !.family = 2]
  <2>11. marked \in DbSpans /\ marked.family = 2
    BY <2>10 DEF DbSpans
  <2>12. written \in {c, b, marked}
    BY <2>2 DEF c, b
  <2> HIDE DEF counted, bundled, marked
  <2>13. written \in DbSpans /\ written.family # 3
    BY <2>8, <2>10, <2>11, <2>12
  <2>14. QED
    BY <1>1, <1>2, <2>1, <2>2, <2>13, ClosesGoes DEF AddsUp, MayShow
<1>7. QED
  BY <1>3, <1>6

\* The metadata of a bundle agrees with the scalars it is about.
LEMMA MetadataAgrees ==
  ASSUME EvidenceInv, NEW o \in Operation, Projecting(op[o])
  PROVE  LET metadata == RowMetadata(o) committed == op[o].committed
         IN /\ metadata \in Seq([candidates : Nat, emitted : Nat]) /\ Len(metadata) <= MaxRows
            /\ \A r \in DOMAIN metadata :
                 /\ metadata[r].emitted = Cardinality({s \in committed : s.row = r})
                 /\ metadata[r].emitted <= metadata[r].candidates
            /\ {r \in DOMAIN metadata : metadata[r].emitted > 0} = {s.row : s \in committed}
            /\ Cardinality({s.row : s \in committed}) \in Nat
<1> DEFINE y == op[o]
           committed == y.committed
           cells(r) == {p \in Cells(y) : p[2] = r}
           ems(r) == {s \in committed : s.row = r}
           metadata == RowMetadata(o)
<1>1. y \in Ops
  BY OpTyped
<1>2. PICK m \in Nat : m <= MaxRows /\ DOMAIN Selected(y.result) = 1 .. m
  BY <1>1, CellsAre DEF Projecting
<1>3. IsFiniteSet(Cells(y)) /\ \A p \in Cells(y) : p[2] \in 1 .. m
  BY <1>1, <1>2, CellsAre DEF Projecting
<1>4. IsFiniteSet(committed) /\ committed \subseteq {ScalarAt(y, p) : p \in Cells(y)}
  BY DEF Projecting, FromCells
<1>5. metadata = [r \in 1 .. m |-> [candidates |-> Cardinality(cells(r)), emitted |-> Cardinality(ems(r))]]
  BY <1>2 DEF RowMetadata, Cells
<1>6. \A p : ScalarAt(y, p).row = p[2]
  BY DEF ScalarAt
<1> HIDE DEF y, committed, metadata
<1>7. ASSUME NEW r
      PROVE  /\ IsFiniteSet(ems(r)) /\ Cardinality(cells(r)) \in Nat /\ Cardinality(ems(r)) \in Nat
             /\ Cardinality(ems(r)) <= Cardinality(cells(r))
  <2> DEFINE image == {ScalarAt(y, p) : p \in cells(r)}
  <2>1. cells(r) \in SUBSET Cells(y) /\ ems(r) \in SUBSET committed
    OBVIOUS
  <2>2. ems(r) \in SUBSET image
    BY <1>4, <1>6
  <2> HIDE DEF cells, ems
  <2>3. IsFiniteSet(cells(r)) /\ IsFiniteSet(ems(r))
    BY <1>3, <1>4, <2>1, FS_Subset
  <2>4. IsFiniteSet(image) /\ Cardinality(image) <= Cardinality(cells(r))
    <3> DEFINE f == [p \in cells(r) |-> ScalarAt(y, p)]
    <3>1. f \in Surjection(cells(r), image)
      BY DEF Surjection
    <3> HIDE DEF f, image
    <3>2. QED
      BY <2>3, <3>1, FS_Surjection
  <2> HIDE DEF image
  <2>5. Cardinality(ems(r)) <= Cardinality(image)
    BY <2>2, <2>4, FS_Subset
  <2>6. /\ Cardinality(cells(r)) \in Nat /\ Cardinality(ems(r)) \in Nat /\ Cardinality(image) \in Nat
    BY <2>3, <2>4, FS_CardinalityType
  <2>7. QED
    BY <2>3, <2>4, <2>5, <2>6
<1> DEFINE row(r) == [candidates |-> Cardinality(cells(r)), emitted |-> Cardinality(ems(r))]
<1>8. \A r : /\ row(r) \in [candidates : Nat, emitted : Nat] /\ row(r).emitted = Cardinality(ems(r))
            /\ row(r).emitted <= row(r).candidates
  BY <1>7
<1>9. /\ DOMAIN metadata = 1 .. m /\ \A r \in 1 .. m : metadata[r] = row(r)
      /\ metadata = [r \in 1 .. m |-> row(r)]
  BY <1>5
<1>10. metadata \in Seq([candidates : Nat, emitted : Nat]) /\ Len(metadata) = m
  <2> HIDE DEF row
  <2>1. QED
    BY <1>8, <1>9
<1>11. {r \in DOMAIN metadata : metadata[r].emitted > 0} = {s.row : s \in committed}
  <2>1. ASSUME NEW r \in DOMAIN metadata, metadata[r].emitted > 0 PROVE \E s \in committed : r = s.row
    <3>1. Cardinality(ems(r)) > 0
      BY <1>8, <1>9, <2>1
    <3>2. ems(r) # {}
      <4> HIDE DEF ems
      <4>1. QED
        BY <3>1, FS_EmptySet
    <3>3. QED
      BY <3>2
  <2>2. ASSUME NEW s \in committed PROVE s.row \in DOMAIN metadata /\ metadata[s.row].emitted > 0
    <3>1. s.row \in 1 .. m
      BY <1>3, <1>4, <1>6
    <3>2. ems(s.row) # {}
      BY DEF ems
    <3>3. Cardinality(ems(s.row)) # 0 /\ Cardinality(ems(s.row)) \in Nat
      <4> HIDE DEF ems
      <4>1. QED
        BY <1>7, <3>2, FS_EmptySet
    <3>4. QED
      <4> HIDE DEF ems
      <4>1. QED
        BY <1>8, <1>9, <3>1, <3>3
  <2>3. QED
    BY <2>1, <2>2
<1>12. Cardinality({s.row : s \in committed}) \in Nat
  <2>1. {r \in DOMAIN metadata : metadata[r].emitted > 0} \in SUBSET (1 .. m)
    BY <1>9
  <2>2. IsFiniteSet(1 .. m)
    BY <1>2, FS_Interval
  <2>3. QED
    BY <1>11, <2>1, <2>2, FS_Subset, FS_CardinalityType
<1>13. \A r \in DOMAIN metadata : /\ metadata[r].emitted = Cardinality({s \in committed : s.row = r})
                                  /\ metadata[r].emitted <= metadata[r].candidates
  BY <1>8, <1>9
<1>14. Len(metadata) <= MaxRows
  BY <1>2, <1>10
<1> HIDE DEF row, ems
<1>15. QED
  BY <1>10, <1>11, <1>12, <1>13, <1>14 DEF metadata, committed, y

LEMMA BundleGoes ==
  ASSUME EvidenceInv, NEW o \in Operation, BundleRows(o)
  PROVE  Goes(o)
<1>1. /\ op[o] \in Ops /\ dbSpan[o] \in DbSpans /\ OpGood(op[o], dbSpan[o]) /\ op[o].pc = "projecting"
      /\ part = "rows"
  BY OpTyped DEF BundleRows, At
<1>2. /\ Projecting(op[o]) /\ dbSpan[o].state = "open" /\ op[o].view.on /\ dbSpan[o].family = 0
      /\ ShowsKeyed(op[o], dbSpan[o])
  BY <1>1 DEF OpGood
<1> DEFINE committed == op[o].committed
           metadata == RowMetadata(o)
           emittedRows == Cardinality({r \in DOMAIN metadata : metadata[r].emitted > 0})
           b == [dbSpan[o] EXCEPT !.evidence.scalars = committed, !.rows = metadata, !.emittedRows = emittedRows]
           shown == [dbSpan[o].evidence EXCEPT !.scalars = committed]
           marked == [b EXCEPT !.family = 3]
<1>3. /\ Goto(o, "done")
      /\ \/ dbSpan' = [dbSpan EXCEPT ![o] = EndSpan(dbSpan[o])]
         \/ /\ committed # {}
            /\ \/ dbSpan' = [dbSpan EXCEPT ![o] = EndSpan(b)]
               \/ dbSpan' = [dbSpan EXCEPT ![o] = EndSpan(marked)]
  BY DEF BundleRows
<1>4. committed \subseteq Shown /\ \A scalar \in committed : Keyed(op[o], scalar)
  BY <1>1, <1>2 DEF Ops, Shown, Projecting
<1>5. /\ metadata \in Seq([candidates : Nat, emitted : Nat]) /\ Len(metadata) <= MaxRows
      /\ \A r \in DOMAIN metadata :
           /\ metadata[r].emitted = Cardinality({s \in committed : s.row = r})
           /\ metadata[r].emitted <= metadata[r].candidates
      /\ emittedRows = Cardinality({s.row : s \in committed}) /\ emittedRows \in Nat
  BY <1>2, MetadataAgrees
<1>6. committed # {} => Cardinality(committed) \in 1 .. MaxScalars
  <2>1. IsFiniteSet(committed) /\ Cardinality(committed) <= MaxScalars
    BY <1>2 DEF Projecting
  <2> HIDE DEF committed
  <2>2. Cardinality(committed) \in Nat /\ MaxScalars \in Nat
    BY <2>1, FS_CardinalityType, BudgetAssumption
  <2>3. committed # {} => Cardinality(committed) # 0
    BY <2>1, FS_EmptySet
  <2>4. QED
    BY <2>1, <2>2, <2>3
<1> HIDE DEF metadata, emittedRows, committed
<1>7. shown \in Spans(Shown) /\ shown.scalars = committed
  BY <1>1, <1>4 DEF DbSpans, Spans
<1>8. b = [dbSpan[o] EXCEPT !.evidence = shown, !.rows = metadata, !.emittedRows = emittedRows]
  BY <1>1 DEF DbSpans
<1> HIDE DEF b, shown
<1>9. /\ b \in DbSpans /\ b.evidence = shown /\ b.rows = metadata /\ b.emittedRows = emittedRows
      /\ b.family = 0
  BY <1>1, <1>2, <1>5, <1>7, <1>8 DEF DbSpans
<1>10. /\ marked \in DbSpans /\ marked.evidence = shown /\ marked.rows = metadata
       /\ marked.emittedRows = emittedRows
  BY <1>9 DEF DbSpans
<1> HIDE DEF marked
<1>11. /\ AddsUp(b) /\ ShowsKeyed(op[o], b) /\ ShowsKeyed(op[o], marked)
       /\ committed # {} => AddsUp(marked)
  <2>1. AddsUp(b)
    BY <1>9 DEF AddsUp
  <2>2. ShowsKeyed(op[o], b) /\ ShowsKeyed(op[o], marked)
    BY <1>4, <1>7, <1>9, <1>10 DEF ShowsKeyed, Keyed
  <2>3. committed # {} => AddsUp(marked)
    BY <1>5, <1>6, <1>7, <1>10 DEF AddsUp
  <2>4. QED
    BY <2>1, <2>2, <2>3
<1>12. \A w : MayShow(o, w)
  BY <1>2 DEF MayShow
<1>13. AddsUp(dbSpan[o])
  BY <1>2 DEF AddsUp
<1>14. QED
  BY <1>1, <1>2, <1>3, <1>9, <1>10, <1>11, <1>12, <1>13, ClosesGoes

\* A step of a single-record operation: it may put one more scalar on its span,
\* an identifier under a key.
LEMMA SingleStepGoes ==
  ASSUME EvidenceInv, NEW o \in Operation, part = "rows",
         op[o].pc \in {"asking", "capturing", "yielding", "idHashing"},
         NEW y \in Ops, y.pc \in {"capturing", "yielding", "idHashing"},
         y.todo \subseteq Columns, y.pc = "idHashing" => y.awaited.key # 0,
         NEW evidence \in Spans(Shown), Gated(dbSpan[o].evidence, evidence),
         \A scalar \in evidence.scalars \ dbSpan[o].evidence.scalars :
           scalar.intent = "id" => scalar.key # 0,
         op' = [op EXCEPT ![o] = y],
         dbSpan' = [dbSpan EXCEPT ![o] = [dbSpan[o] EXCEPT !.evidence = evidence]]
  PROVE  Goes(o)
<1> DEFINE s == [dbSpan[o] EXCEPT !.evidence = evidence]
<1>1. op[o] \in Ops /\ dbSpan[o] \in DbSpans /\ OpGood(op[o], dbSpan[o])
  BY OpTyped
<1>2. dbSpan[o].state = "open" /\ dbSpan[o].family = 0 /\ ShowsKeyed(op[o], dbSpan[o])
  BY <1>1 DEF OpGood
<1>3. s \in DbSpans /\ s.evidence = evidence /\ s.state = "open" /\ s.family = 0
  BY <1>1, <1>2, EvidenceReplaced
<1> HIDE DEF s
<1>4. AddsUp(s) /\ ShowsKeyed(y, s) /\ MayShow(o, s)
  BY <1>2, <1>3 DEF AddsUp, ShowsKeyed, MayShow, Gated
<1>5. OpGood(y, s)
  BY <1>3, <1>4 DEF OpGood
<1>6. QED
  BY <1>4, <1>5 DEF Goes, s

LEMMA OntoGoes ==
  ASSUME EvidenceInv, NEW o \in Operation
  PROVE  /\ dbSpan[o].evidence \in Spans(Shown)
         /\ \A evidence : Onto(o, evidence)
              => dbSpan' = [dbSpan EXCEPT ![o] = [dbSpan[o] EXCEPT !.evidence = evidence]]
         /\ UNCHANGED dbSpan
              => dbSpan' = [dbSpan EXCEPT ![o] = [dbSpan[o] EXCEPT !.evidence = dbSpan[o].evidence]]
         /\ Gated(dbSpan[o].evidence, dbSpan[o].evidence)
<1>1. dbSpan[o] \in DbSpans
  BY OpTyped
<1>2. [dbSpan[o] EXCEPT !.evidence = dbSpan[o].evidence] = dbSpan[o]
  BY <1>1 DEF DbSpans
<1>3. UNCHANGED dbSpan => dbSpan' = [dbSpan EXCEPT ![o] = dbSpan[o]]
  BY OpTyped
<1>4. dbSpan[o].evidence \in Spans(Shown)
  BY <1>1 DEF DbSpans
<1>5. Gated(dbSpan[o].evidence, dbSpan[o].evidence)
  BY DEF Gated, Grows
<1>6. QED
  BY <1>2, <1>3, <1>4, <1>5 DEF Onto

\* A single-record operation belongs to the part of the rows.
LEMMA SinglesAreRows ==
  ASSUME EvidenceInv, NEW o \in Operation, part # "sideEffects",
         op[o].pc \in {"asking", "capturing", "yielding", "idHashing"}
  PROVE  /\ part = "rows" /\ op[o] \in Ops /\ op[o].todo \subseteq Columns
         /\ op[o].pc = "idHashing" => op[o].awaited.key # 0
<1>1. op[o] \in Ops /\ OpGood(op[o], dbSpan[o]) /\ part \in Parts
  BY OpTyped DEF EvidenceInv
<1>2. part = "rows"
  BY <1>1, PartsAssumption DEF OpGood
<1>3. QED
  BY <1>1, <1>2 DEF OpGood

LEMMA SingleReturnsGoes ==
  ASSUME EvidenceInv, NEW o \in Operation, SingleReturns(o)
  PROVE  Goes(o)
<1>1. part # "sideEffects" /\ op[o].pc = "asking"
  BY DEF SingleReturns, At
<1>2. part = "rows" /\ op[o] \in Ops /\ op[o].todo \subseteq Columns
  BY <1>1, SinglesAreRows
<1>3. CASE Done(o)
  BY <1>3, DoneGoes
<1>4. CASE ~ Done(o)
  <2>1. PICK row \in SingleResults :
          /\ op' = [op EXCEPT ![o] = [op[o] EXCEPT !.pc = "capturing", !.result = <<row>>,
                                        !.todo = {c \in @ : row[c.column] # "absent"}]]
          /\ UNCHANGED dbSpan
    BY <1>4 DEF SingleReturns
  <2> DEFINE todo == {c \in op[o].todo : row[c.column] # "absent"}
             y == [op[o] EXCEPT !.pc = "capturing", !.result = <<row>>, !.todo = todo]
  <2>2. op' = [op EXCEPT ![o] = y]
    BY <1>2, <2>1 DEF Ops
  <2>3. todo \subseteq op[o].todo
    OBVIOUS
  <2> HIDE DEF todo
  <2>4. y \in Ops /\ y.pc = "capturing" /\ y.todo \subseteq Columns
    BY <1>2, <2>3 DEF Ops, Pcs
  <2> HIDE DEF y
  <2>5. QED
    BY <1>1, <1>2, <2>1, <2>2, <2>4, SingleStepGoes, OntoGoes
<1>5. QED
  BY <1>3, <1>4

\* What is projected of a record, and under which key.
LEMMA CapturedTyped ==
  ASSUME EvidenceInv, NEW o \in Operation, op[o] \in Ops, NEW column \in Columns, NEW key \in Nat
  PROVE  /\ Captured(o, column, key) \in Scalars
         /\ Captured(o, column, key).intent = column.intent /\ Captured(o, column, key).key = key
<1>1. PICK e \in RowEntries : column = [column |-> e.column, intent |-> e.intent]
  BY DEF Columns, RowColumns
<1>2. QED
  BY <1>1 DEF Captured, Scalars

LEMMA ProjectedTyped ==
  ASSUME NEW o \in Operation, op[o] \in Ops, op[o].todo \subseteq Columns, NEW column
  PROVE  /\ Projected(o, column) \in Ops /\ Projected(o, column).pc = op[o].pc
         /\ Projected(o, column).todo \subseteq Columns
<1> DEFINE todo == op[o].todo \ {column}
<1>1. Projected(o, column) = [op[o] EXCEPT !.todo = todo]
  BY DEF Projected, Ops
<1>2. todo \subseteq op[o].todo
  OBVIOUS
<1> HIDE DEF todo
<1>3. QED
  BY <1>1, <1>2 DEF Ops

LEMMA CaptureColumnGoes ==
  ASSUME EvidenceInv, NEW o \in Operation, CaptureColumn(o)
  PROVE  Goes(o)
<1>1. part # "sideEffects" /\ op[o].pc = "capturing"
  BY DEF CaptureColumn, At
<1>2. part = "rows" /\ op[o] \in Ops /\ op[o].todo \subseteq Columns
  BY <1>1, SinglesAreRows
<1>3. PICK column \in op[o].todo :
        /\ column.intent # "id"
        /\ Onto(o, Capture(dbSpan[o].evidence, column.intent,
                           IF ValueOf(o, column) = "good" THEN "boolean" ELSE "object",
                           Captured(o, column, 0)))
        /\ op' = [op EXCEPT ![o] = Projected(o, column)]
  BY DEF CaptureColumn
<1> DEFINE y == Projected(o, column)
           scalar == Captured(o, column, 0)
           value == IF ValueOf(o, column) = "good" THEN "boolean" ELSE "object"
           evidence == Capture(dbSpan[o].evidence, column.intent, value, scalar)
<1>4. y \in Ops /\ y.pc = "capturing" /\ y.todo \subseteq Columns
  BY <1>1, <1>2, ProjectedTyped
<1>5. scalar \in Shown /\ scalar.intent # "id"
  BY <1>2, <1>3, CapturedTyped DEF Shown
<1>6. dbSpan[o].evidence \in Spans(Shown)
  BY OntoGoes
<1> HIDE DEF y, scalar, value
<1>7. /\ evidence \in Spans(Shown) /\ Gated(dbSpan[o].evidence, evidence)
      /\ evidence.scalars \in SUBSET (dbSpan[o].evidence.scalars \cup {scalar})
  BY <1>5, <1>6, CaptureKeeps
<1>8. Onto(o, evidence) /\ op' = [op EXCEPT ![o] = y]
  BY <1>3 DEF y, scalar, value
<1> HIDE DEF evidence
<1>9. \A t \in evidence.scalars \ dbSpan[o].evidence.scalars : t.intent = "id" => t.key # 0
  BY <1>5, <1>7
<1>10. QED
  BY <1>1, <1>2, <1>4, <1>7, <1>8, <1>9, SingleStepGoes, OntoGoes

\* An identifier that is left out is counted, and nothing else of it is shown.
LEMMA OmitIdentifierKeeps ==
  ASSUME EvidenceInv, NEW o \in Operation, NEW column
  PROVE  /\ OmitIdentifier(o, column) \in Spans(Shown)
         /\ Gated(dbSpan[o].evidence, OmitIdentifier(o, column))
         /\ OmitIdentifier(o, column).scalars = dbSpan[o].evidence.scalars
<1>1. dbSpan[o].evidence \in Spans(Shown) /\ "unhashed_id" \in Reasons
  BY OntoGoes DEF Reasons
<1>2. QED
  BY <1>1, CaptureOmissionKeeps DEF OmitIdentifier

LEMMA ProjectIdentifierGoes ==
  ASSUME EvidenceInv, NEW o \in Operation, ProjectIdentifier(o)
  PROVE  Goes(o)
<1>1. part # "sideEffects" /\ op[o].pc = "capturing"
  BY DEF ProjectIdentifier, At
<1>2. part = "rows" /\ op[o] \in Ops /\ op[o].todo \subseteq Columns
  BY <1>1, SinglesAreRows
<1>3. PICK column \in op[o].todo :
        \/ /\ op' = [op EXCEPT ![o] = [Projected(o, column) EXCEPT !.pc = "yielding"]]
           /\ UNCHANGED dbSpan
        \/ /\ op' = [op EXCEPT ![o] = [Projected(o, column) EXCEPT !.pc = "yielding"]]
           /\ Onto(o, OmitIdentifier(o, column))
        \/ /\ config.key # 0
           /\ op' = [op EXCEPT ![o] = [Projected(o, column) EXCEPT
                         !.pc = "idHashing", !.awaited = Captured(o, column, config.key)]]
           /\ UNCHANGED dbSpan
  BY DEF ProjectIdentifier
<1> DEFINE z == Projected(o, column)
           y == [z EXCEPT !.pc = "yielding"]
           scalar == Captured(o, column, config.key)
           h == [z EXCEPT !.pc = "idHashing", !.awaited = scalar]
<1>4. z \in Ops /\ z.todo \subseteq Columns
  BY <1>1, <1>2, ProjectedTyped
<1>5. scalar \in Scalars /\ scalar.key = config.key
  <2>1. config.key \in Nat
    BY ConfigsAssumption DEF EvidenceInv
  <2>2. QED
    BY <1>2, <2>1, CapturedTyped
<1> HIDE DEF z, scalar
<1>6. y \in Ops /\ y.pc = "yielding" /\ y.todo \subseteq Columns
  BY <1>4 DEF Ops, Pcs
<1>7. h \in Ops /\ h.pc = "idHashing" /\ h.todo \subseteq Columns /\ h.awaited.key = config.key
  BY <1>4, <1>5 DEF Ops, Pcs
<1> HIDE DEF y, h
<1>8. CASE op' = [op EXCEPT ![o] = y] /\ UNCHANGED dbSpan
  BY <1>1, <1>2, <1>6, <1>8, SingleStepGoes, OntoGoes
<1>9. CASE op' = [op EXCEPT ![o] = y] /\ Onto(o, OmitIdentifier(o, column))
  <2> DEFINE evidence == OmitIdentifier(o, column)
  <2>1. /\ evidence \in Spans(Shown) /\ Gated(dbSpan[o].evidence, evidence)
        /\ evidence.scalars = dbSpan[o].evidence.scalars
    BY OmitIdentifierKeeps
  <2> HIDE DEF evidence
  <2>2. Onto(o, evidence)
    BY <1>9 DEF evidence
  <2>3. QED
    BY <1>1, <1>2, <1>6, <1>9, <2>1, <2>2, SingleStepGoes, OntoGoes
<1>10. CASE config.key # 0 /\ op' = [op EXCEPT ![o] = h] /\ UNCHANGED dbSpan
  BY <1>1, <1>2, <1>7, <1>10, SingleStepGoes, OntoGoes
<1>11. QED
  BY <1>3, <1>8, <1>9, <1>10 DEF y, h, z, scalar

LEMMA IdentifierHashedGoes ==
  ASSUME EvidenceInv, NEW o \in Operation, IdentifierHashed(o)
  PROVE  Goes(o)
<1>1. part # "sideEffects" /\ op[o].pc = "idHashing"
  BY DEF IdentifierHashed, At
<1>2. part = "rows" /\ op[o] \in Ops /\ op[o].todo \subseteq Columns /\ op[o].awaited.key # 0
  BY <1>1, SinglesAreRows
<1> DEFINE y == [op[o] EXCEPT !.pc = "yielding"]
           scalar == op[o].awaited
           captured == Capture(dbSpan[o].evidence, "id", "hash", scalar)
           omitted == OmitIdentifier(o, scalar)
<1>3. op' = [op EXCEPT ![o] = y] /\ (Onto(o, captured) \/ Onto(o, omitted))
  BY DEF IdentifierHashed, Goto
<1>4. y \in Ops /\ y.pc = "yielding" /\ y.todo \subseteq Columns
  BY <1>2 DEF Ops, Pcs
<1>5. scalar \in Shown
  BY <1>2 DEF Ops, Shown
<1>6. dbSpan[o].evidence \in Spans(Shown)
  BY OntoGoes
<1> HIDE DEF y, scalar
<1>7. /\ captured \in Spans(Shown) /\ Gated(dbSpan[o].evidence, captured)
      /\ captured.scalars \in SUBSET (dbSpan[o].evidence.scalars \cup {scalar})
  BY <1>5, <1>6, CaptureKeeps
<1>8. /\ omitted \in Spans(Shown) /\ Gated(dbSpan[o].evidence, omitted)
      /\ omitted.scalars = dbSpan[o].evidence.scalars
  BY OmitIdentifierKeeps
<1> HIDE DEF captured, omitted
<1>9. \A evidence \in {captured, omitted} :
        \A t \in evidence.scalars \ dbSpan[o].evidence.scalars : t.intent = "id" => t.key # 0
  BY <1>2, <1>7, <1>8 DEF scalar
<1>10. QED
  BY <1>1, <1>2, <1>3, <1>4, <1>7, <1>8, <1>9, SingleStepGoes, OntoGoes

LEMMA ResumesGoes ==
  ASSUME EvidenceInv, NEW o \in Operation, Resumes(o)
  PROVE  Goes(o)
<1>1. part # "sideEffects" /\ op[o].pc = "yielding"
  BY DEF Resumes, At
<1>2. part = "rows" /\ op[o] \in Ops /\ op[o].todo \subseteq Columns
  BY <1>1, SinglesAreRows
<1> DEFINE y == [op[o] EXCEPT !.pc = "capturing"]
<1>3. op' = [op EXCEPT ![o] = y] /\ UNCHANGED dbSpan
  BY DEF Resumes, Goto
<1>4. y \in Ops /\ y.pc = "capturing" /\ y.todo \subseteq Columns
  BY <1>2 DEF Ops, Pcs
<1> HIDE DEF y
<1>5. QED
  BY <1>1, <1>2, <1>3, <1>4, SingleStepGoes, OntoGoes

LEMMA QueriesGo ==
  ASSUME EvidenceInv, NEW o \in Operation, Queries(o)
  PROVE  Goes(o) /\ UNCHANGED <<config, part, list, hostSpan, calls, due>>
<1>1. ASSUME NEW model \in BucketNames("rows"), BeginFindMany(o, model)
      PROVE  Goes(o) /\ UNCHANGED <<config, part, list, hostSpan, calls, due>>
  BY <1>1, FindManyBegins DEF BeginFindMany, At
<1>2. ASSUME NEW model \in BucketNames("rows"), BeginSingle(o, model)
      PROVE  Goes(o) /\ UNCHANGED <<config, part, list, hostSpan, calls, due>>
  BY <1>2, SingleBegins DEF BeginSingle, At
<1>3. ASSUME NEW name \in BucketNames("aggregates"), BeginAggregate(o, name)
      PROVE  Goes(o) /\ UNCHANGED <<config, part, list, hostSpan, calls, due>>
  BY <1>3, AggregateBegins DEF BeginAggregate, At
<1>4. QED
  BY <1>1, <1>2, <1>3 DEF Queries

LEMMA ProjectsGo ==
  ASSUME EvidenceInv, NEW o \in Operation, Projects(o)
  PROVE  Goes(o) /\ UNCHANGED <<config, part, list, hostSpan, calls, due>>
<1>1. CASE FindManyReturns(o)
  BY <1>1, FindManyReturnsGoes DEF FindManyReturns, At
<1>2. CASE PrepareRowScalar(o)
  BY <1>2, PrepareGoes DEF PrepareRowScalar, At
<1>3. CASE RowHashed(o)
  BY <1>3, RowHashedGoes DEF RowHashed, At
<1>4. CASE BundleRows(o)
  BY <1>4, BundleGoes DEF BundleRows, At
<1>5. CASE AggregateReturns(o)
  BY <1>5, AggregateReturnsGoes DEF AggregateReturns, At
<1>6. CASE SingleReturns(o)
  BY <1>6, SingleReturnsGoes DEF SingleReturns, At
<1>7. CASE CaptureColumn(o)
  BY <1>7, CaptureColumnGoes DEF CaptureColumn, At
<1>8. CASE ProjectIdentifier(o)
  BY <1>8, ProjectIdentifierGoes DEF ProjectIdentifier, At
<1>9. CASE IdentifierHashed(o)
  BY <1>9, IdentifierHashedGoes DEF IdentifierHashed, At
<1>10. CASE Resumes(o)
  BY <1>10, ResumesGoes DEF Resumes, At
<1>11. CASE SingleEnds(o)
  BY <1>11, DoneGoes DEF SingleEnds, At
<1>12. QED
  BY <1>1, <1>2, <1>3, <1>4, <1>5, <1>6, <1>7, <1>8, <1>9, <1>10, <1>11 DEF Projects

-----------------------------------------------------------------------------
\* The invariant

LEMMA EvidenceInit == Init => EvidenceInv
<1> SUFFICES ASSUME Init PROVE EvidenceInv
  OBVIOUS
<1> DEFINE noneOmitted == [r \in Reasons |-> 0]
           blank == [NewSpan EXCEPT !.recording = FALSE]
<1>1. noneOmitted \in [Reasons -> Nat]
  OBVIOUS
<1>2. \A S : NewSpan \in Spans(S) /\ blank \in Spans(S)
  BY <1>1 DEF NewSpan, Spans
<1>3. Tells(NewSpan, due) /\ due \in Dues
  <2>1. TotalOmitted(NewSpan) = 0
    BY DEF NewSpan, TotalOmitted, Reasons
  <2>2. NewSpan.label = 0 /\ NewSpan.operations = 0 /\ NewSpan.reserved = 0
    BY DEF NewSpan
  <2>3. due = [operations |-> 0, latest |-> 0, captured |-> 0, refused |-> 0]
    BY DEF Init
  <2>4. QED
    BY <2>1, <2>2, <2>3, BudgetAssumption DEF Tells, Dues
<1>4. Unasked \in Ops
  <2>1. NoScalar \in Scalars
    BY DEF NoScalar, Scalars
  <2>2. NoView \in Configs \cup {NoView} /\ <<>> \in Seq(Columns)
    OBVIOUS
  <2> HIDE DEF NoView
  <2>3. QED
    BY <2>1, <2>2 DEF Unasked, Ops, Pcs
<1>5. NoDbSpan \in DbSpans
  <2>1. <<>> \in Seq([candidates : Nat, emitted : Nat])
    OBVIOUS
  <2>2. NoDbSpan = [state |-> "none", evidence |-> blank, family |-> 0, rows |-> <<>>, emittedRows |-> 0]
    BY DEF NoDbSpan
  <2>3. blank \in Spans(Shown)
    BY <1>2
  <2> HIDE DEF blank
  <2>4. QED
    BY <2>1, <2>2, <2>3 DEF DbSpans
<1>6. OpGood(Unasked, NoDbSpan)
  <2>1. NoDbSpan.family = 0 /\ NoDbSpan.evidence.scalars = {} /\ NoDbSpan.evidence = blank
    BY DEF NoDbSpan, NewSpan
  <2>2. Unasked.pc = "idle" /\ Unasked.committed = {}
    BY DEF Unasked
  <2>3. AddsUp(NoDbSpan) /\ ShowsKeyed(Unasked, NoDbSpan)
    BY <2>1 DEF AddsUp, ShowsKeyed
  <2>4. QED
    BY <1>4, <1>5, <2>1, <2>2, <2>3 DEF OpGood
<1>7. QED
  BY <1>2, <1>3, <1>4, <1>5, <1>6 DEF Init, EvidenceInv

LEMMA GoesKeeps ==
  ASSUME EvidenceInv, NEW o \in Operation, Goes(o), UNCHANGED <<config, part, list, hostSpan, calls, due>>
  PROVE  /\ EvidenceInv'
         /\ \A p \in Operation :
              Grows(dbSpan[p].evidence, dbSpan'[p].evidence)
                => dbSpan[p].state = "open" /\ (config.on \/ op[p].view.on)
<1>1. PICK x, s : /\ op' = [op EXCEPT ![o] = x] /\ dbSpan' = [dbSpan EXCEPT ![o] = s]
                  /\ OpGood(x, s) /\ MayShow(o, s)
  BY DEF Goes
<1>2. op \in [Operation -> Ops] /\ dbSpan \in [Operation -> DbSpans] /\ x \in Ops /\ s \in DbSpans
  BY <1>1 DEF EvidenceInv, OpGood
<1>3. op' \in [Operation -> Ops] /\ dbSpan' \in [Operation -> DbSpans]
  BY <1>1, <1>2
<1>4. \A p \in Operation : /\ op'[p] = IF p = o THEN x ELSE op[p]
                           /\ dbSpan'[p] = IF p = o THEN s ELSE dbSpan[p]
  BY <1>1, <1>2
<1>5. \A p \in Operation : OpGood(op'[p], dbSpan'[p])
  BY <1>1, <1>4 DEF EvidenceInv
<1>6. \A p \in Operation : OpGood(op[p], dbSpan[p])'
  BY <1>5 DEF OpGood
<1>7. hostSpan' \in Spans(HostScalars) /\ Tells(hostSpan', due') /\ due' \in Dues
  BY DEF EvidenceInv
<1>71. Tells(hostSpan, due)'
  BY <1>7 DEF Tells, TotalOmitted
<1>8. EvidenceInv'
  BY <1>3, <1>6, <1>7, <1>71 DEF EvidenceInv
<1>9. \A p \in Operation :
        Grows(dbSpan[p].evidence, dbSpan'[p].evidence)
          => dbSpan[p].state = "open" /\ (config.on \/ op[p].view.on)
  BY <1>1, <1>4 DEF MayShow, Grows
<1>10. QED
  BY <1>8, <1>9

\* Everything else leaves the operations alone.
LEMMA OthersKeep ==
  ASSUME EvidenceInv, UNCHANGED <<part, op, dbSpan>>, config' \in Configs, calls' \in Nat,
         part \in {"rows", "aggregates"} => list' \in Seq(Entries(part)),
         hostSpan' \in Spans(HostScalars), Tells(hostSpan', due'), due' \in Dues
  PROVE  EvidenceInv'
<1>1. \A o \in Operation : OpGood(op[o], dbSpan[o])'
  BY DEF EvidenceInv, OpGood
<1>2. Tells(hostSpan, due)'
  BY DEF Tells, TotalOmitted
<1>3. QED
  BY <1>1, <1>2 DEF EvidenceInv

LEMMA HostSteps ==
  ASSUME EvidenceInv, CallRecordSideEffect \/ CallCapture \/ HostSpanEnds
  PROVE  /\ hostSpan' \in Spans(HostScalars) /\ Tells(hostSpan', due') /\ due' \in Dues
         /\ Gated(hostSpan, hostSpan') /\ calls' \in Nat /\ UNCHANGED <<config, part, list, op, dbSpan>>
<1>1. /\ hostSpan \in Spans(HostScalars) /\ calls \in Nat /\ Tells(hostSpan, due) /\ due \in Dues
      /\ MaxOperations \in Nat /\ MaxScalars \in Nat
  BY BudgetAssumption DEF EvidenceInv
<1>2. /\ due.operations \in Nat /\ due.latest \in Nat /\ due.captured \in Nat /\ due.refused \in Nat
  BY <1>1 DEF Dues
<1>3. CASE CallRecordSideEffect
  <2>1. PICK input \in Inputs : /\ hostSpan' = RecordSideEffect(hostSpan, input, calls + 1)
                               /\ due' = DueAfterOperation(input)
    BY <1>3 DEF CallRecordSideEffect
  <2>2. \A i \in DOMAIN input.scalars : input.scalars[i] \in HostScalars
    BY DEF HostScalars, Range
  <2>3. calls + 1 \in Nat
    BY <1>1
  <2> DEFINE heard == config.on /\ hostSpan.recording /\ input.kindKnown
             admitted == heard /\ CheckText(input.label) = Accepted /\ hostSpan.operations < MaxOperations
             owed == RefusalsDue(input, hostSpan.operations)
  <2>4. /\ hostSpan' \in Spans(HostScalars) /\ Gated(hostSpan, hostSpan')
        /\ TotalOmitted(hostSpan') = TotalOmitted(hostSpan) + (IF heard THEN owed ELSE 0)
        /\ hostSpan'.operations = hostSpan.operations + (IF admitted THEN 1 ELSE 0)
        /\ hostSpan'.label = IF admitted THEN calls + 1 ELSE hostSpan.label
        /\ hostSpan'.reserved = hostSpan.reserved
    BY <1>1, <2>1, <2>2, <2>3, RecordSideEffectKeeps
  <2>5. hostSpan.operations = due.operations
    BY <1>1 DEF Tells
  <2>6. Admitted(input) <=> admitted
    BY <2>5 DEF Admitted, Heard
  <2>7. (Heard /\ input.kindKnown) <=> heard
    BY DEF Heard
  <2>8. owed = RefusalsDue(input, due.operations)
    BY <2>5
  <2>9. owed \in Nat
    BY RefusalsNumber, <1>1, <1>2, <2>8
  <2> HIDE DEF heard, admitted, owed
  <2>10. due' = [operations |-> due.operations + (IF admitted THEN 1 ELSE 0),
                 latest |-> IF admitted THEN calls + 1 ELSE due.latest,
                 captured |-> due.captured,
                 refused |-> due.refused + (IF heard THEN owed ELSE 0)]
    BY <2>1, <2>6, <2>7, <2>8 DEF DueAfterOperation
  <2>11. due' \in Dues
    BY <1>1, <1>2, <2>9, <2>10 DEF Dues
  <2>12. admitted => due.operations < MaxOperations
    BY <2>5 DEF admitted
  <2>13. Tells(hostSpan', due')
    BY <1>1, <1>2, <2>4, <2>9, <2>10, <2>12 DEF Tells
  <2>14. QED
    BY <1>3, <2>3, <2>4, <2>11, <2>13 DEF CallRecordSideEffect
<1>4. CASE CallCapture
  <2>1. PICK suffix \in {"flag", "id", "ms"}, value \in {"boolean", "hash", "epoch"} :
          /\ hostSpan' = Capture(hostSpan, suffix, value, [suffix |-> suffix, value |-> value])
          /\ due' = DueAfterCapture(suffix, value)
    BY <1>4 DEF CallCapture
  <2>2. [suffix |-> suffix, value |-> value] \in HostScalars
    BY DEF HostScalars
  <2> DEFINE heard == config.on /\ hostSpan.recording
             good == CheckScalarField(suffix, value) = Accepted
             fits == good /\ hostSpan.reserved < MaxScalars
  <2>3. /\ hostSpan' \in Spans(HostScalars) /\ Gated(hostSpan, hostSpan')
        /\ TotalOmitted(hostSpan') = TotalOmitted(hostSpan) + (IF heard /\ ~ fits THEN 1 ELSE 0)
        /\ hostSpan'.reserved = hostSpan.reserved + (IF heard /\ fits THEN 1 ELSE 0)
        /\ hostSpan'.operations = hostSpan.operations /\ hostSpan'.label = hostSpan.label
    BY <1>1, <2>1, <2>2, CaptureKeeps
  <2>4. hostSpan.reserved = due.captured
    BY <1>1 DEF Tells
  <2>5. due' = [due EXCEPT !.captured = due.captured + (IF heard /\ fits THEN 1 ELSE 0),
                           !.refused = due.refused + (IF heard /\ ~ fits THEN 1 ELSE 0)]
    BY <1>1, <2>1, <2>4 DEF DueAfterCapture, Heard, Dues
  <2>6. fits => due.captured < MaxScalars
    BY <2>4
  <2> HIDE DEF heard, fits
  <2>7. /\ due'.captured = due.captured + (IF heard /\ fits THEN 1 ELSE 0)
        /\ due'.refused = due.refused + (IF heard /\ ~ fits THEN 1 ELSE 0)
        /\ due'.operations = due.operations /\ due'.latest = due.latest
        /\ due' \in Dues
    <3> DEFINE more == due.captured + (IF heard /\ fits THEN 1 ELSE 0)
               worse == due.refused + (IF heard /\ ~ fits THEN 1 ELSE 0)
    <3>1. more \in Nat /\ worse \in Nat
      BY <1>2
    <3>2. due' = [due EXCEPT !.captured = more, !.refused = worse]
      BY <2>5
    <3> HIDE DEF more, worse
    <3>3. /\ due'.captured = more /\ due'.refused = worse
          /\ due'.operations = due.operations /\ due'.latest = due.latest
          /\ due' \in Dues
      BY <1>1, <3>1, <3>2 DEF Dues
    <3>4. QED
      BY <3>3 DEF more, worse
  <2>8. Tells(hostSpan', due')
    BY <1>1, <1>2, <2>3, <2>6, <2>7 DEF Tells
  <2>9. QED
    BY <1>1, <1>4, <2>3, <2>7, <2>8 DEF CallCapture
<1>5. CASE HostSpanEnds
  <2>1. hostSpan' = [hostSpan EXCEPT !.recording = FALSE]
    BY <1>5 DEF HostSpanEnds
  <2>2. /\ hostSpan' \in Spans(HostScalars) /\ hostSpan'.omitted = hostSpan.omitted
        /\ hostSpan'.scalars = hostSpan.scalars /\ hostSpan'.label = hostSpan.label
        /\ hostSpan'.operations = hostSpan.operations /\ hostSpan'.reserved = hostSpan.reserved
    BY <1>1, <2>1 DEF Spans
  <2>3. due' = due
    BY <1>5 DEF HostSpanEnds
  <2>4. Tells(hostSpan', due')
    BY <1>1, <2>2, <2>3 DEF Tells, TotalOmitted
  <2>5. QED
    BY <1>1, <1>5, <2>2, <2>3, <2>4 DEF HostSpanEnds, Gated, Grows
<1>6. QED
  BY <1>3, <1>4, <1>5

LEMMA EvidenceStep == EvidenceInv /\ [Next]_vars => EvidenceInv'
<1> SUFFICES ASSUME EvidenceInv, [Next]_vars PROVE EvidenceInv'
  OBVIOUS
<1>1. /\ config \in Configs /\ calls \in Nat /\ hostSpan \in Spans(HostScalars)
      /\ part \in {"rows", "aggregates"} => list \in Seq(Entries(part))
      /\ Tells(hostSpan, due) /\ due \in Dues
  BY DEF EvidenceInv
<1>11. UNCHANGED <<hostSpan, due>> => hostSpan' \in Spans(HostScalars) /\ Tells(hostSpan', due') /\ due' \in Dues
  BY <1>1, Zenon
<1>2. ASSUME NEW o \in Operation, Queries(o) \/ Projects(o) PROVE EvidenceInv'
  BY <1>2, QueriesGo, ProjectsGo, GoesKeeps
<1>3. CASE AddEntry
  <2>1. PICK e \in Entries(part) : list' = Append(list, e)
    BY <1>3 DEF AddEntry
  <2>2. part \in {"rows", "aggregates"} => list' \in Seq(Entries(part))
    BY <1>1, <2>1
  <2>3. UNCHANGED <<config, part, op, dbSpan, hostSpan, calls, due>>
    BY <1>3 DEF AddEntry
  <2>4. QED
    BY <1>1, <1>11, <2>2, <2>3, OthersKeep
<1>4. CASE ConfigChanges
  BY <1>1, <1>11, <1>4, OthersKeep DEF ConfigChanges
<1>5. CASE CallRecordSideEffect \/ CallCapture \/ HostSpanEnds
  BY <1>1, <1>5, HostSteps, OthersKeep
<1>6. CASE UNCHANGED vars
  BY <1>1, <1>11, <1>6, OthersKeep DEF vars
<1>7. QED
  BY <1>2, <1>3, <1>4, <1>5, <1>6 DEF Next

LEMMA EvidenceHolds == Spec => []EvidenceInv
BY EvidenceInit, EvidenceStep, PTL DEF Spec

-----------------------------------------------------------------------------
\* However the host wrote `allow` and `aggregateAllow`, and in whatever order,
\* compileRowPolicy() and compileAggregatePolicy() admit what the list as a
\* whole says: nothing of a list that is unsafe to read or too long, and nothing
\* of a model or bucket of which two entries disagree.
THEOREM ListsAreRead == Spec => []PoliciesDenyByDefault
<1>1. EvidenceInv => PoliciesDenyByDefault
  <2> SUFFICES ASSUME EvidenceInv PROVE PoliciesDenyByDefault
    OBVIOUS
  <2>1. ASSUME part = "rows", NEW model \in BucketNames("rows")
        PROVE  Range(Admits(RowPolicy, model)) = RowsAdmitted(list, model)
    <3>1. list \in Seq(Entries("rows")) /\ "rows" \in Kinds
      BY <2>1 DEF EvidenceInv, Kinds
    <3>2. QED
      BY <3>1, AdmitsWhatIsSaid DEF RowPolicy, CompileRowPolicy, RowsAdmitted
  <2>2. ASSUME part = "aggregates", NEW name \in BucketNames("aggregates")
        PROVE  Range(Admits(AggregatePolicy, name)) = AggregatesAdmitted(list, name)
    <3>1. list \in Seq(Entries("aggregates")) /\ "aggregates" \in Kinds
      BY <2>2 DEF EvidenceInv, Kinds
    <3>2. QED
      BY <3>1, AdmitsWhatIsSaid DEF AggregatePolicy, CompileAggregatePolicy, AggregatesAdmitted
  <2>3. QED
    BY <2>1, <2>2 DEF PoliciesDenyByDefault
<1>2. QED
  BY <1>1, EvidenceHolds, PTL

\* No raw identifier reaches a query's span: what is there is a hash under a
\* provisioned key, and in a bundle that projectBoundedRows() finished under the
\* key of the view that admitted the query, though keys rotate and the query and
\* every hash are awaited; and such a bundle agrees with its own metadata.
THEOREM EvidenceStaysSound == Spec => []EvidenceSound
<1>1. EvidenceInv => EvidenceSound
  <2> SUFFICES ASSUME EvidenceInv PROVE EvidenceSound
    OBVIOUS
  <2>1. IdentifiersAreKeyed
    BY OpTyped DEF IdentifiersAreKeyed, OpGood, ShowsKeyed
  <2>2. BundlesAddUp
    BY OpTyped DEF BundlesAddUp, OpGood, AddsUp
  <2>3. QED
    BY <2>1, <2>2 DEF EvidenceSound
<1>2. QED
  BY <1>1, EvidenceHolds, PTL

\* What recordSideEffect() and capture() leave on the host's span is what its
\* calls were due: one omission for each refusal, the label of the latest
\* operation admitted, no budget overrun; for any inputs, any number of calls and
\* any changes of the switch.
THEOREM RefusalsAreCounted == Spec => []CountersExact
<1>1. EvidenceInv => CountersExact
  BY DEF EvidenceInv, Tells, CountersExact
<1>2. QED
  BY <1>1, EvidenceHolds, PTL

\* isCaptureEnabled() and the view an operation holds stand before every write:
\* a span grows only while it is open, under a switch that is on or was when the
\* operation was admitted.
THEOREM CaptureStaysGated == Spec => CaptureIsGated
<1>1. EvidenceInv /\ [Next]_vars =>
        [/\ Grows(hostSpan, hostSpan') => config.on /\ hostSpan.recording
         /\ \A o \in Operation :
              Grows(dbSpan[o].evidence, dbSpan[o].evidence')
                => dbSpan[o].state = "open" /\ (config.on \/ op[o].view.on)]_vars
  <2> SUFFICES ASSUME EvidenceInv, Next
               PROVE  /\ Grows(hostSpan, hostSpan') => config.on /\ hostSpan.recording
                      /\ \A p \in Operation :
                           Grows(dbSpan[p].evidence, dbSpan'[p].evidence)
                             => dbSpan[p].state = "open" /\ (config.on \/ op[p].view.on)
    OBVIOUS
  <2>1. ASSUME NEW o \in Operation, Queries(o) \/ Projects(o)
        PROVE  /\ Grows(hostSpan, hostSpan') => config.on /\ hostSpan.recording
               /\ \A p \in Operation :
                    Grows(dbSpan[p].evidence, dbSpan'[p].evidence)
                      => dbSpan[p].state = "open" /\ (config.on \/ op[p].view.on)
    <3>1. Goes(o) /\ UNCHANGED <<config, part, list, hostSpan, calls, due>>
      BY <2>1, QueriesGo, ProjectsGo
    <3>2. QED
      BY <3>1, GoesKeeps DEF Grows
  <2>2. CASE CallRecordSideEffect \/ CallCapture \/ HostSpanEnds
    BY <2>2, HostSteps DEF Gated, Grows
  <2>3. CASE AddEntry \/ ConfigChanges
    BY <2>3 DEF AddEntry, ConfigChanges, Grows
  <2>4. QED
    BY <2>1, <2>2, <2>3 DEF Next
<1>2. QED
  BY <1>1, EvidenceHolds, PTL DEF Spec, CaptureIsGated

=============================================================================
