------------------------------ MODULE SideEffect ------------------------------
(***************************************************************************)
(* What the SDK puts on a span on behalf of the host (side-effect/):       *)
(* operations with their fields, relations and scalars, single captured    *)
(* scalars, and a counter for everything it refused.  Budgets are kept per *)
(* span.  The configuration may change between any two calls.              *)
(***************************************************************************)
EXTENDS Naturals, Sequences, FiniteSetsExt

CONSTANTS MaxOperations,  \* MAX_SIDE_EFFECT_OPERATIONS_PER_SPAN
          MaxScalars,     \* MAX_SIDE_EFFECT_SCALARS_PER_OPERATION
          Configs         \* the configurations that may be in force

ASSUME BudgetAssumption == {MaxOperations, MaxScalars} \subseteq Nat \ {0}
ASSUME ConfigsAssumption ==
  \A c \in Configs : {c.on, c.full, c.rows, c.aggregates} \subseteq BOOLEAN /\ c.key \in Nat

VARIABLE config        \* what getActiveConfig() and getAttrHmacKey() give

Reasons == {"pii", "secret", "raw_payload", "unsupported_key", "value_too_long", "raw_timestamp",
            "unhashed_id", "non_finite", "scalar_cap_exceeded"}

\* isCaptureEnabled()
IsCaptureEnabled == config.on

Accepted == "accepted"

\* detectUnsafePattern(): the first pattern that matches decides.
UnsafeReason(value) ==
  CASE value \in {"padded", "prose", "url"} -> "raw_payload"
    [] value = "credential" -> "secret"
    [] value = "email" -> "pii"
    [] OTHER -> Accepted

\* checkOperationLabel() and checkSemanticFieldValue(): text that is too long,
\* unsafe, or not a token (of the kind its key asks for).
CheckText(value) ==
  CASE value = "notText" -> "raw_payload"
    [] value = "long" -> "value_too_long"
    [] UnsafeReason(value) # Accepted -> UnsafeReason(value)
    [] value = "token" -> Accepted
    [] OTHER -> "raw_payload"

\* checkScalarField() in the strict mode of all its callers; the suffix of the
\* key says what its value must be.
CheckScalarField(suffix, value) ==
  CASE suffix = "other" -> "unsupported_key"
    [] value = "date" -> "raw_timestamp"
    [] suffix = "id" -> IF value = "hash" THEN Accepted ELSE "unhashed_id"
    [] suffix = "flag" -> IF value = "boolean" THEN Accepted ELSE "raw_payload"
    [] value \notin {"number", "epoch", "notFinite"} -> "raw_payload"
    [] value = "notFinite" -> "non_finite"
    [] suffix = "ms" /\ value = "epoch" -> "raw_timestamp"
    [] OTHER -> Accepted

-----------------------------------------------------------------------------
\* The state of a span: the WeakMap entry and the attributes it has

NewSpan == [recording |-> TRUE, operations |-> 0, reserved |-> 0,
            omitted |-> [r \in Reasons |-> 0], scalars |-> {}, label |-> 0, status |-> 0]

TotalOmitted(span) ==
  LET n == span.omitted
  IN n["pii"] + n["secret"] + n["raw_payload"] + n["unsupported_key"] + n["value_too_long"]
       + n["raw_timestamp"] + n["unhashed_id"] + n["non_finite"] + n["scalar_cap_exceeded"]

\* recordOmission()
RecordOmission(span, reason) == [span EXCEPT !.omitted[reason] = @ + 1]

OmitIf(refused, span, reason) == IF refused THEN RecordOmission(span, reason) ELSE span

\* attachScalar()
AttachScalar(span, scalar) == [span EXCEPT !.scalars = @ \cup {scalar}]

\* Mutant: capture() does not ask for the master switch.
Capture_Ungated(span, suffix, value, scalar) ==
  IF ~ span.recording THEN span
  ELSE IF CheckScalarField(suffix, value) # Accepted
  THEN RecordOmission(span, CheckScalarField(suffix, value))
  ELSE IF span.reserved >= MaxScalars THEN RecordOmission(span, "scalar_cap_exceeded")
  ELSE AttachScalar([span EXCEPT !.reserved = @ + 1], scalar)

\* capture(): the switch, the span, the value, a slot.
Capture(span, suffix, value, scalar) ==
  IF ~ IsCaptureEnabled \/ ~ span.recording THEN span
  ELSE IF CheckScalarField(suffix, value) # Accepted
  THEN RecordOmission(span, CheckScalarField(suffix, value))
  ELSE IF span.reserved >= MaxScalars THEN RecordOmission(span, "scalar_cap_exceeded")
  ELSE AttachScalar([span EXCEPT !.reserved = @ + 1], scalar)

\* captureOmission()
CaptureOmission(span, reason) ==
  IF ~ IsCaptureEnabled \/ ~ span.recording THEN span ELSE RecordOmission(span, reason)

-----------------------------------------------------------------------------
\* recordSideEffect()

\* Mutant: an operation over the budget is dropped without a word.
AttachOperation_Silent(span, input, id) ==
  [ok |-> span.operations < MaxOperations,
   span |-> IF span.operations >= MaxOperations THEN span
            ELSE [span EXCEPT !.operations = @ + 1, !.label = id,
                              !.status = IF input.status = "ok" THEN id ELSE @]]

\* attachOperation(): setAttribute() replaces the label of the operation before,
\* and its status only if there is a new one.
AttachOperation(span, input, id) ==
  [ok |-> span.operations < MaxOperations,
   span |-> IF span.operations >= MaxOperations THEN RecordOmission(span, "value_too_long")
            ELSE [span EXCEPT !.operations = @ + 1, !.label = id,
                              !.status = IF input.status = "ok" THEN id ELSE @]]

\* recordOmission() for each that was refused.
Omissions(span, verdicts) ==
  [span EXCEPT !.omitted = [r \in Reasons |->
     @[r] + Cardinality({i \in DOMAIN verdicts : verdicts[i] = r})]]

\* Fields: a key that is not allowed, then a value that is not.
FieldVerdict(f) == IF ~ f.known THEN "unsupported_key" ELSE CheckText(f.value)

\* Relations: none of a key a field has taken, of the form `...Holds`, true or
\* false.
RelationVerdict(r, taken) ==
  IF r.key \in taken \/ ~ r.known THEN "unsupported_key"
  ELSE IF r.value # "boolean" THEN "raw_payload" ELSE Accepted

\* A call's scalars: refused ones use up the cap of the call, not of the span;
\* the first beyond it is counted for all that follow.
ScalarVerdicts(scalars) ==
  [i \in 1 .. Min({Len(scalars), MaxScalars + 1}) |->
     IF i > MaxScalars THEN "scalar_cap_exceeded"
     ELSE CheckScalarField(scalars[i].suffix, scalars[i].value)]

Verdicts(input) ==
  LET fields == [i \in DOMAIN input.fields |-> FieldVerdict(input.fields[i])]
      taken == {input.fields[i].key : i \in {j \in DOMAIN fields : fields[j] = Accepted}}
  IN fields
       \o [i \in DOMAIN input.relations |-> RelationVerdict(input.relations[i], taken)]
       \o ScalarVerdicts(input.scalars)

\* runRecordSideEffect() on the span that was given or is active.
RecordSideEffect(span, input, id) ==
  IF ~ IsCaptureEnabled \/ ~ input.kindKnown \/ ~ span.recording THEN span
  ELSE LET labelled == CheckText(input.label)
           checked == OmitIf(input.phase = "bad", OmitIf(input.status = "bad", span, "unsupported_key"),
                             "unsupported_key")
           attached == AttachOperation(checked, input, id)
           scalars == {input.scalars[i] : i \in {j \in 1 .. Min({Len(input.scalars), MaxScalars}) :
                         CheckScalarField(input.scalars[j].suffix, input.scalars[j].value) = Accepted}}
       IN IF labelled # Accepted THEN RecordOmission(span, labelled)
          ELSE IF ~ attached.ok THEN attached.span
          ELSE [Omissions(attached.span, Verdicts(input)) EXCEPT !.scalars = @ \cup scalars]

-----------------------------------------------------------------------------
\* What a span is due, from the calls alone

\* The omissions of a call on a span that has taken `admitted' operations: one
\* for a label that is refused; else one for each of status, phase, field,
\* relation and scalar that is, or for an operation too many in place of its
\* fields, relations and scalars.
RefusalsDue(input, admitted) ==
  IF CheckText(input.label) # Accepted THEN 1
  ELSE Cardinality({name \in {"status", "phase"} : input[name] = "bad"})
         + IF admitted >= MaxOperations THEN 1
           ELSE Cardinality({i \in DOMAIN Verdicts(input) : Verdicts(input)[i] # Accepted})
=============================================================================
