--------------------------- MODULE RequestEvidence ---------------------------
(***************************************************************************)
(* The evidence one request leaves on spans while the configuration        *)
(* changes under it: queries through prismaAdapter()'s extension           *)
(* (adapters/prisma.ts) and the host's calls of recordSideEffect().        *)
(* A query is awaited, and so is every hash of an identifier; everything   *)
(* between two awaits runs to completion.                                  *)
(***************************************************************************)
EXTENDS CapturePolicy, SideEffect

CONSTANTS Operation,
          MaxRows,        \* MAX_RESULT_EVIDENCE_ROWS_PER_OPERATION
          MaxAttempts,    \* MAX_ROW_PROJECTION_ATTEMPTS
          MaxEntries,     \* bound: entries of a list
          QueriedLists,   \* bound: the lists whose adapters are queried
          RowResults,     \* what findMany returns: rows, or "inert"
          SingleResults,  \* what a single-record operation returns
          AggregateResults,
          Inputs,         \* what recordSideEffect() is called with
          MaxCalls,       \* bound: those calls
          Parts           \* bound: {"rows"}, {"aggregates"}, {"sideEffects"}

ASSUME SizesAssumption == {MaxRows, MaxAttempts, MaxEntries, MaxCalls} \subseteq Nat
ASSUME PartsAssumption == Parts \subseteq {"rows", "aggregates", "sideEffects"}
ASSUME ResultsAssumption == \A rows \in RowResults : rows \in Seq(Range(rows))
ASSUME InputsAssumption ==
  \A input \in Inputs :
    \A s \in {input.fields, input.relations, input.scalars} : s \in Seq(Range(s))

VARIABLES part,           \* which independent part goes on
          list,           \* the allowlist the adapter is built from
          op,             \* of each operation: its locals
          dbSpan,         \* of each operation: the span it owns
          hostSpan,       \* the host's span recordSideEffect() writes to
          calls,
          due             \* history: what the host's calls should have left on it

vars == <<config, part, list, op, dbSpan, hostSpan, calls, due>>

RowPolicy == CompileRowPolicy(list)
AggregatePolicy == CompileAggregatePolicy(list)

NoView == [on |-> FALSE, full |-> FALSE, rows |-> FALSE, aggregates |-> FALSE, key |-> 0]

\* getOperationConfigView(): one snapshot, its key included.
OperationConfigView == config

\* `awaited` is the scalar an identifier becomes if its hash succeeds.
NoScalar == [row |-> 0, column |-> <<>>, intent |-> "id", key |-> 0]
Unasked == [pc |-> "idle", view |-> NoView, columns |-> <<>>, result |-> <<>>, todo |-> {},
            attempts |-> 0, committed |-> {}, awaited |-> NoScalar]

NoDbSpan == [state |-> "none", evidence |-> [NewSpan EXCEPT !.recording = FALSE],
             family |-> 0, rows |-> <<>>, emittedRows |-> 0]

Queried == list \in QueriedLists
At(o, pc) == op[o].pc = pc /\ part # "sideEffects" /\ UNCHANGED <<part, list, hostSpan, calls, due>>
Goto(o, pc) == op' = [op EXCEPT ![o].pc = pc]

\* openOwnedSpan(); the API may throw, and the query runs untouched.
OpenOwnedSpan(o) == dbSpan' = [dbSpan EXCEPT ![o].state = "open", ![o].evidence.recording = TRUE]

\* `finally { span.end() }`
EndSpan(s) == [s EXCEPT !.state = "ended", !.evidence.recording = FALSE]
Done(o) == Goto(o, "done") /\ dbSpan' = [dbSpan EXCEPT ![o] = EndSpan(@)]
RunBare(o) == Goto(o, "done") /\ UNCHANGED dbSpan

-----------------------------------------------------------------------------
\* findMany

\* Admission under one view: the switch, the capability, a recording request
\* span, and an identifier only under full fidelity.
RowsAreWanted(columns, view) ==
  /\ view.on /\ view.rows
  /\ view.full \/ \E c \in Range(columns) : c.intent # "id"

BeginFindMany(o, model) ==
  /\ At(o, "idle") /\ part = "rows" /\ Queried
  /\ LET columns == Admits(RowPolicy, model) view == OperationConfigView
     IN \/ /\ columns # <<>> /\ RowsAreWanted(columns, view)
           /\ op' = [op EXCEPT ![o] = [@ EXCEPT !.pc = "querying", !.view = view, !.columns = columns]]
           /\ OpenOwnedSpan(o)
        \/ RunBare(o)
  /\ UNCHANGED config

\* The candidates of a result: what is an own data property of a selected row,
\* identifiers under full fidelity only.
Selected(result) == SubSeq(result, 1, Min({Len(result), MaxRows}))

Present(columns, rows) ==
  {p \in (DOMAIN columns) \X (DOMAIN rows) : rows[p[2]][columns[p[1]].column] # "absent"}

CandidatesOf(o, rows) ==
  {p \in Present(op[o].columns, rows) : op[o].view.full \/ op[o].columns[p[1]].intent # "id"}

\* The query returns rows, or something inert, or throws.
FindManyReturns(o) ==
  /\ At(o, "querying") /\ part = "rows"
  /\ \/ Done(o)
     \/ \E rows \in RowResults :
          /\ op' = [op EXCEPT ![o] = [@ EXCEPT !.pc = "projecting", !.result = rows,
                                               !.todo = CandidatesOf(o, Selected(rows))]]
          /\ UNCHANGED dbSpan
  /\ UNCHANGED config

\* Mutant: the identifier is hashed with the key of the moment.
IdKey_Live(o) == config.key

\* view.readAttrHmacKey()
IdKey(o) == op[o].view.key

\* The candidate whose turn it is: column by column, in each row by row.
NextCandidate(o) ==
  {p \in op[o].todo : \A q \in op[o].todo : p[1] < q[1] \/ (p[1] = q[1] /\ p[2] <= q[2])}

MorePrepares(o) ==
  /\ op[o].todo # {}
  /\ Cardinality(op[o].committed) < MaxScalars /\ op[o].attempts < MaxAttempts

Attempted(o, p) == [op[o] EXCEPT !.todo = @ \ {p}, !.attempts = @ + 1]

ColumnOf(o, p) == op[o].columns[p[1]]

Scalar(o, p, key) ==
  [row |-> p[2], column |-> ColumnOf(o, p).column, intent |-> ColumnOf(o, p).intent, key |-> key]

ViewOmission(o, reason) == dbSpan' = [dbSpan EXCEPT ![o].evidence = RecordOmission(@, reason)]

\* One attempt of projectBoundedRows(): a value is prepared, refused, or it is
\* an identifier and its hash is awaited.
PrepareRowScalar(o) ==
  /\ At(o, "projecting") /\ part = "rows" /\ MorePrepares(o)
  /\ \E p \in NextCandidate(o) :
       LET value == op[o].result[p[2]][ColumnOf(o, p).column]
           isId == ColumnOf(o, p).intent = "id"
       IN \/ /\ ~ isId /\ value = "good"
             /\ op' = [op EXCEPT ![o] = [Attempted(o, p) EXCEPT !.committed = @ \cup {Scalar(o, p, 0)}]]
             /\ UNCHANGED dbSpan
          \/ /\ ~ isId /\ value # "good"
             /\ op' = [op EXCEPT ![o] = Attempted(o, p)]
             /\ ViewOmission(o, "raw_payload")
          \/ /\ isId /\ (value = "bad" \/ IdKey(o) = 0)
             /\ op' = [op EXCEPT ![o] = Attempted(o, p)]
             /\ ViewOmission(o, "unhashed_id")
          \/ /\ isId /\ value # "bad" /\ IdKey(o) # 0
             /\ op' = [op EXCEPT ![o] = [Attempted(o, p) EXCEPT !.pc = "hashing",
                                            !.awaited = Scalar(o, p, IdKey(o))]]
             /\ UNCHANGED dbSpan
  /\ UNCHANGED config

\* hashIdWeb(): a token, or null.
RowHashed(o) ==
  /\ At(o, "hashing") /\ part = "rows"
  /\ \/ /\ op' = [op EXCEPT ![o] = [op[o] EXCEPT !.pc = "projecting",
                                              !.committed = @ \cup {op[o].awaited}]]
        /\ UNCHANGED dbSpan
     \/ Goto(o, "projecting") /\ ViewOmission(o, "unhashed_id")
  /\ UNCHANGED config

\* Mutant: the metadata counts candidates as emitted.
RowMetadata_CountsCandidates(o) ==
  [r \in DOMAIN Selected(op[o].result) |->
     LET present == {p \in Present(op[o].columns, Selected(op[o].result)) : p[2] = r}
     IN [candidates |-> Cardinality(present), emitted |-> Cardinality(present)]]

\* Candidates and emitted scalars of each selected row.
RowMetadata(o) ==
  [r \in DOMAIN Selected(op[o].result) |->
     [candidates |-> Cardinality({p \in Present(op[o].columns, Selected(op[o].result)) : p[2] = r}),
      emitted |-> Cardinality({s \in op[o].committed : s.row = r})]]

\* The end of projectBoundedRows() and of the operation: nothing without a
\* scalar; else the bundle, then its marker, and either call may throw.
BundleRows(o) ==
  /\ At(o, "projecting") /\ part = "rows" /\ ~ MorePrepares(o)
  /\ LET metadata == RowMetadata(o)
         bundled == [dbSpan[o] EXCEPT
           !.evidence.scalars = op[o].committed, !.rows = metadata,
           !.emittedRows = Cardinality({r \in DOMAIN metadata : metadata[r].emitted > 0})]
     IN \E written \in {dbSpan[o]} \cup
             IF op[o].committed = {} THEN {} ELSE {bundled, [bundled EXCEPT !.family = 3]} :
          dbSpan' = [dbSpan EXCEPT ![o] = EndSpan(written)]
  /\ Goto(o, "done")
  /\ UNCHANGED config

-----------------------------------------------------------------------------
\* count and aggregate

BeginAggregate(o, name) ==
  /\ At(o, "idle") /\ part = "aggregates" /\ Queried
  /\ LET selectors == Admits(AggregatePolicy, name) view == OperationConfigView
     IN \/ /\ selectors # <<>> /\ view.on /\ view.aggregates
           /\ op' = [op EXCEPT ![o] = [@ EXCEPT !.pc = "querying", !.view = view, !.columns = selectors]]
           /\ OpenOwnedSpan(o)
        \/ RunBare(o)
  /\ UNCHANGED config

\* admitAggregateValue() of a present value.
AdmitAggregateValue(value) ==
  CASE value = "number" -> Accepted
    [] value = "notFinite" -> "non_finite"
    [] value = "epoch" -> "raw_timestamp"
    [] OTHER -> "raw_payload"

\* projectAggregateResult(), all of it in one step; either call on the span may throw.
AggregateReturns(o) ==
  /\ At(o, "querying") /\ part = "aggregates"
  /\ \/ Done(o)
     \/ \E result \in AggregateResults :
          LET columns == op[o].columns
              present == {i \in DOMAIN columns : result[columns[i].selector] # "absent"}
              verdicts == [i \in present |-> AdmitAggregateValue(result[columns[i].selector])]
              good == {i \in present : verdicts[i] = Accepted}
              counted == [dbSpan[o] EXCEPT !.evidence = Omissions(@, verdicts)]
              bundled == [counted EXCEPT !.evidence.scalars = {columns[i] : i \in good}]
          IN /\ \E written \in {counted} \cup
                  IF good = {} THEN {} ELSE {bundled, [bundled EXCEPT !.family = 2]} :
                  dbSpan' = [dbSpan EXCEPT ![o] = EndSpan(written)]
             /\ Goto(o, "done")
  /\ UNCHANGED config

-----------------------------------------------------------------------------
\* Single-record operations, which read the configuration as it is by then

\* An identifier-only model opens no span unless fidelity is full.
BeginSingle(o, model) ==
  /\ At(o, "idle") /\ part = "rows" /\ Queried
  /\ LET columns == LegacyColumns(list, model)
     IN \/ /\ columns # {} /\ IsCaptureEnabled
           /\ EagerModel(list, model) \/ config.full
           /\ op' = [op EXCEPT ![o] = [@ EXCEPT !.pc = "asking", !.todo = columns]]
           /\ OpenOwnedSpan(o)
        \/ RunBare(o)
  /\ UNCHANGED config

\* A record, or null, or an error.
SingleReturns(o) ==
  /\ At(o, "asking")
  /\ \/ Done(o)
     \/ \E row \in SingleResults :
          /\ op' = [op EXCEPT ![o] = [op[o] EXCEPT !.pc = "capturing", !.result = <<row>>,
               !.todo = {c \in @ : row[c.column] # "absent"}]]
          /\ UNCHANGED dbSpan
  /\ UNCHANGED config

Onto(o, evidence) == dbSpan' = [dbSpan EXCEPT ![o].evidence = evidence]
Captured(o, column, key) ==
  [row |-> 1, column |-> column.column, intent |-> column.intent, key |-> key]

ValueOf(o, column) == op[o].result[1][column.column]

\* Mutant: a raw value that has the form of a hash is captured.
OmitIdentifier_Captures(o, column) ==
  IF ValueOf(o, column) = "hashLike"
  THEN Capture(dbSpan[o].evidence, "id", "hash", Captured(o, column, 0))
  ELSE CaptureOmission(dbSpan[o].evidence, "unhashed_id")

\* The raw value never goes through capture(), whatever it looks like.
OmitIdentifier(o, column) == CaptureOmission(dbSpan[o].evidence, "unhashed_id")

Projected(o, column) == [op[o] EXCEPT !.todo = @ \ {column}]

\* projectAllowlisted(): a column that is no identifier.  The columns come in
\* any order.
CaptureColumn(o) ==
  /\ At(o, "capturing")
  /\ \E column \in op[o].todo :
       /\ column.intent # "id"
       /\ Onto(o, Capture(dbSpan[o].evidence, column.intent,
                          IF ValueOf(o, column) = "good" THEN "boolean" ELSE "object",
                          Captured(o, column, 0)))
       /\ op' = [op EXCEPT ![o] = Projected(o, column)]
  /\ UNCHANGED config

\* projectIdentifier(): suppressed, a counted omission, or a hash to wait for;
\* it is awaited in any case.
ProjectIdentifier(o) ==
  /\ At(o, "capturing")
  /\ \E column \in op[o].todo :
       /\ column.intent = "id"
       /\ \/ /\ ~ config.full
             /\ op' = [op EXCEPT ![o] = [Projected(o, column) EXCEPT !.pc = "yielding"]]
             /\ UNCHANGED dbSpan
          \/ /\ config.full /\ (config.key = 0 \/ ValueOf(o, column) = "bad")
             /\ op' = [op EXCEPT ![o] = [Projected(o, column) EXCEPT !.pc = "yielding"]]
             /\ Onto(o, OmitIdentifier(o, column))
          \/ /\ config.full /\ config.key # 0 /\ ValueOf(o, column) # "bad"
             /\ op' = [op EXCEPT ![o] = [Projected(o, column) EXCEPT
                          !.pc = "idHashing", !.awaited = Captured(o, column, config.key)]]
             /\ UNCHANGED dbSpan
  /\ UNCHANGED config

IdentifierHashed(o) ==
  /\ At(o, "idHashing")
  /\ \/ Onto(o, Capture(dbSpan[o].evidence, "id", "hash", op[o].awaited))
     \/ Onto(o, OmitIdentifier(o, op[o].awaited))
  /\ Goto(o, "yielding")
  /\ UNCHANGED config

Resumes(o) == At(o, "yielding") /\ Goto(o, "capturing") /\ UNCHANGED <<config, dbSpan>>

SingleEnds(o) == At(o, "capturing") /\ op[o].todo = {} /\ Done(o) /\ UNCHANGED config

-----------------------------------------------------------------------------

\* prismaAdapter() is built from a list, entry by entry.
AddEntry ==
  /\ Len(list) < MaxEntries
  /\ \A o \in Operation : op[o].pc = "idle"
  /\ part # "sideEffects" /\ \E e \in Entries(part) : list' = Append(list, e)
  /\ UNCHANGED <<config, part, op, dbSpan, hostSpan, calls, due>>

\* An operation that has begun to project runs on to its next await.
MayRun(o) == \A other \in Operation \ {o} : op[other].pc \notin {"projecting", "capturing"}

\* A refresh of the configuration, or a key rotation.
ConfigChanges ==
  /\ \A o \in Operation : op[o].pc \notin {"projecting", "capturing"}
  /\ part = "sideEffects" \/ Queried
  /\ config' \in Configs
  /\ UNCHANGED <<part, list, op, dbSpan, hostSpan, calls, due>>

\* Only calls on a recording span while capture is on are heard at all.
Heard == config.on /\ hostSpan.recording

Admitted(input) ==
  Heard /\ input.kindKnown /\ CheckText(input.label) = Accepted /\ due.operations < MaxOperations

DueAfterOperation(input) ==
  [operations |-> due.operations + (IF Admitted(input) THEN 1 ELSE 0),
   latest |-> IF Admitted(input) THEN calls + 1 ELSE due.latest,
   captured |-> due.captured,
   refused |-> due.refused + (IF Heard /\ input.kindKnown THEN RefusalsDue(input, due.operations) ELSE 0)]

DueAfterCapture(suffix, value) ==
  LET fits == CheckScalarField(suffix, value) = Accepted /\ due.captured < MaxScalars
  IN [due EXCEPT !.captured = @ + (IF Heard /\ fits THEN 1 ELSE 0),
                 !.refused = @ + (IF Heard /\ ~ fits THEN 1 ELSE 0)]

CallRecordSideEffect ==
  /\ part = "sideEffects" /\ calls < MaxCalls
  /\ \E input \in Inputs :
       /\ hostSpan' = RecordSideEffect(hostSpan, input, calls + 1)
       /\ due' = DueAfterOperation(input)
  /\ calls' = calls + 1
  /\ UNCHANGED <<config, part, list, op, dbSpan>>

\* The host captures a scalar of its own on the same span.
CallCapture ==
  /\ part = "sideEffects" /\ calls < MaxCalls
  /\ \E suffix \in {"flag", "id", "ms"}, value \in {"boolean", "hash", "epoch"} :
       /\ hostSpan' = Capture(hostSpan, suffix, value, [suffix |-> suffix, value |-> value])
       /\ due' = DueAfterCapture(suffix, value)
  /\ calls' = calls + 1
  /\ UNCHANGED <<config, part, list, op, dbSpan>>

HostSpanEnds ==
  /\ part = "sideEffects" /\ hostSpan.recording
  /\ hostSpan' = [hostSpan EXCEPT !.recording = FALSE]
  /\ UNCHANGED <<config, part, list, op, dbSpan, calls, due>>

Init ==
  /\ config \in Configs
  /\ part \in Parts
  /\ list = <<>>
  /\ op = [o \in Operation |-> Unasked]
  /\ dbSpan = [o \in Operation |-> NoDbSpan]
  /\ hostSpan = NewSpan
  /\ calls = 0
  /\ due = [operations |-> 0, latest |-> 0, captured |-> 0, refused |-> 0]

Queries(o) ==
  \/ \E model \in BucketNames("rows") : BeginFindMany(o, model) \/ BeginSingle(o, model)
  \/ \E name \in BucketNames("aggregates") : BeginAggregate(o, name)

Projects(o) ==
  \/ FindManyReturns(o) \/ PrepareRowScalar(o) \/ RowHashed(o) \/ BundleRows(o)
  \/ AggregateReturns(o)
  \/ SingleReturns(o) \/ CaptureColumn(o) \/ ProjectIdentifier(o)
  \/ IdentifierHashed(o) \/ Resumes(o) \/ SingleEnds(o)

Next ==
  \/ \E o \in Operation : MayRun(o) /\ (Queries(o) \/ Projects(o))
  \/ AddEntry \/ ConfigChanges \/ CallRecordSideEffect \/ CallCapture \/ HostSpanEnds

Spec == Init /\ [][Next]_vars

-----------------------------------------------------------------------------
\* Properties

\* Whatever order the entries of a list come in, the compiled policy admits
\* what the list says and nothing it says twice in different ways: an unsafe
\* entry voids the whole of it, a contradiction its model or bucket.
PoliciesDenyByDefault ==
  /\ part = "rows" => \A model \in BucketNames("rows") :
       Range(Admits(RowPolicy, model)) = RowsAdmitted(list, model)
  /\ part = "aggregates" => \A name \in BucketNames("aggregates") :
       Range(Admits(AggregatePolicy, name)) = AggregatesAdmitted(list, name)

\* Every identifier on an owned span is a hash under a provisioned key; those
\* of a bundle of rows under the one key of the configuration that admitted the
\* operation, however often the key was rotated while it ran.
IdentifiersAreKeyed ==
  \A o \in Operation : \A s \in dbSpan[o].evidence.scalars :
    part = "rows" /\ s.intent = "id" =>
      /\ s.key # 0
      /\ dbSpan[o].family = 3 => s.key = op[o].view.key /\ op[o].view.full

\* A bundle of rows with its marker adds up: what its metadata says of each row
\* is what is there, within the caps, and some row has something.
BundlesAddUp ==
  \A o \in Operation : dbSpan[o].family = 3 =>
    LET rows == dbSpan[o].rows scalars == dbSpan[o].evidence.scalars
    IN /\ Len(rows) <= MaxRows /\ Cardinality(scalars) \in 1 .. MaxScalars
       /\ \A r \in DOMAIN rows :
            /\ rows[r].emitted = Cardinality({s \in scalars : s.row = r})
            /\ rows[r].emitted <= rows[r].candidates
       /\ dbSpan[o].emittedRows = Cardinality({s.row : s \in scalars})

\* What a query leaves on its span is hashed and adds up.
EvidenceSound == IdentifiersAreKeyed /\ BundlesAddUp

\* Nothing is added to a span while capture is off, unless the operation was
\* admitted under a view in which it was on; and nothing once it has ended.
Grows(before, after) == before.scalars # after.scalars \/ before.omitted # after.omitted

CaptureIsGated ==
  [][/\ Grows(hostSpan, hostSpan') => config.on /\ hostSpan.recording
     /\ \A o \in Operation :
          Grows(dbSpan[o].evidence, dbSpan[o].evidence')
            => dbSpan[o].state = "open" /\ (config.on \/ op[o].view.on)]_vars

\* What the host's span tells is exact, through refusals, budgets, mixed
\* uses of both calls and changes of the switch: its counters hold an omission
\* for each thing that was refused of a call that was heard, and no other; its
\* label is that of the latest operation admitted; and the budgets hold.  This
\* does not say that nothing is lost: an admitted operation is overwritten by the
\* next, and a call that is not heard or of an unknown kind leaves no trace.
CountersExact ==
  /\ TotalOmitted(hostSpan) = due.refused
  /\ hostSpan.label = due.latest
  /\ hostSpan.operations = due.operations /\ due.operations <= MaxOperations
  /\ hostSpan.reserved = due.captured /\ due.captured <= MaxScalars
=============================================================================
