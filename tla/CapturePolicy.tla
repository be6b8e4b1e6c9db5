---------------------------- MODULE CapturePolicy ----------------------------
(***************************************************************************)
(* What prismaAdapter() makes of its two allowlists when it is built       *)
(* (adapters/prisma.ts): the bounded-row policy and the older single-record*)
(* policy out of `allow`, the aggregate policy out of `aggregateAllow`.    *)
(* The lists come from untyped code, so an entry may be unsafe to look at. *)
(*                                                                         *)
(* A column is a sequence, a name and the suffixes it ends in.             *)
(***************************************************************************)
EXTENDS Naturals, Sequences, SequencesExt, FiniteSets

CONSTANTS MaxPositions,  \* MAX_ROW_, MAX_AGGREGATE_POLICY_RAW_POSITIONS
          MaxSelectors,  \* MAX_AGGREGATE_SELECTORS_PER_BUCKET
          RowEntries,    \* entries of `allow`
          AggregateEntries

\* "unsafe": a hole, an accessor, something inherited, a throwing proxy.
Shapes == {"data", "unsafe", "notAnObject", "nameless"}

ASSUME EntriesAssumption ==
  /\ \A e \in RowEntries :
       e.shape \in Shapes /\ {e.named, e.legacy} \subseteq BOOLEAN /\ e.column \in Seq(Range(e.column))
  /\ \A e \in AggregateEntries : e.shape \in Shapes /\ e.valid \in BOOLEAN
  /\ {MaxPositions, MaxSelectors} \subseteq Nat

\* INTENT_SUFFIX; any other intent is out of contract.
Intents == {"flag", "value", "amount", "ms", "bytes", "ratio", "id"}

\* deriveScalarKey(): the suffix of the intent, not doubled.
DeriveScalarKey(column, intent) ==
  IF Last(column) = intent THEN column ELSE Append(column, intent)

\* The two compiled policies go by these names; a bucket is a model, or a model
\* and an operation.
Entries(kind) == IF kind = "rows" THEN RowEntries ELSE AggregateEntries
BucketName(kind, e) == IF kind = "rows" THEN e.model ELSE <<e.model, e.operation>>
BucketNames(kind) == {BucketName(kind, e) : e \in Entries(kind)}

\* Slot and members of an entry are counted against the budget as they are read.
Members(kind) == IF kind = "rows" THEN 3 ELSE 5
Positions(kind, e) == IF e.shape = "notAnObject" THEN 1 ELSE 1 + Members(kind)

Fresh == [invalid |-> FALSE, chosen |-> <<>>]
Invalid(bucket) == [bucket EXCEPT !.invalid = TRUE]

\* Mutant: the keys of two columns are not compared.
RowBucket_KeysMayCollide(bucket, e) ==
  LET chosen == Range(bucket.chosen)
  IN IF ~ e.named \/ e.intent \notin Intents THEN Invalid(bucket)
     ELSE IF \E c \in chosen : c.column = e.column
     THEN IF \E c \in chosen : c.column = e.column /\ c.intent = e.intent THEN bucket ELSE Invalid(bucket)
     ELSE [bucket EXCEPT !.chosen = Append(@, [column |-> e.column, intent |-> e.intent])]

\* A column of a model: an entry out of contract voids the model, the same
\* column again is dropped, with another intent or another's key it voids.
RowBucket(bucket, e) ==
  LET chosen == Range(bucket.chosen)
      same == {c \in chosen : c.column = e.column}
      key == DeriveScalarKey(e.column, e.intent)
  IN IF ~ e.named \/ e.intent \notin Intents THEN Invalid(bucket)
     ELSE IF same # {}
     THEN IF \A c \in same : c.intent = e.intent THEN bucket ELSE Invalid(bucket)
     ELSE IF \E c \in chosen : DeriveScalarKey(c.column, c.intent) = key THEN Invalid(bucket)
     ELSE [bucket EXCEPT !.chosen = Append(@, [column |-> e.column, intent |-> e.intent])]

\* A selector of a model and operation: an entry out of contract is dropped.
AggregateBucket(bucket, e) ==
  LET chosen == Range(bucket.chosen)
      same == {c \in chosen : c.selector = e.selector}
  IN IF ~ e.valid THEN bucket
     ELSE IF same # {}
     THEN IF \A c \in same : c.key = e.key THEN bucket ELSE Invalid(bucket)
     ELSE IF \/ \E c \in chosen : c.key = e.key
             \/ Len(bucket.chosen) >= MaxSelectors
     THEN Invalid(bucket)
     ELSE [bucket EXCEPT !.chosen = Append(@, [selector |-> e.selector, key |-> e.key])]

NoPolicy == [void |-> TRUE, used |-> 0, bucket |-> <<>>]
Compiling(kind) == [void |-> FALSE, used |-> 0, bucket |-> [n \in BucketNames(kind) |-> Fresh]]

\* What one entry does to the policy that is being compiled.
ReadEntry(kind, policy, e) ==
  LET used == policy.used + Positions(kind, e)
      name == BucketName(kind, e)
      bucket == policy.bucket[name]
  IN IF policy.void \/ used > MaxPositions \/ e.shape = "unsafe" THEN NoPolicy
     ELSE IF e.shape # "data" \/ bucket.invalid THEN [policy EXCEPT !.used = used]
     ELSE [policy EXCEPT !.used = used, !.bucket[name] =
             IF kind = "rows" THEN RowBucket(bucket, e) ELSE AggregateBucket(bucket, e)]

\* The loop over the entries, which both have.
Compile(kind, allow) ==
  LET policy[n \in 0 .. Len(allow)] ==
        IF n = 0 THEN Compiling(kind) ELSE ReadEntry(kind, policy[n - 1], allow[n])
  IN policy[Len(allow)]

\* compileRowPolicy(), compileAggregatePolicy()
CompileRowPolicy(allow) == Compile("rows", allow)
CompileAggregatePolicy(allow) == Compile("aggregates", allow)

\* What a policy admits; an empty sequence is no admission.
Admits(policy, name) ==
  IF policy.void \/ policy.bucket[name].invalid THEN <<>> ELSE policy.bucket[name].chosen

\* The single-record policy: entries out of contract are dropped, the last
\* intent of a column counts; unsafe entries are looked at all the same.
LegacyPositions(allow, model) ==
  {i \in DOMAIN allow : allow[i].model = model /\ allow[i].legacy /\ allow[i].intent \in Intents}

LegacyColumns(allow, model) ==
  LET positions == LegacyPositions(allow, model)
      last == {i \in positions : \A j \in positions : allow[j].column = allow[i].column => j <= i}
  IN {[column |-> allow[i].column, intent |-> allow[i].intent] : i \in last}

\* eagerModels: an intent that a later entry replaced counts too.
EagerModel(allow, model) == \E i \in LegacyPositions(allow, model) : allow[i].intent # "id"

-----------------------------------------------------------------------------
\* What the policies should be, whatever the order of the entries

Void(kind, allow) ==
  \/ \E e \in Range(allow) : e.shape = "unsafe"
  \/ Len(allow) + Members(kind) * Cardinality({i \in DOMAIN allow : allow[i].shape # "notAnObject"})
       > MaxPositions

SaidOf(kind, allow, name) == {e \in Range(allow) : e.shape = "data" /\ BucketName(kind, e) = name}

\* A model is admitted when all that is said of it is in contract and columns
\* and keys are one to one.
RowsAgree(said) ==
  /\ \A e \in said : e.named /\ e.intent \in Intents
  /\ \A e, f \in said :
       e.column = f.column <=> DeriveScalarKey(e.column, e.intent) = DeriveScalarKey(f.column, f.intent)

RowColumns(said) == {[column |-> e.column, intent |-> e.intent] : e \in said}

RowsAdmitted(allow, model) ==
  LET said == SaidOf("rows", allow, model)
  IN IF Void("rows", allow) \/ ~ RowsAgree(said) THEN {} ELSE RowColumns(said)

\* A bucket of aggregates is admitted when what is valid of it fits and its
\* selectors and keys are one to one.
Selectors(said) == {[selector |-> e.selector, key |-> e.key] : e \in {f \in said : f.valid}}

SelectorsAgree(selectors) ==
  /\ \A s, t \in selectors : s.selector = t.selector <=> s.key = t.key
  /\ Cardinality(selectors) <= MaxSelectors

AggregatesAdmitted(allow, name) ==
  LET selectors == Selectors(SaidOf("aggregates", allow, name))
  IN IF Void("aggregates", allow) \/ ~ SelectorsAgree(selectors) THEN {} ELSE selectors
=============================================================================
