-------------------------- MODULE MCRequestEvidence --------------------------
\* Small instances of RequestEvidence: two models, a plain column and two
\* identifiers; results with absent, good and bad values.
EXTENDS RequestEvidence, TLC

Entry(model, column, intent) ==
  [shape |-> "data", model |-> model, column |-> column, intent |-> intent, named |-> TRUE, legacy |-> TRUE]

A == <<"a">>
AFlag == <<"a", "flag">>
B == <<"b">>
C == <<"c">>

MCRowEntries ==
  { Entry("m", A, "flag"), Entry("m", A, "id"), Entry("m", AFlag, "flag"), Entry("m", B, "id"),
    Entry("m", C, "id"), Entry("m", B, "nonsense"),
    [Entry("m", A, "flag") EXCEPT !.named = FALSE],
    [Entry("m", A, "flag") EXCEPT !.shape = "notAnObject"],
    [Entry("m", A, "flag") EXCEPT !.shape = "unsafe"],
    Entry("n", B, "id") }

Selector(operation, selector, key) ==
  [shape |-> "data", model |-> "m", operation |-> operation, selector |-> selector, key |-> key, valid |-> TRUE]

MCAggregateEntries ==
  { Selector("count", "s", 1), Selector("count", "s", 2), Selector("count", "t", 2),
    Selector("count", "u", 3), Selector("aggregate", "s", 1),
    [Selector("count", "s", 1) EXCEPT !.valid = FALSE],
    [Selector("count", "s", 1) EXCEPT !.shape = "nameless"],
    [Selector("count", "s", 1) EXCEPT !.shape = "unsafe"] }

MCQueriedLists ==
  { <<Entry("m", A, "flag"), Entry("m", B, "id"), Entry("m", C, "id")>>,
    <<Entry("m", A, "flag"), Entry("m", A, "id")>>,
    <<Entry("n", B, "id")>>,
    <<Selector("count", "s", 1), Selector("count", "t", 2)>> }

Columns == {A, AFlag, B, C}
Row(a, b, c) == [x \in Columns |-> CASE x = A -> a [] x = B -> b [] x = C -> c [] OTHER -> "absent"]

MCRowResults ==
  { <<>>,
    <<Row("good", "good", "good"), Row("bad", "good", "absent"), Row("good", "good", "good")>>,
    <<Row("absent", "bad", "good"), Row("good", "absent", "good")>> }

MCSingleResults ==
  { Row("good", "good", "good"), Row("bad", "hashLike", "bad"), Row("absent", "bad", "good") }

MCAggregateResults ==
  [{"s", "t", "u"} -> {"absent", "number", "text", "epoch"}]

Config(on, full, evidence, key) ==
  [on |-> on, full |-> full, rows |-> evidence, aggregates |-> evidence, key |-> key]

MCConfigs ==
  { Config(FALSE, FALSE, FALSE, 0), Config(TRUE, FALSE, TRUE, 0), Config(TRUE, TRUE, TRUE, 1),
    Config(TRUE, TRUE, TRUE, 2), Config(TRUE, TRUE, FALSE, 0) }

Input(label, status, fields, relations, scalars) ==
  [kindKnown |-> TRUE, label |-> label, status |-> status, phase |-> "none",
   fields |-> fields, relations |-> relations, scalars |-> scalars]

Flag(value) == [suffix |-> "flag", value |-> value]

MCInputs ==
  { Input("token", "ok", <<>>, <<>>, <<>>),
    Input("email", "ok", <<>>, <<>>, <<>>),
    Input("token", "bad",
          <<[key |-> "k", known |-> TRUE, value |-> "token"], [key |-> "l", known |-> FALSE, value |-> "token"]>>,
          <<[key |-> "k", known |-> TRUE, value |-> "boolean"], [key |-> "h", known |-> TRUE, value |-> "text"]>>,
          <<>>),
    Input("token", "none", <<[key |-> "k", known |-> TRUE, value |-> "credential"]>>, <<>>,
          <<Flag("text"), Flag("boolean"), [suffix |-> "ms", value |-> "epoch"]>>),
    [Input("token", "none", <<>>, <<>>, <<>>) EXCEPT !.kindKnown = FALSE, !.phase = "bad"] }
=============================================================================
