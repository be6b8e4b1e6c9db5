---------------------------- MODULE MCLocalState ----------------------------
\* Small instances of LocalState: two answers, one with everything this
\* version must not keep and one without.
EXTENDS LocalState, TLC

MCResponses ==
  {[rev |-> 1, full |-> TRUE, keyed |-> TRUE, envelope |-> "unread"],
   [rev |-> 2, full |-> FALSE, keyed |-> FALSE, envelope |-> "read"]}

Symmetry == Permutations(AnonKey)
=============================================================================
