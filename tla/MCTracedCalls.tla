---------------------------- MODULE MCTracedCalls ----------------------------
\* Small instances of TracedCalls: batches that repeat a name, and what else a
\* URL may be.
EXTENDS TracedCalls, TLC

CONSTANTS p, q

Url(segments) ==
  [parses |-> TRUE, batch |-> TRUE, underBase |-> TRUE, decodes |-> TRUE, segments |-> segments]

Ask(urls, calls) == [urls |-> urls, calls |-> calls]

MCRequests ==
  { Ask(<<Url(<<p, p, q>>)>>, <<p, p, q>>),
    Ask(<<Url(<<p, q, p>>)>>, <<p, q, p>>),
    Ask(<<Url(<<p, Empty, q>>), Url(<<q>>)>>, <<p, q>>),
    Ask(<<Url(<<p>>)>>, <<p, q>>),
    Ask(<<>>, <<p>>),
    Ask(<<[Url(<<p>>) EXCEPT !.parses = FALSE]>>, <<p>>),
    Ask(<<[Url(<<p>>) EXCEPT !.batch = FALSE]>>, <<p>>),
    Ask(<<[Url(<<p>>) EXCEPT !.underBase = FALSE]>>, <<p>>),
    Ask(<<[Url(<<p>>) EXCEPT !.decodes = FALSE]>>, <<p>>) }

Symmetry == Permutations(Call)
=============================================================================
