------------------------------ MODULE TrpcBatch ------------------------------
(***************************************************************************)
(* One HTTP request to a tRPC server: wrapBatchedHttpHandler() reads the   *)
(* members of a batch off the URL, tRPC calls the procedures concurrently, *)
(* and each tracedMiddleware() around a procedure gives its span the index *)
(* of the member it takes itself to be (trpc/ of the SDK).  The envelope   *)
(* lives in an AsyncLocalStorage: another request has its own.             *)
(*                                                                         *)
(* Indices count from 1 here.                                              *)
(***************************************************************************)
EXTENDS Naturals, Sequences, SequencesExt, FiniteSets

CONSTANTS Empty,       \* an empty name between two commas
          Requests,    \* what may be asked
          MaxLayers    \* bound: traced middlewares on one procedure

\* A request has URLs, in the order extractRequestUrl() looks at them, and the
\* calls tRPC makes of it.
ASSUME RequestsAssumption ==
  \A r \in Requests :
    /\ Len(r.urls) <= 5 /\ r.calls \in Seq(Range(r.calls))
    /\ \A i \in DOMAIN r.urls : r.urls[i].segments \in Seq(Range(r.urls[i].segments))

VARIABLES request,
          layers,      \* how many traced middlewares each procedure has
          envelope,    \* the batch: members' names and nameCounters
          warned,      \* _malformedUrlWarned
          chain,       \* of each call: how deep it is, and whether it returns
          spans,       \* of each call and layer
          mismatches,  \* spans reported by otel:trpc_batch_member_mismatch
          entered      \* history: the calls in the order they reached layer 1

trpcVars == <<request, layers, envelope, warned, chain, spans, mismatches, entered>>

NoBatch == [names |-> <<>>, seen |-> [n \in {} |-> 0]]
InBatch == envelope.names # <<>>

Calls == DOMAIN request.calls
Layer == 1 .. layers

\* What a loop over s pushes that keeps these elements of it.
Filtered(s, kept) ==
  LET upTo[i \in 0 .. Len(s)] ==
        IF i = 0 THEN <<>> ELSE IF s[i] \in kept THEN Append(upTo[i - 1], s[i]) ELSE upTo[i - 1]
  IN upTo[Len(s)]

Positions(names, n) == Filtered([i \in DOMAIN names |-> i], {i \in DOMAIN names : names[i] = n})

\* buildEnvelope()
BuildEnvelope(names) == [names |-> names, seen |-> [n \in Range(names) |-> 0]]

\* parseBatchUrl(): not a URL, no `batch` parameter, another path, not to be
\* decoded, no names; empty names are left out.
Malformed(url) == ~ url.parses \/ (url.batch /\ url.underBase /\ ~ url.decodes)

ParseBatchUrl(url) ==
  LET names == Filtered(url.segments, Range(url.segments) \ {Empty})
  IN IF url.parses /\ url.batch /\ url.underBase /\ url.decodes /\ names # <<>>
     THEN BuildEnvelope(names)
     ELSE NoBatch

\* Of each member of a batch tRPC makes one call; a procedure that is not in
\* the batch may be called beside them.
ASSUME MembersAssumption ==
  \A r \in Requests : \A i \in DOMAIN r.urls \cap {1} :
    LET names == ParseBatchUrl(r.urls[i]).names
    IN \A n \in Range(names) : Len(Positions(r.calls, n)) <= Len(Positions(names, n))

\* extractRequestUrl(): the first URL counts, also when it is no good.
ExtractRequestUrl == {request.urls[i] : i \in DOMAIN request.urls \cap {1}}

\* The request has not reached the handler yet.
Unread == [names |-> <<Empty>>, seen |-> [n \in {} |-> 0]]
Arrived == envelope = Unread

WrapBatchedHttpHandler ==
  /\ Arrived
  /\ \/ ExtractRequestUrl = {} /\ envelope' = NoBatch /\ UNCHANGED warned
     \/ \E url \in ExtractRequestUrl :
          /\ envelope' = ParseBatchUrl(url)
          /\ warned' = (warned \/ Malformed(url))
  /\ UNCHANGED <<request, layers, chain, spans, mismatches, entered>>

NoSpan == [state |-> "none", index |-> 0, error |-> FALSE]
Started == [NoSpan EXCEPT !.state = "open"]

\* Mutant: the position is looked up by name alone.
ResolveBatchMember_ByName(name) ==
  IF name \notin DOMAIN envelope.seen THEN 0
  ELSE Head(Positions(envelope.names, name))

\* resolveBatchMember(): the next position of the name, or 0.
ResolveBatchMember(name) ==
  IF name \notin DOMAIN envelope.seen THEN 0
  ELSE LET at == Positions(envelope.names, name) n == envelope.seen[name] + 1
       IN IF n > Len(at) THEN 0 ELSE at[n]

\* tracedMiddleware(), up to the call of the middleware it wraps.
Enter(c) ==
  LET name == request.calls[c]
      layer == chain[c].depth + 1
      index == ResolveBatchMember(name)
  IN /\ ~ Arrived /\ ~ chain[c].returns /\ layer \in Layer
     /\ chain' = [chain EXCEPT ![c].depth = layer]
     /\ spans' = [spans EXCEPT ![c][layer] = [Started EXCEPT !.index = index]]
     /\ envelope' = IF index = 0 THEN envelope ELSE [envelope EXCEPT !.seen[name] = @ + 1]
     /\ mismatches' = IF InBatch /\ index = 0 THEN mismatches \cup {<<c, layer>>} ELSE mismatches
     /\ entered' = IF layer = 1 THEN Append(entered, c) ELSE entered
     /\ UNCHANGED <<request, layers, warned>>

\* The innermost middleware returns, returns `ok: false`, or throws, with or
\* without having called the next one; its span ends.
Return(c) ==
  /\ chain[c].depth > 0
  /\ chain' = [chain EXCEPT ![c] = [depth |-> @.depth - 1, returns |-> TRUE]]
  /\ \E error \in BOOLEAN :
       spans' = [spans EXCEPT ![c][chain[c].depth] = [@ EXCEPT !.state = "ended", !.error = error]]
  /\ UNCHANGED <<request, layers, envelope, warned, mismatches, entered>>

TrpcInit ==
  /\ request \in Requests
  /\ layers \in 1 .. MaxLayers
  /\ envelope = Unread
  /\ warned = FALSE
  /\ chain = [c \in Calls |-> [depth |-> 0, returns |-> FALSE]]
  /\ spans = [c \in Calls |-> [l \in Layer |-> NoSpan]]
  /\ mismatches = {}
  /\ entered = <<>>

TrpcNext == WrapBatchedHttpHandler \/ \E c \in Calls : Enter(c) \/ Return(c)

-----------------------------------------------------------------------------
\* Properties

\* The how-manieth of its name the member at i is.
Rank(names, i) == Cardinality({j \in 1 .. i : names[j] = names[i]})

\* Whether the member of the batch at i is call c.
IsMember(c, i) ==
  /\ i \in DOMAIN envelope.names /\ envelope.names[i] = request.calls[c]
  /\ Rank(envelope.names, i) = Rank(request.calls, c)

Labelled == {s \in {<<c, l>> : c \in Calls, l \in Layer} : spans[s[1]][s[2]].index # 0}

\* A call has arrived only after the earlier calls of its name.
ArrivedInOrder ==
  \A j \in DOMAIN entered, c \in Calls :
    c < entered[j] /\ request.calls[c] = request.calls[entered[j]]
      => \E i \in 1 .. j - 1 : entered[i] = c

\* With one traced middleware per procedure, and calls of one procedure that
\* reach it in the order of the batch, every span has the index of its own
\* member and none is reported as a mismatch: "maps the N-th invocation to the
\* N-th positional occurrence", through any interleaving of different names.
IndexOwnInOrder ==
  layers = 1 /\ ArrivedInOrder =>
    /\ \A s \in Labelled : IsMember(s[1], spans[s[1]][s[2]].index)
    /\ \A s \in mismatches : request.calls[s[1]] \notin Range(envelope.names)

\* What the source claims whatever the number of middlewares: the span has
\* "its positional batch-member index", repeated names included.
IndexIsOwn == ArrivedInOrder => \A s \in Labelled : IsMember(s[1], spans[s[1]][s[2]].index)
=============================================================================
