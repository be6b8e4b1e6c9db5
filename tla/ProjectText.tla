----------------------------- MODULE ProjectText -----------------------------
(***************************************************************************)
(* The edits the CLI makes to the text of a project's files                *)
(* (cli/scaffolder.ts, cli/uninit.ts, agent-detection/inject.ts).  They    *)
(* are regular-expression edits; a file is kept here as the pieces the     *)
(* expressions tell apart:                                                 *)
(*   - instrumentation.* and next.config.* are sets of pieces;             *)
(*   - .env.local is a sequence of lines;                                  *)
(*   - .gitignore is a set of lines;                                       *)
(*   - an MCP configuration has an entry of ours and the rest;             *)
(*   - an agent instruction file is a sequence of marker and text lines.   *)
(***************************************************************************)
EXTENDS Integers, Sequences, SequencesExt

CONSTANTS DevKey,      \* well-formed developer keys, gt_dev_...
          AnonKey      \* anonymous keys

ASSUME KeysAssumption == {"", "your_key_here", "none"} \cap (DevKey \cup AnonKey) = {}

-----------------------------------------------------------------------------
\* instrumentation.ts: "userCode" and "userStmt" are the user's, outside and
\* inside register(); "arrow" is a register() exported in another form than
\* `export function`; "import" and "sdkOther" are the specifiers imported from
\* the SDK; "call" is `registerGlasstrace()`, "callOpts" has an argument.

UserPieces == {"userCode", "userStmt", "arrow", "sdkOther"}

HasRegisterGlasstraceCall(f) == f \cap {"call", "callOpts"} # {}

InjectRegisterGlasstrace(f) == f \cup {"import", "call"}

AppendRegisterFunction(f) == f \cup {"import", "register", "call"}

\* Only ours: the import, and a register() of one statement.
IsInitCreatedInstrumentation(f) ==
  /\ {"register", "call"} \subseteq f
  /\ f \cap {"userCode", "userStmt", "arrow", "callOpts"} = {}

\* The expression matches calls without an argument, the import goes in any case.
RemoveRegisterGlasstrace(f) == f \ {"call", "import"}

MergedInstrumentation(f) ==
  IF "register" \in f THEN InjectRegisterGlasstrace(f) ELSE AppendRegisterFunction(f)

-----------------------------------------------------------------------------
\* next.config.*: "esmExport" is `export default`, "cjsExport" is
\* `module.exports =`.  findMatchingDelimiter() skips strings and comments, but
\* knows neither template expressions nor regular-expression literals: in an
\* expression that is "unclosed" it finds no closing parenthesis, in one that
\* is "misclosed" an earlier one than the wrapper's.

ExportOf(name) == IF name = "next.config.js" THEN "cjsExport" ELSE "esmExport"

\* The name is looked for, wherever it is.
MentionsWrapper(f) == f \cap {"wrap", "wrapImport"} # {}

WrapExport(f) == f \cup {"wrap", "wrapImport"}

CanUnwrapExport(name, f) == {"wrap", ExportOf(name)} \subseteq f /\ "unclosed" \notin f

\* The parenthesis that was found goes with the wrapper, and the rest becomes a
\* statement of its own: a misclosed expression is "broken" from then on.
WithEarlierParenthesis(f) == IF "misclosed" \in f THEN (f \ {"misclosed"}) \cup {"broken"} ELSE f

\* Mutant: the import stays.
UnwrapExport_KeepsImport(f) == WithEarlierParenthesis(f) \ {"wrap"}

UnwrapExport(f) == WithEarlierParenthesis(f) \ {"wrap", "wrapImport"}

-----------------------------------------------------------------------------
\* .env.local.  A key line is "strict" when it reads GLASSTRACE_API_KEY=...
\* from the first column, "loose" when there is white space about the name,
\* "comment" when it is commented out.

KeyLine(form, value) == [name |-> "key", form |-> form, value |-> value]
CoverageLine(form, value) == [name |-> "coverage", form |-> form, value |-> value]
UserLine == [name |-> "user", form |-> "strict", value |-> ""]

Placeholder == KeyLine("comment", "your_key_here")

EnvLine == [name : {"key", "coverage", "user"}, form : {"strict", "loose", "comment"},
            value : DevKey \cup {"", "your_key_here", "gt_dev_cut", "true", "false"}]

IsKeyLine(line) == line.name = "key"

Assigns(line) ==
  IsKeyLine(line) /\ line.form # "comment" /\ line.value \notin {"", "your_key_here"}

\* readEnvLocalApiKey(): the last assignment wins; "" when there is none.
ReadEnvLocalApiKey(env) ==
  LET at == {k \in DOMAIN env : Assigns(env[k])}
  IN IF at = {} THEN "" ELSE env[Max(at)].value

\* "gt_dev_cut" has the prefix of a developer key and fails the schema.
IsDevApiKey(value) == value \in DevKey \cup {"gt_dev_cut"}

WithPlaceholder(env) ==
  IF \E k \in DOMAIN env : IsKeyLine(env[k]) THEN env ELSE Append(env, Placeholder)

\* The expression has no #: a commented line does not count.  The first match
\* is replaced.
WithCoverageMap(env) ==
  LET set == {k \in DOMAIN env : env[k].name = "coverage" /\ env[k].form # "comment"}
  IN IF set = {} THEN Append(env, CoverageLine("strict", "true"))
     ELSE [env EXCEPT ![Min(set)].value = "true"]

\* filter(): the lines of these kinds, in their order.
LinesNamed(env, names) ==
  LET kept[k \in 0 .. Len(env)] ==
        IF k = 0 THEN <<>>
        ELSE IF env[k].name \in names THEN Append(kept[k - 1], env[k]) ELSE kept[k - 1]
  IN kept[Len(env)]

\* rollbackSteps() drops every key line.
WithoutKeyLines(env) == LinesNamed(env, {"coverage", "user"})

\* uninit drops the coverage lines too.
WithoutGlasstraceLines(env) == LinesNamed(env, {"user"})

\* writeClaimedKey() replaces the strict lines, else appends one.
WithClaimedKey(env, key) ==
  LET strict == {k \in DOMAIN env : IsKeyLine(env[k]) /\ env[k].form = "strict"}
  IN IF strict = {} THEN Append(env, KeyLine("strict", key))
     ELSE [k \in DOMAIN env |-> IF k \in strict THEN KeyLine("strict", key) ELSE env[k]]

-----------------------------------------------------------------------------
\* .gitignore: "mcp" stands for the four lines of the agents' configurations.

GitignoreEntries == {".glasstrace/", "mcp"}

-----------------------------------------------------------------------------
\* MCP configurations.  `entry` is the bearer of the glasstrace server, "env"
\* where Codex names an environment variable, "edited" when the user changed
\* it, "none"; `other` tells whether there is anything else; a file that is
\* not JSON is not `json`.

McpText == [json : BOOLEAN, other : BOOLEAN,
            entry : DevKey \cup AnonKey \cup {"", "none", "env", "edited"}]

McpConfig(bearer) == [json |-> TRUE, other |-> FALSE, entry |-> bearer]

\* generateMcpConfig(): the TOML of Codex holds no credential.
GenerateMcpConfig(agent, bearer) == McpConfig(IF agent = "codex" THEN "env" ELSE bearer)

McpConfigMatches(existing, expected) == existing = expected

\* prepareWindsurfMcpConfig(): only the entry is replaced.
PrepareWindsurf(existing, expected) == [existing EXCEPT !.entry = expected.entry]

\* processJsonMcpConfig(), processTomlMcpConfig(): what is left of the file.
HasEntry(config) == config.json /\ config.entry # "none"
WithoutEntry(config) == [config EXCEPT !.entry = "none"]

-----------------------------------------------------------------------------
\* Agent instruction files.  The start marker carries the version that wrote
\* it: none in the oldest releases.

StartMarkers == {"start", "start v=old", "start v=cur"}
InfoLine == StartMarkers \cup {"body", "end", "front", "text"}
Section == <<"start v=cur", "body", "end">>

\* findMarkerBoundaries(): the first end marker after a start marker, and the
\* last start marker before it; <<0, 0>> when there is none.
FindMarkerBoundaries(lines) ==
  LET starts == {k \in DOMAIN lines : lines[k] \in StartMarkers}
      ends == {k \in DOMAIN lines : lines[k] = "end" /\ \E j \in starts : j < k}
      end == Min(ends)
  IN IF ends = {} THEN <<0, 0>> ELSE <<Max({k \in starts : k < end}), end>>

HasManagedSection(lines) == FindMarkerBoundaries(lines) # <<0, 0>>

\* Mutant: the replaced section is taken from the first start marker on.
WithManagedSection_FirstStart(lines) ==
  LET starts == {k \in DOMAIN lines : lines[k] \in StartMarkers}
      b == FindMarkerBoundaries(lines)
  IN IF b = <<0, 0>> THEN lines \o Section
     ELSE SubSeq(lines, 1, Min(starts) - 1) \o Section
            \o SubSeq(lines, b[2] + 1, Len(lines))

\* Mutant: a section is added to whatever there is.
WithManagedSection_Appends(lines) == lines \o Section

WithManagedSection(lines) ==
  LET b == FindMarkerBoundaries(lines)
  IN IF b = <<0, 0>> THEN lines \o Section
     ELSE SubSeq(lines, 1, b[1] - 1) \o Section \o SubSeq(lines, b[2] + 1, Len(lines))

RemoveMarkerSection(lines) ==
  LET b == FindMarkerBoundaries(lines)
  IN SubSeq(lines, 1, b[1] - 1) \o SubSeq(lines, b[2] + 1, Len(lines))

\* Where the section of a new file needs front matter before it.
CreatedInfoFile(name) ==
  IF name = "glasstrace.mdc" THEN <<"front">> \o Section ELSE Section

\* status: both markers are there, in any order (cli/status.ts).
LooksManaged(lines) ==
  /\ \E k \in DOMAIN lines : lines[k] \in StartMarkers
  /\ \E k \in DOMAIN lines : lines[k] = "end"
=============================================================================
