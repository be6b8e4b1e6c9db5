--------------------------- MODULE ProjectReports ---------------------------
(***************************************************************************)
(* What the CLI and the SDK say about a project without changing it:       *)
(* `status` (cli/status.ts), `validate` (cli/validate.ts) and the notice   *)
(* of stale instruction files at registration                              *)
(* (agent-detection/upgrade-notice.ts).                                    *)
(***************************************************************************)
EXTENDS ProjectLayout

GlasstraceDirExists(dir) == DOMAIN dir \cap GlasstraceFiles # {}

-----------------------------------------------------------------------------
\* cli/status.ts, apart from the runtime state file.

StatusMcpFiles == {".mcp.json", ".cursor/mcp.json", ".gemini/settings.json", "mcp.json",
                   ".codex/config.toml"}

RunStatus(dir) ==
  [initialized |-> GlasstraceDirExists(dir),
   instrumentation |->
     \E n \in DOMAIN dir \cap Instrumentation :
       dir[n] \cap {"import", "call", "callOpts"} # {},
   configWrapped |->
     \E n \in DOMAIN dir \cap ToSet(NextConfigs) : dir[n] \cap {"wrap", "wrapImport"} # {},
   anonKey |-> Has(dir, "anon_key"),
   mcpConfigured |-> \E n \in DOMAIN dir \cap StatusMcpFiles : HasEntry(dir[n]),
   agents |-> {n \in DOMAIN dir \cap InfoFiles : LooksManaged(dir[n])}]

-----------------------------------------------------------------------------
\* cli/validate.ts looks at the directory itself and at instrumentation.ts
\* only; an MCP configuration counts when the file is there.

HasGlasstraceImport(f) == f \cap {"import", "sdkOther"} # {}
HasRegisterGlasstraceImport(f) == "import" \in f

ValidationIssues(dir) ==
  LET text == IF Has(dir, "instrumentation.ts") THEN dir["instrumentation.ts"] ELSE {}
      marker == Has(dir, "mcp-connected")
      configs == DOMAIN dir \cap StatusMcpFiles # {}
      effective == EffectiveCredential(dir)
      holds ==
        [dirWithoutImport |-> GlasstraceDirExists(dir) /\ ~ HasRegisterGlasstraceImport(text),
         importWithoutDir |-> ~ GlasstraceDirExists(dir) /\ HasGlasstraceImport(text),
         markerWithoutConfigs |-> marker /\ ~ configs,
         configsWithoutMarker |-> ~ marker /\ configs,
         staleCredential |-> marker /\ effective # NoCredential /\ ~ MarkerMatches(dir, effective)]
  IN {issue \in DOMAIN holds : holds[issue]}

-----------------------------------------------------------------------------
\* agent-detection/upgrade-notice.ts.  A version is <<major, minor, patch>>
\* and its prerelease identifiers, each <<0, n>> for a number and <<1, n>> for
\* a word (the n-th in lexical order).

Numbers(numbers) == [k \in DOMAIN numbers |-> <<0, numbers[k]>>]
Version(numbers, prerelease) == [numbers |-> Numbers(numbers), prerelease |-> prerelease]

Before(x, y) == x[1] < y[1] \/ (x[1] = y[1] /\ x[2] < y[2])

\* The first difference decides; a proper prefix comes first.
Precedes(s, t) ==
  \E k \in DOMAIN t :
    /\ \A j \in 1 .. k - 1 : j \in DOMAIN s /\ s[j] = t[j]
    /\ k \in DOMAIN s => Before(s[k], t[k])

\* compareSemver() < 0: a release comes after its prereleases.
OlderThan(a, b) ==
  \/ Precedes(a.numbers, b.numbers)
  \/ /\ a.numbers = b.numbers
     /\ a.prerelease # <<>>
     /\ b.prerelease = <<>> \/ Precedes(a.prerelease, b.prerelease)

RunningVersion == Version(<<1, 12, 0>>, <<>>)
StampOf(line) ==
  CASE line = "start v=old" -> <<Version(<<1, 10, 3>>, <<>>)>>
    [] line = "start v=cur" -> <<RunningVersion>>
    [] OTHER -> <<>>

\* inspectFile(): the last start marker before the first end marker.
InspectFile(lines) ==
  LET b == FindMarkerBoundaries(lines)
      stamp == StampOf(lines[b[1]])
  IN IF b = <<0, 0>> THEN "no-section"
     ELSE IF stamp = <<>> THEN "no-stamp"
     ELSE IF OlderThan(stamp[1], RunningVersion) THEN "stale" ELSE "current"

\* maybeWarnStaleAgentInstructions() names these.
StaleFiles(dir) == {n \in InfoFiles \cap DOMAIN dir : InspectFile(dir[n]) = "stale"}
=============================================================================
