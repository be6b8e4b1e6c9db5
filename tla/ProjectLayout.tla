---------------------------- MODULE ProjectLayout ----------------------------
(***************************************************************************)
(* What the CLI looks at in a project: which directory is the Next.js app  *)
(* (cli/monorepo.ts), where its instrumentation file goes                  *)
(* (cli/scaffolder.ts), which coding agents are set up and where           *)
(* (agent-detection/detect.ts), which files each of them reads             *)
(* (agent-detection/inject-all-targets.ts), and which credential MCP       *)
(* configurations carry (mcp-runtime.ts).                                  *)
(*                                                                         *)
(* A directory is a function from the names of its files to their contents *)
(* (ProjectText.tla); `.glasstrace/` is the part of it named below.        *)
(***************************************************************************)
EXTENDS ProjectText, FiniteSets, Functions

CONSTANTS Agent        \* the agents of AGENT_RULES in the model

ASSUME AgentAssumption ==
  Agent \subseteq {"claude", "codex", "gemini", "cursor", "windsurf"}

Dir == {"app", "repo", "home"}

Has(dir, name) == name \in DOMAIN dir
With(dir, name, text) ==
  [n \in DOMAIN dir \cup {name} |-> IF n = name THEN text ELSE dir[n]]
Without(dir, names) == Restrict(dir, DOMAIN dir \ names)

\* A file whose last line goes is deleted.
WithOrWithout(dir, name, text, empty) ==
  IF empty THEN Without(dir, {name}) ELSE With(dir, name, text)

GlasstraceFiles == {"anon_key", "claimed-key", "mcp.json", "mcp-connected", "shutdown-requested"}
NextConfigs == <<"next.config.ts", "next.config.js">>
Configs == {"next.config.ts", "next.config.js"}
RootInstrumentation == <<"instrumentation.ts", "instrumentation.js">>
SrcInstrumentation == <<"src/instrumentation.ts", "src/instrumentation.js">>
Instrumentation == {"instrumentation.ts", "instrumentation.js",
                    "src/instrumentation.ts", "src/instrumentation.js"}
InfoFiles == {"AGENTS.md", "CLAUDE.md", "GEMINI.md", "glasstrace.mdc", "glasstrace.md",
              ".cursorrules", "codex.md", ".windsurfrules"}

McpFiles == {".mcp.json", ".codex/config.toml", ".gemini/settings.json", ".cursor/mcp.json",
             "mcp_config.json", "mcp.json"}

\* The texts that are more than a set, and the keys.
TypedFiles(dir) ==
  /\ Has(dir, ".env.local") => dir[".env.local"] \in Seq(EnvLine)
  /\ \A n \in McpFiles \cap DOMAIN dir : dir[n] \in McpText
  /\ Has(dir, "anon_key") => dir["anon_key"] \in AnonKey
  /\ Has(dir, "claimed-key") => dir["claimed-key"] \in DevKey
  /\ \A n \in InfoFiles \cap DOMAIN dir : dir[n] \in Seq(InfoLine)

FirstOf(dir, names) == SelectInSeq(names, LAMBDA n : Has(dir, n))

-----------------------------------------------------------------------------
\* cli/monorepo.ts.  The repository has one Next.js app or several; "single"
\* has no workspaces.  An empty result is a thrown error.

ResolveProjectRoot(site, cwd) ==
  IF cwd = "app" THEN {"app"}
  ELSE IF site.apps = 1 THEN {"app"} ELSE {}

-----------------------------------------------------------------------------
\* cli/scaffolder.ts

\* resolveInstrumentationTarget(): <<>> when both layouts hold a file.
InstrumentationTarget(site, dir) ==
  LET root == FirstOf(dir, RootInstrumentation)
      src == FirstOf(dir, SrcInstrumentation)
  IN CASE root # 0 /\ src # 0 -> <<>>
       [] src # 0 -> <<SrcInstrumentation[src]>>
       [] root # 0 -> <<RootInstrumentation[root]>>
       [] OTHER -> <<IF site.srcDir THEN "src/instrumentation.ts" ELSE "instrumentation.ts">>

-----------------------------------------------------------------------------
\* agent-detection/detect.ts.  `site.at[a]` are the directories with a marker
\* of agent a (`.claude`, `.cursor`, ...).

McpFileOf(agent) ==
  CASE agent = "claude" -> ".mcp.json"
    [] agent = "codex" -> ".codex/config.toml"
    [] agent = "gemini" -> ".gemini/settings.json"
    [] agent = "cursor" -> ".cursor/mcp.json"
    [] agent = "windsurf" -> "mcp_config.json"
    [] agent = "generic" -> "mcp.json"

\* The directory itself, then its parents up to the repository's root.
SearchDirs(dir) == IF dir = "app" THEN <<"app", "repo">> ELSE <<dir>>

FoundDir(site, root, agent) ==
  LET dirs == SearchDirs(root)
      at == SelectInSeq(dirs, LAMBDA d : agent = "generic" \/ d \in site.at[agent])
  IN IF at = 0 THEN "none" ELSE dirs[at]

DetectedAgents(site, root) == {a \in Agent : FoundDir(site, root, a) # "none"}

\* The configuration of Windsurf is the user's, in the home directory.
McpDir(site, root, agent) ==
  IF agent = "windsurf" THEN "home" ELSE FoundDir(site, root, agent)

\* computeTargets(): AGENTS.md goes along with every agent.
TargetsOf(agent) ==
  {"AGENTS.md"} \cup
  (CASE agent = "claude" -> {"CLAUDE.md"}
     [] agent = "gemini" -> {"GEMINI.md"}
     [] agent = "cursor" -> {"glasstrace.mdc", ".cursorrules"}
     [] agent = "windsurf" -> {"glasstrace.md"}
     [] OTHER -> {})

\* The files of these agents, each where its agent was found.
Targets(site, root, agents) == UNION {{FoundDir(site, root, a)} \X TargetsOf(a) : a \in agents}

\* injectAllTargets(): the marked section of each target, replaced, appended,
\* or in a new file.
InjectAllTargets(fs, targets) ==
  [d \in Dir |->
     LET names == {n \in InfoFiles : <<d, n>> \in targets}
     IN [n \in DOMAIN fs[d] \cup names |->
           CASE n \notin names -> fs[d][n]
             [] n \in names /\ Has(fs[d], n) -> WithManagedSection(fs[d][n])
             [] n \in names /\ ~ Has(fs[d], n) -> CreatedInfoFile(n)]]

\* Where upgrade-instructions finds that an agent was opted in before.
OptInFiles(agent) ==
  CASE agent = "claude" -> {"CLAUDE.md"}
    [] agent = "gemini" -> {"GEMINI.md"}
    [] agent = "codex" -> {"AGENTS.md", "codex.md"}
    [] agent = "cursor" -> {"glasstrace.mdc", ".cursorrules"}
    [] agent = "windsurf" -> {"glasstrace.md", ".windsurfrules"}
    [] agent = "generic" -> {"AGENTS.md"}

OptedIn(site, fs, root) ==
  {a \in DetectedAgents(site, root) \cup {"generic"} :
     LET dir == fs[FoundDir(site, root, a)]
     IN \E n \in OptInFiles(a) : Has(dir, n) /\ HasManagedSection(dir[n])}

-----------------------------------------------------------------------------
\* mcp-runtime.ts: the key in .env.local when it is well formed, the claimed
\* key, the anonymous key, or none.

EnvKey(dir) == IF Has(dir, ".env.local") THEN ReadEnvLocalApiKey(dir[".env.local"]) ELSE ""

NoCredential == [source |-> "none", key |-> ""]

\* Mutant: the key is not checked against the schema.
EffectiveCredential_Unchecked(dir) ==
  IF EnvKey(dir) # "" THEN [source |-> "env-local", key |-> EnvKey(dir)]
  ELSE IF Has(dir, "claimed-key") THEN [source |-> "claimed-key", key |-> dir["claimed-key"]]
  ELSE IF Has(dir, "anon_key") THEN [source |-> "anon", key |-> dir["anon_key"]]
  ELSE NoCredential

EffectiveCredential(dir) ==
  CASE EnvKey(dir) \in DevKey -> [source |-> "env-local", key |-> EnvKey(dir)]
    [] EnvKey(dir) \notin DevKey /\ Has(dir, "claimed-key") ->
         [source |-> "claimed-key", key |-> dir["claimed-key"]]
    [] EnvKey(dir) \notin DevKey /\ ~ Has(dir, "claimed-key") /\ Has(dir, "anon_key") ->
         [source |-> "anon", key |-> dir["anon_key"]]
    [] OTHER -> NoCredential

\* The marker holds a fingerprint of the key: equal when the keys are.
MarkerMatches(dir, credential) ==
  Has(dir, "mcp-connected") /\ dir["mcp-connected"].key = credential.key

\* refreshGenericMcpConfigAtRuntime(): only the configuration that init wrote
\* for the anonymous key is replaced; then the marker is stamped.
RefreshesGeneric(dir, credential) ==
  /\ credential.source \in {"env-local", "claimed-key"}
  /\ Has(dir, "anon_key") /\ Has(dir, "mcp.json")
  /\ McpConfigMatches(dir["mcp.json"], McpConfig(dir["anon_key"]))
=============================================================================
