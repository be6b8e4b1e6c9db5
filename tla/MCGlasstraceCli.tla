--------------------------- MODULE MCGlasstraceCli ---------------------------
(***************************************************************************)
(* A handful of repositories, chosen for what the commands find in them.   *)
(***************************************************************************)
EXTENDS GlasstraceCli, TLC

NoAgents == [a \in Agent |-> {}]
Site(at, srcDir) ==
  [apps |-> 1, cwds |-> {"app"}, srcDir |-> srcDir, staticRoot |-> "public",
   native |-> {}, at |-> at]
AgentAt(agent, dirs) == [NoAgents EXCEPT ![agent] = dirs]

Files(app, repo, home) == [d \in Dir |-> CASE d = "app" -> app [] d = "repo" -> repo [] OTHER -> home]
Nothing == [n \in {} |-> {}]

Fresh == "next.config.ts" :> {"user", "esmExport"}

\* An app with code, settings and instructions of its own.
Lived == ("next.config.js" :> {"user", "cjsExport"})
      @@ ("instrumentation.ts" :> {"register", "userCode", "userStmt"})
      @@ (".env.local" :> <<UserLine, CoverageLine("comment", "true")>>)
      @@ (".gitignore" :> {"user"})
      @@ ("CLAUDE.md" :> <<"text", "start", "text">>)
      @@ (".mcp.json" :> [json |-> TRUE, other |-> TRUE, entry |-> "none"])

\* The register() of the documentation, and nothing in it yet.
Skeleton == ("next.config.ts" :> {"user", "esmExport", "misclosed"})
         @@ ("instrumentation.ts" :> {"register"})
         @@ (".env.local" :> <<KeyLine("loose", "gt_dev_cut")>>)
         @@ (".gitignore" :> {})

\* An earlier version, with a developer key.
Upgraded(key) == ("next.config.ts" :> {"user", "esmExport", "unclosed", "wrap", "wrapImport"})
         @@ ("instrumentation.js" :> {"register", "import", "callOpts", "userCode"})
         @@ (".env.local" :> <<KeyLine("strict", "dev1"), UserLine>>)
         @@ (".gitignore" :> {"user", ".glasstrace/", "mcp"})
         @@ ("anon_key" :> key) @@ ("mcp-connected" :> [source |-> "anon", key |-> key])
         @@ ("mcp.json" :> McpConfig(key))
         @@ ("codex.md" :> <<"text", "start v=old", "body", "end", "text">>)
         @@ ("AGENTS.md" :> <<"start", "text", "start", "body", "end">>)
         @@ ("public" :> [ours |-> TRUE, key |-> key, extras |-> TRUE])

Both == Fresh @@ ("instrumentation.ts" :> {"userCode"})
              @@ ("src/instrumentation.ts" :> {"register"})

WindsurfHome == "mcp_config.json" :> [json |-> TRUE, other |-> TRUE, entry |-> "edited"]

Project(s, app, repo, home) == [site |-> s, files |-> Files(app, repo, home)]

InOneDirectory ==
  { Project(Site(AgentAt("claude", {"app"}), FALSE), Lived, Nothing, Nothing),
    Project([Site(AgentAt("cursor", {"app"}), TRUE) EXCEPT !.staticRoot = "static"], Fresh, Nothing, Nothing),
    Project(Site(AgentAt("windsurf", {"app"}), FALSE), Skeleton, Nothing, WindsurfHome),
    Project(Site(NoAgents, TRUE), Both, Nothing, Nothing) }
  \cup
  { Project([Site(AgentAt("codex", {"app"}), FALSE) EXCEPT !.native = {"codex"}],
            Upgraded(key), Nothing, Nothing) : key \in AnonKey }

InMonorepo ==
  { Project([Site(AgentAt("claude", {"repo"}), FALSE) EXCEPT !.cwds = {"app", "repo"}],
            Fresh, "CLAUDE.md" :> <<"text">>, Nothing),
    Project([Site(AgentAt("gemini", {"repo"}), FALSE) EXCEPT !.cwds = {"repo"}, !.apps = 2],
            Fresh, ".gitignore" :> {"user"}, Nothing) }

AnOption == {{}, {"yes", "coverage"}, {"yes", "ci"}}

\* A claimed project with an agent, and one whose sources are under src/.
Claimed == {Project(Site(AgentAt("claude", {"app"}), FALSE), Fresh, Nothing, Nothing)}
SrcLayout == {Project(Site(NoAgents, TRUE), Fresh, Nothing, Nothing)}
JustYes == {{"yes"}}

AllProjects == InOneDirectory \cup InMonorepo

\* A key is drawn at random: which one it is tells nothing.
KeySymmetry == Permutations(AnonKey)
=============================================================================
