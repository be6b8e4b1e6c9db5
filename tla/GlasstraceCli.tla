---------------------------- MODULE GlasstraceCli ----------------------------
(***************************************************************************)
(* The commands of the CLI on the files of one repository: init            *)
(* (cli/init.ts), uninit (cli/uninit.ts), mcp add (cli/mcp-add.ts) and     *)
(* upgrade-instructions, next to a running SDK that claims an account and  *)
(* watches for the shutdown marker, and to a user who edits a file.        *)
(*                                                                         *)
(* An action is one step of a command: what it does between two awaits, or *)
(* one try block.  A step may fail to write, a command may be killed       *)
(* between two steps.  Only the status lines the commands print are left   *)
(* out.                                                                    *)
(***************************************************************************)
EXTENDS ProjectReports

CONSTANTS Projects,      \* pairs of a site and the files in it at the start
          ClaimedKey,    \* the key the server hands out with a claim
          InitOptions,   \* the sets of options init is run with
          MaxCommands,   \* bound: commands run
          MaxFaults,     \* bound: writes that fail and commands that are killed
          MaxClaims      \* bound: accounts claimed by the running SDK

\* An end marker behind a start marker closes a section that is ours alone.
SectionsWhole(lines) ==
  \A j, k \in DOMAIN lines :
    lines[j] \in StartMarkers /\ lines[k] = "end" /\ j < k =>
      k > 2 /\ lines[k - 1] = "body" /\ lines[k - 2] \in StartMarkers

\* Commands are run in the app or at the root of the repository.
Sites == {"app", "repo"}
Layout == [apps : Nat, cwds : SUBSET Sites, srcDir : BOOLEAN, staticRoot : {"public", "static"},
           native : SUBSET Agent, at : [Agent -> SUBSET Dir]]

ASSUME ProjectsAssumption ==
  \A p \in Projects :
    /\ p.site \in Layout
    /\ p.files = [d \in Dir |-> p.files[d]]
    /\ \A d \in Dir :
         /\ TypedFiles(p.files[d])
         /\ \A n \in InfoFiles : Has(p.files[d], n) => SectionsWhole(p.files[d][n])

ASSUME ClaimAssumption == ClaimedKey \in DevKey

VARIABLES site,          \* the layout of the repository, fixed
          fs,            \* the files of each directory
          cmd,           \* the running command: its options and its locals
          sdk,           \* the SDK in the app's server
          budget,        \* commands, faults and claims so far
          original,      \* history: the files at the start
          before         \* history: the files when the command started

vars == <<site, fs, cmd, sdk, budget, original, before>>

Idle == [name |-> "none", pc |-> "idle", root |-> "app", yes |-> FALSE, force |-> FALSE,
         ci |-> FALSE, coverage |-> FALSE, target |-> "", saved |-> FALSE,
         undo |-> {}, todo |-> {}, ready |-> {}, wrote |-> FALSE,
         credential |-> NoCredential, discoveryFailed |-> FALSE, errors |-> FALSE,
         consent |-> FALSE, held |-> <<>>, env |-> <<>>, exit |-> "none"]

Here == fs[cmd.root]
Put(name, text) == [fs EXCEPT ![cmd.root] = With(@, name, text)]

At(command, pc) == cmd.name = command /\ cmd.pc = pc

\* A write may fail while there is a fault left.
MayFail == budget.faults < MaxFaults
Fails == MayFail /\ budget' = [budget EXCEPT !.faults = @ + 1]

Continue(pc) == cmd' = [cmd EXCEPT !.pc = pc]
Finish(exit) == cmd' = [cmd EXCEPT !.pc = "idle", !.exit = exit]

Start(command, options) ==
  /\ cmd.pc = "idle"
  /\ budget.commands < MaxCommands
  /\ budget' = [budget EXCEPT !.commands = @ + 1]
  /\ \E cwd \in site.cwds : \E root \in command.roots[cwd] :
       cmd' = [options EXCEPT !.name = command.name, !.pc = command.pc, !.root = root]
  /\ before' = fs
  /\ UNCHANGED <<site, fs, sdk, original>>

\* The commands that take the current directory as it is.
AsIs == [cwd \in Dir |-> {cwd}]
Resolved == [cwd \in Dir |-> ResolveProjectRoot(site, cwd)]

-----------------------------------------------------------------------------
\* init: the four scaffolding steps, undone when one of them fails

StartInit ==
  \E given \in InitOptions :
    Start([name |-> "init", pc |-> "instrumentation", roots |-> Resolved],
          [Idle EXCEPT !.yes = "yes" \in given, !.ci = "ci" \in given,
                       !.coverage = "coverage" \in given])

\* uninit and rollback delete what only init could have written, or restore
\* what init read.
UndoInstrumentation(dir) ==
  LET text == dir[cmd.target]
  IN CASE ~ Has(dir, cmd.target) -> dir
       [] Has(dir, cmd.target) /\ IsInitCreatedInstrumentation(text) -> Without(dir, {cmd.target})
       [] OTHER -> With(dir, cmd.target,
                        IF cmd.saved THEN before[cmd.root][cmd.target]
                        ELSE RemoveRegisterGlasstrace(text))

\* The first configuration that mentions withGlasstraceConfig is the one.
UnwrappedConfig(dir) ==
  LET at == SelectInSeq(NextConfigs, LAMBDA n : Has(dir, n) /\ MentionsWrapper(dir[n]))
      name == NextConfigs[at]
  IN IF at # 0 /\ CanUnwrapExport(name, dir[name])
     THEN With(dir, name, UnwrapExport(dir[name])) ELSE dir

UndoEnvLocal(dir) ==
  IF ~ Has(dir, ".env.local") THEN dir
  ELSE LET kept == WithoutKeyLines(dir[".env.local"])
       IN WithOrWithout(dir, ".env.local", kept, kept = <<>>)

\* rollbackSteps(): the steps done, each undone by itself.
RollbackSteps(dir) ==
  LET d1 == IF "env-local" \in cmd.undo THEN UndoEnvLocal(dir) ELSE dir
      d2 == IF "next-config" \in cmd.undo THEN UnwrappedConfig(d1) ELSE d1
  IN IF "instrumentation" \in cmd.undo THEN UndoInstrumentation(d2) ELSE d2

FailAndRollBack ==
  /\ Fails
  /\ fs' = [fs EXCEPT ![cmd.root] = RollbackSteps(@)]
  /\ Finish("rolled back")

\* The step changed the file: it is to be undone if a later one fails.
Scaffold(step, name, text, pc) ==
  \/ /\ fs' = Put(name, text)
     /\ cmd' = [cmd EXCEPT !.pc = pc, !.undo = @ \cup {step}]
     /\ UNCHANGED budget
  \/ FailAndRollBack

SkipTo(pc) == UNCHANGED <<fs, budget>> /\ Continue(pc)

\* Mutant: what the file held is not read first.
InitInstrumentation_NotSaved ==
  /\ At("init", "instrumentation")
  /\ LET target == InstrumentationTarget(site, Here)
         to(name, text) ==
           /\ fs' = Put(name, text)
           /\ cmd' = [cmd EXCEPT !.pc = "next-config", !.undo = {"instrumentation"}, !.target = name]
           /\ UNCHANGED budget
     IN \/ target = <<>> /\ UNCHANGED <<fs, budget>> /\ Finish("conflict")
        \/ \E name \in ToSet(target) :
             to(name, MergedInstrumentation(IF Has(Here, name) THEN Here[name] ELSE {}))
  /\ UNCHANGED <<site, sdk, original, before>>

\* A file of both layouts is an error; an existing file is merged into when
\* the user agrees; a call that is there already is left alone.
InitInstrumentation ==
  /\ At("init", "instrumentation")
  /\ LET target == InstrumentationTarget(site, Here)
         to(name, text, existed) ==
           \/ /\ fs' = Put(name, text)
              /\ cmd' = [cmd EXCEPT !.pc = "next-config", !.undo = {"instrumentation"},
                                    !.target = name, !.saved = existed]
              /\ UNCHANGED budget
           \/ FailAndRollBack
     IN \/ target = <<>> /\ UNCHANGED <<fs, budget>> /\ Finish("conflict")
        \/ \E name \in ToSet(target) :
             \/ ~ Has(Here, name) /\ to(name, {"import", "register", "call"}, FALSE)
             \/ /\ Has(Here, name)
                /\ IF HasRegisterGlasstraceCall(Here[name]) THEN SkipTo("next-config")
                   ELSE \/ to(name, MergedInstrumentation(Here[name]), TRUE)
                        \/ ~ cmd.yes /\ SkipTo("next-config")
  /\ UNCHANGED <<site, sdk, original, before>>

\* An empty file, one that mentions the wrapper, and one without an export of its
\* dialect are left alone.
InitNextConfig ==
  /\ At("init", "next-config")
  /\ LET at == FirstOf(Here, NextConfigs)
         name == NextConfigs[at]
     IN IF at # 0 /\ ~ MentionsWrapper(Here[name]) /\ ExportOf(name) \in Here[name]
        THEN Scaffold("next-config", name, WrapExport(Here[name]), "env-local")
        ELSE SkipTo("env-local")
  /\ UNCHANGED <<site, sdk, original, before>>

\* scaffoldEnvLocal(): a key line of any form is left alone.
InitEnvLocal ==
  /\ At("init", "env-local")
  /\ LET lines == IF Has(Here, ".env.local") THEN Here[".env.local"] ELSE <<>>
     IN IF WithPlaceholder(lines) # lines
        THEN Scaffold("env-local", ".env.local", WithPlaceholder(lines), "gitignore")
        ELSE SkipTo("gitignore")
  /\ UNCHANGED <<site, sdk, original, before>>

InitGitignore ==
  /\ At("init", "gitignore")
  /\ LET lines == IF Has(Here, ".gitignore") THEN Here[".gitignore"] ELSE {}
     IN IF ".glasstrace/" \notin lines
        THEN Scaffold("gitignore", ".gitignore", lines \cup {".glasstrace/"}, "anon-key")
        ELSE SkipTo("anon-key")
  /\ UNCHANGED <<site, sdk, original, before>>

-----------------------------------------------------------------------------
\* init: the key, the discovery file and the agents; a failure is a warning

\* getOrCreateAnonKey(): a key that cannot be written is used all the same.
InitAnonKey ==
  /\ At("init", "anon-key")
  /\ \/ /\ Has(Here, "anon_key")
        /\ cmd' = [cmd EXCEPT !.pc = "discovery", !.credential.key = Here["anon_key"]]
        /\ UNCHANGED <<fs, budget>>
     \/ /\ ~ Has(Here, "anon_key")
        /\ \E key \in AnonKey \ budget.minted :
             /\ \/ /\ fs' = Put("anon_key", key)
                   /\ budget' = [budget EXCEPT !.minted = @ \cup {key}]
                \/ /\ MayFail
                   /\ budget' = [budget EXCEPT !.minted = @ \cup {key}, !.faults = @ + 1]
                   /\ UNCHANGED fs
             /\ cmd' = [cmd EXCEPT !.pc = "discovery", !.credential.key = key]
  /\ UNCHANGED <<site, sdk, original, before>>

\* writeDiscoveryFile(): a file of ours keeps the fields the user added; the
\* bearer is resolved next.
InitDiscovery ==
  /\ At("init", "discovery")
  /\ LET key == cmd.credential.key
         existing == Here[site.staticRoot]
         fields == IF Has(Here, site.staticRoot) /\ existing.ours
                   THEN [existing EXCEPT !.key = key]
                   ELSE [ours |-> TRUE, key |-> key, extras |-> FALSE]
         resolved == EffectiveCredential(Here)
         next == [cmd EXCEPT !.pc = IF cmd.ci THEN "ci" ELSE "agents",
                             !.todo = DetectedAgents(site, cmd.root) \cup {"generic"},
                             !.credential = IF resolved # NoCredential THEN resolved
                                            ELSE [source |-> "anon", key |-> key]]
     IN \/ /\ fs' = Put(site.staticRoot, fields)
           /\ cmd' = next
           /\ UNCHANGED budget
        \/ /\ ~ (Has(Here, site.staticRoot) /\ existing = fields)
           /\ Fails
           /\ cmd' = [next EXCEPT !.discoveryFailed = TRUE]
           /\ UNCHANGED fs
  /\ UNCHANGED <<site, sdk, original, before>>

\* writeMcpConfig() replaces the whole file; a permission error is swallowed,
\* any other is thrown.
WriteMcpConfig(agent, dir, pc, caught) ==
  LET name == McpFileOf(agent)
      done == [cmd EXCEPT !.pc = pc, !.todo = @ \ {agent}]
      wrote == [done EXCEPT !.wrote = TRUE, !.ready = @ \cup {agent}]
  IN \/ /\ fs' = [fs EXCEPT ![dir] = With(@, name, GenerateMcpConfig(agent, cmd.credential.key))]
        /\ cmd' = wrote
        /\ UNCHANGED budget
     \/ /\ Fails
        /\ \/ cmd' = IF Has(fs[dir], name) THEN wrote ELSE done    \* denied
           \/ cmd' = [done EXCEPT !.pc = caught, !.errors = TRUE]  \* thrown
        /\ UNCHANGED fs

SkipAgent(agent, ready) ==
  /\ cmd' = [cmd EXCEPT !.todo = @ \ {agent}, !.ready = IF ready THEN @ \cup {agent} ELSE @]
  /\ UNCHANGED <<fs, budget>>

\* What is thrown ends all that has to do with MCP.
InitCi ==
  /\ At("init", "ci")
  /\ WriteMcpConfig("generic", cmd.root, "ignore", "coverage")
  /\ UNCHANGED <<site, sdk, original, before>>

\* decideMcpConfigAction(): a file that differs needs --yes, --force or an
\* answer; where it is declined the file counts as configured.
InitAgent(agent) ==
  /\ At("init", "agents")
  /\ agent \in cmd.todo \ {"windsurf"}
  /\ LET dir == McpDir(site, cmd.root, agent)
         name == McpFileOf(agent)
         differs == /\ Has(fs[dir], name)
                    /\ ~ McpConfigMatches(fs[dir][name], GenerateMcpConfig(agent, cmd.credential.key))
     IN \/ WriteMcpConfig(agent, dir, "agents", "agents")
        \/ differs /\ ~ cmd.yes /\ SkipAgent(agent, TRUE)
  /\ UNCHANGED <<site, sdk, original, before>>

AgentsDone ==
  /\ \/ At("init", "agents") /\ cmd.todo = {} /\ Continue("inject")
     \/ At("mcp add", "agents") /\ cmd.todo = {} /\ Continue("inject")
  /\ UNCHANGED <<site, fs, sdk, budget, original, before>>

-----------------------------------------------------------------------------
\* Windsurf: the configuration is the user's, shared by every project.  The
\* entry is merged into it under a lock, and only if it did not change.

WindsurfFile == IF Has(fs["home"], "mcp_config.json") THEN <<fs["home"]["mcp_config.json"]>> ELSE <<>>
WindsurfEntry == GenerateMcpConfig("windsurf", cmd.credential.key)
WindsurfMerged == IF WindsurfFile = <<>> THEN WindsurfEntry
                  ELSE PrepareWindsurf(WindsurfFile[1], WindsurfEntry)
HomeWith(name, text) == [fs EXCEPT !["home"] = With(@, name, text)]
Unlocked(home) == Without(home, {"lock"})

\* The agent is dropped with a warning.
WindsurfThrows ==
  cmd' = [cmd EXCEPT !.todo = @ \ {"windsurf"}, !.pc = "agents", !.errors = TRUE]

WindsurfReady ==
  cmd' = [cmd EXCEPT !.todo = @ \ {"windsurf"}, !.pc = "agents",
                     !.wrote = TRUE, !.ready = @ \cup {"windsurf"}]

\* The lock, the backup and the staged file.
WindsurfStage ==
  /\ cmd.name \in {"init", "mcp add"} /\ cmd.pc = "agents"
  /\ "windsurf" \in cmd.todo
  /\ LET declined == /\ cmd.name = "init" /\ ~ cmd.yes
                     /\ WindsurfFile # <<>> /\ HasEntry(WindsurfFile[1])
                     /\ WindsurfFile[1] # WindsurfMerged
         unusable == \/ WindsurfFile # <<>> /\ ~ WindsurfFile[1].json
                     \/ Has(fs["home"], "lock")
     IN \/ unusable /\ WindsurfThrows /\ UNCHANGED <<fs, budget>>
        \/ ~ unusable /\ declined /\ SkipAgent("windsurf", FALSE)
        \/ /\ ~ unusable /\ WindsurfFile = <<WindsurfMerged>>
           /\ WindsurfReady
           /\ UNCHANGED <<fs, budget>>
        \/ /\ ~ unusable /\ WindsurfFile # <<WindsurfMerged>>
           /\ \/ /\ fs' = HomeWith("lock", "held")
                 /\ cmd' = [cmd EXCEPT !.pc = "windsurf", !.held = WindsurfFile]
                 /\ UNCHANGED budget
              \/ Fails /\ WindsurfThrows /\ UNCHANGED fs
  /\ UNCHANGED <<site, sdk, original, before>>

\* Mutant: the staged file replaces whatever is there.
WindsurfReplace_Blind ==
  /\ cmd.pc = "windsurf"
  /\ fs' = [fs EXCEPT !["home"] = Unlocked(With(@, "mcp_config.json",
              IF cmd.held = <<>> THEN WindsurfEntry ELSE PrepareWindsurf(cmd.held[1], WindsurfEntry)))]
  /\ WindsurfReady
  /\ UNCHANGED <<site, sdk, budget, original, before>>

\* The file is read again: a change since leaves it alone.
WindsurfReplace ==
  /\ cmd.pc = "windsurf"
  /\ IF WindsurfFile = cmd.held
     THEN /\ fs' = [fs EXCEPT !["home"] = Unlocked(With(@, "mcp_config.json", WindsurfMerged))]
          /\ WindsurfReady
     ELSE /\ fs' = [fs EXCEPT !["home"] = Unlocked(@)]
          /\ WindsurfThrows
  /\ UNCHANGED <<site, sdk, budget, original, before>>

-----------------------------------------------------------------------------
\* init and mcp add: instruction files, .gitignore and the marker

\* A target that cannot be read or written is left as it was, with a warning.
InjectInto(targets) ==
  \E written \in SUBSET targets :
    /\ fs' = InjectAllTargets(fs, written)
    /\ IF written = targets THEN UNCHANGED budget ELSE Fails

\* Generic instructions only when no agent is detected.
Inject ==
  /\ cmd.name \in {"init", "mcp add"} /\ cmd.pc = "inject"
  /\ LET detected == DetectedAgents(site, cmd.root)
         dispatch == IF detected = {} THEN cmd.ready ELSE cmd.ready \ {"generic"}
     IN InjectInto(Targets(site, cmd.root, dispatch))
  /\ Continue("ignore")
  /\ UNCHANGED <<site, sdk, original, before>>

\* An error ends mcp add, and all that init does about MCP.
McpThrows == IF cmd.name = "init" THEN Continue("coverage") ELSE Finish("failed")

\* A permission error is swallowed, any other is thrown.
UpdateGitignore ==
  /\ cmd.name \in {"init", "mcp add"} /\ cmd.pc = "ignore"
  /\ LET lines == IF Has(Here, ".gitignore") THEN Here[".gitignore"] ELSE {}
     IN \/ fs' = Put(".gitignore", lines \cup {"mcp"}) /\ UNCHANGED budget /\ Continue("marker")
        \/ "mcp" \notin lines /\ Fails /\ UNCHANGED fs /\ (Continue("marker") \/ McpThrows)
  /\ UNCHANGED <<site, sdk, original, before>>

\* Mutant: only mcp add stamps.
WriteMcpMarker_OnlyAdd ==
  /\ cmd.name \in {"init", "mcp add"} /\ cmd.pc = "marker"
  /\ fs' = IF cmd.wrote /\ cmd.name = "mcp add" THEN Put("mcp-connected", cmd.credential) ELSE fs
  /\ IF cmd.name = "init" THEN Continue("coverage") ELSE Finish("done")
  /\ UNCHANGED <<site, sdk, budget, original, before>>

\* mcp add fails when nothing was set up, or none of the detected agents.
McpAddFailed ==
  LET detected == DetectedAgents(site, cmd.root)
  IN cmd.ready = {} \/ (detected # {} /\ cmd.ready \cap detected = {})

\* Both commands stamp when they wrote; it is the last step of mcp add.
WriteMcpMarker ==
  /\ cmd.name \in {"init", "mcp add"} /\ cmd.pc = "marker"
  /\ \/ /\ fs' = IF cmd.wrote THEN Put("mcp-connected", cmd.credential) ELSE fs
        /\ IF cmd.name = "init" THEN Continue("coverage")
           ELSE Finish(IF McpAddFailed THEN "failed" ELSE "done")
        /\ UNCHANGED budget
     \/ cmd.wrote /\ Fails /\ UNCHANGED fs /\ McpThrows
  /\ UNCHANGED <<site, sdk, original, before>>

\* Asked for by an option, or by an answer.
InitCoverage ==
  /\ At("init", "coverage")
  /\ LET lines == IF Has(Here, ".env.local") THEN Here[".env.local"] ELSE <<>>
     IN \/ /\ cmd.coverage \/ ~ cmd.yes
           /\ fs' = Put(".env.local", WithCoverageMap(lines))
           /\ UNCHANGED budget
        \/ ~ cmd.coverage /\ UNCHANGED <<fs, budget>>
        \/ cmd.coverage /\ Fails /\ UNCHANGED fs
  /\ Continue("verify")
  /\ UNCHANGED <<site, sdk, original, before>>

\* verifyAnonKeyRegistration(): not in CI, and not without a key on disk.
InitVerify ==
  /\ At("init", "verify")
  /\ LET done == IF cmd.discoveryFailed THEN "failed" ELSE "done"
     IN \/ UNCHANGED budget /\ Finish(done)
        \/ /\ ~ cmd.ci /\ Has(Here, "anon_key")
           /\ Fails
           /\ Finish("unverified")
  /\ UNCHANGED <<site, fs, sdk, original, before>>

\* mcp add has nothing to do while the marker carries the credential in use.
StartMcpAdd ==
  \E force \in BOOLEAN :
    /\ Start([name |-> "mcp add", pc |-> "resolve", roots |-> AsIs], [Idle EXCEPT !.force = force])

McpAddResolve ==
  /\ At("mcp add", "resolve")
  /\ LET credential == EffectiveCredential(Here)
     IN CASE credential = NoCredential -> Finish("failed")
          [] credential # NoCredential /\ ~ cmd.force /\ MarkerMatches(Here, credential) ->
               Finish("already")
          [] OTHER -> cmd' = [cmd EXCEPT !.pc = "agents", !.credential = credential,
                                         !.todo = DetectedAgents(site, cmd.root) \cup {"generic"}]
  /\ UNCHANGED <<site, fs, sdk, budget, original, before>>

\* registerViaCli(): the agent's own CLI edits its file, our entry alone.  It
\* is only given an anonymous key (Codex none).
RegisterViaCli(agent, dir) ==
  LET name == McpFileOf(agent)
      entry == GenerateMcpConfig(agent, cmd.credential.key)
  IN /\ agent \in site.native
     /\ agent = "codex" \/ cmd.credential.source = "anon"
     /\ Has(fs[dir], name) => fs[dir][name].json
     /\ fs' = [fs EXCEPT ![dir] =
                  With(@, name, IF Has(@, name) THEN PrepareWindsurf(@[name], entry) ELSE entry)]
     /\ cmd' = [cmd EXCEPT !.todo = @ \ {agent}, !.wrote = TRUE, !.ready = @ \cup {agent}]
     /\ UNCHANGED budget

\* Without the agent's CLI, and when it fails, the file is replaced.
McpAddAgent(agent) ==
  /\ At("mcp add", "agents")
  /\ agent \in cmd.todo \ {"windsurf"}
  /\ LET dir == McpDir(site, cmd.root, agent)
     IN WriteMcpConfig(agent, dir, "agents", "agents") \/ RegisterViaCli(agent, dir)
  /\ UNCHANGED <<site, sdk, original, before>>

\* upgrade-instructions: what was marked before is marked again.
UpgradeInstructions ==
  /\ Start([name |-> "upgrade", pc |-> "upgrade",
            roots |-> [cwd \in Dir |-> IF Resolved[cwd] = {} THEN {cwd} ELSE Resolved[cwd]]], Idle)

\* A file that cannot be written, or an agent whose files cannot be read, is a
\* warning; that the agents cannot be detected is an error.
UpgradeAll ==
  /\ At("upgrade", "upgrade")
  /\ \/ InjectInto(Targets(site, cmd.root, OptedIn(site, fs, cmd.root))) /\ Finish("done")
     \/ Fails /\ UNCHANGED fs /\ Finish("failed")
  /\ UNCHANGED <<site, sdk, original, before>>

-----------------------------------------------------------------------------
\* uninit: every step is a try block of its own, and runs whatever became of
\* the others

StartUninit ==
  \E force \in BOOLEAN :
    Start([name |-> "uninit", pc |-> "marker", roots |-> AsIs], [Idle EXCEPT !.force = force])

\* The step's outcome, or an error and as much of it done as `parts` says.
CleanInPart(dirs, parts, pc) ==
  \/ /\ fs' = dirs
     /\ Continue(pc)
     /\ UNCHANGED budget
  \/ /\ Fails
     /\ cmd' = [cmd EXCEPT !.pc = pc, !.errors = TRUE]
     /\ fs' \in parts

Clean(dirs, pc) == CleanInPart(dirs, {fs}, pc)

Cleaned(dir) == [fs EXCEPT ![cmd.root] = dir]

\* writeShutdownMarker(): a failure is not reported.
UninitMarker ==
  /\ At("uninit", "marker")
  /\ \/ /\ GlasstraceDirExists(Here)
        /\ fs' = Put("shutdown-requested", "now")
        /\ UNCHANGED budget
     \/ ~ GlasstraceDirExists(Here) /\ UNCHANGED <<fs, budget>>
     \/ GlasstraceDirExists(Here) /\ Fails /\ UNCHANGED fs
  /\ Continue("next-config")
  /\ UNCHANGED <<site, sdk, original, before>>

UninitNextConfig ==
  /\ At("uninit", "next-config")
  /\ Clean(Cleaned(UnwrappedConfig(Here)), "instrumentation")
  /\ UNCHANGED <<site, sdk, original, before>>

\* Only instrumentation.ts of the directory itself.
UninitInstrumentation ==
  /\ At("uninit", "instrumentation")
  /\ LET name == "instrumentation.ts"
         text == Here[name]
     IN Clean(Cleaned(IF ~ Has(Here, name) THEN Here
                      ELSE IF IsInitCreatedInstrumentation(text) THEN Without(Here, {name})
                      ELSE With(Here, name, RemoveRegisterGlasstrace(text))),
              "directory")
  /\ UNCHANGED <<site, sdk, original, before>>

UninitDirectory ==
  /\ At("uninit", "directory")
  /\ Clean(Cleaned(Without(Here, GlasstraceFiles)), "discovery")
  /\ UNCHANGED <<site, sdk, original, before>>

\* removeDiscoveryFile(): of both layouts, and whoever wrote it.  A failure is a
\* warning.
UninitDiscovery ==
  /\ At("uninit", "discovery")
  /\ \/ fs' = Cleaned(Without(Here, {"public", "static"})) /\ UNCHANGED budget
     \/ fs' \in {fs, Cleaned(Without(Here, {"public"}))} /\ Fails
  /\ Continue("env-local")
  /\ UNCHANGED <<site, sdk, original, before>>

\* Mutant: a developer key goes without a question.
UninitEnvLocal_NotAsked ==
  /\ At("uninit", "env-local")
  /\ LET kept == WithoutGlasstraceLines(Here[".env.local"])
     IN Clean(IF Has(Here, ".env.local")
              THEN Cleaned(WithOrWithout(Here, ".env.local", kept, kept = <<>>)) ELSE fs, "gitignore")
  /\ UNCHANGED <<site, sdk, original, before>>

\* The user's lines of a text of .env.local, or no file without any.
EnvWithUserLines(env) ==
  LET kept == WithoutGlasstraceLines(env)
  IN Cleaned(WithOrWithout(Here, ".env.local", kept, kept = <<>>))

\* A developer key is only removed with --force or after a confirmation, which
\* is awaited.
UninitEnvLocal ==
  /\ At("uninit", "env-local")
  /\ LET asks == IsDevApiKey(EnvKey(Here)) /\ ~ cmd.force
     IN \/ ~ asks /\ Clean(IF Has(Here, ".env.local") THEN EnvWithUserLines(Here[".env.local"])
                           ELSE fs, "gitignore")
        \/ /\ asks
           /\ cmd' = [cmd EXCEPT !.pc = "env-confirm", !.env = Here[".env.local"]]
           /\ UNCHANGED <<fs, budget>>
  /\ UNCHANGED <<site, sdk, original, before>>

\* What was read before the question is written after the answer.
UninitConfirmed ==
  /\ At("uninit", "env-confirm")
  /\ LET answered == [cmd EXCEPT !.pc = "gitignore", !.env = <<>>]
     IN \/ cmd' = answered /\ UNCHANGED <<fs, budget>>
        \/ /\ cmd' = [answered EXCEPT !.consent = TRUE]
           /\ fs' = EnvWithUserLines(cmd.env)
           /\ UNCHANGED budget
        \/ /\ cmd' = [answered EXCEPT !.consent = TRUE, !.errors = TRUE]
           /\ Fails
           /\ UNCHANGED fs
  /\ UNCHANGED <<site, sdk, original, before>>

UninitGitignore ==
  /\ At("uninit", "gitignore")
  /\ LET kept == Here[".gitignore"] \ GitignoreEntries
     IN Clean(IF Has(Here, ".gitignore")
              THEN Cleaned(WithOrWithout(Here, ".gitignore", kept, kept = {})) ELSE fs,
              "mcp")
  /\ UNCHANGED <<site, sdk, original, before>>

FirstFiles(order, k) == {order[i] : i \in 1 .. k}

\* The entry goes; the file too when it holds nothing else.
WithoutMcpEntries(dir, names) ==
  LET having == {n \in names \cap DOMAIN dir : HasEntry(dir[n])}
  IN Without([n \in DOMAIN dir |-> IF n \in having THEN WithoutEntry(dir[n]) ELSE dir[n]],
             {n \in having : ~ dir[n].other})

\* MCP_CONFIG_FILES, then Codex's.
McpOrder == <<".mcp.json", ".cursor/mcp.json", ".gemini/settings.json", ".codex/config.toml">>

\* File by file, Windsurf's last and only where the project shows signs of
\* Windsurf.  An error ends the step.
UninitMcp ==
  /\ At("uninit", "mcp")
  /\ LET left(k) == Cleaned(WithoutMcpEntries(Here, FirstFiles(McpOrder, k)))
         all == left(Len(McpOrder))
         windsurf == cmd.root \in site.at["windsurf"]
     IN CleanInPart(IF windsurf THEN [all EXCEPT !["home"] = WithoutMcpEntries(@, {"mcp_config.json"})]
                    ELSE all,
                    {left(k) : k \in 0 .. Len(McpOrder)}, "info")
  /\ UNCHANGED <<site, sdk, original, before>>

\* A file that had nothing but the section goes with it.
WithoutSections(dir, names) ==
  LET marked == {n \in names \cap DOMAIN dir : HasManagedSection(dir[n])}
  IN Without([n \in DOMAIN dir |-> IF n \in marked THEN RemoveMarkerSection(dir[n]) ELSE dir[n]],
             {n \in marked : RemoveMarkerSection(dir[n]) = <<>>})

\* AGENT_INFO_FILES: every instruction file, old destinations included.
InfoOrder == <<"AGENTS.md", "CLAUDE.md", "GEMINI.md", "glasstrace.mdc", "glasstrace.md",
               ".cursorrules", "codex.md", ".windsurfrules">>

\* removeMarkerSection(), file by file.  An error ends the step.
UninitInfo ==
  /\ At("uninit", "info")
  /\ LET left(k) == Cleaned(WithoutSections(Here, FirstFiles(InfoOrder, k)))
     IN CleanInPart(left(Len(InfoOrder)), {left(k) : k \in 0 .. Len(InfoOrder) - 1}, "exit")
  /\ UNCHANGED <<site, sdk, original, before>>

UninitExit ==
  /\ At("uninit", "exit")
  /\ Finish(IF cmd.errors THEN "failed" ELSE "done")
  /\ UNCHANGED <<site, fs, sdk, budget, original, before>>

-----------------------------------------------------------------------------
\* The SDK in the app's server, the user, and the death of a command

App == fs["app"]
AppWith(name, text) == [fs EXCEPT !["app"] = With(@, name, text)]

\* The server is started with a registered SDK; it makes a key if there is none.
SdkStarts ==
  /\ sdk.state = "absent"
  /\ \E n \in DOMAIN App \cap Instrumentation :
       HasRegisterGlasstraceCall(App[n])
  /\ sdk' = [sdk EXCEPT !.state = "running"]
  /\ \/ Has(App, "anon_key") /\ UNCHANGED <<fs, budget>>
     \/ /\ ~ Has(App, "anon_key")
        /\ \E key \in AnonKey \ budget.minted :
             /\ fs' = AppWith("anon_key", key)
             /\ budget' = [budget EXCEPT !.minted = @ \cup {key}]
  /\ UNCHANGED <<site, cmd, original, before>>

\* heartbeatTick(): the marker is removed, the SDK drains and stops.
SdkSeesMarker ==
  /\ sdk.state = "running" /\ Has(App, "shutdown-requested")
  /\ fs' = [fs EXCEPT !["app"] = Without(@, {"shutdown-requested"})]
  /\ sdk' = [sdk EXCEPT !.state = "drained"]
  /\ UNCHANGED <<site, cmd, budget, original, before>>

\* writeClaimedKey() reads .env.local, and writes it after an await.
SdkReadsEnv ==
  /\ sdk.state = "running" /\ sdk.claim = "no"
  /\ budget.claims < MaxClaims
  /\ budget' = [budget EXCEPT !.claims = @ + 1]
  /\ sdk' = [sdk EXCEPT !.claim = "read",
                        !.env = IF Has(App, ".env.local") THEN App[".env.local"] ELSE <<>>]
  /\ UNCHANGED <<site, fs, cmd, original, before>>

SdkWritesKey ==
  /\ sdk.claim = "read"
  /\ \/ /\ fs' = AppWith(".env.local", WithClaimedKey(sdk.env, ClaimedKey))
        /\ sdk' = [sdk EXCEPT !.claim = "persisted", !.env = <<>>]
        /\ UNCHANGED budget
     \/ /\ Fails
        /\ fs' = AppWith("claimed-key", ClaimedKey)
        /\ sdk' = [sdk EXCEPT !.claim = "persisted", !.env = <<>>]
  /\ UNCHANGED <<site, cmd, original, before>>

\* performInit(): the credential on disk is resolved, the generic
\* configuration replaced and stamped.
SdkRefreshes ==
  /\ sdk.claim = "persisted"
  /\ LET credential == EffectiveCredential(App)
     IN fs' = IF RefreshesGeneric(App, credential)
              THEN [fs EXCEPT !["app"] = With(With(@, "mcp.json", McpConfig(credential.key)),
                                              "mcp-connected", credential)]
              ELSE fs
  /\ sdk' = [sdk EXCEPT !.claim = "done"]
  /\ UNCHANGED <<site, cmd, budget, original, before>>

\* The user edits the shared configuration while it is staged.
UserEditsWindsurf ==
  /\ cmd.pc = "windsurf"
  /\ budget.edits < 1
  /\ budget' = [budget EXCEPT !.edits = @ + 1]
  /\ fs' = HomeWith("mcp_config.json",
             [json |-> TRUE, other |-> TRUE,
              entry |-> IF WindsurfFile = <<>> THEN "none" ELSE WindsurfFile[1].entry])
  /\ UNCHANGED <<site, cmd, sdk, original, before>>

\* Killed between two steps: nothing is undone, the lock stays.
Killed ==
  /\ cmd.pc # "idle"
  /\ Fails
  /\ Finish("killed")
  /\ UNCHANGED <<site, fs, sdk, original, before>>

-----------------------------------------------------------------------------

Init ==
  /\ \E p \in Projects : site = p.site /\ fs = p.files
  /\ cmd = Idle
  /\ sdk = [state |-> "absent", claim |-> "no", env |-> <<>>]
  /\ budget = [commands |-> 0, faults |-> 0, claims |-> 0, edits |-> 0, minted |-> {}]
  /\ original = fs
  /\ before = fs

InitStep ==
  \/ StartInit \/ InitInstrumentation \/ InitNextConfig \/ InitEnvLocal \/ InitGitignore
  \/ InitAnonKey \/ InitDiscovery \/ InitCi \/ InitCoverage \/ InitVerify
  \/ \E a \in Agent \cup {"generic"} : InitAgent(a)

McpStep ==
  \/ StartMcpAdd \/ McpAddResolve
  \/ \E a \in Agent \cup {"generic"} : McpAddAgent(a)
  \/ AgentsDone \/ WindsurfStage \/ WindsurfReplace
  \/ Inject \/ UpdateGitignore \/ WriteMcpMarker

UninitStep ==
  \/ StartUninit \/ UninitMarker \/ UninitNextConfig \/ UninitInstrumentation \/ UninitDirectory
  \/ UninitDiscovery \/ UninitEnvLocal \/ UninitConfirmed \/ UninitGitignore
  \/ UninitMcp \/ UninitInfo \/ UninitExit

SdkStep ==
  SdkStarts \/ SdkSeesMarker \/ SdkReadsEnv \/ SdkWritesKey \/ SdkRefreshes

Next ==
  \/ InitStep \/ McpStep \/ UninitStep
  \/ UpgradeInstructions \/ UpgradeAll
  \/ SdkStep \/ UserEditsWindsurf \/ Killed

Spec == Init /\ [][Next]_vars

-----------------------------------------------------------------------------
\* Properties

Keys == DevKey \cup AnonKey \cup {""}
Dispatched == Agent \cup {"generic"}
Target == Instrumentation \cup {""}

Command ==
  [name : {"none", "init", "mcp add", "uninit", "upgrade"},
   pc : {"idle", "instrumentation", "next-config", "env-local", "gitignore", "anon-key", "discovery",
         "ci", "agents", "windsurf", "inject", "ignore", "marker", "coverage", "verify", "resolve",
         "upgrade", "directory", "env-confirm", "mcp", "info", "exit"},
   root : Sites, yes : BOOLEAN, force : BOOLEAN, ci : BOOLEAN, coverage : BOOLEAN,
   target : Target, saved : BOOLEAN,
   undo : SUBSET {"instrumentation", "next-config", "env-local", "gitignore"},
   todo : SUBSET Dispatched, ready : SUBSET Dispatched, wrote : BOOLEAN,
   credential : [source : {"none", "env-local", "claimed-key", "anon"}, key : Keys],
   discoveryFailed : BOOLEAN, errors : BOOLEAN, consent : BOOLEAN, held : Seq(McpText),
   env : Seq(EnvLine),
   exit : {"none", "done", "already", "unverified", "failed", "conflict", "rolled back", "killed"}]

TypeOK ==
  /\ site \in Layout /\ cmd \in Command
  /\ fs = [d \in Dir |-> fs[d]] /\ \A d \in Dir : TypedFiles(fs[d])
  /\ sdk \in [state : {"absent", "running", "drained"},
               claim : {"no", "read", "persisted", "done"}, env : Seq(EnvLine)]
  /\ budget \in [commands : Nat, faults : Nat, claims : Nat, edits : Nat, minted : SUBSET AnonKey]

TextLines(lines) == Cardinality({k \in DOMAIN lines : lines[k] = "text"})
UserLines(env) == Cardinality({k \in DOMAIN env : env[k].name = "user"})

\* An import of the SDK without code to use it goes with the file.
UserText(f) ==
  LET code == f \cap {"userCode", "userStmt", "arrow", "callOpts"}
  IN IF code = {} THEN {} ELSE code \cup (f \cap {"sdkOther"})

\* next.config gains and loses nothing but the wrapper, unless its expression is
\* misclosed: that an unwrap breaks.
KeepsConfig(text, now) ==
  /\ now \ {"wrap", "wrapImport", "broken"} \subseteq text
  /\ \/ text \ {"wrap", "wrapImport"} \subseteq now /\ ("broken" \in now => "broken" \in text)
     \/ /\ "misclosed" \in text /\ "broken" \in now
        /\ text \ {"wrap", "wrapImport", "misclosed"} \subseteq now

\* What the user wrote into file n is still in the text `now`.
KeepsUserText(n, text, now) ==
  /\ n \in Instrumentation => UserText(text) \subseteq now
  /\ n \in Configs => KeepsConfig(text, now)
  /\ n = ".gitignore" => text \ GitignoreEntries \subseteq now
  /\ n = ".env.local" => UserLines(now) = UserLines(text)
  /\ n \in InfoFiles => TextLines(now) = TextLines(text)
  /\ n = "mcp_config.json" => (text.other => now.other)

EmptyText(n) == IF n \in {".env.local"} \cup InfoFiles THEN <<>>
                ELSE IF n = "mcp_config.json" THEN [other |-> FALSE] ELSE {}
TextAt(dir, n) == IF Has(dir, n) THEN dir[n] ELSE EmptyText(n)

\* Whatever the commands, and wherever they fail or are killed, no line the
\* user wrote is lost: from the instrumentation file, next.config, .env.local,
\* .gitignore, the agents' instruction files, or Windsurf's shared
\* configuration (the other MCP configurations are replaced as a whole).  The
\* one exception is the expression of a next.config that findMatchingDelimiter()
\* takes for closed too early; that file loses its form and nothing else.
UserTextKept ==
  \A d \in Dir : \A n \in DOMAIN original[d] :
    KeepsUserText(n, original[d][n], TextAt(fs[d], n))

\* With it, that no command loses track of where it is.
ProjectSound == TypeOK /\ UserTextKept

\* Not restored by a rollback: a configuration whose closing parenthesis is not
\* found, or a wrong one is, an instrumentation file that looks as if init had
\* made it once the call is in it, and an empty .env.local.
RollbackMisses(n, was) ==
  \/ n \in ToSet(NextConfigs) /\ was \cap {"unclosed", "misclosed"} # {}
  \/ n \in Instrumentation /\ IsInitCreatedInstrumentation(MergedInstrumentation(was))
  \/ n = ".env.local" /\ was = <<>>

\* A failed init leaves the files as it found them ("automatically rolled back
\* so you are never left with a half-configured project"), the cases named
\* above apart, and .env.local when the running SDK writes to it meanwhile.
FailedInitRestores ==
  [][cmd.pc # "idle" /\ cmd'.exit = "rolled back" =>
       \A n \in (Instrumentation \cup ToSet(NextConfigs) \cup {".env.local"}) :
         \/ /\ Has(fs'[cmd.root], n) <=> Has(before[cmd.root], n)
            /\ Has(before[cmd.root], n) => fs'[cmd.root][n] = before[cmd.root][n]
         \/ n = ".env.local" /\ sdk.claim # "no"
         \/ Has(before[cmd.root], n) /\ RollbackMisses(n, before[cmd.root][n])]_vars

\* The anonymous key, the developer key of .env.local and the claimed key
\* outlive every step but those of uninit; the developer key of .env.local
\* needs consent there too.  A rollback of init may take a key that the SDK
\* wrote into .env.local while init was running.
CredentialsSurvive ==
  [][\A d \in Dir :
       /\ \A n \in {"anon_key", "claimed-key"} :
            Has(fs[d], n) /\ ~ Has(fs'[d], n) => cmd.name = "uninit" /\ cmd.pc = "directory"
       /\ EnvKey(fs[d]) \in DevKey /\ EnvKey(fs'[d]) \notin DevKey =>
            \/ cmd.name = "uninit" /\ (cmd.force \/ cmd'.consent)
            \/ cmd'.exit = "rolled back" /\ sdk.claim # "no"]_vars

\* What one run of uninit leaves, of what init did or of what was there:
\* instrumentation elsewhere than in instrumentation.ts, an appended
\* register(), a configuration it cannot unwrap or unwraps wrongly, a file that
\* looks as if init had made it, the front matter of Cursor's rule, the user's
\* own lines that read like ours (an import without a call is one), empty
\* files, replaced MCP configurations, and files that were ours.
UninitMisses(n, was) ==
  \/ n \in GlasstraceFiles \cup {"public", "static"}
  \/ n \in Instrumentation \ {"instrumentation.ts"}
  \/ n = "instrumentation.ts" /\ (\/ "register" \notin was \/ "import" \in was
                                 \/ HasRegisterGlasstraceCall(was)
                                 \/ IsInitCreatedInstrumentation(was \cup {"call"}))
  \/ n \in ToSet(NextConfigs) /\ was \cap {"unclosed", "misclosed", "wrap"} # {}
  \/ n \in {".env.local", ".gitignore"} \cup InfoFiles /\ was = EmptyText(n)
  \/ n = ".env.local" /\ \E k \in DOMAIN was : was[k].name # "user"
  \/ n = ".gitignore" /\ was \cap GitignoreEntries # {}
  \/ n \in InfoFiles /\ HasManagedSection(was)
  \/ n \in McpFiles

UninitMayLeave(n) ==
  n \in (Instrumentation \ {"instrumentation.ts"}) \cup {"glasstrace.mdc"}

\* Where neither the SDK nor a fault came in between, uninit gives the
\* directory back as it was before the first command, the cases named above
\* apart: "Reverses every step of `glasstrace init`".
UninitRestores ==
  [][/\ At("uninit", "exit") /\ cmd'.exit = "done"
     /\ budget.faults = 0 /\ sdk.state = "absent" /\ sdk.claim = "no"
     => LET now == fs[cmd.root]
            was == original[cmd.root]
            kept == {n \in DOMAIN was : Has(now, n) /\ now[n] = was[n]}
            left == DOMAIN now \ DOMAIN was
        IN /\ \A n \in DOMAIN was \ kept : UninitMisses(n, was[n])
           /\ \A n \in left : UninitMayLeave(n)]_vars

\* The cases in which `validate` complains of what init or uninit leave: it
\* does not look for instrumentation.js or src/, and it takes any MCP
\* configuration for one of the SDK's.
MayBeReported(issue, dir) ==
  \/ /\ issue = "dirWithoutImport"
     /\ \/ \E n \in DOMAIN dir \cap Instrumentation : n # "instrumentation.ts"
        \/ Has(dir, "instrumentation.ts") /\ HasRegisterGlasstraceCall(dir["instrumentation.ts"])
  \/ issue = "importWithoutDir" /\ "sdkOther" \in dir["instrumentation.ts"]
  \/ issue = "configsWithoutMarker" /\ cmd.name = "uninit"
     /\ \E n \in DOMAIN dir \cap StatusMcpFiles : ~ HasEntry(dir[n])

\* A command that succeeded leaves a state that `validate` calls consistent
\* ("Glasstrace install state is consistent"), the cases named above apart,
\* and that `status` describes: all there after an init where nothing is
\* declined, nothing after uninit.
ConsistentAfterCommand ==
  [][/\ cmd.pc # "idle" /\ cmd'.exit = "done"
     /\ cmd.name = "uninit" \/ (cmd.name = "init" /\ cmd.yes)
     /\ budget'.faults = 0 /\ sdk.claim = "no" /\ sdk.state = "absent"
     => LET after == fs'[cmd.root]
            status == RunStatus(after)
        IN /\ \A issue \in ValidationIssues(after) : MayBeReported(issue, after)
           /\ {status.initialized, status.anonKey, status.mcpConfigured} = {cmd.name = "init"}
           /\ cmd.name = "init" => status.instrumentation]_vars

\* What the notice names and upgrade-instructions does not touch: the old
\* destinations, and the files of an agent that is not detected.
NoticeStays(root) ==
  {"codex.md", ".windsurfrules"} \cup
  {n \in InfoFiles : \A a \in DetectedAgents(site, root) \cup {"generic"} :
                       FoundDir(site, root, a) = root => n \notin TargetsOf(a)}

\* What a run of upgrade-instructions that nothing hinders makes of the files.
Refreshed(files) == InjectAllTargets(files, Targets(site, cmd.root, OptedIn(site, files, cmd.root)))

\* upgrade-instructions may leave files as they were and say so only in a
\* warning.  However many it left, the next run sees the same agents opted in
\* and makes of the files what this one would have made of them, and then none
\* of the directory is stale; and after a run that left none, there is nothing
\* to do ("The command is idempotent").
UpgradeSettles ==
  [][At("upgrade", "upgrade") /\ cmd'.exit = "done" =>
       /\ Refreshed(fs') = Refreshed(fs)
       /\ StaleFiles(Refreshed(fs')[cmd.root]) \subseteq NoticeStays(cmd.root)
       /\ budget' = budget => fs' = Refreshed(fs')]_vars

\* Each command ends in the state it promises: init, uninit, and
\* upgrade-instructions.
CommandsSettle == ConsistentAfterCommand /\ UpgradeSettles

\* mcp add, finished without a fault, leaves no configuration of a detected
\* agent with a key that is not the one in use: "Re-run app-local `glasstrace
\* mcp add` after a claim [...] to refresh agent-specific configs".  It does
\* not: the SDK's own refresh of the generic one stamps the marker.
McpAddRefreshes ==
  [][cmd.name = "mcp add" /\ cmd.pc # "idle" /\ cmd'.exit \in {"done", "already"} /\ budget'.faults = 0 =>
       \A agent \in DetectedAgents(site, cmd.root) \ {"codex", "windsurf"} :
         LET dir == fs'[McpDir(site, cmd.root, agent)]
             name == McpFileOf(agent)
         IN Has(dir, name) /\ dir[name].entry \in DevKey \cup AnonKey =>
              dir[name].entry = EffectiveCredential(fs'[cmd.root]).key]_vars

\* After an uninit without faults and with consent no file is left that was
\* not there before the first command: "Reverses every step of `glasstrace
\* init`".
UninitReverses ==
  [][/\ At("uninit", "exit") /\ cmd'.exit = "done" /\ cmd.force
     /\ budget.faults = 0 /\ sdk.state = "absent" /\ sdk.claim = "no"
     => DOMAIN fs[cmd.root] \subseteq DOMAIN original[cmd.root]]_vars

\* No configuration is broken by a rollback or an uninit: "Removes the
\* `withGlasstraceConfig(...)` wrapper from an ESM default export, restoring the
\* inner expression".  One that is misclosed is.
ConfigsUnbroken ==
  \A d \in Dir : \A n \in Configs \cap DOMAIN fs[d] :
    "broken" \in fs[d][n] => "broken" \in TextAt(original[d], n)

\* The heartbeat goes on ticking as long as the server runs.
FairSpec == Spec /\ WF_vars(SdkSeesMarker)

\* A running SDK drains after an uninit that told it to: the marker is there
\* "so a running SDK heartbeat can drain and exit cleanly on its next tick".
MarkerIsSeen ==
  (sdk.state = "running" /\ Has(App, "shutdown-requested")) ~> (sdk.state = "drained")
=============================================================================
