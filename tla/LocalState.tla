------------------------------ MODULE LocalState ------------------------------
(***************************************************************************)
(* What a server with a registered SDK and an `init` of the CLI share: the *)
(* anonymous key, .env.local, the claimed key, the MCP configuration and   *)
(* the files of AnonKey, ActiveConfig and RuntimeState, with the claim of  *)
(* init-client.ts between them.  The server stops or dies and is started   *)
(* again; all a new process knows is on disk.                              *)
(***************************************************************************)
EXTENDS AnonKey, ActiveConfig, RuntimeState

CONSTANTS Server, Cli,   \* the two processes
          ClaimedKey,    \* the key the backend hands out with a claim
          Responses,     \* the configurations the backend answers with
          MaxStarts,     \* bound: starts of the server
          MaxEvents,     \* bound: circuit events and ticks of all servers
          Concerns       \* bound: what goes on beside the server's own steps:
                         \* sets of "cli", "status" and "config"

ASSUME ProcessAssumption == Process = {Server, Cli} /\ Server # Cli
ASSUME ResponsesAssumption == Responses \subseteq Config /\ Responses # {}

\* A developer's key is "gt_dev_...", an anonymous one "gt_anon_...".
ASSUME ClaimedKeyAssumption == ClaimedKey \notin AnonKey \cup {None}

VARIABLES server,        \* the locals of registration and of performInit()
          cli,           \* the locals of `glasstrace init`
          envKey,        \* GLASSTRACE_API_KEY in .env.local
          claimedFile,   \* .glasstrace/claimed-key
          mcpKey,        \* the bearer in .glasstrace/mcp.json
          spent          \* starts, events and claims so far, and the concerns

disk == <<envKey, claimedFile, mcpKey>>
vars == <<keyVars, configVars, runtimeVars, server, cli, disk, spent>>

Key == AnonKey \cup {ClaimedKey}

Stopped == [pc |-> "off", apiKey |-> None, exportKey |-> None, claim |-> FALSE, mcp |-> None]

\* resolveEffectiveMcpCredential() of process p
EffectiveCredential(p) ==
  IF envKey # None THEN envKey
  ELSE IF claimedFile # None THEN claimedFile ELSE ReadAnonKey(p)

\* resolveConfig() reads the environment only.
ColdStartKey == IF envKey # None THEN envKey ELSE ReadAnonKey(Server)

Spend(what) == spent' = [spent EXCEPT ![what] = @ + 1]
ServerAt(pc) == server.pc = pc /\ UNCHANGED cli
GoTo(pc) == server' = [server EXCEPT !.pc = pc]
FileFault == faults < MaxFaults /\ faults' = faults + 1
             /\ UNCHANGED <<keyFile, call, ephemeral, minted, overwritten>>

\* isCurrentRegistration()
Current == sdk.core \notin {"SHUTTING_DOWN", "SHUTDOWN"}

-----------------------------------------------------------------------------
\* The server

\* registerGlasstrace(): the writer starts, the cached configuration is
\* applied, the key taken from the environment.
ServerStarts ==
  /\ ServerAt("off") /\ spent.starts < MaxStarts
  /\ Register(IF envKey = None THEN "ANONYMOUS" ELSE "AUTHENTICATED")
  /\ ApplyCached
  /\ server' = [server EXCEPT !.apiKey = envKey, !.exportKey = envKey,
                              !.pc = IF envKey = None THEN "keying" ELSE "initing"]
  /\ Spend("starts")
  /\ UNCHANGED <<keyVars, disk>>

ServerAsksForKey ==
  /\ ServerAt("keying") /\ call[Server].result = None
  /\ GetOrCreateAnonKey(Server)
  /\ UNCHANGED <<configVars, runtimeVars, server, disk, spent>>

\* The key arrives; a registration that is over takes no notice.
KeyArrives ==
  /\ ServerAt("keying") /\ call[Server].result # None
  /\ \/ /\ Current
        /\ KeyIsResolved
        /\ server' = [server EXCEPT !.exportKey = call[Server].result, !.pc = "initing"]
     \/ ~ Current /\ GoTo("done") /\ UNCHANGED runtimeVars
  /\ UNCHANGED <<keyVars, configVars, disk, spent>>

\* Where the configuration is no concern, any one answer will do.
Answers == IF "config" \in spent.with THEN Responses ELSE {CHOOSE r \in Responses : TRUE}

\* performInit(): the answer is applied at once; it may carry a claim.
InitAnswers ==
  /\ ServerAt("initing")
  /\ \E response \in Answers, claim \in BOOLEAN :
       /\ claim => server.apiKey = None /\ spent.claims = 0
       /\ Serve(response)
       /\ server' = [server EXCEPT !.pc = "saving", !.claim = claim]
       /\ spent' = [spent EXCEPT !.claims = IF claim THEN 1 ELSE @]
  /\ UNCHANGED <<keyVars, runtimeVars, disk>>

\* No answer, or one that does not parse; there is no heartbeat without a
\* first success.
InitFails ==
  /\ ServerAt("initing")
  /\ \/ ~ Current /\ GoTo("done") /\ UNCHANGED runtimeVars
     \/ sdk.core = "KEY_PENDING" /\ CoreChanges("ACTIVE_DEGRADED") /\ GoTo("done")
     \/ sdk.core = "ACTIVE" /\ GoTo("active") /\ UNCHANGED runtimeVars
  /\ UNCHANGED <<keyVars, configVars, disk, spent>>

ConfigIsSaved ==
  /\ ServerAt("saving")
  /\ \E response \in saving : SaveCachedConfig(response)
  /\ GoTo(IF server.claim THEN "persist" ELSE "settle")
  /\ UNCHANGED <<keyVars, runtimeVars, disk, spent>>

\* writeClaimedKey(): .env.local, else a file of its own, else nowhere.
WriteClaimedKey ==
  /\ ServerAt("persist")
  /\ \/ /\ envKey' = ClaimedKey
        /\ GoTo("resolve")
        /\ UNCHANGED <<keyVars, claimedFile>>
     \/ /\ FileFault
        /\ claimedFile' = ClaimedKey
        /\ GoTo("resolve")
        /\ UNCHANGED envKey
     \/ /\ FileFault
        /\ GoTo("settle")
        /\ UNCHANGED <<envKey, claimedFile>>
  /\ UNCHANGED <<configVars, runtimeVars, mcpKey, spent>>

\* Mutant: the credential is the one from before the claim.
RefreshReads_Stale ==
  /\ ServerAt("resolve")
  /\ LET managed == mcpKey # None /\ mcpKey = ReadAnonKey(Server)
     IN server' = [server EXCEPT !.pc = IF managed THEN "rewrite" ELSE "settle",
                                 !.mcp = server.exportKey]
  /\ UNCHANGED <<keyVars, configVars, runtimeVars, disk, spent>>

\* refreshGenericMcpConfigAtRuntime() replaces a configuration that holds the
\* anonymous key on disk, and no other.
RefreshReads ==
  /\ ServerAt("resolve")
  /\ LET managed == mcpKey # None /\ mcpKey = ReadAnonKey(Server)
     IN server' = [server EXCEPT !.pc = IF managed THEN "rewrite" ELSE "settle",
                                 !.mcp = EffectiveCredential(Server)]
  /\ UNCHANGED <<keyVars, configVars, runtimeVars, disk, spent>>

RefreshWrites ==
  /\ ServerAt("rewrite")
  /\ \/ mcpKey' = server.mcp /\ UNCHANGED keyVars
     \/ FileFault /\ UNCHANGED mcpKey
  /\ GoTo("settle")
  /\ UNCHANGED <<configVars, runtimeVars, envKey, claimedFile, spent>>

\* backgroundInit(), or the tick, after performInit(): the core is active, and
\* a claimed key takes over, unless shutdown has begun.
Settle ==
  /\ ServerAt("settle")
  /\ \/ ~ Current /\ GoTo("done") /\ UNCHANGED runtimeVars
     \/ /\ Current
        /\ server' = [server EXCEPT !.pc = "active", !.claim = FALSE, !.mcp = None,
                                    !.exportKey = IF server.claim THEN ClaimedKey ELSE @]
        /\ \/ server.claim /\ AuthClaimed("ACTIVE")
           \/ ~ server.claim /\ sdk.core = "KEY_PENDING" /\ CoreChanges("ACTIVE")
           \/ ~ server.claim /\ sdk.core = "ACTIVE" /\ UNCHANGED runtimeVars
  /\ UNCHANGED <<keyVars, configVars, disk, spent>>

\* heartbeatTick(): performInit() again, with the keys of the registration.
Tick ==
  /\ ServerAt("active") /\ Current
  /\ spent.events < MaxEvents /\ Spend("events")
  /\ GoTo("initing")
  /\ UNCHANGED <<keyVars, configVars, runtimeVars, disk>>

OtelSettles ==
  /\ "status" \in spent.with
  /\ \/ OtelConfigured("OWNS_PROVIDER", "A")
     \/ OtelConfigured("COEXISTENCE_FAILED", "C/F")
  /\ UNCHANGED <<keyVars, configVars, server, cli, disk, spent>>

CircuitEvent ==
  /\ "status" \in spent.with
  /\ spent.events < MaxEvents /\ Spend("events")
  /\ CircuitOpened \/ CircuitClosed
  /\ UNCHANGED <<keyVars, configVars, server, cli, disk>>

WriterTimer ==
  "status" \in spent.with /\ TimerFires /\ UNCHANGED <<keyVars, configVars, server, cli, disk, spent>>

\* A reader of the configuration before registration has applied the cache.
ReadConfig ==
  "config" \in spent.with /\ ResolveActiveConfig /\ UNCHANGED <<keyVars, runtimeVars, server, cli, disk, spent>>

Shutdown ==
  /\ \/ sdk.core \notin {"IDLE", "SHUTTING_DOWN", "SHUTDOWN"} /\ CoreChanges("SHUTTING_DOWN")
     \/ sdk.core = "SHUTTING_DOWN" /\ CoreChanges("SHUTDOWN")
  /\ UNCHANGED <<keyVars, configVars, server, cli, disk, spent>>

\* The process is gone, and what it held in memory.  A death on the way to the
\* first answer, or within a claim, is a fault.
ServerEnds ==
  /\ server.pc # "off" /\ UNCHANGED cli
  /\ IF server.pc \in {"active", "done"} THEN UNCHANGED faults
     ELSE faults < MaxFaults /\ faults' = faults + 1
  /\ ProcessEnds /\ ConfigRestarts
  /\ server' = Stopped
  /\ call' = [call EXCEPT ![Server] = [NoCall EXCEPT !.calls = call[Server].calls]]
  /\ ephemeral' = [ephemeral EXCEPT ![Server] = None]
  /\ UNCHANGED <<keyFile, minted, overwritten, disk, spent>>

-----------------------------------------------------------------------------
\* `glasstrace init`

CliAt(pc) == "cli" \in spent.with /\ cli.pc = pc /\ UNCHANGED server

CliAsksForKey ==
  /\ CliAt("key") /\ call[Cli].result = None
  /\ GetOrCreateAnonKey(Cli)
  /\ UNCHANGED <<configVars, runtimeVars, cli, disk, spent>>

CliResolves ==
  /\ CliAt("key") /\ call[Cli].result # None
  /\ cli' = [cli EXCEPT !.pc = "write", !.credential = EffectiveCredential(Cli)]
  /\ UNCHANGED <<keyVars, configVars, runtimeVars, disk, spent>>

\* Late: the credential was read before a claim and is written after it.
CliWritesMcp ==
  /\ CliAt("write")
  /\ mcpKey' = cli.credential
  /\ cli' = [cli EXCEPT !.pc = "done", !.late = spent.claims > 0 /\ cli.credential # ClaimedKey]
  /\ UNCHANGED <<keyVars, configVars, runtimeVars, envKey, claimedFile, spent>>

CliDies ==
  /\ CliAt("key") /\ DiesInCall(Cli)
  /\ UNCHANGED <<configVars, runtimeVars, cli, disk, spent>>

-----------------------------------------------------------------------------

Init ==
  /\ KeyInit /\ ConfigInit /\ RuntimeInit
  /\ server = Stopped
  /\ cli = [pc |-> "key", credential |-> None, late |-> FALSE]
  /\ envKey = None /\ claimedFile = None /\ mcpKey = None
  /\ spent \in [starts : {0}, events : {0}, claims : {0}, with : Concerns]
  /\ "config" \notin spent.with => configFile = Default
  /\ "cli" \notin spent.with => keyFile = "absent"

Next ==
  \/ ServerStarts \/ ServerAsksForKey \/ KeyArrives
  \/ InitAnswers \/ InitFails \/ ConfigIsSaved
  \/ WriteClaimedKey \/ RefreshReads \/ RefreshWrites \/ Settle
  \/ Tick \/ OtelSettles \/ CircuitEvent \/ WriterTimer \/ ReadConfig \/ Shutdown \/ ServerEnds
  \/ CliAsksForKey \/ CliResolves \/ CliWritesMcp \/ CliDies

Spec == Init /\ [][Next]_vars

-----------------------------------------------------------------------------
\* Properties

TypeOK ==
  /\ KeyTypeOK /\ ConfigTypeOK /\ RuntimeTypeOK
  /\ server.pc \in {"off", "keying", "initing", "saving", "persist", "resolve", "rewrite",
                    "settle", "active", "done"}
  /\ {server.apiKey, server.exportKey, envKey, claimedFile, mcpKey} \subseteq Key \cup {None}

\* The state file tells of the process, and of its outages.
FileFollowsProcess == TypeOK /\ FileCatchesUp /\ OutageRecordFollowsCircuit

AtRest == server.pc = "active" /\ cli.pc = "done"

\* The bearer agents read traces with is the key the server exports them with,
\* once both processes are at rest: across a claim, restarts, and a CLI that
\* runs at any moment of it.  Not so after a fault, when a slow winner's key
\* was overwritten, or when the CLI wrote a credential from before the claim.
McpFollowsExport ==
  AtRest /\ faults = 0 /\ ~ overwritten /\ ~ cli.late => mcpKey = server.exportKey

\* A refresh never brings the configuration "out of sync with the credential
\* the runtime can actually read on the next cold start".  A claim that only
\* reached .glasstrace/claimed-key does: no start of the SDK reads that file.
RefreshMatchesColdStart ==
  [][server.pc = "rewrite" /\ mcpKey' # mcpKey => mcpKey' = ColdStartKey]_vars
=============================================================================
