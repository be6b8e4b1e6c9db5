# Verification of the Glasstrace SDK

TLA+ modules, TLC runs and TLAPS proofs about the control flow of
`packages/sdk`: when spans are exported and when they are dropped, what the SDK
reports of itself, how it starts and stops, what it keeps on disk, what its
wrappers do to the host's calls, and what its CLI does to a project. File
names below are relative to `packages/sdk/src/` unless they say otherwise.

## 1. The system

The SDK lives in one JavaScript process of a web application; its CLI is
another process on the same files. There are no threads, but very much is
asynchronous: OTLP exports, the init request, disk reads, hashes, timers, signals,
`beforeExit`. A handler runs to completion up to its next `await`; everything
else can happen in between. State is kept in module variables that all handlers
share, and in files that all processes share.

| part | state | operations | interacts with |
|---|---|---|---|
| circuit breaker (`export-circuit-breaker.ts`) | circuit, failure count, backoff, probe permit, generation, timer | shouldExport, recordSuccess, recordFailure, timer, resetForKeyRotation | asked by the exporter, pushes a degradation source into the lifecycle, emits opened/closed events |
| exporter (`enriching-exporter.ts`) | pending batches, delegate, shutdown flag | export, forceFlush, shutdown, notifyKeyResolved | reads the key, asks the breaker, calls the OTLP delegate, counts into the health collector |
| API key (`otel-config.ts`, `register.ts`) | resolvedApiKey and its hash | setResolvedApiKey, notifyApiKeyResolved | a change of key rotates the breaker and rebuilds the delegate |
| lifecycle (`lifecycle.ts`) | core, auth and OTel state, degradation registry | guarded setters, push/clear of a source, getStatus | every other part |
| shutdown coordinator (`lifecycle.ts`) | hook list, once-flag, signal listeners | registerShutdownHook, executeShutdown, signal handlers, beforeExit | calls the hooks of OTel and heartbeat |
| registration (`register.ts`, `otel-config.ts`) | the suspended async functions themselves | registerGlasstrace, configureOtel, backgroundInit | drives the lifecycle, registers hooks, starts the heartbeat |
| health report (`health-collector.ts`, `heartbeat.ts`, `init-client.ts`) | counters, two module flags, tick gate, backoff | record, collect, acknowledge, performInit, tick, final report | three callers share one performInit |
| configuration and claim (`init-client.ts`, `active-config-store.ts`) | the shared record, the cached file, `.env.local`, `claimed-key` | setActiveConfig, loadCachedConfig, saveCachedConfig, writeClaimedKey | read by every capture; a claim rotates the key and refreshes the MCP configuration |
| anonymous key, state file (`anon-key.ts`, `runtime-state.ts`) | a file each, an ephemeral key, lastError | getOrCreateAnonKey, lifecycle listeners, debounced writes | other processes of the same project, `glasstrace status` |
| atomic writes (`atomic-write.ts`) | one file and its temporary | write, fsync, rename, fsync of the directory | nearly everything above |
| transport (`https-transport.ts`) | one call | attempts, timeouts, sleeps, deadline, abort | performInit |
| wrappers (`middleware/`, `async-context/`, `trpc/`) | one async context and one span per call | wrap, observe, end; batch envelope | the host's handlers |
| capture (`side-effect/`, `adapters/prisma.ts`) | per-span budgets, compiled policies | recordSideEffect, capture, the query extension | the configuration in force at each await |
| source maps (`source-map-uploader.ts`, `config-wrapper.ts`) | one upload | discover, hash, upload direct or in chunks | a build that goes on writing maps |
| CLI (`cli/`, `agent-detection/`, `mcp-runtime.ts`) | the project's files | init, uninit, mcp add, upgrade-instructions, status, validate | the running SDK, the user |

What is hard about it, and what each part has to guarantee:

* **Late answers.** An export can be answered after its circuit, its key or its
  exporter has moved on. The breaker must neither be opened nor closed by an
  answer that says nothing about the present, the permit of a probe must come
  back, and every batch must be answered once.
* **Loops that look at changing state.** A flush issues batch after batch and a
  delegate may answer in the middle of the loop.
* **Two sources of truth.** The degradation registry and the core state have to
  agree although sources appear before the core can show them.
* **Shutdown against start-up.** Registration awaits imports, keys and a
  backend, and a signal may arrive in any of those awaits. Hooks registered
  then join a list that is being iterated.
* **Snapshots.** A report is collected, awaited and then subtracted from
  counters that have moved, by up to three callers; a hash is awaited while its
  key is rotated; a build hash is taken of maps that change before their upload.
* **Files that several processes write.** Cold starts race for one key, a claim
  is several writes, and a CLI runs in the middle of it.
* **Code of the host.** A handler may throw, return any kind of promise or never
  settle, and a tracer may fail at any point, but the handler must run once.
* **Undoing.** init edits files of the user; a rollback or an uninit has to find
  its own edits again and nothing else.

`PROJECT.json` lists these hazards at the line where each one bites, with the
property that would catch it.

## 2. Modules

    ExportCircuitBreaker      Lifecycle   ShutdownCoordinator      HealthReport
             |                      \       /
       ExportPipeline             Registration
        /         \                   |
    MCExport..  ExportPipeline_proofs   Registration_proofs

        AtomicFile  <-- (INSTANCE, implemented by) AtomicWrite
                                                    /       \
                                        MCAtomicWrite       AtomicWrite_proofs

    AnonKey  ActiveConfig  RuntimeState      TrpcBatch        CapturePolicy  SideEffect
         \       |       /                      |                     \       /
            LocalState                      TracedCalls              RequestEvidence
             /      \                        /        \                     |
    MCLocalState   LocalState_proofs  MCTraced..   TracedCalls_proofs   MCRequestEvidence,
                                                                        RequestEvidence_proofs

    ProjectText -- ProjectLayout -- ProjectReports -- GlasstraceCli -- MCGlasstraceCli
                                                               \-- GlasstraceCli_proofs
    HealthReport, HttpsTransport (MCHttpsTransport) -- Reporting_proofs
    SourceMapUpload (MCSource..) -- Reporting_proofs

### ExportCircuitBreaker

The closure of `createExportCircuitBreaker()`; one operator per method.
`pendingTimer` is the delay the probe timer was armed with (`NoTimer` if none).
`outagesAnnounced` is the number of opened events minus the number of closed
events emitted so far. `generation` is the rotation counter the
exporter compares before it records a result.

### ExportPipeline (EXTENDS ExportCircuitBreaker)

`GlasstraceExporter` with the key and the delegate's exports in flight. Each
handler is an action, except the two that loop and consult state at every
iteration: eviction (`EvictOldest`) and the flush (`FlushRefused`,
`FlushIssued`). `Busy` excludes all else while a loop runs, but for the
synchronous answer of the delegate to the export it was just given.
`inFlight` holds, for each export, the generation and key it was issued under
and whether it was admitted as a probe. `keySource` picks the registration path:
key file (resolved later, then notified), configured anonymous key (set, later
notified), configured development key (set, never notified). `coreStopped`: the
core is SHUTTING_DOWN or SHUTDOWN, after which an anonymous key is dropped
(`isCurrentRegistration()`); the exporter's own shutdown is another step, which a
coexisting provider may never make. `straggled` is a
history: an export was unanswered when the probe timer last fired.

External: the OTLP delegate (answers each export once, success or failure, in
any order, perhaps synchronously) and the batch span processor (hands over each
batch once and stops when shut down). Left out: span enrichment and the
per-trace error store, which no branch of this code reads.

### Lifecycle and ShutdownCoordinator

The three transition tables, the guarded setters (an illegal transition is a
logged no-op), the degradation registry with its recomputation and the catch-up
on reaching ACTIVE, and `getStatus().tracing`. The coordinator keeps the hook
list, the position of the live iterator of `executeShutdown()`, and the
handlers that will re-raise a signal. A hook is awaited until it settles or its
timeout fires (`HookEnds`); `awaited` is the one the loop waits for, whatever has
moved in the list since. `hookIndex` is a position in the *current* list, as
for JavaScript's array iterator, which is what makes registration during a
shutdown visible.

### Registration (EXTENDS Lifecycle, ShutdownCoordinator)

`registerGlasstrace()`, `configureOtel()` and `backgroundInit()` as the
sequence of awaits they are suspended at (`otelPc`, `initPc`), with the circuit
(one Boolean here: open or half-open), account claims, the shutdown marker,
signals and beforeExit. Another tool's provider may appear at any time
(`OtherProviderAppears`, external). Production and failed registrations are
actions of their own.

Abstractions: the key read is a step of its own even where a configured key
makes it synchronous (more interleavings, none fewer); an answer of the backend
comes after the one tick that `configureOtel()` yields (`InitAnswers`), the first
heartbeat tick, minutes later, also after its imports (`HeartbeatFindsMarker`); every claim is taken to
bring a new key, so that it rotates the breaker; console capture and the Prisma
and source-map wiring at the ends of the OTel paths have no state here.

### HealthReport

Counters, `performInit()` and its three callers. An action is the code between
two awaits: a `call` is idle, sent, saving (accepted, awaiting disk writes), or
returned (the caller has not continued yet). The two counters of spans are
handled alike and appear as one. Time is counted in heartbeat intervals: a
backoff window is the number of ticks that fall into it. The coordinator's part
is reduced to what it does with the heartbeat's hook, which it may call twice
(see Registration).

Abstractions: `performInit()` without a key is not reached by these callers; an
"accepted" report is one whose response was also parsed (on an unparsable
response the code deliberately keeps the counts and reports them again,
`init-client.ts:704-708`).

### AtomicWrite, AtomicFile

`atomicWriteFileWithTmp()` and its synchronous twin, one action per system call.
A writer is a process, or a promise of one; `pc` is the call it has just made,
`fd` the handle it holds, `written` the blocks `writeFile()` has put out. A step
fails (`IOError`, then `RemoveTmp`), the process dies (`Crash`), or the machine
loses power (`PowerLoss`).

External: the file system. An inode is `clean` when its bytes are on the disk;
a power loss empties any others it likes. `unsynced` is the set of directories a
power loss may leave: every one since the last directory fsync on POSIX, the
present one on NTFS, where the helper swallows the error of a directory fsync
(`platform`). Inodes are reused once no such directory and no handle names them.
`dir.age` counts renames onto the target and exists only to say which
directory is the later one.

`AtomicFile` is what callers may rely on: a value, the values a power loss may
leave, and the value each pending call asks for. The refinement mapping reads
the first from the inode under the target name, the second from the directories
in `unsynced`, the third from `pc` and `payload`.

Abstractions: the target exists at the start; file modes, and the directories
that `removeTmpResidue*()` may find under a temporary name, are left out.

### AnonKey

`getOrCreateAnonKey()` of each process, one action per file operation: read,
exclusive create, write, three re-reads, overwrite. `writeFile()` opens and then
writes, so the file is empty in between ("invalid"). An operation may fail, and a
process may die inside the call; both count against `MaxFaults`. `overwritten`
is a history: a call gave up on the winner.

### ActiveConfig

The record on `globalThis` (configuration, its origin, the key holder), the
cached file, and the writes of it that are out. Of a configuration only what
properties tell apart is kept: a revision, full fidelity, whether it carries a
hashing key, and whether its evidence capabilities can be read. `Cached` is
what `saveCachedConfig()` lets through, `LoadCached` what a new process accepts.

### RuntimeState

The lifecycle layers as the listeners see them, the module's variables
(`lastError`, scenario, debounce timer), and the file. A write takes its
snapshot when the timer fires and may fail.

### LocalState (EXTENDS AnonKey, ActiveConfig, RuntimeState)

A server process, from start to stop or death and again, and a `glasstrace init`
beside it, on shared files. The claim is modelled await by await: `.env.local`,
`claimed-key`, reading the effective credential, rewriting the MCP configuration,
rotation. `Concerns` splits the instances: what goes on beside the claim is the
CLI, the state file, or the configuration, not all three at once; the three
share no file but `anon_key`, which all of them have. `ClaimedKeyAssumption` says
that a developer key is no anonymous key: they have different prefixes.

### HttpsTransport

One call of `httpsPostJson()` over a discrete clock. Timers fire at their time
or up to `Lag` later. `socket` is the state of each attempt's connection; an
attempt whose answer is lost may have been acted on. `aborted` may be set from
the start. Callers are external.

### SourceMapUpload

A build whose compilers emit maps at any moment, removed maps, and one upload at
a time: by the webpack hook (the direct upload only, as in the code) or by a
script that picks direct or presigned by size. Each stage reads the files again;
a map is its version. `flight` are the puts of a chunk, `late` those the job
gave up on when `Promise.all()` rejected. The backend and the blob store are
external: they accept or not.

### TrpcBatch, TracedCalls

TrpcBatch is one HTTP request: the URL as `wrapBatchedHttpHandler()` reads it, the
calls tRPC makes, concurrently, and the middlewares around each. TracedCalls adds
the other two wrappers. `MembersAssumption` says what tRPC does with a batch: it
makes one call per member (external). A call goes from its tracer (no-op, working, failing
before or after it calls back) over its handler (value, throw, promise,
thenable, also one that calls back from its own `then`, twice or never) to the
observer and the watchdog. `mode` picks one of the two parts; they share nothing.

### CapturePolicy, SideEffect, RequestEvidence

CapturePolicy compiles an allowlist entry by entry: `Compile` is the loop of
`compileRowPolicy()` and `compileAggregatePolicy()`, with a budget, and
`LegacyColumns` the older policy without one. An
entry is data or one of three ways of not being so. `RowsAdmitted` and
`AggregatesAdmitted` say, without order, what a list admits; the runs compare.
SideEffect is what is put on one span with its budgets. RequestEvidence runs
queries through the extension: admission under one view of the configuration,
the query, each value, each hash, the bundle. The configuration may change at
any step. The columns of a single record are taken in any order, which allows
more than the code does. `dbSpan` is a span the adapter owns, `hostSpan` one of the host.

Abstractions: a value is its class ("good", "bad", "hashLike", ...), which is
what the checks of `allowlist.ts` distinguish; a hash is the key it was made
with; `Parts` keeps rows, aggregates and side effects apart.

### ProjectText, ProjectLayout, ProjectReports, GlasstraceCli

ProjectText has the edits of files as operators on what the regular expressions
tell apart: sets of pieces for code, sequences of lines for `.env.local` and the
instruction files, an entry and the rest for MCP configurations. ProjectLayout
has the lookups: project root, instrumentation target, agents and where they
are, effective credential, marker. ProjectReports is what `status`, `validate`
and the upgrade notice conclude. GlasstraceCli runs the commands: an action is
what a command does between two awaits or in one `try` block; a write may fail and
a command may be killed between two steps. `original` and `before` are histories:
the files at the start, and when the command started. The SDK in the app's
server claims an account or sees the shutdown marker; the user edits a file.

Abstractions: the wording of sections and status lines; file modes; the native
`claude mcp add` and `codex mcp add`, which succeed or not (external); dry runs.

Assumed of the constants: the placeholder `your_key_here`, the empty text and the
`none` of an absent entry are no keys, which all have a prefix of their own
(`KeysAssumption`); commands are run in the app or at the root of the repository (`Sites`); the agents are those of `AGENT_RULES` (`AgentAssumption`); the
server hands out a developer key (`ClaimAssumption`); the files at the start hold
texts of the kinds above, in any number and of any length, and an end marker behind
a start marker closes a section of the SDK's own lines (`ProjectsAssumption`).
The last is what the marker promises its reader: text typed between the markers is
replaced on an upgrade by design, and is not counted as the user's.

What fails, and how. A write that fails is thrown, or swallowed where the code
swallows it: a permission error in the MCP configurations and `.gitignore`, every
error of an instruction file (`InjectInto` writes any subset of its targets), of the
shutdown marker and of the discovery file. What init throws while it sets up MCP skips
the rest of that block (`McpThrows`). A `try` block of uninit over several files may
end after any of them (`CleanInPart`). The question about the developer key is
awaited: `UninitConfirmed` writes the text that was read before it (`cmd.env`), over
whatever the SDK has put there meanwhile.

A `next.config` expression is "unclosed" when `findMatchingDelimiter()` finds no
parenthesis for the wrapper's, "misclosed" when it finds an earlier one. The
former is left wrapped. The latter is cut where the found parenthesis was
and is "broken" from then on: `KeepsConfig` allows that loss of form and no other.

## 3. Runs

| run | instance | shows |
|---|---|---|
| `export_pipeline` | 4 batches of 1, 1, 2, 4 spans; threshold 2; backoff 30, x2, at most 100; buffer 3 spans; 2 keys; all key sources | `BreakerConsistent`, one probe, backoff, no issue while open, every batch and span accounted for once in a bounded buffer, every batch answered unless stranded by the core's shutdown, outages end and permits come back |
| `registration` | both modes, provider present or not, one shutdown, one claim at a time | registry, core and circuit agree, hooks run in order and none is skipped by a failure, no heartbeat after shutdown, shutdown ends, registration settles |
| `registration_hook_runs_once` | same | *violated*: a hook registered during shutdown makes another run twice |
| `health_report` | 2 spans, 3 sent ticks, hook called at most twice | nothing recorded is lost, non-overlapping reports count once, one final report, no tick after it, a 429 is spent by its own tick, the gate opens again |
| `atomic_write` | 2 writers with names of their own, payloads of 1 and 2 blocks, 4 inodes, 2 calls, both platforms | a power loss leaves a whole file, a returned call is durable, the protocol implements `AtomicFile` |
| `local_state` | 2 processes, 3 keys, 2 responses, 2 starts, 2 events, 2 calls each, 1 fault | one key, secrets come from the server and stay off the disk, the state file follows the process, agents read with the key the server exports with |
| `https_transport` | timeout 5, deadline 12, 4 attempts, sleeps 2 and 4, lag 2 | over in time, nothing left behind, nothing sent after an abort |
| `source_map_upload` | 2 compilers, 3 maps, chunks of 2, 2 uploads | a manifest is whole, and a build hash names what was stored |
| `traced_calls` | 2 wrapped calls, 2 callbacks; 9 tRPC requests, 2 middlewares | handlers run once, spans end once and always, batch indices are the calls' own |
| `traced_index_is_own` | the tRPC requests | *violated*: two middlewares on one procedure share out the indices |
| `request_evidence` | lists of up to 3 of 10 row and 8 aggregate entries; 2 rows, 2 scalars, 2 operations per span; 5 configurations with 2 keys | policies deny by default, identifiers are hashed under one key, bundles add up, every refusal of a side effect is counted once, capture is gated |
| `glasstrace_cli` | 7 repositories, 5 agents, 3 sets of options, 2 commands, 1 fault, 1 claim | user text and credentials survive, a failed init is undone, uninit reverses init, `validate` and `status` agree with what commands leave, a repeated upgrade completes a hindered one |

**Bounds.** Four batches suffice for two failures that open the circuit, two
failed probes that reach the backoff's cap (30, 60, 100 instead of 120), or one
straggler and one probe; spans of 1, 2 and 4 against a buffer of 3 give
eviction of one and of several batches, and a batch larger than the buffer. Two
keys give one rotation with exports of both generations out. Three sent ticks
give two 429s in a row (a growing window) and one more tick beside the final
report. Registration needs no bounds: its state space is finite.
Two calls give two writers at once, or one writer that finds what its dead
predecessor left, with the target, both temporary files and the replaced
target needing at most four inodes. Two starts of the server give a cold start
on everything a claim, a fault or a death may leave. Four attempts with the last
delay repeated put the deadline into an attempt, into a sleep, or past the last
attempt; the first two can be over before the deadline. Three maps in chunks of
two give a failing put with another in flight and a chunk after it. Two calls
of a handler are independent but for the tracer and the notices, so two show every
interference; a batch of three with a repeated name is the smallest in which
counting can go wrong beside another name. Three entries give a duplicate, a
contradiction and an unsafe entry in every order. Two commands give each command
on what each other one leaves, and on what a killed one leaves; the repositories
are chosen for what the commands look at (`MCGlasstraceCli.tla`).
The constants of the code that these replace (`MAX_SIDE_EFFECT_*`,
`MAX_ROW_*`, chunks of 5, ...) are constants of the modules; the small values
reach every limit. Every bound is a guard or a named constant.
`CHECK_DEADLOCK FALSE` everywhere but in `https_transport`: when all is offered, or
the process has ended, nothing need happen. A call of the transport, however,
may not stop before it has settled, and there deadlock is checked.

**Fairness.** `ExportPipeline`: loops end (synchronous code), the delegate
answers each export (it has a timeout of its own), an armed timer fires,
registration stores a configured key and, unless the core shuts down first, resolves
an anonymous one (`getOrCreateAnonKey()` falls back to an ephemeral key). Nothing
is assumed of new batches, claims, the core's shutdown, forceFlush or the exporter's
shutdown. `Registration`: imports, key read, init and hooks settle or time out;
nothing is assumed of signals, the event loop draining or the circuit.
`HealthReport`: requests settle (the transport has a deadline, see
`https_transport`), settled promises run their continuations, a shutdown that
has begun goes on; the interval timer is unref'd and no fairness is assumed of
it. `TracedCalls`: a handler that was called returns or throws, and the event
loop runs observers and the watchdog's timer; nothing is assumed of the promise
or thenable that the handler returns. The other runs check safety only.

Each property of a passing run has a mutant, written right above the definition
it changes, that a plausible bug would produce; the run's property fails on it.
Where a property is a conjunction, further mutants beside it break the other
conjuncts.

## 4. Proofs

For all values of the constants that satisfy the named assumptions of each module.

* `ExportPipeline_proofs`, the breaker: each operation keeps `BreakerInv`,
  the conjunction of the type invariant, `TimerArmedIffOpen`,
  `OutageAnnouncedOnce` and `ClosedIsFresh`. None of the last three is
  inductive alone: closing needs the events to alternate, and the timer's
  delay needs the range of the backoff. `NextBackoffInRange` bounds the next delay.
  The exporter: `TypeCorrect`, `OpenHasTimer`, `OutagesAlternate`,
  `ClosedForgets`, together `BreakerStaysConsistent`, from `PipelineInv`.
  `ResultsAreOfTheCurrentKey` needs `KeyInv`:
  besides the property, the delegate's key is current or no delegate exists while
  the generation can be current, and generations in flight are never ahead.
  `OneProbe` needs `ProbeInv`: the probe is also of the current generation,
  otherwise a stale answer would take the probe away and leave its permit.
  `OpenCircuitIssuesNothing` and `OnlyProbesLengthenTheWait` are action
  properties that follow step by step from these invariants.
  `BatchesStayAccounted` comes from `AccountInv`. That a batch is held once is
  not inductive as a sum of cardinalities; that the places (buffer, flush loop,
  delegate, answered) are pairwise disjoint, hold a batch once and make up what was
  offered, is (`PlaceInv`). Over disjoint sets the sums move with the batches
  (`CountInv`). The buffer's bound is about all but its newest batch.
* `Registration_proofs`: `RegistryAlwaysWins` and `CircuitSourceFollows`,
  together `RegistryStaysSound`, from `RegistryInv`, over every step of
  registration and shutdown. `HooksStaySound` and `NoLateHeartbeat` come from
  `HooksInv`. `IteratorInv` says what the iterator has behind it in an array that
  is sorted under it: whatever an insertion moves back to a position it has
  reached was there already, and is called again rather than left out; a hook behind
  it has ended unless it is the one awaited. `Phases` ties the coordinator to the
  registration: once the shutdown has begun the core is stopping, and a background
  init that comes to its end then does not start a heartbeat.
* `AtomicWrite_proofs`: types; `FileAlwaysSurvives` and
  `ImplementsAtomicFile` for writers with distinct temporary names (`OwnTmp`), from
  `WriteInv`. `CrashSafe` alone is not inductive: writing a temporary file must
  not touch a target of any directory that may come back (`TmpApart`), no such
  directory may give one inode two names (`NamesApart`, needed after a power loss),
  and a call about to rename must know its file is whole and clean (`Progress`).
  The refinement goes action by action: rename is `Replace`, failure and death
  are `GiveUp`, a directory fsync is `Settle`, the rest stutters.
  `ReturnedMeansDurable` needs no assumption on names; `DurableInv` adds that
  a rename a call remembers is not in the future.
* `Reporting_proofs`, of HealthReport: `ReportsStaySound`, `ReportedOnce`, `ReportIsFinal` and
  `TicksStayInOrder` from `HealthInv`, for any number of spans, ticks and calls of
  the hook. Exactly-once needs `Counted`: a report that is out alone does not exceed
  the counters, so that its acknowledgement is not clamped. The background init
  reads its own outcome because it is alone (`BackgroundAlone`): the timer and
  the hook exist only after it. `TickGate` says who may hold the rate-limit flag.
* `Reporting_proofs`, of HttpsTransport: `CallSettlesCleanly` and `AbortedCallStops` from
  `PostInv`, for every timeout, deadline, list of delays, number of attempts and
  lag. The reason lags do not add up is its second conjunct: no timer is ever set
  past the deadline.
* `LocalState_proofs`: `OneKeyWins` from `KeyInv`. As long as nothing failed and
  nobody overwrote, at most one process is between open and write, the file is
  empty until it has written, and nobody holds a key in memory (`OneWriter`).
  `SecretsComeFromServer` and `DiskHoldsNoSecret` from `ConfigInv`: besides the
  property, every response whose save is still out is one of the server's. Both
  invariants are shown for the whole of LocalState, claims, restarts and CLI
  included. `FileTellsOfProcess` adds `RuntimeInv`: no outage before
  registration, so a writer that starts without an error is right about the circuit.
  `BearerFollowsExports` comes from `McpInv`: while all is calm, how far a claim
  has come says which of the three credentials is where (`ClaimProgress`), exports
  use the project's own key until the claim is settled and the claimed one after
  (`Exports`), and the bearer is behind it only while the claim is still to rewrite it (`Bearer`).
* `Reporting_proofs`, of SourceMapUpload: `UploadsStaySound` from `UploadInv`, for any
  compilers, maps and chunk size. `Chunks` accounts for every map with a token: in
  flight, to come, stored with the version that was put, or skipped because it could
  not be read. `Steady` says that what was read or hashed is what is on the disk,
  unless a map has changed under the upload.
* `TracedCalls_proofs`: `CallsRunOnce` from `CallInv`, for any set of calls and
  any number of callbacks. `Good` ties the guard to the span: the span has not
  ended while the guard is armed, which makes the three enders exclude each other.
  `IndicesAreOwn` comes from `BatchInv`, for every batch and every order of
  arrival: a name's counter is the number of its arrivals, an arrival has the
  position that this number picks, and no call arrives twice. That the k-th to
  arrive is the k-th of its name is a bijection (`TakenInOrder`); that positions do
  not run out, an injection into the calls (`TakenFits`).

* `RequestEvidence_proofs`, from `EvidenceInv`: `ListsAreRead` needs only that the
  list is one of entries; `ReadsUpTo` says of the policy after n entries what it
  should be of the first n, whatever their order, and a model or bucket that two
  entries contradict stays void (`StandsFor`). `EvidenceStaysSound` needs to know
  what a query holds at each of its awaits (`Projecting`, `Hashing`): what it has
  committed comes from cells of its own result, an identifier only under the view's
  key and full fidelity, and the hash it waits for still has a slot. A row's emitted
  scalars are an image of its candidates, so they are no more. `RefusalsAreCounted` adds up,
  call by call, what a span was due (`due`): one omission for each refusal under the
  budget it met, the label of the latest operation that was admitted; `CaptureStaysGated` is read off the same steps.

* `GlasstraceCli_proofs`, from `CliInv`, for any repository, options, keys and number
  of commands, faults, kills and claims. Assumed of the repository (`ProjectsAssumption`):
  its files are of the kinds `TypedFiles` tells apart (an MCP configuration is JSON or
  not, with other servers or not, and with an entry of ours or not), and an end marker behind a start
  marker closes a section that is ours alone (`SectionsWhole`). `ProjectStaysSound`: `UserTextKept` alone is not
  inductive. Every text must be one the edits are meant for, and the files of the
  command's start must hold the user's text too, because a rollback brings them
  back (`AllKept`); it undoes what it has on a list, so at each of
  the scaffolding steps the files are those of the start with exactly the
  edits on that list (`Scaffolding`, which also gives `FailedInitIsUndone`); and
  the SDK writes a text it read earlier, over whatever a command has made
  of the file since, so that text must hold the user's lines and the key (`Claims`);
  and so does uninit after its question (`Asked`).
  A file is written by many steps and each can keep text, keys and form or not: a
  step is shown `Tame`, which is all of them, except the four that may take
  something: a rollback, uninit's removal of `.glasstrace/` and its edit of
  `.env.local`, and the claim's write. `KeysSurvive` looks at those four.
  Below are the lemmas about the edits: `filter()` keeps the lines it names, in
  number and in order; `injectInfoSection()` and `removeMarkerSection()` take lines only between
  markers, and leave sections whole; wrapping and unwrapping, and injecting and
  removing the call, are inverse where the code says they are.
  `UpgradeIsIdempotent`: a file that was written has the current stamp (`UpToDate`),
  writing it again gives the same text (`ManagedTwice`), and whichever of the targets
  were written, a second run finds the same ones (`SameTargets`). So a run that some
  targets failed in is completed by the next, and one without failures is final.
  `UninitGivesBack` compares the end of uninit with the files before the first
  command, whatever commands have run in between, over and over. Its invariant
  (`Reversible`, as long as it is `Quiet`: no fault, and no SDK running) says of each
  file what all the steps of all the commands together can have made of the text
  it had (`Edited`) or of its absence (`Added`), and of the files uninit has been
  through already that they are given back (`Behind`, `Undone`). Every edit keeps
  that form (the `...Undoable` lemmas), however often it is made, and each step
  of uninit inverts it for its files (the `...Back` lemmas). `UninitMisses` names what
  cannot be given back: the proof found every case of it or failed, and needs
  no exception for a declined `.env.local`.
  `CommandsAreSettled` adds what `status` and `validate` say at the end of init and
  uninit (`EndsConsistently`). What one of their steps contributes no later
  one takes back, whatever the answers, so `QuietlySettled` says at each `pc`
  what init has set up so far (`SetUp`: the call, the key, the
  credential it has resolved, an agent's entry and the stamp of the marker) and
  what uninit has taken away (`Cleared`). That uninit can empty `.glasstrace/` and
  the MCP configurations at all rests on `Reversible`, and what the reports conclude
  from a directory with these parts is `InitReports` and `UninitReports`.

**Induction over data.** The library's induction theorems cannot be used, and the
folds and loops of the models still have to be reasoned about. Where a proof needs
it, the least counterexample is taken from a well-founded order (`WFMin` with
`NatLessThanWellFounded`, or with the strict subsets of a finite set) and
refuted by the step: sums over sets in ExportPipeline_proofs, the loop of
`buildEnvelope()` in TracedCalls_proofs (`UpTo`, `LoopRuns`), the loop over the entries
of a list in RequestEvidence_proofs (`HoldsUpTo`, `CompileLoops`), `filter()` over the
lines of a file in GlasstraceCli_proofs (`UpTo`).

Only model-checked. Every invariant and every action property of a passing run is
stated by a theorem. Liveness, which the prover does not do, stays with TLC:
`EveryBatchAnswered`, `OutagesEnd`, `ShutdownCompletes`, `RegistrationSettles`,
`TickGateReopens` and `EverySpanEnds`.

## 5. Findings

Each is quoted with its lines in `PROJECT.json`. The first two have a run of their
own. The others have a configuration beside the modules, or are found by the
named run's configuration with its properties replaced by the one named:
`tlc -config <file>.cfg <module>` prints the counterexample.

| what | property | how |
|---|---|---|
| A hook registered while `executeShutdown()` awaits another makes that one run twice and is itself never called: in-place sort under a live iterator | `HookRunsOnce` | run `registration_hook_runs_once` |
| Two traced middlewares on one procedure each take an occurrence of its name in the batch | `IndexIsOwn` | run `traced_index_is_own` |
| An export from before the outage decides HALF_OPEN in place of the probe | `OnlyProbeDecides` | MCExportPipeline, `ExportStraggler.cfg` |
| A signal during a running shutdown re-raises at once, hooks still pending | `ReraiseAfterDrain` | Registration, `Registration_ReraiseAfterDrain.cfg` |
| An open circuit is not always reported as degraded | `OpenCircuitReportsDegraded` | Registration, `Registration_OpenCircuitReportsDegraded.cfg` |
| The final report and a tick in flight report the same counts twice | `ReportedExactlyOnce` | HealthReport, `HealthDoubleReport.cfg` |
| Two writers of one target share `<target>.tmp`; readers can find the target empty | `ReadersNeverSeePartial` | MCAtomicWrite, `AtomicWriteShared.cfg` |
| `mcp add` after a claim does nothing, because the SDK has already stamped the marker | `McpAddRefreshes` | MCGlasstraceCli, `GlasstraceCli_McpAddRefreshes.cfg` |
| uninit leaves `src/instrumentation.ts` | `UninitReverses` | MCGlasstraceCli, `GlasstraceCli_UninitReverses.cfg` |
| uninit removes the shutdown marker before a heartbeat can see it | `MarkerIsSeen` | MCGlasstraceCli, `GlasstraceCli.cfg` with `SPECIFICATION FairSpec` |
| A rollback or an uninit breaks a `next.config` whose expression it misreads: a template in a template, or a regular expression with a parenthesis | `ConfigsUnbroken` | MCGlasstraceCli, `GlasstraceCli.cfg` |
| A slow winner of the key race loses its key to one that waited 100 ms | `OneKey` | MCLocalState, `LocalState.cfg` |
| An outage erases the recorded failure of auto-attach | `AttachmentFailureKept` | MCLocalState, `LocalState.cfg` |
| A claim that only reached `claimed-key` still rewrites the MCP configuration | `RefreshMatchesColdStart` | MCLocalState, `LocalState.cfg` |

Noted while modelling, without a property that claims otherwise:

* After a failed background init the core is ACTIVE_DEGRADED with no source in
  the registry, so an open/close cycle of the circuit makes it ACTIVE. A configured
  development key is stored without notifying exporters, and an anonymous key that comes
  after the core began to stop is dropped: what is buffered then may never be answered
  (`Stranded`). A hook registered after the shutdown is over never runs.
* A rollback or uninit deletes an instrumentation file that the user wrote and
  that looks exactly like init's (`IsInitCreatedInstrumentation`, `RollbackMisses`);
  a rollback may take a developer key the SDK wrote while init ran. uninit
  removes the import of a `registerGlasstrace({...})` call it leaves in place
  (`RemoveRegisterGlasstrace`), and `claimed-key` goes with the directory, without the
  consent that the same key in `.env.local` needs.
* `validate` looks at `instrumentation.ts` in the root only and takes any MCP
  configuration for one of the SDK's (`MayBeReported`); the upgrade notice names
  files that `upgrade-instructions` never touches (`NoticeStays`).
* MCP configurations other than Windsurf's are replaced as a whole.
* In the single-record path of the Prisma adapter the key is read again for every
  column, so two identifiers of one record may be hashed under two keys. An entry that is
  unsafe to look at voids the bounded-row policy but is read without protection
  by the older one (`adapters/prisma.ts:1352`). A span has room for one operation's label and kind: a
  later one replaces them, uncounted, and a call of an unknown kind, or with the
  switch off, leaves no trace (`CountersExact` says what is counted). A status or phase stays on a span
  when a later operation without one replaces the label (`side-effect/emit.ts:238`).

* `upgrade-instructions` lists files as refreshed that it could not write, and exits
  with 0; the warning is all that tells (`UpgradeSettles`).

## 6. Not modelled

Listed with a reason in `PROJECT.json`. Span enrichment, error capture, the Drizzle
logger, session identifiers and diagnostics extract or format values and keep next
to no state. Environment detection and build information are constants of a run.
The wire protocol is declarative schemas; its caps appear as constants.
`scripts/check-no-internal-ids.mjs` is a lint of the repository, not a part of the SDK.

## 7. What is left

1. Abstract specifications of an outage and of span delivery, implemented by
   ExportPipeline; one of the project's state for the CLI.
2. `waitForReady()` and the event emitter of `lifecycle.ts`.
3. The two-rename Windows path of `discovery-file.ts`.
