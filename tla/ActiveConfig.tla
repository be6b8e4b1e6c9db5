---------------------------- MODULE ActiveConfig ----------------------------
(***************************************************************************)
(* The capture configuration of one server process: the record on          *)
(* globalThis that every bundled copy of the SDK shares                    *)
(* (active-config-store.ts), and the copy on disk that the next process    *)
(* starts with (init-client.ts).  The server may send a key for hashing    *)
(* attributes and full fidelity; neither may come from the disk.           *)
(***************************************************************************)
EXTENDS Naturals

CONSTANTS Revision     \* the configurations the server sends, numbered

ASSUME RevisionAssumption == Revision \subseteq Nat \ {0}

VARIABLES store,       \* the record: configuration, origin, key holder
          configFile,  \* the file; revision 0: missing, or not to be read
          saving       \* responses whose file is being written

configVars == <<store, configFile, saving>>

\* The envelope of result evidence may be one this version cannot read.
Config == [rev : Revision, full : BOOLEAN, keyed : BOOLEAN, envelope : {"none", "read", "unread"}]
Default == [rev |-> 0, full |-> FALSE, keyed |-> FALSE, envelope |-> "none"]

NoStore == [config |-> Default, origin |-> "none", checked |-> FALSE, key |-> 0]

\* normalizeCachedCaptureConfig()
NormalizeCached(config) == [config EXCEPT !.keyed = FALSE, !.full = FALSE]

\* parseInitResponseWithEnvelopeTolerance(): only the envelope is dropped.
ParseTolerantly(response) ==
  IF response.envelope = "unread" THEN [response EXCEPT !.envelope = "none"] ELSE response

\* Mutant: the key of the configuration before stays.
SetActiveConfig_KeepsKey(config, origin) ==
  store' = [store EXCEPT !.config = [config EXCEPT !.keyed = FALSE], !.origin = origin,
                         !.key = IF config.keyed THEN config.rev ELSE @]

\* setActiveConfig(): the key is split off into its holder, or cleared.
SetActiveConfig(config, origin) ==
  store' = [store EXCEPT !.config = [config EXCEPT !.keyed = FALSE], !.origin = origin,
                         !.key = IF config.keyed THEN config.rev ELSE 0]

OnDisk == configFile.rev # 0

\* Mutant: what an earlier version wrote is taken as it is.
LoadCached_Raw == ParseTolerantly(configFile)

\* loadCachedConfigTolerant()
LoadCached == NormalizeCached(ParseTolerantly(configFile))

\* registerGlasstrace() applies the file before anything is served.
ApplyCached ==
  /\ IF OnDisk THEN SetActiveConfig(LoadCached, "cache") ELSE UNCHANGED store
  /\ UNCHANGED <<configFile, saving>>

\* resolveActiveConfig(): a reader that finds nothing looks at the file once.
ResolveActiveConfig ==
  /\ store.origin = "none" /\ ~ store.checked
  /\ store' = IF OnDisk
              THEN [config |-> [LoadCached EXCEPT !.keyed = FALSE], origin |-> "cache",
                    checked |-> TRUE, key |-> IF LoadCached.keyed THEN LoadCached.rev ELSE 0]
              ELSE [store EXCEPT !.checked = TRUE]
  /\ UNCHANGED <<configFile, saving>>

\* performInit(): a response is applied, then saved.
Serve(response) ==
  /\ SetActiveConfig(ParseTolerantly(response), "server")
  /\ saving' = saving \cup {ParseTolerantly(response)}
  /\ UNCHANGED configFile

\* Mutant: the file gets the response as it came.
Cached_Raw(response) == response

Cached(response) == NormalizeCached(response)

\* saveCachedConfig() renames a whole file into place; a failure is a warning.
SaveCachedConfig(response) ==
  /\ response \in saving
  /\ saving' = saving \ {response}
  /\ configFile' \in {Cached(response), configFile}
  /\ UNCHANGED store

\* A new process; writes that were out are lost.
ConfigRestarts ==
  /\ store' = NoStore
  /\ saving' = {}
  /\ UNCHANGED configFile

ConfigInit ==
  /\ store = NoStore
  /\ configFile \in {Default} \cup
       [rev : {CHOOSE r \in Revision : TRUE}, full : {TRUE}, keyed : {TRUE}, envelope : {"none", "unread"}]
  /\ saving = {}

\* getOperationConfigView(): what a traced operation goes by.
OperationConfigView ==
  [full |-> store.config.full, key |-> store.key, evidence |-> store.config.envelope = "read"]

-----------------------------------------------------------------------------
\* Properties

ConfigTypeOK ==
  /\ store \in [config : Config \cup {Default}, origin : {"none", "server", "cache"},
                checked : BOOLEAN, key : Revision \cup {0}]
  /\ configFile \in {Default} \cup Config
  /\ saving \subseteq Config

\* Full fidelity and a hashing key are in force only while the configuration
\* in force came from the server, and the key is the one that came with it:
\* "no copy can hash with a stale/wrong-tenant key".  A file an earlier version
\* wrote with a key in it does not bring it back.
SecretsAreServed ==
  /\ OperationConfigView.full => store.origin = "server"
  /\ store.key # 0 => store.origin = "server" /\ store.key = store.config.rev

\* What this version writes to disk holds neither the key nor full fidelity.
NoSecretIsSaved == [][configFile' # configFile => ~ configFile'.keyed /\ ~ configFile'.full]_configFile
=============================================================================
