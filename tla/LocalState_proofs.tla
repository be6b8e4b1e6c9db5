--------------------------- MODULE LocalState_proofs ---------------------------
(***************************************************************************)
(* Any number of cold starts end with the one key that is in the file, as  *)
(* long as no file operation failed and no call gave up on the winner: for *)
(* every set of keys and responses and every bound, while claims,          *)
(* restarts, ticks and a CLI go on beside them.  And the secrets of the    *)
(* configuration come from the server only, and never reach the disk.      *)
(***************************************************************************)
EXTENDS LocalState, TLAPS

Call == [pc : {"idle", "create", "write", "reread", "overwrite"}, key : AnonKey \cup {None},
         tries : 0 .. 3, result : AnonKey \cup {None}, calls : Nat]
Types ==
  /\ keyFile \in {"absent", "invalid"} \cup AnonKey
  /\ call \in [Process -> Call]
  /\ ephemeral \in [Process -> AnonKey \cup {None}]
  /\ minted \subseteq AnonKey /\ faults \in Nat

Calm == faults = 0 /\ ~ overwritten

\* As long as nothing went wrong there is one writer, and the file stays
\* empty until it has written; nobody keeps a key in memory.
OneWriter ==
  /\ \A p \in Process : ephemeral[p] = None
  /\ \A p \in Process : call[p].pc = "write" =>
       keyFile = "invalid" /\ \A q \in Process : call[q].pc = "write" => p = q
  /\ \A p \in Process : call[p].result # None => keyFile = call[p].result

KeyInv ==
  /\ Types
  /\ \A p \in Process : call[p].pc \in {"create", "reread"} => call[p].tries < 3
  /\ \A p \in Process : call[p].pc # "idle" => call[p].key \in AnonKey
  /\ Calm => OneWriter

LEMMA KeyInitInv == KeyInit => KeyInv
<1> SUFFICES ASSUME KeyInit PROVE KeyInv
  OBVIOUS
<1>1. \A p \in Process : call[p] = NoCall /\ ephemeral[p] = None
  BY DEF KeyInit
<1>2. Types
  <2>1. call \in [Process -> Call]
    BY DEF KeyInit, NoCall, Call
  <2>2. ephemeral \in [Process -> AnonKey \cup {None}] /\ minted \subseteq AnonKey /\ faults \in Nat
    BY DEF KeyInit
  <2>3. keyFile \in {"absent", "invalid"} \cup AnonKey
    BY DEF KeyInit
  <2>4. QED
    BY <2>1, <2>2, <2>3 DEF Types, Call
<1>3. QED
  BY <1>1, <1>2 DEF KeyInv, Calm, OneWriter, NoCall

\* The calls of the other processes.
OthersKept(p) == \A q \in Process : q # p => call'[q] = call[q]

LEMMA Returned ==
  ASSUME Types, NEW p \in Process, NEW key \in AnonKey \cup {None}, Return(p, key)
  PROVE  /\ call' \in [Process -> Call] /\ OthersKept(p)
         /\ call'[p].pc = "idle" /\ call'[p].result = key
<1>1. call[p] \in Call
  BY DEF Types
<1>2. [call[p] EXCEPT !.pc = "idle", !.result = key] \in Call
  BY <1>1 DEF Call
<1>3. call' = [call EXCEPT ![p] = [call[p] EXCEPT !.pc = "idle", !.result = key]]
  BY DEF Return, Types
<1>4. call' \in [Process -> Call] /\ OthersKept(p) /\ call'[p] = [call[p] EXCEPT !.pc = "idle", !.result = key]
  BY <1>2, <1>3 DEF Types, OthersKept
<1>5. QED
  BY <1>1, <1>4 DEF Call

LEMMA WentTo ==
  ASSUME Types, NEW p \in Process, NEW pc \in {"write", "reread"}, Goto(p, pc)
  PROVE  /\ call' \in [Process -> Call] /\ OthersKept(p)
         /\ call'[p].pc = pc /\ call'[p].key = call[p].key
         /\ call'[p].result = call[p].result /\ call'[p].tries = call[p].tries
BY DEF Goto, Types, Call, OthersKept

\* A call that falls back has failed: nothing is promised any more.
LEMMA FallBackKeeps ==
  ASSUME KeyInv, NEW p \in Process, call[p].pc # "idle", FallBack(p), UNCHANGED keyFile
  PROVE  KeyInv'
<1>1. Types /\ call[p].key \in AnonKey /\ Return(p, call[p].key)
  BY DEF FallBack, KeyInv
<1>2. /\ call' \in [Process -> Call] /\ OthersKept(p) /\ call'[p].pc = "idle"
  BY <1>1, Returned
<1>3. ephemeral' \in [Process -> AnonKey \cup {None}]
  BY <1>1 DEF FallBack, Types
<1>4. faults' \in Nat /\ faults' # 0 /\ UNCHANGED <<minted, keyFile>>
  BY <1>1 DEF FallBack, Types
<1>5. Types'
  BY <1>1, <1>2, <1>3, <1>4 DEF Types
<1>6. QED
  BY <1>2, <1>4, <1>5 DEF KeyInv, Calm, OthersKept

LEMMA BeginKeeps ==
  ASSUME KeyInv, NEW p \in Process, Begin(p)
  PROVE  KeyInv'
<1>1. Types /\ call[p] \in Call /\ UNCHANGED <<keyFile, ephemeral, faults, overwritten>>
  BY DEF KeyInv, Types, Begin
<1>2. call[p].calls + 1 \in Nat
  BY <1>1 DEF Call
<1>3. CASE /\ ReadAnonKey(p) # None
           /\ call' = [call EXCEPT ![p].result = ReadAnonKey(p), ![p].calls = @ + 1]
           /\ UNCHANGED minted
  <2>1. ReadAnonKey(p) \in AnonKey
    BY <1>1, <1>3 DEF ReadAnonKey, Types
  <2> DEFINE next == [call[p] EXCEPT !.result = ReadAnonKey(p), !.calls = @ + 1]
  <2>2. /\ next \in Call /\ next.result = ReadAnonKey(p) /\ next.key = call[p].key
        /\ next.pc = call[p].pc /\ next.tries = call[p].tries
    BY <1>1, <1>2, <2>1 DEF Call
  <2>3. call' = [call EXCEPT ![p] = next]
    BY <1>1, <1>3 DEF Types
  <2> HIDE DEF next
  <2>4. call' \in [Process -> Call] /\ OthersKept(p) /\ call'[p] = next
    BY <1>1, <2>2, <2>3 DEF Types, OthersKept
  <2>5. Types'
    BY <1>1, <1>3, <2>4 DEF Types
  <2>6. Calm => OneWriter'
    BY <1>1, <1>3, <2>2, <2>4 DEF KeyInv, ReadAnonKey, OneWriter, OthersKept
  <2>7. QED
    BY <1>1, <2>2, <2>4, <2>5, <2>6 DEF KeyInv, OthersKept, Calm
<1>4. ASSUME NEW key \in AnonKey, minted' = minted \cup {key},
             call' = [call EXCEPT ![p] = [pc |-> "create", key |-> key, tries |-> 0,
                                          result |-> None, calls |-> call[p].calls + 1]]
      PROVE  KeyInv'
  <2> DEFINE next == [pc |-> "create", key |-> key, tries |-> 0, result |-> None,
                      calls |-> call[p].calls + 1]
  <2>1. /\ next \in Call /\ next.pc = "create" /\ next.result = None
        /\ next.key = key /\ next.tries = 0
    BY <1>1, <1>2 DEF Call
  <2>2. call' = [call EXCEPT ![p] = next]
    BY <1>1, <1>4 DEF Types
  <2> HIDE DEF next
  <2>3. call' \in [Process -> Call] /\ OthersKept(p) /\ call'[p] = next
    BY <1>1, <2>1, <2>2 DEF Types, OthersKept
  <2>4. Types'
    BY <1>1, <1>4, <2>3 DEF Types
  <2>5. Calm => OneWriter'
    BY <1>1, <2>1, <2>3 DEF KeyInv, OneWriter, OthersKept
  <2>6. QED
    BY <1>1, <2>1, <2>3, <2>4, <2>5 DEF KeyInv, OthersKept, Calm
<1>5. QED
  BY <1>3, <1>4 DEF Begin

LEMMA CreateKeeps ==
  ASSUME KeyInv, NEW p \in Process, Create(p)
  PROVE  KeyInv'
<1>1. Types /\ call[p].pc = "create" /\ call[p].key \in AnonKey /\ call[p].tries < 3
  BY DEF KeyInv, Create
<1>2. CASE keyFile = "absent" /\ keyFile' = "invalid" /\ Goto(p, "write")
           /\ UNCHANGED <<ephemeral, minted, faults, overwritten>>
  <2>1. /\ call' \in [Process -> Call] /\ OthersKept(p) /\ call'[p].pc = "write"
        /\ call'[p].key = call[p].key /\ call'[p].result = call[p].result
    BY <1>1, <1>2, WentTo
  <2>2. Types'
    BY <1>1, <1>2, <2>1 DEF Types
  <2>3. \A q \in Process : call[q].result \in AnonKey \cup {None}
    BY <1>1 DEF Types, Call
  <2>4. ASSUME Calm PROVE \A q \in Process : call[q].result = None /\ call[q].pc # "write"
    BY <1>2, <2>3, <2>4, NoneAssumption DEF KeyInv, OneWriter
  <2>5. Calm => OneWriter'
    BY <1>2, <2>1, <2>4 DEF KeyInv, OneWriter, OthersKept
  <2>6. QED
    BY <1>1, <1>2, <2>1, <2>2, <2>5 DEF KeyInv, OthersKept, Calm
<1>3. CASE Goto(p, "reread") /\ UNCHANGED <<keyFile, ephemeral, minted, faults, overwritten>>
  <2>1. /\ call' \in [Process -> Call] /\ OthersKept(p) /\ call'[p].pc = "reread"
        /\ call'[p].key = call[p].key /\ call'[p].result = call[p].result
        /\ call'[p].tries = call[p].tries
    BY <1>1, <1>3, WentTo
  <2>2. Types'
    BY <1>1, <1>3, <2>1 DEF Types
  <2>3. Calm => OneWriter'
    BY <1>3, <2>1 DEF KeyInv, OneWriter, OthersKept
  <2>4. QED
    BY <1>1, <1>3, <2>1, <2>2, <2>3 DEF KeyInv, OthersKept, Calm
<1>4. CASE FallBack(p) /\ UNCHANGED keyFile
  BY <1>1, <1>4, FallBackKeeps
<1>5. QED
  BY <1>2, <1>3, <1>4 DEF Create

LEMMA WriteKeeps ==
  ASSUME KeyInv, NEW p \in Process, Write(p)
  PROVE  KeyInv'
<1>1. Types /\ call[p].pc = "write" /\ call[p].key \in AnonKey
  BY DEF KeyInv, Write
<1>2. CASE keyFile' = call[p].key /\ Return(p, call[p].key)
           /\ UNCHANGED <<ephemeral, minted, faults, overwritten>>
  <2>1. /\ call' \in [Process -> Call] /\ OthersKept(p)
        /\ call'[p].pc = "idle" /\ call'[p].result = keyFile'
    BY <1>1, <1>2, Returned
  <2>2. Types'
    BY <1>1, <1>2, <2>1 DEF Types
  <2>3. \A q \in Process : call[q].result \in AnonKey \cup {None}
    BY <1>1 DEF Types, Call
  <2>4. ASSUME Calm PROVE \A q \in Process : q # p => call[q].result = None /\ call[q].pc # "write"
    BY <1>1, <2>3, <2>4, NoneAssumption DEF KeyInv, OneWriter
  <2>5. Calm => OneWriter'
    BY <1>2, <2>1, <2>4 DEF KeyInv, OneWriter, OthersKept
  <2>6. QED
    BY <1>2, <2>1, <2>2, <2>5 DEF KeyInv, OthersKept, Calm
<1>3. CASE FallBack(p) /\ UNCHANGED keyFile
  BY <1>1, <1>3, FallBackKeeps
<1>4. QED
  BY <1>2, <1>3 DEF Write

LEMMA RereadKeeps ==
  ASSUME KeyInv, NEW p \in Process, Reread(p)
  PROVE  KeyInv'
<1>1. /\ Types /\ call[p] \in Call /\ call[p].pc = "reread" /\ call[p].tries < 3
      /\ UNCHANGED <<keyFile, ephemeral, minted, faults, overwritten>>
  BY DEF Reread, KeyInv, Types
<1>2. CASE ReadAnonKey(p) # None /\ Return(p, ReadAnonKey(p))
  <2>1. ReadAnonKey(p) \in AnonKey
    BY <1>1, <1>2 DEF ReadAnonKey, Types
  <2>2. /\ call' \in [Process -> Call] /\ OthersKept(p)
        /\ call'[p].pc = "idle" /\ call'[p].result = ReadAnonKey(p)
    BY <1>1, <1>2, <2>1, Returned
  <2>3. Types'
    BY <1>1, <2>2 DEF Types
  <2>4. Calm => OneWriter'
    BY <1>1, <1>2, <2>2 DEF KeyInv, ReadAnonKey, OneWriter, OthersKept
  <2>5. QED
    BY <1>1, <2>2, <2>3, <2>4 DEF KeyInv, OthersKept, Calm
<1>3. CASE call' = [call EXCEPT ![p].tries = @ + 1,
                                ![p].pc = IF call[p].tries = 2 THEN "overwrite" ELSE "reread"]
  <2> DEFINE next == [call[p] EXCEPT !.tries = @ + 1,
                                     !.pc = IF call[p].tries = 2 THEN "overwrite" ELSE "reread"]
  <2>1. call[p].tries + 1 \in 0 .. 3 /\ (call[p].tries # 2 => call[p].tries + 1 < 3)
    BY <1>1 DEF Call
  <2>2. /\ next \in Call /\ next.key = call[p].key /\ next.result = call[p].result
        /\ next.pc = (IF call[p].tries = 2 THEN "overwrite" ELSE "reread")
        /\ next.tries = call[p].tries + 1
    BY <1>1, <2>1 DEF Call
  <2>3. call' = [call EXCEPT ![p] = next]
    BY <1>1, <1>3 DEF Types
  <2> HIDE DEF next
  <2>4. call' \in [Process -> Call] /\ OthersKept(p) /\ call'[p] = next
    BY <1>1, <2>2, <2>3 DEF Types, OthersKept
  <2>5. Types'
    BY <1>1, <2>4 DEF Types
  <2>6. Calm => OneWriter'
    BY <1>1, <2>2, <2>4 DEF KeyInv, OneWriter, OthersKept
  <2>7. QED
    BY <1>1, <2>1, <2>2, <2>4, <2>5, <2>6 DEF KeyInv, OthersKept, Calm
<1>4. QED
  BY <1>2, <1>3 DEF Reread

\* An overwrite and a crash are among what went wrong.
LEMMA OverwriteKeeps ==
  ASSUME KeyInv, NEW p \in Process, Overwrite(p)
  PROVE  KeyInv'
<1>1. Types /\ call[p].pc = "overwrite" /\ call[p].key \in AnonKey
  BY DEF KeyInv, Overwrite
<1>2. CASE keyFile' = "invalid" /\ overwritten' = TRUE /\ Goto(p, "write")
           /\ UNCHANGED <<ephemeral, minted, faults>>
  <2>1. /\ call' \in [Process -> Call] /\ OthersKept(p)
        /\ call'[p].pc = "write" /\ call'[p].key = call[p].key
    BY <1>1, <1>2, WentTo
  <2>2. Types'
    BY <1>1, <1>2, <2>1 DEF Types
  <2>3. QED
    BY <1>1, <1>2, <2>1, <2>2 DEF KeyInv, OthersKept, Calm
<1>3. CASE FallBack(p) /\ UNCHANGED keyFile
  BY <1>1, <1>3, FallBackKeeps
<1>4. QED
  BY <1>2, <1>3 DEF Overwrite

LEMMA DeathKeeps ==
  ASSUME KeyInv, NEW p \in Process, DiesInCall(p)
  PROVE  KeyInv'
<1>1. Types'
  BY DEF DiesInCall, NoCall, KeyInv, Types, Call
<1>2. OthersKept(p) /\ call'[p].pc = "idle" /\ faults' # 0
  BY DEF DiesInCall, NoCall, KeyInv, Types, Call, OthersKept
<1>3. QED
  BY <1>1, <1>2 DEF KeyInv, OthersKept, Calm

LEMMA KeyStep ==
  ASSUME KeyInv, NEW p \in Process, GetOrCreateAnonKey(p) \/ DiesInCall(p)
  PROVE  KeyInv'
BY BeginKeeps, CreateKeeps, WriteKeeps, RereadKeeps, OverwriteKeeps, DeathKeeps DEF GetOrCreateAnonKey

LEMMA KeysUntouched ==
  ASSUME KeyInv, UNCHANGED keyVars
  PROVE  KeyInv'
BY DEF keyVars, KeyInv, Types, Calm, OneWriter

\* A failed file operation elsewhere.
LEMMA FaultKeeps ==
  ASSUME KeyInv, FileFault
  PROVE  KeyInv'
<1>1. Types' /\ faults' # 0
  BY DEF FileFault, KeyInv, Types
<1>2. QED
  BY <1>1 DEF FileFault, KeyInv, Calm

\* The end of the server process, also of one that was at rest: its successor
\* has no result and no key in memory.
LEMMA ServerEndKeeps ==
  ASSUME KeyInv, ServerEnds
  PROVE  KeyInv'
<1> DEFINE next == [NoCall EXCEPT !.calls = call[Server].calls]
<1>1. Types /\ Server \in Process /\ call[Server] \in Call
  BY ProcessAssumption DEF KeyInv, Types
<1>2. next \in Call /\ next.pc = "idle" /\ next.result = None
  BY <1>1 DEF NoCall, Call
<1>3. /\ call' = [call EXCEPT ![Server] = next] /\ ephemeral' = [ephemeral EXCEPT ![Server] = None]
      /\ UNCHANGED <<keyFile, minted, overwritten>>
  BY DEF ServerEnds
<1> HIDE DEF next
<1>4. faults' \in Nat /\ faults' >= faults
  BY <1>1 DEF ServerEnds, Types
<1>5. call' \in [Process -> Call] /\ OthersKept(Server) /\ call'[Server] = next
  BY <1>1, <1>2, <1>3 DEF Types, OthersKept
<1>6. Types'
  BY <1>1, <1>3, <1>4, <1>5 DEF Types
<1>7. Calm' => Calm /\ OneWriter'
  <2>1. Calm' => Calm
    BY <1>1, <1>3, <1>4 DEF Calm, Types
  <2>2. Calm => \A p \in Process : ephemeral'[p] = None
    BY <1>1, <1>3 DEF KeyInv, OneWriter, Types
  <2>3. QED
    BY <1>2, <1>3, <1>5, <2>1, <2>2 DEF KeyInv, OneWriter, OthersKept
<1>8. QED
  BY <1>2, <1>5, <1>6, <1>7 DEF KeyInv, OthersKept

\* Each step of the two processes keeps it.
LEMMA KeyInvStep == KeyInv /\ [Next]_vars => KeyInv'
<1> SUFFICES ASSUME KeyInv, [Next]_vars PROVE KeyInv'
  OBVIOUS
<1>1. CASE ServerAsksForKey \/ CliAsksForKey \/ CliDies
  BY <1>1, KeyStep, ProcessAssumption DEF ServerAsksForKey, CliAsksForKey, CliDies
<1>2. CASE WriteClaimedKey \/ RefreshWrites
  BY <1>2, FaultKeeps, KeysUntouched DEF WriteClaimedKey, RefreshWrites
<1>3. CASE ServerEnds
  BY <1>3, ServerEndKeeps
<1>4. CASE ServerStarts \/ KeyArrives \/ InitAnswers \/ InitFails \/ ConfigIsSaved
  BY <1>4, KeysUntouched DEF ServerStarts, KeyArrives, InitAnswers, InitFails, ConfigIsSaved
<1>5. CASE RefreshReads \/ Settle \/ Tick \/ OtelSettles \/ CircuitEvent
  BY <1>5, KeysUntouched DEF RefreshReads, Settle, Tick, OtelSettles, CircuitEvent
<1>6. CASE WriterTimer \/ ReadConfig \/ Shutdown \/ CliResolves \/ CliWritesMcp
  BY <1>6, KeysUntouched DEF WriterTimer, ReadConfig, Shutdown, CliResolves, CliWritesMcp
<1>7. CASE UNCHANGED vars
  BY <1>7, KeysUntouched DEF vars
<1>8. QED
  BY <1>1, <1>2, <1>3, <1>4, <1>5, <1>6, <1>7 DEF Next

LEMMA KeyInvAlways == Spec => []KeyInv
<1>1. Init => KeyInv
  BY KeyInitInv DEF Init
<1>2. QED
  BY <1>1, KeyInvStep, PTL DEF Spec

\* anon-key.ts, getOrCreateAnonKey(): all processes that start cold trace under
\* the key in the file, unless an operation failed or the winner was overrun.
THEOREM OneKeyWins == Spec => []OneKeyUnlessOverwritten
<1>1. KeyInv => OneKeyUnlessOverwritten
  BY DEF KeyInv, Calm, OneWriter, OneKeyUnlessOverwritten
<1>2. QED
  BY <1>1, KeyInvAlways, PTL

-----------------------------------------------------------------------------
\* The capture configuration (ActiveConfig)

AnyConfig == [rev : Nat, full : BOOLEAN, keyed : BOOLEAN, envelope : {"none", "read", "unread"}]

\* What is in force came from the server, or is clean.
StoreClean ==
  /\ store.config \in AnyConfig
  /\ store.config.full => store.origin = "server"
  /\ store.key # 0 => store.origin = "server" /\ store.key = store.config.rev

ConfigInv ==
  /\ StoreClean
  /\ store \in [config : AnyConfig, origin : {"none", "server", "cache"},
                checked : BOOLEAN, key : Nat]
  /\ configFile \in AnyConfig
  /\ saving \subseteq AnyConfig

LEMMA ResponsesTyped == Responses \subseteq AnyConfig /\ Default \in AnyConfig
BY ResponsesAssumption, RevisionAssumption DEF Config, Default, AnyConfig

LEMMA WithoutKey ==
  ASSUME NEW config \in AnyConfig
  PROVE  LET plain == [config EXCEPT !.keyed = FALSE]
         IN  /\ plain \in AnyConfig
             /\ plain.full = config.full /\ plain.rev = config.rev /\ plain.keyed = FALSE
BY DEF AnyConfig

LEMMA ParsedAndCached ==
  ASSUME NEW config \in AnyConfig
  PROVE  /\ ParseTolerantly(config) \in AnyConfig
         /\ NormalizeCached(config) \in AnyConfig
         /\ ~ NormalizeCached(config).full /\ ~ NormalizeCached(config).keyed
<1>1. ParseTolerantly(config) \in AnyConfig
  BY DEF ParseTolerantly, AnyConfig
<1>2. NormalizeCached(config) \in AnyConfig
  BY DEF NormalizeCached, AnyConfig
<1>3. NormalizeCached(config).full = FALSE /\ NormalizeCached(config).keyed = FALSE
  BY DEF NormalizeCached, AnyConfig
<1>4. QED
  BY <1>1, <1>2, <1>3

\* setActiveConfig(): with a clean configuration, or the server's.
LEMMA SetKeepsClean ==
  ASSUME ConfigInv, NEW config \in AnyConfig, NEW origin \in {"server", "cache"},
         origin = "cache" => ~ config.full /\ ~ config.keyed,
         SetActiveConfig(config, origin)
  PROVE  StoreClean' /\ store' \in [config : AnyConfig,
                                   origin : {"none", "server", "cache"},
                                   checked : BOOLEAN, key : Nat]
<1> DEFINE plain == [config EXCEPT !.keyed = FALSE]
           key == IF config.keyed THEN config.rev ELSE 0
<1>1. plain \in AnyConfig /\ plain.full = config.full /\ plain.rev = config.rev
  BY WithoutKey
<1>2. key \in Nat /\ (key # 0 => origin = "server" /\ key = config.rev)
  BY DEF AnyConfig
<1>3. store' = [store EXCEPT !.config = plain, !.origin = origin, !.key = key]
  BY DEF SetActiveConfig
<1> HIDE DEF plain, key
<1>4. store'.config = plain /\ store'.origin = origin /\ store'.key = key
  BY <1>3 DEF ConfigInv
<1>5. store' \in [config : AnyConfig, origin : {"none", "server", "cache"},
                 checked : BOOLEAN, key : Nat]
  BY <1>1, <1>2, <1>3 DEF ConfigInv
<1>6. QED
  BY <1>1, <1>2, <1>4, <1>5 DEF StoreClean

LEMMA ConfigInitInv == ConfigInit => ConfigInv
<1> SUFFICES ASSUME ConfigInit PROVE ConfigInv
  OBVIOUS
<1>1. (CHOOSE r \in Revision : TRUE) \in Nat
  BY ResponsesAssumption, RevisionAssumption DEF Config
<1>2. configFile \in AnyConfig
  BY <1>1, ResponsesTyped DEF ConfigInit, AnyConfig
<1>3. store.config = Default /\ ~ Default.full /\ store.key = 0
  BY DEF ConfigInit, NoStore, Default
<1>4. store \in [config : AnyConfig, origin : {"none", "server", "cache"}, checked : BOOLEAN, key : Nat]
  BY ResponsesTyped DEF ConfigInit, NoStore
<1>5. QED
  BY <1>2, <1>3, <1>4, ResponsesTyped DEF ConfigInit, ConfigInv, StoreClean

LEMMA ServeKeeps ==
  ASSUME ConfigInv, NEW response \in AnyConfig, Serve(response)
  PROVE  ConfigInv'
<1>1. ParseTolerantly(response) \in AnyConfig
  BY ParsedAndCached
<1>2. QED
  BY <1>1, SetKeepsClean DEF Serve, ConfigInv

LEMMA CacheKeeps ==
  ASSUME ConfigInv, ApplyCached \/ ResolveActiveConfig
  PROVE  ConfigInv'
<1>1. /\ LoadCached \in AnyConfig /\ ~ LoadCached.full /\ ~ LoadCached.keyed
  BY ParsedAndCached DEF ConfigInv, LoadCached
<1>2. CASE ApplyCached
  BY <1>1, <1>2, SetKeepsClean DEF ApplyCached, ConfigInv, StoreClean
<1>3. CASE ResolveActiveConfig /\ OnDisk
  <2> DEFINE plain == [LoadCached EXCEPT !.keyed = FALSE]
  <2>1. plain \in AnyConfig /\ ~ plain.full
    BY <1>1, WithoutKey
  <2>2. store' = [config |-> plain, origin |-> "cache", checked |-> TRUE, key |-> 0]
    BY <1>1, <1>3 DEF ResolveActiveConfig
  <2> HIDE DEF plain
  <2>3. store' \in [config : AnyConfig, origin : {"none", "server", "cache"}, checked : BOOLEAN, key : Nat]
    BY <2>1, <2>2
  <2>4. store'.config = plain /\ store'.key = 0
    BY <2>2
  <2>5. UNCHANGED <<configFile, saving>>
    BY <1>3 DEF ResolveActiveConfig
  <2>6. QED
    BY <2>1, <2>3, <2>4, <2>5 DEF ConfigInv, StoreClean
<1>4. CASE ResolveActiveConfig /\ ~ OnDisk
  BY <1>4 DEF ResolveActiveConfig, ConfigInv, StoreClean
<1>5. QED
  BY <1>2, <1>3, <1>4

LEMMA SaveKeeps ==
  ASSUME ConfigInv, NEW response \in saving, SaveCachedConfig(response)
  PROVE  ConfigInv'
<1>1. Cached(response) \in AnyConfig
  BY ParsedAndCached DEF ConfigInv, Cached
<1>2. QED
  BY <1>1 DEF SaveCachedConfig, ConfigInv, StoreClean

LEMMA ConfigRestartKeeps ==
  ASSUME ConfigInv, ConfigRestarts
  PROVE  ConfigInv'
<1>1. store' = NoStore /\ NoStore.config = Default /\ ~ Default.full /\ NoStore.key = 0
  BY DEF ConfigRestarts, NoStore, Default
<1>2. NoStore \in [config : AnyConfig, origin : {"none", "server", "cache"}, checked : BOOLEAN, key : Nat]
  BY ResponsesTyped DEF NoStore
<1>3. QED
  BY <1>1, <1>2 DEF ConfigRestarts, ConfigInv, StoreClean

LEMMA ConfigUntouched ==
  ASSUME ConfigInv, UNCHANGED configVars
  PROVE  ConfigInv'
BY DEF configVars, ConfigInv, StoreClean

LEMMA ConfigInvStep == ConfigInv /\ [Next]_vars => ConfigInv'
<1> SUFFICES ASSUME ConfigInv, [Next]_vars PROVE ConfigInv'
  OBVIOUS
<1>1. CASE ServerStarts \/ ReadConfig
  BY <1>1, CacheKeeps DEF ServerStarts, ReadConfig
<1>2. CASE InitAnswers
  <2>1. Answers \subseteq AnyConfig
    BY ResponsesAssumption, ResponsesTyped DEF Answers
  <2>2. QED
    BY <1>2, <2>1, ServeKeeps DEF InitAnswers
<1>3. CASE ConfigIsSaved
  BY <1>3, SaveKeeps DEF ConfigIsSaved
<1>4. CASE ServerEnds
  BY <1>4, ConfigRestartKeeps DEF ServerEnds
<1>5. CASE ServerAsksForKey \/ KeyArrives \/ InitFails \/ WriteClaimedKey \/ RefreshReads
  BY <1>5, ConfigUntouched DEF ServerAsksForKey, KeyArrives, InitFails, WriteClaimedKey, RefreshReads
<1>6. CASE RefreshWrites \/ Settle \/ Tick \/ OtelSettles \/ CircuitEvent
  BY <1>6, ConfigUntouched DEF RefreshWrites, Settle, Tick, OtelSettles, CircuitEvent
<1>7. CASE WriterTimer \/ Shutdown \/ CliAsksForKey \/ CliResolves \/ CliWritesMcp \/ CliDies
  BY <1>7, ConfigUntouched
     DEF WriterTimer, Shutdown, CliAsksForKey, CliResolves, CliWritesMcp, CliDies
<1>8. CASE UNCHANGED vars
  BY <1>8, ConfigUntouched DEF vars
<1>9. QED
  BY <1>1, <1>2, <1>3, <1>4, <1>5, <1>6, <1>7, <1>8 DEF Next

LEMMA ConfigInvAlways == Spec => []ConfigInv
<1>1. Init => ConfigInv
  BY ConfigInitInv DEF Init
<1>2. QED
  BY <1>1, ConfigInvStep, PTL DEF Spec

\* active-config-store.ts: no operation hashes with a key, or captures in full,
\* by a configuration that did not bring it from the server.
THEOREM SecretsComeFromServer == Spec => []SecretsAreServed
<1>1. ConfigInv => SecretsAreServed
  BY DEF ConfigInv, StoreClean, SecretsAreServed, OperationConfigView
<1>2. QED
  BY ConfigInvAlways, <1>1, PTL

\* saveCachedConfig(): the file holds neither the key nor full fidelity.
THEOREM DiskHoldsNoSecret == Spec => NoSecretIsSaved
<1>1. ConfigInv /\ [Next]_vars => [configFile' # configFile => ~ configFile'.keyed /\ ~ configFile'.full]_configFile
  <2> SUFFICES ASSUME ConfigInv, [Next]_vars, configFile' # configFile
               PROVE  ~ configFile'.keyed /\ ~ configFile'.full
    OBVIOUS
  <2>1. \A response \in saving : ~ Cached(response).keyed /\ ~ Cached(response).full
    BY ParsedAndCached DEF ConfigInv, Cached
  <2>2. ConfigIsSaved
    BY DEF Next, vars, configVars, ServerStarts, ServerAsksForKey, KeyArrives, InitAnswers, Serve,
           InitFails, WriteClaimedKey, RefreshReads, RefreshWrites, Settle, Tick, OtelSettles,
           CircuitEvent, WriterTimer, ReadConfig, Shutdown, ServerEnds, CliAsksForKey, CliResolves,
           CliWritesMcp, CliDies, ApplyCached, ResolveActiveConfig, ConfigRestarts
  <2>3. QED
    BY <2>1, <2>2 DEF ConfigIsSaved, SaveCachedConfig
<1>2. QED
  BY ConfigInvAlways, <1>1, PTL DEF Spec, NoSecretIsSaved

-----------------------------------------------------------------------------
\* Types of the configuration

LEMMA ConfigShapes ==
  ASSUME NEW config \in Config
  PROVE  /\ ParseTolerantly(config) \in Config
         /\ NormalizeCached(config) \in Config
         /\ [config EXCEPT !.keyed = FALSE] \in Config
         /\ config.rev \in Revision /\ config.rev # 0
<1>1. ParseTolerantly(config) \in Config
  BY DEF ParseTolerantly, Config
<1>2. NormalizeCached(config) \in Config /\ [config EXCEPT !.keyed = FALSE] \in Config
  BY DEF NormalizeCached, Config
<1>3. config.rev \in Revision /\ config.rev # 0
  BY RevisionAssumption DEF Config
<1>4. QED
  BY <1>1, <1>2, <1>3

Stores == [config : Config \cup {Default}, origin : {"none", "server", "cache"},
           checked : BOOLEAN, key : Revision \cup {0}]

LEMMA SetTyped ==
  ASSUME store \in Stores, NEW config \in Config, NEW origin \in {"server", "cache"},
         SetActiveConfig(config, origin)
  PROVE  store' \in Stores
<1> DEFINE plain == [config EXCEPT !.keyed = FALSE]
           key == IF config.keyed THEN config.rev ELSE 0
<1>1. plain \in Config /\ key \in Revision \cup {0}
  BY ConfigShapes
<1>2. store' = [store EXCEPT !.config = plain, !.origin = origin, !.key = key]
  BY DEF SetActiveConfig
<1> HIDE DEF plain, key
<1>3. QED
  BY <1>1, <1>2 DEF Stores

\* What is on disk is the default, with revision 0, or a configuration.
LEMMA LoadedTyped ==
  ASSUME ConfigTypeOK, OnDisk
  PROVE  LoadCached \in Config
<1>1. configFile \in Config
  <2>1. Default.rev = 0
    BY DEF Default
  <2>2. QED
    BY <2>1 DEF ConfigTypeOK, OnDisk
<1>2. QED
  BY <1>1, ConfigShapes DEF LoadCached

LEMMA NoStoreTyped == NoStore \in Stores
BY DEF NoStore, Stores

LEMMA ConfigTypesStep == ConfigTypeOK /\ [Next]_vars => ConfigTypeOK'
<1> SUFFICES ASSUME ConfigTypeOK, [Next]_vars PROVE ConfigTypeOK'
  OBVIOUS
<1>1. store \in Stores /\ configFile \in {Default} \cup Config /\ saving \subseteq Config
  BY DEF ConfigTypeOK, Stores
<1> SUFFICES store' \in Stores /\ configFile' \in {Default} \cup Config /\ saving' \subseteq Config
  BY DEF ConfigTypeOK, Stores
<1>2. CASE ApplyCached
  <2>1. CASE OnDisk
    BY <1>1, <1>2, <2>1, LoadedTyped, SetTyped DEF ApplyCached
  <2>2. CASE ~ OnDisk
    BY <1>1, <1>2, <2>2 DEF ApplyCached
  <2>3. QED
    BY <2>1, <2>2
<1>3. CASE ResolveActiveConfig
  <2>1. UNCHANGED <<configFile, saving>>
    BY <1>3 DEF ResolveActiveConfig
  <2>2. CASE ~ OnDisk
    BY <1>1, <1>3, <2>2 DEF ResolveActiveConfig, Stores
  <2>3. CASE OnDisk
    <3> DEFINE plain == [LoadCached EXCEPT !.keyed = FALSE]
               key == IF LoadCached.keyed THEN LoadCached.rev ELSE 0
    <3>1. plain \in Config /\ key \in Revision \cup {0}
      BY <2>3, LoadedTyped, ConfigShapes
    <3>2. store' = [config |-> plain, origin |-> "cache", checked |-> TRUE, key |-> key]
      BY <1>3, <2>3 DEF ResolveActiveConfig
    <3> HIDE DEF plain, key
    <3>3. store' \in Stores
      BY <3>1, <3>2 DEF Stores
    <3>4. QED
      BY <1>1, <2>1, <3>3
  <2>4. QED
    BY <2>2, <2>3
<1>4. CASE \E response \in Config : Serve(response)
  <2>1. PICK response \in Config : Serve(response)
    BY <1>4
  <2>2. ParseTolerantly(response) \in Config
    BY ConfigShapes
  <2>3. QED
    BY <1>1, <2>1, <2>2, SetTyped DEF Serve
<1>5. CASE \E response \in saving : SaveCachedConfig(response)
  BY <1>1, <1>5, ConfigShapes DEF SaveCachedConfig, Cached
<1>6. CASE ConfigRestarts
  BY <1>1, <1>6, NoStoreTyped DEF ConfigRestarts
<1>7. CASE UNCHANGED configVars
  BY <1>1, <1>7 DEF configVars
<1>8. CASE InitAnswers
  <2>1. Answers \subseteq Config
    BY ResponsesAssumption DEF Answers
  <2>2. QED
    BY <1>4, <1>8, <2>1 DEF InitAnswers
<1>9. CASE ServerStarts \/ ReadConfig \/ ConfigIsSaved \/ ServerEnds
  BY <1>2, <1>3, <1>5, <1>6, <1>9 DEF ServerStarts, ReadConfig, ConfigIsSaved, ServerEnds
<1>10. CASE ServerAsksForKey \/ KeyArrives \/ InitFails \/ WriteClaimedKey \/ RefreshReads
  BY <1>7, <1>10 DEF ServerAsksForKey, KeyArrives, InitFails, WriteClaimedKey, RefreshReads
<1>11. CASE RefreshWrites \/ Settle \/ Tick \/ OtelSettles \/ CircuitEvent
  BY <1>7, <1>11 DEF RefreshWrites, Settle, Tick, OtelSettles, CircuitEvent
<1>12. CASE WriterTimer \/ Shutdown \/ CliAsksForKey \/ CliResolves \/ CliWritesMcp \/ CliDies
  BY <1>7, <1>12 DEF WriterTimer, Shutdown, CliAsksForKey, CliResolves, CliWritesMcp, CliDies
<1>13. CASE UNCHANGED vars
  BY <1>7, <1>13 DEF vars
<1>14. QED
  BY <1>8, <1>9, <1>10, <1>11, <1>12, <1>13 DEF Next

LEMMA ConfigTypesInit == ConfigInit => ConfigTypeOK
<1> SUFFICES ASSUME ConfigInit PROVE ConfigTypeOK
  OBVIOUS
<1>1. (CHOOSE r \in Revision : TRUE) \in Revision
  BY ResponsesAssumption DEF Config
<1>2. configFile \in {Default} \cup Config
  BY <1>1 DEF ConfigInit, Config
<1>3. QED
  BY <1>2, NoStoreTyped DEF ConfigInit, ConfigTypeOK, Stores

-----------------------------------------------------------------------------
\* The state file (RuntimeState)

Sdk == [core : {"IDLE", "KEY_PENDING", "ACTIVE", "ACTIVE_DEGRADED", "SHUTTING_DOWN", "SHUTDOWN"},
        auth : {"ANONYMOUS", "AUTHENTICATED", "CLAIMED"},
        otel : {"UNCONFIGURED", "OWNS_PROVIDER", "COEXISTENCE_FAILED"},
        circuit : {"open", "closed"}]
Writer == [started : BOOLEAN, scenario : {"none", "A", "C/F"},
           lastError : {"none", "auto-attach", "circuit-open"},
           timer : BOOLEAN, failed : BOOLEAN]

\* An outage begins only after registration, so a writer that has just started
\* with no error to its name is right about the circuit.
RuntimeInv ==
  /\ sdk \in Sdk /\ writer \in Writer
  /\ sdk.core = "IDLE" => sdk.circuit = "closed"
  /\ FileCatchesUp /\ OutageRecordFollowsCircuit

\* A write takes the states as they are, or is remembered as failed.
LEMMA WriteCatchesUp ==
  ASSUME NEW w \in Writer, WriteStateNow(sdk', w)
  PROVE  /\ writer' \in Writer /\ writer'.lastError = w.lastError /\ writer'.started = w.started
         /\ FileCatchesUp'
<1>1. CASE stateFile' = Snapshot(sdk', w) /\ writer' = [w EXCEPT !.failed = FALSE]
  BY <1>1 DEF Writer, FileCatchesUp, Snapshot
<1>2. CASE stateFile' = stateFile /\ writer' = [w EXCEPT !.failed = TRUE]
  BY <1>2 DEF Writer, FileCatchesUp
<1>3. QED
  BY <1>1, <1>2 DEF WriteStateNow

\* Setting the timer is enough.
LEMMA DebounceCatchesUp ==
  ASSUME NEW w \in Writer, writer' = DebouncedWrite(w)
  PROVE  /\ writer' \in Writer /\ writer'.lastError = w.lastError /\ writer'.started = w.started
         /\ writer'.scenario = w.scenario /\ FileCatchesUp'
BY DEF DebouncedWrite, Writer, FileCatchesUp

LEMMA RegisterKeeps ==
  ASSUME RuntimeInv, NEW auth \in {"ANONYMOUS", "AUTHENTICATED"}, Register(auth)
  PROVE  RuntimeInv'
<1> DEFINE started == [NoWriter EXCEPT !.started = TRUE]
<1>1. sdk' \in Sdk /\ sdk'.circuit = "closed" /\ sdk'.core = "KEY_PENDING"
  BY DEF Register, RuntimeInv, Sdk
<1>2. /\ started \in Writer /\ started.lastError = "none"
      /\ [started EXCEPT !.failed = TRUE] \in Writer
      /\ [started EXCEPT !.failed = TRUE].lastError = "none"
  BY DEF NoWriter, Writer
<1>3. writer' = DebouncedWrite(started) \/ writer' = DebouncedWrite([started EXCEPT !.failed = TRUE])
  BY DEF Register
<1> HIDE DEF started
<1>4. writer' \in Writer /\ writer'.lastError = "none" /\ FileCatchesUp'
  BY <1>2, <1>3, DebounceCatchesUp
<1>5. QED
  BY <1>1, <1>4 DEF RuntimeInv, OutageRecordFollowsCircuit

LEMMA CoreKeeps ==
  ASSUME RuntimeInv, NEW to, CoreChanges(to),
         to \in {"ACTIVE", "ACTIVE_DEGRADED", "SHUTTING_DOWN", "SHUTDOWN"}
  PROVE  RuntimeInv'
<1>1. sdk' \in Sdk /\ sdk'.circuit = sdk.circuit /\ sdk'.core = to
  BY DEF CoreChanges, RuntimeInv, Sdk
<1>2. /\ writer' \in Writer /\ writer'.lastError = writer.lastError
      /\ writer'.started = writer.started /\ FileCatchesUp'
  BY WriteCatchesUp, DebounceCatchesUp DEF CoreChanges, RuntimeInv
<1>3. QED
  BY <1>1, <1>2 DEF RuntimeInv, OutageRecordFollowsCircuit

LEMMA AuthKeeps ==
  ASSUME RuntimeInv, AuthClaimed("ACTIVE") \/ KeyIsResolved
  PROVE  RuntimeInv'
<1>1. sdk' \in Sdk /\ sdk'.circuit = sdk.circuit /\ (sdk'.core = "IDLE" => sdk.core = "IDLE")
  BY DEF AuthClaimed, KeyIsResolved, RuntimeInv, Sdk
<1>2. /\ writer' \in Writer /\ writer'.lastError = writer.lastError
      /\ writer'.started = writer.started /\ FileCatchesUp'
  BY DebounceCatchesUp DEF AuthClaimed, KeyIsResolved, RuntimeInv
<1>3. QED
  BY <1>1, <1>2 DEF RuntimeInv, OutageRecordFollowsCircuit

LEMMA OtelKeeps ==
  ASSUME RuntimeInv,
         OtelConfigured("OWNS_PROVIDER", "A") \/ OtelConfigured("COEXISTENCE_FAILED", "C/F")
  PROVE  RuntimeInv'
<1>1. sdk' \in Sdk /\ sdk'.circuit = sdk.circuit /\ sdk'.core = sdk.core
  BY DEF OtelConfigured, RuntimeInv, Sdk
<1>2. PICK w \in Writer : /\ writer' = DebouncedWrite(w) /\ w.started = writer.started
                          /\ w.lastError \in {writer.lastError, "auto-attach"}
  <2>1. ASSUME NEW state \in {"OWNS_PROVIDER", "COEXISTENCE_FAILED"}, NEW scenario \in {"A", "C/F"},
               OtelConfigured(state, scenario)
        PROVE  \E w \in Writer : /\ writer' = DebouncedWrite(w) /\ w.started = writer.started
                                 /\ w.lastError \in {writer.lastError, "auto-attach"}
    <3> DEFINE w == [writer EXCEPT !.scenario = scenario,
                       !.lastError = IF state = "COEXISTENCE_FAILED" THEN "auto-attach" ELSE @]
    <3>1. w \in Writer /\ w.started = writer.started
          /\ w.lastError \in {writer.lastError, "auto-attach"}
      BY DEF RuntimeInv, Writer
    <3>2. writer' = DebouncedWrite(w)
      BY <2>1 DEF OtelConfigured
    <3> HIDE DEF w
    <3>3. QED
      BY <3>1, <3>2
  <2>2. QED
    BY <2>1
<1>3. /\ writer' \in Writer /\ writer'.lastError \in {writer.lastError, "auto-attach"}
      /\ writer'.started = writer.started /\ FileCatchesUp'
  BY <1>2, DebounceCatchesUp
<1>4. QED
  BY <1>1, <1>3 DEF RuntimeInv, OutageRecordFollowsCircuit

LEMMA CircuitKeeps ==
  ASSUME RuntimeInv, CircuitOpened \/ CircuitClosed
  PROVE  RuntimeInv'
<1>1. CASE CircuitOpened
  <2> DEFINE w == [writer EXCEPT !.lastError = "circuit-open"]
  <2>1. w \in Writer /\ w.lastError = "circuit-open"
    BY DEF RuntimeInv, Writer
  <2>2. writer' = DebouncedWrite(w)
    BY <1>1 DEF CircuitOpened
  <2>3. sdk' \in Sdk /\ sdk'.circuit = "open" /\ sdk'.core # "IDLE"
    BY <1>1 DEF CircuitOpened, RuntimeInv, Sdk
  <2> HIDE DEF w
  <2>4. QED
    BY <2>1, <2>2, <2>3, DebounceCatchesUp DEF RuntimeInv, OutageRecordFollowsCircuit
<1>2. CASE CircuitClosed
  <2> DEFINE w == [writer EXCEPT !.lastError = "none"]
  <2>1. sdk' \in Sdk /\ sdk'.circuit = "closed" /\ Snapshot(sdk', writer) = Snapshot(sdk, writer)
        /\ UNCHANGED stateFile
    BY <1>2 DEF CircuitClosed, RuntimeInv, Sdk, Snapshot
  <2>2. CASE writer.lastError = "circuit-open"
    <3>1. w \in Writer /\ w.lastError = "none"
      BY DEF RuntimeInv, Writer
    <3>2. writer' = DebouncedWrite(w)
      BY <1>2, <2>2 DEF CircuitClosed
    <3> HIDE DEF w
    <3>3. QED
      BY <2>1, <3>1, <3>2, DebounceCatchesUp DEF RuntimeInv, OutageRecordFollowsCircuit
  <2>3. CASE writer.lastError # "circuit-open"
    <3>1. writer' = writer
      BY <1>2, <2>3 DEF CircuitClosed
    <3>2. FileCatchesUp'
      BY <2>1, <3>1 DEF RuntimeInv, FileCatchesUp
    <3>3. QED
      BY <2>1, <2>3, <3>1, <3>2 DEF RuntimeInv, OutageRecordFollowsCircuit
  <2>4. QED
    BY <2>2, <2>3
<1>3. QED
  BY <1>1, <1>2

LEMMA TimerKeeps ==
  ASSUME RuntimeInv, TimerFires
  PROVE  RuntimeInv'
<1> DEFINE w == [writer EXCEPT !.timer = FALSE]
<1>1. w \in Writer /\ w.lastError = writer.lastError /\ w.started = writer.started
  BY DEF RuntimeInv, Writer
<1>2. WriteStateNow(sdk', w) /\ sdk' = sdk
  BY DEF TimerFires
<1> HIDE DEF w
<1>3. QED
  BY <1>1, <1>2, WriteCatchesUp DEF RuntimeInv, OutageRecordFollowsCircuit

LEMMA EndKeeps ==
  ASSUME ProcessEnds
  PROVE  RuntimeInv'
<1>1. sdk' \in Sdk /\ sdk'.circuit = "closed"
  BY DEF ProcessEnds, Off, Sdk
<1>2. writer' \in Writer /\ ~ writer'.started
  BY DEF ProcessEnds, NoWriter, Writer
<1>3. QED
  BY <1>1, <1>2 DEF RuntimeInv, FileCatchesUp, OutageRecordFollowsCircuit

LEMMA RuntimeUntouched ==
  ASSUME RuntimeInv, UNCHANGED runtimeVars
  PROVE  RuntimeInv'
BY DEF runtimeVars, RuntimeInv, FileCatchesUp, Snapshot, OutageRecordFollowsCircuit

LEMMA RuntimeStep == RuntimeInv /\ [Next]_vars => RuntimeInv'
<1> SUFFICES ASSUME RuntimeInv, [Next]_vars PROVE RuntimeInv'
  OBVIOUS
<1>1. CASE ServerStarts
  BY <1>1, RegisterKeeps DEF ServerStarts
<1>2. CASE KeyArrives \/ Settle
  BY <1>2, AuthKeeps, CoreKeeps, RuntimeUntouched DEF KeyArrives, Settle
<1>3. CASE InitFails \/ Shutdown
  BY <1>3, CoreKeeps, RuntimeUntouched DEF InitFails, Shutdown
<1>4. CASE OtelSettles \/ CircuitEvent
  BY <1>4, OtelKeeps, CircuitKeeps DEF OtelSettles, CircuitEvent
<1>5. CASE WriterTimer \/ ServerEnds
  BY <1>5, TimerKeeps, EndKeeps DEF WriterTimer, ServerEnds
<1>6. CASE ServerAsksForKey \/ InitAnswers \/ ConfigIsSaved \/ WriteClaimedKey \/ RefreshReads
  BY <1>6, RuntimeUntouched
     DEF ServerAsksForKey, InitAnswers, ConfigIsSaved, WriteClaimedKey, RefreshReads
<1>7. CASE RefreshWrites \/ Tick \/ ReadConfig
  BY <1>7, RuntimeUntouched DEF RefreshWrites, Tick, ReadConfig
<1>8. CASE CliAsksForKey \/ CliResolves \/ CliWritesMcp \/ CliDies
  BY <1>8, RuntimeUntouched DEF CliAsksForKey, CliResolves, CliWritesMcp, CliDies
<1>9. CASE UNCHANGED vars
  BY <1>9, RuntimeUntouched DEF vars
<1>10. QED
  BY <1>1, <1>2, <1>3, <1>4, <1>5, <1>6, <1>7, <1>8, <1>9 DEF Next

LEMMA RuntimeInitInv == RuntimeInit => RuntimeInv
BY DEF RuntimeInit, RuntimeInv, Off, NoWriter, Sdk, Writer, FileCatchesUp,
       OutageRecordFollowsCircuit

-----------------------------------------------------------------------------
\* What the two processes and the other files hold

ServerType ==
  [pc : {"off", "keying", "initing", "saving", "persist", "resolve", "rewrite",
         "settle", "active", "done"},
   apiKey : Key \cup {None}, exportKey : Key \cup {None}, claim : BOOLEAN, mcp : Key \cup {None}]
CliType == [pc : {"key", "write", "done"}, credential : Key \cup {None}, late : BOOLEAN]
SpentType == [starts : Nat, events : Nat, claims : {0, 1}, with : Concerns]

Locals ==
  /\ server \in ServerType /\ cli \in CliType /\ spent \in SpentType
  /\ {envKey, claimedFile, mcpKey} \subseteq Key \cup {None}
  /\ overwritten \in BOOLEAN

\* The credential a process would use is a key, or none.
LEMMA CredentialTyped ==
  ASSUME Locals, KeyInv, NEW p \in Process
  PROVE  EffectiveCredential(p) \in Key \cup {None}
BY DEF Locals, KeyInv, Types, EffectiveCredential, ReadAnonKey, Key

\* The steps that only go on to another stage, and leave all keys alone.
LEMMA GoingOn ==
  ASSUME Locals, NEW pc, GoTo(pc),
         pc \in {"off", "keying", "initing", "saving", "persist", "resolve", "rewrite",
                 "settle", "active", "done"}
  PROVE  /\ server' \in ServerType /\ server'.pc = pc
         /\ server'.apiKey = server.apiKey /\ server'.exportKey = server.exportKey
         /\ server'.claim = server.claim /\ server'.mcp = server.mcp
BY DEF Locals, GoTo, ServerType

LEMMA Spending ==
  ASSUME Locals, NEW what \in {"starts", "events"}, Spend(what)
  PROVE  spent' \in SpentType /\ spent'.claims = spent.claims /\ spent'.with = spent.with
BY DEF Locals, Spend, SpentType

LEMMA KeyHistory ==
  ASSUME overwritten \in BOOLEAN, [Next]_vars
  PROVE  overwritten' \in BOOLEAN
<1>1. ASSUME NEW p, GetOrCreateAnonKey(p) \/ DiesInCall(p) PROVE overwritten' \in BOOLEAN
  BY <1>1 DEF GetOrCreateAnonKey, Begin, Create, Write, Reread, Overwrite, FallBack, DiesInCall
<1>2. CASE UNCHANGED overwritten
  BY <1>2
<1>3. QED
  BY <1>1, <1>2 DEF Next, vars, keyVars, ServerStarts, ServerAsksForKey, KeyArrives, InitAnswers,
     InitFails, ConfigIsSaved, WriteClaimedKey, FileFault, RefreshReads, RefreshWrites, Settle,
     Tick, OtelSettles, CircuitEvent, WriterTimer, ReadConfig, Shutdown, ServerEnds,
     CliAsksForKey, CliResolves, CliWritesMcp, CliDies

LEMMA LocalsStep == KeyInv /\ Locals /\ [Next]_vars => Locals'
<1> SUFFICES ASSUME KeyInv, Locals, [Next]_vars PROVE Locals'
  OBVIOUS
<1>1. overwritten' \in BOOLEAN
  BY KeyHistory DEF Locals
<1>2. CASE /\ server' \in ServerType /\ UNCHANGED <<cli, disk>>
           /\ spent' \in SpentType
  BY <1>1, <1>2 DEF Locals, disk
<1>3. CASE ServerStarts
  <2>1. server' \in ServerType
    BY <1>3 DEF ServerStarts, ServerAt, Locals, ServerType
  <2>2. QED
    BY <1>2, <1>3, <2>1, Spending DEF ServerStarts, ServerAt
<1>4. CASE KeyArrives
  <2>1. call[Server].result \in Key \cup {None}
    BY ProcessAssumption DEF KeyInv, Types, Call, Key
  <2>2. server' \in ServerType
    BY <1>4, <2>1, GoingOn DEF KeyArrives, Locals, ServerType
  <2>3. QED
    BY <1>2, <1>4, <2>2 DEF KeyArrives, ServerAt, Locals
<1>5. CASE InitAnswers
  <2>1. server' \in ServerType
    BY <1>5 DEF InitAnswers, Locals, ServerType
  <2>2. spent' \in SpentType
    BY <1>5 DEF InitAnswers, Locals, SpentType
  <2>3. QED
    BY <1>2, <1>5, <2>1, <2>2 DEF InitAnswers, ServerAt
<1>6. CASE InitFails \/ ConfigIsSaved
  <2>1. server' \in ServerType
    BY <1>6, GoingOn DEF InitFails, ConfigIsSaved
  <2>2. QED
    BY <1>2, <1>6, <2>1 DEF InitFails, ConfigIsSaved, ServerAt, Locals
<1>7. CASE WriteClaimedKey
  <2>1. server' \in ServerType
    BY <1>7, GoingOn DEF WriteClaimedKey
  <2>2. {envKey', claimedFile', mcpKey'} \subseteq Key \cup {None}
    BY <1>7 DEF WriteClaimedKey, Locals, Key
  <2>3. QED
    BY <1>1, <1>7, <2>1, <2>2 DEF WriteClaimedKey, ServerAt, Locals
<1>8. CASE RefreshReads
  <2>1. EffectiveCredential(Server) \in Key \cup {None}
    BY CredentialTyped, ProcessAssumption
  <2>2. server' \in ServerType
    BY <1>8, <2>1 DEF RefreshReads, Locals, ServerType
  <2>3. QED
    BY <1>2, <1>8, <2>2 DEF RefreshReads, ServerAt, Locals
<1>9. CASE RefreshWrites
  <2>1. server' \in ServerType /\ server.mcp \in Key \cup {None}
    BY <1>9, GoingOn DEF RefreshWrites, Locals, ServerType
  <2>2. {envKey', claimedFile', mcpKey'} \subseteq Key \cup {None}
    BY <1>9, <2>1 DEF RefreshWrites, Locals
  <2>3. QED
    BY <1>1, <1>9, <2>1, <2>2 DEF RefreshWrites, ServerAt, Locals
<1>10. CASE Settle
  <2>1. server' \in ServerType
    <3>1. CASE GoTo("done")
      BY <3>1, GoingOn
    <3>2. CASE server' = [server EXCEPT !.pc = "active", !.claim = FALSE, !.mcp = None,
                            !.exportKey = IF server.claim THEN ClaimedKey ELSE @]
      BY <3>2 DEF Locals, ServerType, Key
    <3>3. QED
      BY <1>10, <3>1, <3>2 DEF Settle
  <2>2. QED
    BY <1>2, <1>10, <2>1 DEF Settle, ServerAt, Locals
<1>11. CASE Tick
  BY <1>2, <1>11, GoingOn, Spending DEF Tick, ServerAt
<1>12. CASE CircuitEvent
  BY <1>2, <1>12, Spending DEF CircuitEvent, Locals
<1>13. CASE ServerEnds
  <2>1. Stopped \in ServerType
    BY DEF Stopped, ServerType
  <2>2. QED
    BY <1>2, <1>13, <2>1 DEF ServerEnds, Locals
<1>14. CASE CliResolves
  <2>1. EffectiveCredential(Cli) \in Key \cup {None}
    BY CredentialTyped, ProcessAssumption
  <2>2. cli' \in CliType
    BY <1>14, <2>1 DEF CliResolves, Locals, CliType
  <2>3. QED
    BY <1>1, <1>14, <2>2 DEF CliResolves, CliAt, disk, Locals
<1>15. CASE CliWritesMcp
  <2>1. cli' \in CliType /\ cli.credential \in Key \cup {None}
    BY <1>15 DEF CliWritesMcp, Locals, CliType
  <2>2. QED
    BY <1>1, <1>15, <2>1 DEF CliWritesMcp, CliAt, Locals
<1>16. CASE ServerAsksForKey \/ OtelSettles \/ WriterTimer \/ ReadConfig \/ Shutdown
  BY <1>2, <1>16
     DEF ServerAsksForKey, ServerAt, OtelSettles, WriterTimer, ReadConfig, Shutdown, Locals
<1>17. CASE CliAsksForKey \/ CliDies
  BY <1>2, <1>17 DEF CliAsksForKey, CliDies, CliAt, Locals
<1>18. CASE UNCHANGED vars
  BY <1>2, <1>18 DEF vars, Locals
<1>19. QED
  BY <1>3, <1>4, <1>5, <1>6, <1>7, <1>8, <1>9, <1>10, <1>11, <1>12, <1>13, <1>14, <1>15, <1>16,
     <1>17, <1>18 DEF Next

LEMMA LocalsInit == Init => Locals
<1> SUFFICES ASSUME Init PROVE Locals
  OBVIOUS
<1>1. server \in ServerType /\ cli \in CliType
  BY DEF Init, Stopped, ServerType, CliType
<1>2. spent \in SpentType
  BY DEF Init, SpentType
<1>3. QED
  BY <1>1, <1>2 DEF Init, KeyInit, Locals

\* The types, the state file and the record of an outage together.
LocalInv == KeyInv /\ ConfigTypeOK /\ RuntimeInv /\ Locals

LEMMA LocalInvAlways == Spec => []LocalInv
<1>1. Init => LocalInv
  BY KeyInitInv, ConfigTypesInit, RuntimeInitInv, LocalsInit DEF Init, LocalInv
<1>2. LocalInv /\ [Next]_vars => LocalInv'
  BY KeyInvStep, ConfigTypesStep, RuntimeStep, LocalsStep DEF LocalInv
<1>3. QED
  BY <1>1, <1>2, PTL DEF Spec

\* runtime-state.ts: while the process lives, the file `glasstrace status`
\* reads is what the process would say itself, or the timer is set that will
\* make it so, or the last write failed; and it reports an outage as long as
\* there is one and no longer, unless a failed attachment took its place.
THEOREM FileTellsOfProcess == Spec => []FileFollowsProcess
<1>1. LocalInv => FileFollowsProcess
  <2> SUFFICES ASSUME LocalInv PROVE FileFollowsProcess
    OBVIOUS
  <2>1. KeyTypeOK
    BY DEF LocalInv, KeyInv, Types, Call, Locals, KeyTypeOK
  <2>2. RuntimeTypeOK
    BY DEF LocalInv, RuntimeInv, RuntimeTypeOK, Sdk, Writer
  <2>3. /\ server.pc \in {"off", "keying", "initing", "saving", "persist", "resolve", "rewrite",
                          "settle", "active", "done"}
        /\ {server.apiKey, server.exportKey, envKey, claimedFile, mcpKey} \subseteq Key \cup {None}
    BY DEF LocalInv, Locals, ServerType
  <2>4. QED
    BY <2>1, <2>2, <2>3 DEF LocalInv, RuntimeInv, FileFollowsProcess, TypeOK
<1>2. QED
  BY <1>1, LocalInvAlways, PTL

-----------------------------------------------------------------------------
\* The bearer and the key of the exports

Own(key) == key \in AnonKey /\ key = keyFile
Claimed == spent.claims # 0

\* A claim that has not reached .env.local.
Reaching == server.claim /\ server.pc \in {"saving", "persist"}

\* .env.local has the claimed key as soon as the claim reached it, and a claim
\* the server has not settled is on its way to it or to the MCP configuration.
ClaimProgress ==
  /\ claimedFile = None
  /\ envKey = IF Claimed /\ ~ Reaching THEN ClaimedKey ELSE None
  /\ server.claim => Claimed
  /\ server.pc \in {"persist", "resolve", "rewrite"} => server.claim
  /\ server.pc \in {"off", "keying", "initing", "active"} => ~ server.claim
  /\ server.pc = "keying" => ~ Claimed

\* The server exports with the claimed key once a claim is settled, and with
\* the key of the project before.
Exports ==
  server.pc \in {"initing", "saving", "settle", "active"} /\ ~ server.claim =>
    IF Claimed THEN server.exportKey = ClaimedKey ELSE Own(server.exportKey)

\* The CLI writes what it has read, and the server replaces it only where it
\* has seen it; a bearer from before a claim waits for the server to do so.
Bearer ==
  /\ cli.pc # "done" => mcpKey = None
  /\ cli.pc # "key" => \/ cli.credential = ClaimedKey /\ envKey = ClaimedKey
                       \/ Own(cli.credential)
  /\ server.pc = "rewrite" => server.mcp = ClaimedKey /\ cli.pc = "done"
  /\ cli.pc = "done" /\ ~ cli.late =>
       \/ mcpKey = ClaimedKey /\ envKey = ClaimedKey
       \/ /\ Own(mcpKey)
          /\ Claimed => server.claim /\ server.pc \in {"saving", "persist", "resolve", "rewrite"}

Keys == ClaimProgress /\ Exports /\ Bearer
McpInv == Calm => Keys

\* Nothing that went wrong is forgotten, and a key that is in the file stays.
LEMMA ProjectKeyStays ==
  ASSUME KeyInv, [Next]_vars, Calm'
  PROVE  Calm /\ (keyFile \in AnonKey => keyFile' = keyFile)
<1>1. ASSUME NEW p \in Process, GetOrCreateAnonKey(p)
      PROVE  Calm /\ (keyFile \in AnonKey => keyFile' = keyFile)
  <2>1. Calm
    BY <1>1 DEF GetOrCreateAnonKey, Begin, Create, Write, Reread, Overwrite, FallBack, Calm,
       KeyInv, Types
  <2>2. CASE Write(p) /\ keyFile # "invalid"
    BY <2>1, <2>2 DEF Write, KeyInv, OneWriter
  <2>3. CASE keyFile = "invalid"
    BY <2>1, <2>3, NoneAssumption
  <2>4. CASE Create(p)
    BY <2>1, <2>4, NoneAssumption DEF Create
  <2>5. CASE Begin(p) \/ Reread(p) \/ Overwrite(p)
    BY <2>1, <2>5 DEF Begin, Reread, Overwrite, Calm
  <2>6. QED
    BY <1>1, <2>2, <2>3, <2>4, <2>5 DEF GetOrCreateAnonKey
<1>2. ASSUME DiesInCall(Cli) \/ FileFault \/ ServerEnds
      PROVE  Calm /\ (keyFile \in AnonKey => keyFile' = keyFile)
  BY <1>2 DEF DiesInCall, FileFault, ServerEnds, Calm, KeyInv, Types
<1>3. CASE UNCHANGED <<keyFile, faults, overwritten>>
  BY <1>3 DEF Calm
<1>4. CASE ServerAsksForKey \/ CliAsksForKey \/ CliDies
  BY <1>1, <1>2, <1>4, ProcessAssumption DEF ServerAsksForKey, CliAsksForKey, CliDies
<1>5. CASE WriteClaimedKey \/ RefreshWrites \/ ServerEnds
  BY <1>2, <1>3, <1>5 DEF WriteClaimedKey, RefreshWrites, keyVars
<1>6. CASE ServerStarts \/ KeyArrives \/ InitAnswers \/ InitFails \/ ConfigIsSaved
  BY <1>3, <1>6 DEF ServerStarts, KeyArrives, InitAnswers, InitFails, ConfigIsSaved, keyVars
<1>7. CASE RefreshReads \/ Settle \/ Tick \/ OtelSettles \/ CircuitEvent
  BY <1>3, <1>7 DEF RefreshReads, Settle, Tick, OtelSettles, CircuitEvent, keyVars
<1>8. CASE WriterTimer \/ ReadConfig \/ Shutdown \/ CliResolves \/ CliWritesMcp
  BY <1>3, <1>8 DEF WriterTimer, ReadConfig, Shutdown, CliResolves, CliWritesMcp, keyVars
<1>9. CASE UNCHANGED vars
  BY <1>3, <1>9 DEF vars, keyVars
<1>10. QED
  BY <1>4, <1>5, <1>6, <1>7, <1>8, <1>9 DEF Next

\* What goes on beside the two processes disturbs none of it.
LEMMA BesideKeeps ==
  ASSUME Keys, UNCHANGED <<server, cli, disk>>, spent'.claims = spent.claims,
         keyFile \in AnonKey => keyFile' = keyFile
  PROVE  Keys'
BY DEF Keys, ClaimProgress, Exports, Bearer, Own, Claimed, Reaching, disk

\* A step of the server that leaves the files alone and goes to a stage where
\* as much is known as before.
LEMMA StageKeeps ==
  ASSUME Keys, UNCHANGED <<cli, disk>>, spent'.claims = spent.claims,
         keyFile \in AnonKey => keyFile' = keyFile,
         server'.claim = server.claim, server'.exportKey = server.exportKey,
         \/ server'.pc = "done" /\ ~ Reaching /\ server.pc \notin {"resolve", "rewrite"}
         \/ server.pc = "initing" /\ server'.pc = "active"
         \/ server.pc = "active" /\ server'.pc = "initing"
         \/ server.pc = "saving" /\ server'.pc = IF server.claim THEN "persist" ELSE "settle"
  PROVE  Keys'
BY DEF Keys, ClaimProgress, Exports, Bearer, Own, Claimed, Reaching, disk

LEMMA StartKeeps ==
  ASSUME Locals, Keys, ServerStarts
  PROVE  Keys'
<1>1. /\ server.pc = "off" /\ UNCHANGED <<cli, disk, keyFile>> /\ spent'.claims = spent.claims
  BY Spending DEF ServerStarts, ServerAt, keyVars
<1>2. /\ server'.claim = server.claim /\ server'.exportKey = envKey
      /\ server'.pc = IF envKey = None THEN "keying" ELSE "initing"
  BY DEF ServerStarts, Locals, ServerType
<1>3. QED
  BY <1>1, <1>2, ClaimedKeyAssumption
     DEF Keys, ClaimProgress, Exports, Bearer, Own, Claimed, Reaching, disk

\* The key that arrives is the one in the file.
LEMMA ArrivalKeeps ==
  ASSUME KeyInv, Locals, Calm, Keys, KeyArrives
  PROVE  Keys'
<1>1. /\ server.pc = "keying" /\ UNCHANGED <<cli, disk, keyFile>> /\ spent'.claims = spent.claims
  BY DEF KeyArrives, ServerAt, keyVars
<1>2. Own(call[Server].result)
  <2>1. call[Server].result \in AnonKey /\ Server \in Process
    BY ProcessAssumption DEF KeyArrives, KeyInv, Types, Call
  <2>2. QED
    BY <2>1 DEF KeyArrives, KeyInv, OneWriter, Own
<1>3. CASE server' = [server EXCEPT !.exportKey = call[Server].result, !.pc = "initing"]
  <2>1. /\ server'.claim = server.claim /\ server'.exportKey = call[Server].result
        /\ server'.pc = "initing"
    BY <1>3 DEF Locals, ServerType
  <2>2. QED
    BY <1>1, <1>2, <2>1 DEF Keys, ClaimProgress, Exports, Bearer, Own, Claimed, Reaching, disk
<1>4. CASE GoTo("done")
  BY <1>1, <1>4, GoingOn, StageKeeps DEF Reaching
<1>5. QED
  BY <1>3, <1>4 DEF KeyArrives

\* A claim is only made by a server that started without a key of its own, and
\* before any other.
LEMMA AnswerKeeps ==
  ASSUME Locals, Keys, InitAnswers
  PROVE  Keys'
<1>1. server.pc = "initing" /\ UNCHANGED <<cli, disk, keyFile>>
  BY DEF InitAnswers, ServerAt, keyVars
<1>2. PICK claim \in BOOLEAN :
        /\ claim => spent.claims = 0
        /\ server' = [server EXCEPT !.pc = "saving", !.claim = claim]
        /\ spent' = [spent EXCEPT !.claims = IF claim THEN 1 ELSE @]
  BY DEF InitAnswers
<1>3. server'.pc = "saving" /\ server'.claim = claim /\ server'.exportKey = server.exportKey
  BY <1>2 DEF Locals, ServerType
<1>4. spent'.claims = IF claim THEN 1 ELSE spent.claims
  BY <1>2 DEF Locals, SpentType
<1>5. QED
  BY <1>1, <1>2, <1>3, <1>4
     DEF Keys, ClaimProgress, Exports, Bearer, Own, Claimed, Reaching, disk

\* Without a fault the claimed key reaches .env.local.
LEMMA PersistKeeps ==
  ASSUME KeyInv, Locals, Keys, Calm', WriteClaimedKey
  PROVE  Keys'
<1>1. /\ server.pc = "persist" /\ envKey' = ClaimedKey /\ GoTo("resolve")
      /\ UNCHANGED <<cli, claimedFile, mcpKey, spent, keyFile>>
  BY DEF WriteClaimedKey, ServerAt, FileFault, Calm, KeyInv, Types, keyVars
<1>2. server'.pc = "resolve" /\ server'.claim = server.claim
  BY <1>1, GoingOn
<1>3. QED
  BY <1>1, <1>2 DEF Keys, ClaimProgress, Exports, Bearer, Own, Claimed, Reaching

\* The refresh finds the bearer the CLI wrote before the claim, if any.
LEMMA RefreshReadsKeeps ==
  ASSUME KeyInv, Locals, Calm, Keys, RefreshReads
  PROVE  Keys'
<1> DEFINE managed == mcpKey # None /\ mcpKey = ReadAnonKey(Server)
<1>1. /\ server.pc = "resolve" /\ UNCHANGED <<cli, disk, spent, keyFile>>
      /\ server' = [server EXCEPT !.pc = IF managed THEN "rewrite" ELSE "settle",
                                  !.mcp = EffectiveCredential(Server)]
  BY DEF RefreshReads, ServerAt, keyVars
<1>2. envKey = ClaimedKey /\ EffectiveCredential(Server) = ClaimedKey /\ server.claim
  BY <1>1, ClaimedKeyAssumption DEF Keys, ClaimProgress, Reaching, EffectiveCredential
<1>3. Own(mcpKey) => managed
  BY NoneAssumption DEF Own, ReadAnonKey
<1> HIDE DEF managed
<1>4. /\ server'.pc = IF managed THEN "rewrite" ELSE "settle"
      /\ server'.claim = server.claim /\ server'.mcp = ClaimedKey
  BY <1>1, <1>2 DEF Locals, ServerType
<1>5. managed => cli.pc = "done"
  BY DEF managed, Keys, Bearer
<1>6. QED
  BY <1>1, <1>2, <1>3, <1>4, <1>5
     DEF Keys, ClaimProgress, Exports, Bearer, Own, Claimed, Reaching, disk

LEMMA RefreshWritesKeeps ==
  ASSUME KeyInv, Locals, Keys, Calm', RefreshWrites
  PROVE  Keys'
<1>1. /\ server.pc = "rewrite" /\ mcpKey' = server.mcp /\ GoTo("settle")
      /\ UNCHANGED <<cli, claimedFile, envKey, spent, keyFile>>
  BY DEF RefreshWrites, ServerAt, FileFault, Calm, KeyInv, Types, keyVars
<1>2. server'.pc = "settle" /\ server'.claim = server.claim
  BY <1>1, GoingOn
<1>3. QED
  BY <1>1, <1>2 DEF Keys, ClaimProgress, Exports, Bearer, Own, Claimed, Reaching

LEMMA SettleKeeps ==
  ASSUME Locals, Keys, Settle
  PROVE  Keys'
<1>1. server.pc = "settle" /\ UNCHANGED <<cli, disk, spent, keyFile>>
  BY DEF Settle, ServerAt, keyVars
<1>2. CASE GoTo("done")
  BY <1>1, <1>2, GoingOn, StageKeeps DEF Reaching
<1>3. CASE server' = [server EXCEPT !.pc = "active", !.claim = FALSE, !.mcp = None,
                        !.exportKey = IF server.claim THEN ClaimedKey ELSE @]
  <2>1. /\ server'.pc = "active" /\ server'.claim = FALSE
        /\ server'.exportKey = IF server.claim THEN ClaimedKey ELSE server.exportKey
    BY <1>3 DEF Locals, ServerType
  <2>2. QED
    BY <1>1, <2>1 DEF Keys, ClaimProgress, Exports, Bearer, Own, Claimed, Reaching, disk
<1>4. QED
  BY <1>2, <1>3 DEF Settle

\* Without a fault the server ends where nothing of a claim is under way.
LEMMA ServerEndKeepsKeys ==
  ASSUME KeyInv, Keys, Calm', ServerEnds
  PROVE  Keys'
<1>1. server.pc \in {"active", "done"} /\ UNCHANGED <<cli, disk, spent, keyFile>>
  BY DEF ServerEnds, Calm, KeyInv, Types
<1>2. server'.pc = "off" /\ server'.claim = FALSE
  BY DEF ServerEnds, Stopped
<1>3. QED
  BY <1>1, <1>2 DEF Keys, ClaimProgress, Exports, Bearer, Own, Claimed, Reaching, disk

LEMMA CliResolvesKeeps ==
  ASSUME KeyInv, Locals, Calm, Keys, CliResolves
  PROVE  Keys'
<1>1. /\ cli.pc = "key" /\ UNCHANGED <<server, disk, spent, keyFile>>
      /\ cli' = [cli EXCEPT !.pc = "write", !.credential = EffectiveCredential(Cli)]
  BY DEF CliResolves, CliAt, keyVars
<1>2. Own(ReadAnonKey(Cli))
  <2>1. call[Cli].result \in AnonKey /\ Cli \in Process
    BY ProcessAssumption DEF CliResolves, KeyInv, Types, Call
  <2>2. QED
    BY <2>1 DEF CliResolves, KeyInv, OneWriter, Own, ReadAnonKey
<1>3. \/ envKey = ClaimedKey /\ EffectiveCredential(Cli) = ClaimedKey
      \/ EffectiveCredential(Cli) = ReadAnonKey(Cli)
  BY DEF Keys, ClaimProgress, EffectiveCredential
<1>4. cli'.pc = "write" /\ cli'.credential = EffectiveCredential(Cli)
  BY <1>1 DEF Locals, CliType
<1>5. QED
  BY <1>1, <1>2, <1>3, <1>4
     DEF Keys, ClaimProgress, Exports, Bearer, Own, Claimed, Reaching, disk

LEMMA CliWritesKeeps ==
  ASSUME Locals, Keys, CliWritesMcp
  PROVE  Keys'
<1>1. /\ cli.pc = "write" /\ mcpKey' = cli.credential
      /\ UNCHANGED <<server, envKey, claimedFile, spent, keyFile>>
  BY DEF CliWritesMcp, CliAt, keyVars
<1>2. /\ cli'.pc = "done" /\ cli'.credential = cli.credential
      /\ cli'.late <=> spent.claims > 0 /\ cli.credential # ClaimedKey
  BY DEF CliWritesMcp, Locals, CliType
<1>3. spent.claims > 0 <=> Claimed
  BY DEF Locals, SpentType, Claimed
<1>4. QED
  BY <1>1, <1>2, <1>3 DEF Keys, ClaimProgress, Exports, Bearer, Own, Claimed, Reaching

LEMMA McpStep == KeyInv /\ Locals /\ McpInv /\ [Next]_vars => McpInv'
<1> SUFFICES ASSUME KeyInv, Locals, McpInv, [Next]_vars, Calm' PROVE Keys'
  BY DEF McpInv
<1>1. Calm /\ Keys /\ (keyFile \in AnonKey => keyFile' = keyFile)
  BY ProjectKeyStays DEF McpInv
<1>2. CASE ServerStarts \/ KeyArrives \/ InitAnswers \/ WriteClaimedKey
  BY <1>1, <1>2, StartKeeps, ArrivalKeeps, AnswerKeeps, PersistKeeps
<1>3. CASE RefreshReads \/ RefreshWrites \/ Settle \/ ServerEnds
  BY <1>1, <1>3, RefreshReadsKeeps, RefreshWritesKeeps, SettleKeeps, ServerEndKeepsKeys
<1>4. CASE CliResolves \/ CliWritesMcp
  BY <1>1, <1>4, CliResolvesKeeps, CliWritesKeeps
<1>5. CASE InitFails
  <2>1. /\ server.pc = "initing" /\ UNCHANGED <<cli, disk, spent>>
        /\ GoTo("done") \/ GoTo("active")
    BY <1>5 DEF InitFails, ServerAt
  <2>2. QED
    BY <1>1, <2>1, GoingOn, StageKeeps DEF Reaching
<1>6. CASE ConfigIsSaved
  <2>1. /\ server.pc = "saving" /\ UNCHANGED <<cli, disk, spent>>
        /\ GoTo(IF server.claim THEN "persist" ELSE "settle")
    BY <1>6 DEF ConfigIsSaved, ServerAt
  <2>2. QED
    BY <1>1, <2>1, GoingOn, StageKeeps
<1>7. CASE Tick
  <2>1. server.pc = "active" /\ UNCHANGED <<cli, disk>> /\ GoTo("initing") /\ Spend("events")
    BY <1>7 DEF Tick, ServerAt
  <2>2. QED
    BY <1>1, <2>1, GoingOn, Spending, StageKeeps
<1>8. CASE CircuitEvent
  BY <1>1, <1>8, Spending, BesideKeeps DEF CircuitEvent
<1>9. CASE ServerAsksForKey \/ OtelSettles \/ WriterTimer \/ ReadConfig \/ Shutdown
  BY <1>1, <1>9, BesideKeeps
     DEF ServerAsksForKey, ServerAt, OtelSettles, WriterTimer, ReadConfig, Shutdown
<1>10. CASE CliAsksForKey \/ CliDies
  BY <1>1, <1>10, BesideKeeps DEF CliAsksForKey, CliDies, CliAt
<1>11. CASE UNCHANGED vars
  BY <1>1, <1>11, BesideKeeps DEF vars
<1>12. QED
  BY <1>2, <1>3, <1>4, <1>5, <1>6, <1>7, <1>8, <1>9, <1>10, <1>11 DEF Next

LEMMA McpInit == Init => McpInv
BY DEF Init, Stopped, McpInv, Keys, ClaimProgress, Exports, Bearer, Claimed, Reaching

\* init-client.ts, mcp-runtime.ts: once the server has settled and the CLI is
\* done, agents read traces with the key the server exports them with, also
\* across a claim and any number of restarts, unless a file operation failed,
\* a slow winner's key was overwritten, or the CLI wrote a credential it had
\* read before the claim.
THEOREM BearerFollowsExports == Spec => []McpFollowsExport
<1>1. LocalInv /\ McpInv => McpFollowsExport
  <2> SUFFICES ASSUME Keys, AtRest, ~ cli.late PROVE mcpKey = server.exportKey
    BY DEF McpInv, Calm, McpFollowsExport
  <2>1. server.pc = "active" /\ ~ server.claim /\ cli.pc = "done"
    BY DEF AtRest, Keys, ClaimProgress
  <2>2. CASE Claimed
    BY <2>1, <2>2 DEF Keys, Bearer, Exports
  <2>3. CASE ~ Claimed
    BY <2>1, <2>3, ClaimedKeyAssumption DEF Keys, ClaimProgress, Bearer, Exports, Own
  <2>4. QED
    BY <2>2, <2>3
<1>2. LocalInv /\ McpInv /\ [Next]_vars => McpInv'
  BY McpStep DEF LocalInv
<1>3. QED
  BY <1>1, <1>2, McpInit, LocalInvAlways, PTL DEF Spec
=============================================================================
