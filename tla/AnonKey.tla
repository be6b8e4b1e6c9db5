------------------------------- MODULE AnonKey -------------------------------
(***************************************************************************)
(* The anonymous key of a project (anon-key.ts): one file, which several   *)
(* processes, servers and commands of the CLI, find missing at the same    *)
(* time.  A call that cannot use the file keeps its key in memory.         *)
(*                                                                         *)
(* writeFile() opens, then writes: between the two the file is there and   *)
(* empty.  All keys have one length, so two writers through one inode      *)
(* leave the key of the later one.                                         *)
(***************************************************************************)
EXTENDS Naturals

CONSTANTS Process,     \* the processes of the project
          AnonKey,     \* the keys createAnonApiKey() may return
          None,
          MaxCalls,    \* bound: calls of a process
          MaxFaults    \* bound: file operations that fail

ASSUME NoneAssumption == AnonKey \cap {None, "absent", "invalid"} = {}

VARIABLES keyFile,     \* "absent", "invalid" (empty, cut or edited), or a key
          call,        \* the call of each process
          ephemeral,   \* ephemeralKeyCache of each process
          minted,      \* the keys handed out so far
          faults,
          overwritten  \* history: a call gave up on the winner's key

keyVars == <<keyFile, call, ephemeral, minted, faults, overwritten>>

NoCall == [pc |-> "idle", key |-> None, tries |-> 0, result |-> None, calls |-> 0]

\* readAnonKey(): the file when it is valid, else the key in memory.
ReadAnonKey(p) == IF keyFile \in AnonKey THEN keyFile ELSE ephemeral[p]

Return(p, key) == call' = [call EXCEPT ![p].pc = "idle", ![p].result = key]
Goto(p, pc) == call' = [call EXCEPT ![p].pc = pc]

\* The key stays in memory.
FallBack(p) ==
  /\ faults < MaxFaults
  /\ faults' = faults + 1
  /\ ephemeral' = [ephemeral EXCEPT ![p] = call[p].key]
  /\ Return(p, call[p].key)
  /\ UNCHANGED <<minted, overwritten>>

Begin(p) ==
  /\ call[p].pc = "idle" /\ call[p].calls < MaxCalls
  /\ IF ReadAnonKey(p) # None
     THEN /\ call' = [call EXCEPT ![p].result = ReadAnonKey(p), ![p].calls = @ + 1]
          /\ UNCHANGED minted
     ELSE \E key \in AnonKey \ minted :
            /\ minted' = minted \cup {key}
            /\ call' = [call EXCEPT ![p] = [pc |-> "create", key |-> key, tries |-> 0,
                                            result |-> None, calls |-> call[p].calls + 1]]
  /\ UNCHANGED <<keyFile, ephemeral, faults, overwritten>>

\* Mutant: the file is opened without O_EXCL.
Create_NotExclusive(p) ==
  /\ call[p].pc = "create"
  /\ keyFile' = "invalid" /\ Goto(p, "write") /\ UNCHANGED <<ephemeral, minted, faults, overwritten>>

\* O_CREAT | O_EXCL: the winner creates the file, the others find it there.
Create(p) ==
  /\ call[p].pc = "create"
  /\ \/ /\ keyFile = "absent"
        /\ keyFile' = "invalid"
        /\ Goto(p, "write")
        /\ UNCHANGED <<ephemeral, minted, faults, overwritten>>
     \/ /\ keyFile # "absent"
        /\ Goto(p, "reread")
        /\ UNCHANGED <<keyFile, ephemeral, minted, faults, overwritten>>
     \/ keyFile = "absent" /\ FallBack(p) /\ UNCHANGED keyFile

\* The winner's write, and that of a call that overwrites.
Write(p) ==
  /\ call[p].pc = "write"
  /\ \/ /\ keyFile' = call[p].key
        /\ Return(p, call[p].key)
        /\ UNCHANGED <<ephemeral, minted, faults, overwritten>>
     \/ FallBack(p) /\ UNCHANGED keyFile

\* Mutant: a fourth look.
Reread_Again(p) ==
  /\ call[p].pc = "reread"
  /\ IF ReadAnonKey(p) # None THEN Return(p, ReadAnonKey(p))
     ELSE call' = [call EXCEPT ![p].tries = @ + 1,
                               ![p].pc = IF call[p].tries = 3 THEN "overwrite" ELSE "reread"]
  /\ UNCHANGED <<keyFile, ephemeral, minted, faults, overwritten>>

\* Three looks, 50 ms apart; then the file is taken for broken.
Reread(p) ==
  /\ call[p].pc = "reread"
  /\ IF ReadAnonKey(p) # None THEN Return(p, ReadAnonKey(p))
     ELSE call' = [call EXCEPT ![p].tries = @ + 1,
                               ![p].pc = IF call[p].tries = 2 THEN "overwrite" ELSE "reread"]
  /\ UNCHANGED <<keyFile, ephemeral, minted, faults, overwritten>>

Overwrite(p) ==
  /\ call[p].pc = "overwrite"
  /\ \/ /\ keyFile' = "invalid"
        /\ overwritten' = TRUE
        /\ Goto(p, "write")
        /\ UNCHANGED <<ephemeral, minted, faults>>
     \/ FallBack(p) /\ UNCHANGED keyFile

\* The process dies; its successor starts with nothing in memory.
DiesInCall(p) ==
  /\ faults < MaxFaults
  /\ faults' = faults + 1
  /\ call' = [call EXCEPT ![p] = [NoCall EXCEPT !.calls = call[p].calls]]
  /\ ephemeral' = [ephemeral EXCEPT ![p] = None]
  /\ UNCHANGED <<keyFile, minted, overwritten>>

\* A file a crash left empty, or one edited by hand, may be there.
KeyInit ==
  /\ keyFile \in {"absent", "invalid"}
  /\ call = [p \in Process |-> NoCall]
  /\ ephemeral = [p \in Process |-> None]
  /\ minted = {}
  /\ faults = 0
  /\ overwritten = FALSE

GetOrCreateAnonKey(p) == Begin(p) \/ Create(p) \/ Write(p) \/ Reread(p) \/ Overwrite(p)

KeySpec == KeyInit /\ [][\E p \in Process : GetOrCreateAnonKey(p) \/ DiesInCall(p)]_keyVars

-----------------------------------------------------------------------------
\* Properties

KeyTypeOK ==
  /\ keyFile \in {"absent", "invalid"} \cup AnonKey
  /\ call \in [Process -> [pc : {"idle", "create", "write", "reread", "overwrite"},
                           key : AnonKey \cup {None}, tries : 0 .. 3,
                           result : AnonKey \cup {None}, calls : Nat]]
  /\ ephemeral \in [Process -> AnonKey \cup {None}]
  /\ minted \subseteq AnonKey
  /\ faults \in Nat /\ overwritten \in BOOLEAN

\* As long as nothing failed and no call gave up on the winner, every call
\* returns the key that is in the file, so all processes trace under one key.
OneKeyUnlessOverwritten ==
  faults = 0 /\ ~ overwritten =>
    \A p \in Process : call[p].result # None => keyFile = call[p].result

\* Concurrent cold starts end with one key: O_EXCL is there "to prevent TOCTOU
\* races where concurrent cold starts both generate keys".  A winner that is
\* slow to write loses its key to one that waited 100 ms.
OneKey ==
  faults = 0 => \A p, q \in Process :
    call[p].result # None /\ call[q].result # None => call[p].result = call[q].result
=============================================================================
