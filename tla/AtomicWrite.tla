----------------------------- MODULE AtomicWrite -----------------------------
(***************************************************************************)
(* atomicWriteFileWithTmp() and atomicWriteFileSyncWithTmp() of            *)
(* atomic-write.ts: write a temporary file, fsync it, rename it over the   *)
(* target, fsync the directory.  An action is one system call; the calls   *)
(* of several writers (processes, or promises of one process) interleave,  *)
(* a writer may die between any two of them, and the machine may lose its  *)
(* power.                                                                  *)
(*                                                                         *)
(* The file system is external: an inode is clean when its bytes are on    *)
(* the disk, and a power loss may empty an inode that is not.  A directory *)
(* change reaches the disk with the next fsync of the directory, or at     *)
(* once where directories cannot be synced (NTFS).                         *)
(***************************************************************************)
EXTENDS Integers, Sequences

CONSTANTS Writer, Payload,
          Size,        \* the number of blocks of each payload
          Hole,        \* a block never written
          Inode, NoInode,
          Target,      \* the name of the file
          TmpOf,       \* the temporary name each writer was given
          MaxCalls     \* bound: calls of the helper in a behaviour

VARIABLES content,     \* the blocks of each inode
          clean,       \* the inodes whose blocks are on the disk
          dir,         \* entries, and the number of renames onto the target
          unsynced,    \* the directories a power loss may leave, dir among them
          platform,    \* "posix" or "ntfs", fixed at the start
          pc, fd, payload,
          written,     \* blocks written by writeFile()
          renameOf,    \* history: which rename of the target was this writer's
          promised,    \* history: the latest rename a writer reported as done
          calls        \* history: calls so far

fsVars == <<content, clean, dir, unsynced, platform>>
vars == <<fsVars, pc, fd, payload, written, renameOf, promised, calls>>

Name == {Target} \cup {TmpOf[w] : w \in Writer}

ASSUME AtomicWriteConstants ==
  /\ Size \in [Payload -> Nat \ {0}]
  /\ Payload # {} /\ Hole \notin Payload
  /\ NoInode \notin Inode /\ Inode # {}
  /\ \A w \in Writer : TmpOf[w] # Target
  /\ MaxCalls \in Nat

\* No two writers share a temporary name: there is one writer, or the names
\* hold a process id (discovery-file.ts:361) or a random part (inject.ts:208).
OwnTmp == \A v, w \in Writer : TmpOf[v] = TmpOf[w] => v = w

Complete(p) == [k \in 1 .. Size[p] |-> p]
IsComplete(c) == \E p \in Payload : c = Complete(p)

Tmp(w) == dir.entry[TmpOf[w]]

\* An inode nobody can reach any more, now or after a power loss.
Free == {i \in Inode : /\ \A d \in unsynced, n \in Name : d.entry[n] # i
                       /\ \A w \in Writer : fd[w] # i}

-----------------------------------------------------------------------------
\* The file system

\* Writing block k of c: what lies before it and was never written is a hole.
WithBlock(c, k, p) ==
  [j \in 1 .. (IF k > Len(c) THEN k ELSE Len(c)) |->
     IF j = k THEN p ELSE IF j <= Len(c) THEN c[j] ELSE Hole]

DirectoryBecomes(d) ==
  /\ dir' = d
  /\ unsynced' = IF platform = "posix" THEN unsynced \cup {d} ELSE {d}

WithEntry(n, i) == [entry |-> [dir.entry EXCEPT ![n] = i], age |-> dir.age]

-----------------------------------------------------------------------------
\* The helper

Call(w) ==
  /\ pc[w] = "idle"
  /\ calls < MaxCalls
  /\ calls' = calls + 1
  /\ \E p \in Payload : payload' = [payload EXCEPT ![w] = p]
  /\ pc' = [pc EXCEPT ![w] = "called"]
  /\ UNCHANGED <<fsVars, fd, written, renameOf, promised>>

\* Mutant: the file is opened without O_TRUNC.
Emptied_Not(i) == UNCHANGED content

\* writeFile() opens with O_CREAT and O_TRUNC: what an earlier call left under
\* the name is emptied and used again.
Emptied(i) == content' = [content EXCEPT ![i] = <<>>]

OpenTmp(w) ==
  /\ pc[w] = "called"
  /\ \E i \in Inode :
       /\ \/ /\ i = Tmp(w)
             /\ UNCHANGED <<dir, unsynced>>
          \/ /\ Tmp(w) = NoInode
             /\ i \in Free
             /\ DirectoryBecomes(WithEntry(TmpOf[w], i))
       /\ Emptied(i)
       /\ clean' = clean \ {i}
       /\ fd' = [fd EXCEPT ![w] = i]
  /\ pc' = [pc EXCEPT ![w] = "writing"]
  /\ UNCHANGED <<platform, payload, written, renameOf, promised, calls>>

WriteTmp(w) ==
  /\ pc[w] = "writing"
  /\ written[w] < Size[payload[w]]
  /\ content' = [content EXCEPT ![fd[w]] = WithBlock(@, written[w] + 1, payload[w])]
  /\ clean' = clean \ {fd[w]}
  /\ written' = [written EXCEPT ![w] = @ + 1]
  /\ UNCHANGED <<dir, unsynced, platform, pc, fd, payload, renameOf, promised, calls>>

\* writeFile() closes its handle; chmod and the second open go by the name.
ReopenTmp(w) ==
  /\ pc[w] = "writing"
  /\ written[w] = Size[payload[w]]
  /\ Tmp(w) # NoInode
  /\ fd' = [fd EXCEPT ![w] = Tmp(w)]
  /\ written' = [written EXCEPT ![w] = 0]
  /\ pc' = [pc EXCEPT ![w] = "reopened"]
  /\ UNCHANGED <<fsVars, payload, renameOf, promised, calls>>

\* Mutant: the temporary file is not synced.
FsyncTmp_Skipped(w) ==
  /\ pc[w] = "reopened"
  /\ fd' = [fd EXCEPT ![w] = NoInode]
  /\ pc' = [pc EXCEPT ![w] = "synced"]
  /\ UNCHANGED <<fsVars, payload, written, renameOf, promised, calls>>

\* handle.sync() and handle.close().
FsyncTmp(w) ==
  /\ pc[w] = "reopened"
  /\ clean' = clean \cup {fd[w]}
  /\ fd' = [fd EXCEPT ![w] = NoInode]
  /\ pc' = [pc EXCEPT ![w] = "synced"]
  /\ UNCHANGED <<content, dir, unsynced, platform, payload, written, renameOf, promised, calls>>

Renamed(w) ==
  [entry |-> [n \in Name |-> IF n = Target THEN Tmp(w)
                             ELSE IF n = TmpOf[w] THEN NoInode
                             ELSE dir.entry[n]],
   age   |-> dir.age + 1]

Rename(w) ==
  /\ pc[w] = "synced"
  /\ Tmp(w) # NoInode
  /\ DirectoryBecomes(Renamed(w))
  /\ renameOf' = [renameOf EXCEPT ![w] = dir.age + 1]
  /\ pc' = [pc EXCEPT ![w] = "renamed"]
  /\ UNCHANGED <<content, clean, platform, fd, payload, written, promised, calls>>

\* Mutant: the handle is only closed on success.
IOError_KeepsHandle(w) ==
  /\ pc[w] \in {"called", "writing", "reopened", "synced"}
  /\ written' = [written EXCEPT ![w] = 0]
  /\ pc' = [pc EXCEPT ![w] = "failed"]
  /\ UNCHANGED <<fsVars, fd, payload, renameOf, promised, calls>>

\* A step of the helper failed (no space, no entry of that name, EIO): the
\* handle is closed and the error kept.
IOError(w) ==
  /\ pc[w] \in {"called", "writing", "reopened", "synced"}
  /\ fd' = [fd EXCEPT ![w] = NoInode]
  /\ written' = [written EXCEPT ![w] = 0]
  /\ pc' = [pc EXCEPT ![w] = "failed"]
  /\ UNCHANGED <<fsVars, payload, renameOf, promised, calls>>

\* removeTmpResidue*(): unlink by name, its own errors swallowed; then rethrow.
RemoveTmp(w) ==
  /\ pc[w] = "failed"
  /\ \/ DirectoryBecomes(WithEntry(TmpOf[w], NoInode))
     \/ UNCHANGED <<dir, unsynced>>
  /\ pc' = [pc EXCEPT ![w] = "idle"]
  /\ UNCHANGED <<content, clean, platform, fd, payload, written, renameOf, promised, calls>>

LargerOf(m, n) == IF m > n THEN m ELSE n

\* Mutant: the directory is not synced.
FsyncParent_Skipped(w) ==
  /\ pc[w] = "renamed"
  /\ promised' = LargerOf(promised, renameOf[w])
  /\ renameOf' = [renameOf EXCEPT ![w] = 0]
  /\ pc' = [pc EXCEPT ![w] = "idle"]
  /\ UNCHANGED <<fsVars, fd, payload, written, calls>>

\* fsyncParentDir*(): EISDIR and the like are swallowed, which happens where
\* directories cannot be synced and need not be.  The caller is told it is done.
FsyncParent(w) ==
  /\ pc[w] = "renamed"
  /\ unsynced' = {dir}
  /\ promised' = LargerOf(promised, renameOf[w])
  /\ renameOf' = [renameOf EXCEPT ![w] = 0]
  /\ pc' = [pc EXCEPT ![w] = "idle"]
  /\ UNCHANGED <<content, clean, dir, platform, fd, payload, written, calls>>

\* A genuine error is thrown, though the file has been replaced.
FsyncParentFails(w) ==
  /\ pc[w] = "renamed"
  /\ renameOf' = [renameOf EXCEPT ![w] = 0]
  /\ pc' = [pc EXCEPT ![w] = "idle"]
  /\ UNCHANGED <<fsVars, fd, payload, written, promised, calls>>

-----------------------------------------------------------------------------
\* What interrupts it (external)

\* The process dies; what it had done to the file system stays.
Crash(w) ==
  /\ pc[w] # "idle"
  /\ fd' = [fd EXCEPT ![w] = NoInode]
  /\ written' = [written EXCEPT ![w] = 0]
  /\ renameOf' = [renameOf EXCEPT ![w] = 0]
  /\ pc' = [pc EXCEPT ![w] = "idle"]
  /\ UNCHANGED <<fsVars, payload, promised, calls>>

PowerLoss ==
  /\ \E d \in unsynced : dir' = d /\ unsynced' = {d}
  /\ \E lost \in SUBSET (Inode \ clean) :
       content' = [i \in Inode |-> IF i \in lost THEN <<>> ELSE content[i]]
  /\ clean' = Inode
  /\ fd' = [w \in Writer |-> NoInode]
  /\ written' = [w \in Writer |-> 0]
  /\ renameOf' = [w \in Writer |-> 0]
  /\ pc' = [w \in Writer |-> "idle"]
  /\ UNCHANGED <<platform, payload, promised, calls>>

-----------------------------------------------------------------------------
\* A file that was written before, no temporary file.
Init ==
  /\ platform \in {"posix", "ntfs"}
  /\ \E i \in Inode, p \in Payload :
       /\ content = [j \in Inode |-> IF j = i THEN Complete(p) ELSE <<>>]
       /\ dir = [entry |-> [n \in Name |-> IF n = Target THEN i ELSE NoInode],
                 age   |-> 0]
  /\ clean = Inode
  /\ unsynced = {dir}
  /\ pc = [w \in Writer |-> "idle"]
  /\ fd = [w \in Writer |-> NoInode]
  /\ payload = [w \in Writer |-> CHOOSE p \in Payload : TRUE]
  /\ written = [w \in Writer |-> 0]
  /\ renameOf = [w \in Writer |-> 0]
  /\ promised = 0
  /\ calls = 0

Step(w) ==
  \/ Call(w) \/ OpenTmp(w) \/ WriteTmp(w) \/ ReopenTmp(w) \/ FsyncTmp(w)
  \/ Rename(w) \/ IOError(w) \/ RemoveTmp(w)
  \/ FsyncParent(w) \/ FsyncParentFails(w)
  \/ Crash(w)

Next == (\E w \in Writer : Step(w)) \/ PowerLoss

Spec == Init /\ [][Next]_vars

-----------------------------------------------------------------------------
\* Properties

Phase == {"idle", "called", "writing", "reopened", "synced", "failed", "renamed"}

Directory == [entry : [Name -> Inode \cup {NoInode}], age : Nat]

\* Types; and no handle outlives its call, whatever step fails.
TypeOK ==
  /\ content \in [Inode -> Seq(Payload \cup {Hole})]
  /\ clean \subseteq Inode
  /\ dir \in unsynced
  /\ unsynced \subseteq Directory
  /\ platform \in {"posix", "ntfs"}
  /\ pc \in [Writer -> Phase]
  /\ fd \in [Writer -> Inode \cup {NoInode}]
  /\ \A w \in Writer : fd[w] # NoInode <=> pc[w] \in {"writing", "reopened"}
  /\ payload \in [Writer -> Payload]
  /\ written \in [Writer -> Nat]
  /\ renameOf \in [Writer -> Nat]
  /\ promised \in Nat
  /\ calls \in Nat

Read(d) == content[d.entry[Target]]

\* A power loss at any moment leaves a target that is on the disk and whole
\* (atomic-write.ts:12-22).
CrashSafe ==
  \A d \in unsynced :
    d.entry[Target] \in clean /\ IsComplete(Read(d))

\* Once a call has returned, no power loss brings back what the file held
\* before that call's rename (atomic-write.ts:16-21).
DurableOnReturn == \A d \in unsynced : d.age >= promised

\* The two together, with the bookkeeping of handles: a call holds one only
\* between opening and closing it.
FileSurvives == TypeOK /\ CrashSafe /\ DurableOnReturn

\* Readers see either the old file contents or the new ones, never a partial
\* write (atomic-write.ts:14-15), also when two processes write one target
\* (49-52).
ReadersNeverSeePartial == IsComplete(Read(dir))

Pending(w) == pc[w] \in {"called", "writing", "reopened", "synced"}

File == INSTANCE AtomicFile WITH
  Value   <- {Complete(p) : p \in Payload},
  NoValue <- <<>>,
  value   <- Read(dir),
  atRisk  <- {Read(d) : d \in unsynced},
  request <- [w \in Writer |-> IF Pending(w) THEN Complete(payload[w]) ELSE <<>>]

\* The protocol implements a file that changes from one complete value to
\* another, only by the rename of a call that asked for that very value.
Implements == File!Spec
=============================================================================
