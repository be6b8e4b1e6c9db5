------------------------- MODULE AtomicWrite_proofs -------------------------
(***************************************************************************)
(* Proofs about AtomicWrite, for any writers, payloads and inodes, when no *)
(* two writers share a temporary name.                                     *)
(***************************************************************************)
EXTENDS AtomicWrite, TLAPS

-----------------------------------------------------------------------------
\* The inductive invariant

\* The inode under a temporary name is nobody's target, now or after a power
\* loss: writing it changes no file a reader can see.
TmpApart ==
  \A w \in Writer : \A d \in unsynced :
    Tmp(w) # NoInode => Tmp(w) # d.entry[Target]

\* Every directory a power loss may leave keeps the names apart.
NamesApart ==
  \A d \in unsynced : \A w \in Writer :
    d.entry[TmpOf[w]] # NoInode =>
      /\ d.entry[TmpOf[w]] # d.entry[Target]
      /\ \A v \in Writer : d.entry[TmpOf[v]] = d.entry[TmpOf[w]] => v = w

\* The first n blocks of p, and nothing else.
Holds(c, n, p) == /\ Len(c) = n
                  /\ \A k \in 1 .. n : c[k] = p

\* What a call knows of its temporary file.
Progress(w) ==
  /\ pc[w] \in {"writing", "reopened", "synced"} => Tmp(w) # NoInode
  /\ pc[w] \in {"writing", "reopened"} => fd[w] = Tmp(w)
  /\ pc[w] = "writing" =>
       /\ written[w] <= Size[payload[w]]
       /\ Holds(content[Tmp(w)], written[w], payload[w])
  /\ pc[w] \in {"reopened", "synced"} =>
       Holds(content[Tmp(w)], Size[payload[w]], payload[w])
  /\ pc[w] = "synced" => Tmp(w) \in clean
  /\ pc[w] # "writing" => written[w] = 0

WriteInv ==
  /\ TypeOK
  /\ CrashSafe
  /\ TmpApart
  /\ NamesApart
  /\ \A w \in Writer : Progress(w)

-----------------------------------------------------------------------------
\* Lemmas about directories and contents

\* Changing one entry.
LEMMA EntryChanged ==
  ASSUME TypeOK, NEW n \in Name, NEW i \in Inode \cup {NoInode}
  PROVE  /\ WithEntry(n, i) \in Directory
         /\ WithEntry(n, i).age = dir.age
         /\ \A m \in Name : WithEntry(n, i).entry[m] = IF m = n THEN i ELSE dir.entry[m]
BY DEF TypeOK, Directory, WithEntry

\* Names are names.
LEMMA NamesOfWriters ==
  /\ Target \in Name
  /\ \A w \in Writer : TmpOf[w] \in Name /\ TmpOf[w] # Target
BY AtomicWriteConstants DEF Name

\* The directory after a change is one that a power loss may leave, and no
\* other one is added.
LEMMA DirectoryChanged ==
  ASSUME TypeOK, NEW e \in Directory, DirectoryBecomes(e)
  PROVE  /\ dir' = e
         /\ dir' \in unsynced'
         /\ unsynced' \subseteq unsynced \cup {e}
         /\ unsynced' \subseteq Directory
BY DEF TypeOK, DirectoryBecomes

\* Writing the block after the last one.
LEMMA BlockAppended ==
  ASSUME NEW c \in Seq(Payload \cup {Hole}), NEW p \in Payload,
         NEW k \in Nat
  PROVE  /\ WithBlock(c, k + 1, p) \in Seq(Payload \cup {Hole})
         /\ Holds(c, k, p) => Holds(WithBlock(c, k + 1, p), k + 1, p)
<1> DEFINE n == IF k + 1 > Len(c) THEN k + 1 ELSE Len(c)
<1>1. n \in Nat
  OBVIOUS
<1>2. \A j \in 1 .. n : WithBlock(c, k + 1, p)[j] \in Payload \cup {Hole}
  BY DEF WithBlock
<1>3. WithBlock(c, k + 1, p) \in [1 .. n -> Payload \cup {Hole}]
  BY <1>2 DEF WithBlock
<1>4. WithBlock(c, k + 1, p) \in Seq(Payload \cup {Hole}) /\ Len(WithBlock(c, k + 1, p)) = n
  BY <1>1, <1>3
<1>5. ASSUME Holds(c, k, p)
      PROVE  Holds(WithBlock(c, k + 1, p), k + 1, p)
  <2>1. n = k + 1
    BY <1>5 DEF Holds
  <2>2. \A j \in 1 .. k + 1 : WithBlock(c, k + 1, p)[j] = p
    BY <1>5, <2>1 DEF Holds, WithBlock
  <2>3. QED
    BY <1>4, <2>1, <2>2 DEF Holds
<1>6. QED
  BY <1>4, <1>5

\* All the blocks of a payload are the whole payload.
LEMMA AllBlocksAreComplete ==
  ASSUME NEW c \in Seq(Payload \cup {Hole}), NEW p \in Payload,
         Holds(c, Size[p], p)
  PROVE  c = Complete(p)
<1>1. Size[p] \in Nat
  BY AtomicWriteConstants
<1>2. c = [k \in 1 .. Len(c) |-> c[k]]
  OBVIOUS
<1>3. QED
  BY <1>1, <1>2 DEF Holds, Complete

\* A complete payload is a sequence of blocks, and not empty.
LEMMA CompleteIsContent ==
  ASSUME NEW p \in Payload
  PROVE  Complete(p) \in Seq(Payload \cup {Hole}) /\ Complete(p) # <<>>
<1>1. Size[p] \in Nat \ {0}
  BY AtomicWriteConstants
<1>2. Complete(p) \in [1 .. Size[p] -> Payload \cup {Hole}]
  BY DEF Complete
<1>3. Complete(p) \in Seq(Payload \cup {Hole}) /\ Len(Complete(p)) = Size[p]
  BY <1>1, <1>2
<1>4. QED
  BY <1>1, <1>3

-----------------------------------------------------------------------------
\* Types

\* The names a directory gives are inodes.
LEMMA EntriesAreInodes ==
  ASSUME TypeOK
  PROVE  /\ \A d \in unsynced : \A n \in Name : d.entry[n] \in Inode \cup {NoInode}
         /\ \A d \in unsynced : d.age \in Nat
         /\ \A w \in Writer : Tmp(w) \in Inode \cup {NoInode}
         /\ dir.age \in Nat
BY NamesOfWriters DEF TypeOK, Directory, Tmp

\* The directory after rename(2).
LEMMA RenamedEntries ==
  ASSUME TypeOK, NEW w \in Writer
  PROVE  /\ Renamed(w) \in Directory
         /\ Renamed(w).age = dir.age + 1
         /\ Renamed(w).entry[Target] = Tmp(w)
         /\ Renamed(w).entry[TmpOf[w]] = NoInode
         /\ \A n \in Name \ {Target, TmpOf[w]} : Renamed(w).entry[n] = dir.entry[n]
BY EntriesAreInodes, NamesOfWriters DEF TypeOK, Renamed, Directory

LEMMA TypeInit ==
  ASSUME Init
  PROVE  TypeOK
<1> USE AtomicWriteConstants
<1>1. PICK i \in Inode, p \in Payload :
         /\ content = [j \in Inode |-> IF j = i THEN Complete(p) ELSE <<>>]
         /\ dir = [entry |-> [n \in Name |-> IF n = Target THEN i ELSE NoInode],
                   age   |-> 0]
  BY DEF Init
<1>2. content \in [Inode -> Seq(Payload \cup {Hole})]
  BY <1>1, CompleteIsContent
<1>3. dir \in Directory
  BY <1>1 DEF Directory
<1>4. (CHOOSE p_ \in Payload : TRUE) \in Payload
  OBVIOUS
<1>5. payload \in [Writer -> Payload]
  BY <1>4 DEF Init
<1>6. QED
  BY <1>2, <1>3, <1>5 DEF Init, TypeOK, Phase

\* Every step keeps the types, and leaves no handle behind.
LEMMA TypeStep ==
  ASSUME TypeOK, [Next]_vars
  PROVE  TypeOK'
<1> USE AtomicWriteConstants DEF TypeOK, Phase
<1>1. ASSUME NEW w \in Writer, Call(w)
      PROVE  TypeOK'
  BY <1>1 DEF Call, fsVars
<1>2. ASSUME NEW w \in Writer, OpenTmp(w)
      PROVE  TypeOK'
  <2>1. PICK i \in Inode :
          /\ \/ i = Tmp(w) /\ UNCHANGED <<dir, unsynced>>
             \/ DirectoryBecomes(WithEntry(TmpOf[w], i))
          /\ Emptied(i)
          /\ clean' = clean \ {i}
          /\ fd' = [fd EXCEPT ![w] = i]
    BY <1>2 DEF OpenTmp
  <2>2. dir' \in unsynced' /\ unsynced' \subseteq Directory
    BY <2>1, EntryChanged, DirectoryChanged, NamesOfWriters
  <2>3. content' \in [Inode -> Seq(Payload \cup {Hole})]
    BY <2>1 DEF Emptied
  <2>4. QED
    BY <1>2, <2>1, <2>2, <2>3 DEF OpenTmp
<1>3. ASSUME NEW w \in Writer, WriteTmp(w)
      PROVE  TypeOK'
  <2>1. fd[w] \in Inode
    BY <1>3 DEF WriteTmp
  <2>2. WithBlock(content[fd[w]], written[w] + 1, payload[w]) \in Seq(Payload \cup {Hole})
    BY <2>1, BlockAppended
  <2>3. QED
    BY <1>3, <2>1, <2>2 DEF WriteTmp
<1>4. ASSUME NEW w \in Writer, ReopenTmp(w)
      PROVE  TypeOK'
  BY <1>4, EntriesAreInodes DEF ReopenTmp, fsVars
<1>5. ASSUME NEW w \in Writer, FsyncTmp(w)
      PROVE  TypeOK'
  BY <1>5 DEF FsyncTmp
<1>6. ASSUME NEW w \in Writer, Rename(w)
      PROVE  TypeOK'
  <2>1. Renamed(w) \in Directory
    BY RenamedEntries
  <2>2. dir' \in unsynced' /\ unsynced' \subseteq Directory
    BY <1>6, <2>1, DirectoryChanged DEF Rename
  <2>3. QED
    BY <1>6, <2>2, EntriesAreInodes DEF Rename
<1>7. ASSUME NEW w \in Writer, IOError(w)
      PROVE  TypeOK'
  BY <1>7 DEF IOError, fsVars
<1>8. ASSUME NEW w \in Writer, RemoveTmp(w)
      PROVE  TypeOK'
  <2>1. dir' \in unsynced' /\ unsynced' \subseteq Directory
    BY <1>8, EntryChanged, DirectoryChanged, NamesOfWriters DEF RemoveTmp
  <2>2. QED
    BY <1>8, <2>1 DEF RemoveTmp
<1>9. ASSUME NEW w \in Writer, FsyncParent(w) \/ FsyncParentFails(w) \/ Crash(w)
      PROVE  TypeOK'
  <2>1. CASE FsyncParent(w)
    BY <2>1 DEF FsyncParent, LargerOf
  <2>2. CASE FsyncParentFails(w)
    BY <2>2 DEF FsyncParentFails, fsVars
  <2>3. CASE Crash(w)
    BY <2>3 DEF Crash, fsVars
  <2>4. QED
    BY <1>9, <2>1, <2>2, <2>3
<1>10. CASE PowerLoss
  <2>1. content' \in [Inode -> Seq(Payload \cup {Hole})]
    BY <1>10 DEF PowerLoss
  <2>2. dir' \in unsynced' /\ unsynced' \subseteq Directory
    BY <1>10 DEF PowerLoss
  <2>3. QED
    BY <1>10, <2>1, <2>2 DEF PowerLoss
<1>11. CASE UNCHANGED vars
  BY <1>11 DEF vars, fsVars
<1>12. QED
  BY <1>1, <1>2, <1>3, <1>4, <1>5, <1>6, <1>7, <1>8, <1>9, <1>10, <1>11 DEF Next, Step

\* TypeOK of AtomicWrite, for every value of the constants.
THEOREM WriteTypeCorrect == Spec => []TypeOK
<1>1. Init => TypeOK
  BY TypeInit
<1>2. TypeOK /\ [Next]_vars => TypeOK'
  BY TypeStep
<1>3. QED
  BY <1>1, <1>2, PTL DEF Spec

-----------------------------------------------------------------------------
\* What a power loss may find

\* The part of the invariant about files.
FilesSafe == CrashSafe /\ TmpApart /\ NamesApart

LEMMA WriteInit ==
  ASSUME OwnTmp, Init
  PROVE  WriteInv
<1>1. TypeOK
  BY TypeInit
<1>2. PICK i \in Inode, p \in Payload :
         /\ content = [j \in Inode |-> IF j = i THEN Complete(p) ELSE <<>>]
         /\ dir = [entry |-> [n \in Name |-> IF n = Target THEN i ELSE NoInode],
                   age   |-> 0]
  BY DEF Init
<1>3. unsynced = {dir} /\ clean = Inode
  BY DEF Init
<1>4. CrashSafe
  BY <1>2, <1>3, NamesOfWriters DEF CrashSafe, Read, IsComplete
<1>5. \A w \in Writer : Tmp(w) = NoInode
  BY <1>2, NamesOfWriters DEF Tmp
<1>6. TmpApart /\ NamesApart
  BY <1>3, <1>5 DEF TmpApart, NamesApart, Tmp
<1>7. \A w \in Writer : Progress(w)
  BY DEF Init, Progress
<1>8. QED
  BY <1>1, <1>4, <1>6, <1>7 DEF WriteInv

\* A step that changes nothing but one writer's own variables.
LEMMA LocalStep ==
  ASSUME OwnTmp, WriteInv, NEW w \in Writer,
         Call(w) \/ ReopenTmp(w) \/ IOError(w) \/ FsyncParentFails(w) \/ Crash(w)
  PROVE  FilesSafe' /\ \A v \in Writer : Progress(v)'
<1> USE DEF WriteInv
<1>1. UNCHANGED fsVars
  BY DEF Call, ReopenTmp, IOError, FsyncParentFails, Crash
<1>2. FilesSafe'
  BY <1>1 DEF fsVars, FilesSafe, CrashSafe, Read, TmpApart, NamesApart, Tmp
<1>3. \A v \in Writer : Tmp(v)' = Tmp(v)
  BY <1>1 DEF fsVars, Tmp
<1>4. ASSUME NEW v \in Writer
      PROVE  Progress(v)'
  <2>1. Progress(v)
    OBVIOUS
  <2>2. CASE Call(w)
    BY <1>1, <1>3, <2>1, <2>2 DEF Call, Progress, TypeOK, fsVars
  <2>3. CASE ReopenTmp(w)
    BY <1>1, <1>3, <2>1, <2>3 DEF ReopenTmp, Progress, TypeOK, fsVars
  <2>4. CASE IOError(w)
    BY <1>1, <1>3, <2>1, <2>4 DEF IOError, Progress, TypeOK, fsVars
  <2>5. CASE FsyncParentFails(w)
    BY <1>1, <1>3, <2>1, <2>5 DEF FsyncParentFails, Progress, TypeOK, fsVars
  <2>6. CASE Crash(w)
    BY <1>1, <1>3, <2>1, <2>6 DEF Crash, Progress, TypeOK, fsVars
  <2>7. QED
    BY <2>2, <2>3, <2>4, <2>5, <2>6
<1>5. QED
  BY <1>2, <1>4

\* Changing the blocks of an inode that no target names, and no other call
\* works on, is seen by nobody.
LEMMA BlocksOfOne ==
  ASSUME WriteInv, NEW i \in Inode,
         \A d \in unsynced : d.entry[Target] # i,
         \A j \in Inode \ {i} : content'[j] = content[j],
         clean \ {i} \subseteq clean',
         unsynced' = unsynced
  PROVE  CrashSafe'
<1>1. ASSUME NEW d \in unsynced
      PROVE  d.entry[Target] \in clean' /\ content'[d.entry[Target]] = content[d.entry[Target]]
  BY DEF WriteInv, TypeOK, CrashSafe
<1>2. QED
  BY <1>1 DEF WriteInv, CrashSafe, Read

\* What other calls know of their files does not change either.
LEMMA OthersKeepGoing ==
  ASSUME WriteInv, NEW w \in Writer, NEW v \in Writer \ {w},
         Tmp(v)' = Tmp(v),
         Tmp(v) # NoInode => content'[Tmp(v)] = content[Tmp(v)],
         Tmp(v) \in clean => Tmp(v) \in clean',
         pc'[v] = pc[v], fd'[v] = fd[v], payload'[v] = payload[v], written'[v] = written[v]
  PROVE  Progress(v)'
<1>1. Progress(v)
  BY DEF WriteInv
<1>2. QED
  BY <1>1 DEF Progress

\* Blocks of a temporary file are written where no reader looks.
LEMMA WriteTmpStep ==
  ASSUME OwnTmp, WriteInv, NEW w \in Writer, WriteTmp(w)
  PROVE  FilesSafe' /\ \A v \in Writer : Progress(v)'
<1> USE DEF WriteInv
<1>1. Tmp(w) \in Inode /\ fd[w] = Tmp(w)
  BY EntriesAreInodes DEF WriteTmp, Progress
<1>2. UNCHANGED <<dir, unsynced>> /\ \A v \in Writer : Tmp(v)' = Tmp(v)
  BY DEF WriteTmp, Tmp
<1>3. \A j \in Inode \ {Tmp(w)} : content'[j] = content[j]
  BY <1>1 DEF WriteTmp, TypeOK
<1>4. CrashSafe'
  <2>1. \A d \in unsynced : d.entry[Target] # Tmp(w)
    BY <1>1, AtomicWriteConstants DEF TmpApart
  <2>2. clean \ {Tmp(w)} \subseteq clean'
    BY <1>1 DEF WriteTmp
  <2>3. QED
    BY <1>1, <1>2, <1>3, <2>1, <2>2, BlocksOfOne
<1>5. TmpApart' /\ NamesApart'
  BY <1>2 DEF TmpApart, NamesApart
<1>6. ASSUME NEW v \in Writer \ {w}
      PROVE  Progress(v)'
  <2>1. Tmp(v) # NoInode => Tmp(v) # Tmp(w) /\ Tmp(v) \in Inode
    BY EntriesAreInodes DEF NamesApart, Tmp, TypeOK
  <2>2. Tmp(v) \in clean => Tmp(v) \in clean'
    BY <1>1, <2>1, AtomicWriteConstants DEF WriteTmp, TypeOK
  <2>3. pc'[v] = pc[v] /\ fd'[v] = fd[v] /\ payload'[v] = payload[v] /\ written'[v] = written[v]
    BY DEF WriteTmp, TypeOK
  <2>4. QED
    BY <1>2, <1>3, <2>1, <2>2, <2>3, OthersKeepGoing
<1>7. Progress(w)'
  <2>1. content'[Tmp(w)] = WithBlock(content[Tmp(w)], written[w] + 1, payload[w])
    BY <1>1 DEF WriteTmp, TypeOK
  <2>2. Holds(content[Tmp(w)], written[w], payload[w]) /\ pc[w] = "writing"
    BY DEF Progress, WriteTmp
  <2>3. Holds(content'[Tmp(w)], written[w] + 1, payload[w])
    <3>1. /\ content[Tmp(w)] \in Seq(Payload \cup {Hole})
          /\ payload[w] \in Payload /\ written[w] \in Nat
      BY <1>1 DEF TypeOK
    <3>2. QED
      BY <2>1, <2>2, <3>1, BlockAppended
  <2>4. written'[w] = written[w] + 1 /\ written'[w] <= Size[payload[w]]
    BY AtomicWriteConstants DEF WriteTmp, TypeOK
  <2>5. QED
    BY <1>1, <1>2, <2>2, <2>3, <2>4, AtomicWriteConstants DEF WriteTmp, Progress
<1>8. QED
  BY <1>4, <1>5, <1>6, <1>7 DEF FilesSafe

LEMMA FsyncTmpStep ==
  ASSUME OwnTmp, WriteInv, NEW w \in Writer, FsyncTmp(w)
  PROVE  FilesSafe' /\ \A v \in Writer : Progress(v)'
<1> USE DEF WriteInv
<1>1. UNCHANGED <<content, dir, unsynced>> /\ clean \subseteq clean'
  BY DEF FsyncTmp
<1>2. FilesSafe'
  BY <1>1 DEF FilesSafe, CrashSafe, Read, TmpApart, NamesApart, Tmp
<1>3. ASSUME NEW v \in Writer \ {w}
      PROVE  Progress(v)'
  <2>1. pc'[v] = pc[v] /\ fd'[v] = fd[v] /\ payload'[v] = payload[v] /\ written'[v] = written[v]
    BY DEF FsyncTmp, TypeOK
  <2>2. Tmp(v)' = Tmp(v)
    BY <1>1 DEF Tmp
  <2>3. QED
    BY <1>1, <2>1, <2>2, OthersKeepGoing
<1>4. Progress(w)'
  <2>1. Progress(w)
    OBVIOUS
  <2>2. QED
    BY <1>1, <2>1 DEF FsyncTmp, Progress, TypeOK, Tmp
<1>5. QED
  BY <1>2, <1>3, <1>4

\* The rename puts a file in place that is whole and on the disk.
LEMMA RenameStep ==
  ASSUME OwnTmp, WriteInv, NEW w \in Writer, Rename(w)
  PROVE  FilesSafe' /\ \A v \in Writer : Progress(v)'
<1> USE DEF WriteInv
<1> DEFINE e == Renamed(w)
<1>1. /\ UNCHANGED <<content, clean, fd, payload, written>>
      /\ pc[w] = "synced" /\ pc' = [pc EXCEPT ![w] = "renamed"]
      /\ Tmp(w) \in Inode
  BY EntriesAreInodes DEF Rename
<1>2. dir' = e /\ unsynced' \subseteq unsynced \cup {e}
  BY RenamedEntries, DirectoryChanged DEF Rename
<1>3. \A v \in Writer \ {w} : Tmp(v)' = Tmp(v) /\ e.entry[TmpOf[v]] = Tmp(v)
  BY <1>2, RenamedEntries, NamesOfWriters DEF Tmp, OwnTmp
<1>4. Tmp(w)' = NoInode /\ e.entry[TmpOf[w]] = NoInode /\ e.entry[Target] = Tmp(w)
  BY <1>2, RenamedEntries DEF Tmp
<1>5. \A v \in Writer \ {w} : Tmp(v) # NoInode => Tmp(v) # Tmp(w)
  BY DEF TypeOK, NamesApart, Tmp
<1>6. content[Tmp(w)] = Complete(payload[w]) /\ Tmp(w) \in clean
  BY <1>1, AllBlocksAreComplete DEF Progress, TypeOK
<1>7. CrashSafe'
  BY <1>1, <1>2, <1>4, <1>6 DEF CrashSafe, Read, IsComplete, TypeOK
<1>8. TmpApart'
  BY <1>2, <1>3, <1>4, <1>5 DEF TmpApart
<1>9. NamesApart'
  <2>1. ASSUME NEW d \in unsynced', NEW v \in Writer, d.entry[TmpOf[v]] # NoInode
        PROVE  /\ d.entry[TmpOf[v]] # d.entry[Target]
               /\ \A u \in Writer : d.entry[TmpOf[u]] = d.entry[TmpOf[v]] => u = v
    <3>1. CASE d \in unsynced
      BY <2>1, <3>1 DEF NamesApart
    <3>2. CASE d = e
      <4>1. v # w
        BY <1>4, <2>1, <3>2
      <4>2. \A u \in Writer \ {w} : Tmp(u) = Tmp(v) /\ Tmp(v) # NoInode => u = v
        BY DEF TypeOK, NamesApart, Tmp
      <4>3. QED
        BY <1>3, <1>4, <1>5, <2>1, <3>2, <4>1, <4>2
    <3>3. QED
      BY <1>2, <3>1, <3>2
  <2>2. QED
    BY <2>1 DEF NamesApart
<1>10. ASSUME NEW v \in Writer \ {w}
       PROVE  Progress(v)'
  BY <1>1, <1>3, OthersKeepGoing DEF TypeOK
<1>11. Progress(w)'
  BY <1>1 DEF Progress, TypeOK
<1>12. QED
  BY <1>7, <1>8, <1>9, <1>10, <1>11 DEF FilesSafe

\* The file opened is one this writer left behind, or one nobody can reach.
LEMMA OpenTmpStep ==
  ASSUME OwnTmp, WriteInv, NEW w \in Writer, OpenTmp(w)
  PROVE  FilesSafe' /\ \A v \in Writer : Progress(v)'
<1> USE DEF WriteInv
<1>1. PICK i \in Inode :
        /\ \/ i = Tmp(w) /\ UNCHANGED <<dir, unsynced>>
           \/ /\ Tmp(w) = NoInode /\ i \in Free
              /\ DirectoryBecomes(WithEntry(TmpOf[w], i))
        /\ Emptied(i)
        /\ clean' = clean \ {i}
        /\ fd' = [fd EXCEPT ![w] = i]
  BY DEF OpenTmp
<1> DEFINE e == WithEntry(TmpOf[w], i)
<1>2. \A d \in unsynced : d.entry[Target] # i
  BY <1>1, NamesOfWriters, AtomicWriteConstants DEF TmpApart, Free
<1>3. \A v \in Writer \ {w} : Tmp(v) # i
  BY <1>1, NamesOfWriters, AtomicWriteConstants DEF NamesApart, Free, TypeOK, Tmp
<1>4. /\ e.entry[Target] = dir.entry[Target]
      /\ e.entry[TmpOf[w]] = i
      /\ \A v \in Writer \ {w} : e.entry[TmpOf[v]] = Tmp(v)
  BY EntryChanged, NamesOfWriters DEF OwnTmp, Tmp
<1>5. /\ dir' = dir \/ dir' = e
      /\ unsynced' \subseteq unsynced \cup {e}
      /\ unsynced' = unsynced \/ (i \in Free /\ Tmp(w) = NoInode)
  BY <1>1, EntryChanged, DirectoryChanged, NamesOfWriters
<1>6. Tmp(w)' = i /\ \A v \in Writer \ {w} : Tmp(v)' = Tmp(v)
  BY <1>1, <1>4, EntryChanged, DirectoryChanged, NamesOfWriters DEF Tmp
<1>7. /\ content'[i] = <<>>
      /\ \A j \in Inode \ {i} : content'[j] = content[j]
  BY <1>1 DEF Emptied, TypeOK
<1>8. \A d \in unsynced' : \E c \in unsynced : d.entry[Target] = c.entry[Target]
  BY <1>4, <1>5 DEF TypeOK
<1>9. CrashSafe'
  <2>1. ASSUME NEW c \in unsynced
        PROVE  /\ c.entry[Target] \in clean'
               /\ content'[c.entry[Target]] = content[c.entry[Target]]
    BY <1>1, <1>2, <1>7 DEF CrashSafe, TypeOK
  <2>2. QED
    BY <1>8, <2>1 DEF CrashSafe, Read
<1>10. TmpApart'
  BY <1>2, <1>6, <1>8 DEF TmpApart
<1>11. NamesApart'
  <2>1. ASSUME NEW d \in unsynced', NEW v \in Writer, d.entry[TmpOf[v]] # NoInode
        PROVE  /\ d.entry[TmpOf[v]] # d.entry[Target]
               /\ \A u \in Writer : d.entry[TmpOf[u]] = d.entry[TmpOf[v]] => u = v
    <3>1. CASE d \in unsynced
      BY <2>1, <3>1 DEF NamesApart
    <3>2. CASE d = e
      <4>1. e.entry[Target] # i
        BY <1>2, <1>4 DEF TypeOK
      <4>2. \A u, t \in Writer \ {w} : Tmp(u) = Tmp(t) /\ Tmp(t) # NoInode => u = t
        BY DEF TypeOK, NamesApart, Tmp
      <4>3. \A u \in Writer \ {w} : Tmp(u) # NoInode => Tmp(u) # dir.entry[Target]
        BY DEF TypeOK, NamesApart, Tmp
      <4>4. QED
        BY <1>3, <1>4, <2>1, <3>2, <4>1, <4>2, <4>3
    <3>3. QED
      BY <1>5, <3>1, <3>2
  <2>2. QED
    BY <2>1 DEF NamesApart
<1>12. ASSUME NEW v \in Writer \ {w}
       PROVE  Progress(v)'
  <2>1. Tmp(v) # NoInode => content'[Tmp(v)] = content[Tmp(v)]
    BY <1>3, <1>7, EntriesAreInodes
  <2>2. Tmp(v) \in clean => Tmp(v) \in clean'
    BY <1>1, <1>3
  <2>3. pc'[v] = pc[v] /\ fd'[v] = fd[v] /\ payload'[v] = payload[v] /\ written'[v] = written[v]
    BY <1>1 DEF OpenTmp, TypeOK
  <2>4. QED
    BY <1>6, <2>1, <2>2, <2>3, OthersKeepGoing
<1>13. Progress(w)'
  <2>1. written'[w] = 0 /\ pc'[w] = "writing" /\ fd'[w] = i /\ payload'[w] \in Payload
    BY <1>1 DEF OpenTmp, Progress, TypeOK
  <2>2. Holds(content'[i], 0, payload'[w])
    BY <1>7 DEF Holds
  <2>3. Size[payload'[w]] \in Nat
    BY <2>1, AtomicWriteConstants
  <2>4. QED
    BY <1>6, <2>1, <2>2, <2>3, AtomicWriteConstants DEF Progress
<1>14. QED
  BY <1>9, <1>10, <1>11, <1>12, <1>13 DEF FilesSafe

LEMMA RemoveTmpStep ==
  ASSUME OwnTmp, WriteInv, NEW w \in Writer, RemoveTmp(w)
  PROVE  FilesSafe' /\ \A v \in Writer : Progress(v)'
<1> USE DEF WriteInv
<1> DEFINE e == WithEntry(TmpOf[w], NoInode)
<1>1. UNCHANGED <<content, clean, fd, payload, written>> /\ pc[w] = "failed"
      /\ pc' = [pc EXCEPT ![w] = "idle"]
  BY DEF RemoveTmp
<1>2. dir' \in {dir, e} /\ unsynced' \subseteq unsynced \cup {e}
  BY EntryChanged, DirectoryChanged, NamesOfWriters DEF RemoveTmp
<1>3. /\ e.entry[Target] = dir.entry[Target]
      /\ e.entry[TmpOf[w]] = NoInode
      /\ \A v \in Writer \ {w} : e.entry[TmpOf[v]] = Tmp(v)
  BY EntryChanged, NamesOfWriters DEF OwnTmp, Tmp
<1>4. /\ \A v \in Writer \ {w} : Tmp(v)' = Tmp(v)
      /\ Tmp(w)' \in {Tmp(w), NoInode}
  BY <1>2, <1>3 DEF Tmp
<1>5. CrashSafe'
  BY <1>1, <1>2, <1>3 DEF CrashSafe, Read, TypeOK
<1>6. TmpApart'
  BY <1>2, <1>3, <1>4 DEF TmpApart, TypeOK
<1>7. NamesApart'
  <2>1. ASSUME NEW v \in Writer \ {w}, Tmp(v) # NoInode
        PROVE  /\ Tmp(v) # dir.entry[Target]
               /\ \A u \in Writer : Tmp(u) = Tmp(v) => u = v
    BY <2>1 DEF TypeOK, NamesApart, Tmp
  <2>2. QED
    BY <1>2, <1>3, <2>1 DEF NamesApart
<1>8. ASSUME NEW v \in Writer \ {w}
      PROVE  Progress(v)'
  BY <1>1, <1>4, OthersKeepGoing DEF TypeOK
<1>9. Progress(w)'
  BY <1>1 DEF Progress, TypeOK
<1>10. QED
  BY <1>5, <1>6, <1>7, <1>8, <1>9 DEF FilesSafe

LEMMA FsyncParentStep ==
  ASSUME OwnTmp, WriteInv, NEW w \in Writer, FsyncParent(w)
  PROVE  FilesSafe' /\ \A v \in Writer : Progress(v)'
<1> USE DEF WriteInv
<1>1. /\ UNCHANGED <<content, clean, dir, fd, payload, written>> /\ unsynced' = {dir}
      /\ pc[w] = "renamed" /\ pc' = [pc EXCEPT ![w] = "idle"]
  BY DEF FsyncParent
<1>2. FilesSafe'
  BY <1>1 DEF FilesSafe, CrashSafe, Read, TmpApart, NamesApart, Tmp, TypeOK
<1>3. \A v \in Writer : Tmp(v)' = Tmp(v)
  BY <1>1 DEF Tmp
<1>4. ASSUME NEW v \in Writer
      PROVE  Progress(v)'
  BY <1>1, <1>3 DEF Progress, TypeOK
<1>5. QED
  BY <1>2, <1>4

LEMMA PowerLossStep ==
  ASSUME OwnTmp, WriteInv, PowerLoss
  PROVE  FilesSafe' /\ \A v \in Writer : Progress(v)'
<1> USE DEF WriteInv
<1>1. PICK d \in unsynced : dir' = d /\ unsynced' = {d}
  BY DEF PowerLoss
<1>2. \A i \in clean : content'[i] = content[i]
  BY DEF PowerLoss, TypeOK
<1>3. clean' = Inode
  BY DEF PowerLoss
<1>4. CrashSafe'
  BY <1>1, <1>2, <1>3 DEF CrashSafe, Read, TypeOK
<1>5. NamesApart'
  BY <1>1 DEF NamesApart
<1>6. TmpApart'
  BY <1>1 DEF NamesApart, TmpApart, Tmp
<1>7. \A v \in Writer : Progress(v)'
  BY DEF PowerLoss, Progress
<1>8. QED
  BY <1>4, <1>5, <1>6, <1>7 DEF FilesSafe

\* Every step keeps the invariant.
LEMMA WriteStep ==
  ASSUME OwnTmp, WriteInv, [Next]_vars
  PROVE  WriteInv'
<1>1. TypeOK'
  BY TypeStep DEF WriteInv
<1>2. FilesSafe' /\ \A v \in Writer : Progress(v)'
  <2>1. CASE UNCHANGED vars
    BY <2>1 DEF vars, fsVars, WriteInv, FilesSafe, CrashSafe, Read, TmpApart, NamesApart, Tmp, Progress
  <2>2. CASE PowerLoss
    BY <2>2, PowerLossStep
  <2>3. ASSUME NEW w \in Writer, Step(w)
        PROVE  FilesSafe' /\ \A v \in Writer : Progress(v)'
    BY <2>3, LocalStep, OpenTmpStep, WriteTmpStep, FsyncTmpStep, RenameStep, RemoveTmpStep,
       FsyncParentStep DEF Step
  <2>4. QED
    BY <2>1, <2>2, <2>3 DEF Next
<1>3. QED
  BY <1>1, <1>2 DEF WriteInv, FilesSafe

LEMMA WriteInvariant ==
  ASSUME OwnTmp
  PROVE  Spec => []WriteInv
<1>1. Init => WriteInv
  BY WriteInit
<1>2. WriteInv /\ [Next]_vars => WriteInv'
  BY WriteStep
<1>3. QED
  BY <1>1, <1>2, PTL DEF Spec

\* A power loss at any moment leaves a whole file (atomic-write.ts:12-22), for
\* any number of writers with temporary names of their own.
THEOREM PowerLossLeavesAWholeFile ==
  ASSUME OwnTmp
  PROVE  Spec => []CrashSafe
BY WriteInvariant, PTL DEF WriteInv

-----------------------------------------------------------------------------
\* What a call has promised

\* Reports are about renames that happened; directories on the disk are not
\* older than the last report.
DurableInv ==
  /\ TypeOK
  /\ \A w \in Writer : renameOf[w] <= dir.age
  /\ DurableOnReturn

LEMMA DurableStep ==
  ASSUME DurableInv, [Next]_vars
  PROVE  DurableInv'
<1> USE DEF DurableInv, DurableOnReturn
<1>1. TypeOK'
  BY TypeStep
<1>2. dir.age \in Nat /\ \A d \in unsynced : d.age \in Nat
  BY EntriesAreInodes
<1>3. CASE UNCHANGED vars
  BY <1>1, <1>3 DEF vars, fsVars
<1>4. CASE PowerLoss
  BY <1>1, <1>2, <1>4 DEF PowerLoss
<1>5. ASSUME NEW w \in Writer, Step(w)
      PROVE  DurableInv'
  <2>1. CASE Call(w) \/ WriteTmp(w) \/ ReopenTmp(w) \/ FsyncTmp(w) \/ IOError(w)
    <3>1. UNCHANGED <<dir, unsynced, renameOf, promised>>
      BY <2>1 DEF Call, WriteTmp, ReopenTmp, FsyncTmp, IOError, fsVars
    <3>2. QED
      BY <1>1, <3>1
  <2>2. CASE FsyncParentFails(w) \/ Crash(w)
    <3>1. UNCHANGED <<dir, unsynced, promised>>
      BY <2>2 DEF FsyncParentFails, Crash, fsVars
    <3>2. \A v \in Writer : renameOf'[v] \in {renameOf[v], 0}
      BY <2>2 DEF FsyncParentFails, Crash, TypeOK
    <3>3. QED
      BY <1>1, <1>2, <3>1, <3>2
  <2>3. CASE OpenTmp(w) \/ RemoveTmp(w)
    <3>1. dir'.age = dir.age /\ \A d \in unsynced' : d \in unsynced \/ d.age = dir.age
      BY <2>3, EntryChanged, DirectoryChanged, NamesOfWriters DEF OpenTmp, RemoveTmp
    <3>2. UNCHANGED <<renameOf, promised>>
      BY <2>3 DEF OpenTmp, RemoveTmp
    <3>3. QED
      BY <1>1, <3>1, <3>2 DEF TypeOK
  <2>4. CASE Rename(w)
    <3>1. dir'.age = dir.age + 1
          /\ \A d \in unsynced' : d \in unsynced \/ d.age = dir.age + 1
      BY <2>4, RenamedEntries, DirectoryChanged DEF Rename
    <3>2. promised' = promised /\ renameOf' = [renameOf EXCEPT ![w] = dir.age + 1]
      BY <2>4 DEF Rename
    <3>3. promised <= dir.age
      BY DEF TypeOK
    <3>4. QED
      BY <1>1, <1>2, <3>1, <3>2, <3>3 DEF TypeOK
  <2>5. CASE FsyncParent(w)
    <3>1. promised' <= dir.age
      BY <1>2, <2>5 DEF FsyncParent, LargerOf, TypeOK
    <3>2. QED
      BY <1>1, <1>2, <2>5, <3>1 DEF FsyncParent, TypeOK
  <2>6. QED
    BY <1>5, <2>1, <2>2, <2>3, <2>4, <2>5 DEF Step
<1>6. QED
  BY <1>3, <1>4, <1>5 DEF Next

\* Once a call has returned, no power loss undoes its rename
\* (atomic-write.ts:16-21), whoever else writes, fails or dies meanwhile and
\* also when temporary names are shared.
THEOREM ReturnedMeansDurable == Spec => []DurableOnReturn
<1>1. Init => DurableInv
  BY TypeInit, EntriesAreInodes DEF Init, DurableInv, DurableOnReturn
<1>2. DurableInv /\ [Next]_vars => DurableInv'
  BY DurableStep
<1>3. DurableInv => DurableOnReturn
  BY DEF DurableInv
<1>4. QED
  BY <1>1, <1>2, <1>3, PTL DEF Spec

\* Types, whole files and durable returns together: what a caller with a
\* temporary name of its own gets, through failures, deaths and power losses.
THEOREM FileAlwaysSurvives ==
  ASSUME OwnTmp
  PROVE  Spec => []FileSurvives
<1>1. WriteInv /\ DurableOnReturn => FileSurvives
  BY DEF WriteInv, FilesSafe, FileSurvives
<1>2. QED
  BY <1>1, WriteInvariant, ReturnedMeansDurable, PTL

-----------------------------------------------------------------------------
\* The protocol implements AtomicFile

Requested == [w \in Writer |-> IF Pending(w) THEN Complete(payload[w]) ELSE <<>>]
AtRisk == {Read(d) : d \in unsynced}

LEMMA FileInit ==
  ASSUME OwnTmp, Init
  PROVE  File!Init
<1>1. CrashSafe /\ dir \in unsynced
  BY WriteInit DEF WriteInv, TypeOK
<1>2. Read(dir) \in {Complete(p) : p \in Payload}
  BY <1>1 DEF CrashSafe, IsComplete
<1>3. AtRisk = {Read(dir)}
  BY DEF Init, AtRisk
<1>4. Requested = [w \in Writer |-> <<>>]
  BY DEF Init, Requested, Pending
<1>5. QED
  BY <1>2, <1>3, <1>4 DEF File!Init, File!NoRequests, AtRisk, Requested

\* A step that leaves all targets and all requests alone is a stutter, or it
\* settles the file.
LEMMA FileUntouched ==
  ASSUME dir \in unsynced, dir' \in unsynced',
         Read(dir)' = Read(dir), AtRisk' \in {AtRisk, {Read(dir)}}, Requested' = Requested
  PROVE  [File!Next]_(File!fileVars)
<1>1. CASE AtRisk' = AtRisk
  BY <1>1 DEF File!fileVars, AtRisk, Requested
<1>2. CASE AtRisk' = {Read(dir)}
  BY <1>2 DEF File!Next, File!Settle, AtRisk, Requested
<1>3. QED
  BY <1>1, <1>2

LEMMA FileStep ==
  ASSUME WriteInv, OwnTmp, [Next]_vars
  PROVE  [File!Next]_(File!fileVars)
<1>1. WriteInv' /\ dir \in unsynced /\ dir' \in unsynced'
  BY WriteStep DEF WriteInv, TypeOK
<1>2. \A p \in Payload : Complete(p) # <<>>
  BY CompleteIsContent
<1>3. CASE UNCHANGED vars
  BY <1>1, <1>3, FileUntouched DEF vars, fsVars, Read, AtRisk, Requested, Pending
<1>4. CASE PowerLoss
  <2>1. PICK d \in unsynced : dir' = d /\ unsynced' = {d}
    BY <1>4 DEF PowerLoss
  <2>2. content'[d.entry[Target]] = content[d.entry[Target]]
    BY <1>4 DEF PowerLoss, WriteInv, CrashSafe, TypeOK
  <2>3. Read(dir)' = Read(d) /\ AtRisk' = {Read(d)}
    BY <2>1, <2>2 DEF Read, AtRisk
  <2>4. Read(d) \in AtRisk
    BY DEF AtRisk
  <2>5. Requested' = [w \in Writer |-> <<>>]
    BY <1>4 DEF PowerLoss, Requested, Pending
  <2>6. QED
    BY <2>3, <2>4, <2>5 DEF File!Next, File!PowerLoss, File!NoRequests, AtRisk, Requested
<1>5. ASSUME NEW w \in Writer, Step(w)
      PROVE  [File!Next]_(File!fileVars)
  <2>1. CASE Call(w)
    <3>1. PICK p \in Payload : payload' = [payload EXCEPT ![w] = p]
      BY <2>1 DEF Call
    <3>2. Requested[w] = <<>>
      BY <2>1 DEF Call, Requested, Pending
    <3>3. Requested' = [Requested EXCEPT ![w] = Complete(p)]
      BY <2>1, <3>1 DEF Call, Requested, Pending, WriteInv, TypeOK
    <3>4. Read(dir)' = Read(dir) /\ AtRisk' = AtRisk
      BY <2>1 DEF Call, fsVars, Read, AtRisk
    <3>5. QED
      BY <3>2, <3>3, <3>4 DEF File!Next, File!Request, AtRisk, Requested
  <2>2. CASE IOError(w) \/ Crash(w)
    <3>1. Read(dir)' = Read(dir) /\ AtRisk' = AtRisk
      BY <2>2 DEF IOError, Crash, fsVars, Read, AtRisk
    <3>2. Requested' = [Requested EXCEPT ![w] = <<>>]
      BY <2>2 DEF IOError, Crash, Requested, Pending, WriteInv, TypeOK
    <3>3. CASE Requested[w] = <<>>
      <4>1. Requested' = Requested
        BY <3>2, <3>3 DEF Requested
      <4>2. QED
        BY <1>1, <3>1, <4>1, FileUntouched
    <3>4. CASE Requested[w] # <<>>
      BY <3>1, <3>2, <3>4 DEF File!Next, File!GiveUp, AtRisk, Requested
    <3>5. QED
      BY <3>3, <3>4
  <2>3. CASE Rename(w)
    <3>1. Read(dir)' = Complete(payload[w])
      <4>1. pc[w] = "synced" /\ Tmp(w) \in Inode /\ dir' = Renamed(w) /\ content' = content
        BY <2>3, EntriesAreInodes DEF Rename, DirectoryBecomes, WriteInv
      <4>2. content[Tmp(w)] = Complete(payload[w])
        BY <4>1, AllBlocksAreComplete DEF WriteInv, Progress, TypeOK
      <4>3. QED
        BY <4>1, <4>2, RenamedEntries DEF Read, WriteInv
    <3>2. AtRisk' \in {AtRisk \cup {Read(dir)'}, {Read(dir)'}}
      BY <2>3 DEF Rename, DirectoryBecomes, AtRisk, Read
    <3>3. Requested[w] = Complete(payload[w]) /\ Requested[w] # <<>>
      BY <1>2, <2>3 DEF Rename, Requested, Pending, WriteInv, TypeOK
    <3>4. Requested' = [Requested EXCEPT ![w] = <<>>]
      BY <2>3 DEF Rename, Requested, Pending, WriteInv, TypeOK
    <3>5. QED
      BY <3>1, <3>2, <3>3, <3>4 DEF File!Next, File!Replace, AtRisk, Requested
  <2>4. CASE OpenTmp(w) \/ RemoveTmp(w)
    <3>1. \A d \in unsynced : content'[d.entry[Target]] = content[d.entry[Target]]
      <4>1. CASE RemoveTmp(w)
        BY <4>1 DEF RemoveTmp
      <4>2. CASE OpenTmp(w)
        <5>1. PICK i \in Inode : Emptied(i) /\ (i = Tmp(w) \/ i \in Free)
          BY <4>2 DEF OpenTmp
        <5>2. \A d \in unsynced : d.entry[Target] # i
          BY <5>1, NamesOfWriters, AtomicWriteConstants DEF WriteInv, TmpApart, Free
        <5>3. QED
          BY <5>1, <5>2 DEF Emptied, WriteInv, CrashSafe, TypeOK
      <4>3. QED
        BY <2>4, <4>1, <4>2
    <3>2. dir'.entry[Target] = dir.entry[Target]
          /\ \/ UNCHANGED <<dir, unsynced>>
             \/ unsynced' = unsynced \cup {dir'}
             \/ unsynced' = {dir'}
      BY <2>4, EntryChanged, NamesOfWriters DEF OpenTmp, RemoveTmp, DirectoryBecomes, WriteInv
    <3>3. Read(dir)' = Read(dir)
      BY <1>1, <3>1, <3>2 DEF Read
    <3>4. AtRisk' \in {AtRisk, {Read(dir)}}
      BY <1>1, <3>1, <3>2, <3>3 DEF AtRisk, Read
    <3>5. Requested' = Requested
      BY <2>4 DEF OpenTmp, RemoveTmp, Requested, Pending, WriteInv, TypeOK
    <3>6. QED
      BY <1>1, <3>3, <3>4, <3>5, FileUntouched
  <2>5. CASE WriteTmp(w)
    <3>1. fd[w] = Tmp(w) /\ Tmp(w) # NoInode
      BY <2>5 DEF WriteTmp, WriteInv, Progress
    <3>2. \A d \in unsynced : content'[d.entry[Target]] = content[d.entry[Target]]
      BY <2>5, <3>1 DEF WriteTmp, WriteInv, TmpApart, CrashSafe, TypeOK
    <3>3. Read(dir)' = Read(dir) /\ AtRisk' = AtRisk
      BY <1>1, <2>5, <3>2 DEF WriteTmp, Read, AtRisk
    <3>4. Requested' = Requested
      BY <2>5 DEF WriteTmp, Requested, Pending
    <3>5. QED
      BY <1>1, <3>3, <3>4, FileUntouched
  <2>6. CASE ReopenTmp(w) \/ FsyncTmp(w) \/ FsyncParentFails(w) \/ FsyncParent(w)
    <3>1. Read(dir)' = Read(dir) /\ AtRisk' \in {AtRisk, {Read(dir)}}
      BY <2>6 DEF ReopenTmp, FsyncTmp, FsyncParentFails, FsyncParent, fsVars, Read, AtRisk
    <3>2. Requested' = Requested
      BY <2>6 DEF ReopenTmp, FsyncTmp, FsyncParentFails, FsyncParent, Requested, Pending,
                  WriteInv, TypeOK
    <3>3. QED
      BY <1>1, <3>1, <3>2, FileUntouched
  <2>7. QED
    BY <1>5, <2>1, <2>2, <2>3, <2>4, <2>5, <2>6 DEF Step
<1>6. QED
  BY <1>3, <1>4, <1>5 DEF Next

\* With temporary names of their own, writers of one file implement AtomicFile:
\* readers see complete values only, each put in place by the call that asked
\* for it, whatever fails, dies or loses power.
THEOREM ImplementsAtomicFile ==
  ASSUME OwnTmp
  PROVE  Spec => Implements
<1>1. Init => File!Init
  BY FileInit
<1>2. WriteInv /\ [Next]_vars => [File!Next]_(File!fileVars)
  BY FileStep
<1>3. Spec => []WriteInv
  BY WriteInvariant
<1>4. QED
  BY <1>1, <1>2, <1>3, PTL DEF Spec, Implements, File!Spec
=============================================================================
