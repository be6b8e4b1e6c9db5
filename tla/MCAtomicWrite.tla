---------------------------- MODULE MCAtomicWrite ----------------------------
(***************************************************************************)
(* Two writers of one target, a short and a long payload.                  *)
(***************************************************************************)
EXTENDS AtomicWrite, TLC

MCSize == [p \in Payload |-> IF p = "short" THEN 1 ELSE 2]

\* `<path>.tmp-<pid>`: every writer has a name of its own.
MCOwnTmp == [w \in Writer |-> w]

\* `<path>.tmp`: the default.
MCSharedTmp == [w \in Writer |-> "tmp"]

InodeSymmetry == Permutations(Inode)
=============================================================================
