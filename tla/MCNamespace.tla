---------------------------- MODULE MCNamespace ----------------------------
(* Two carriers with all metadata and the first block of the root in the    *)
(* first one (a crash before the first save or after the second is that of  *)
(* a pool of one carrier); and a second carrier that cannot be read, with   *)
(* the last two blocks.                                                     *)
EXTENDS Namespace

DataApart  == [carriers |-> 2, bitmap |-> 1, table |-> 1, broken |-> {},
               block |-> [b \in Blocks |-> IF b = 1 THEN 1 ELSE 2]]
Unreadable == [carriers |-> 2, bitmap |-> 1, table |-> 1, broken |-> {2},
               block |-> [b \in Blocks |-> IF b >= NBlocks - 1 THEN 2 ELSE 1]]

TwoLayouts == {DataApart, Unreadable}

NameSymmetry == Permutations(Names \ LongNames)

\* Bound: the last inode and the last block are used for trees of directories only, where
\* every carrier can be read, and up to the first failed save or read.
LargeTrees ==
    inode[InodeCount].kind # "free" \/ NBlocks \in bitmap =>
        /\ \A i \in Inos : inode[i].kind # "file"
        /\ faults = 0 /\ home = DataApart
=============================================================================
