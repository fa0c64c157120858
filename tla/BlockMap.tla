------------------------------ MODULE BlockMap ------------------------------
(***************************************************************************)
(* The file layer of AlbumFS: the free-block bitmap, the inode table and   *)
(* the block map of every file and directory (fs/album.rs, fs/bitmap.rs).  *)
(*                                                                         *)
(* AlbumFs is used under one mutex, so one operation runs at a time.  An   *)
(* operation that walks a file works on a LOCAL copy of its inode and      *)
(* writes that copy back only at its end; when it fails on the way, the    *)
(* copy is dropped.  The model keeps that copy in op.local and takes one   *)
(* step per block allocated, copied or freed, so every point at which the  *)
(* code can give up is a state.                                            *)
(*                                                                         *)
(* The unit of a file's content is a cell: as many bytes as a block number *)
(* takes (8 in the code), P cells to a block.                              *)
(***************************************************************************)
EXTENDS Integers, FiniteSets

CONSTANTS
    InodeCount,   \* inodes in the inode table; 1 is the root directory
    NDirect,      \* direct pointers in an inode (12 in the code)
    P,            \* pointers in a block (504 in the code)
    DataStart,    \* first block of the data region
    TotalBlocks,  \* blocks in the pool
    CountMod,     \* block_count is an unsigned integer below CountMod (2^32)
    Data,         \* what a caller may write in a cell
    DirData,      \* a cell of a directory's entries, which are opaque here
    Offsets,      \* offsets at which a caller writes, in cells
    Lengths,      \* lengths a caller writes, in cells
    NewSizes,     \* sizes a caller truncates to, in cells
    MaxDirSize,   \* bound of the model: a directory grows no further
    FaultyOps     \* operations that a carrier that does not load may cut short

VARIABLES
    bitmap,   \* blocks of the data region whose bit is set
    blk,      \* content of each block of the data region
    inode,    \* the inode table
    op,       \* the operation that holds the mutex
    spoiled,  \* history: inodes an operation failed on half way
    leaky,    \* history: some operation failed half way
    torn      \* history: one failed after freeing blocks its inode still names

vars == <<bitmap, blk, inode, op, spoiled, leaky, torn>>

Ino     == 1..InodeCount
Root    == 1
Cells   == 0..P-1
Direct  == 0..NDirect-1
Blocks  == DataStart..TotalBlocks-1
OpKinds == {"write", "grow", "truncate", "unlink"}

ASSUME ConstantsAssumption ==
    /\ InodeCount \in Nat \ {0} /\ NDirect \in Nat \ {0} /\ P \in Nat \ {0}
    /\ DataStart \in Nat \ {0} /\ TotalBlocks \in Nat /\ DataStart < TotalBlocks
    /\ CountMod \in Nat /\ CountMod > 1
    /\ Data \subseteq Nat /\ DirData \in Nat /\ Offsets \subseteq Nat /\ Lengths \subseteq Nat
    /\ NewSizes \subseteq Nat /\ MaxDirSize \in Nat
    /\ FaultyOps \subseteq OpKinds \cup {"mkdir"}

-----------------------------------------------------------------------------
(* Inodes and the block map                                                *)

InodeType ==
    [mode : {"free", "file", "dir"}, size : Nat, block_count : 0..CountMod-1,
     direct : [Direct -> Nat], single : Nat, double : Nat]

DefaultInode ==
    [mode |-> "free", size |-> 0, block_count |-> 0,
     direct |-> [k \in Direct |-> 0], single |-> 0, double |-> 0]

ZeroBlock == [k \in Cells |-> 0]
DirBlock  == [k \in Cells |-> DirData]

\* Mutant: only the first pointer of a block is looked at.
FirstIsEmpty(pointers) == pointers[0] = 0

IsEmpty(pointers) == pointers = ZeroBlock

\* Mutant: a count that can fall below zero.
SignedDecr(n) == n - 1

\* block_count wraps, as the u32 of the release build does.
Incr(n) == IF n = CountMod - 1 THEN 0 ELSE n + 1
Decr(n) == IF n = 0 THEN CountMod - 1 ELSE n - 1

\* Where a block number can be kept for one file: in its inode, or in one of
\* its pointer blocks.
LeafLocs == ({"direct"} \X Direct \X {0}) \cup ({"leaf1"} \X Cells \X {0})
                \cup ({"leaf2"} \X Cells \X Cells)
Locs     == LeafLocs \cup ({"single", "double"} \X {0} \X {0})
                \cup ({"inner"} \X Cells \X {0})

CellOf(b, h, k) == IF h = 0 THEN 0 ELSE b[h][k]

\* The block number at location l of the file whose inode is n.
PtrOf(n, b, l) ==
    CASE l[1] = "direct" -> n.direct[l[2]]
      [] l[1] = "single" -> n.single
      [] l[1] = "double" -> n.double
      [] l[1] = "leaf1"  -> CellOf(b, n.single, l[2])
      [] l[1] = "inner"  -> CellOf(b, n.double, l[2])
      [] l[1] = "leaf2"  -> CellOf(b, CellOf(b, n.double, l[2]), l[3])

\* The logical block a leaf location maps (the index of bmap).
IndexOf(l) ==
    CASE l[1] = "direct" -> l[2]
      [] l[1] = "leaf1"  -> NDirect + l[2]
      [] l[1] = "leaf2"  -> NDirect + P + l[2] * P + l[3]

MaxIndex == NDirect + P + P * P     \* bmap answers BadBlock from here on

BlocksFor(size) == (size + P - 1) \div P

\* block_count is wide enough to count every block a file can map.
ASSUME CountAssumption == MaxIndex < CountMod

-----------------------------------------------------------------------------
(* Operations                                                              *)

OpType ==
    [kind : OpKinds \cup {"idle"}, ino : Ino, local : InodeType, index : Nat,
     lo : Nat, hi : Nat, val : Nat, linked : BOOLEAN, copied : BOOLEAN]

Idle == [kind |-> "idle", ino |-> Root, local |-> DefaultInode, index |-> 0,
         lo |-> 0, hi |-> 0, val |-> 0, linked |-> FALSE, copied |-> FALSE]

\* An operation of this kind on inode i that covers the cells lo..hi-1, from
\* logical block first on.
Begin(kind, i, first, lo, hi, val) ==
    [kind |-> kind, ino |-> i, local |-> inode[i], index |-> first,
     lo |-> lo, hi |-> hi, val |-> val, linked |-> FALSE,
     copied |-> FALSE]

Running(kinds) == op.kind \in kinds
More           == op.lo < op.hi /\ op.index * P < op.hi
Extending      == Running({"write", "grow"}) /\ More
Removing       == Running({"truncate", "unlink"}) /\ More

FreeBlocks == Blocks \ bitmap

\* Mutants: alloc_from forgets to set the bit, or does not look at it.
TakeUnmarked(b) == b \in FreeBlocks /\ (\A c \in FreeBlocks : b <= c) /\ UNCHANGED bitmap
TakeFirst(b)    == b = DataStart /\ UNCHANGED bitmap

\* alloc_from: the first clear bit of the data region is set.
Take(b) == /\ b \in FreeBlocks /\ \A c \in FreeBlocks : b <= c
           /\ bitmap' = bitmap \cup {b}

Init ==
    /\ bitmap = {DataStart}
    /\ blk = [b \in Blocks |-> IF b = DataStart THEN DirBlock ELSE ZeroBlock]
    /\ inode = [i \in Ino |->
                  IF i = Root
                  THEN [DefaultInode EXCEPT !.mode = "dir", !.size = P, !.block_count = 1,
                                            !.direct[0] = DataStart]
                  ELSE DefaultInode]
    /\ op = Idle
    /\ spoiled = {} /\ leaky = FALSE /\ torn = FALSE

History == <<spoiled, leaky, torn>>

-----------------------------------------------------------------------------
(* Operations that take one step                                           *)

\* alloc_inode: the first inode whose mode is 0.  Nothing marks it as taken.
FirstFreeInode(i) ==
    i \in Ino /\ inode[i].mode = "free" /\ \A j \in Ino : inode[j].mode = "free" => i <= j

\* The inode half of create; the entry it adds to the parent may grow the
\* parent (BeginGrow).
Create(i) ==
    /\ op.kind = "idle" /\ ~torn
    /\ FirstFreeInode(i)
    /\ inode' = [inode EXCEPT ![i] = [DefaultInode EXCEPT !.mode = "file"]]
    /\ UNCHANGED <<bitmap, blk, op, History>>

\* The inode half of mkdir: a new directory starts with one block.
Mkdir(i) ==
    /\ op.kind = "idle" /\ ~torn
    /\ FirstFreeInode(i)
    /\ \E b \in Blocks :
          /\ Take(b)
          /\ blk' = [blk EXCEPT ![b] = DirBlock]
          /\ inode' = [inode EXCEPT ![i] =
                         [DefaultInode EXCEPT !.mode = "dir", !.size = P, !.block_count = 1,
                                              !.direct[0] = b]]
    /\ UNCHANGED <<op, History>>

\* truncate to a size that is not smaller: no block is touched.
Extend(i, size) ==
    /\ op.kind = "idle" /\ ~torn
    /\ inode[i].mode = "file" /\ size >= inode[i].size
    /\ inode' = [inode EXCEPT ![i].size = size]
    /\ UNCHANGED <<bitmap, blk, op, History>>

-----------------------------------------------------------------------------
(* Operations that walk the file: their first step                         *)

BeginWrite(i, offset, len, v) ==
    /\ op.kind = "idle" /\ ~torn
    /\ inode[i].mode = "file"
    /\ op' = Begin("write", i, offset \div P, offset, offset + len, v)
    /\ UNCHANGED <<bitmap, blk, inode, History>>

\* add_dir_entry when no block of the directory has room for the entry.
BeginGrow(i) ==
    /\ op.kind = "idle" /\ ~torn
    /\ inode[i].mode = "dir" /\ inode[i].size + P <= MaxDirSize
    /\ op' = Begin("grow", i, BlocksFor(inode[i].size), inode[i].size, inode[i].size + P, DirData)
    /\ UNCHANGED <<bitmap, blk, inode, History>>

\* truncate to a smaller size.
BeginShrink(i, size) ==
    /\ op.kind = "idle" /\ ~torn
    /\ inode[i].mode = "file" /\ size < inode[i].size
    /\ op' = Begin("truncate", i, BlocksFor(size), size, inode[i].size, 0)
    /\ UNCHANGED <<bitmap, blk, inode, History>>

\* unlink of a file and rmdir of a directory, after their entry is removed.
BeginUnlink(i) ==
    /\ op.kind = "idle" /\ ~torn
    /\ inode[i].mode # "free" /\ i # Root
    /\ op' = Begin("unlink", i, 0, 0, inode[i].size, 0)
    /\ UNCHANGED <<bitmap, blk, inode, History>>

-----------------------------------------------------------------------------
(* bmap with allocate: each step links one new, zeroed block.  Only the    *)
(* three that map a data block count it in block_count.  That the write of *)
(* the new block fails is AllocationFails.                                 *)

Link(b, local, blocks) ==
    /\ Take(b)
    /\ blk' = [blocks EXCEPT ![b] = ZeroBlock]
    /\ op' = [op EXCEPT !.local = local, !.linked = TRUE]
    /\ UNCHANGED <<inode, History>>

LinkDirect ==
    /\ Extending
    /\ op.index \in Direct /\ op.local.direct[op.index] = 0
    /\ \E b \in Blocks :
          Link(b, [op.local EXCEPT !.direct[op.index] = b, !.block_count = Incr(@)], blk)

\* Mutant: a pointer block is counted like a data block.
LinkSingleCounted ==
    /\ Extending
    /\ \E k \in Cells : op.index = NDirect + k
    /\ op.local.single = 0
    /\ \E b \in Blocks : Link(b, [op.local EXCEPT !.single = b, !.block_count = Incr(@)], blk)

LinkSingle ==
    /\ Extending
    /\ \E k \in Cells : op.index = NDirect + k
    /\ op.local.single = 0
    /\ \E b \in Blocks : Link(b, [op.local EXCEPT !.single = b], blk)

LinkSingleLeaf ==
    /\ Extending
    /\ op.local.single # 0
    /\ \E k \in Cells, b \in Blocks :
          /\ op.index = NDirect + k /\ blk[op.local.single][k] = 0
          /\ Link(b, [op.local EXCEPT !.block_count = Incr(@)],
                  [blk EXCEPT ![op.local.single][k] = b])

LinkDouble ==
    /\ Extending
    /\ \E o, k \in Cells : op.index = NDirect + P + o * P + k
    /\ op.local.double = 0
    /\ \E b \in Blocks : Link(b, [op.local EXCEPT !.double = b], blk)

LinkInner ==
    /\ Extending
    /\ op.local.double # 0
    /\ \E o, k \in Cells, b \in Blocks :
          /\ op.index = NDirect + P + o * P + k /\ blk[op.local.double][o] = 0
          /\ Link(b, op.local, [blk EXCEPT ![op.local.double][o] = b])

LinkDoubleLeaf ==
    /\ Extending
    /\ op.local.double # 0
    /\ \E o, k \in Cells, b \in Blocks :
          /\ op.index = NDirect + P + o * P + k
          /\ blk[op.local.double][o] # 0 /\ blk[blk[op.local.double][o]][k] = 0
          /\ Link(b, [op.local EXCEPT !.block_count = Incr(@)],
                  [blk EXCEPT ![blk[op.local.double][o]][k] = b])

\* The loop body of write once bmap has found the block.
CopyBlock ==
    /\ Extending
    /\ \E l \in LeafLocs :
          /\ op.index = IndexOf(l) /\ PtrOf(op.local, blk, l) # 0
          /\ blk' = [blk EXCEPT ![PtrOf(op.local, blk, l)] =
                       [k \in Cells |-> IF op.index * P + k \in op.lo..op.hi-1
                                        THEN op.val ELSE @[k]]]
    /\ op' = [op EXCEPT !.index = @ + 1, !.copied = TRUE]
    /\ UNCHANGED <<bitmap, inode, History>>

\* Mutant: the size becomes the end of the write even when that is smaller.
FinishWriteShort ==
    /\ Running({"write", "grow"}) /\ ~More
    /\ inode' = [inode EXCEPT ![op.ino] = [op.local EXCEPT !.size = op.hi]]
    /\ op' = Idle
    /\ UNCHANGED <<bitmap, blk, History>>

\* Only now do the new size and the new pointers of the inode reach the table.
FinishWrite ==
    /\ Running({"write", "grow"}) /\ ~More
    /\ inode' = [inode EXCEPT ![op.ino] =
                   [op.local EXCEPT !.size = IF op.hi > @ THEN op.hi ELSE @]]
    /\ op' = Idle
    /\ UNCHANGED <<bitmap, blk, History>>

-----------------------------------------------------------------------------
(* remove_mapped_block: each step unmaps one logical block.  A pointer     *)
(* block that becomes empty is freed and unlinked, and is not written.     *)

Unmap(freed, local, blocks) ==
    /\ bitmap' = bitmap \ freed
    /\ blk' = blocks
    /\ op' = [op EXCEPT !.index = @ + 1, !.local = local]
    /\ UNCHANGED <<inode, History>>

\* block_count once the data block b is unmapped; 0 is a hole.
CountWithout(b) == IF b = 0 THEN op.local.block_count ELSE Decr(op.local.block_count)

\* Mutant: the block is freed and its pointer stays.
RemoveDirectKept ==
    /\ Removing
    /\ op.index \in Direct
    /\ LET b == op.local.direct[op.index]
       IN  Unmap({b}, [op.local EXCEPT !.block_count = CountWithout(b)], blk)

RemoveDirect ==
    /\ Removing
    /\ op.index \in Direct
    /\ LET b == op.local.direct[op.index]
       IN  Unmap({b}, [op.local EXCEPT !.direct[op.index] = 0, !.block_count = CountWithout(b)],
                 blk)

UnmapSingleLeaf(k) ==
    LET root     == op.local.single
        b        == blk[root][k]
        pointers == [blk[root] EXCEPT ![k] = 0]
        empty    == IsEmpty(pointers)
    IN  Unmap({b} \cup (IF empty THEN {root} ELSE {}),
              [op.local EXCEPT !.single = IF empty THEN 0 ELSE @,
                               !.block_count = CountWithout(b)],
              IF empty THEN blk ELSE [blk EXCEPT ![root] = pointers])

UnmapDoubleLeaf(o, k) ==
    LET root       == op.local.double
        mid        == blk[root][o]
        b          == blk[mid][k]
        inner      == [blk[mid] EXCEPT ![k] = 0]
        innerEmpty == IsEmpty(inner)
        outer      == IF innerEmpty THEN [blk[root] EXCEPT ![o] = 0] ELSE blk[root]
        outerEmpty == IsEmpty(outer)
    IN  Unmap({b} \cup (IF innerEmpty THEN {mid} ELSE {}) \cup (IF outerEmpty THEN {root} ELSE {}),
              [op.local EXCEPT !.double = IF outerEmpty THEN 0 ELSE @,
                               !.block_count = CountWithout(b)],
              [blk EXCEPT ![mid]  = IF innerEmpty THEN @ ELSE inner,
                          ![root] = IF outerEmpty THEN @ ELSE outer])

RemoveSingleLeaf ==
    /\ Removing
    /\ op.local.single # 0
    /\ \E k \in Cells : op.index = NDirect + k /\ UnmapSingleLeaf(k)

RemoveDoubleLeaf ==
    /\ Removing
    /\ op.local.double # 0
    /\ \E o, k \in Cells :
          /\ op.index = NDirect + P + o * P + k /\ blk[op.local.double][o] # 0
          /\ UnmapDoubleLeaf(o, k)

\* Mutant: the loop does not move on over a hole.
RemoveNothingStuck ==
    /\ Removing
    /\ op.index >= NDirect
    /\ \A k \in Cells : op.index = NDirect + k => op.local.single = 0
    /\ \A o, k \in Cells :
          op.index = NDirect + P + o * P + k => CellOf(blk, op.local.double, o) = 0
    /\ UNCHANGED vars

\* A logical block under a missing pointer block, or past the last one bmap
\* can reach: remove_mapped_block returns at once.
RemoveNothing ==
    /\ Removing
    /\ op.index >= NDirect
    /\ \A k \in Cells : op.index = NDirect + k => op.local.single = 0
    /\ \A o, k \in Cells :
          op.index = NDirect + P + o * P + k => CellOf(blk, op.local.double, o) = 0
    /\ op' = [op EXCEPT !.index = @ + 1]
    /\ UNCHANGED <<bitmap, blk, inode, History>>

\* Mutant: the tail of the last block keeps what it held.
FinishShrinkDirty ==
    /\ Running({"truncate"}) /\ ~More
    /\ inode' = [inode EXCEPT ![op.ino] = [op.local EXCEPT !.size = op.lo]]
    /\ op' = Idle
    /\ UNCHANGED <<bitmap, blk, History>>

\* The last block that truncate keeps only in part is one that bmap can reach.
TailInReach == op.lo % P # 0 => BlocksFor(op.lo) <= MaxIndex

\* truncate zeroes the tail of the last block it keeps, when that is mapped.
FinishShrink ==
    /\ Running({"truncate"}) /\ ~More /\ TailInReach
    /\ blk' = [b \in Blocks |->
                 [k \in Cells |->
                    IF \E l \in LeafLocs : /\ IndexOf(l) + 1 = BlocksFor(op.lo)
                                           /\ PtrOf(op.local, blk, l) = b
                                           /\ IndexOf(l) * P + k >= op.lo
                    THEN 0 ELSE blk[b][k]]]
    /\ inode' = [inode EXCEPT ![op.ino] = [op.local EXCEPT !.size = op.lo]]
    /\ op' = Idle
    /\ UNCHANGED <<bitmap, History>>

\* free_inode.
FinishUnlink ==
    /\ Running({"unlink"}) /\ ~More
    /\ inode' = [inode EXCEPT ![op.ino] = DefaultInode]
    /\ op' = Idle
    /\ spoiled' = spoiled \ {op.ino}
    /\ UNCHANGED <<bitmap, blk, leaky, torn>>

-----------------------------------------------------------------------------
(* Operations that fail on the way: the local inode is dropped, what was   *)
(* done to the bitmap and to blocks stays.                                 *)

GiveUp ==
    /\ op' = Idle
    /\ spoiled' = IF op.linked \/ op.copied THEN spoiled \cup {op.ino} ELSE spoiled
    /\ leaky' = (leaky \/ op.linked)
    /\ UNCHANGED <<bitmap, blk, inode, torn>>

\* Blocks that were freed stay free, and the inode in the table still names them.
DropRemoval ==
    /\ op' = Idle
    /\ spoiled' = IF op.local = inode[op.ino] THEN spoiled ELSE spoiled \cup {op.ino}
    /\ leaky' = (leaky \/ op.local # inode[op.ino])
    /\ torn' = (torn \/ [op.local EXCEPT !.block_count = 0]
                            # [inode[op.ino] EXCEPT !.block_count = 0])
    /\ UNCHANGED <<bitmap, blk, inode>>

\* alloc_from finds no clear bit.
NoSpace ==
    /\ Extending
    /\ op.index < MaxIndex /\ FreeBlocks = {}
    /\ \A l \in LeafLocs : op.index = IndexOf(l) => PtrOf(op.local, blk, l) = 0
    /\ GiveUp

\* bmap refuses a logical block past the double indirect range.
BadBlock ==
    /\ Extending
    /\ op.index >= MaxIndex
    /\ GiveUp

\* A block of the file cannot be read: its carrier does not load, or its
\* checksum or authentication fails.
ReadFailsExtending ==
    /\ Running({"write", "grow"} \cap FaultyOps) /\ More
    /\ GiveUp

\* allocate_block sets the bit and then writes the block, whose carrier does not
\* load: the bit stays set, and no pointer to the block is kept.
LoseBlock ==
    /\ \E b \in Blocks : Take(b)
    /\ leaky' = TRUE
    /\ UNCHANGED <<blk, inode, torn>>

AllocationFails ==
    /\ Running({"write", "grow"} \cap FaultyOps) /\ More
    /\ op.index < MaxIndex
    /\ \A l \in LeafLocs : op.index = IndexOf(l) => PtrOf(op.local, blk, l) = 0
    /\ LoseBlock
    /\ op' = Idle
    /\ spoiled' = IF op.linked \/ op.copied THEN spoiled \cup {op.ino} ELSE spoiled

\* The same in mkdir, which has not written its inode yet.
MkdirFails ==
    /\ op.kind = "idle" /\ ~torn /\ "mkdir" \in FaultyOps
    /\ \E i \in Ino : FirstFreeInode(i)
    /\ LoseBlock
    /\ UNCHANGED <<op, spoiled>>

ReadFailsRemoving ==
    /\ Running({"truncate", "unlink"} \cap FaultyOps)
    /\ More \/ op.kind = "truncate"
    /\ DropRemoval

\* bmap refuses the tail of a file that is longer than a map can be.
BadTail ==
    /\ Running({"truncate"}) /\ ~More /\ ~TailInReach
    /\ DropRemoval

\* Past this point two files may come to share a block: the model ends here.
BeyondRepair == torn /\ UNCHANGED vars

-----------------------------------------------------------------------------
Next ==
    \/ \E i \in Ino : Create(i) \/ Mkdir(i) \/ BeginGrow(i) \/ BeginUnlink(i)
    \/ \E i \in Ino, size \in NewSizes : Extend(i, size) \/ BeginShrink(i, size)
    \/ \E i \in Ino, offset \in Offsets, len \in Lengths, v \in Data :
          BeginWrite(i, offset, len, v)
    \/ LinkDirect \/ LinkSingle \/ LinkSingleLeaf
    \/ LinkDouble \/ LinkInner \/ LinkDoubleLeaf
    \/ CopyBlock \/ FinishWrite
    \/ RemoveDirect \/ RemoveSingleLeaf \/ RemoveDoubleLeaf \/ RemoveNothing
    \/ FinishShrink \/ FinishUnlink
    \/ NoSpace \/ BadBlock \/ BadTail \/ ReadFailsExtending \/ ReadFailsRemoving
    \/ AllocationFails \/ MkdirFails \/ BeyondRepair

Spec == Init /\ [][Next]_vars

\* The thread that holds the mutex runs on until its operation ends.
OpStep ==
    \/ LinkDirect \/ LinkSingle \/ LinkSingleLeaf
    \/ LinkDouble \/ LinkInner \/ LinkDoubleLeaf
    \/ CopyBlock \/ FinishWrite
    \/ RemoveDirect \/ RemoveSingleLeaf \/ RemoveDoubleLeaf \/ RemoveNothing
    \/ FinishShrink \/ FinishUnlink
    \/ NoSpace \/ BadBlock \/ BadTail

FairSpec == Spec /\ WF_vars(OpStep)

-----------------------------------------------------------------------------
(* Properties                                                              *)

\* Type correctness of every variable: in particular a pointer block and a
\* file's content are both blocks of cells, and the log of a half done
\* operation is an inode of the right shape.
TypeOK ==
    /\ bitmap \subseteq Blocks
    /\ blk \in [Blocks -> [Cells -> Nat]]
    /\ inode \in [Ino -> InodeType]
    /\ op \in OpType
    /\ spoiled \subseteq Ino
    /\ leaky \in BOOLEAN /\ torn \in BOOLEAN

\* The inode of file i as its running operation sees it.
Busy(i)   == op.kind # "idle" /\ op.ino = i
Cur(i)    == IF Busy(i) THEN op.local ELSE inode[i]
Ptr(i, l) == PtrOf(Cur(i), blk, l)
Mapped(i) == {l \in LeafLocs : Ptr(i, l) # 0}

\* No block is reachable in two ways: not by two files, not at two places of
\* one file, not as a pointer block and as data (bmap, allocate_block,
\* remove_mapped_block), whatever write failed on the way, until a removal that
\* a failed read cut short freed blocks that its inode still names.
Unshared ==
    \A i \in Ino : \A l \in Locs : Ptr(i, l) # 0 =>
        \A j \in Ino : \A m \in Locs : Ptr(j, m) = Ptr(i, l) => i = j /\ l = m
NoSharing == torn \/ Unshared

\* Every block a file reaches lies in the data region and has its bit set, so
\* alloc_from cannot hand it out again, as long as NoSharing is promised.
Held      == \A i \in Ino : \A l \in Locs : Ptr(i, l) # 0 => Ptr(i, l) \in bitmap
Allocated == torn \/ Held

\* What makes the two inductive.  The inode in the table has no pointer that the
\* local copy of a write lacks, so dropping the copy loses blocks and never shares
\* one; and nothing runs once the model has come to its end.
LocalExtends ==
    op.kind \in {"write", "grow"} =>
        /\ \A k \in Direct : inode[op.ino].direct[k] \in {0, op.local.direct[k]}
        /\ inode[op.ino].single \in {0, op.local.single}
        /\ inode[op.ino].double \in {0, op.local.double}

TornIdle == torn => op.kind = "idle"

BlockMapInv == TypeOK /\ NoSharing /\ Allocated /\ LocalExtends /\ TornIdle

\* Every set bit belongs to a file, as long as no operation failed half way:
\* removals free the pointer blocks they empty and nothing is lost.
SpaceAccounted ==
    leaky \/ \A b \in bitmap : \E i \in Ino : \E l \in Locs : Ptr(i, l) = b

\* block_count is the number of data blocks mapped, for every file on which
\* no operation failed half way.
CountExact ==
    \A i \in Ino \ spoiled : Cur(i).block_count = Cardinality(Mapped(i))

\* Nothing is kept past the end of a file, so what a later extension exposes
\* is zeros: no block is mapped past the last one of the file, and the tail of
\* that one is zero.  For files on which no operation failed half way.
NothingPastEOF ==
    \A i \in Ino \ spoiled : ~Busy(i) =>
        \A l \in Mapped(i) :
            /\ IndexOf(l) * P < inode[i].size
            /\ \A k \in Cells :
                  IndexOf(l) * P + k >= inode[i].size => blk[Ptr(i, l)][k] = 0

\* What makes these three inductive.  The pointer at a location is kept in the inode or
\* in a pointer block, whose own number is at another location.
Holder(l) ==
    IF l[1] = "leaf1" THEN <<"single", 0, 0>>
    ELSE IF l[1] = "leaf2" THEN <<"inner", l[2], 0>>
    ELSE IF l[1] = "inner" THEN <<"double", 0, 0>>
    ELSE <<"inode", 0, 0>>

\* bmap comes through location h to logical block x.
Through(h, x) ==
    \E l \in LeafLocs : IndexOf(l) = x /\ h \in {l, Holder(l), Holder(Holder(l))}

\* How far content can reach while a write is ahead of the size in its inode: not at all
\* past that size before it has linked, or copied, its first block.
Ahead(i)      == Busy(i) /\ op.kind \in {"write", "grow"}
Extent(i, on) == IF Ahead(i) /\ on /\ op.hi > Cur(i).size THEN op.hi ELSE Cur(i).size

Within(i)   == \A l \in Mapped(i) : IndexOf(l) * P < Extent(i, op.linked)
ZeroTail(i) ==
    \A l \in Mapped(i), k \in Cells :
        IndexOf(l) * P + k >= Extent(i, op.copied) => blk[Ptr(i, l)][k] = 0

\* A pointer block has a pointer in it, or is about to get its first.
Kept(i) ==
    \A h \in Locs \ LeafLocs : Ptr(i, h) # 0 =>
        \/ \E c \in Locs : Holder(c) = h /\ Ptr(i, c) # 0
        \/ Ahead(i) /\ op.linked /\ More /\ Through(h, op.index)

FileSound(i) ==
    /\ i \notin spoiled \/ ~leaky => Within(i)
    /\ i \notin spoiled => ZeroTail(i) /\ Cur(i).block_count = Cardinality(Mapped(i))
    /\ ~leaky => Kept(i)

\* A removal has unmapped all from its first block up to where it is.
Removed ==
    op.kind \in {"truncate", "unlink"} =>
        /\ op.hi = op.local.size
        /\ IF op.kind = "unlink" THEN op.lo = 0 ELSE op.lo < op.hi
        /\ \A l \in LeafLocs :
              PtrOf(op.local, blk, l) # 0 /\ IndexOf(l) >= BlocksFor(op.lo) => IndexOf(l) >= op.index

\* A write that has linked nothing yet works on a copy that is still equal.
Fresh == op.kind \in {"write", "grow"} /\ ~op.linked => op.local = inode[op.ino]

Modes ==
    /\ \A i \in Ino : inode[i].mode = "free" => inode[i] = DefaultInode
    /\ op.kind # "idle" => op.local.mode # "free"

FilesInv == SpaceAccounted /\ Removed /\ Fresh /\ Modes /\ \A i \in Ino : FileSound(i)

\* The content of cell c of the file whose inode is n: a hole reads as zero.
CellAt(n, b, c) ==
    IF \E l \in LeafLocs : IndexOf(l) = c \div P /\ PtrOf(n, b, l) # 0
    THEN LET l == CHOOSE l \in LeafLocs : IndexOf(l) = c \div P IN b[PtrOf(n, b, l)][c % P]
    ELSE 0

OthersUnchanged ==
    \A j \in Ino : op.kind # "idle" /\ j # op.ino =>
        /\ inode'[j] = inode[j]
        /\ \A l \in Locs : PtrOf(inode'[j], blk', l) = PtrOf(inode[j], blk, l)
        /\ \A l \in LeafLocs : PtrOf(inode[j], blk, l) # 0 =>
              blk'[PtrOf(inode[j], blk, l)] = blk[PtrOf(inode[j], blk, l)]

\* An operation on one file changes no other: not its inode, not a pointer, not
\* a cell it maps, also when it allocates or frees (write, truncate, unlink).
Isolation == [][OthersUnchanged]_vars

\* Every operation ends: the loops of write, truncate and unlink advance.
OperationsEnd == op.kind # "idle" ~> op.kind = "idle"

\* When all files are gone, all of their space is back: what the test
\* unlink_frees_space (tests/fs_ops.rs:88) says of the free block count.
UnlinkReturnsSpace ==
    op.kind = "idle" /\ (\A i \in Ino \ {Root} : inode[i].mode = "free")
        => bitmap = {b \in Blocks : \E l \in Locs : Ptr(Root, l) = b}
=============================================================================
