--------------------------- MODULE BlockMapProofs ---------------------------
(* Theorems about BlockMap for pools, inodes and maps of every size.       *)
EXTENDS BlockMap, TLAPS

-----------------------------------------------------------------------------
(* Type correctness                                                        *)

LEMMA ConstantsType ==
    /\ P \in Nat /\ P > 0 /\ NDirect \in Nat /\ NDirect > 0
    /\ Ino \subseteq Nat /\ Root \in Ino
    /\ Cells \subseteq Nat /\ 0 \in Cells
    /\ Direct \subseteq Nat /\ 0 \in Direct
    /\ Blocks \subseteq Nat /\ 0 \notin Blocks /\ DataStart \in Blocks
    /\ 0 \in 0..CountMod-1 /\ 1 \in 0..CountMod-1
    /\ ZeroBlock \in [Cells -> Nat] /\ DirBlock \in [Cells -> Nat]
    /\ DefaultInode \in InodeType
BY ConstantsAssumption
DEF ConstantsAssumption, Ino, Root, Cells, Direct, Blocks, ZeroBlock, DirBlock, DefaultInode,
    InodeType

LEMMA DivType == ASSUME NEW n \in Nat PROVE n \div P \in Nat /\ BlocksFor(n) \in Nat
BY ConstantsType DEF BlocksFor

LEMMA CountType ==
    ASSUME NEW n \in 0..CountMod-1
    PROVE  Incr(n) \in 0..CountMod-1 /\ Decr(n) \in 0..CountMod-1
BY ConstantsAssumption DEF ConstantsAssumption, Incr, Decr
LEMMA IdleType == Idle \in OpType
BY ConstantsType DEF Idle, OpType

LEMMA BeginType ==
    ASSUME TypeOK, NEW kind \in OpKinds, NEW i \in Ino, NEW first \in Nat, NEW lo \in Nat,
           NEW hi \in Nat, NEW val \in Nat
    PROVE  Begin(kind, i, first, lo, hi, val) \in
               OpType
BY DEF TypeOK, Begin, OpType

\* Linking a block keeps the types, whichever pointer it goes to.
LEMMA LinkType ==
    ASSUME TypeOK, NEW b \in Blocks, NEW local \in InodeType,
           NEW blocks \in [Blocks -> [Cells -> Nat]], Link(b, local, blocks)
    PROVE  TypeOK'
<1>1. op' \in OpType
  BY DEF TypeOK, OpType, Link
<1>2. blk' \in [Blocks -> [Cells -> Nat]]
  BY ConstantsType DEF Link
<1>3. bitmap' \subseteq Blocks
  BY DEF TypeOK, Link, Take
<1> QED
  BY <1>1, <1>2, <1>3 DEF TypeOK, Link, History

LEMMA UnmapType ==
    ASSUME TypeOK, NEW freed, NEW local \in InodeType,
           NEW blocks \in [Blocks -> [Cells -> Nat]], Unmap(freed, local, blocks)
    PROVE  TypeOK'
<1>1. op.index + 1 \in Nat
  BY DEF TypeOK, OpType
<1>2. op' \in OpType
  BY <1>1 DEF TypeOK, OpType, Unmap
<1> QED
  BY <1>2 DEF TypeOK, Unmap, History

\* The steps that start an operation or are one.
LEMMA TypeStart ==
    ASSUME TypeOK, NEW i \in Ino,
           \/ Create(i) \/ Mkdir(i) \/ BeginGrow(i) \/ BeginUnlink(i)
           \/ \E size \in NewSizes : Extend(i, size) \/ BeginShrink(i, size)
           \/ \E offset \in Offsets, len \in Lengths, v \in Data : BeginWrite(i, offset, len, v)
    PROVE  TypeOK'
<1> USE ConstantsType
<1>1. CASE Create(i)
  BY <1>1 DEF TypeOK, Create, History, InodeType, DefaultInode
<1>2. CASE Mkdir(i)
  <2>1. PICK b \in Blocks :
           /\ Take(b)
           /\ blk' = [blk EXCEPT ![b] = DirBlock]
           /\ inode' = [inode EXCEPT ![i] =
                          [DefaultInode EXCEPT !.mode = "dir", !.size = P, !.block_count = 1,
                                               !.direct[0] = b]]
    BY <1>2 DEF Mkdir
  <2>2. [DefaultInode EXCEPT !.mode = "dir", !.size = P, !.block_count = 1, !.direct[0] = b]
           \in InodeType
    BY DEF DefaultInode, InodeType
  <2>3. bitmap' \subseteq Blocks /\ blk' \in [Blocks -> [Cells -> Nat]]
    BY <2>1 DEF Take, TypeOK
  <2>4. inode' \in [Ino -> InodeType]
    BY <2>1, <2>2 DEF TypeOK
  <2> QED
    BY <1>2, <2>3, <2>4 DEF Mkdir, TypeOK, History
<1>3. CASE BeginGrow(i)
  <2>1. /\ inode[i].size \in Nat /\ inode[i].size + P \in Nat
        /\ DirData \in Nat /\ "grow" \in OpKinds
    BY ConstantsAssumption DEF ConstantsAssumption, TypeOK, InodeType, OpKinds
  <2>2. op' \in OpType
    BY <1>3, <2>1, BeginType, DivType DEF BeginGrow
  <2> QED
    BY <1>3, <2>2 DEF TypeOK, BeginGrow, History
<1>4. CASE BeginUnlink(i)
  <2>1. inode[i].size \in Nat /\ "unlink" \in OpKinds
    BY DEF TypeOK, InodeType, OpKinds
  <2>2. op' \in OpType
    BY <1>4, <2>1, BeginType DEF BeginUnlink
  <2> QED
    BY <1>4, <2>2 DEF TypeOK, BeginUnlink, History
<1>5. ASSUME NEW size \in NewSizes, Extend(i, size) PROVE TypeOK'
  BY <1>5, ConstantsAssumption
  DEF ConstantsAssumption, TypeOK, Extend, History, InodeType
<1>6. ASSUME NEW size \in NewSizes, BeginShrink(i, size) PROVE TypeOK'
  <2>1. size \in Nat /\ inode[i].size \in Nat /\ "truncate" \in OpKinds
    BY ConstantsAssumption DEF ConstantsAssumption, TypeOK, InodeType, OpKinds
  <2>2. op' \in OpType
    BY <1>6, <2>1, BeginType, DivType DEF BeginShrink
  <2> QED
    BY <1>6, <2>2 DEF TypeOK, BeginShrink, History
<1>7. ASSUME NEW offset \in Offsets, NEW len \in Lengths, NEW v \in Data,
             BeginWrite(i, offset, len, v)
      PROVE  TypeOK'
  <2>1. offset \in Nat /\ len \in Nat /\ v \in Nat /\ offset + len \in Nat /\ "write" \in OpKinds
    BY ConstantsAssumption DEF ConstantsAssumption, OpKinds
  <2>2. op' \in OpType
    BY <1>7, <2>1, BeginType, DivType DEF BeginWrite
  <2> QED
    BY <1>7, <2>2 DEF TypeOK, BeginWrite, History
<1> QED
  BY <1>1, <1>2, <1>3, <1>4, <1>5, <1>6, <1>7

\* The steps of write and of a growing directory.
LEMMA TypeExtending ==
    ASSUME TypeOK,
           \/ LinkDirect \/ LinkSingle \/ LinkSingleLeaf
           \/ LinkDouble \/ LinkInner \/ LinkDoubleLeaf
           \/ CopyBlock \/ FinishWrite
    PROVE  TypeOK'
<1> USE ConstantsType
<1>0. /\ op.local \in InodeType /\ blk \in [Blocks -> [Cells -> Nat]]
      /\ Incr(op.local.block_count) \in 0..CountMod-1
  BY CountType DEF TypeOK, OpType, InodeType
<1>1. CASE LinkDirect
  <2>1. PICK b \in Blocks :
           Link(b, [op.local EXCEPT !.direct[op.index] = b,
                                    !.block_count = Incr(@)], blk)
    BY <1>1 DEF LinkDirect
  <2>2. [op.local EXCEPT !.direct[op.index] = b, !.block_count = Incr(@)] \in InodeType
    BY <1>0 DEF InodeType
  <2> QED
    BY <1>0, <2>1, <2>2, LinkType
<1>2. CASE LinkSingle
  <2>1. PICK b \in Blocks : Link(b, [op.local EXCEPT !.single = b], blk)
    BY <1>2 DEF LinkSingle
  <2>2. [op.local EXCEPT !.single = b] \in InodeType
    BY <1>0 DEF InodeType
  <2> QED
    BY <1>0, <2>1, <2>2, LinkType
<1>3. CASE LinkSingleLeaf
  <2>1. PICK k \in Cells, b \in Blocks :
           Link(b, [op.local EXCEPT !.block_count = Incr(@)],
                   [blk EXCEPT ![op.local.single][k] = b])
    BY <1>3 DEF LinkSingleLeaf
  <2>2. [op.local EXCEPT !.block_count = Incr(@)] \in InodeType
    BY <1>0 DEF InodeType
  <2>3. [blk EXCEPT ![op.local.single][k] = b] \in [Blocks -> [Cells -> Nat]]
    BY <1>0
  <2> QED
    BY <2>1, <2>2, <2>3, LinkType
<1>4. CASE LinkDouble
  <2>1. PICK b \in Blocks : Link(b, [op.local EXCEPT !.double = b], blk)
    BY <1>4 DEF LinkDouble
  <2>2. [op.local EXCEPT !.double = b] \in InodeType
    BY <1>0 DEF InodeType
  <2> QED
    BY <1>0, <2>1, <2>2, LinkType
<1>5. CASE LinkInner
  <2>1. PICK o \in Cells, b \in Blocks :
           Link(b, op.local, [blk EXCEPT ![op.local.double][o] = b])
    BY <1>5 DEF LinkInner
  <2>2. [blk EXCEPT ![op.local.double][o] = b] \in [Blocks -> [Cells -> Nat]]
    BY <1>0
  <2> QED
    BY <1>0, <2>1, <2>2, LinkType
<1>6. CASE LinkDoubleLeaf
  <2>1. PICK o \in Cells, k \in Cells, b \in Blocks :
           Link(b, [op.local EXCEPT !.block_count = Incr(@)],
                   [blk EXCEPT ![blk[op.local.double][o]][k] = b])
    BY <1>6 DEF LinkDoubleLeaf
  <2>2. [op.local EXCEPT !.block_count = Incr(@)] \in InodeType
    BY <1>0 DEF InodeType
  <2>3. [blk EXCEPT ![blk[op.local.double][o]][k] = b] \in [Blocks -> [Cells -> Nat]]
    BY <1>0
  <2> QED
    BY <2>1, <2>2, <2>3, LinkType
<1>7. CASE CopyBlock
  <2>1. PICK b : blk' = [blk EXCEPT ![b] = [k \in Cells |->
                                IF op.index * P + k \in op.lo..op.hi-1 THEN op.val ELSE @[k]]]
    BY <1>7 DEF CopyBlock
  <2>2. blk' \in [Blocks -> [Cells -> Nat]]
    <3>1. op.val \in Nat
      BY DEF TypeOK, OpType
    <3>2. ASSUME b \in Blocks
          PROVE  [k \in Cells |-> IF op.index * P + k \in op.lo..op.hi-1
                                  THEN op.val ELSE blk[b][k]] \in [Cells -> Nat]
      BY <1>0, <3>1, <3>2
    <3> QED
      BY <1>0, <2>1, <3>2
  <2>3. op' = [op EXCEPT !.index = op.index + 1, !.copied = TRUE] /\ op.index + 1 \in Nat
    BY <1>7 DEF CopyBlock, TypeOK, OpType
  <2> QED
    BY <1>7, <2>2, <2>3 DEF CopyBlock, TypeOK, OpType, History
<1>8. CASE FinishWrite
  <2>1. [op.local EXCEPT !.size = IF op.hi > @ THEN op.hi ELSE @] \in InodeType
    BY <1>0 DEF InodeType, OpType, TypeOK
  <2> QED
    BY <1>8, <2>1, IdleType DEF FinishWrite, TypeOK, History
<1> QED
  BY <1>1, <1>2, <1>3, <1>4, <1>5, <1>6, <1>7, <1>8

\* The steps of truncate and unlink.
LEMMA TypeRemoving ==
    ASSUME TypeOK,
           \/ RemoveDirect \/ RemoveSingleLeaf \/ RemoveDoubleLeaf \/ RemoveNothing
           \/ FinishShrink \/ FinishUnlink
    PROVE  TypeOK'
<1> USE ConstantsType
<1>0. /\ op.local \in InodeType /\ blk \in [Blocks -> [Cells -> Nat]]
      /\ \A b : CountWithout(b) \in 0..CountMod-1
  BY CountType DEF TypeOK, OpType, InodeType, CountWithout
<1>1. CASE RemoveDirect
  <2> DEFINE b     == op.local.direct[op.index]
             local == [op.local EXCEPT !.direct[op.index] = 0, !.block_count = CountWithout(b)]
  <2>1. Unmap({b}, local, blk)
    BY <1>1 DEF RemoveDirect
  <2>2. local \in InodeType
    BY <1>0 DEF InodeType
  <2> QED
    BY <1>0, <2>1, <2>2, UnmapType
<1>2. CASE RemoveSingleLeaf
  <2>1. PICK k \in Cells : UnmapSingleLeaf(k)
    BY <1>2 DEF RemoveSingleLeaf
  <2> DEFINE root     == op.local.single
             b        == blk[root][k]
             pointers == [blk[root] EXCEPT ![k] = 0]
             empty    == IsEmpty(pointers)
             local    == [op.local EXCEPT !.single = IF empty THEN 0 ELSE op.local.single,
                                          !.block_count = CountWithout(b)]
             blocks   == IF empty THEN blk ELSE [blk EXCEPT ![root] = pointers]
  <2>2. Unmap({b} \cup (IF empty THEN {root} ELSE {}), local, blocks)
    BY <2>1 DEF UnmapSingleLeaf
  <2>3. local \in InodeType
    BY <1>0 DEF InodeType
  <2>4. blocks \in [Blocks -> [Cells -> Nat]]
    BY <1>0
  <2> QED
    BY <2>2, <2>3, <2>4, UnmapType
<1>3. CASE RemoveDoubleLeaf
  <2>1. PICK o \in Cells, k \in Cells : UnmapDoubleLeaf(o, k)
    BY <1>3 DEF RemoveDoubleLeaf
  <2> DEFINE root       == op.local.double
             mid        == blk[root][o]
             b          == blk[mid][k]
             inner      == [blk[mid] EXCEPT ![k] = 0]
             innerEmpty == IsEmpty(inner)
             outer      == IF innerEmpty THEN [blk[root] EXCEPT ![o] = 0] ELSE blk[root]
             outerEmpty == IsEmpty(outer)
             local      == [op.local EXCEPT !.double = IF outerEmpty THEN 0 ELSE op.local.double,
                                            !.block_count = CountWithout(b)]
             blocks     == [blk EXCEPT ![mid]  = IF innerEmpty THEN @ ELSE inner,
                                       ![root] = IF outerEmpty THEN @ ELSE outer]
  <2>2. Unmap({b} \cup (IF innerEmpty THEN {mid} ELSE {})
                  \cup (IF outerEmpty THEN {root} ELSE {}), local, blocks)
    BY <2>1 DEF UnmapDoubleLeaf
  <2>3. local \in InodeType
    BY <1>0 DEF InodeType
  <2>4. blocks \in [Blocks -> [Cells -> Nat]]
    <3>1. root \in Blocks => outer \in [Cells -> Nat]
      BY <1>0
    <3>2. mid \in Blocks => inner \in [Cells -> Nat]
      BY <1>0
    <3> HIDE DEF inner, outer, innerEmpty, outerEmpty, mid, root
    <3> QED
      BY <1>0, <3>1, <3>2
  <2> QED
    BY <2>2, <2>3, <2>4, UnmapType
<1>4. CASE RemoveNothing
  <2>1. op' = [op EXCEPT !.index = op.index + 1] /\ op.index + 1 \in Nat
    BY <1>4 DEF RemoveNothing, TypeOK, OpType
  <2> QED
    BY <1>4, <2>1 DEF RemoveNothing, TypeOK, OpType, History
<1>5. CASE FinishShrink
  <2>1. blk' \in [Blocks -> [Cells -> Nat]]
    BY <1>0, <1>5 DEF FinishShrink
  <2>2. [op.local EXCEPT !.size = op.lo] \in InodeType
    BY <1>0 DEF InodeType, OpType, TypeOK
  <2> QED
    BY <1>5, <2>1, <2>2, IdleType DEF FinishShrink, TypeOK, History
<1>6. CASE FinishUnlink
  <2>1. inode' \in [Ino -> InodeType]
    BY <1>6, ConstantsType DEF FinishUnlink, TypeOK
  <2> QED
    BY <1>6, <2>1, IdleType DEF FinishUnlink, TypeOK
<1> QED
  BY <1>1, <1>2, <1>3, <1>4, <1>5, <1>6

LEMMA TypeFailing ==
    ASSUME TypeOK,
           \/ NoSpace \/ BadBlock \/ BadTail \/ ReadFailsExtending \/ ReadFailsRemoving
           \/ AllocationFails \/ MkdirFails \/ BeyondRepair
    PROVE  TypeOK'
<1>1. CASE GiveUp
  <2>1. leaky' \in BOOLEAN
    BY <1>1, Zenon DEF GiveUp
  <2>2. spoiled' \subseteq Ino /\ op' \in OpType
    BY <1>1, IdleType DEF GiveUp, TypeOK, OpType
  <2> QED
    BY <1>1, <2>1, <2>2 DEF GiveUp, TypeOK
<1>2. CASE DropRemoval
  <2>1. leaky' \in BOOLEAN /\ torn' \in BOOLEAN
    BY <1>2, Zenon DEF DropRemoval
  <2>2. spoiled' \subseteq Ino /\ op' \in OpType
    BY <1>2, IdleType DEF DropRemoval, TypeOK, OpType
  <2> QED
    BY <1>2, <2>1, <2>2 DEF DropRemoval, TypeOK
<1>3. CASE BeyondRepair
  BY <1>3 DEF BeyondRepair, vars, TypeOK
<1>4. CASE AllocationFails \/ MkdirFails
  <2>1. bitmap' \subseteq Blocks /\ leaky' = TRUE /\ UNCHANGED <<blk, inode, torn>>
    BY <1>4 DEF AllocationFails, MkdirFails, LoseBlock, Take, TypeOK
  <2>2. spoiled' \subseteq Ino /\ op' \in OpType
    BY <1>4, IdleType DEF AllocationFails, MkdirFails, TypeOK, OpType
  <2> QED
    BY <2>1, <2>2 DEF TypeOK
<1> QED
  BY <1>1, <1>2, <1>3, <1>4 DEF NoSpace, BadBlock, BadTail, ReadFailsExtending, ReadFailsRemoving

\* Every variable keeps its type in every behaviour: a half done operation
\* never leaves a malformed inode or block in the table or the pool.
THEOREM TypeCorrect == Spec => []TypeOK
<1>1. Init => TypeOK
  <2> SUFFICES ASSUME Init PROVE TypeOK
    OBVIOUS
  <2>1. [DefaultInode EXCEPT !.mode = "dir", !.size = P, !.block_count = 1,
                             !.direct[0] = DataStart] \in InodeType
    BY ConstantsType DEF InodeType, DefaultInode
  <2> QED
    BY <2>1, ConstantsType, IdleType DEF Init, TypeOK
<1>2. TypeOK /\ [Next]_vars => TypeOK'
  <2> SUFFICES ASSUME TypeOK, [Next]_vars PROVE TypeOK'
    OBVIOUS
  <2>1. CASE UNCHANGED vars
    BY <2>1 DEF vars, TypeOK
  <2> QED
    BY <2>1, TypeStart, TypeExtending, TypeRemoving, TypeFailing DEF Next
<1> QED
  BY <1>1, <1>2, PTL DEF Spec

-----------------------------------------------------------------------------
(* Locations and the block numbers at them                                 *)

LEMMA LocTypes ==
    /\ LeafLocs \subseteq Locs
    /\ <<"single", 0, 0>> \in Locs \ LeafLocs /\ <<"double", 0, 0>> \in Locs \ LeafLocs
    /\ \A k \in Direct : <<"direct", k, 0>> \in LeafLocs
    /\ \A k \in Cells : <<"leaf1", k, 0>> \in LeafLocs
    /\ \A o \in Cells : <<"inner", o, 0>> \in Locs \ LeafLocs
    /\ \A o, k \in Cells : <<"leaf2", o, k>> \in LeafLocs
<1> DEFINE L == LeafLocs
<1>1. <<"single", 0, 0>> \notin L /\ <<"double", 0, 0>> \notin L
      /\ \A o \in Cells : <<"inner", o, 0>> \notin L
  BY DEF LeafLocs
<1>2. <<"single", 0, 0>> \in Locs /\ <<"double", 0, 0>> \in Locs
      /\ \A o \in Cells : <<"inner", o, 0>> \in Locs
  BY DEF Locs
<1>3. /\ \A k \in Direct : <<"direct", k, 0>> \in L
      /\ \A k \in Cells : <<"leaf1", k, 0>> \in L
      /\ \A o, k \in Cells : <<"leaf2", o, k>> \in L
  BY DEF LeafLocs
<1> QED
  BY <1>1, <1>2, <1>3 DEF Locs

LEMMA LocCases ==
    ASSUME NEW l \in Locs
    PROVE  \/ \E k \in Direct : l = <<"direct", k, 0>>
           \/ l = <<"single", 0, 0>>
           \/ l = <<"double", 0, 0>>
           \/ \E k \in Cells : l = <<"leaf1", k, 0>>
           \/ \E o \in Cells : l = <<"inner", o, 0>>
           \/ \E o, k \in Cells : l = <<"leaf2", o, k>>
BY DEF Locs, LeafLocs

LEMMA LocParts ==
    ASSUME NEW l \in Locs
    PROVE  \/ l[1] = "direct" /\ l[2] \in Direct
           \/ l[1] = "single" \/ l[1] = "double"
           \/ l[1] = "leaf1" /\ l[2] \in Cells
           \/ l[1] = "inner" /\ l[2] \in Cells
           \/ l[1] = "leaf2" /\ l[2] \in Cells /\ l[3] \in Cells
BY LocCases

LEMMA PtrBy ==
    ASSUME NEW n, NEW b, NEW l
    PROVE  /\ l[1] = "direct" => PtrOf(n, b, l) = n.direct[l[2]]
           /\ l[1] = "single" => PtrOf(n, b, l) = n.single
           /\ l[1] = "double" => PtrOf(n, b, l) = n.double
           /\ l[1] = "leaf1"  => PtrOf(n, b, l) = CellOf(b, n.single, l[2])
           /\ l[1] = "inner"  => PtrOf(n, b, l) = CellOf(b, n.double, l[2])
           /\ l[1] = "leaf2"  => PtrOf(n, b, l) = CellOf(b, CellOf(b, n.double, l[2]), l[3])
BY DEF PtrOf

LEMMA PtrAt ==
    ASSUME NEW n, NEW b
    PROVE  /\ \A k : PtrOf(n, b, <<"direct", k, 0>>) = n.direct[k]
           /\ PtrOf(n, b, <<"single", 0, 0>>) = n.single
           /\ PtrOf(n, b, <<"double", 0, 0>>) = n.double
           /\ \A k : PtrOf(n, b, <<"leaf1", k, 0>>) = CellOf(b, n.single, k)
           /\ \A o : PtrOf(n, b, <<"inner", o, 0>>) = CellOf(b, n.double, o)
           /\ \A o, k : PtrOf(n, b, <<"leaf2", o, k>>) = CellOf(b, CellOf(b, n.double, o), k)
BY DEF PtrOf

\* A pointer stays what it is when the field of the inode it starts from stays
\* and so do the cells on the way to it.
LEMMA PtrSame ==
    ASSUME NEW n, NEW m, NEW b, NEW c, NEW l \in Locs,
           l[1] = "direct" => m.direct[l[2]] = n.direct[l[2]],
           l[1] \in {"single", "leaf1"} => m.single = n.single,
           l[1] \in {"double", "inner", "leaf2"} => m.double = n.double,
           l[1] = "leaf1" /\ n.single # 0 => c[n.single][l[2]] = b[n.single][l[2]],
           l[1] \in {"inner", "leaf2"} /\ n.double # 0 =>
               c[n.double][l[2]] = b[n.double][l[2]],
           l[1] = "leaf2" /\ CellOf(b, n.double, l[2]) # 0 =>
               c[CellOf(b, n.double, l[2])][l[3]] = b[CellOf(b, n.double, l[2])][l[3]]
    PROVE  PtrOf(m, c, l) = PtrOf(n, b, l)
<1>1. l[1] = "leaf1" => CellOf(c, n.single, l[2]) = CellOf(b, n.single, l[2])
  BY DEF CellOf
<1>2. l[1] \in {"inner", "leaf2"} => CellOf(c, n.double, l[2]) = CellOf(b, n.double, l[2])
  BY DEF CellOf
<1>3. l[1] = "leaf2" => CellOf(c, CellOf(c, n.double, l[2]), l[3])
                           = CellOf(b, CellOf(b, n.double, l[2]), l[3])
  <2>1. SUFFICES ASSUME l[1] = "leaf2"
                 PROVE  CellOf(c, CellOf(b, n.double, l[2]), l[3])
                           = CellOf(b, CellOf(b, n.double, l[2]), l[3])
    BY <1>2
  <2>2. CASE CellOf(b, n.double, l[2]) = 0
    BY <2>2 DEF CellOf
  <2>3. CASE CellOf(b, n.double, l[2]) # 0
    BY <2>1, <2>3 DEF CellOf
  <2> QED
    BY <2>2, <2>3
<1> QED
  BY <1>1, <1>2, <1>3, LocParts, PtrBy

\* The pointers of an inode without blocks.
LEMMA PtrOfEmpty ==
    ASSUME NEW n, NEW b, NEW l \in Locs,
           n.direct = DefaultInode.direct, n.single = 0, n.double = 0
    PROVE  PtrOf(n, b, l) = 0
<1>1. \A k \in Direct : n.direct[k] = 0
  BY DEF DefaultInode
<1>2. \A k : CellOf(b, 0, k) = 0
  BY DEF CellOf
<1> QED
  BY <1>1, <1>2, LocParts, PtrBy

\* The inode of a new directory reaches its first block and nothing else.
LEMMA OneBlock ==
    ASSUME NEW n, NEW b, NEW x, n.single = 0, n.double = 0,
           \A k \in Direct : n.direct[k] = IF k = 0 THEN x ELSE 0, NEW m \in Locs
    PROVE  PtrOf(n, b, m) = IF m = <<"direct", 0, 0>> THEN x ELSE 0
<1>1. CASE m[1] = "direct"
  <2>1. PICK k \in Direct : m = <<"direct", k, 0>>
    BY <1>1, LocCases
  <2>2. m = <<"direct", 0, 0>> <=> k = 0
    BY <2>1
  <2>3. m[1] = "direct" /\ m[2] = k
    BY <2>1
  <2> QED
    BY <2>2, <2>3, PtrBy
<1>2. CASE m[1] # "direct"
  <2>1. \A k : CellOf(b, 0, k) = 0
    BY DEF CellOf
  <2>2. PtrOf(n, b, m) = 0
    BY <1>2, <2>1, PtrBy, LocParts
  <2> QED
    BY <1>2, <2>2
<1> QED
  BY <1>1, <1>2

LEMMA PtrType ==
    ASSUME TypeOK, Held, NEW i \in Ino, NEW l \in Locs, Ptr(i, l) # 0
    PROVE  Ptr(i, l) \in Blocks /\ Ptr(i, l) \in bitmap
BY DEF TypeOK, Held

-----------------------------------------------------------------------------
(* Steps that add one pointer, and steps that take pointers away           *)

LEMMA AddPointer ==
    ASSUME TypeOK, Unshared, Held, NEW j \in Ino, NEW m \in Locs, NEW b \in Blocks,
           b \notin bitmap, bitmap' = bitmap \cup {b},
           \A i \in Ino, l \in Locs :
               IF i = j /\ l = m THEN Ptr(i, l)' = b ELSE Ptr(i, l)' \in {0, Ptr(i, l)}
    PROVE  Unshared' /\ Held'
<1>1. \A i \in Ino, l \in Locs : Ptr(i, l) # b
  BY ConstantsType DEF Held
<1>2. Held'
  BY DEF Held
<1>3. Unshared'
  BY <1>1 DEF Unshared
<1> QED
  BY <1>2, <1>3

LEMMA DropPointers ==
    ASSUME TypeOK, Unshared, Held, NEW freed, bitmap \ freed \subseteq bitmap',
           \A i \in Ino, l \in Locs :
               Ptr(i, l)' # 0 => Ptr(i, l)' = Ptr(i, l) /\ Ptr(i, l) \notin freed
    PROVE  Unshared' /\ Held'
<1>1. Held'
  BY DEF Held
<1>2. Unshared'
  BY DEF Unshared
<1> QED
  BY <1>1, <1>2

\* The blocks that a file keeps pointers in are themselves at locations of it.
LEMMA Holders ==
    ASSUME NEW i \in Ino
    PROVE  /\ Cur(i).single = Ptr(i, <<"single", 0, 0>>)
           /\ Cur(i).double = Ptr(i, <<"double", 0, 0>>)
           /\ \A o \in Cells : CellOf(blk, Cur(i).double, o) = Ptr(i, <<"inner", o, 0>>)
BY PtrAt DEF Ptr

\* What a step must leave alone: the blocks in use that are not the operation's.
Untouched(blocks) ==
    \A x \in bitmap : (\A l \in Locs : Ptr(op.ino, l) # x) => blocks[x] = blk[x]

\* A step leaves every other file alone: its inode and the blocks it uses.
OthersKept == Untouched(blk') /\ \A j \in Ino : j # op.ino => inode'[j] = inode[j]

\* Then the pointers of every other file stay.
LEMMA OthersSame ==
    ASSUME TypeOK, Unshared, Held, op.kind # "idle", NEW blocks, Untouched(blocks),
           NEW i \in Ino, i # op.ino, NEW l \in Locs
    PROVE  PtrOf(inode[i], blocks, l) = PtrOf(inode[i], blk, l)
<1> DEFINE n == inode[i]
<1>1. Cur(i) = n /\ op.ino \in Ino
  BY DEF Cur, Busy, TypeOK, OpType
<1>2. ASSUME NEW m \in Locs, Ptr(i, m) # 0 PROVE blocks[Ptr(i, m)] = blk[Ptr(i, m)]
  BY <1>1, <1>2 DEF Untouched, Unshared, Held
<1>3. /\ n.single # 0 => blocks[n.single] = blk[n.single]
      /\ n.double # 0 => blocks[n.double] = blk[n.double]
      /\ \A o \in Cells : CellOf(blk, n.double, o) # 0 =>
            blocks[CellOf(blk, n.double, o)] = blk[CellOf(blk, n.double, o)]
  <2>1. n.single = Ptr(i, <<"single", 0, 0>>) /\ n.double = Ptr(i, <<"double", 0, 0>>)
    BY <1>1, Holders
  <2>2. \A o \in Cells : CellOf(blk, n.double, o) = Ptr(i, <<"inner", o, 0>>)
    BY <1>1, Holders
  <2> HIDE DEF n
  <2>3. <<"single", 0, 0>> \in Locs /\ <<"double", 0, 0>> \in Locs
    BY LocTypes
  <2>4. \A o \in Cells : <<"inner", o, 0>> \in Locs
    BY LocTypes
  <2>5. ASSUME NEW o \in Cells, CellOf(blk, n.double, o) # 0
        PROVE  blocks[CellOf(blk, n.double, o)] = blk[CellOf(blk, n.double, o)]
    BY <1>2, <2>2, <2>4, <2>5
  <2> QED
    BY <1>2, <2>1, <2>3, <2>5
<1> HIDE DEF n
<1> QED
  BY <1>3, PtrSame, LocParts DEF n

LEMMA Mine ==
    ASSUME TypeOK, op.kind # "idle"
    PROVE  /\ op.ino \in Ino /\ op.local \in InodeType
           /\ Cur(op.ino) = op.local
           /\ \A l \in Locs : Ptr(op.ino, l) = PtrOf(op.local, blk, l)
BY DEF TypeOK, OpType, Cur, Busy, Ptr

-----------------------------------------------------------------------------
(* bmap with allocate                                                      *)

LEMMA Paths ==
    /\ \A k \in Direct : Through(<<"direct", k, 0>>, k)
    /\ \A k \in Cells : Through(<<"leaf1", k, 0>>, NDirect + k) /\ Through(<<"single", 0, 0>>, NDirect + k)
    /\ \A o, k \in Cells :
          /\ Through(<<"leaf2", o, k>>, NDirect + P + o * P + k)
          /\ Through(<<"inner", o, 0>>, NDirect + P + o * P + k)
          /\ Through(<<"double", 0, 0>>, NDirect + P + o * P + k)
<1>1. ASSUME NEW k \in Direct PROVE Through(<<"direct", k, 0>>, k)
  <2> DEFINE l == <<"direct", k, 0>>
  <2>1. l \in LeafLocs /\ IndexOf(l) = k
    BY LocTypes DEF IndexOf
  <2> HIDE DEF l
  <2> QED
    BY <2>1 DEF Through, l
<1>2. ASSUME NEW k \in Cells
      PROVE  Through(<<"leaf1", k, 0>>, NDirect + k) /\ Through(<<"single", 0, 0>>, NDirect + k)
  <2> DEFINE l == <<"leaf1", k, 0>>
  <2>1. l \in LeafLocs /\ IndexOf(l) = NDirect + k /\ Holder(l) = <<"single", 0, 0>>
    BY LocTypes DEF IndexOf, Holder
  <2> HIDE DEF l
  <2> QED
    BY <2>1 DEF Through, l
<1>3. ASSUME NEW o \in Cells, NEW k \in Cells
      PROVE  /\ Through(<<"leaf2", o, k>>, NDirect + P + o * P + k)
             /\ Through(<<"inner", o, 0>>, NDirect + P + o * P + k)
             /\ Through(<<"double", 0, 0>>, NDirect + P + o * P + k)
  <2> DEFINE l == <<"leaf2", o, k>>
             i == <<"inner", o, 0>>
             x == NDirect + P + o * P + k
  <2>1. l \in LeafLocs /\ IndexOf(l) = x /\ Holder(l) = i /\ Holder(i) = <<"double", 0, 0>>
    BY LocTypes DEF IndexOf, Holder
  <2> HIDE DEF l, i, x
  <2>2. Through(l, x) /\ Through(i, x) /\ Through(<<"double", 0, 0>>, x)
    BY <2>1 DEF Through
  <2> QED
    BY <2>2 DEF l, i, x
<1> QED
  BY <1>1, <1>2, <1>3

\* The blocks of content that the file has are as they were.
ContentKept(blocks) ==
    \A m \in LeafLocs : PtrOf(op.local, blk, m) # 0 =>
        blocks[PtrOf(op.local, blk, m)] = blk[PtrOf(op.local, blk, m)]

\* Writing into the pointer blocks of a file changes none of its content.
LEMMA PointersOnly ==
    ASSUME TypeOK, Unshared, Held, op.kind # "idle", NEW blocks,
           \A x \in Blocks : (\A h \in Locs \ LeafLocs : PtrOf(op.local, blk, h) # x) => blocks[x] = blk[x]
    PROVE  Untouched(blocks) /\ ContentKept(blocks)
<1>1. Untouched(blocks)
  BY Mine DEF Untouched, TypeOK
<1>2. ASSUME NEW m \in LeafLocs, PtrOf(op.local, blk, m) # 0
      PROVE  blocks[PtrOf(op.local, blk, m)] = blk[PtrOf(op.local, blk, m)]
  <2>1. m \in Locs
    BY LocTypes
  <2>2. PtrOf(op.local, blk, m) \in Blocks
    BY <1>2, <2>1, Mine, PtrType
  <2>3. \A h \in Locs \ LeafLocs : PtrOf(op.local, blk, h) # PtrOf(op.local, blk, m)
    BY <1>2, <2>1, Mine DEF Unshared
  <2> QED
    BY <2>2, <2>3
<1> QED
  BY <1>1, <1>2 DEF ContentKept

\* What a link step must establish for the file it extends: one pointer is new.
LinksAt(l, b, local, blocks) ==
    /\ \A m \in Locs : PtrOf(local, [blocks EXCEPT ![b] = ZeroBlock], m) =
                          IF m = l THEN b ELSE PtrOf(op.local, blk, m)
    /\ \A k \in Direct : op.local.direct[k] \in {0, local.direct[k]}
    /\ op.local.single \in {0, local.single}
    /\ op.local.double \in {0, local.double}

\* Each of the six steps is of this kind: it links block b at location l, on the way
\* to the logical block it is about.
IsLink(l, b, local, blocks) ==
    /\ Extending /\ l \in Locs /\ b \in Blocks
    /\ local \in InodeType /\ blocks \in [Blocks -> [Cells -> Nat]]
    /\ Untouched(blocks) /\ ContentKept(blocks)
    /\ LinksAt(l, b, local, blocks) /\ Link(b, local, blocks)
    /\ PtrOf(op.local, blk, l) = 0 /\ Through(l, op.index)
    /\ local.mode = op.local.mode /\ local.size = op.local.size
    /\ local.block_count = IF l \in LeafLocs THEN Incr(op.local.block_count) ELSE op.local.block_count

LEMMA LinkSafe ==
    ASSUME BlockMapInv, NEW l, NEW b, NEW local, NEW blocks, IsLink(l, b, local, blocks)
    PROVE  Unshared' /\ Held' /\ LocalExtends' /\ ~torn' /\ OthersKept
<1>0. /\ Extending /\ l \in Locs /\ b \in Blocks
      /\ local \in InodeType /\ blocks \in [Blocks -> [Cells -> Nat]]
      /\ Untouched(blocks) /\ LinksAt(l, b, local, blocks) /\ Link(b, local, blocks)
  BY DEF IsLink
<1>1. /\ op.kind \in {"write", "grow"} /\ op.kind # "idle" /\ ~torn
      /\ TypeOK /\ Unshared /\ Held
  BY <1>0 DEF BlockMapInv, Extending, Running, TornIdle, NoSharing, Allocated
<1>2. b \notin bitmap /\ bitmap' = bitmap \cup {b} /\ bitmap \subseteq Blocks
  BY <1>0, <1>1 DEF Link, Take, FreeBlocks, TypeOK
<1>3. blk' = [blocks EXCEPT ![b] = ZeroBlock]
  BY <1>0 DEF Link
<1>4. /\ op'.kind = op.kind /\ op'.ino = op.ino /\ op'.local = local
      /\ inode' = inode /\ torn' = torn
  BY <1>0, <1>1 DEF Link, TypeOK, OpType, History
<1>5. Untouched(blk')
  BY <1>0, <1>2, <1>3 DEF Untouched
<1>6. ASSUME NEW i \in Ino, NEW m \in Locs
      PROVE  Ptr(i, m)' = IF i = op.ino /\ m = l THEN b ELSE Ptr(i, m)
  <2>1. CASE i = op.ino
    <3>1. Ptr(i, m)' = PtrOf(local, blk', m)
      BY <1>1, <1>4, <2>1 DEF Ptr, Cur, Busy
    <3> QED
      BY <1>0, <1>1, <1>3, <2>1, <3>1, Mine DEF LinksAt
  <2>2. CASE i # op.ino
    <3>1. Ptr(i, m)' = PtrOf(inode[i], blk', m) /\ Ptr(i, m) = PtrOf(inode[i], blk, m)
      BY <1>4, <2>2 DEF Ptr, Cur, Busy
    <3> QED
      BY <1>1, <1>5, <2>2, <3>1, OthersSame
  <2> QED
    BY <2>1, <2>2
<1>7. Unshared' /\ Held'
  BY <1>0, <1>1, <1>2, <1>6, Mine, AddPointer
<1>8. LocalExtends'
  <2>1. LocalExtends /\ op.local \in InodeType /\ inode[op.ino] \in InodeType
    BY <1>1 DEF BlockMapInv, TypeOK, OpType
  <2> QED
    BY <1>0, <1>1, <1>4, <2>1 DEF LocalExtends, LinksAt
<1> QED
  BY <1>1, <1>4, <1>5, <1>7, <1>8 DEF OthersKept

Inner(o) == CellOf(blk, op.local.double, o)

\* Where the o-th inner pointer block is found.
LEMMA InnerAt ==
    ASSUME NEW o \in Cells
    PROVE  <<"inner", o, 0>> \in Locs /\ PtrOf(op.local, blk, <<"inner", o, 0>>) = Inner(o)
<1>1. <<"inner", o, 0>> \in Locs
  BY LocTypes
<1>2. PtrOf(op.local, blk, <<"inner", o, 0>>) = CellOf(blk, op.local.double, o)
  <2> DEFINE l == <<"inner", o, 0>>
  <2>1. l[1] = "inner" /\ l[2] = o
    OBVIOUS
  <2> HIDE DEF l
  <2>2. PtrOf(op.local, blk, l) = CellOf(blk, op.local.double, o)
    BY <2>1, PtrBy
  <2> QED
    BY <2>2 DEF l
<1> QED
  BY <1>1, <1>2 DEF Inner

\* The pointer blocks of the file under the operation are in use and differ.
LEMMA MyHolders ==
    ASSUME TypeOK, Unshared, Held, op.kind # "idle"
    PROVE  /\ op.local.single # 0 => op.local.single \in bitmap
           /\ op.local.double # 0 => op.local.double \in bitmap
           /\ op.local.single # 0 => op.local.single # op.local.double
           /\ \A o \in Cells : Inner(o) # 0 =>
                 Inner(o) \in bitmap /\ Inner(o) # op.local.single /\ Inner(o) # op.local.double
           /\ \A o, q \in Cells : Inner(o) # 0 /\ Inner(o) = Inner(q) => o = q
<1> DEFINE me == op.ino
           S  == <<"single", 0, 0>>
           D  == <<"double", 0, 0>>
           In(o) == <<"inner", o, 0>>
<1>1. /\ op.local.single = Ptr(me, S) /\ op.local.double = Ptr(me, D)
      /\ \A o \in Cells : Inner(o) = Ptr(me, In(o))
      /\ me \in Ino
  BY Mine, Holders DEF Inner
<1>2. S \in Locs /\ D \in Locs /\ \A o \in Cells : In(o) \in Locs
  BY LocTypes
<1>3. S # D /\ \A o \in Cells : In(o) # S /\ In(o) # D
  OBVIOUS
<1>4. \A o, q \in Cells : In(o) = In(q) => o = q
  OBVIOUS
<1>5. \A l, m \in Locs : Ptr(me, l) # 0 => /\ Ptr(me, l) \in bitmap
                                           /\ Ptr(me, l) = Ptr(me, m) => l = m
  BY <1>1 DEF Unshared, Held
<1> HIDE DEF me, S, D, In
<1> QED
  BY <1>1, <1>2, <1>3, <1>4, <1>5

LEMMA Busyness ==
    ASSUME BlockMapInv, op.kind # "idle"
    PROVE  TypeOK /\ Unshared /\ Held /\ ~torn
BY DEF BlockMapInv, TornIdle, NoSharing, Allocated

LEMMA ExtendingFacts ==
    ASSUME BlockMapInv, Extending
    PROVE  /\ TypeOK /\ Unshared /\ Held /\ op.kind # "idle" /\ ~torn
           /\ op.local \in InodeType /\ blk \in [Blocks -> [Cells -> Nat]]
           /\ Incr(op.local.block_count) \in 0..CountMod-1
           /\ bitmap \subseteq Blocks /\ Blocks \subseteq Nat /\ 0 \notin Blocks
           /\ Untouched(blk) /\ ContentKept(blk)
<1>1. op.kind # "idle"
  BY DEF Extending, Running
<1>2. TypeOK /\ Unshared /\ Held /\ ~torn
  BY <1>1, Busyness
<1>3. op.local \in InodeType /\ blk \in [Blocks -> [Cells -> Nat]]
  BY <1>2 DEF TypeOK, OpType
<1>4. Incr(op.local.block_count) \in 0..CountMod-1
  BY <1>3, CountType DEF InodeType
<1> QED
  BY <1>1, <1>2, <1>3, <1>4, ConstantsType DEF Untouched, ContentKept, TypeOK

LEMMA LinkDirectIs ==
    ASSUME BlockMapInv, LinkDirect
    PROVE  \E l, b, local, blocks : IsLink(l, b, local, blocks)
<1>1. Extending /\ op.index \in Direct /\ op.local.direct[op.index] = 0
  BY DEF LinkDirect
<1> DEFINE local(b) == [op.local EXCEPT !.direct[op.index] = b,
                                        !.block_count = Incr(op.local.block_count)]
<1>2. PICK b \in Blocks : Link(b, local(b), blk)
  BY DEF LinkDirect
<1>3. local(b) \in InodeType
  BY <1>1, ExtendingFacts DEF InodeType
<1>4. b \notin bitmap
  BY <1>2 DEF Link, Take, FreeBlocks
<1> DEFINE l == <<"direct", op.index, 0>>
           c == [blk EXCEPT ![b] = ZeroBlock]
<1>5. ASSUME NEW m \in Locs
      PROVE  PtrOf(local(b), c, m) = IF m = l THEN b ELSE PtrOf(op.local, blk, m)
  <2>1. CASE m[1] = "direct"
    <3>1. PICK k \in Direct : m = <<"direct", k, 0>>
      BY <2>1, LocCases
    <3>2. local(b).direct[k] = IF k = op.index THEN b ELSE op.local.direct[k]
      BY <1>1, ExtendingFacts DEF InodeType
    <3>3. (m = l <=> k = op.index) /\ m[2] = k
      BY <3>1
    <3> HIDE DEF local, c, l
    <3>4. PtrOf(local(b), c, m) = local(b).direct[k]
      BY <2>1, <3>3, PtrBy
    <3>5. PtrOf(op.local, blk, m) = op.local.direct[k]
      BY <2>1, <3>3, PtrBy
    <3> QED
      BY <3>2, <3>3, <3>4, <3>5
  <2>2. CASE m[1] # "direct"
    <3>1. /\ op.local.single # 0 => c[op.local.single] = blk[op.local.single]
          /\ op.local.double # 0 => c[op.local.double] = blk[op.local.double]
          /\ \A o \in Cells : Inner(o) # 0 => c[Inner(o)] = blk[Inner(o)]
      BY <1>1, <1>4, ExtendingFacts, MyHolders
    <3>2. local(b).single = op.local.single /\ local(b).double = op.local.double
      BY <1>1, ExtendingFacts DEF InodeType
    <3> HIDE DEF local, c, l
    <3>3. PtrOf(local(b), c, m) = PtrOf(op.local, blk, m)
      BY <2>2, <3>1, <3>2, PtrSame, LocParts DEF Inner
    <3> QED
      BY <2>2, <3>3 DEF l
  <2> QED
    BY <2>1, <2>2
<1>6. LinksAt(l, b, local(b), blk)
  BY <1>1, <1>5, ExtendingFacts DEF LinksAt, InodeType
<1>7. l \in LeafLocs /\ l \in Locs /\ Through(l, op.index)
  BY <1>1, LocTypes, Paths
<1>8. PtrOf(op.local, blk, l) = 0
  <2>1. l[1] = "direct" /\ l[2] = op.index
    OBVIOUS
  <2> HIDE DEF l, c, local
  <2> QED
    BY <1>1, <2>1, PtrBy
<1>9. /\ local(b).mode = op.local.mode /\ local(b).size = op.local.size
      /\ local(b).block_count = Incr(op.local.block_count)
  <2>1. op.local \in InodeType
    BY <1>1, ExtendingFacts
  <2> HIDE DEF l, c
  <2> QED
    BY <2>1 DEF InodeType
<1> HIDE DEF local, l, c
<1>10. IsLink(l, b, local(b), blk)
  BY <1>1, <1>2, <1>3, <1>6, <1>7, <1>8, <1>9, ExtendingFacts DEF IsLink
<1> QED
  BY <1>10

LEMMA LinkSingleIs ==
    ASSUME BlockMapInv, LinkSingle
    PROVE  \E l, b, local, blocks : IsLink(l, b, local, blocks)
<1>1. Extending /\ op.local.single = 0
  BY DEF LinkSingle
<1> DEFINE local(b) == [op.local EXCEPT !.single = b]
<1>2. PICK b \in Blocks : Link(b, local(b), blk)
  BY DEF LinkSingle
<1>3. local(b) \in InodeType
  BY <1>1, ExtendingFacts DEF InodeType
<1>4. b \notin bitmap /\ b # 0
  BY <1>1, <1>2, ExtendingFacts DEF Link, Take, FreeBlocks
<1> DEFINE l == <<"single", 0, 0>>
           c == [blk EXCEPT ![b] = ZeroBlock]
<1>5. /\ c[b] = ZeroBlock
      /\ op.local.double # 0 => c[op.local.double] = blk[op.local.double]
      /\ \A o \in Cells : Inner(o) # 0 => c[Inner(o)] = blk[Inner(o)]
  BY <1>1, <1>4, ExtendingFacts, MyHolders
<1>6. /\ local(b).single = b /\ local(b).double = op.local.double
      /\ local(b).direct = op.local.direct
  BY <1>1, ExtendingFacts DEF InodeType
<1> HIDE DEF local, c
<1>7. ASSUME NEW m \in Locs
      PROVE  PtrOf(local(b), c, m) = IF m = l THEN b ELSE PtrOf(op.local, blk, m)
  <2>1. CASE m[1] = "single"
    BY <1>6, <2>1, LocCases, PtrBy
  <2>2. CASE m[1] = "leaf1"
    <3>1. m[2] \in Cells /\ m # l
      BY <2>2, LocParts
    <3>2. PtrOf(local(b), c, m) = CellOf(c, b, m[2]) /\ PtrOf(op.local, blk, m) = CellOf(blk, 0, m[2])
      BY <1>1, <1>6, <2>2, PtrBy
    <3>3. CellOf(c, b, m[2]) = 0 /\ CellOf(blk, 0, m[2]) = 0
      BY <1>4, <1>5, <3>1 DEF CellOf, ZeroBlock
    <3> QED
      BY <3>1, <3>2, <3>3
  <2>3. CASE m[1] \notin {"single", "leaf1"}
    <3>1. PtrOf(local(b), c, m) = PtrOf(op.local, blk, m)
      BY <1>5, <1>6, <2>3, PtrSame, LocParts DEF Inner
    <3> QED
      BY <2>3, <3>1
  <2> QED
    BY <2>1, <2>2, <2>3
<1>8. LinksAt(l, b, local(b), blk)
  BY <1>1, <1>6, <1>7, ExtendingFacts DEF LinksAt, InodeType, c
<1>9. l \in Locs /\ l \notin LeafLocs /\ PtrOf(op.local, blk, l) = 0
  BY <1>1, LocTypes, PtrAt
<1>10. Through(l, op.index)
  BY Paths DEF LinkSingle
<1>11. /\ local(b).mode = op.local.mode /\ local(b).size = op.local.size
       /\ local(b).block_count = op.local.block_count
  BY <1>1, ExtendingFacts DEF InodeType, local
<1> HIDE DEF l
<1>12. IsLink(l, b, local(b), blk)
  BY <1>1, <1>2, <1>3, <1>8, <1>9, <1>10, <1>11, ExtendingFacts DEF IsLink
<1> QED
  BY <1>12

LEMMA LinkDoubleIs ==
    ASSUME BlockMapInv, LinkDouble
    PROVE  \E l, b, local, blocks : IsLink(l, b, local, blocks)
<1>1. Extending /\ op.local.double = 0
  BY DEF LinkDouble
<1> DEFINE local(b) == [op.local EXCEPT !.double = b]
<1>2. PICK b \in Blocks : Link(b, local(b), blk)
  BY DEF LinkDouble
<1>3. local(b) \in InodeType
  BY <1>1, ExtendingFacts DEF InodeType
<1>4. b \notin bitmap /\ b # 0
  BY <1>1, <1>2, ExtendingFacts DEF Link, Take, FreeBlocks
<1> DEFINE l == <<"double", 0, 0>>
           c == [blk EXCEPT ![b] = ZeroBlock]
<1>5. /\ c[b] = ZeroBlock
      /\ op.local.single # 0 => c[op.local.single] = blk[op.local.single]
  BY <1>1, <1>4, ExtendingFacts, MyHolders
<1>6. /\ local(b).double = b /\ local(b).single = op.local.single
      /\ local(b).direct = op.local.direct
  BY <1>1, ExtendingFacts DEF InodeType
<1> HIDE DEF local, c
<1>7. ASSUME NEW m \in Locs
      PROVE  PtrOf(local(b), c, m) = IF m = l THEN b ELSE PtrOf(op.local, blk, m)
  <2>1. CASE m[1] = "double"
    BY <1>6, <2>1, LocCases, PtrBy
  <2>2. CASE m[1] \in {"inner", "leaf2"}
    <3>1. m[2] \in Cells /\ m # l
      BY <2>2, LocParts
    <3>2. CellOf(c, b, m[2]) = 0 /\ CellOf(blk, 0, m[2]) = 0
      BY <1>4, <1>5, <3>1 DEF CellOf, ZeroBlock
    <3>3. \A k : CellOf(c, 0, k) = 0 /\ CellOf(blk, 0, k) = 0
      BY DEF CellOf
    <3>4. PtrOf(local(b), c, m) = 0 /\ PtrOf(op.local, blk, m) = 0
      BY <1>1, <1>6, <2>2, <3>2, <3>3, PtrBy
    <3> QED
      BY <3>1, <3>4
  <2>3. CASE m[1] \notin {"double", "inner", "leaf2"}
    <3>1. PtrOf(local(b), c, m) = PtrOf(op.local, blk, m)
      BY <1>5, <1>6, <2>3, PtrSame, LocParts
    <3> QED
      BY <2>3, <3>1
  <2> QED
    BY <2>1, <2>2, <2>3
<1>8. LinksAt(l, b, local(b), blk)
  BY <1>1, <1>6, <1>7, ExtendingFacts DEF LinksAt, InodeType, c
<1>9. l \in Locs /\ l \notin LeafLocs /\ PtrOf(op.local, blk, l) = 0
  BY <1>1, LocTypes, PtrAt
<1>10. Through(l, op.index)
  BY Paths DEF LinkDouble
<1>11. /\ local(b).mode = op.local.mode /\ local(b).size = op.local.size
       /\ local(b).block_count = op.local.block_count
  BY <1>1, ExtendingFacts DEF InodeType, local
<1> HIDE DEF l
<1>12. IsLink(l, b, local(b), blk)
  BY <1>1, <1>2, <1>3, <1>8, <1>9, <1>10, <1>11, ExtendingFacts DEF IsLink
<1> QED
  BY <1>12

LEMMA LinkSingleLeafIs ==
    ASSUME BlockMapInv, LinkSingleLeaf
    PROVE  \E l, b, local, blocks : IsLink(l, b, local, blocks)
<1> DEFINE s     == op.local.single
           local == [op.local EXCEPT !.block_count = Incr(op.local.block_count)]
<1>1. Extending /\ s # 0
  BY DEF LinkSingleLeaf
<1>2. PICK k \in Cells, b \in Blocks :
         op.index = NDirect + k /\ blk[s][k] = 0 /\ Link(b, local, [blk EXCEPT ![s][k] = b])
  BY DEF LinkSingleLeaf
<1> DEFINE l      == <<"leaf1", k, 0>>
           blocks == [blk EXCEPT ![s][k] = b]
           c      == [blocks EXCEPT ![b] = ZeroBlock]
<1>3. local \in InodeType /\ blocks \in [Blocks -> [Cells -> Nat]]
  BY <1>1, ExtendingFacts DEF InodeType
<1>4. b \notin bitmap /\ b # 0
  BY <1>1, <1>2, ExtendingFacts DEF Link, Take, FreeBlocks
<1>5. s \in Blocks /\ s # b /\ c[s] = [blk[s] EXCEPT ![k] = b] /\ blk[s] \in [Cells -> Nat]
  BY <1>1, <1>4, ExtendingFacts, MyHolders
<1>6. /\ op.local.double # 0 => c[op.local.double] = blk[op.local.double]
      /\ \A o \in Cells : Inner(o) # 0 => c[Inner(o)] = blk[Inner(o)]
  BY <1>1, <1>4, ExtendingFacts, MyHolders
<1>7. /\ local.single = s /\ local.double = op.local.double
      /\ local.direct = op.local.direct
  BY <1>1, ExtendingFacts DEF InodeType
<1>8. Untouched(blocks) /\ ContentKept(blocks)
  <2>1. \A x \in Blocks : x # s => blocks[x] = blk[x]
    BY <1>1, ExtendingFacts
  <2> HIDE DEF blocks, c, local, l
  <2>2. \A x \in Blocks : (\A h \in Locs \ LeafLocs : PtrOf(op.local, blk, h) # x) => blocks[x] = blk[x]
    BY <2>1, LocTypes, PtrAt
  <2> QED
    BY <1>1, <2>2, ExtendingFacts, PointersOnly
<1> HIDE DEF local, c, s, blocks
<1>9. ASSUME NEW m \in Locs
      PROVE  PtrOf(local, c, m) = IF m = l THEN b ELSE PtrOf(op.local, blk, m)
  <2>1. CASE m[1] = "leaf1"
    <3>1. PICK q \in Cells : m = <<"leaf1", q, 0>>
      BY <2>1, LocCases
    <3>2. m = l <=> q = k
      BY <3>1
    <3>3. PtrOf(local, c, m) = CellOf(c, s, q) /\ PtrOf(op.local, blk, m) = CellOf(blk, s, q)
      <4>1. m[1] = "leaf1" /\ m[2] = q
        BY <3>1
      <4> QED
        BY <1>7, <4>1, PtrBy DEF s
    <3>4. PtrOf(local, c, m) = c[s][q] /\ PtrOf(op.local, blk, m) = blk[s][q]
      BY <1>1, <3>3 DEF CellOf
    <3> QED
      BY <1>5, <3>2, <3>4
  <2>2. CASE m[1] # "leaf1"
    <3>1. PtrOf(local, c, m) = PtrOf(op.local, blk, m)
      BY <1>6, <1>7, <2>2, PtrSame, LocParts DEF Inner, s
    <3> QED
      BY <2>2, <3>1
  <2> QED
    BY <2>1, <2>2
<1>10. LinksAt(l, b, local, blocks)
  BY <1>1, <1>7, <1>9, ExtendingFacts DEF LinksAt, InodeType, c, s
<1>11. l \in Locs /\ l \in LeafLocs /\ Through(l, op.index)
  BY <1>2, LocTypes, Paths
<1>12. PtrOf(op.local, blk, l) = 0
  <2>1. l[1] = "leaf1" /\ l[2] = k /\ CellOf(blk, s, k) = 0
    BY <1>1, <1>2 DEF CellOf
  <2> HIDE DEF l
  <2> QED
    BY <2>1, PtrBy DEF s
<1>13. /\ local.mode = op.local.mode /\ local.size = op.local.size
       /\ local.block_count = Incr(op.local.block_count)
  BY <1>1, ExtendingFacts DEF InodeType, local
<1>14. Link(b, local, blocks)
  BY <1>2 DEF blocks
<1> HIDE DEF l
<1>15. IsLink(l, b, local, blocks)
  BY <1>1, <1>3, <1>8, <1>10, <1>11, <1>12, <1>13, <1>14 DEF IsLink
<1> QED
  BY <1>15

LEMMA LinkInnerIs ==
    ASSUME BlockMapInv, LinkInner
    PROVE  \E l, b, local, blocks : IsLink(l, b, local, blocks)
<1> DEFINE d == op.local.double
<1>1. Extending /\ d # 0
  BY DEF LinkInner
<1>2. PICK o \in Cells, b \in Blocks :
         /\ \E k \in Cells : op.index = NDirect + P + o * P + k
         /\ blk[d][o] = 0 /\ Link(b, op.local, [blk EXCEPT ![d][o] = b])
  BY DEF LinkInner
<1> DEFINE l      == <<"inner", o, 0>>
           blocks == [blk EXCEPT ![d][o] = b]
           c      == [blocks EXCEPT ![b] = ZeroBlock]
<1>3. op.local \in InodeType /\ blocks \in [Blocks -> [Cells -> Nat]]
  BY <1>1, ExtendingFacts
<1>4. b \notin bitmap /\ b # 0
  BY <1>1, <1>2, ExtendingFacts DEF Link, Take, FreeBlocks
<1>5. /\ d \in Blocks /\ d # b /\ c[d] = [blk[d] EXCEPT ![o] = b]
      /\ c[b] = ZeroBlock /\ blk[d] \in [Cells -> Nat]
  BY <1>1, <1>4, ExtendingFacts, MyHolders
<1>6. /\ op.local.single # 0 => c[op.local.single] = blk[op.local.single]
      /\ \A q \in Cells : Inner(q) # 0 => c[Inner(q)] = blk[Inner(q)]
  BY <1>1, <1>4, ExtendingFacts, MyHolders
<1>7. Untouched(blocks) /\ ContentKept(blocks)
  <2>1. \A x \in Blocks : x # d => blocks[x] = blk[x]
    BY <1>1, ExtendingFacts
  <2> HIDE DEF blocks, c, l
  <2>2. \A x \in Blocks : (\A h \in Locs \ LeafLocs : PtrOf(op.local, blk, h) # x) => blocks[x] = blk[x]
    BY <2>1, LocTypes, PtrAt
  <2> QED
    BY <1>1, <2>2, ExtendingFacts, PointersOnly
<1>8. \A q \in Cells : /\ CellOf(c, d, q) = IF q = o THEN b ELSE Inner(q)
                       /\ Inner(q) = blk[d][q]
  BY <1>1, <1>5 DEF CellOf, Inner
<1> HIDE DEF c, d, blocks
<1>9. ASSUME NEW m \in Locs
      PROVE  PtrOf(op.local, c, m) = IF m = l THEN b ELSE PtrOf(op.local, blk, m)
  <2>1. CASE m[1] = "inner"
    <3>1. PICK q \in Cells : m = <<"inner", q, 0>>
      BY <2>1, LocCases
    <3>2. m = l <=> q = o
      BY <3>1
    <3>3. PtrOf(op.local, c, m) = CellOf(c, d, q) /\ PtrOf(op.local, blk, m) = Inner(q)
      <4>1. m[1] = "inner" /\ m[2] = q
        BY <3>1
      <4> QED
        BY <4>1, PtrBy DEF Inner, d
    <3> QED
      BY <1>8, <3>2, <3>3
  <2>2. CASE m[1] = "leaf2"
    <3>1. PICK q \in Cells, k \in Cells : m = <<"leaf2", q, k>>
      BY <2>2, LocCases
    <3>2. /\ PtrOf(op.local, c, m) = CellOf(c, CellOf(c, d, q), k)
          /\ PtrOf(op.local, blk, m) = CellOf(blk, Inner(q), k)
      <4>1. m[1] = "leaf2" /\ m[2] = q /\ m[3] = k
        BY <3>1
      <4> QED
        BY <4>1, PtrBy DEF Inner, d
    <3>3. CASE q = o
      <4>1. CellOf(c, b, k) = 0 /\ CellOf(blk, Inner(q), k) = 0
        BY <1>2, <1>4, <1>5, <1>8, <3>3 DEF CellOf, ZeroBlock
      <4> QED
        BY <1>8, <2>2, <3>2, <3>3, <4>1
    <3>4. CASE q # o
      <4>1. CellOf(c, Inner(q), k) = CellOf(blk, Inner(q), k)
        BY <1>6 DEF CellOf
      <4> QED
        BY <1>8, <2>2, <3>2, <3>4, <4>1
    <3> QED
      BY <3>3, <3>4
  <2>3. CASE m[1] \notin {"inner", "leaf2"}
    <3>1. PtrOf(op.local, c, m) = PtrOf(op.local, blk, m)
      BY <1>6, <2>3, PtrSame, LocParts
    <3> QED
      BY <2>3, <3>1
  <2> QED
    BY <2>1, <2>2, <2>3
<1>10. LinksAt(l, b, op.local, blocks)
  BY <1>1, <1>9, ExtendingFacts DEF LinksAt, InodeType, c
<1>11. l \in Locs /\ l \notin LeafLocs /\ Through(l, op.index)
  BY <1>2, LocTypes, Paths
<1>12. PtrOf(op.local, blk, l) = 0
  BY <1>1, <1>2, PtrAt DEF CellOf, d
<1>13. Link(b, op.local, blocks)
  BY <1>2 DEF blocks
<1> HIDE DEF l
<1>14. IsLink(l, b, op.local, blocks)
  BY <1>1, <1>3, <1>7, <1>10, <1>11, <1>12, <1>13 DEF IsLink
<1> QED
  BY <1>14

LEMMA LinkDoubleLeafIs ==
    ASSUME BlockMapInv, LinkDoubleLeaf
    PROVE  \E l, b, local, blocks : IsLink(l, b, local, blocks)
<1> DEFINE d     == op.local.double
           local == [op.local EXCEPT !.block_count = Incr(op.local.block_count)]
<1>1. Extending /\ d # 0
  BY DEF LinkDoubleLeaf
<1>2. PICK o \in Cells, k \in Cells, b \in Blocks :
         /\ op.index = NDirect + P + o * P + k
         /\ blk[d][o] # 0 /\ blk[blk[d][o]][k] = 0
         /\ Link(b, local, [blk EXCEPT ![blk[d][o]][k] = b])
  BY DEF LinkDoubleLeaf
<1> DEFINE l      == <<"leaf2", o, k>>
           i      == Inner(o)
           blocks == [blk EXCEPT ![i][k] = b]
           c      == [blocks EXCEPT ![b] = ZeroBlock]
<1>3. i = blk[d][o]
  BY <1>1 DEF Inner, CellOf
<1>4. local \in InodeType /\ blocks \in [Blocks -> [Cells -> Nat]]
  BY <1>1, ExtendingFacts DEF InodeType
<1>5. b \notin bitmap /\ b # 0
  BY <1>1, <1>2, ExtendingFacts DEF Link, Take, FreeBlocks
<1>6. i # 0 /\ i \in Blocks /\ i # b /\ c[i] = [blk[i] EXCEPT ![k] = b] /\ blk[i] \in [Cells -> Nat]
  BY <1>1, <1>2, <1>3, <1>5, ExtendingFacts, MyHolders
<1>7. /\ op.local.single # 0 => c[op.local.single] = blk[op.local.single]
      /\ c[d] = blk[d]
      /\ \A q \in Cells : Inner(q) # 0 /\ q # o => c[Inner(q)] = blk[Inner(q)]
  BY <1>1, <1>5, <1>6, ExtendingFacts, MyHolders
<1>8. /\ local.single = op.local.single /\ local.double = d
      /\ local.direct = op.local.direct
  BY <1>1, ExtendingFacts DEF InodeType
<1>9. Untouched(blocks) /\ ContentKept(blocks)
  <2>2. \A x \in Blocks : x # i => blocks[x] = blk[x]
    BY <1>1, ExtendingFacts
  <2> HIDE DEF blocks, c, local, l, d
  <2>1. <<"inner", o, 0>> \in Locs \ LeafLocs /\ PtrOf(op.local, blk, <<"inner", o, 0>>) = i
    BY InnerAt, LocTypes
  <2> HIDE DEF i
  <2>3. \A x \in Blocks : (\A h \in Locs \ LeafLocs : PtrOf(op.local, blk, h) # x) => blocks[x] = blk[x]
    BY <2>1, <2>2
  <2> QED
    BY <1>1, <2>3, ExtendingFacts, PointersOnly
<1> HIDE DEF local, c, i, blocks
<1>10. \A q \in Cells : CellOf(c, d, q) = Inner(q)
  BY <1>7 DEF CellOf, Inner
<1> HIDE DEF d
<1>11. ASSUME NEW m \in Locs
       PROVE  PtrOf(local, c, m) = IF m = l THEN b ELSE PtrOf(op.local, blk, m)
  <2>1. CASE m[1] = "leaf2"
    <3>1. PICK q \in Cells, r \in Cells : m = <<"leaf2", q, r>>
      BY <2>1, LocCases
    <3>2. m = l <=> q = o /\ r = k
      BY <3>1
    <3>3. /\ PtrOf(local, c, m) = CellOf(c, Inner(q), r)
          /\ PtrOf(op.local, blk, m) = CellOf(blk, Inner(q), r)
      <4>1. m[1] = "leaf2" /\ m[2] = q /\ m[3] = r
        BY <3>1
      <4>2. PtrOf(local, c, m) = CellOf(c, CellOf(c, d, q), r)
        BY <1>8, <4>1, PtrBy
      <4>3. PtrOf(op.local, blk, m) = CellOf(blk, Inner(q), r)
        BY <4>1, PtrBy DEF Inner
      <4> QED
        BY <1>10, <4>2, <4>3
    <3>4. CASE q = o
      BY <1>6, <3>2, <3>3, <3>4 DEF CellOf, i
    <3>5. CASE q # o
      BY <1>7, <3>2, <3>3, <3>5 DEF CellOf
    <3> QED
      BY <3>4, <3>5
  <2>2. CASE m[1] # "leaf2"
    <3>1. PtrOf(local, c, m) = PtrOf(op.local, blk, m)
      BY <1>7, <1>8, <2>2, PtrSame, LocParts DEF d
    <3> QED
      BY <2>2, <3>1
  <2> QED
    BY <2>1, <2>2
<1>12. LinksAt(l, b, local, blocks)
  BY <1>1, <1>8, <1>11, ExtendingFacts DEF LinksAt, InodeType, c, d
<1>13. l \in Locs /\ l \in LeafLocs /\ Through(l, op.index)
  BY <1>2, LocTypes, Paths
<1>14. Link(b, local, blocks)
  BY <1>2, <1>3 DEF blocks
<1>15. PtrOf(op.local, blk, l) = 0
  <2>1. l[1] = "leaf2" /\ l[2] = o /\ l[3] = k /\ CellOf(blk, i, k) = 0
    BY <1>2, <1>3 DEF CellOf
  <2> HIDE DEF l
  <2> QED
    BY <2>1, PtrBy DEF i, Inner
<1>16. /\ local.mode = op.local.mode /\ local.size = op.local.size
       /\ local.block_count = Incr(op.local.block_count)
  BY <1>1, ExtendingFacts DEF InodeType, local
<1> HIDE DEF l
<1>17. IsLink(l, b, local, blocks)
  BY <1>1, <1>4, <1>9, <1>12, <1>13, <1>14, <1>15, <1>16 DEF IsLink
<1> QED
  BY <1>17

LinkStep ==
    \/ LinkDirect \/ LinkSingle \/ LinkSingleLeaf
    \/ LinkDouble \/ LinkInner \/ LinkDoubleLeaf

LEMMA LinkStepIs ==
    ASSUME BlockMapInv, LinkStep
    PROVE  \E l, b, local, blocks : IsLink(l, b, local, blocks)
BY LinkDirectIs, LinkSingleIs, LinkSingleLeafIs, LinkDoubleIs, LinkInnerIs, LinkDoubleLeafIs DEF LinkStep

LEMMA LinkStepSafe ==
    ASSUME BlockMapInv, LinkStep
    PROVE  Unshared' /\ Held' /\ LocalExtends' /\ ~torn' /\ OthersKept
<1>1. PICK l, b, local, blocks : IsLink(l, b, local, blocks)
  BY LinkStepIs
<1> QED
  BY <1>1, LinkSafe

-----------------------------------------------------------------------------
(* Steps that take pointers away or leave them                             *)

\* A step of the running operation after which its file has no new pointer and
\* none to a block that the step freed.
LEMMA OwnSafe ==
    ASSUME TypeOK, Unshared, Held, op.kind # "idle", NEW me, me = op.ino, NEW freed, NEW n, Untouched(blk'),
           bitmap \ freed \subseteq bitmap',
           \A x \in freed : x = 0 \/ \E l \in Locs : PtrOf(op.local, blk, l) = x,
           Cur(me)' = n,
           \A i \in Ino : i # me => Cur(i)' = inode[i],
           \A l \in Locs : PtrOf(n, blk', l) # 0 =>
               PtrOf(n, blk', l) = PtrOf(op.local, blk, l) /\ PtrOf(n, blk', l) \notin freed
    PROVE  Unshared' /\ Held'
<1>1. ASSUME NEW i \in Ino, NEW l \in Locs, Ptr(i, l)' # 0
      PROVE  Ptr(i, l)' = Ptr(i, l) /\ Ptr(i, l) \notin freed
  <2>1. CASE i = op.ino
    <3>1. Ptr(i, l)' = PtrOf(n, blk', l)
      BY <2>1 DEF Ptr
    <3> QED
      BY <1>1, <2>1, <3>1, Mine
  <2>2. CASE i # op.ino
    <3>1. Ptr(i, l)' = PtrOf(inode[i], blk', l) /\ Ptr(i, l) = PtrOf(inode[i], blk, l)
      BY <2>2 DEF Ptr, Cur, Busy
    <3>2. Ptr(i, l)' = Ptr(i, l)
      BY <2>2, <3>1, OthersSame
    <3>3. \A m \in Locs : Ptr(op.ino, m) = PtrOf(op.local, blk, m) /\ op.ino \in Ino
      BY Mine
    <3> QED
      BY <1>1, <2>2, <3>2, <3>3 DEF Unshared
  <2> QED
    BY <2>1, <2>2
<1> QED
  BY <1>1, DropPointers

\* What a step of an operation that is not the last one leaves as it is.
LEMMA StillBusy ==
    ASSUME TypeOK, op.kind # "idle", NEW me, me = op.ino, NEW local,
           op'.kind = op.kind, op'.ino = op.ino, op'.local = local, inode' = inode
    PROVE  Cur(me)' = local /\ \A i \in Ino : i # me => Cur(i)' = inode[i]
BY DEF Cur, Busy

\* What the last one does.
LEMMA NowIdle ==
    ASSUME TypeOK, op.kind # "idle", NEW me, me = op.ino, NEW n, op' = Idle, inode' = [inode EXCEPT ![op.ino] = n]
    PROVE  /\ Cur(me)' = n
           /\ \A i \in Ino : i # me => Cur(i)' = inode[i]
           /\ LocalExtends'
<1>1. op'.kind = "idle"
  BY DEF Idle
<1>2. op.ino \in Ino /\ inode'[me] = n
  BY DEF TypeOK, OpType
<1> QED
  BY <1>1, <1>2 DEF Cur, Busy, LocalExtends, TypeOK

\* Both, with OwnSafe.
LEMMA BusySafe ==
    ASSUME TypeOK, Unshared, Held, op.kind # "idle", NEW freed, NEW n, Untouched(blk'),
           bitmap' = bitmap \ freed,
           \A x \in freed : x = 0 \/ \E l \in Locs : PtrOf(op.local, blk, l) = x,
           op'.kind = op.kind, op'.ino = op.ino, op'.local = n, inode' = inode,
           \A l \in Locs : PtrOf(n, blk', l) # 0 =>
               PtrOf(n, blk', l) = PtrOf(op.local, blk, l) /\ PtrOf(n, blk', l) \notin freed
    PROVE  Unshared' /\ Held'
<1>1. PICK me : me = op.ino
  OBVIOUS
<1>2. Cur(me)' = n /\ \A i \in Ino : i # me => Cur(i)' = inode[i]
  BY <1>1, StillBusy
<1> QED
  BY <1>1, <1>2, OwnSafe

LEMMA IdleSafe ==
    ASSUME TypeOK, Unshared, Held, op.kind # "idle", NEW freed, NEW n, Untouched(blk'),
           bitmap \ freed \subseteq bitmap',
           \A x \in freed : x = 0 \/ \E l \in Locs : PtrOf(op.local, blk, l) = x,
           op' = Idle, inode' = [inode EXCEPT ![op.ino] = n],
           \A l \in Locs : PtrOf(n, blk', l) # 0 =>
               PtrOf(n, blk', l) = PtrOf(op.local, blk, l) /\ PtrOf(n, blk', l) \notin freed
    PROVE  Unshared' /\ Held' /\ LocalExtends'
<1>1. PICK me : me = op.ino
  OBVIOUS
<1>2. /\ Cur(me)' = n /\ \A i \in Ino : i # me => Cur(i)' = inode[i]
      /\ LocalExtends'
  BY <1>1, NowIdle
<1> QED
  BY <1>1, <1>2, OwnSafe

\* The same for a step that frees nothing.
LEMMA BusyKeeps ==
    ASSUME TypeOK, Unshared, Held, op.kind # "idle", NEW n, Untouched(blk'), bitmap' = bitmap,
           op'.kind = op.kind, op'.ino = op.ino, op'.local = n, inode' = inode,
           \A l \in Locs : PtrOf(n, blk', l) \in {0, PtrOf(op.local, blk, l)}
    PROVE  Unshared' /\ Held'
<1>1. PICK freed : freed = {}
  OBVIOUS
<1>2. bitmap' = bitmap \ freed /\ \A x : x \notin freed
  BY <1>1
<1> QED
  BY <1>2, BusySafe

LEMMA IdleKeeps ==
    ASSUME TypeOK, Unshared, Held, op.kind # "idle", NEW n, Untouched(blk'), bitmap \subseteq bitmap',
           op' = Idle, inode' = [inode EXCEPT ![op.ino] = n],
           \A l \in Locs : PtrOf(n, blk', l) \in {0, PtrOf(op.local, blk, l)}
    PROVE  Unshared' /\ Held' /\ LocalExtends'
<1>1. PICK freed : freed = {}
  OBVIOUS
<1>2. bitmap \ freed \subseteq bitmap' /\ \A x : x \notin freed
  BY <1>1
<1> QED
  BY <1>2, IdleSafe

\* Blocks of content are not blocks of pointers: writing into them moves none.
LEMMA ContentOnly ==
    ASSUME TypeOK, Unshared, Held, op.kind # "idle", NEW blocks, NEW n,
           n.direct = op.local.direct, n.single = op.local.single, n.double = op.local.double,
           \A x \in Blocks :
               (\A l \in LeafLocs : PtrOf(op.local, blk, l) # x) => blocks[x] = blk[x]
    PROVE  /\ Untouched(blocks)
           /\ \A l \in Locs : PtrOf(n, blocks, l) = PtrOf(op.local, blk, l)
<1>1. Untouched(blocks)
  BY Mine, LocTypes DEF Untouched, TypeOK
<1>2. ASSUME NEW m \in Locs \ LeafLocs, PtrOf(op.local, blk, m) # 0
      PROVE  blocks[PtrOf(op.local, blk, m)] = blk[PtrOf(op.local, blk, m)]
  <2>1. PtrOf(op.local, blk, m) \in Blocks
    BY <1>2, Mine, PtrType
  <2>2. \A l \in LeafLocs : PtrOf(op.local, blk, l) # PtrOf(op.local, blk, m)
    BY <1>2, Mine, LocTypes DEF Unshared
  <2> QED
    BY <2>1, <2>2
<1>3. /\ n.single # 0 => blocks[n.single] = blk[n.single]
      /\ n.double # 0 => blocks[n.double] = blk[n.double]
      /\ \A o \in Cells : Inner(o) # 0 => blocks[Inner(o)] = blk[Inner(o)]
  <2>1. /\ n.single = PtrOf(op.local, blk, <<"single", 0, 0>>)
        /\ n.double = PtrOf(op.local, blk, <<"double", 0, 0>>)
        /\ \A o \in Cells : Inner(o) = PtrOf(op.local, blk, <<"inner", o, 0>>)
    BY PtrAt DEF Inner
  <2> QED
    BY <1>2, <2>1, LocTypes
<1>4. ASSUME NEW l \in Locs PROVE PtrOf(n, blocks, l) = PtrOf(op.local, blk, l)
  <2>1. /\ op.local.single # 0 => blocks[op.local.single] = blk[op.local.single]
        /\ op.local.double # 0 => blocks[op.local.double] = blk[op.local.double]
    BY <1>3
  <2>2. l[2] \in Cells /\ CellOf(blk, op.local.double, l[2]) # 0 =>
           blocks[CellOf(blk, op.local.double, l[2])] = blk[CellOf(blk, op.local.double, l[2])]
    BY <1>3 DEF Inner
  <2> QED
    BY <2>1, <2>2, PtrSame, LocParts
<1> QED
  BY <1>1, <1>4

LEMMA CopyBlockSafe ==
    ASSUME BlockMapInv, CopyBlock
    PROVE  Unshared' /\ Held' /\ LocalExtends' /\ ~torn' /\ OthersKept
<1>1. Extending /\ TypeOK /\ Unshared /\ Held /\ op.kind # "idle" /\ ~torn
  BY ExtendingFacts DEF CopyBlock
<1>2. PICK l \in LeafLocs :
         \E f : blk' = [blk EXCEPT ![PtrOf(op.local, blk, l)] = f]
  BY DEF CopyBlock
<1>3. \A x \in Blocks : (\A m \in LeafLocs : PtrOf(op.local, blk, m) # x) => blk'[x] = blk[x]
  BY <1>1, <1>2 DEF TypeOK
<1>4. Untouched(blk') /\ \A m \in Locs : PtrOf(op.local, blk', m) = PtrOf(op.local, blk, m)
  BY <1>1, <1>3, ContentOnly
<1>5. /\ op'.kind = op.kind /\ op'.ino = op.ino /\ op'.local = op.local
      /\ inode' = inode /\ torn' = torn /\ bitmap' = bitmap
  BY <1>1 DEF CopyBlock, TypeOK, OpType, History
<1>6. Unshared' /\ Held'
  BY <1>1, <1>4, <1>5, BusyKeeps
<1>7. LocalExtends'
  BY <1>5 DEF BlockMapInv, LocalExtends
<1> QED
  BY <1>1, <1>4, <1>5, <1>6, <1>7 DEF OthersKept

LEMMA FinishWriteSafe ==
    ASSUME BlockMapInv, FinishWrite
    PROVE  Unshared' /\ Held' /\ LocalExtends' /\ ~torn' /\ OthersKept
<1>1. op.kind # "idle"
  BY DEF FinishWrite, Running
<1>2. TypeOK /\ Unshared /\ Held /\ ~torn
  BY <1>1, Busyness
<1> DEFINE n == [op.local EXCEPT !.size = IF op.hi > op.local.size THEN op.hi ELSE op.local.size]
<1>3. inode' = [inode EXCEPT ![op.ino] = n] /\ op' = Idle
  BY DEF FinishWrite
<1>4. n.direct = op.local.direct /\ n.single = op.local.single /\ n.double = op.local.double
  BY <1>1, <1>2, Mine DEF InodeType
<1>5. blk' = blk /\ bitmap' = bitmap /\ torn' = torn
  BY DEF FinishWrite, History
<1> HIDE DEF n
<1>6. Untouched(blk') /\ \A m \in Locs : PtrOf(n, blk', m) = PtrOf(op.local, blk, m)
  BY <1>1, <1>2, <1>4, <1>5, ContentOnly
<1>7. Unshared' /\ Held' /\ LocalExtends'
  BY <1>1, <1>2, <1>3, <1>5, <1>6, IdleKeeps
<1> QED
  BY <1>1, <1>2, <1>3, <1>5, <1>6, <1>7 DEF OthersKept, TypeOK

LEMMA FinishShrinkSafe ==
    ASSUME BlockMapInv, FinishShrink
    PROVE  Unshared' /\ Held' /\ LocalExtends' /\ ~torn' /\ OthersKept
<1>1. op.kind # "idle"
  BY DEF FinishShrink, Running
<1>2. TypeOK /\ Unshared /\ Held /\ ~torn
  BY <1>1, Busyness
<1> DEFINE n == [op.local EXCEPT !.size = op.lo]
<1>3. inode' = [inode EXCEPT ![op.ino] = n] /\ op' = Idle
  BY DEF FinishShrink
<1>4. n.direct = op.local.direct /\ n.single = op.local.single /\ n.double = op.local.double
  BY <1>1, <1>2, Mine DEF InodeType
<1>5. bitmap' = bitmap /\ torn' = torn
  BY DEF FinishShrink, History
<1>6. ASSUME NEW x \in Blocks, \A l \in LeafLocs : PtrOf(op.local, blk, l) # x
      PROVE  blk'[x] = blk[x]
  <2>1. blk'[x] = [k \in Cells |-> blk[x][k]]
    BY <1>6 DEF FinishShrink
  <2>2. blk[x] \in [Cells -> Nat]
    BY <1>2 DEF TypeOK
  <2> QED
    BY <2>1, <2>2
<1> HIDE DEF n
<1>7. Untouched(blk') /\ \A m \in Locs : PtrOf(n, blk', m) = PtrOf(op.local, blk, m)
  BY <1>1, <1>2, <1>4, <1>6, ContentOnly
<1>8. Unshared' /\ Held' /\ LocalExtends'
  BY <1>1, <1>2, <1>3, <1>5, <1>7, IdleKeeps
<1> QED
  BY <1>1, <1>2, <1>3, <1>5, <1>7, <1>8 DEF OthersKept, TypeOK

LEMMA FinishUnlinkSafe ==
    ASSUME BlockMapInv, FinishUnlink
    PROVE  Unshared' /\ Held' /\ LocalExtends' /\ ~torn' /\ OthersKept
<1>1. op.kind # "idle"
  BY DEF FinishUnlink, Running
<1>2. TypeOK /\ Unshared /\ Held /\ ~torn
  BY <1>1, Busyness
<1>3. inode' = [inode EXCEPT ![op.ino] = DefaultInode] /\ op' = Idle
      /\ blk' = blk /\ bitmap' = bitmap /\ torn' = torn
  BY DEF FinishUnlink
<1>4. Untouched(blk')
  BY <1>3 DEF Untouched
<1>5. \A l \in Locs : PtrOf(DefaultInode, blk', l) = 0
  BY PtrOfEmpty DEF DefaultInode
<1>6. Unshared' /\ Held' /\ LocalExtends'
  BY <1>1, <1>2, <1>3, <1>4, <1>5, IdleKeeps
<1> QED
  BY <1>1, <1>2, <1>3, <1>4, <1>6 DEF OthersKept, TypeOK

LEMMA RemoveNothingSafe ==
    ASSUME BlockMapInv, RemoveNothing
    PROVE  Unshared' /\ Held' /\ LocalExtends' /\ ~torn' /\ OthersKept
<1>1. op.kind # "idle"
  BY DEF RemoveNothing, Removing, Running
<1>2. TypeOK /\ Unshared /\ Held /\ ~torn
  BY <1>1, Busyness
<1>3. /\ op'.kind = op.kind /\ op'.ino = op.ino /\ op'.local = op.local
      /\ inode' = inode /\ torn' = torn /\ bitmap' = bitmap /\ blk' = blk
  BY <1>2 DEF RemoveNothing, TypeOK, OpType, History
<1>4. Untouched(blk')
  BY <1>3 DEF Untouched
<1>5. Unshared' /\ Held'
  BY <1>1, <1>2, <1>3, <1>4, BusyKeeps
<1>6. LocalExtends'
  BY <1>3 DEF BlockMapInv, LocalExtends
<1> QED
  BY <1>2, <1>3, <1>4, <1>5, <1>6 DEF OthersKept

\* An operation that extends a file gives up, and may have lost the block it was to get.
GivesUp(lost) ==
    /\ op' = Idle /\ UNCHANGED <<blk, inode, torn>>
    /\ bitmap' = bitmap \cup lost
    /\ spoiled' = IF op.linked \/ op.copied THEN spoiled \cup {op.ino} ELSE spoiled
    /\ leaky' = (leaky \/ op.linked \/ lost # {})

\* Each of its failures is one of these.
LEMMA GivingUp ==
    ASSUME NoSpace \/ BadBlock \/ ReadFailsExtending \/ AllocationFails
    PROVE  op.kind \in {"write", "grow"} /\ \E lost \in SUBSET Blocks : GivesUp(lost)
<1>1. op.kind \in {"write", "grow"}
  BY DEF NoSpace, BadBlock, ReadFailsExtending, AllocationFails, Extending, Running
<1>2. CASE GiveUp
  <2>1. PICK lost : lost = {}
    OBVIOUS
  <2>2. leaky' = (leaky \/ op.linked \/ lost # {})
    BY <1>2, <2>1, Zenon DEF GiveUp
  <2>3. bitmap' = bitmap \cup lost
    BY <1>2, <2>1 DEF GiveUp
  <2>4. GivesUp(lost)
    BY <1>2, <2>2, <2>3, Zenon DEF GiveUp, GivesUp
  <2> QED
    BY <1>1, <2>1, <2>4
<1>3. CASE AllocationFails
  <2>1. PICK b \in Blocks : bitmap' = bitmap \cup {b}
    BY <1>3 DEF AllocationFails, LoseBlock, Take
  <2>2. PICK lost : lost = {b}
    OBVIOUS
  <2>3. lost # {} /\ lost \in SUBSET Blocks /\ bitmap' = bitmap \cup lost
    BY <2>1, <2>2
  <2>4. leaky' = (leaky \/ op.linked \/ lost # {})
    BY <1>3, <2>3, Zenon DEF AllocationFails, LoseBlock
  <2>5. GivesUp(lost)
    BY <1>3, <2>3, <2>4, Zenon DEF AllocationFails, LoseBlock, GivesUp
  <2> QED
    BY <1>1, <2>3, <2>5
<1> QED
  BY <1>1, <1>2, <1>3 DEF NoSpace, BadBlock, ReadFailsExtending

\* An operation that gives up: the inode in the table has no pointer that the
\* local copy lacks.
LEMMA GiveUpSafe ==
    ASSUME BlockMapInv, op.kind \in {"write", "grow"}, NEW lost, GivesUp(lost)
    PROVE  Unshared' /\ Held' /\ LocalExtends' /\ ~torn' /\ OthersKept
<1>1. TypeOK /\ Unshared /\ Held /\ ~torn /\ op.kind # "idle" /\ LocalExtends
  BY Busyness DEF BlockMapInv
<1> DEFINE n == inode[op.ino]
<1>2. op.ino \in Ino /\ n \in InodeType /\ inode \in [Ino -> InodeType]
  BY <1>1 DEF TypeOK, OpType
<1>3. inode' = [inode EXCEPT ![op.ino] = n] /\ op' = Idle
      /\ blk' = blk /\ bitmap \subseteq bitmap' /\ torn' = torn
  BY <1>2 DEF GivesUp
<1>4. Untouched(blk')
  BY <1>3 DEF Untouched
<1>5. /\ \A k \in Direct : n.direct[k] \in {0, op.local.direct[k]}
      /\ n.single \in {0, op.local.single} /\ n.double \in {0, op.local.double}
  BY <1>1 DEF LocalExtends
<1>6. \A k : CellOf(blk, 0, k) = 0
  BY DEF CellOf
<1> HIDE DEF n
<1>7. ASSUME NEW l \in Locs PROVE PtrOf(n, blk, l) \in {0, PtrOf(op.local, blk, l)}
  <2>1. CASE l[1] = "direct"
    BY <1>5, <2>1, PtrBy, LocParts
  <2>2. CASE l[1] \in {"single", "leaf1"}
    BY <1>5, <1>6, <2>2, PtrBy
  <2>3. CASE l[1] \in {"double", "inner", "leaf2"}
    BY <1>5, <1>6, <2>3, PtrBy
  <2> QED
    BY <2>1, <2>2, <2>3, LocParts
<1>8. Unshared' /\ Held' /\ LocalExtends'
  BY <1>1, <1>3, <1>4, <1>7, IdleKeeps
<1> QED
  BY <1>1, <1>2, <1>3, <1>4, <1>8 DEF OthersKept

-----------------------------------------------------------------------------
(* remove_mapped_block                                                     *)

LEMMA RemovingFacts ==
    ASSUME BlockMapInv, Removing
    PROVE  /\ TypeOK /\ Unshared /\ Held /\ op.kind # "idle" /\ ~torn
           /\ op.kind \notin {"write", "grow"}
           /\ op.local \in InodeType /\ blk \in [Blocks -> [Cells -> Nat]]
           /\ \A b : CountWithout(b) \in 0..CountMod-1
           /\ bitmap \subseteq Blocks /\ Blocks \subseteq Nat /\ 0 \notin Blocks
           /\ Untouched(blk) /\ ContentKept(blk)
<1>1. op.kind # "idle" /\ op.kind \notin {"write", "grow"}
  BY DEF Removing, Running
<1>2. TypeOK /\ Unshared /\ Held /\ ~torn
  BY <1>1, Busyness
<1>3. op.local \in InodeType /\ blk \in [Blocks -> [Cells -> Nat]]
  BY <1>2 DEF TypeOK, OpType
<1>4. \A b : CountWithout(b) \in 0..CountMod-1
  BY <1>3, CountType DEF InodeType, CountWithout
<1> QED
  BY <1>1, <1>2, <1>3, <1>4, ConstantsType DEF Untouched, ContentKept, TypeOK

\* Of the pointer blocks only those are written that are kept.
WritesKept(gone, blocks) ==
    \A x \in Blocks :
        (\A h \in (Locs \ LeafLocs) \ gone : PtrOf(op.local, blk, h) # x) => blocks[x] = blk[x]

\* Each removal is of this kind: it unmaps logical block op.index, at l, and the pointers at
\* gone with it, which are that one and those to pointer blocks that become empty; a
\* pointer block that stays has a pointer left.
IsUnmap(gone, l, freed, local, blocks) ==
    /\ WritesKept(gone, blocks)
    /\ Removing /\ l \in LeafLocs /\ IndexOf(l) = op.index
    /\ l \in gone /\ gone \subseteq Locs /\ \A m \in gone : m \in LeafLocs => m = l
    /\ freed = {PtrOf(op.local, blk, m) : m \in gone}
    /\ \A m \in Locs : PtrOf(local, blocks, m) = IF m \in gone THEN 0 ELSE PtrOf(op.local, blk, m)
    /\ \A h \in (Locs \ LeafLocs) \ gone : PtrOf(op.local, blk, h) # 0 =>
          \/ \A c \in gone : Holder(c) # h
          \/ \E c \in Locs \ gone : Holder(c) = h /\ PtrOf(op.local, blk, c) # 0
    /\ local.mode = op.local.mode /\ local.size = op.local.size
    /\ local.block_count = CountWithout(PtrOf(op.local, blk, l))
    /\ Untouched(blocks) /\ ContentKept(blocks) /\ Unmap(freed, local, blocks)

\* Two locations of the file under the operation never hold the same block.
LEMMA OwnDistinct ==
    ASSUME BlockMapInv, Removing, NEW l \in Locs, NEW m \in Locs,
           PtrOf(op.local, blk, l) # 0, PtrOf(op.local, blk, l) = PtrOf(op.local, blk, m)
    PROVE  l = m
BY RemovingFacts, Mine DEF Unshared

LEMMA UnmapSafe ==
    ASSUME BlockMapInv, NEW gone, NEW l, NEW freed, NEW local, NEW blocks,
           IsUnmap(gone, l, freed, local, blocks)
    PROVE  Unshared' /\ Held' /\ LocalExtends' /\ ~torn' /\ OthersKept
<1>0. Removing /\ Untouched(blocks) /\ Unmap(freed, local, blocks)
  BY DEF IsUnmap
<1>1. /\ TypeOK /\ Unshared /\ Held /\ op.kind # "idle" /\ ~torn
      /\ op.kind \notin {"write", "grow"}
  BY <1>0, RemovingFacts
<1>2. /\ op'.kind = op.kind /\ op'.ino = op.ino /\ op'.local = local
      /\ inode' = inode /\ torn' = torn /\ blk' = blocks /\ bitmap' = bitmap \ freed
  BY <1>0, <1>1 DEF Unmap, TypeOK, OpType, History
<1>3. Untouched(blk')
  BY <1>0, <1>2
<1>4. \A x \in freed : x = 0 \/ \E m \in Locs : PtrOf(op.local, blk, m) = x
  BY DEF IsUnmap
<1>5. ASSUME NEW m \in Locs, PtrOf(local, blocks, m) # 0
      PROVE  PtrOf(local, blocks, m) = PtrOf(op.local, blk, m) /\ PtrOf(local, blocks, m) \notin freed
  <2>1. m \notin gone /\ PtrOf(local, blocks, m) = PtrOf(op.local, blk, m)
    BY <1>5 DEF IsUnmap
  <2>2. \A x \in freed : \E g \in gone : g \in Locs /\ x = PtrOf(op.local, blk, g)
    BY DEF IsUnmap
  <2> QED
    BY <1>0, <1>5, <2>1, <2>2, OwnDistinct
<1>6. Unshared' /\ Held'
  BY <1>1, <1>2, <1>3, <1>4, <1>5, BusySafe
<1> QED
  BY <1>1, <1>2, <1>3, <1>6 DEF LocalExtends, OthersKept

\* is_empty of a pointer block after one pointer in it is set to 0.
LEMMA EmptyBut ==
    ASSUME NEW f \in [Cells -> Nat], NEW k \in Cells
    PROVE  /\ IsEmpty([f EXCEPT ![k] = 0]) <=> \A q \in Cells : q # k => f[q] = 0
           /\ IsEmpty(f) <=> \A q \in Cells : f[q] = 0
<1>1. ZeroBlock \in [Cells -> Nat] /\ \A q \in Cells : ZeroBlock[q] = 0
  BY ConstantsType DEF ZeroBlock
<1> DEFINE g == [f EXCEPT ![k] = 0]
<1>2. g \in [Cells -> Nat] /\ \A q \in Cells : g[q] = IF q = k THEN 0 ELSE f[q]
  OBVIOUS
<1> HIDE DEF g
<1>3. g = ZeroBlock <=> \A q \in Cells : g[q] = 0
  BY <1>1, <1>2
<1>4. f = ZeroBlock <=> \A q \in Cells : f[q] = 0
  BY <1>1
<1> QED
  BY <1>2, <1>3, <1>4 DEF IsEmpty, g

LEMMA RemoveDirectIs ==
    ASSUME BlockMapInv, RemoveDirect
    PROVE  \E gone, l, freed, local, blocks : IsUnmap(gone, l, freed, local, blocks)
<1> DEFINE b     == op.local.direct[op.index]
           local == [op.local EXCEPT !.direct[op.index] = 0, !.block_count = CountWithout(b)]
           l     == <<"direct", op.index, 0>>
<1>1. Removing /\ op.index \in Direct /\ Unmap({b}, local, blk)
  BY DEF RemoveDirect
<1>2. l \in LeafLocs /\ l \in Locs /\ PtrOf(op.local, blk, l) = b /\ IndexOf(l) = op.index
  <2>1. l \in LeafLocs
    BY <1>1, LocTypes
  <2>2. l[1] = "direct" /\ l[2] = op.index
    OBVIOUS
  <2>3. PtrOf(op.local, blk, l) = b /\ IndexOf(l) = op.index
    <3> HIDE DEF l
    <3> QED
      BY <2>2, PtrBy DEF IndexOf
  <2> QED
    BY <2>1, <2>3, LocTypes
<1>3. /\ local.single = op.local.single /\ local.double = op.local.double
      /\ \A k \in Direct : local.direct[k] = IF k = op.index THEN 0 ELSE op.local.direct[k]
      /\ local.mode = op.local.mode /\ local.size = op.local.size
      /\ local.block_count = CountWithout(b)
  BY <1>1, RemovingFacts DEF InodeType
<1> HIDE DEF b, local
<1>4. ASSUME NEW m \in Locs
      PROVE  PtrOf(local, blk, m) = IF m = l THEN 0 ELSE PtrOf(op.local, blk, m)
  <2>1. CASE m[1] = "direct"
    <3>1. PICK k \in Direct : m = <<"direct", k, 0>>
      BY <2>1, LocCases
    <3>2. m = l <=> k = op.index
      BY <3>1
    <3>3. PtrOf(local, blk, m) = local.direct[k] /\ PtrOf(op.local, blk, m) = op.local.direct[k]
      <4>1. m[1] = "direct" /\ m[2] = k
        BY <3>1
      <4> QED
        BY <4>1, PtrBy
    <3> QED
      BY <1>3, <3>2, <3>3
  <2>2. CASE m[1] # "direct"
    <3>1. PtrOf(local, blk, m) = PtrOf(op.local, blk, m)
      BY <1>3, <2>2, PtrSame, LocParts
    <3> QED
      BY <2>2, <3>1
  <2> QED
    BY <2>1, <2>2
<1>5. ASSUME NEW h \in Locs \ LeafLocs PROVE Holder(l) # h
  <2>1. Holder(l)[1] = "inode"
    BY DEF Holder
  <2>2. h[1] # "inode"
    BY LocParts
  <2> QED
    BY <2>1, <2>2
<1> HIDE DEF l
<1>6. {b} = {PtrOf(op.local, blk, m) : m \in {l}}
  BY <1>2
<1>7. IsUnmap({l}, l, {b}, local, blk)
  BY <1>1, <1>2, <1>3, <1>4, <1>5, <1>6, RemovingFacts DEF IsUnmap, WritesKept
<1> QED
  BY <1>7

LEMMA RemoveSingleLeafIs ==
    ASSUME BlockMapInv, RemoveSingleLeaf
    PROVE  \E gone, l, freed, local, blocks : IsUnmap(gone, l, freed, local, blocks)
<1>1. Removing /\ op.local.single # 0
  BY DEF RemoveSingleLeaf
<1>2. PICK k \in Cells : op.index = NDirect + k /\ UnmapSingleLeaf(k)
  BY DEF RemoveSingleLeaf
<1> DEFINE root     == op.local.single
           b        == blk[root][k]
           pointers == [blk[root] EXCEPT ![k] = 0]
           empty    == IsEmpty(pointers)
           freed    == {b} \cup (IF empty THEN {root} ELSE {})
           local    == [op.local EXCEPT !.single = IF empty THEN 0 ELSE op.local.single,
                                        !.block_count = CountWithout(b)]
           blocks   == IF empty THEN blk ELSE [blk EXCEPT ![root] = pointers]
           S        == <<"single", 0, 0>>
           l        == <<"leaf1", k, 0>>
           gone     == {l} \cup (IF empty THEN {S} ELSE {})
<1>3. Unmap(freed, local, blocks)
  BY <1>2 DEF UnmapSingleLeaf
<1>4. /\ S \in Locs /\ S \notin LeafLocs /\ l \in LeafLocs /\ l \in Locs /\ S # l
      /\ PtrOf(op.local, blk, S) = root /\ PtrOf(op.local, blk, l) = b
      /\ IndexOf(l) = op.index /\ Holder(l) = S /\ Holder(S)[1] = "inode"
  <2>1. /\ S \in Locs /\ S \notin LeafLocs /\ l \in LeafLocs /\ l \in Locs /\ S # l
        /\ Holder(l) = S /\ Holder(S)[1] = "inode"
    BY LocTypes DEF Holder
  <2>2. CellOf(blk, root, k) = b
    BY <1>1 DEF CellOf
  <2>3. S[1] = "single" /\ l[1] = "leaf1" /\ l[2] = k
    OBVIOUS
  <2> HIDE DEF S, l, b
  <2>4. PtrOf(op.local, blk, S) = root
    BY <2>3, PtrBy
  <2>5. PtrOf(op.local, blk, l) = b
    BY <2>2, <2>3, PtrBy
  <2>6. IndexOf(l) = op.index
    BY <1>2, <2>3 DEF IndexOf
  <2> QED
    BY <2>1, <2>4, <2>5, <2>6
<1>5. /\ root \in Blocks /\ root # op.local.double
      /\ \A o \in Cells : Inner(o) # 0 => Inner(o) # root /\ Inner(o) \in Blocks
      /\ op.local.double # 0 => op.local.double \in Blocks
  BY <1>1, RemovingFacts, MyHolders
<1>6. /\ local.single = IF empty THEN 0 ELSE root
      /\ local.double = op.local.double /\ local.direct = op.local.direct
      /\ local.mode = op.local.mode /\ local.size = op.local.size
      /\ local.block_count = CountWithout(b)
  BY <1>1, RemovingFacts DEF InodeType
<1>7. \A x \in Blocks : x # root => blocks[x] = blk[x]
  BY <1>1, RemovingFacts
<1>8. ~empty => \A q \in Cells : blocks[root][q] = IF q = k THEN 0 ELSE blk[root][q]
  BY <1>1, <1>5, RemovingFacts
<1>9. empty <=> \A q \in Cells : q # k => blk[root][q] = 0
  <2>1. blk[root] \in [Cells -> Nat]
    BY <1>1, <1>5, RemovingFacts
  <2> QED
    BY <2>1, EmptyBut
<1> HIDE DEF b, pointers, empty, local, blocks
<1>10. ASSUME NEW m \in Locs
       PROVE  PtrOf(local, blocks, m) = IF m \in gone THEN 0 ELSE PtrOf(op.local, blk, m)
  <2>1. CASE m[1] = "single"
    <3>1. m = S /\ m # l
      BY <2>1, LocCases
    <3>2. PtrOf(local, blocks, m) = local.single /\ PtrOf(op.local, blk, m) = root
      BY <2>1, PtrBy
    <3> QED
      BY <1>6, <3>1, <3>2
  <2>2. CASE m[1] = "leaf1"
    <3>1. PICK q \in Cells : m = <<"leaf1", q, 0>>
      BY <2>2, LocCases
    <3>2. (m = l <=> q = k) /\ m # S
      BY <3>1
    <3>3. PtrOf(local, blocks, m) = CellOf(blocks, local.single, q)
          /\ PtrOf(op.local, blk, m) = blk[root][q]
      <4>1. m[1] = "leaf1" /\ m[2] = q
        BY <3>1
      <4> QED
        BY <1>1, <4>1, PtrBy DEF CellOf
    <3>4. CASE empty
      BY <1>6, <1>9, <3>2, <3>3, <3>4 DEF CellOf
    <3>5. CASE ~empty
      BY <1>1, <1>6, <1>8, <3>2, <3>3, <3>5 DEF CellOf
    <3> QED
      BY <3>4, <3>5
  <2>3. CASE m[1] \notin {"single", "leaf1"}
    <3>1. PtrOf(local, blocks, m) = PtrOf(op.local, blk, m)
      <4>1. op.local.double # 0 => blocks[op.local.double] = blk[op.local.double]
        BY <1>5, <1>7
      <4>2. m[2] \in Cells /\ CellOf(blk, op.local.double, m[2]) # 0 =>
               blocks[CellOf(blk, op.local.double, m[2])] = blk[CellOf(blk, op.local.double, m[2])]
        BY <1>5, <1>7 DEF Inner
      <4> QED
        BY <1>6, <2>3, <4>1, <4>2, PtrSame, LocParts
    <3>2. m # l /\ m # S
      BY <2>3
    <3> QED
      BY <3>1, <3>2
  <2> QED
    BY <2>1, <2>2, <2>3
<1>11. Untouched(blocks) /\ ContentKept(blocks)
  <2>1. \A x \in Blocks : (\A h \in Locs \ LeafLocs : PtrOf(op.local, blk, h) # x) => blocks[x] = blk[x]
    BY <1>4, <1>7
  <2> QED
    BY <1>1, <2>1, RemovingFacts, PointersOnly
<1>12. ASSUME NEW h \in Locs \ LeafLocs, h \notin gone, PtrOf(op.local, blk, h) # 0
       PROVE  \/ \A c \in gone : Holder(c) # h
              \/ \E c \in Locs \ gone : Holder(c) = h /\ PtrOf(op.local, blk, c) # 0
  <2>1. CASE h = S
    <3>1. PICK q \in Cells : q # k /\ blk[root][q] # 0
      BY <1>9, <1>12, <2>1
    <3> DEFINE c == <<"leaf1", q, 0>>
    <3>2. c \in Locs /\ c # l /\ c # S /\ Holder(c) = S
      BY <3>1, LocTypes DEF Holder
    <3>3. PtrOf(op.local, blk, c) # 0
      <4>1. c[1] = "leaf1" /\ c[2] = q
        OBVIOUS
      <4> HIDE DEF c
      <4> QED
        BY <1>1, <3>1, <4>1, PtrBy DEF CellOf
    <3> HIDE DEF c
    <3> QED
      BY <2>1, <3>2, <3>3
  <2>2. CASE h # S
    <3>1. h[1] # "inode"
      BY LocParts
    <3> HIDE DEF l, S
    <3> QED
      BY <1>4, <2>2, <3>1
  <2> QED
    BY <2>1, <2>2
<1>13. WritesKept(gone, blocks)
  <2>1. CASE empty
    <3>1. blocks = blk
      BY <2>1 DEF blocks
    <3> QED
      BY <3>1 DEF WritesKept
  <2>2. CASE ~empty
    <3>1. S \notin gone
      BY <1>4, <2>2
    <3> QED
      BY <1>4, <1>7, <3>1 DEF WritesKept
  <2> QED
    BY <2>1, <2>2
<1> HIDE DEF l, S, root
<1>14. freed = {PtrOf(op.local, blk, m) : m \in gone} /\ l \in gone /\ gone \subseteq Locs
       /\ \A m \in gone : m \in LeafLocs => m = l
  BY <1>4
<1> HIDE DEF freed, gone
<1>15. IsUnmap(gone, l, freed, local, blocks)
  BY <1>1, <1>3, <1>4, <1>6, <1>10, <1>11, <1>12, <1>14, <1>13 DEF IsUnmap
<1> QED
  BY <1>15

LEMMA RemoveDoubleLeafIs ==
    ASSUME BlockMapInv, RemoveDoubleLeaf
    PROVE  \E gone, l, freed, local, blocks : IsUnmap(gone, l, freed, local, blocks)
<1>1. Removing /\ op.local.double # 0
  BY DEF RemoveDoubleLeaf
<1>2. PICK o \in Cells, k \in Cells : /\ op.index = NDirect + P + o * P + k
                                      /\ blk[op.local.double][o] # 0 /\ UnmapDoubleLeaf(o, k)
  BY DEF RemoveDoubleLeaf
<1> DEFINE root       == op.local.double
           mid        == blk[root][o]
           b          == blk[mid][k]
           inner      == [blk[mid] EXCEPT ![k] = 0]
           innerEmpty == IsEmpty(inner)
           outer      == IF innerEmpty THEN [blk[root] EXCEPT ![o] = 0] ELSE blk[root]
           outerEmpty == IsEmpty(outer)
           freed      == {b} \cup (IF innerEmpty THEN {mid} ELSE {})
                             \cup (IF outerEmpty THEN {root} ELSE {})
           local      == [op.local EXCEPT !.double = IF outerEmpty THEN 0 ELSE op.local.double,
                                          !.block_count = CountWithout(b)]
           blocks     == [blk EXCEPT ![mid]  = IF innerEmpty THEN @ ELSE inner,
                                     ![root] = IF outerEmpty THEN @ ELSE outer]
           D          == <<"double", 0, 0>>
           i          == <<"inner", o, 0>>
           l          == <<"leaf2", o, k>>
           gone       == {l} \cup (IF innerEmpty THEN {i} ELSE {})
                             \cup (IF outerEmpty THEN {D} ELSE {})
<1>3. Unmap(freed, local, blocks)
  BY <1>2 DEF UnmapDoubleLeaf
<1>4. mid = Inner(o) /\ \A q \in Cells : Inner(q) = blk[root][q]
  BY <1>1 DEF Inner, CellOf
<1>5. /\ D \in Locs /\ D \notin LeafLocs /\ i \in Locs /\ i \notin LeafLocs
      /\ l \in LeafLocs /\ l \in Locs /\ D # i /\ D # l /\ i # l
      /\ PtrOf(op.local, blk, D) = root /\ PtrOf(op.local, blk, i) = mid
      /\ PtrOf(op.local, blk, l) = b /\ IndexOf(l) = op.index
      /\ Holder(l) = i /\ Holder(i) = D /\ Holder(D)[1] = "inode"
  <2>1. /\ D \in Locs /\ D \notin LeafLocs /\ i \in Locs /\ i \notin LeafLocs
        /\ l \in LeafLocs /\ l \in Locs /\ D # i /\ D # l /\ i # l
    BY LocTypes
  <2>2. CellOf(blk, root, o) = mid /\ CellOf(blk, mid, k) = b
    BY <1>1, <1>2 DEF CellOf
  <2>3. /\ D[1] = "double" /\ i[1] = "inner" /\ i[2] = o
        /\ l[1] = "leaf2" /\ l[2] = o /\ l[3] = k
    OBVIOUS
  <2>4. Holder(l) = i /\ Holder(i) = D /\ Holder(D)[1] = "inode"
    BY DEF Holder
  <2> HIDE DEF D, i, l, b, mid
  <2>5. PtrOf(op.local, blk, D) = root
    BY <2>3, PtrBy
  <2>6. PtrOf(op.local, blk, i) = mid
    BY <2>2, <2>3, PtrBy
  <2>7. PtrOf(op.local, blk, l) = b
    BY <2>2, <2>3, PtrBy
  <2>8. IndexOf(l) = op.index
    BY <1>2, <2>3 DEF IndexOf
  <2> QED
    BY <2>1, <2>4, <2>5, <2>6, <2>7, <2>8
<1>6. /\ root \in Blocks /\ mid \in Blocks /\ mid # root /\ mid # 0
      /\ op.local.single # 0 => /\ op.local.single \in Blocks
                                /\ op.local.single # root /\ op.local.single # mid
      /\ \A q \in Cells : Inner(q) # 0 =>
            /\ Inner(q) \in Blocks /\ Inner(q) # root
            /\ q # o => Inner(q) # mid
  BY <1>1, <1>2, <1>4, RemovingFacts, MyHolders
<1>7. /\ local.double = IF outerEmpty THEN 0 ELSE root
      /\ local.single = op.local.single /\ local.direct = op.local.direct
      /\ local.mode = op.local.mode /\ local.size = op.local.size
      /\ local.block_count = CountWithout(b)
  BY <1>1, RemovingFacts DEF InodeType
<1>8. \A x \in Blocks : x # root /\ x # mid => blocks[x] = blk[x]
  BY <1>1, <1>6, RemovingFacts
<1>9. ~outerEmpty =>
         \A q \in Cells : blocks[root][q] = IF innerEmpty /\ q = o THEN 0 ELSE blk[root][q]
  <2>1. ~outerEmpty => blocks[root] = outer
    BY <1>1, <1>6, RemovingFacts
  <2>2. \A q \in Cells : outer[q] = IF innerEmpty /\ q = o THEN 0 ELSE blk[root][q]
    BY <1>1, <1>6, RemovingFacts
  <2> HIDE DEF blocks, outer, outerEmpty, innerEmpty
  <2> QED
    BY <2>1, <2>2
<1>10. ~innerEmpty => \A r \in Cells : blocks[mid][r] = IF r = k THEN 0 ELSE blk[mid][r]
  <2>1. ~innerEmpty => blocks[mid] = inner
    BY <1>1, <1>6, RemovingFacts
  <2>2. \A r \in Cells : inner[r] = IF r = k THEN 0 ELSE blk[mid][r]
    BY <1>1, <1>6, RemovingFacts
  <2> QED
    BY <2>1, <2>2
<1>11. innerEmpty <=> \A r \in Cells : r # k => blk[mid][r] = 0
  <2>1. blk[mid] \in [Cells -> Nat]
    BY <1>1, <1>6, RemovingFacts
  <2> HIDE DEF mid
  <2> QED
    BY <2>1, EmptyBut
<1>12. outerEmpty <=> innerEmpty /\ \A q \in Cells : q # o => Inner(q) = 0
  <2>1. blk[root] \in [Cells -> Nat]
    BY <1>1, <1>6, RemovingFacts
  <2>2. CASE innerEmpty
    <3>1. outerEmpty <=> \A q \in Cells : q # o => blk[root][q] = 0
      BY <2>1, <2>2, EmptyBut
    <3> HIDE DEF innerEmpty, outerEmpty
    <3> QED
      BY <1>4, <2>2, <3>1
  <2>3. CASE ~innerEmpty
    <3>1. outerEmpty <=> \A q \in Cells : blk[root][q] = 0
      BY <2>1, <2>3, EmptyBut
    <3> HIDE DEF innerEmpty, outerEmpty
    <3> QED
      BY <1>2, <2>3, <3>1
  <2> QED
    BY <2>2, <2>3
<1>13. (outerEmpty => blocks[root] = blk[root]) /\ (innerEmpty => blocks[mid] = blk[mid])
  BY <1>1, <1>6, RemovingFacts
<1> HIDE DEF b, inner, innerEmpty, outer, outerEmpty, local, blocks, mid, root
<1>14. \A x : CellOf(blocks, 0, x) = 0 /\ CellOf(blk, 0, x) = 0
  BY DEF CellOf
<1>15. \A q \in Cells : CellOf(blocks, local.double, q) =
          IF outerEmpty \/ (innerEmpty /\ q = o) THEN 0 ELSE Inner(q)
  <2>1. root # 0
    BY <1>1 DEF root
  <2> QED
    BY <1>4, <1>7, <1>9, <1>14, <2>1 DEF CellOf
<1>16. ASSUME NEW m \in Locs
       PROVE  PtrOf(local, blocks, m) = IF m \in gone THEN 0 ELSE PtrOf(op.local, blk, m)
  <2>1. CASE m[1] = "double"
    <3>1. m = D /\ m # l /\ m # i
      BY <2>1, LocCases
    <3>2. PtrOf(local, blocks, m) = local.double /\ PtrOf(op.local, blk, m) = root
      BY <2>1, PtrBy DEF root
    <3> QED
      BY <1>7, <3>1, <3>2
  <2>2. CASE m[1] = "inner"
    <3>1. PICK q \in Cells : m = <<"inner", q, 0>>
      BY <2>2, LocCases
    <3>2. (m = i <=> q = o) /\ m # l /\ m # D
      BY <3>1
    <3>3. /\ PtrOf(local, blocks, m) = CellOf(blocks, local.double, q)
          /\ PtrOf(op.local, blk, m) = Inner(q)
      <4>1. m[1] = "inner" /\ m[2] = q
        BY <3>1
      <4> QED
        BY <4>1, PtrBy DEF Inner
    <3> QED
      BY <1>12, <1>15, <3>2, <3>3
  <2>3. CASE m[1] = "leaf2"
    <3>1. PICK q \in Cells, r \in Cells : m = <<"leaf2", q, r>>
      BY <2>3, LocCases
    <3>2. (m = l <=> q = o /\ r = k) /\ m # i /\ m # D
      BY <3>1
    <3>3. /\ PtrOf(local, blocks, m) = CellOf(blocks, CellOf(blocks, local.double, q), r)
          /\ PtrOf(op.local, blk, m) = CellOf(blk, Inner(q), r)
      <4>1. m[1] = "leaf2" /\ m[2] = q /\ m[3] = r
        BY <3>1
      <4> QED
        BY <4>1, PtrBy DEF Inner
    <3>4. (m \in gone) <=> (q = o /\ r = k)
      BY <3>2
    <3>5. CASE q = o
      <4>1. CASE innerEmpty
        <5>1. PtrOf(local, blocks, m) = 0
          BY <1>14, <1>15, <3>3, <3>5, <4>1
        <5>2. r # k => PtrOf(op.local, blk, m) = 0
          BY <1>4, <1>11, <3>3, <3>5, <4>1 DEF CellOf
        <5> QED
          BY <3>4, <3>5, <5>1, <5>2
      <4>2. CASE ~innerEmpty
        <5>1. CellOf(blocks, local.double, q) = mid /\ Inner(q) = mid
          BY <1>4, <1>12, <1>15, <3>5, <4>2
        <5>2. PtrOf(local, blocks, m) = blocks[mid][r] /\ PtrOf(op.local, blk, m) = blk[mid][r]
          BY <1>6, <3>3, <5>1 DEF CellOf
        <5> QED
          BY <1>10, <3>4, <3>5, <4>2, <5>2
      <4> QED
        BY <4>1, <4>2
    <3>6. CASE q # o
      <4>1. CellOf(blocks, local.double, q) = Inner(q)
        BY <1>12, <1>15, <3>6
      <4>2. Inner(q) # 0 => blocks[Inner(q)] = blk[Inner(q)]
        BY <1>6, <1>8, <3>6
      <4>3. PtrOf(local, blocks, m) = PtrOf(op.local, blk, m)
        BY <3>3, <4>1, <4>2 DEF CellOf
      <4> QED
        BY <3>4, <3>6, <4>3
    <3> QED
      BY <3>5, <3>6
  <2>4. CASE m[1] \notin {"double", "inner", "leaf2"}
    <3>1. op.local.single # 0 => blocks[op.local.single] = blk[op.local.single]
      BY <1>6, <1>8
    <3>2. PtrOf(local, blocks, m) = PtrOf(op.local, blk, m)
      BY <1>7, <2>4, <3>1, PtrSame, LocParts
    <3>3. m # l /\ m # i /\ m # D
      BY <2>4
    <3> QED
      BY <3>2, <3>3
  <2> QED
    BY <2>1, <2>2, <2>3, <2>4
<1>17. Untouched(blocks) /\ ContentKept(blocks)
  <2>1. \A x \in Blocks : (\A h \in Locs \ LeafLocs : PtrOf(op.local, blk, h) # x) => blocks[x] = blk[x]
    BY <1>5, <1>8
  <2> QED
    BY <1>1, <2>1, RemovingFacts, PointersOnly
<1>18. ASSUME NEW h \in Locs \ LeafLocs, h \notin gone, PtrOf(op.local, blk, h) # 0
       PROVE  \/ \A c \in gone : Holder(c) # h
              \/ \E c \in Locs \ gone : Holder(c) = h /\ PtrOf(op.local, blk, c) # 0
  <2>1. CASE h = i
    <3>0. ~innerEmpty
      BY <1>18, <2>1
    <3>1. PICK r \in Cells : r # k /\ blk[mid][r] # 0
      BY <1>11, <3>0
    <3> DEFINE c == <<"leaf2", o, r>>
    <3>2. c \in Locs /\ c # l /\ c # i /\ c # D /\ Holder(c) = i
      BY <3>1, LocTypes DEF Holder
    <3>3. PtrOf(op.local, blk, c) # 0
      <4>1. c[1] = "leaf2" /\ c[2] = o /\ c[3] = r
        OBVIOUS
      <4> HIDE DEF c
      <4>2. PtrOf(op.local, blk, c) = CellOf(blk, mid, r)
        BY <1>4, <4>1, PtrBy DEF Inner
      <4> QED
        BY <1>6, <3>1, <4>2 DEF CellOf
    <3> HIDE DEF c
    <3> QED
      BY <2>1, <3>2, <3>3
  <2>2. CASE h = D /\ innerEmpty
    <3>0. ~outerEmpty
      BY <1>18, <2>2
    <3>1. PICK q \in Cells : q # o /\ Inner(q) # 0
      BY <1>12, <2>2, <3>0
    <3> DEFINE c == <<"inner", q, 0>>
    <3>2. c \in Locs /\ c # l /\ c # i /\ c # D /\ Holder(c) = D
      BY <3>1, LocTypes DEF Holder
    <3>3. PtrOf(op.local, blk, c) # 0
      <4>1. c[1] = "inner" /\ c[2] = q
        OBVIOUS
      <4> HIDE DEF c
      <4> QED
        BY <3>1, <4>1, PtrBy DEF Inner
    <3> HIDE DEF c
    <3> QED
      BY <2>2, <3>2, <3>3
  <2>3. CASE h # i /\ ~(h = D /\ innerEmpty)
    <3>1. h[1] # "inode"
      BY LocParts
    <3> HIDE DEF l, i, D
    <3> QED
      BY <1>5, <1>12, <2>3, <3>1
  <2> QED
    BY <2>1, <2>2, <2>3
<1>19. WritesKept(gone, blocks)
  <2>1. SUFFICES ASSUME NEW x \in Blocks, \A h \in (Locs \ LeafLocs) \ gone : PtrOf(op.local, blk, h) # x
                 PROVE  blocks[x] = blk[x]
    BY DEF WritesKept
  <2>2. CASE x = root
    <3>1. D \in gone
      BY <1>5, <2>1, <2>2
    <3>2. outerEmpty
      BY <1>5, <3>1
    <3> QED
      BY <1>13, <2>2, <3>2
  <2>3. CASE x = mid
    <3>1. i \in gone
      BY <1>5, <2>1, <2>3
    <3>2. innerEmpty
      BY <1>5, <3>1
    <3> QED
      BY <1>13, <2>3, <3>2
  <2> QED
    BY <1>8, <2>2, <2>3
<1> HIDE DEF l, i, D
<1>20. freed = {PtrOf(op.local, blk, m) : m \in gone} /\ l \in gone /\ gone \subseteq Locs
       /\ \A m \in gone : m \in LeafLocs => m = l
  BY <1>5
<1> HIDE DEF freed, gone
<1>21. IsUnmap(gone, l, freed, local, blocks)
  BY <1>1, <1>3, <1>5, <1>7, <1>16, <1>17, <1>18, <1>20, <1>19 DEF IsUnmap
<1> QED
  BY <1>21

UnmapStep == RemoveDirect \/ RemoveSingleLeaf \/ RemoveDoubleLeaf

LEMMA UnmapStepIs ==
    ASSUME BlockMapInv, UnmapStep
    PROVE  \E gone, l, freed, local, blocks : IsUnmap(gone, l, freed, local, blocks)
BY RemoveDirectIs, RemoveSingleLeafIs, RemoveDoubleLeafIs DEF UnmapStep

LEMMA UnmapStepSafe ==
    ASSUME BlockMapInv, UnmapStep
    PROVE  Unshared' /\ Held' /\ LocalExtends' /\ ~torn' /\ OthersKept
<1>1. PICK gone, l, freed, local, blocks : IsUnmap(gone, l, freed, local, blocks)
  BY UnmapStepIs
<1> QED
  BY <1>1, UnmapSafe

\* A removal that is cut short: either the model ends, or the file's
\* pointers were still those of the table.
LEMMA DropRemovalSafe ==
    ASSUME BlockMapInv, ReadFailsRemoving \/ BadTail
    PROVE  (torn' \/ (Unshared' /\ Held')) /\ LocalExtends' /\ op'.kind = "idle" /\ OthersKept
<1>1. op.kind # "idle" /\ DropRemoval
  BY DEF ReadFailsRemoving, BadTail, Running
<1>2. TypeOK /\ Unshared /\ Held /\ ~torn
  BY <1>1, Busyness
<1> DEFINE n == inode[op.ino]
<1>3. op.ino \in Ino /\ op.local \in InodeType /\ n \in InodeType /\ inode \in [Ino -> InodeType]
  BY <1>2 DEF TypeOK, OpType
<1>4. inode' = [inode EXCEPT ![op.ino] = n] /\ op' = Idle /\ blk' = blk /\ bitmap' = bitmap
  BY <1>1, <1>3 DEF DropRemoval
<1>5. op'.kind = "idle" /\ LocalExtends'
  BY <1>4 DEF Idle, LocalExtends
<1>6. ASSUME ~torn' PROVE Unshared' /\ Held'
  <2>1. [op.local EXCEPT !.block_count = 0] = [n EXCEPT !.block_count = 0]
    BY <1>1, <1>6 DEF DropRemoval
  <2>2. n.direct = op.local.direct /\ n.single = op.local.single /\ n.double = op.local.double
    BY <1>3, <2>1 DEF InodeType
  <2> HIDE DEF n
  <2>3. Untouched(blk') /\ \A l \in Locs : PtrOf(n, blk', l) = PtrOf(op.local, blk, l)
    BY <1>1, <1>2, <1>4, <2>2, ContentOnly
  <2> QED
    BY <1>1, <1>2, <1>4, <2>3, IdleKeeps
<1> QED
  BY <1>3, <1>4, <1>5, <1>6 DEF OthersKept, Untouched

-----------------------------------------------------------------------------
(* Steps that begin an operation or are one                                *)

\* A step between operations: every file is as its inode in the table says.
LEMMA AllStored ==
    ASSUME BlockMapInv, op.kind = "idle", ~torn
    PROVE  /\ TypeOK /\ Unshared /\ Held
           /\ \A i \in Ino : Cur(i) = inode[i]
           /\ \A i \in Ino, l \in Locs : Ptr(i, l) = PtrOf(inode[i], blk, l)
BY DEF BlockMapInv, NoSharing, Allocated, Cur, Busy, Ptr

LEMMA StoredSafe ==
    ASSUME BlockMapInv, op.kind = "idle", ~torn, bitmap' = bitmap, blk' = blk,
           \A i \in Ino : Cur(i)' = inode'[i],
           \A i \in Ino, l \in Locs : PtrOf(inode'[i], blk, l) \in {0, PtrOf(inode[i], blk, l)}
    PROVE  Unshared' /\ Held'
<1>1. PICK freed : freed = {}
  OBVIOUS
<1>2. bitmap' = bitmap \ freed /\ \A x : x \notin freed
  BY <1>1
<1>3. \A i \in Ino, l \in Locs : Ptr(i, l)' \in {0, Ptr(i, l)}
  BY AllStored DEF Ptr
<1> QED
  BY <1>2, <1>3, AllStored, DropPointers

LEMMA BeginSafe ==
    ASSUME BlockMapInv, op.kind = "idle", ~torn, NEW i \in Ino, NEW kind, NEW first, NEW lo,
           NEW hi, NEW val, op' = Begin(kind, i, first, lo, hi, val),
           UNCHANGED <<bitmap, blk, inode, History>>
    PROVE  Unshared' /\ Held' /\ LocalExtends' /\ ~torn'
<1>1. op'.ino = i /\ op'.local = inode[i]
  BY DEF Begin
<1>2. bitmap' = bitmap /\ blk' = blk /\ inode' = inode /\ torn' = torn
  BY DEF History
<1>3. \A j \in Ino : Cur(j)' = inode'[j]
  BY <1>1, <1>2 DEF Cur, Busy
<1>4. LocalExtends'
  BY <1>1, <1>2 DEF LocalExtends
<1> QED
  BY <1>2, <1>3, <1>4, StoredSafe

LEMMA CreateSafe ==
    ASSUME BlockMapInv, NEW i \in Ino, Create(i)
    PROVE  Unshared' /\ Held' /\ LocalExtends' /\ ~torn'
<1>1. op.kind = "idle" /\ ~torn /\ op' = op /\ bitmap' = bitmap /\ blk' = blk /\ torn' = torn
  BY DEF Create, History
<1> DEFINE n == [DefaultInode EXCEPT !.mode = "file"]
<1>2. inode' = [inode EXCEPT ![i] = n] /\ inode \in [Ino -> InodeType]
  BY DEF Create, BlockMapInv, TypeOK
<1>3. n.direct = DefaultInode.direct /\ n.single = 0 /\ n.double = 0
  BY DEF DefaultInode
<1> HIDE DEF n
<1>4. \A l \in Locs : PtrOf(n, blk, l) = 0
  BY <1>3, PtrOfEmpty
<1>5. \A j \in Ino, l \in Locs : PtrOf(inode'[j], blk, l) \in {0, PtrOf(inode[j], blk, l)}
  BY <1>2, <1>4
<1>6. \A j \in Ino : Cur(j)' = inode'[j]
  BY <1>1 DEF Cur, Busy
<1>7. LocalExtends'
  BY <1>1 DEF LocalExtends
<1> QED
  BY <1>1, <1>5, <1>6, <1>7, StoredSafe

LEMMA ExtendSafe ==
    ASSUME BlockMapInv, NEW i \in Ino, NEW size, Extend(i, size)
    PROVE  Unshared' /\ Held' /\ LocalExtends' /\ ~torn'
<1>1. op.kind = "idle" /\ ~torn /\ op' = op /\ bitmap' = bitmap /\ blk' = blk /\ torn' = torn
  BY DEF Extend, History
<1> DEFINE n == [inode[i] EXCEPT !.size = size]
<1>2. inode' = [inode EXCEPT ![i] = n] /\ inode \in [Ino -> InodeType]
  BY DEF Extend, BlockMapInv, TypeOK
<1>3. n.direct = inode[i].direct /\ n.single = inode[i].single /\ n.double = inode[i].double
  BY <1>2 DEF InodeType
<1> HIDE DEF n
<1>4. \A l \in Locs : PtrOf(n, blk, l) = PtrOf(inode[i], blk, l)
  BY <1>3, PtrSame
<1>5. \A j \in Ino, l \in Locs : PtrOf(inode'[j], blk, l) \in {0, PtrOf(inode[j], blk, l)}
  BY <1>2, <1>4
<1>6. \A j \in Ino : Cur(j)' = inode'[j]
  BY <1>1 DEF Cur, Busy
<1>7. LocalExtends'
  BY <1>1 DEF LocalExtends
<1> QED
  BY <1>1, <1>5, <1>6, <1>7, StoredSafe

\* A new directory: it has one block, and the other files are as they were.
LEMMA MkdirAdds ==
    ASSUME BlockMapInv, NEW i \in Ino, Mkdir(i)
    PROVE  \E b \in Blocks :
              /\ b \notin bitmap /\ bitmap' = bitmap \cup {b}
              /\ blk' = [blk EXCEPT ![b] = DirBlock]
              /\ inode' = [inode EXCEPT ![i] =
                             [DefaultInode EXCEPT !.mode = "dir", !.size = P, !.block_count = 1,
                                                  !.direct[0] = b]]
              /\ \A m \in Locs : Ptr(i, m)' = IF m = <<"direct", 0, 0>> THEN b ELSE 0
              /\ \A j \in Ino : j # i => \A m \in Locs : Ptr(j, m)' = Ptr(j, m)
<1>1. op.kind = "idle" /\ ~torn /\ op' = op /\ torn' = torn
  BY DEF Mkdir, History
<1>2. /\ TypeOK /\ Unshared /\ Held
      /\ \A j \in Ino : Cur(j) = inode[j]
      /\ \A j \in Ino, m \in Locs : Ptr(j, m) = PtrOf(inode[j], blk, m)
  BY <1>1, AllStored
<1> DEFINE n(b) == [DefaultInode EXCEPT !.mode = "dir", !.size = P, !.block_count = 1,
                                        !.direct[0] = b]
<1>3. PICK b \in Blocks : /\ Take(b)
                          /\ blk' = [blk EXCEPT ![b] = DirBlock]
                          /\ inode' = [inode EXCEPT ![i] = n(b)]
  BY DEF Mkdir
<1>4. b \notin bitmap /\ bitmap' = bitmap \cup {b}
  BY <1>3 DEF Take, FreeBlocks
<1>5. /\ n(b).single = 0 /\ n(b).double = 0
      /\ \A k \in Direct : n(b).direct[k] = IF k = 0 THEN b ELSE 0
  BY ConstantsType DEF DefaultInode
<1> HIDE DEF n
<1> DEFINE l == <<"direct", 0, 0>>
<1>6. l \in Locs
  BY ConstantsType, LocTypes
<1>7. \A m \in Locs : PtrOf(n(b), blk', m) = IF m = l THEN b ELSE 0
  BY <1>5, OneBlock
<1>8. ASSUME NEW j \in Ino, j # i, NEW m \in Locs
      PROVE  PtrOf(inode[j], blk', m) = PtrOf(inode[j], blk, m)
  <2>1. ASSUME NEW h \in Locs, Ptr(j, h) # 0 PROVE blk'[Ptr(j, h)] = blk[Ptr(j, h)]
    BY <1>2, <1>3, <1>4, <2>1 DEF Held, TypeOK
  <2>2. /\ inode[j].single # 0 => blk'[inode[j].single] = blk[inode[j].single]
        /\ inode[j].double # 0 => blk'[inode[j].double] = blk[inode[j].double]
        /\ \A o \in Cells : CellOf(blk, inode[j].double, o) # 0 =>
              blk'[CellOf(blk, inode[j].double, o)] = blk[CellOf(blk, inode[j].double, o)]
    <3>1. /\ inode[j].single = Ptr(j, <<"single", 0, 0>>)
          /\ inode[j].double = Ptr(j, <<"double", 0, 0>>)
          /\ \A o \in Cells : CellOf(blk, inode[j].double, o) = Ptr(j, <<"inner", o, 0>>)
      BY <1>2, Holders
    <3> QED
      BY <2>1, <3>1, LocTypes
  <2> QED
    BY <2>2, PtrSame, LocParts
<1>9. \A j \in Ino, m \in Locs : Ptr(j, m)' = PtrOf(inode'[j], blk', m)
  BY <1>1 DEF Ptr, Cur, Busy
<1>10. \A j \in Ino : inode'[j] = IF j = i THEN n(b) ELSE inode[j]
  BY <1>2, <1>3 DEF TypeOK
<1> HIDE DEF l
<1>11. /\ \A m \in Locs : Ptr(i, m)' = IF m = l THEN b ELSE 0
       /\ \A j \in Ino : j # i => \A m \in Locs : Ptr(j, m)' = Ptr(j, m)
  BY <1>2, <1>7, <1>8, <1>9, <1>10
<1> QED
  BY <1>3, <1>4, <1>11 DEF n, l

LEMMA MkdirSafe ==
    ASSUME BlockMapInv, NEW i \in Ino, Mkdir(i)
    PROVE  Unshared' /\ Held' /\ LocalExtends' /\ ~torn'
<1>1. op.kind = "idle" /\ ~torn /\ op' = op /\ torn' = torn
  BY DEF Mkdir, History
<1> DEFINE l == <<"direct", 0, 0>>
<1>2. l \in Locs
  BY ConstantsType, LocTypes
<1>3. PICK b \in Blocks :
         /\ b \notin bitmap /\ bitmap' = bitmap \cup {b}
         /\ \A m \in Locs : Ptr(i, m)' = IF m = l THEN b ELSE 0
         /\ \A j \in Ino : j # i => \A m \in Locs : Ptr(j, m)' = Ptr(j, m)
  BY MkdirAdds
<1> HIDE DEF l
<1>4. \A j \in Ino, m \in Locs : IF j = i /\ m = l THEN Ptr(j, m)' = b ELSE Ptr(j, m)' \in {0, Ptr(j, m)}
  BY <1>3
<1>5. Unshared' /\ Held'
  BY <1>1, <1>2, <1>3, <1>4, AllStored, AddPointer
<1>6. LocalExtends'
  BY <1>1 DEF LocalExtends
<1> QED
  BY <1>1, <1>5, <1>6

\* A mkdir that lost its block has changed no file.
LEMMA MkdirFailsSafe ==
    ASSUME BlockMapInv, MkdirFails
    PROVE  Unshared' /\ Held' /\ LocalExtends' /\ ~torn'
<1>1. /\ op.kind = "idle" /\ ~torn /\ op' = op /\ torn' = torn /\ blk' = blk /\ inode' = inode
      /\ bitmap \subseteq bitmap'
  BY DEF MkdirFails, LoseBlock, Take
<1>2. PICK freed : freed = {}
  OBVIOUS
<1>3. bitmap \ freed \subseteq bitmap' /\ \A x : x \notin freed
  BY <1>1, <1>2
<1>4. \A i \in Ino, l \in Locs : Ptr(i, l)' = Ptr(i, l)
  BY <1>1 DEF Ptr, Cur, Busy
<1>5. Unshared' /\ Held'
  BY <1>1, <1>3, <1>4, AllStored, DropPointers
<1> QED
  BY <1>1, <1>5 DEF LocalExtends

-----------------------------------------------------------------------------
(* The invariant                                                           *)

LEMMA InitInv == Init => BlockMapInv
<1> SUFFICES ASSUME Init PROVE BlockMapInv
  OBVIOUS
<1>1. op = Idle /\ op.kind = "idle" /\ torn = FALSE /\ bitmap = {DataStart}
  BY DEF Init, Idle
<1>2. LocalExtends /\ TornIdle
  BY <1>1 DEF LocalExtends, TornIdle
<1> DEFINE n == [DefaultInode EXCEPT !.mode = "dir", !.size = P, !.block_count = 1,
                                     !.direct[0] = DataStart]
           l == <<"direct", 0, 0>>
<1>3. \A i \in Ino : Cur(i) = IF i = Root THEN n ELSE DefaultInode
  BY <1>1 DEF Init, Cur, Busy
<1>4. /\ n.single = 0 /\ n.double = 0
      /\ \A k \in Direct : n.direct[k] = IF k = 0 THEN DataStart ELSE 0
  BY ConstantsType DEF DefaultInode
<1> HIDE DEF n
<1>5. \A m \in Locs : PtrOf(n, blk, m) = IF m = l THEN DataStart ELSE 0
  BY <1>4, OneBlock
<1> HIDE DEF l
<1>6. \A m \in Locs : PtrOf(DefaultInode, blk, m) = 0
  BY PtrOfEmpty DEF DefaultInode
<1>7. \A i \in Ino, m \in Locs : Ptr(i, m) = IF i = Root /\ m = l THEN DataStart ELSE 0
  BY <1>3, <1>5, <1>6 DEF Ptr
<1>8. Unshared /\ Held
  BY <1>1, <1>7 DEF Unshared, Held
<1>9. TypeOK
  <2>1. [DefaultInode EXCEPT !.mode = "dir", !.size = P, !.block_count = 1,
                             !.direct[0] = DataStart] \in InodeType
    BY ConstantsType DEF InodeType, DefaultInode
  <2> QED
    BY <2>1, ConstantsType, IdleType DEF Init, TypeOK
<1> QED
  BY <1>2, <1>8, <1>9 DEF BlockMapInv, NoSharing, Allocated

LEMMA NextInv == BlockMapInv /\ [Next]_vars => BlockMapInv'
<1> SUFFICES ASSUME BlockMapInv, [Next]_vars PROVE BlockMapInv'
  OBVIOUS
<1>0. TypeOK'
  <2>1. CASE UNCHANGED vars
    BY <2>1 DEF vars, TypeOK, BlockMapInv
  <2> QED
    BY <2>1, TypeStart, TypeExtending, TypeRemoving, TypeFailing DEF Next, BlockMapInv
<1>1. ASSUME UNCHANGED vars PROVE BlockMapInv'
  BY <1>1 DEF vars, BlockMapInv, TypeOK, NoSharing, Unshared, Allocated, Held, LocalExtends,
              TornIdle, Ptr, Cur, Busy
<1>2. ASSUME Unshared', Held', LocalExtends', ~torn' PROVE BlockMapInv'
  BY <1>0, <1>2 DEF BlockMapInv, NoSharing, Allocated, TornIdle
<1>3. ASSUME NEW i \in Ino, Create(i) \/ Mkdir(i) \/ BeginGrow(i) \/ BeginUnlink(i)
      PROVE  BlockMapInv'
  <2>1. CASE BeginGrow(i)
    BY <1>2, <2>1, BeginSafe DEF BeginGrow
  <2>2. CASE BeginUnlink(i)
    BY <1>2, <2>2, BeginSafe DEF BeginUnlink
  <2> QED
    BY <1>2, <1>3, <2>1, <2>2, CreateSafe, MkdirSafe
<1>4. ASSUME NEW i \in Ino, NEW size \in NewSizes, Extend(i, size) \/ BeginShrink(i, size)
      PROVE  BlockMapInv'
  <2>1. CASE BeginShrink(i, size)
    BY <1>2, <2>1, BeginSafe DEF BeginShrink
  <2> QED
    BY <1>2, <1>4, <2>1, ExtendSafe
<1>5. ASSUME NEW i \in Ino, NEW offset \in Offsets, NEW len \in Lengths, NEW v \in Data,
             BeginWrite(i, offset, len, v)
      PROVE  BlockMapInv'
  BY <1>2, <1>5, BeginSafe DEF BeginWrite
<1>6. ASSUME \/ LinkDirect \/ LinkSingle \/ LinkSingleLeaf
             \/ LinkDouble \/ LinkInner \/ LinkDoubleLeaf
             \/ CopyBlock \/ FinishWrite
      PROVE  BlockMapInv'
  BY <1>2, <1>6, LinkStepSafe, CopyBlockSafe, FinishWriteSafe DEF LinkStep
<1>7. ASSUME \/ RemoveDirect \/ RemoveSingleLeaf \/ RemoveDoubleLeaf \/ RemoveNothing
             \/ FinishShrink \/ FinishUnlink
      PROVE  BlockMapInv'
  BY <1>2, <1>7, UnmapStepSafe, RemoveNothingSafe, FinishShrinkSafe, FinishUnlinkSafe DEF UnmapStep
<1>8. ASSUME NoSpace \/ BadBlock \/ ReadFailsExtending \/ AllocationFails PROVE BlockMapInv'
  BY <1>2, <1>8, GivingUp, GiveUpSafe
<1>9. ASSUME ReadFailsRemoving \/ BadTail PROVE BlockMapInv'
  BY <1>0, <1>9, DropRemovalSafe DEF BlockMapInv, NoSharing, Allocated, TornIdle
<1>10. ASSUME MkdirFails PROVE BlockMapInv'
  BY <1>2, <1>10, MkdirFailsSafe
<1>11. ASSUME BeyondRepair PROVE BlockMapInv'
  BY <1>1, <1>11 DEF BeyondRepair
<1> QED
  BY <1>1, <1>3, <1>4, <1>5, <1>6, <1>7, <1>8, <1>9, <1>10, <1>11 DEF Next

LEMMA InvHolds == Spec => []BlockMapInv
BY InitInv, NextInv, PTL DEF Spec

\* No interleaving of allocation, removal and failed writes makes two files, or
\* two places of one file, share a block (bmap, allocate_block,
\* remove_mapped_block), in a pool and a block map of any size.
THEOREM NeverShared == Spec => []NoSharing
<1>1. BlockMapInv => NoSharing
  BY DEF BlockMapInv
<1> QED
  BY <1>1, InvHolds, PTL

\* Every block a file reaches has its bit set (alloc_from, clear): none of them
\* can be handed out a second time.
THEOREM AlwaysAllocated == Spec => []Allocated
<1>1. BlockMapInv => Allocated
  BY DEF BlockMapInv
<1> QED
  BY <1>1, InvHolds, PTL

-----------------------------------------------------------------------------
(* Isolation                                                               *)

LEMMA StepKeepsOthers ==
    ASSUME BlockMapInv, Next, op.kind # "idle"
    PROVE  OthersKept
<1>1. CASE \/ LinkDirect \/ LinkSingle \/ LinkSingleLeaf
           \/ LinkDouble \/ LinkInner \/ LinkDoubleLeaf
           \/ CopyBlock \/ FinishWrite
  BY <1>1, LinkStepSafe, CopyBlockSafe, FinishWriteSafe DEF LinkStep
<1>2. CASE \/ RemoveDirect \/ RemoveSingleLeaf \/ RemoveDoubleLeaf \/ RemoveNothing
           \/ FinishShrink \/ FinishUnlink
  BY <1>2, UnmapStepSafe, RemoveNothingSafe, FinishShrinkSafe, FinishUnlinkSafe DEF UnmapStep
<1>3. CASE NoSpace \/ BadBlock \/ ReadFailsExtending \/ AllocationFails
  BY <1>3, GivingUp, GiveUpSafe
<1>4. CASE ReadFailsRemoving \/ BadTail
  BY <1>4, DropRemovalSafe
<1>5. CASE BeyondRepair
  BY <1>5 DEF BeyondRepair, vars, OthersKept, Untouched
<1> QED
  BY <1>1, <1>2, <1>3, <1>4, <1>5
  DEF Next, Create, Mkdir, MkdirFails, BeginGrow, BeginUnlink, Extend, BeginShrink, BeginWrite

\* While an operation runs on one file, no other file changes: not its inode,
\* not a pointer, not the content of a block it maps.
THEOREM FilesIsolated == Spec => Isolation
<1>1. BlockMapInv /\ [Next]_vars => [OthersUnchanged]_vars
  <2> SUFFICES ASSUME BlockMapInv, Next, NEW j \in Ino, op.kind # "idle", j # op.ino
               PROVE  /\ inode'[j] = inode[j]
                      /\ \A l \in Locs : PtrOf(inode'[j], blk', l) = PtrOf(inode[j], blk, l)
                      /\ \A l \in LeafLocs : PtrOf(inode[j], blk, l) # 0 =>
                            blk'[PtrOf(inode[j], blk, l)] = blk[PtrOf(inode[j], blk, l)]
    BY DEF OthersUnchanged
  <2>1. OthersKept /\ TypeOK /\ Unshared /\ Held
    BY StepKeepsOthers, Busyness
  <2>2. inode'[j] = inode[j] /\ Untouched(blk')
    BY <2>1 DEF OthersKept
  <2>3. \A l \in Locs : PtrOf(inode'[j], blk', l) = PtrOf(inode[j], blk, l)
    BY <2>1, <2>2, OthersSame
  <2>4. op.ino \in Ino /\ \A l \in Locs : Ptr(j, l) = PtrOf(inode[j], blk, l)
    BY <2>1 DEF TypeOK, OpType, Ptr, Cur, Busy
  <2>5. ASSUME NEW l \in Locs, PtrOf(inode[j], blk, l) # 0
        PROVE  blk'[PtrOf(inode[j], blk, l)] = blk[PtrOf(inode[j], blk, l)]
    <3>1. Ptr(j, l) \in bitmap /\ \A m \in Locs : Ptr(op.ino, m) # Ptr(j, l)
      BY <2>1, <2>4, <2>5 DEF Unshared, Held
    <3> QED
      BY <2>2, <2>4, <3>1 DEF Untouched
  <2> QED
    BY <2>2, <2>3, <2>5, LocTypes
<1> QED
  BY <1>1, InvHolds, PTL DEF Spec, Isolation
=============================================================================
