-------------------------- MODULE BlockMapContents --------------------------
(* Theorems about what the files of BlockMap hold: that every block in use  *)
(* is accounted for, block_count, what lies past the end of a file, and     *)
(* that what is read of a file is what FileSpec says of it.                 *)
EXTENDS BlockMapProofs, BlockMapRefinement, FiniteSetTheorems

-----------------------------------------------------------------------------
(* Logical blocks                                                          *)

\* Positions in a square of side s, row by row.
LEMMA RowMajor ==
    ASSUME NEW s \in Nat, NEW o \in 0..s-1, NEW k \in 0..s-1
    PROVE  /\ o * s + k \in 0..(s * s - 1)
           /\ \A p, q \in 0..s-1 : o * s + k = p * s + q => o = p /\ k = q
<1>1. ASSUME NEW x \in Nat, NEW y \in Nat, x < y PROVE x * s + s <= y * s
  <2>1. PICK d \in Nat : y = x + 1 + d
    <3>1. y - x - 1 \in Nat /\ y = x + 1 + (y - x - 1)
      BY <1>1
    <3> QED
      BY <3>1
  <2>2. y * s = x * s + s + d * s /\ d * s \in Nat
    BY <2>1
  <2> QED
    BY <2>2
<1>2. \A x \in Nat : x * s \in Nat
  OBVIOUS
<1>3. o * s + k \in 0..(s * s - 1)
  <2>1. o \in Nat /\ s \in Nat /\ o < s /\ k < s /\ k \in Nat
    OBVIOUS
  <2>2. o * s + s <= s * s
    BY <1>1, <2>1
  <2>3. o * s \in Nat /\ s * s \in Nat
    BY <2>1
  <2> QED
    BY <2>1, <2>2, <2>3
<1>4. ASSUME NEW p \in 0..s-1, NEW q \in 0..s-1, o * s + k = p * s + q
      PROVE  o = p /\ k = q
  <2>1. /\ o \in Nat /\ p \in Nat /\ k \in Nat /\ q \in Nat /\ k < s /\ q < s
        /\ o * s \in Nat /\ p * s \in Nat
    BY <1>2
  <2>2. ~(o < p)
    <3>1. o < p => o * s + s <= p * s
      BY <1>1, <2>1
    <3> QED
      BY <1>4, <2>1, <3>1
  <2>3. ~(p < o)
    <3>1. p < o => p * s + s <= o * s
      BY <1>1, <2>1
    <3> QED
      BY <1>4, <2>1, <3>1
  <2>4. o = p
    BY <2>1, <2>2, <2>3
  <2> QED
    BY <1>4, <2>1, <2>4
<1> QED
  BY <1>3, <1>4

LEMMA LeafCases ==
    ASSUME NEW l \in LeafLocs
    PROVE  \/ \E k \in Direct : l = <<"direct", k, 0>> /\ IndexOf(l) = k
           \/ \E k \in Cells : l = <<"leaf1", k, 0>> /\ IndexOf(l) = NDirect + k
           \/ \E o, k \in Cells : l = <<"leaf2", o, k>> /\ IndexOf(l) = NDirect + P + (o * P + k)
<1>1. CASE \E k \in Direct : l = <<"direct", k, 0>>
  BY <1>1 DEF IndexOf
<1>2. CASE \E k \in Cells : l = <<"leaf1", k, 0>>
  BY <1>2 DEF IndexOf
<1>3. CASE \E o, k \in Cells : l = <<"leaf2", o, k>>
  <2>1. PICK o \in Cells, k \in Cells : l = <<"leaf2", o, k>>
    BY <1>3
  <2>2. IndexOf(l) = NDirect + P + o * P + k
    BY <2>1 DEF IndexOf
  <2>3. NDirect \in Nat /\ P \in Nat /\ o \in Nat /\ k \in Nat /\ o * P \in Nat
    BY ConstantsType DEF Cells
  <2>4. IndexOf(l) = NDirect + P + (o * P + k)
    BY <2>2, <2>3
  <2> QED
    BY <2>1, <2>4
<1> QED
  BY <1>1, <1>2, <1>3 DEF LeafLocs

\* bmap's index is within its range, and each location has its own.
LEMMA IndexOnce ==
    ASSUME NEW l \in LeafLocs
    PROVE  /\ IndexOf(l) \in 0..MaxIndex-1
           /\ \A m \in LeafLocs : IndexOf(l) = IndexOf(m) => l = m
<1> DEFINE Pos(o, k) == o * P + k
           Q         == P * P
<1>1. P \in Nat /\ NDirect \in Nat /\ Q \in Nat /\ MaxIndex = NDirect + P + Q
  BY ConstantsType DEF MaxIndex
<1>2. \A o, k \in Cells : /\ Pos(o, k) \in 0..Q-1
                          /\ \A p, q \in Cells : Pos(o, k) = Pos(p, q) => o = p /\ k = q
  BY <1>1, RowMajor DEF Cells
<1> HIDE DEF Pos, Q
<1>3. ASSUME NEW m \in LeafLocs
      PROVE  \/ \E k \in 0..NDirect-1 : m = <<"direct", k, 0>> /\ IndexOf(m) = k
             \/ \E k \in 0..P-1 : m = <<"leaf1", k, 0>> /\ IndexOf(m) = NDirect + k
             \/ \E o, k \in Cells : /\ m = <<"leaf2", o, k>> /\ IndexOf(m) = NDirect + P + Pos(o, k)
                                    /\ Pos(o, k) \in 0..Q-1
  BY <1>2, LeafCases DEF Pos, Direct, Cells
<1>4. IndexOf(l) \in 0..MaxIndex-1
  BY <1>1, <1>3
<1>5. ASSUME NEW m \in LeafLocs, IndexOf(l) = IndexOf(m) PROVE l = m
  <2>1. CASE \E k \in 0..NDirect-1 : l = <<"direct", k, 0>> /\ IndexOf(l) = k
    <3>1. IndexOf(m) < NDirect
      BY <1>1, <1>5, <2>1
    <3>2. \E k \in 0..NDirect-1 : m = <<"direct", k, 0>> /\ IndexOf(m) = k
      BY <1>1, <1>3, <3>1
    <3> QED
      BY <1>5, <2>1, <3>2
  <2>2. CASE \E k \in 0..P-1 : l = <<"leaf1", k, 0>> /\ IndexOf(l) = NDirect + k
    <3>1. PICK k \in 0..P-1 : l = <<"leaf1", k, 0>> /\ IndexOf(l) = NDirect + k
      BY <2>2
    <3>2. IndexOf(m) = NDirect + k /\ k \in 0..P-1
      BY <1>5, <3>1
    <3>3. ~(IndexOf(m) < NDirect) /\ IndexOf(m) < NDirect + P
      BY <1>1, <3>2
    <3>4. \E q \in 0..P-1 : m = <<"leaf1", q, 0>> /\ IndexOf(m) = NDirect + q
      <4>1. ~\E q \in 0..NDirect-1 : IndexOf(m) = q
        BY <1>1, <3>3
      <4>2. ~\E o, q \in Cells : IndexOf(m) = NDirect + P + Pos(o, q) /\ Pos(o, q) \in 0..Q-1
        BY <1>1, <3>3
      <4> QED
        BY <1>3, <4>1, <4>2
    <3>5. PICK q \in 0..P-1 : m = <<"leaf1", q, 0>> /\ IndexOf(m) = NDirect + q
      BY <3>4
    <3>6. NDirect + k = NDirect + q
      BY <3>2, <3>5
    <3>7. k = q
      BY <1>1, <3>6
    <3> QED
      BY <3>1, <3>5, <3>7
  <2>3. CASE \E o, k \in Cells : /\ l = <<"leaf2", o, k>> /\ IndexOf(l) = NDirect + P + Pos(o, k)
                                 /\ Pos(o, k) \in 0..Q-1
    <3>1. PICK o \in Cells, k \in Cells :
             l = <<"leaf2", o, k>> /\ IndexOf(l) = NDirect + P + Pos(o, k) /\ Pos(o, k) \in 0..Q-1
      BY <2>3
    <3>2. IndexOf(m) = NDirect + P + Pos(o, k) /\ Pos(o, k) \in 0..Q-1
      BY <1>5, <3>1
    <3>3. ~(IndexOf(m) < NDirect + P)
      BY <1>1, <3>2
    <3>4. \E p, q \in Cells : /\ m = <<"leaf2", p, q>> /\ IndexOf(m) = NDirect + P + Pos(p, q)
                              /\ Pos(p, q) \in 0..Q-1
      <4>1. ~\E q \in 0..NDirect-1 : IndexOf(m) = q
        BY <1>1, <3>3
      <4>2. ~\E q \in 0..P-1 : IndexOf(m) = NDirect + q
        BY <1>1, <3>3
      <4> QED
        BY <1>3, <4>1, <4>2
    <3>5. PICK p \in Cells, q \in Cells :
             m = <<"leaf2", p, q>> /\ IndexOf(m) = NDirect + P + Pos(p, q) /\ Pos(p, q) \in 0..Q-1
      BY <3>4
    <3>6. NDirect + P + Pos(o, k) = NDirect + P + Pos(p, q)
      BY <3>2, <3>5
    <3>7. Pos(o, k) = Pos(p, q)
      BY <1>1, <3>2, <3>5, <3>6
    <3> QED
      BY <1>2, <3>1, <3>5, <3>7
  <2> QED
    BY <1>3, <2>1, <2>2, <2>3
<1> QED
  BY <1>4, <1>5

\* BlocksFor rounds up.
LEMMA Ceiling ==
    ASSUME NEW n \in Nat, NEW x \in Nat
    PROVE  x < BlocksFor(n) <=> x * P < n
<1> DEFINE q == (n + P - 1) \div P
           r == (n + P - 1) % P
<1>1. P \in Nat /\ P > 0 /\ n + P - 1 \in Nat
  BY ConstantsType
<1>2. q \in Nat /\ r \in 0..P-1 /\ n + P - 1 = P * q + r
  BY <1>1
<1> HIDE DEF q, r
<1>3. x * P \in Nat /\ P * q \in Nat /\ q * P = P * q
  BY <1>1, <1>2
<1>4. CASE x < q
  <2>1. PICK d \in Nat : q = x + 1 + d
    <3>1. q - x - 1 \in Nat /\ q = x + 1 + (q - x - 1)
      BY <1>2, <1>4
    <3> QED
      BY <3>1
  <2>2. q * P = x * P + P + d * P /\ d * P \in Nat
    BY <1>1, <2>1
  <2> QED
    BY <1>1, <1>2, <1>3, <1>4, <2>2 DEF BlocksFor, q
<1>5. CASE ~(x < q)
  <2>1. PICK d \in Nat : x = q + d
    <3>1. x - q \in Nat /\ x = q + (x - q)
      BY <1>2, <1>5
    <3> QED
      BY <3>1
  <2>2. x * P = q * P + d * P /\ d * P \in Nat
    BY <1>1, <1>2, <2>1
  <2> QED
    BY <1>1, <1>2, <1>3, <1>5, <2>2 DEF BlocksFor, q
<1> QED
  BY <1>4, <1>5

\* A file has a finite number of data blocks, and block_count can hold it.
LEMMA MappedCount ==
    ASSUME NEW S, S \subseteq LeafLocs
    PROVE  IsFiniteSet(S) /\ Cardinality(S) \in 0..CountMod-1
<1> DEFINE N == MaxIndex
<1>1. N \in Nat /\ N < CountMod /\ CountMod \in Nat
  BY ConstantsAssumption, CountAssumption, ConstantsType
  DEF ConstantsAssumption, CountAssumption, MaxIndex
<1> HIDE DEF N
<1>2. IsFiniteSet(0..N-1) /\ Cardinality(0..N-1) = N
  BY <1>1, FS_Interval
<1> DEFINE f == [l \in S |-> IndexOf(l)]
<1>3. f \in Injection(S, 0..N-1)
  <2>1. f \in [S -> 0..N-1]
    BY IndexOnce DEF N
  <2>2. \A l, m \in S : f[l] = f[m] => l = m
    BY IndexOnce
  <2> QED
    BY <2>1, <2>2 DEF Injection, IsInjective
<1> HIDE DEF f
<1>4. IsFiniteSet(S) /\ Cardinality(S) <= Cardinality(0..N-1)
  BY <1>2, <1>3, FS_Injection DEF ExistsInjection
<1>5. Cardinality(S) \in Nat
  BY <1>4, FS_CardinalityType
<1> QED
  BY <1>1, <1>2, <1>4, <1>5

-----------------------------------------------------------------------------
(* Pointer blocks and what they hold                                       *)

LEMMA HolderCases ==
    ASSUME NEW l \in Locs
    PROVE  /\ Holder(l) \notin LeafLocs
           /\ l \in LeafLocs => \/ l[1] = "direct" /\ Holder(l) \notin Locs
                                \/ l[1] = "leaf1" /\ Holder(l) = <<"single", 0, 0>> /\ Holder(l) \in Locs
                                \/ /\ l[1] = "leaf2" /\ l[2] \in Cells
                                   /\ Holder(l) = <<"inner", l[2], 0>> /\ Holder(l) \in Locs
           /\ l \notin LeafLocs =>
                 \/ l = <<"single", 0, 0>> /\ Holder(l) \notin Locs
                 \/ l = <<"double", 0, 0>> /\ Holder(l) \notin Locs
                 \/ l[1] = "inner" /\ Holder(l) = <<"double", 0, 0>> /\ Holder(l) \in Locs
<1>1. \A m \in Locs : m[1] # "inode"
  BY LocParts
<1>2. CASE \E k \in Direct : l = <<"direct", k, 0>>
  <2>1. l[1] = "direct" /\ l \in LeafLocs /\ Holder(l) = <<"inode", 0, 0>>
    BY <1>2, LocTypes DEF Holder
  <2>2. Holder(l) \notin Locs
    BY <1>1, <2>1
  <2> QED
    BY <2>1, <2>2, LocTypes
<1>3. CASE \E k \in Cells : l = <<"leaf1", k, 0>>
  <2>1. l[1] = "leaf1" /\ l \in LeafLocs /\ Holder(l) = <<"single", 0, 0>>
    BY <1>3, LocTypes DEF Holder
  <2> QED
    BY <2>1, LocTypes
<1>4. CASE \E o, k \in Cells : l = <<"leaf2", o, k>>
  <2>1. l[1] = "leaf2" /\ l[2] \in Cells /\ l \in LeafLocs /\ Holder(l) = <<"inner", l[2], 0>>
    BY <1>4, LocTypes DEF Holder
  <2> QED
    BY <2>1, LocTypes
<1>5. CASE l = <<"single", 0, 0>> \/ l = <<"double", 0, 0>>
  <2>1. l \notin LeafLocs /\ Holder(l) = <<"inode", 0, 0>>
    BY <1>5, LocTypes DEF Holder
  <2>2. Holder(l) \notin Locs
    BY <1>1, <2>1
  <2> QED
    BY <1>5, <2>1, <2>2, LocTypes
<1>6. CASE \E o \in Cells : l = <<"inner", o, 0>>
  <2>1. l[1] = "inner" /\ l \notin LeafLocs /\ Holder(l) = <<"double", 0, 0>>
    BY <1>6, LocTypes DEF Holder
  <2> QED
    BY <2>1, LocTypes
<1> QED
  BY <1>2, <1>3, <1>4, <1>5, <1>6, LocCases

\* Nothing is found through a pointer block that is not there.
LEMMA HolderThere ==
    ASSUME NEW n, NEW b, NEW l \in Locs, Holder(l) \in Locs, PtrOf(n, b, l) # 0
    PROVE  PtrOf(n, b, Holder(l)) # 0
<1>1. \A x : CellOf(b, 0, x) = 0
  BY DEF CellOf
<1>2. CASE l[1] = "leaf1"
  <2>1. Holder(l) = <<"single", 0, 0>>
    BY <1>2 DEF Holder
  <2>2. PtrOf(n, b, Holder(l)) = n.single
    BY <2>1, PtrAt
  <2>3. PtrOf(n, b, l) = CellOf(b, n.single, l[2])
    BY <1>2, PtrBy
  <2> QED
    BY <1>1, <2>2, <2>3
<1>3. CASE l[1] = "leaf2"
  <2>1. Holder(l) = <<"inner", l[2], 0>>
    BY <1>3 DEF Holder
  <2>2. PtrOf(n, b, Holder(l)) = CellOf(b, n.double, l[2])
    <3>1. Holder(l)[1] = "inner" /\ Holder(l)[2] = l[2]
      BY <2>1
    <3> QED
      BY <3>1, PtrBy
  <2>3. PtrOf(n, b, l) = CellOf(b, CellOf(b, n.double, l[2]), l[3])
    BY <1>3, PtrBy
  <2> QED
    BY <1>1, <2>2, <2>3
<1>4. CASE l[1] = "inner"
  <2>1. Holder(l) = <<"double", 0, 0>>
    BY <1>4 DEF Holder
  <2>2. PtrOf(n, b, Holder(l)) = n.double
    BY <2>1, PtrAt
  <2>3. PtrOf(n, b, l) = CellOf(b, n.double, l[2])
    BY <1>4, PtrBy
  <2> QED
    BY <1>1, <2>2, <2>3
<1> QED
  BY <1>2, <1>3, <1>4, HolderCases, LocTypes

\* Logical blocks are reached in one way.
LEMMA ThroughLeaf ==
    ASSUME NEW l \in LeafLocs, NEW h, Through(h, IndexOf(l))
    PROVE  h \in {l, Holder(l), Holder(Holder(l))}
BY IndexOnce DEF Through

\* The pointer block in h, on the way to a logical block that is mapped, has a pointer.
LEMMA OnTheWay ==
    ASSUME NEW n, NEW b, NEW l \in LeafLocs, PtrOf(n, b, l) # 0,
           NEW h \in Locs \ LeafLocs, Through(h, IndexOf(l))
    PROVE  \E c \in Locs : Holder(c) = h /\ PtrOf(n, b, c) # 0
<1>1. l \in Locs /\ (h = Holder(l) \/ h = Holder(Holder(l)))
  BY ThroughLeaf, LocTypes
<1>2. CASE h = Holder(l)
  BY <1>1, <1>2
<1>3. CASE h = Holder(Holder(l))
  <2>1. Holder(l) \in Locs
    <3>1. Holder(l) = <<"inode", 0, 0>> => Holder(Holder(l)) = <<"inode", 0, 0>>
      BY DEF Holder
    <3>2. <<"inode", 0, 0>> \notin Locs
      <4> DEFINE x == <<"inode", 0, 0>>
      <4>1. x[1] = "inode"
        OBVIOUS
      <4> HIDE DEF x
      <4>2. x \notin Locs
        BY <4>1, LocParts
      <4> QED
        BY <4>2 DEF x
    <3>3. l[1] = "direct" => Holder(l) = <<"inode", 0, 0>>
      BY DEF Holder
    <3> QED
      BY <1>1, <1>3, <3>1, <3>2, <3>3, HolderCases
  <2>2. PtrOf(n, b, Holder(l)) # 0
    BY <1>1, <2>1, HolderThere
  <2> QED
    BY <1>3, <2>1, <2>2
<1> QED
  BY <1>1, <1>2, <1>3

\* A file without data blocks whose pointer blocks all have pointers has none of them.
LEMMA NoLeafNothing ==
    ASSUME NEW n, NEW b, \A l \in LeafLocs : PtrOf(n, b, l) = 0,
           \A h \in Locs \ LeafLocs : PtrOf(n, b, h) # 0 =>
               \E c \in Locs : Holder(c) = h /\ PtrOf(n, b, c) # 0,
           NEW l \in Locs
    PROVE  PtrOf(n, b, l) = 0
<1>1. ASSUME NEW h \in Locs \ LeafLocs, h[1] # "double", PtrOf(n, b, h) # 0 PROVE FALSE
  <2>1. PICK c \in Locs : Holder(c) = h /\ PtrOf(n, b, c) # 0
    BY <1>1
  <2>2. c \notin LeafLocs
    BY <2>1
  <2>3. h = <<"double", 0, 0>>
    BY <2>1, <2>2, HolderCases
  <2> QED
    BY <1>1, <2>3
<1>2. ASSUME NEW h \in Locs \ LeafLocs, h[1] = "double", PtrOf(n, b, h) # 0 PROVE FALSE
  <2>1. PICK c \in Locs : Holder(c) = h /\ PtrOf(n, b, c) # 0
    BY <1>2
  <2>2. c \notin LeafLocs
    BY <2>1
  <2>3. c[1] # "double"
    <3>1. c[1] = "double" => Holder(c) = <<"inode", 0, 0>>
      BY DEF Holder
    <3>2. Holder(c)[1] = "double"
      BY <1>2, <2>1
    <3> QED
      BY <3>1, <3>2
  <2> QED
    BY <1>1, <2>1, <2>2, <2>3
<1> QED
  BY <1>1, <1>2

-----------------------------------------------------------------------------
(* Files that a step does not touch                                        *)

\* A step that leaves a file as it is: the inode in use, its pointers and its content.
Same(i) ==
    /\ Cur(i)' = Cur(i)
    /\ \A l \in Locs : Ptr(i, l)' = Ptr(i, l)
    /\ \A l \in LeafLocs : Ptr(i, l) # 0 => blk'[Ptr(i, l)] = blk[Ptr(i, l)]

\* No write on the file has linked or copied anything.
Quiet(i) == Ahead(i) => ~op.linked /\ ~op.copied

LEMMA CurType ==
    ASSUME TypeOK, NEW i \in Ino
    PROVE  Cur(i) \in InodeType /\ Cur(i).size \in Nat /\ op.hi \in Nat
BY DEF TypeOK, OpType, InodeType, Cur, Busy

LEMMA SameSound ==
    ASSUME NEW i \in Ino, FileSound(i), Same(i), Quiet(i), Quiet(i)', leaky => leaky',
           i \in spoiled => i \in spoiled'
    PROVE  FileSound(i)'
<1>1. /\ Extent(i, op.linked) = Cur(i).size /\ Extent(i, op.copied) = Cur(i).size
      /\ Extent(i, op.linked)' = Cur(i)'.size /\ Extent(i, op.copied)' = Cur(i)'.size
  BY DEF Extent, Quiet
<1>2. Cur(i)' = Cur(i) /\ \A l \in Locs : Ptr(i, l)' = Ptr(i, l)
  BY DEF Same
<1>3. Mapped(i)' = Mapped(i)
  BY <1>2, LocTypes DEF Mapped
<1>4. Within(i) => Within(i)'
  BY <1>1, <1>2, <1>3 DEF Within
<1>5. ZeroTail(i) => ZeroTail(i)'
  <2>1. \A l \in Mapped(i) : Ptr(i, l)' = Ptr(i, l) /\ blk'[Ptr(i, l)] = blk[Ptr(i, l)]
    BY LocTypes DEF Same, Mapped
  <2> QED
    BY <1>1, <1>2, <1>3, <2>1 DEF ZeroTail
<1>6. Kept(i) => Kept(i)'
  BY <1>2 DEF Kept, Quiet
<1> QED
  BY <1>2, <1>3, <1>4, <1>5, <1>6 DEF FileSound

\* A step of an operation does not touch the other files.
LEMMA OthersQuiet ==
    ASSUME BlockMapInv, op.kind # "idle", OthersKept, op'.kind = "idle" \/ op'.ino = op.ino,
           NEW i \in Ino, i # op.ino
    PROVE  Same(i) /\ Quiet(i) /\ Quiet(i)'
<1>1. TypeOK /\ Unshared /\ Held /\ op.ino \in Ino
  BY Busyness DEF TypeOK, OpType
<1>2. Cur(i) = inode[i] /\ Cur(i)' = inode[i] /\ inode'[i] = inode[i]
  BY DEF Cur, Busy, OthersKept
<1>3. \A l \in Locs : Ptr(i, l) = PtrOf(inode[i], blk, l) /\ Ptr(i, l)' = PtrOf(inode[i], blk', l)
  BY <1>2 DEF Ptr
<1>4. \A l \in Locs : Ptr(i, l)' = Ptr(i, l)
  BY <1>1, <1>3, OthersSame DEF OthersKept
<1>5. ASSUME NEW l \in LeafLocs, Ptr(i, l) # 0 PROVE blk'[Ptr(i, l)] = blk[Ptr(i, l)]
  <2>1. Ptr(i, l) \in bitmap /\ \A m \in Locs : Ptr(op.ino, m) # Ptr(i, l)
    BY <1>1, <1>5, LocTypes DEF Unshared, Held
  <2> QED
    BY <2>1 DEF OthersKept, Untouched
<1> QED
  BY <1>2, <1>4, <1>5 DEF Same, Quiet, Ahead, Busy

\* What a step of the running operation has to show for the files: the one it is about.
Runs(me) ==
    /\ BlockMapInv /\ FilesInv /\ op.kind # "idle" /\ me = op.ino /\ me \in Ino
    /\ OthersKept /\ (op'.kind = "idle" \/ op'.ino = op.ino)
    /\ leaky => leaky'
    /\ spoiled \subseteq spoiled' \cup {me}

Accounts(me) ==
    leaky' \/ /\ \A b \in bitmap' : b \in bitmap \/ \E l \in Locs : Ptr(me, l)' = b
              /\ \A l \in Locs : Ptr(me, l) \in bitmap' =>
                    Ptr(me, l) = 0 \/ \E m \in Locs : Ptr(me, m)' = Ptr(me, l)

LEMMA FilesStep ==
    ASSUME NEW me, Runs(me), Accounts(me), FileSound(me)', Removed', Fresh', Modes'
    PROVE  FilesInv'
<1>1. \A i \in Ino : i # me => Same(i) /\ Quiet(i) /\ Quiet(i)'
  BY OthersQuiet DEF Runs
<1>2. ASSUME NEW i \in Ino PROVE FileSound(i)'
  <2>1. FileSound(i) /\ (leaky => leaky') /\ (i \in spoiled /\ i # me => i \in spoiled')
    BY DEF Runs, FilesInv
  <2> QED
    BY <1>1, <2>1, SameSound
<1>3. SpaceAccounted'
  <2>1. SUFFICES ASSUME ~leaky', NEW b \in bitmap' PROVE \E i \in Ino : \E l \in Locs : Ptr(i, l)' = b
    BY DEF SpaceAccounted
  <2>2. CASE b \notin bitmap
    BY <2>1, <2>2 DEF Accounts, Runs
  <2>3. CASE b \in bitmap
    <3>1. PICK i \in Ino, l \in Locs : Ptr(i, l) = b
      BY <2>1, <2>3 DEF Runs, FilesInv, SpaceAccounted
    <3>2. b # 0
      BY <2>3, ConstantsType DEF Runs, BlockMapInv, TypeOK
    <3>3. CASE i = me
      BY <2>1, <3>1, <3>2, <3>3 DEF Accounts
    <3>4. CASE i # me
      BY <1>1, <3>1, <3>4 DEF Same
    <3> QED
      BY <3>3, <3>4
  <2> QED
    BY <2>2, <2>3
<1> QED
  BY <1>2, <1>3 DEF FilesInv

-----------------------------------------------------------------------------
(* The steps of write and of a growing directory                           *)

LEMMA LeafThrough ==
    ASSUME NEW l \in LeafLocs, NEW x, Through(l, x)
    PROVE  IndexOf(l) = x
<1>1. \A y : Holder(y)[1] \in {"single", "inner", "double", "inode"}
  BY DEF Holder
<1>2. l[1] \notin {"single", "inner", "double", "inode"}
  BY DEF LeafLocs
<1> QED
  BY <1>1, <1>2 DEF Through

LEMMA LinkFiles ==
    ASSUME BlockMapInv, FilesInv, NEW l, NEW b, NEW local, NEW blocks, IsLink(l, b, local, blocks)
    PROVE  FilesInv'
<1>1. PICK me : me = op.ino
  OBVIOUS
<1>2. /\ Extending /\ l \in Locs /\ b \in Blocks /\ LinksAt(l, b, local, blocks) /\ Link(b, local, blocks)
      /\ PtrOf(op.local, blk, l) = 0 /\ Through(l, op.index) /\ ContentKept(blocks)
      /\ local.mode = op.local.mode /\ local.size = op.local.size /\ local \in InodeType
      /\ local.block_count = IF l \in LeafLocs THEN Incr(op.local.block_count) ELSE op.local.block_count
  BY DEF IsLink
<1>3. /\ TypeOK /\ Unshared /\ Held /\ op.kind # "idle" /\ op.kind \in {"write", "grow"} /\ More
      /\ me \in Ino
  BY <1>1, <1>2, ExtendingFacts DEF Extending, Running, TypeOK, OpType
<1>4. /\ op'.kind = op.kind /\ op'.ino = op.ino /\ op'.local = local /\ op'.index = op.index
      /\ op'.lo = op.lo /\ op'.hi = op.hi /\ op'.linked = TRUE /\ op'.copied = op.copied
      /\ inode' = inode /\ spoiled' = spoiled /\ leaky' = leaky
      /\ blk' = [blocks EXCEPT ![b] = ZeroBlock] /\ bitmap' = bitmap \cup {b} /\ b \notin bitmap
  BY <1>2, <1>3 DEF Link, Take, FreeBlocks, TypeOK, OpType, History
<1>5. Runs(me)
  BY <1>1, <1>3, <1>4, LinkSafe DEF Runs
<1>6. /\ Cur(me) = op.local /\ Cur(me)' = local /\ Ahead(me) /\ Ahead(me)'
      /\ Cur(me)'.size = Cur(me).size /\ Cur(me).size \in Nat /\ op.hi \in Nat
  BY <1>1, <1>2, <1>3, <1>4, CurType DEF Cur, Busy, Ahead
<1>7. \A m \in Locs : Ptr(me, m) = PtrOf(op.local, blk, m)
  BY <1>1, <1>3, Mine
<1>8. \A m \in Locs : Ptr(me, m)' = IF m = l THEN b ELSE Ptr(me, m)
  BY <1>2, <1>4, <1>6, <1>7 DEF LinksAt, Ptr
<1>9. b # 0 /\ Ptr(me, l) = 0 /\ \A m \in Locs : Ptr(me, m) # b
  BY <1>2, <1>3, <1>4, <1>7, ConstantsType DEF Held
<1>10. Mapped(me)' = IF l \in LeafLocs THEN Mapped(me) \cup {l} ELSE Mapped(me)
  BY <1>8, <1>9, LocTypes DEF Mapped
<1>11. /\ Extent(me, op.linked)' >= Extent(me, op.linked) /\ Extent(me, op.linked)' >= op.hi
       /\ Extent(me, op.copied)' = Extent(me, op.copied)
       /\ Extent(me, op.linked) \in Nat /\ Extent(me, op.linked)' \in Nat
  BY <1>4, <1>6 DEF Extent
<1>12. l \in LeafLocs => IndexOf(l) = op.index
  BY <1>2, LeafThrough
<1>13. \A m \in LeafLocs : IndexOf(m) * P \in Nat
  BY IndexOnce, ConstantsType
<1>14. Within(me) => Within(me)'
  <2>1. SUFFICES ASSUME Within(me), NEW m \in Mapped(me)' PROVE IndexOf(m) * P < Extent(me, op.linked)'
    BY DEF Within
  <2>2. CASE m \in Mapped(me)
    <3>1. IndexOf(m) * P < Extent(me, op.linked) /\ IndexOf(m) * P \in Nat
      BY <1>13, <2>1, <2>2 DEF Within, Mapped
    <3> QED
      BY <1>11, <3>1
  <2>3. CASE m \notin Mapped(me)
    <3>1. m = l /\ l \in LeafLocs
      BY <1>10, <2>1, <2>3
    <3>2. IndexOf(m) * P < op.hi /\ IndexOf(m) * P \in Nat
      BY <1>3, <1>12, <1>13, <3>1 DEF More
    <3> QED
      BY <1>6, <1>11, <3>2
  <2> QED
    BY <2>2, <2>3
<1>15. ZeroTail(me) => ZeroTail(me)'
  <2>1. SUFFICES ASSUME ZeroTail(me), NEW m \in Mapped(me)', NEW k \in Cells,
                        IndexOf(m) * P + k >= Extent(me, op.copied)'
                 PROVE  blk'[Ptr(me, m)'][k] = 0
    BY DEF ZeroTail
  <2>2. CASE m \in Mapped(me)
    <3>1. m \in LeafLocs /\ m \in Locs /\ Ptr(me, m) # 0 /\ m # l
      BY <1>9, <2>2, LocTypes DEF Mapped
    <3>2. Ptr(me, m)' = Ptr(me, m) /\ Ptr(me, m) \in Blocks /\ Ptr(me, m) # b
      BY <1>3, <1>8, <1>9, <3>1, PtrType
    <3>3. blocks[Ptr(me, m)] = blk[Ptr(me, m)]
      BY <1>2, <1>7, <3>1 DEF ContentKept
    <3>4. blk'[Ptr(me, m)] = blk[Ptr(me, m)]
      BY <1>2, <1>4, <3>2, <3>3 DEF IsLink
    <3> QED
      BY <1>11, <2>1, <2>2, <3>2, <3>4 DEF ZeroTail
  <2>3. CASE m \notin Mapped(me)
    <3>1. m = l /\ m \in Locs
      BY <1>2, <1>10, <2>1, <2>3
    <3>2. Ptr(me, m)' = b
      BY <1>8, <3>1
    <3>3. blk'[b] = ZeroBlock
      BY <1>2, <1>4 DEF IsLink
    <3> QED
      BY <3>2, <3>3 DEF ZeroBlock
  <2> QED
    BY <2>2, <2>3
<1>16. Cur(me).block_count = Cardinality(Mapped(me)) => (Cur(me).block_count = Cardinality(Mapped(me)))'
  <2>1. CASE l \in LeafLocs
    <3>1. IsFiniteSet(Mapped(me)) /\ Cardinality(Mapped(me)) \in 0..CountMod-1
      BY MappedCount DEF Mapped
    <3>2. Cardinality(Mapped(me) \cup {l}) \in 0..CountMod-1
      BY <2>1, MappedCount DEF Mapped
    <3>3. l \notin Mapped(me)
      BY <1>9 DEF Mapped
    <3>4. Cardinality(Mapped(me) \cup {l}) = Cardinality(Mapped(me)) + 1
      BY <3>1, <3>3, FS_AddElement
    <3>5. Cur(me)'.block_count = Incr(Cur(me).block_count)
      BY <1>2, <1>6, <2>1
    <3>6. CountMod \in Nat
      BY ConstantsAssumption DEF ConstantsAssumption
    <3>7. Cur(me).block_count = Cardinality(Mapped(me)) =>
             Incr(Cur(me).block_count) = Cardinality(Mapped(me)) + 1
      BY <3>1, <3>2, <3>4, <3>6 DEF Incr
    <3> QED
      BY <1>10, <2>1, <3>4, <3>5, <3>7
  <2>2. CASE l \notin LeafLocs
    BY <1>2, <1>6, <1>10, <2>2
  <2> QED
    BY <2>1, <2>2
<1>17. Kept(me) => Kept(me)'
  <2>1. SUFFICES ASSUME Kept(me), NEW h \in Locs \ LeafLocs, Ptr(me, h)' # 0
                 PROVE  \/ \E c \in Locs : Holder(c) = h /\ Ptr(me, c)' # 0
                        \/ Through(h, op.index)
    BY <1>3, <1>4, <1>6 DEF Kept, More
  <2>2. CASE h = l
    BY <1>2, <2>2
  <2>3. CASE h # l
    <3>1. \/ \E c \in Locs : Holder(c) = h /\ Ptr(me, c) # 0
          \/ Through(h, op.index)
      BY <1>8, <2>1, <2>3 DEF Kept
    <3> QED
      BY <1>8, <1>9, <3>1
  <2> QED
    BY <2>2, <2>3
<1>18. FileSound(me) /\ Modes /\ Fresh /\ Removed
  BY <1>3 DEF FilesInv
<1>19. FileSound(me)'
  BY <1>4, <1>14, <1>15, <1>16, <1>17, <1>18 DEF FileSound
<1>20. Accounts(me)
  <2>1. \A x \in bitmap' : x \in bitmap \/ \E m \in Locs : Ptr(me, m)' = x
    BY <1>2, <1>4, <1>8
  <2>2. \A m \in Locs : Ptr(me, m) = 0 \/ Ptr(me, m)' = Ptr(me, m)
    BY <1>8, <1>9
  <2> QED
    BY <2>1, <2>2 DEF Accounts
<1>21. Modes'
  BY <1>2, <1>3, <1>4, <1>18 DEF Modes
<1>22. Fresh' /\ Removed'
  BY <1>3, <1>4 DEF Fresh, Removed
<1> QED
  BY <1>5, <1>19, <1>20, <1>21, <1>22, FilesStep

LEMMA CopyFiles ==
    ASSUME BlockMapInv, FilesInv, CopyBlock
    PROVE  FilesInv'
<1>1. PICK me : me = op.ino
  OBVIOUS
<1>2. Extending /\ TypeOK /\ Unshared /\ Held /\ op.kind # "idle" /\ op.kind \in {"write", "grow"}
      /\ me \in Ino
  BY <1>1, ExtendingFacts DEF CopyBlock, Extending, Running, TypeOK, OpType
<1>3. PICK l \in LeafLocs :
         /\ op.index = IndexOf(l) /\ PtrOf(op.local, blk, l) # 0
         /\ blk' = [blk EXCEPT ![PtrOf(op.local, blk, l)] =
                      [k \in Cells |-> IF op.index * P + k \in op.lo..op.hi-1 THEN op.val ELSE @[k]]]
  BY DEF CopyBlock
<1>4. /\ op'.kind = op.kind /\ op'.ino = op.ino /\ op'.local = op.local /\ op'.index = op.index + 1
      /\ op'.lo = op.lo /\ op'.hi = op.hi /\ op'.linked = op.linked /\ op'.copied = TRUE
      /\ inode' = inode /\ spoiled' = spoiled /\ leaky' = leaky /\ bitmap' = bitmap
  BY <1>2 DEF CopyBlock, TypeOK, OpType, History
<1>5. Runs(me)
  BY <1>1, <1>2, <1>4, CopyBlockSafe DEF Runs
<1>6. /\ Cur(me) = op.local /\ Cur(me)' = op.local /\ Ahead(me) /\ Ahead(me)'
      /\ Cur(me).size \in Nat /\ op.hi \in Nat
  BY <1>1, <1>2, <1>4, CurType DEF Cur, Busy, Ahead
<1>7. \A m \in Locs : Ptr(me, m) = PtrOf(op.local, blk, m)
  BY <1>1, <1>2, Mine
<1>8. \A m \in Locs : Ptr(me, m)' = Ptr(me, m)
  <2>1. \A x \in Blocks : (\A m \in LeafLocs : PtrOf(op.local, blk, m) # x) => blk'[x] = blk[x]
    BY <1>2, <1>3 DEF TypeOK
  <2>2. \A m \in Locs : PtrOf(op.local, blk', m) = PtrOf(op.local, blk, m)
    BY <1>2, <2>1, ContentOnly
  <2> QED
    BY <1>6, <1>7, <2>2 DEF Ptr
<1>9. Mapped(me)' = Mapped(me)
  BY <1>8, LocTypes DEF Mapped
<1>10. /\ Extent(me, op.linked)' = Extent(me, op.linked)
       /\ Extent(me, op.copied)' >= Extent(me, op.copied) /\ Extent(me, op.copied)' >= op.hi
       /\ Extent(me, op.copied) \in Nat /\ Extent(me, op.copied)' \in Nat
  BY <1>4, <1>6 DEF Extent
<1>11. Within(me) => Within(me)'
  BY <1>9, <1>10 DEF Within
<1>12. ZeroTail(me) => ZeroTail(me)'
  <2>1. SUFFICES ASSUME ZeroTail(me), NEW m \in Mapped(me), NEW k \in Cells,
                        IndexOf(m) * P + k >= Extent(me, op.copied)'
                 PROVE  blk'[Ptr(me, m)][k] = 0
    BY <1>8, <1>9, LocTypes DEF ZeroTail, Mapped
  <2>2. m \in LeafLocs /\ m \in Locs /\ Ptr(me, m) # 0 /\ Ptr(me, m) \in Blocks /\ l \in Locs
    BY <1>2, LocTypes, PtrType DEF Mapped
  <2>3. IndexOf(m) * P + k \in Nat
    BY <2>2, IndexOnce, ConstantsType
  <2>4. blk[Ptr(me, m)][k] = 0
    BY <1>10, <2>1, <2>3 DEF ZeroTail
  <2>5. CASE m = l
    <3>1. Ptr(me, m) = PtrOf(op.local, blk, l) /\ op.index = IndexOf(m)
      BY <1>3, <1>7, <2>2, <2>5
    <3>2. op.index * P + k \notin op.lo..op.hi-1
      BY <1>6, <1>10, <2>1, <2>3, <3>1
    <3>3. blk'[Ptr(me, m)][k] = blk[Ptr(me, m)][k]
      BY <1>2, <1>3, <2>2, <3>1, <3>2 DEF TypeOK
    <3> QED
      BY <2>4, <3>3
  <2>6. CASE m # l
    <3>1. Ptr(me, m) # PtrOf(op.local, blk, l)
      BY <1>2, <1>7, <2>2, <2>6 DEF Unshared
    <3>2. blk'[Ptr(me, m)] = blk[Ptr(me, m)]
      BY <1>2, <1>3, <2>2, <3>1 DEF TypeOK
    <3> QED
      BY <2>4, <3>2
  <2> QED
    BY <2>5, <2>6
<1>13. Kept(me) => Kept(me)'
  <2>1. SUFFICES ASSUME Kept(me), NEW h \in Locs \ LeafLocs, Ptr(me, h) # 0
                 PROVE  \E c \in Locs : Holder(c) = h /\ Ptr(me, c) # 0
    BY <1>8 DEF Kept
  <2>2. CASE Through(h, op.index)
    <3>1. \E c \in Locs : Holder(c) = h /\ PtrOf(op.local, blk, c) # 0
      BY <1>3, <2>2, OnTheWay
    <3> QED
      BY <1>7, <3>1
  <2> QED
    BY <2>1, <2>2 DEF Kept
<1>14. FileSound(me) /\ Modes /\ Fresh /\ Removed
  BY <1>2 DEF FilesInv
<1>15. FileSound(me)'
  BY <1>4, <1>6, <1>9, <1>11, <1>12, <1>13, <1>14 DEF FileSound
<1>16. Accounts(me)
  BY <1>4, <1>8 DEF Accounts
<1>17. Modes' /\ Fresh' /\ Removed'
  BY <1>2, <1>4, <1>14 DEF Modes, Fresh, Removed
<1> QED
  BY <1>5, <1>15, <1>16, <1>17, FilesStep

LEMMA FinishWriteFiles ==
    ASSUME BlockMapInv, FilesInv, FinishWrite
    PROVE  FilesInv'
<1>1. PICK me : me = op.ino
  OBVIOUS
<1>2. /\ op.kind # "idle" /\ op.kind \in {"write", "grow"} /\ ~More
      /\ TypeOK /\ me \in Ino /\ op.local \in InodeType /\ op.hi \in Nat
  <2>1. op.kind # "idle" /\ op.kind \in {"write", "grow"} /\ ~More
    BY DEF FinishWrite, Running
  <2> QED
    BY <1>1, <2>1, Busyness DEF TypeOK, OpType
<1> DEFINE n == [op.local EXCEPT !.size = IF op.hi > op.local.size THEN op.hi ELSE op.local.size]
<1>3. /\ op' = Idle /\ op'.kind = "idle" /\ inode' = [inode EXCEPT ![op.ino] = n]
      /\ blk' = blk /\ bitmap' = bitmap /\ spoiled' = spoiled /\ leaky' = leaky
  BY DEF FinishWrite, History, Idle
<1>4. /\ n.direct = op.local.direct /\ n.single = op.local.single /\ n.double = op.local.double
      /\ n.mode = op.local.mode /\ n.block_count = op.local.block_count
      /\ n.size = (IF op.hi > op.local.size THEN op.hi ELSE op.local.size) /\ op.local.size \in Nat
  BY <1>2 DEF InodeType
<1> HIDE DEF n
<1>5. Runs(me)
  BY <1>1, <1>2, <1>3, FinishWriteSafe DEF Runs
<1>6. /\ inode'[me] = n /\ \A i \in Ino : i # me => inode'[i] = inode[i]
      /\ Cur(me) = op.local /\ Cur(me)' = n /\ Ahead(me) /\ ~Ahead(me)'
  BY <1>1, <1>2, <1>3 DEF Cur, Busy, Ahead, TypeOK
<1>7. \A m \in Locs : Ptr(me, m)' = Ptr(me, m)
  <2>1. \A m \in Locs : PtrOf(n, blk, m) = PtrOf(op.local, blk, m)
    BY <1>4, PtrSame
  <2> QED
    BY <1>3, <1>6, <2>1 DEF Ptr
<1>8. Mapped(me)' = Mapped(me)
  BY <1>7, LocTypes DEF Mapped
<1>9. /\ Extent(me, op.linked)' = n.size /\ Extent(me, op.copied)' = n.size
      /\ n.size >= Extent(me, op.linked) /\ n.size >= Extent(me, op.copied)
      /\ Extent(me, op.linked) \in Nat /\ Extent(me, op.copied) \in Nat /\ n.size \in Nat
  BY <1>2, <1>4, <1>6 DEF Extent
<1>10. \A m \in LeafLocs : IndexOf(m) * P \in Nat /\ \A k \in Cells : IndexOf(m) * P + k \in Nat
  BY IndexOnce, ConstantsType
<1>11. Within(me) => Within(me)'
  <2>1. SUFFICES ASSUME Within(me), NEW m \in Mapped(me) PROVE IndexOf(m) * P < n.size
    BY <1>8, <1>9 DEF Within
  <2>2. IndexOf(m) * P < Extent(me, op.linked) /\ IndexOf(m) * P \in Nat
    BY <1>10, <2>1 DEF Within, Mapped
  <2> QED
    BY <1>9, <2>2
<1>12. ZeroTail(me) => ZeroTail(me)'
  <2>1. SUFFICES ASSUME ZeroTail(me), NEW m \in Mapped(me), NEW k \in Cells, IndexOf(m) * P + k >= n.size
                 PROVE  blk[Ptr(me, m)][k] = 0
    BY <1>3, <1>7, <1>8, <1>9, LocTypes DEF ZeroTail, Mapped
  <2>2. IndexOf(m) * P + k >= Extent(me, op.copied)
    BY <1>9, <1>10, <2>1 DEF Mapped
  <2> QED
    BY <2>1, <2>2 DEF ZeroTail
<1>13. Kept(me) => Kept(me)'
  BY <1>2, <1>7 DEF Kept
<1>14. FileSound(me) /\ Modes
  BY <1>2 DEF FilesInv
<1>15. FileSound(me)'
  BY <1>3, <1>4, <1>6, <1>8, <1>11, <1>12, <1>13, <1>14 DEF FileSound
<1>16. Accounts(me)
  BY <1>3, <1>7 DEF Accounts
<1>17. Modes' /\ Fresh' /\ Removed'
  BY <1>2, <1>3, <1>4, <1>6, <1>14 DEF Modes, Fresh, Removed
<1> QED
  BY <1>5, <1>15, <1>16, <1>17, FilesStep

\* A write that gives up: if it has linked or lost something, there is space that no file
\* has; if it has linked or copied nothing, its copy of the inode was still the one in the table.
LEMMA GiveUpFiles ==
    ASSUME BlockMapInv, FilesInv, op.kind \in {"write", "grow"}, NEW lost, GivesUp(lost)
    PROVE  FilesInv'
<1>1. PICK me : me = op.ino
  OBVIOUS
<1>2. /\ op.kind # "idle" /\ TypeOK /\ me \in Ino
  BY <1>1, Busyness DEF TypeOK, OpType
<1>3. /\ op' = Idle /\ op'.kind = "idle" /\ inode' = inode /\ blk' = blk
      /\ bitmap' = bitmap \cup lost
      /\ spoiled' = (IF op.linked \/ op.copied THEN spoiled \cup {op.ino} ELSE spoiled)
      /\ leaky' = (leaky \/ op.linked \/ lost # {})
  BY DEF GivesUp, Idle
<1>4. leaky => leaky'
  BY <1>3
<1>5. Runs(me)
  BY <1>1, <1>2, <1>3, <1>4, GiveUpSafe DEF Runs
<1>6. Cur(me)' = inode[me] /\ Cur(me) = op.local /\ ~Ahead(me)' /\ Ahead(me)
  BY <1>1, <1>2, <1>3 DEF Cur, Busy, Ahead
<1>7. FileSound(me) /\ Modes /\ Fresh
  BY <1>2 DEF FilesInv
<1>8. Modes' /\ Fresh' /\ Removed'
  BY <1>2, <1>3, <1>7 DEF Modes, Fresh, Removed
<1>9. CASE op.linked
  <2>1. leaky' /\ me \in spoiled'
    BY <1>1, <1>3, <1>9
  <2>2. FileSound(me)' /\ Accounts(me)
    BY <2>1 DEF FileSound, Accounts
  <2> QED
    BY <1>5, <1>8, <2>2, FilesStep
<1>10. CASE ~op.linked
  <2>1. Cur(me)' = Cur(me)
    BY <1>1, <1>2, <1>6, <1>7, <1>10 DEF Fresh
  <2>2. Same(me)
    BY <1>3, <2>1 DEF Same, Ptr
  <2>3. Accounts(me)
    <3>1. CASE lost # {}
      BY <1>3, <3>1 DEF Accounts
    <3>2. CASE lost = {}
      BY <1>3, <2>2, <3>2 DEF Accounts, Same
    <3> QED
      BY <3>1, <3>2
  <2>4. CASE ~op.copied
    <3>1. Quiet(me) /\ Quiet(me)'
      BY <1>6, <1>10, <2>4 DEF Quiet
    <3>2. FileSound(me)'
      BY <1>2, <1>3, <1>4, <1>7, <2>2, <3>1, SameSound
    <3> QED
      BY <1>5, <1>8, <2>3, <3>2, FilesStep
  <2>5. CASE op.copied
    <3>1. me \in spoiled'
      BY <1>1, <1>3, <2>5
    <3>2. Extent(me, op.linked) = Cur(me).size /\ Extent(me, op.linked)' = Cur(me)'.size
      BY <1>6, <1>10 DEF Extent
    <3>3. Mapped(me)' = Mapped(me)
      BY <2>2, LocTypes DEF Same, Mapped
    <3>4. Within(me) => Within(me)'
      BY <2>1, <3>2, <3>3 DEF Within
    <3>5. Kept(me) => Kept(me)'
      BY <1>10, <2>2 DEF Kept, Same
    <3>6. FileSound(me)'
      BY <1>4, <1>7, <3>1, <3>4, <3>5 DEF FileSound
    <3> QED
      BY <1>5, <1>8, <2>3, <3>6, FilesStep
  <2> QED
    BY <2>4, <2>5
<1> QED
  BY <1>9, <1>10

-----------------------------------------------------------------------------
(* The steps of truncate and unlink                                        *)

\* An operation that removes works on a file whose content ends at its size.
LEMMA RemovalFacts ==
    ASSUME BlockMapInv, FilesInv, op.kind \in {"truncate", "unlink"}, NEW me, me = op.ino
    PROVE  /\ TypeOK /\ Unshared /\ Held /\ op.kind # "idle" /\ me \in Ino
           /\ op.local \in InodeType /\ op.index \in Nat /\ op.lo \in Nat /\ op.hi \in Nat
           /\ Cur(me) = op.local /\ ~Ahead(me)
           /\ \A m \in Locs : Ptr(me, m) = PtrOf(op.local, blk, m)
           /\ Extent(me, op.linked) = op.local.size /\ Extent(me, op.copied) = op.local.size
           /\ FileSound(me) /\ Modes /\ Removed
<1>1. TypeOK /\ Unshared /\ Held /\ op.kind # "idle" /\ ~Ahead(me)
  BY Busyness DEF Ahead
<1>2. /\ me \in Ino /\ op.local \in InodeType /\ Cur(me) = op.local
      /\ op.index \in Nat /\ op.lo \in Nat /\ op.hi \in Nat
  BY <1>1, Mine DEF TypeOK, OpType
<1>3. Extent(me, op.linked) = op.local.size /\ Extent(me, op.copied) = op.local.size
  BY <1>1, <1>2 DEF Extent
<1> QED
  BY <1>1, <1>2, <1>3, Mine DEF FilesInv

LEMMA UnmapFiles ==
    ASSUME BlockMapInv, FilesInv, NEW gone, NEW l, NEW freed, NEW local, NEW blocks,
           IsUnmap(gone, l, freed, local, blocks)
    PROVE  FilesInv'
<1>1. PICK me : me = op.ino
  OBVIOUS
<1>2. /\ Removing /\ l \in LeafLocs /\ IndexOf(l) = op.index /\ l \in Locs
      /\ l \in gone /\ gone \subseteq Locs /\ \A m \in gone : m \in LeafLocs => m = l
      /\ freed = {PtrOf(op.local, blk, m) : m \in gone}
      /\ \A m \in Locs : PtrOf(local, blocks, m) = IF m \in gone THEN 0 ELSE PtrOf(op.local, blk, m)
      /\ local.mode = op.local.mode /\ local.size = op.local.size
      /\ local.block_count = CountWithout(PtrOf(op.local, blk, l))
      /\ ContentKept(blocks) /\ Unmap(freed, local, blocks)
  BY LocTypes DEF IsUnmap
<1>3. op.kind \in {"truncate", "unlink"}
  BY <1>2 DEF Removing, Running
<1>4. /\ TypeOK /\ op.kind # "idle" /\ me \in Ino /\ op.index \in Nat
      /\ op.local \in InodeType /\ Cur(me) = op.local /\ ~Ahead(me)
      /\ \A m \in Locs : Ptr(me, m) = PtrOf(op.local, blk, m)
      /\ Extent(me, op.linked) = op.local.size /\ Extent(me, op.copied) = op.local.size
      /\ FileSound(me) /\ Modes /\ Removed
  BY <1>1, <1>3, RemovalFacts
<1>5. /\ op'.kind = op.kind /\ op'.ino = op.ino /\ op'.local = local /\ op'.index = op.index + 1
      /\ op'.lo = op.lo /\ op'.hi = op.hi /\ op'.linked = op.linked /\ op'.copied = op.copied
      /\ inode' = inode /\ spoiled' = spoiled /\ leaky' = leaky
      /\ blk' = blocks /\ bitmap' = bitmap \ freed
  BY <1>2, <1>4 DEF Unmap, TypeOK, OpType, History
<1>6. Runs(me)
  BY <1>1, <1>4, <1>5, UnmapSafe DEF Runs
<1>7. Cur(me)' = local /\ ~Ahead(me)'
  BY <1>1, <1>3, <1>5 DEF Cur, Busy, Ahead
<1>8. \A m \in Locs : Ptr(me, m)' = IF m \in gone THEN 0 ELSE Ptr(me, m)
  BY <1>2, <1>4, <1>5, <1>7 DEF Ptr
<1>9. Extent(me, op.linked)' = op.local.size /\ Extent(me, op.copied)' = op.local.size
  BY <1>2, <1>7 DEF Extent
<1>10. Mapped(me)' = Mapped(me) \ {l}
  BY <1>2, <1>8, LocTypes DEF Mapped
<1>11. Within(me) => Within(me)'
  BY <1>4, <1>9, <1>10 DEF Within
<1>12. ZeroTail(me) => ZeroTail(me)'
  <2>1. SUFFICES ASSUME ZeroTail(me), NEW m \in Mapped(me), m # l, NEW k \in Cells,
                        IndexOf(m) * P + k >= op.local.size
                 PROVE  blk'[Ptr(me, m)'][k] = 0
    BY <1>9, <1>10 DEF ZeroTail
  <2>2. m \in LeafLocs /\ m \in Locs /\ m \notin gone /\ Ptr(me, m) # 0
    BY <1>2, <2>1, LocTypes DEF Mapped
  <2>3. Ptr(me, m)' = Ptr(me, m) /\ blocks[Ptr(me, m)] = blk[Ptr(me, m)]
    BY <1>2, <1>4, <1>8, <2>2 DEF ContentKept
  <2> QED
    BY <1>4, <1>5, <2>1, <2>3 DEF ZeroTail
<1>13. Cur(me).block_count = Cardinality(Mapped(me)) => (Cur(me).block_count = Cardinality(Mapped(me)))'
  <2>1. IsFiniteSet(Mapped(me)) /\ Cardinality(Mapped(me)) \in 0..CountMod-1
    BY MappedCount DEF Mapped
  <2>2. CASE Ptr(me, l) = 0
    <3>1. Mapped(me)' = Mapped(me)
      BY <1>10, <2>2 DEF Mapped
    <3>2. local.block_count = op.local.block_count
      BY <1>2, <1>4, <2>2 DEF CountWithout
    <3> QED
      BY <1>4, <1>7, <3>1, <3>2
  <2>3. CASE Ptr(me, l) # 0
    <3>1. l \in Mapped(me)
      BY <1>2, <2>3 DEF Mapped
    <3>2. Cardinality(Mapped(me) \ {l}) = Cardinality(Mapped(me)) - 1
      BY <2>1, <3>1, FS_RemoveElement
    <3>3. Cardinality(Mapped(me) \ {l}) \in 0..CountMod-1
      BY MappedCount DEF Mapped
    <3>4. local.block_count = Decr(op.local.block_count)
      BY <1>2, <1>4, <2>3 DEF CountWithout
    <3>5. op.local.block_count = Cardinality(Mapped(me)) =>
             local.block_count = Cardinality(Mapped(me) \ {l})
      BY <2>1, <3>2, <3>3, <3>4 DEF Decr
    <3> QED
      BY <1>4, <1>7, <1>10, <3>5
  <2> QED
    BY <2>2, <2>3
<1>14. Kept(me) => Kept(me)'
  <2>1. SUFFICES ASSUME Kept(me), NEW h \in Locs \ LeafLocs, Ptr(me, h)' # 0
                 PROVE  \E c \in Locs : Holder(c) = h /\ Ptr(me, c)' # 0
    BY DEF Kept
  <2>2. h \notin gone /\ Ptr(me, h) # 0
    BY <1>8, <2>1
  <2>3. PICK c \in Locs : Holder(c) = h /\ Ptr(me, c) # 0
    BY <1>4, <2>1, <2>2 DEF Kept
  <2>4. CASE c \notin gone
    BY <1>8, <2>3, <2>4
  <2>5. CASE c \in gone
    <3>1. \E d \in Locs \ gone : Holder(d) = h /\ PtrOf(op.local, blk, d) # 0
      BY <1>4, <2>1, <2>2, <2>3, <2>5 DEF IsUnmap
    <3> QED
      BY <1>4, <1>8, <3>1
  <2> QED
    BY <2>4, <2>5
<1>15. FileSound(me)'
  BY <1>4, <1>5, <1>11, <1>12, <1>13, <1>14 DEF FileSound
<1>16. Accounts(me)
  <2>1. \A x \in bitmap' : x \in bitmap
    BY <1>5
  <2>2. ASSUME NEW m \in Locs, Ptr(me, m) \in bitmap' PROVE Ptr(me, m)' = Ptr(me, m)
    <3>1. Ptr(me, m) \notin freed
      BY <1>5, <2>2
    <3>2. m \notin gone
      BY <1>2, <1>4, <3>1
    <3> QED
      BY <1>8, <3>2
  <2> QED
    BY <2>1, <2>2 DEF Accounts
<1>17. Removed'
  <2>1. ASSUME NEW m \in LeafLocs, PtrOf(local, blocks, m) # 0, IndexOf(m) >= BlocksFor(op.lo)
        PROVE  IndexOf(m) >= op.index + 1
    <3>1. m \in Locs /\ m \notin gone /\ PtrOf(op.local, blk, m) # 0
      BY <1>2, <2>1, LocTypes
    <3>2. IndexOf(m) >= op.index
      BY <1>3, <1>4, <2>1, <3>1 DEF Removed
    <3>3. IndexOf(m) # op.index
      BY <1>2, <3>1, IndexOnce
    <3>4. IndexOf(m) \in Nat
      BY IndexOnce
    <3> QED
      BY <1>4, <3>2, <3>3, <3>4
  <2> QED
    BY <1>2, <1>3, <1>4, <1>5, <2>1 DEF Removed
<1>18. Modes' /\ Fresh'
  BY <1>2, <1>3, <1>4, <1>5 DEF Modes, Fresh
<1> QED
  BY <1>6, <1>15, <1>16, <1>17, <1>18, FilesStep

LEMMA RemoveNothingFiles ==
    ASSUME BlockMapInv, FilesInv, RemoveNothing
    PROVE  FilesInv'
<1>1. PICK me : me = op.ino
  OBVIOUS
<1>2. op.kind \in {"truncate", "unlink"}
  BY DEF RemoveNothing, Removing, Running
<1>3. /\ TypeOK /\ op.kind # "idle" /\ me \in Ino /\ op.index \in Nat /\ Cur(me) = op.local
      /\ ~Ahead(me) /\ FileSound(me) /\ Modes /\ Removed
  BY <1>1, <1>2, RemovalFacts
<1>4. /\ op'.kind = op.kind /\ op'.ino = op.ino /\ op'.local = op.local /\ op'.index = op.index + 1
      /\ op'.lo = op.lo /\ op'.hi = op.hi
      /\ inode' = inode /\ spoiled' = spoiled /\ leaky' = leaky /\ blk' = blk /\ bitmap' = bitmap
  BY <1>3 DEF RemoveNothing, TypeOK, OpType, History
<1>5. Runs(me)
  BY <1>1, <1>3, <1>4, RemoveNothingSafe DEF Runs
<1>6. Same(me) /\ Quiet(me) /\ Quiet(me)'
  BY <1>1, <1>2, <1>3, <1>4 DEF Same, Quiet, Ptr, Cur, Busy, Ahead
<1>7. FileSound(me)'
  BY <1>3, <1>4, <1>6, SameSound
<1>8. Accounts(me)
  BY <1>4, <1>6 DEF Accounts, Same
<1>9. ASSUME NEW m \in LeafLocs, IndexOf(m) = op.index PROVE PtrOf(op.local, blk, m) = 0
  <2>1. \A k : CellOf(blk, 0, k) = 0
    BY DEF CellOf
  <2>2. CASE \E k \in Direct : m = <<"direct", k, 0>> /\ IndexOf(m) = k
    BY <1>9, <2>2, ConstantsType DEF RemoveNothing, Direct
  <2>3. CASE \E k \in Cells : m = <<"leaf1", k, 0>> /\ IndexOf(m) = NDirect + k
    <3>1. m[1] = "leaf1" /\ op.local.single = 0
      BY <1>9, <2>3 DEF RemoveNothing
    <3> QED
      BY <2>1, <3>1, PtrBy
  <2>4. CASE \E o, k \in Cells : m = <<"leaf2", o, k>>
    <3>1. PICK o \in Cells, k \in Cells : m = <<"leaf2", o, k>>
      BY <2>4
    <3>2. m[1] = "leaf2" /\ m[2] = o /\ m[3] = k
      BY <3>1
    <3>3. IndexOf(m) = NDirect + P + o * P + k
      BY <3>2 DEF IndexOf
    <3> HIDE <3>1
    <3>4. CellOf(blk, op.local.double, o) = 0
      BY <1>9, <3>3 DEF RemoveNothing
    <3> QED
      BY <2>1, <3>2, <3>4, PtrBy
  <2> QED
    BY <2>2, <2>3, <2>4, LeafCases
<1>10. Removed'
  <2>1. ASSUME NEW m \in LeafLocs, PtrOf(op.local, blk, m) # 0, IndexOf(m) >= BlocksFor(op.lo)
        PROVE  IndexOf(m) >= op.index + 1
    <3>1. IndexOf(m) >= op.index /\ IndexOf(m) # op.index /\ IndexOf(m) \in Nat
      BY <1>2, <1>3, <1>9, <2>1, IndexOnce DEF Removed
    <3> QED
      BY <1>3, <3>1
  <2> QED
    BY <1>2, <1>3, <1>4, <2>1 DEF Removed
<1>11. Modes' /\ Fresh'
  BY <1>2, <1>3, <1>4 DEF Modes, Fresh
<1> QED
  BY <1>5, <1>7, <1>8, <1>10, <1>11, FilesStep

\* When a removal has come to the end of the file, what it leaves is what it keeps.
LEMMA AllRemoved ==
    ASSUME BlockMapInv, FilesInv, op.kind \in {"truncate", "unlink"}, ~More, NEW me, me = op.ino,
           Within(me), NEW l \in Mapped(me)
    PROVE  IndexOf(l) < BlocksFor(op.lo) /\ IndexOf(l) * P < op.lo
<1>1. /\ op.index \in Nat /\ op.lo \in Nat /\ op.hi \in Nat
      /\ Extent(me, op.linked) = op.local.size /\ Removed
      /\ \A m \in Locs : Ptr(me, m) = PtrOf(op.local, blk, m)
  BY RemovalFacts
<1>2. l \in LeafLocs /\ l \in Locs /\ PtrOf(op.local, blk, l) # 0 /\ IndexOf(l) \in Nat
  BY <1>1, LocTypes, IndexOnce DEF Mapped
<1>3. op.hi = op.local.size /\ op.lo <= op.hi
  BY <1>1 DEF Removed
<1>4. IndexOf(l) * P < op.hi /\ IndexOf(l) < BlocksFor(op.hi)
  <2>1. IndexOf(l) * P < op.hi
    BY <1>1, <1>3 DEF Within
  <2> QED
    BY <1>1, <1>2, <2>1, Ceiling
<1>5. BlocksFor(op.hi) \in Nat /\ BlocksFor(op.lo) \in Nat
  BY <1>1, DivType
<1>6. CASE op.index * P < op.hi
  <2>1. op.lo = op.hi
    BY <1>1, <1>3, <1>6 DEF More
  <2> QED
    BY <1>4, <2>1
<1>7. CASE ~(op.index * P < op.hi)
  <2>1. ~(op.index < BlocksFor(op.hi))
    BY <1>1, <1>7, Ceiling
  <2>2. IndexOf(l) < op.index
    BY <1>1, <1>2, <1>4, <1>5, <2>1
  <2>3. ~(IndexOf(l) >= BlocksFor(op.lo))
    BY <1>1, <1>2, <2>2 DEF Removed
  <2>4. IndexOf(l) < BlocksFor(op.lo)
    BY <1>2, <1>5, <2>3
  <2> QED
    BY <1>1, <1>2, <2>4, Ceiling
<1> QED
  BY <1>6, <1>7

LEMMA FinishShrinkFiles ==
    ASSUME BlockMapInv, FilesInv, FinishShrink
    PROVE  FilesInv'
<1>1. PICK me : me = op.ino
  OBVIOUS
<1>2. op.kind \in {"truncate", "unlink"} /\ op.kind = "truncate" /\ ~More
  BY DEF FinishShrink, Running
<1>3. /\ TypeOK /\ Unshared /\ Held /\ op.kind # "idle" /\ me \in Ino /\ op.local \in InodeType
      /\ op.lo \in Nat /\ Cur(me) = op.local /\ ~Ahead(me) /\ FileSound(me) /\ Modes
      /\ \A m \in Locs : Ptr(me, m) = PtrOf(op.local, blk, m)
  BY <1>1, <1>2, RemovalFacts
<1> DEFINE n == [op.local EXCEPT !.size = op.lo]
<1>4. /\ op' = Idle /\ op'.kind = "idle" /\ inode' = [inode EXCEPT ![op.ino] = n]
      /\ bitmap' = bitmap /\ spoiled' = spoiled /\ leaky' = leaky
  BY DEF FinishShrink, History, Idle
<1>5. /\ n.direct = op.local.direct /\ n.single = op.local.single /\ n.double = op.local.double
      /\ n.mode = op.local.mode /\ n.block_count = op.local.block_count /\ n.size = op.lo
  BY <1>3 DEF InodeType
<1> HIDE DEF n
<1>6. Runs(me)
  BY <1>1, <1>3, <1>4, FinishShrinkSafe DEF Runs
<1>7. /\ inode'[me] = n /\ \A i \in Ino : i # me => inode'[i] = inode[i]
      /\ Cur(me)' = n /\ ~Ahead(me)'
  BY <1>1, <1>3, <1>4 DEF Cur, Busy, Ahead, TypeOK
<1>8. ASSUME NEW x \in Blocks, \A l \in LeafLocs : PtrOf(op.local, blk, l) # x
      PROVE  blk'[x] = blk[x]
  <2>1. blk'[x] = [k \in Cells |-> blk[x][k]]
    BY <1>8 DEF FinishShrink
  <2>2. blk[x] \in [Cells -> Nat]
    BY <1>3 DEF TypeOK
  <2> QED
    BY <2>1, <2>2
<1>9. \A m \in Locs : Ptr(me, m)' = Ptr(me, m)
  <2>1. \A m \in Locs : PtrOf(n, blk', m) = PtrOf(op.local, blk, m)
    BY <1>3, <1>5, <1>8, ContentOnly
  <2> QED
    BY <1>3, <1>7, <2>1 DEF Ptr
<1>10. Mapped(me)' = Mapped(me)
  BY <1>9, LocTypes DEF Mapped
<1>11. Extent(me, op.linked)' = op.lo /\ Extent(me, op.copied)' = op.lo
  BY <1>5, <1>7 DEF Extent
<1>12. Within(me) => Within(me)'
  BY <1>1, <1>2, <1>10, <1>11, AllRemoved DEF Within
<1>13. Within(me) => ZeroTail(me)'
  <2>1. SUFFICES ASSUME Within(me), NEW m \in Mapped(me), NEW k \in Cells, IndexOf(m) * P + k >= op.lo
                 PROVE  blk'[Ptr(me, m)][k] = 0
    BY <1>9, <1>10, <1>11, LocTypes DEF ZeroTail, Mapped
  <2>2. m \in LeafLocs /\ m \in Locs /\ Ptr(me, m) # 0 /\ IndexOf(m) \in Nat
    BY <2>1, LocTypes, IndexOnce DEF Mapped
  <2>3. Ptr(me, m) \in Blocks /\ Ptr(me, m) = PtrOf(op.local, blk, m)
    BY <1>3, <2>2, PtrType
  <2>4. IndexOf(m) < BlocksFor(op.lo) /\ BlocksFor(op.lo) \in Nat
    BY <1>1, <1>2, <1>3, <2>1, AllRemoved, DivType
  <2>5. IndexOf(m) + 1 = BlocksFor(op.lo)
    <3>1. (IndexOf(m) + 1) * P = IndexOf(m) * P + P /\ IndexOf(m) * P \in Nat /\ k \in Nat /\ k < P
      BY <2>2, ConstantsType DEF Cells
    <3>2. ~((IndexOf(m) + 1) * P < op.lo)
      BY <1>3, <2>1, <3>1, ConstantsType
    <3>3. ~(IndexOf(m) + 1 < BlocksFor(op.lo))
      BY <1>3, <2>2, <3>2, Ceiling
    <3> QED
      BY <2>2, <2>4, <3>3
  <2>6. \A x \in Blocks : (\E l \in LeafLocs : /\ IndexOf(l) + 1 = BlocksFor(op.lo)
                                              /\ PtrOf(op.local, blk, l) = x
                                              /\ IndexOf(l) * P + k >= op.lo)
           => blk'[x][k] = 0
    BY DEF FinishShrink
  <2> QED
    BY <2>1, <2>2, <2>3, <2>5, <2>6
<1>14. Kept(me) => Kept(me)'
  BY <1>3, <1>9 DEF Kept
<1>15. FileSound(me)'
  BY <1>3, <1>4, <1>5, <1>7, <1>10, <1>12, <1>13, <1>14 DEF FileSound
<1>16. Accounts(me)
  BY <1>4, <1>9 DEF Accounts
<1>17. Modes' /\ Fresh' /\ Removed'
  BY <1>1, <1>3, <1>4, <1>5, <1>7 DEF Modes, Fresh, Removed
<1> QED
  BY <1>6, <1>15, <1>16, <1>17, FilesStep

\* free_inode: nothing of the file was left, so nothing is lost with its inode.
LEMMA FinishUnlinkFiles ==
    ASSUME BlockMapInv, FilesInv, FinishUnlink
    PROVE  FilesInv'
<1>1. PICK me : me = op.ino
  OBVIOUS
<1>2. op.kind \in {"truncate", "unlink"} /\ op.kind = "unlink" /\ ~More
  BY DEF FinishUnlink, Running
<1>3. /\ TypeOK /\ op.kind # "idle" /\ me \in Ino /\ Cur(me) = op.local /\ ~Ahead(me)
      /\ FileSound(me) /\ Modes /\ Removed
      /\ \A m \in Locs : Ptr(me, m) = PtrOf(op.local, blk, m)
  BY <1>1, <1>2, RemovalFacts
<1>4. /\ op' = Idle /\ op'.kind = "idle" /\ inode' = [inode EXCEPT ![op.ino] = DefaultInode]
      /\ blk' = blk /\ bitmap' = bitmap /\ spoiled' = spoiled \ {op.ino} /\ leaky' = leaky
  BY DEF FinishUnlink, Idle
<1>5. Runs(me)
  BY <1>1, <1>3, <1>4, FinishUnlinkSafe DEF Runs
<1>6. /\ inode'[me] = DefaultInode /\ \A i \in Ino : i # me => inode'[i] = inode[i]
      /\ Cur(me)' = DefaultInode /\ ~Ahead(me)'
  BY <1>1, <1>3, <1>4 DEF Cur, Busy, Ahead, TypeOK
<1>7. \A m \in Locs : Ptr(me, m)' = 0
  <2>1. \A m \in Locs : PtrOf(DefaultInode, blk', m) = 0
    BY PtrOfEmpty DEF DefaultInode
  <2> QED
    BY <1>6, <2>1 DEF Ptr
<1>8. Mapped(me)' = {}
  BY <1>7, LocTypes DEF Mapped
<1>9. FileSound(me)'
  <2>1. Within(me)' /\ ZeroTail(me)'
    BY <1>8 DEF Within, ZeroTail
  <2>2. Kept(me)'
    BY <1>7 DEF Kept
  <2>3. Cur(me)'.block_count = 0 /\ Cardinality({}) = 0
    BY <1>6, FS_EmptySet DEF DefaultInode
  <2> QED
    BY <1>8, <2>1, <2>2, <2>3 DEF FileSound
<1>10. ASSUME ~leaky, NEW m \in Locs PROVE Ptr(me, m) = 0
  <2>1. Within(me) /\ Kept(me)
    BY <1>3, <1>10 DEF FileSound
  <2>2. op.lo = 0
    BY <1>2, <1>3 DEF Removed
  <2>3. ASSUME NEW l \in Mapped(me) PROVE FALSE
    <3>1. IndexOf(l) * P < op.lo
      BY <1>1, <1>2, <2>1, AllRemoved
    <3>2. IndexOf(l) * P \in Nat
      BY IndexOnce, ConstantsType DEF Mapped
    <3> QED
      BY <2>2, <3>1, <3>2
  <2>4. \A l \in LeafLocs : PtrOf(op.local, blk, l) = 0
    BY <1>3, <2>3, LocTypes DEF Mapped
  <2>5. \A h \in Locs \ LeafLocs : PtrOf(op.local, blk, h) # 0 =>
           \E c \in Locs : Holder(c) = h /\ PtrOf(op.local, blk, c) # 0
    BY <1>3, <2>1 DEF Kept
  <2> QED
    BY <1>3, <2>4, <2>5, NoLeafNothing
<1>11. Accounts(me)
  BY <1>4, <1>10 DEF Accounts
<1>12. Modes' /\ Fresh' /\ Removed'
  BY <1>1, <1>3, <1>4, <1>6 DEF Modes, Fresh, Removed
<1> QED
  BY <1>5, <1>9, <1>11, <1>12, FilesStep

\* A removal that is cut short: unless it had not changed the inode, the file is spoiled.
LEMMA DropRemovalFiles ==
    ASSUME BlockMapInv, FilesInv, ReadFailsRemoving \/ BadTail
    PROVE  FilesInv'
<1>1. PICK me : me = op.ino
  OBVIOUS
<1>2. op.kind \in {"truncate", "unlink"} /\ DropRemoval
  BY DEF ReadFailsRemoving, BadTail, Running
<1>3. /\ TypeOK /\ op.kind # "idle" /\ me \in Ino /\ Cur(me) = op.local /\ ~Ahead(me)
      /\ FileSound(me) /\ Modes /\ Removed
  BY <1>1, <1>2, RemovalFacts
<1>4. /\ op' = Idle /\ op'.kind = "idle" /\ inode' = inode /\ blk' = blk /\ bitmap' = bitmap
      /\ spoiled' = (IF op.local = inode[op.ino] THEN spoiled ELSE spoiled \cup {op.ino})
      /\ leaky' = (leaky \/ op.local # inode[op.ino])
  BY <1>2 DEF DropRemoval, Idle
<1>5. leaky => leaky'
  BY <1>4
<1>6. Runs(me)
  BY <1>1, <1>3, <1>4, <1>5, DropRemovalSafe DEF Runs
<1>7. Cur(me)' = inode[me] /\ ~Ahead(me)'
  BY <1>1, <1>4 DEF Cur, Busy, Ahead
<1>8. Modes' /\ Fresh' /\ Removed'
  BY <1>3, <1>4 DEF Modes, Fresh, Removed
<1>9. CASE op.local = inode[me]
  <2>1. Same(me) /\ Quiet(me) /\ Quiet(me)'
    BY <1>3, <1>4, <1>7, <1>9 DEF Same, Ptr, Quiet
  <2>2. FileSound(me)'
    BY <1>3, <1>4, <1>5, <2>1, SameSound
  <2>3. Accounts(me)
    BY <1>4, <2>1 DEF Accounts, Same
  <2> QED
    BY <1>6, <1>8, <2>2, <2>3, FilesStep
<1>10. CASE op.local # inode[me]
  <2>1. me \in spoiled' /\ leaky'
    BY <1>1, <1>4, <1>10
  <2>2. FileSound(me)' /\ Accounts(me)
    BY <2>1 DEF FileSound, Accounts
  <2> QED
    BY <1>6, <1>8, <2>2, FilesStep
<1> QED
  BY <1>9, <1>10

-----------------------------------------------------------------------------
(* Steps between operations                                                *)

\* A step taken when no operation runs that is about file i at most, takes no block
\* from it and marks at most blocks that it then names.
LEMMA IdleFiles ==
    ASSUME BlockMapInv, FilesInv, op.kind = "idle", NEW i \in Ino, FileSound(i)',
           \A j \in Ino : j # i => Same(j) /\ Quiet(j)',
           leaky' = leaky, spoiled' = spoiled,
           \A b \in bitmap' : b \in bitmap \/ \E l \in Locs : Ptr(i, l)' = b,
           \A l \in Locs : Ptr(i, l) # 0 => Ptr(i, l)' = Ptr(i, l),
           Removed', Fresh', Modes'
    PROVE  FilesInv'
<1>1. ASSUME NEW j \in Ino PROVE FileSound(j)'
  <2>1. FileSound(j) /\ Quiet(j)
    BY DEF FilesInv, Quiet, Ahead, Busy
  <2> QED
    BY <2>1, SameSound
<1>2. SpaceAccounted'
  <2>1. SUFFICES ASSUME ~leaky, NEW b \in bitmap' PROVE \E j \in Ino : \E l \in Locs : Ptr(j, l)' = b
    BY DEF SpaceAccounted
  <2>2. CASE b \notin bitmap
    BY <2>2
  <2>3. CASE b \in bitmap
    <3>1. PICK j \in Ino, l \in Locs : Ptr(j, l) = b
      BY <2>1, <2>3 DEF FilesInv, SpaceAccounted
    <3>2. b # 0
      BY <2>3, ConstantsType DEF BlockMapInv, TypeOK
    <3>3. Ptr(j, l)' = b
      BY <3>1, <3>2 DEF Same
    <3> QED
      BY <3>3
  <2> QED
    BY <2>2, <2>3
<1> QED
  BY <1>1, <1>2 DEF FilesInv

\* What BeginGrow, BeginUnlink, BeginShrink and BeginWrite have in common.
LEMMA BeginFiles ==
    ASSUME BlockMapInv, FilesInv, op.kind = "idle", ~torn, NEW i \in Ino, NEW kind \in OpKinds,
           NEW first \in Nat, NEW lo, NEW hi, NEW val, op' = Begin(kind, i, first, lo, hi, val),
           UNCHANGED <<bitmap, blk, inode, History>>, inode[i].mode # "free",
           kind \in {"truncate", "unlink"} =>
               /\ hi = inode[i].size
               /\ IF kind = "unlink" THEN lo = 0 ELSE lo < hi
               /\ first <= BlocksFor(lo) /\ BlocksFor(lo) \in Nat
    PROVE  FilesInv'
<1>1. /\ op'.kind = kind /\ op'.ino = i /\ op'.local = inode[i] /\ op'.index = first
      /\ op'.lo = lo /\ op'.hi = hi /\ op'.linked = FALSE /\ op'.copied = FALSE
      /\ bitmap' = bitmap /\ blk' = blk /\ inode' = inode /\ spoiled' = spoiled /\ leaky' = leaky
  BY DEF Begin, History
<1>2. \A j \in Ino : Cur(j) = inode[j] /\ Cur(j)' = inode[j]
  BY <1>1 DEF Cur, Busy
<1>3. \A j \in Ino : Same(j) /\ Quiet(j) /\ Quiet(j)'
  BY <1>1, <1>2 DEF Same, Ptr, Quiet, Ahead, Busy
<1>4. FileSound(i)'
  BY <1>1, <1>3, SameSound DEF FilesInv
<1>5. Modes' /\ Fresh'
  BY <1>1 DEF FilesInv, Modes, Fresh
<1>6. Removed'
  <2>1. CASE kind \notin {"truncate", "unlink"}
    BY <1>1, <2>1 DEF Removed
  <2>2. CASE kind \in {"truncate", "unlink"}
    <3>1. \A l \in LeafLocs : IndexOf(l) >= BlocksFor(lo) => IndexOf(l) >= first
      BY <2>2, IndexOnce
    <3> QED
      BY <1>1, <2>2, <3>1 DEF Removed
  <2> QED
    BY <2>1, <2>2
<1>7. \A l \in Locs : Ptr(i, l) # 0 => Ptr(i, l)' = Ptr(i, l)
  BY <1>3 DEF Same
<1> QED
  BY <1>1, <1>3, <1>4, <1>5, <1>6, <1>7, IdleFiles

LEMMA CreateFiles ==
    ASSUME BlockMapInv, FilesInv, NEW i \in Ino, Create(i)
    PROVE  FilesInv'
<1> DEFINE n == [DefaultInode EXCEPT !.mode = "file"]
<1>1. /\ op.kind = "idle" /\ op' = op /\ bitmap' = bitmap /\ blk' = blk /\ inode[i].mode = "free"
      /\ spoiled' = spoiled /\ leaky' = leaky /\ inode' = [inode EXCEPT ![i] = n]
  BY DEF Create, History, FirstFreeInode
<1>2. n.direct = DefaultInode.direct /\ n.single = 0 /\ n.double = 0 /\ n.block_count = 0 /\ n.mode = "file"
  BY DEF DefaultInode
<1> HIDE DEF n
<1>3. /\ inode'[i] = n /\ \A j \in Ino : j # i => inode'[j] = inode[j]
      /\ \A j \in Ino : Cur(j) = inode[j] /\ Cur(j)' = inode'[j]
  BY <1>1 DEF Cur, Busy, BlockMapInv, TypeOK
<1>4. inode[i] = DefaultInode
  BY <1>1 DEF FilesInv, Modes
<1>5. \A l \in Locs : Ptr(i, l) = 0 /\ Ptr(i, l)' = 0
  <2>1. \A l \in Locs : PtrOf(n, blk', l) = 0
    BY <1>2, PtrOfEmpty
  <2>2. \A l \in Locs : PtrOf(DefaultInode, blk, l) = 0
    BY PtrOfEmpty DEF DefaultInode
  <2> QED
    BY <1>3, <1>4, <2>1, <2>2 DEF Ptr
<1>6. FileSound(i)'
  <2>1. Mapped(i)' = {}
    BY <1>5, LocTypes DEF Mapped
  <2>2. Within(i)' /\ ZeroTail(i)' /\ Kept(i)'
    BY <1>5, <2>1 DEF Within, ZeroTail, Kept
  <2> QED
    BY <1>2, <1>3, <2>1, <2>2, FS_EmptySet DEF FileSound
<1>7. \A j \in Ino : j # i => Same(j) /\ Quiet(j)'
  BY <1>1, <1>3 DEF Same, Ptr, Quiet, Ahead, Busy
<1>8. Removed' /\ Fresh' /\ Modes'
  BY <1>1, <1>2, <1>3 DEF Removed, Fresh, Modes, FilesInv
<1> QED
  BY <1>1, <1>5, <1>6, <1>7, <1>8, IdleFiles

LEMMA MkdirFiles ==
    ASSUME BlockMapInv, FilesInv, NEW i \in Ino, Mkdir(i)
    PROVE  FilesInv'
<1> DEFINE n(b) == [DefaultInode EXCEPT !.mode = "dir", !.size = P, !.block_count = 1, !.direct[0] = b]
           l == <<"direct", 0, 0>>
<1>1. /\ op.kind = "idle" /\ op' = op /\ ~torn /\ inode[i].mode = "free"
      /\ spoiled' = spoiled /\ leaky' = leaky
  BY DEF Mkdir, History, FirstFreeInode
<1>2. TypeOK /\ Held
  BY <1>1, AllStored
<1>3. PICK b \in Blocks :
         /\ b \notin bitmap /\ bitmap' = bitmap \cup {b}
         /\ blk' = [blk EXCEPT ![b] = DirBlock]
         /\ inode' = [inode EXCEPT ![i] = n(b)]
         /\ \A m \in Locs : Ptr(i, m)' = IF m = l THEN b ELSE 0
         /\ \A j \in Ino : j # i => \A m \in Locs : Ptr(j, m)' = Ptr(j, m)
  BY MkdirAdds
<1>4. n(b).size = P /\ n(b).block_count = 1 /\ n(b).mode = "dir"
  BY DEF DefaultInode
<1>5. l \in LeafLocs /\ l \in Locs /\ IndexOf(l) = 0
  BY ConstantsType, LocTypes DEF IndexOf
<1>6. b # 0 /\ P \in Nat /\ P > 0
  BY ConstantsType
<1> HIDE DEF n, l
<1>7. /\ inode'[i] = n(b) /\ \A j \in Ino : j # i => inode'[j] = inode[j]
      /\ \A j \in Ino : Cur(j) = inode[j] /\ Cur(j)' = inode'[j] /\ ~Ahead(j)'
  BY <1>1, <1>2, <1>3 DEF Cur, Busy, Ahead, TypeOK
<1>8. \A m \in Locs : Ptr(i, m) = 0
  <2>1. \A m \in Locs : PtrOf(DefaultInode, blk, m) = 0
    BY PtrOfEmpty DEF DefaultInode
  <2>2. inode[i] = DefaultInode
    BY <1>1 DEF FilesInv, Modes
  <2> QED
    BY <1>7, <2>1, <2>2 DEF Ptr
<1>9. FileSound(i)'
  <2>1. Mapped(i)' = {l}
    BY <1>3, <1>5, <1>6, LocTypes DEF Mapped
  <2>2. Extent(i, op.linked)' = P /\ Extent(i, op.copied)' = P
    BY <1>4, <1>7 DEF Extent
  <2>3. Within(i)'
    BY <1>5, <1>6, <2>1, <2>2 DEF Within
  <2>4. ZeroTail(i)'
    <3>1. \A k \in Cells : ~(IndexOf(l) * P + k >= P)
      BY <1>5, <1>6 DEF Cells
    <3> QED
      BY <2>1, <2>2, <3>1 DEF ZeroTail
  <2>5. Kept(i)'
    BY <1>3, <1>5 DEF Kept
  <2>6. Cur(i)'.block_count = 1 /\ Cardinality({l}) = 1
    BY <1>4, <1>7, FS_Singleton
  <2> QED
    BY <2>1, <2>3, <2>4, <2>5, <2>6 DEF FileSound
<1>10. ASSUME NEW j \in Ino, j # i PROVE Same(j) /\ Quiet(j)'
  <2>1. ASSUME NEW m \in LeafLocs, Ptr(j, m) # 0 PROVE blk'[Ptr(j, m)] = blk[Ptr(j, m)]
    <3>1. Ptr(j, m) \in bitmap /\ Ptr(j, m) \in Blocks
      BY <1>2, <2>1, LocTypes, PtrType
    <3> QED
      BY <1>2, <1>3, <3>1 DEF TypeOK
  <2> QED
    BY <1>3, <1>7, <1>10, <2>1 DEF Same, Quiet
<1>11. Removed' /\ Fresh' /\ Modes'
  BY <1>1, <1>4, <1>7 DEF Removed, Fresh, Modes, FilesInv
<1>12. \A x \in bitmap' : x \in bitmap \/ \E m \in Locs : Ptr(i, m)' = x
  BY <1>3, <1>5
<1> QED
  BY <1>1, <1>8, <1>9, <1>10, <1>11, <1>12, IdleFiles

LEMMA ExtendFiles ==
    ASSUME BlockMapInv, FilesInv, NEW i \in Ino, NEW size \in NewSizes, Extend(i, size)
    PROVE  FilesInv'
<1> DEFINE n == [inode[i] EXCEPT !.size = size]
<1>1. /\ op.kind = "idle" /\ op' = op /\ ~torn /\ bitmap' = bitmap /\ blk' = blk
      /\ inode[i].mode = "file" /\ size >= inode[i].size
      /\ spoiled' = spoiled /\ leaky' = leaky /\ inode' = [inode EXCEPT ![i] = n]
  BY DEF Extend, History
<1>2. inode[i] \in InodeType /\ size \in Nat
  BY ConstantsAssumption DEF ConstantsAssumption, BlockMapInv, TypeOK
<1>3. /\ n.direct = inode[i].direct /\ n.single = inode[i].single /\ n.double = inode[i].double
      /\ n.mode = inode[i].mode /\ n.block_count = inode[i].block_count /\ n.size = size
      /\ inode[i].size \in Nat
  BY <1>2 DEF InodeType
<1> HIDE DEF n
<1>4. /\ inode'[i] = n /\ \A j \in Ino : j # i => inode'[j] = inode[j]
      /\ \A j \in Ino : Cur(j) = inode[j] /\ Cur(j)' = inode'[j] /\ ~Ahead(j) /\ ~Ahead(j)'
  BY <1>1 DEF Cur, Busy, Ahead, BlockMapInv, TypeOK
<1>5. \A l \in Locs : Ptr(i, l)' = Ptr(i, l)
  <2>1. \A l \in Locs : PtrOf(n, blk, l) = PtrOf(inode[i], blk, l)
    BY <1>3, PtrSame
  <2> QED
    BY <1>1, <1>4, <2>1 DEF Ptr
<1>6. Mapped(i)' = Mapped(i)
  BY <1>5, LocTypes DEF Mapped
<1>7. /\ Extent(i, op.linked) = inode[i].size /\ Extent(i, op.copied) = inode[i].size
      /\ Extent(i, op.linked)' = size /\ Extent(i, op.copied)' = size
  BY <1>3, <1>4 DEF Extent
<1>8. \A l \in LeafLocs : IndexOf(l) * P \in Nat /\ \A k \in Cells : IndexOf(l) * P + k \in Nat
  BY IndexOnce, ConstantsType
<1>9. Within(i) => Within(i)'
  <2>1. SUFFICES ASSUME Within(i), NEW l \in Mapped(i) PROVE IndexOf(l) * P < size
    BY <1>6, <1>7 DEF Within
  <2>2. IndexOf(l) * P < inode[i].size /\ IndexOf(l) * P \in Nat
    BY <1>7, <1>8, <2>1 DEF Within, Mapped
  <2> QED
    BY <1>1, <1>2, <1>3, <2>2
<1>10. ZeroTail(i) => ZeroTail(i)'
  <2>1. SUFFICES ASSUME ZeroTail(i), NEW l \in Mapped(i), NEW k \in Cells, IndexOf(l) * P + k >= size
                 PROVE  blk[Ptr(i, l)][k] = 0
    BY <1>1, <1>5, <1>6, <1>7, LocTypes DEF ZeroTail, Mapped
  <2>2. IndexOf(l) * P + k >= inode[i].size
    BY <1>1, <1>2, <1>3, <1>8, <2>1 DEF Mapped
  <2> QED
    BY <1>7, <2>1, <2>2 DEF ZeroTail
<1>11. Kept(i) => Kept(i)'
  BY <1>4, <1>5 DEF Kept
<1>12. FileSound(i)'
  BY <1>1, <1>3, <1>4, <1>6, <1>9, <1>10, <1>11 DEF FileSound, FilesInv
<1>13. \A j \in Ino : j # i => Same(j) /\ Quiet(j)'
  BY <1>1, <1>4 DEF Same, Ptr, Quiet
<1>14. Removed' /\ Fresh' /\ Modes'
  BY <1>1, <1>3, <1>4 DEF Removed, Fresh, Modes, FilesInv
<1> QED
  BY <1>1, <1>5, <1>12, <1>13, <1>14, IdleFiles

-----------------------------------------------------------------------------
(* The invariant                                                           *)

LEMMA InitFiles == Init => FilesInv
<1> SUFFICES ASSUME Init PROVE FilesInv
  OBVIOUS
<1> DEFINE n == [DefaultInode EXCEPT !.mode = "dir", !.size = P, !.block_count = 1,
                                     !.direct[0] = DataStart]
           l == <<"direct", 0, 0>>
<1>1. op.kind = "idle" /\ bitmap = {DataStart} /\ inode = [i \in Ino |-> IF i = Root THEN n ELSE DefaultInode]
  BY DEF Init, Idle
<1>2. /\ n.single = 0 /\ n.double = 0 /\ n.size = P /\ n.block_count = 1 /\ n.mode = "dir"
      /\ \A k \in Direct : n.direct[k] = IF k = 0 THEN DataStart ELSE 0
  BY ConstantsType DEF DefaultInode
<1>3. l \in LeafLocs /\ l \in Locs /\ IndexOf(l) = 0
  BY ConstantsType, LocTypes DEF IndexOf
<1>4. DataStart # 0 /\ P \in Nat /\ P > 0 /\ Root \in Ino
  BY ConstantsType, ConstantsAssumption DEF ConstantsAssumption, Root, Ino
<1> HIDE DEF n
<1>5. \A i \in Ino : Cur(i) = (IF i = Root THEN n ELSE DefaultInode) /\ ~Ahead(i)
  BY <1>1 DEF Cur, Busy, Ahead
<1>6. ASSUME NEW m \in Locs PROVE PtrOf(n, blk, m) = IF m = l THEN DataStart ELSE 0
  <2>1. CASE m[1] = "direct"
    <3>1. PICK k \in Direct : m = <<"direct", k, 0>>
      BY <2>1, LocCases
    <3>2. m = l <=> k = 0
      BY <3>1
    <3>3. m[1] = "direct" /\ m[2] = k
      BY <3>1
    <3> QED
      BY <1>2, <3>2, <3>3, PtrBy
  <2>2. CASE m[1] # "direct"
    <3>1. \A k : CellOf(blk, 0, k) = 0
      BY DEF CellOf
    <3>2. PtrOf(n, blk, m) = 0
      BY <1>2, <2>2, <3>1, PtrBy, LocParts
    <3> QED
      BY <2>2, <3>2
  <2> QED
    BY <2>1, <2>2
<1> HIDE DEF l
<1>7. \A m \in Locs : PtrOf(DefaultInode, blk, m) = 0
  BY PtrOfEmpty DEF DefaultInode
<1>8. \A i \in Ino, m \in Locs : Ptr(i, m) = IF i = Root /\ m = l THEN DataStart ELSE 0
  BY <1>5, <1>6, <1>7 DEF Ptr
<1>9. ASSUME NEW i \in Ino PROVE FileSound(i)
  <2>1. Mapped(i) = IF i = Root THEN {l} ELSE {}
    BY <1>3, <1>4, <1>8, LocTypes DEF Mapped
  <2>2. Kept(i)
    BY <1>3, <1>8 DEF Kept
  <2>3. CASE i = Root
    <3>1. Extent(i, op.linked) = P /\ Extent(i, op.copied) = P
      BY <1>2, <1>5, <2>3 DEF Extent
    <3>2. Within(i)
      BY <1>3, <1>4, <2>1, <3>1 DEF Within
    <3>3. \A k \in Cells : ~(IndexOf(l) * P + k >= P)
      BY <1>3, <1>4 DEF Cells
    <3>4. ZeroTail(i)
      BY <2>1, <2>3, <3>1, <3>3 DEF ZeroTail
    <3>5. Cur(i).block_count = 1 /\ Cardinality({l}) = 1
      BY <1>2, <1>5, <2>3, FS_Singleton
    <3> QED
      BY <2>1, <2>2, <2>3, <3>2, <3>4, <3>5 DEF FileSound
  <2>4. CASE i # Root
    <3>1. Cur(i).block_count = 0 /\ Cardinality({}) = 0
      BY <1>5, <2>4, FS_EmptySet DEF DefaultInode
    <3> QED
      BY <2>1, <2>2, <2>4, <3>1 DEF FileSound, Within, ZeroTail
  <2> QED
    BY <2>3, <2>4
<1>10. SpaceAccounted
  BY <1>1, <1>3, <1>4, <1>8 DEF SpaceAccounted
<1>11. Removed /\ Fresh /\ Modes
  BY <1>1, <1>2 DEF Removed, Fresh, Modes
<1> QED
  BY <1>9, <1>10, <1>11 DEF FilesInv

LEMMA StutterFiles ==
    ASSUME FilesInv, UNCHANGED vars
    PROVE  FilesInv'
<1>1. /\ bitmap' = bitmap /\ blk' = blk /\ inode' = inode /\ op' = op
      /\ spoiled' = spoiled /\ leaky' = leaky
  BY DEF vars
<1>2. SpaceAccounted' /\ Removed' /\ Fresh' /\ Modes'
  BY <1>1 DEF FilesInv, SpaceAccounted, Removed, Fresh, Modes, Ptr, Cur, Busy
<1>3. ASSUME NEW i \in Ino PROVE FileSound(i)'
  <2>1. FileSound(i)
    BY DEF FilesInv
  <2> QED
    BY <1>1, <2>1
    DEF FileSound, Within, ZeroTail, Kept, Mapped, Extent, Ahead, More, Ptr, Cur, Busy
<1> QED
  BY <1>2, <1>3 DEF FilesInv

\* A mkdir that lost its block: the space is lost, and no file is another.
LEMMA MkdirFailsFiles ==
    ASSUME FilesInv, MkdirFails
    PROVE  FilesInv'
<1>1. blk' = blk /\ inode' = inode /\ op' = op /\ spoiled' = spoiled /\ leaky'
  BY DEF MkdirFails, LoseBlock
<1>2. SpaceAccounted' /\ Removed' /\ Fresh' /\ Modes'
  BY <1>1 DEF FilesInv, SpaceAccounted, Removed, Fresh, Modes
<1>3. ASSUME NEW i \in Ino PROVE FileSound(i)'
  <2>1. FileSound(i)
    BY DEF FilesInv
  <2> QED
    BY <1>1, <2>1
    DEF FileSound, Within, ZeroTail, Kept, Mapped, Extent, Ahead, More, Ptr, Cur, Busy
<1> QED
  BY <1>2, <1>3 DEF FilesInv

LEMMA NextFiles == BlockMapInv /\ FilesInv /\ [Next]_vars => FilesInv'
<1> SUFFICES ASSUME BlockMapInv, FilesInv, [Next]_vars PROVE FilesInv'
  OBVIOUS
<1>1. ASSUME NEW i \in Ino, Create(i) \/ Mkdir(i) \/ BeginGrow(i) \/ BeginUnlink(i)
      PROVE  FilesInv'
  <2>0. inode[i].size \in Nat
    BY DEF BlockMapInv, TypeOK, InodeType
  <2>1. CASE BeginGrow(i)
    <3>1. BlocksFor(inode[i].size) \in Nat
      BY <2>0, DivType
    <3> QED
      BY <2>1, <3>1, BeginFiles DEF BeginGrow, OpKinds
  <2>2. CASE BeginUnlink(i)
    <3>1. BlocksFor(0) \in Nat /\ 0 <= BlocksFor(0)
      BY DivType
    <3> QED
      BY <2>2, <3>1, BeginFiles DEF BeginUnlink, OpKinds
  <2> QED
    BY <1>1, <2>1, <2>2, CreateFiles, MkdirFiles
<1>2. ASSUME NEW i \in Ino, NEW size \in NewSizes, Extend(i, size) \/ BeginShrink(i, size)
      PROVE  FilesInv'
  <2>1. CASE BeginShrink(i, size)
    <3>1. size \in Nat
      BY ConstantsAssumption DEF ConstantsAssumption
    <3>2. BlocksFor(size) \in Nat
      BY <3>1, DivType
    <3> QED
      BY <2>1, <3>2, BeginFiles DEF BeginShrink, OpKinds
  <2> QED
    BY <1>2, <2>1, ExtendFiles
<1>3. ASSUME NEW i \in Ino, NEW offset \in Offsets, NEW len \in Lengths, NEW v \in Data,
             BeginWrite(i, offset, len, v)
      PROVE  FilesInv'
  <2>1. offset \div P \in Nat
    BY DivType, ConstantsAssumption DEF ConstantsAssumption
  <2> QED
    BY <1>3, <2>1, BeginFiles DEF BeginWrite, OpKinds
<1>4. ASSUME LinkStep PROVE FilesInv'
  <2>1. PICK l, b, local, blocks : IsLink(l, b, local, blocks)
    BY <1>4, LinkStepIs
  <2> QED
    BY <2>1, LinkFiles
<1>5. ASSUME UnmapStep PROVE FilesInv'
  <2>1. PICK gone, l, freed, local, blocks : IsUnmap(gone, l, freed, local, blocks)
    BY <1>5, UnmapStepIs
  <2> QED
    BY <2>1, UnmapFiles
<1>6. ASSUME NoSpace \/ BadBlock \/ ReadFailsExtending \/ AllocationFails PROVE FilesInv'
  BY <1>6, GivingUp, GiveUpFiles
<1>7. ASSUME BeyondRepair PROVE FilesInv'
  BY <1>7, StutterFiles DEF BeyondRepair
<1> QED
  BY <1>1, <1>2, <1>3, <1>4, <1>5, <1>6, <1>7, CopyFiles, FinishWriteFiles, RemoveNothingFiles,
     FinishShrinkFiles, FinishUnlinkFiles, DropRemovalFiles, MkdirFailsFiles, StutterFiles
  DEF Next, LinkStep, UnmapStep

LEMMA FilesHold == Spec => []FilesInv
BY InitFiles, NextFiles, InvHolds, PTL DEF Spec

\* No block is lost: as long as no operation failed half way, every set bit of the
\* bitmap belongs to a file, so what unlink and truncate free (remove_mapped_block,
\* down to the pointer blocks they empty) is all that a file had.
THEOREM SpaceIsAccounted == Spec => []SpaceAccounted
<1>1. FilesInv => SpaceAccounted
  BY DEF FilesInv
<1> QED
  BY <1>1, FilesHold, PTL

\* block_count, which bmap and remove_mapped_block keep up with a wrapping increment
\* and decrement, is the number of data blocks mapped, in the middle of an operation
\* too, for every file on which none failed half way.
THEOREM CountsAreExact == Spec => []CountExact
<1>1. FilesInv => CountExact
  BY DEF FilesInv, FileSound, CountExact
<1> QED
  BY <1>1, FilesHold, PTL

\* truncate and write leave nothing past the end of a file, neither a mapped block nor
\* a byte in the tail of the last one, so that extending it later exposes only zeros.
THEOREM NothingIsLeftPastEOF == Spec => []NothingPastEOF
<1>1. FilesInv => NothingPastEOF
  <2> SUFFICES ASSUME FilesInv, NEW i \in Ino \ spoiled, ~Busy(i), NEW l \in Mapped(i)
               PROVE  /\ IndexOf(l) * P < inode[i].size
                      /\ \A k \in Cells :
                            IndexOf(l) * P + k >= inode[i].size => blk[Ptr(i, l)][k] = 0
    BY DEF NothingPastEOF
  <2>1. Within(i) /\ ZeroTail(i)
    BY DEF FilesInv, FileSound
  <2>2. Extent(i, op.linked) = inode[i].size /\ Extent(i, op.copied) = inode[i].size
    BY DEF Extent, Ahead, Cur
  <2> QED
    BY <2>1, <2>2 DEF Within, ZeroTail
<1> QED
  BY <1>1, FilesHold, PTL

-----------------------------------------------------------------------------
(* The refinement of FileSpec: arithmetic of cells                         *)

LEMMA Quotient ==
    ASSUME NEW c \in Nat
    PROVE  \E q \in Nat, k \in Cells : c = q * P + k
<1> DEFINE q == c \div P
           r == c % P
<1>1. P \in Nat /\ P > 0
  BY ConstantsType
<1>2. q \in Nat /\ r \in 0..P-1 /\ c = P * q + r
  BY <1>1
<1> HIDE DEF q, r
<1>3. P * q = q * P
  BY <1>1, <1>2
<1>4. Cells = 0..P-1
  BY DEF Cells
<1>5. q \in Nat /\ r \in Cells /\ c = q * P + r
  BY <1>2, <1>3, <1>4
<1> QED
  BY <1>5

LEMMA Products ==
    ASSUME NEW x \in Nat, NEW y \in Nat
    PROVE  x * P \in Nat /\ (x < y => x * P + P <= y * P) /\ (x <= y => x * P <= y * P)
<1>1. P \in Nat
  BY ConstantsType
<1>2. ASSUME x < y PROVE x * P + P <= y * P
  <2>1. PICK d \in Nat : y = x + 1 + d
    <3>1. y - x - 1 \in Nat /\ y = x + 1 + (y - x - 1)
      BY <1>2
    <3> QED
      BY <3>1
  <2>2. y * P = x * P + P + d * P /\ d * P \in Nat
    BY <1>1, <2>1
  <2> QED
    BY <1>1, <2>2
<1>3. x * P \in Nat
  BY <1>1
<1>4. x <= y => x < y \/ x = y
  OBVIOUS
<1> QED
  BY <1>1, <1>2, <1>3, <1>4

LEMMA Division ==
    ASSUME NEW x \in Nat, NEW k \in Cells
    PROVE  (x * P + k) \div P = x /\ (x * P + k) % P = k
<1> DEFINE c == x * P + k
           q == c \div P
           r == c % P
           X == x * P
           Q == q * P
<1>0. P \in Nat /\ k \in 0..P-1 /\ X \in Nat
  BY ConstantsType, Products DEF Cells
<1>1. c \in Nat /\ P \in Nat /\ k \in 0..P-1
  BY <1>0
<1>2. q \in Nat /\ r \in 0..P-1 /\ c = Q + r
  <2>1. P > 0
    BY ConstantsType
  <2>2. q \in Nat /\ r \in 0..P-1 /\ c = P * q + r
    BY <1>1, <2>1
  <2> HIDE DEF c, q, r
  <2> QED
    BY <1>1, <2>2
<1>3. X \in Nat /\ Q \in Nat /\ (x < q => X + P <= Q) /\ (q < x => Q + P <= X)
  BY <1>2, Products
<1>4. c = X + k
  OBVIOUS
<1> HIDE DEF c, X, Q, q, r
<1>5. ~(x < q) /\ ~(q < x)
  BY <1>1, <1>2, <1>3, <1>4
<1>6. x = q
  BY <1>2, <1>5
<1>7. X = Q
  BY <1>6 DEF X, Q
<1>8. r = k
  BY <1>1, <1>2, <1>3, <1>4, <1>7
<1> QED
  BY <1>6, <1>8 DEF c, q, r

\* Every cell a file can hold is in a logical block that the map has a place for.
LEMMA IndexOnto ==
    ASSUME NEW c \in 0..MaxCells-1
    PROVE  \E l \in LeafLocs, k \in Cells : c = IndexOf(l) * P + k
<1> DEFINE Q == P * P
<1>1. c \in Nat /\ P \in Nat /\ P > 0 /\ NDirect \in Nat /\ Q \in Nat /\ MaxIndex = NDirect + P + Q
  BY ConstantsType DEF MaxCells, MaxIndex
<1>2. PICK q \in Nat, r \in Cells : c = q * P + r
  BY <1>1, Quotient
<1>3. q < MaxIndex
  <2>1. MaxIndex \in Nat
    BY <1>1
  <2>2. MaxIndex <= q => MaxIndex * P <= q * P
    BY <1>2, <2>1, Products
  <2>3. c < MaxIndex * P /\ MaxIndex * P \in Nat /\ q * P \in Nat
    BY <1>2, <2>1, Products DEF MaxCells
  <2> HIDE DEF Q
  <2> QED
    BY <1>1, <1>2, <2>1, <2>2, <2>3, ConstantsType
<1>4. \E l \in LeafLocs : IndexOf(l) = q
  <2>1. CASE q < NDirect
    <3>1. q \in Direct
      BY <1>1, <1>2, <2>1 DEF Direct
    <3> DEFINE l == <<"direct", q, 0>>
    <3>2. l \in LeafLocs /\ l[1] = "direct" /\ l[2] = q
      BY <3>1, LocTypes
    <3>3. IndexOf(l) = q
      BY <3>2 DEF IndexOf
    <3> QED
      BY <3>2, <3>3
  <2>2. CASE NDirect <= q /\ q < NDirect + P
    <3> DEFINE k == q - NDirect
    <3>1. k \in Cells /\ NDirect + k = q
      BY <1>1, <1>2, <2>2 DEF Cells
    <3> DEFINE l == <<"leaf1", k, 0>>
    <3>2. l \in LeafLocs /\ l[1] = "leaf1" /\ l[2] = k
      BY <3>1, LocTypes
    <3>3. IndexOf(l) = NDirect + k
      BY <3>2 DEF IndexOf
    <3> QED
      BY <3>1, <3>2, <3>3
  <2>3. CASE NDirect + P <= q
    <3>1. PICK d \in Nat : d < Q /\ NDirect + P + d = q
      <4> HIDE DEF Q
      <4>1. q - NDirect - P \in Nat /\ q - NDirect - P < Q /\ NDirect + P + (q - NDirect - P) = q
        BY <1>1, <1>2, <1>3, <2>3
      <4> QED
        BY <4>1
    <3>2. PICK o \in Nat, k \in Cells : d = o * P + k
      BY <3>1, Quotient
    <3>3. o < P
      <4>1. P <= o => Q <= o * P
        BY <1>1, <3>2, Products
      <4>2. o * P \in Nat
        BY <3>2, Products
      <4> HIDE DEF Q
      <4> QED
        BY <1>1, <3>1, <3>2, <4>1, <4>2, ConstantsType
    <3>4. o \in Cells
      BY <1>1, <3>2, <3>3 DEF Cells
    <3> DEFINE l == <<"leaf2", o, k>>
    <3>5. l \in LeafLocs
      BY <3>2, <3>4, LocTypes
    <3>6. IndexOf(l) = NDirect + P + o * P + k
      BY DEF IndexOf
    <3>7. o * P \in Nat /\ k \in Nat
      BY <3>2, Products, ConstantsType
    <3>8. IndexOf(l) = q
      BY <1>1, <3>1, <3>2, <3>6, <3>7
    <3> QED
      BY <3>5, <3>8
  <2> QED
    BY <1>1, <1>2, <2>1, <2>2, <2>3
<1> QED
  BY <1>2, <1>4

-----------------------------------------------------------------------------
(* What callers see                                                        *)

LEMMA CellIs ==
    ASSUME NEW n, NEW b, NEW l \in LeafLocs, NEW k \in Cells
    PROVE  /\ IndexOf(l) * P + k \in 0..MaxCells-1
           /\ CellAt(n, b, IndexOf(l) * P + k) = Read(n, b, l, k)
<1> DEFINE c == IndexOf(l) * P + k
<1>1. IndexOf(l) \in Nat /\ IndexOf(l) < MaxIndex /\ P \in Nat /\ k \in 0..P-1 /\ MaxIndex \in Nat
  BY IndexOnce, ConstantsType DEF MaxIndex, Cells
<1>2. c \div P = IndexOf(l) /\ c % P = k
  BY <1>1, Division
<1>3. c \in 0..MaxCells-1
  <2>1. IndexOf(l) * P + P <= MaxIndex * P /\ IndexOf(l) * P \in Nat /\ MaxIndex * P \in Nat
    BY <1>1, Products
  <2> QED
    BY <1>1, <2>1 DEF MaxCells
<1> HIDE DEF c
<1>4. \A m \in LeafLocs : IndexOf(m) = c \div P <=> m = l
  BY <1>2, IndexOnce
<1>5. CellAt(n, b, c) = Read(n, b, l, k)
  <2>1. CASE PtrOf(n, b, l) = 0
    BY <1>4, <2>1 DEF CellAt, Read
  <2>2. CASE PtrOf(n, b, l) # 0
    <3>1. \E m \in LeafLocs : IndexOf(m) = c \div P /\ PtrOf(n, b, m) # 0
      BY <1>4, <2>2
    <3>2. (CHOOSE m \in LeafLocs : IndexOf(m) = c \div P) = l
      BY <1>4
    <3> QED
      BY <1>2, <2>2, <3>1, <3>2 DEF CellAt, Read
  <2> QED
    BY <2>1, <2>2
<1> QED
  BY <1>3, <1>5 DEF c

LEMMA CellSeen ==
    ASSUME NEW n, NEW b, NEW l \in LeafLocs, NEW k \in Cells
    PROVE  AsSeen(n, b).cell[IndexOf(l) * P + k] = Read(n, b, l, k)
  BY CellIs DEF AsSeen

\* Two files that are read alike look alike.
LEMMA SeenAlike ==
    ASSUME NEW n, NEW b, NEW m, NEW c, m.mode = n.mode, m.size = n.size,
           \A l \in LeafLocs, k \in Cells : Read(m, c, l, k) = Read(n, b, l, k)
    PROVE  AsSeen(m, c) = AsSeen(n, b)
<1>1. ASSUME NEW x \in 0..MaxCells-1 PROVE CellAt(m, c, x) = CellAt(n, b, x)
  <2>1. PICK l \in LeafLocs, k \in Cells : x = IndexOf(l) * P + k
    BY IndexOnto
  <2> QED
    BY <2>1, CellIs
<1> QED
  BY <1>1 DEF AsSeen

LEMMA SeenIs ==
    /\ SeenFiles = [i \in Ino |-> AsSeen(inode[i], blk)]
    /\ SeenFiles' = [i \in Ino |-> AsSeen(inode'[i], blk')]
    /\ SeenRequest = [kind |-> op.kind, ino |-> op.ino, lo |-> op.lo, hi |-> op.hi, val |-> op.val]
    /\ SeenRequest' = [kind |-> op'.kind, ino |-> op'.ino, lo |-> op'.lo, hi |-> op'.hi, val |-> op'.val]
  BY DEF SeenFiles, SeenRequest

LEMMA SeenFields ==
    ASSUME NEW n, NEW b
    PROVE  /\ AsSeen(n, b).mode = n.mode /\ AsSeen(n, b).size = n.size
           /\ AsSeen(n, b).cell \in [0..MaxCells-1 -> {CellAt(n, b, c) : c \in 0..MaxCells-1}]
  BY DEF AsSeen

LEMMA SameSeen ==
    ASSUME NEW i \in Ino, Same(i), Cur(i) = inode[i], Cur(i)' = inode'[i]
    PROVE  AsSeen(inode'[i], blk') = AsSeen(inode[i], blk)
<1>1. inode'[i] = inode[i]
  BY DEF Same
<1>2. \A l \in Locs : PtrOf(inode'[i], blk', l) = PtrOf(inode[i], blk, l)
  BY DEF Same, Ptr
<1>3. \A l \in LeafLocs : PtrOf(inode[i], blk, l) # 0 =>
         blk'[PtrOf(inode[i], blk, l)] = blk[PtrOf(inode[i], blk, l)]
  BY DEF Same, Ptr
<1>4. \A l \in LeafLocs, k \in Cells : Read(inode'[i], blk', l, k) = Read(inode[i], blk, l, k)
  BY <1>2, <1>3, LocTypes DEF Read
<1> QED
  BY <1>1, <1>4, SeenAlike

\* The other files look as before after a step of an operation.
LEMMA OthersSeen ==
    ASSUME BlockMapInv, op.kind # "idle", OthersKept, op'.kind = "idle" \/ op'.ino = op.ino,
           NEW i \in Ino, i # op.ino
    PROVE  AsSeen(inode'[i], blk') = AsSeen(inode[i], blk)
<1>1. Same(i) /\ Cur(i) = inode[i] /\ Cur(i)' = inode'[i]
  BY OthersQuiet DEF Cur, Busy
<1> QED
  BY <1>1, SameSeen

LEMMA Requests == op.kind # "idle" => SeenRequest # Files!NoRequest
  BY DEF SeenRequest, Files!NoRequest

LEMMA NoRequests == op = Idle => SeenRequest = Files!NoRequest
  BY DEF SeenRequest, Files!NoRequest, Idle, Root

LEMMA ReachIs ==
    /\ Files!Writing <=> op.kind \in {"write", "grow"}
    /\ Files!Goal = IF op.kind \in {"write", "grow"} THEN op.val ELSE 0
    /\ \A c \in 0..MaxCells-1 :
          c \in Files!Reach <=> c >= op.lo /\ (op.kind \in {"write", "grow"} => c < op.hi)
    /\ Files!Positions = 0..MaxCells-1 /\ Files!Reach \subseteq 0..MaxCells-1
  BY DEF Files!Goal, Files!Writing, Files!Reach, Files!Positions, SeenRequest

\* The steps of an operation before its last one.
LEMMA ProgressSeen ==
    ASSUME BlockMapInv, op.kind # "idle", OthersKept, inode' = inode,
           op'.kind = op.kind, op'.ino = op.ino, op'.lo = op.lo, op'.hi = op.hi, op'.val = op.val,
           NEW me \in Ino, me = op.ino,
           \A l \in LeafLocs, k \in Cells :
              \/ Read(inode[me], blk', l, k) = Read(inode[me], blk, l, k)
              \/ /\ IndexOf(l) * P + k \in Files!Reach
                 /\ Read(inode[me], blk', l, k) = Files!Goal
    PROVE  Files!Progress(me)
<1>1. SeenRequest' = SeenRequest /\ SeenRequest # Files!NoRequest /\ SeenRequest.ino = me
  BY Requests, SeenIs
<1> DEFINE f == AsSeen(inode[me], blk)
           g == AsSeen(inode[me], blk')
<1>2. f.mode = g.mode /\ f.size = g.size
  BY SeenFields
<1>3. g = [f EXCEPT !.cell = g.cell]
  <2> DEFINE x == [c \in 0..MaxCells-1 |-> CellAt(inode[me], blk, c)]
             y == [c \in 0..MaxCells-1 |-> CellAt(inode[me], blk', c)]
             n == inode[me]
  <2>1. f = [mode |-> n.mode, size |-> n.size, cell |-> x] /\ g = [mode |-> n.mode, size |-> n.size, cell |-> y]
    BY DEF AsSeen
  <2> HIDE DEF x, y, n, f, g
  <2> QED
    BY <2>1
<1>4. ASSUME NEW x \in 0..MaxCells-1
      PROVE  g.cell[x] = f.cell[x] \/ (x \in Files!Reach /\ g.cell[x] = Files!Goal)
  <2>1. PICK l \in LeafLocs, k \in Cells : x = IndexOf(l) * P + k
    BY IndexOnto
  <2> QED
    BY <2>1, CellSeen
<1> HIDE DEF f, g
<1>5. SeenFiles[me] = f /\ SeenFiles'[me] = g
  BY SeenIs DEF f, g
<1>6. \A i \in Ino : i # me => SeenFiles'[i] = SeenFiles[i]
  BY SeenIs, OthersSeen
<1>7. SeenFiles' = [SeenFiles EXCEPT ![me].cell = SeenFiles'[me].cell]
  BY <1>3, <1>5, <1>6, SeenIs
<1>8. Files!Positions = 0..MaxCells-1 /\ Files!Reach \subseteq 0..MaxCells-1
  BY ReachIs
<1>9. Files!Towards(me, SeenFiles'[me].cell)
  BY <1>4, <1>5, <1>8 DEF Files!Towards
<1> QED
  BY <1>1, <1>7, <1>9 DEF Files!Progress

-----------------------------------------------------------------------------
(* The steps of write and of a growing directory                           *)

\* The field of inode n from which bmap comes to location l is set.
HasRoot(n, l) ==
    IF l[1] = "direct" THEN n.direct[l[2]] # 0
    ELSE IF l[1] \in {"single", "leaf1"} THEN n.single # 0
    ELSE n.double # 0

\* An inode whose fields are those of another, or 0, reaches what the other reaches from
\* those fields.
LEMMA Rooted ==
    ASSUME NEW n, NEW m, \A k \in Direct : n.direct[k] \in {0, m.direct[k]},
           n.single \in {0, m.single}, n.double \in {0, m.double}, NEW b, NEW l \in Locs
    PROVE  PtrOf(n, b, l) = IF HasRoot(n, l) THEN PtrOf(m, b, l) ELSE 0
<1>1. CASE l[1] = "direct"
  <2>1. l[2] \in Direct
    BY <1>1, LocParts
  <2> QED
    BY <1>1, <2>1, PtrBy DEF HasRoot
<1>2. CASE l[1] = "single"
  BY <1>2, PtrBy DEF HasRoot
<1>3. CASE l[1] = "double"
  BY <1>3, PtrBy DEF HasRoot
<1>4. CASE l[1] = "leaf1"
  BY <1>4, PtrBy DEF HasRoot, CellOf
<1>5. CASE l[1] = "inner"
  BY <1>5, PtrBy DEF HasRoot, CellOf
<1>6. CASE l[1] = "leaf2"
  BY <1>6, PtrBy DEF HasRoot, CellOf
<1> QED
  BY <1>1, <1>2, <1>3, <1>4, <1>5, <1>6, LocParts

LEMMA StillUnfinished ==
    ASSUME Unfinished, op.kind # "idle", op'.kind = op.kind, op'.ino = op.ino, op'.lo = op.lo,
           op'.hi = op.hi, op'.local.mode = op.local.mode, op'.local.size = op.local.size,
           inode' = inode
    PROVE  Unfinished'
  BY DEF Unfinished

LEMMA LinkSeen ==
    ASSUME BlockMapInv, SeenInv, NEW l, NEW b, NEW local, NEW blocks, IsLink(l, b, local, blocks),
           NEW me \in Ino, me = op.ino
    PROVE  Files!Progress(me) /\ SeenInv'
<1>1. /\ Extending /\ l \in Locs /\ b \in Blocks
      /\ blocks \in [Blocks -> [Cells -> Nat]] /\ ContentKept(blocks)
      /\ LinksAt(l, b, local, blocks) /\ Link(b, local, blocks) /\ PtrOf(op.local, blk, l) = 0
      /\ local.mode = op.local.mode /\ local.size = op.local.size
  BY DEF IsLink
<1>2. /\ TypeOK /\ Held /\ op.kind # "idle" /\ op.kind \in {"write", "grow"} /\ Blocks \subseteq Nat
  BY <1>1, ExtendingFacts DEF Extending, Running
<1>3. OthersKept /\ LocalExtends'
  BY LinkSafe
<1>4. /\ op'.kind = op.kind /\ op'.ino = op.ino /\ op'.lo = op.lo /\ op'.hi = op.hi
      /\ op'.val = op.val /\ op'.index = op.index /\ op'.local = local
      /\ inode' = inode /\ blk' = [blocks EXCEPT ![b] = ZeroBlock] /\ b \notin bitmap
  BY <1>1, <1>2 DEF Link, Take, FreeBlocks, TypeOK, OpType
<1>5. \A x \in Blocks : blk'[x] = IF x = b THEN ZeroBlock ELSE blocks[x]
  BY <1>1, <1>4
<1> DEFINE n == inode[me]
<1>6. ASSUME NEW q \in LeafLocs
      PROVE  /\ PtrOf(n, blk, q) = IF HasRoot(n, q) THEN PtrOf(op.local, blk, q) ELSE 0
             /\ PtrOf(n, blk', q) = IF HasRoot(n, q) THEN PtrOf(local, blk', q) ELSE 0
             /\ PtrOf(local, blk', q) = IF q = l THEN b ELSE PtrOf(op.local, blk, q)
  <2>1. q \in Locs
    BY LocTypes
  <2>2. /\ \A k \in Direct : n.direct[k] \in {0, op.local.direct[k]}
        /\ n.single \in {0, op.local.single} /\ n.double \in {0, op.local.double}
    BY <1>2 DEF BlockMapInv, LocalExtends
  <2>3. /\ \A k \in Direct : n.direct[k] \in {0, local.direct[k]}
        /\ n.single \in {0, local.single} /\ n.double \in {0, local.double}
    BY <1>2, <1>3, <1>4 DEF LocalExtends
  <2> HIDE DEF n
  <2>4. PtrOf(n, blk, q) = IF HasRoot(n, q) THEN PtrOf(op.local, blk, q) ELSE 0
    BY <2>1, <2>2, Rooted
  <2>5. PtrOf(n, blk', q) = IF HasRoot(n, q) THEN PtrOf(local, blk', q) ELSE 0
    BY <2>1, <2>3, Rooted
  <2> QED
    BY <1>1, <1>4, <2>1, <2>4, <2>5 DEF LinksAt
<1>7. ASSUME NEW q \in LeafLocs, PtrOf(op.local, blk, q) # 0
      PROVE  blk'[PtrOf(op.local, blk, q)] = blk[PtrOf(op.local, blk, q)]
  <2>1. PtrOf(op.local, blk, q) \in bitmap /\ PtrOf(op.local, blk, q) \in Blocks
    BY <1>2, <1>7, LocTypes, Mine DEF Held, TypeOK
  <2> QED
    BY <1>1, <1>4, <1>5, <1>7, <2>1 DEF ContentKept
<1>8. ASSUME NEW k \in Cells PROVE blk'[b][k] = 0
  BY <1>1, <1>5 DEF ZeroBlock
<1>9. b # 0
  BY <1>1, ConstantsType
<1>10. ASSUME NEW q \in LeafLocs, NEW k \in Cells
       PROVE  /\ Read(local, blk', q, k) = Read(op.local, blk, q, k)
              /\ Read(n, blk', q, k) = Read(n, blk, q, k)
  <2> HIDE DEF n
  <2>1. CASE q = l
    BY <1>1, <1>6, <1>8, <2>1 DEF Read
  <2>2. CASE q # l
    BY <1>6, <1>7, <2>2 DEF Read
  <2> QED
    BY <2>1, <2>2
<1>11. Files!Progress(me)
  BY <1>2, <1>3, <1>4, <1>10, ProgressSeen
<1>12. Written'
  <2>1. More' = More
    BY <1>4 DEF More
  <2>2. ASSUME NEW q \in LeafLocs, NEW k \in Cells
        PROVE  IF IndexOf(q) * P + k \in op.lo..op.hi-1
               THEN IndexOf(q) < op.index => Read(local, blk', q, k) = op.val
               ELSE Read(local, blk', q, k) = Read(n, blk', q, k)
    <3>1. IF IndexOf(q) * P + k \in op.lo..op.hi-1
          THEN IndexOf(q) < op.index => Read(op.local, blk, q, k) = op.val
          ELSE Read(op.local, blk, q, k) = Read(n, blk, q, k)
      BY <1>2 DEF SeenInv, Written
    <3> HIDE DEF n
    <3> QED
      BY <1>10, <3>1
  <2>3. op.lo < op.hi /\ op.index > MaxIndex => More
    BY <1>2 DEF SeenInv, Written
  <2> QED
    BY <1>4, <2>1, <2>2, <2>3 DEF Written
<1>13. Retained'
  BY <1>2, <1>4 DEF Retained
<1>14. Unfinished'
  BY <1>1, <1>2, <1>4, StillUnfinished DEF SeenInv
<1> QED
  BY <1>11, <1>12, <1>13, <1>14 DEF SeenInv

LEMMA CopySeen ==
    ASSUME BlockMapInv, SeenInv, CopyBlock, NEW me \in Ino, me = op.ino
    PROVE  Files!Progress(me) /\ SeenInv'
<1>1. Extending
  BY DEF CopyBlock
<1>2. PICK l \in LeafLocs :
         /\ op.index = IndexOf(l) /\ PtrOf(op.local, blk, l) # 0
         /\ blk' = [blk EXCEPT ![PtrOf(op.local, blk, l)] =
                       [k \in Cells |-> IF op.index * P + k \in op.lo..op.hi-1
                                        THEN op.val ELSE @[k]]]
  BY DEF CopyBlock
<1>3. /\ TypeOK /\ Held /\ Unshared /\ op.kind # "idle" /\ op.kind \in {"write", "grow"}
      /\ blk \in [Blocks -> [Cells -> Nat]]
  BY <1>1, ExtendingFacts DEF Extending, Running
<1>4. OthersKept
  BY CopyBlockSafe
<1>5. /\ op'.kind = op.kind /\ op'.ino = op.ino /\ op'.lo = op.lo /\ op'.hi = op.hi
      /\ op'.val = op.val /\ op'.index = op.index + 1 /\ op'.local = op.local /\ inode' = inode
      /\ op.lo \in Nat /\ op.hi \in Nat /\ op.index \in Nat
  BY <1>3 DEF CopyBlock, TypeOK, OpType
<1> DEFINE n == inode[me]
           x == PtrOf(op.local, blk, l)
<1>6. x \in Blocks
  BY <1>2, <1>3, LocTypes, Mine DEF Held, TypeOK
<1>7. /\ \A y \in Blocks : y # x => blk'[y] = blk[y]
      /\ \A k \in Cells : blk'[x][k] = IF IndexOf(l) * P + k \in op.lo..op.hi-1 THEN op.val ELSE blk[x][k]
  BY <1>2, <1>3, <1>6
<1> HIDE DEF x
<1>8. ASSUME NEW q \in Locs
      PROVE  /\ PtrOf(op.local, blk', q) = PtrOf(op.local, blk, q)
             /\ PtrOf(n, blk', q) = PtrOf(n, blk, q)
             /\ PtrOf(n, blk, q) \in {0, PtrOf(op.local, blk, q)}
  <2>1. ASSUME NEW y \in Blocks, \A m \in LeafLocs : PtrOf(op.local, blk, m) # y
        PROVE  blk'[y] = blk[y]
    BY <1>7, <2>1 DEF x
  <2>2. \A m \in Locs : PtrOf(op.local, blk', m) = PtrOf(op.local, blk, m)
    BY <1>3, <2>1, ContentOnly
  <2>3. /\ \A k \in Direct : n.direct[k] \in {0, op.local.direct[k]}
        /\ n.single \in {0, op.local.single} /\ n.double \in {0, op.local.double}
    BY <1>3 DEF BlockMapInv, LocalExtends
  <2> HIDE DEF n
  <2>4. /\ PtrOf(n, blk, q) = IF HasRoot(n, q) THEN PtrOf(op.local, blk, q) ELSE 0
        /\ PtrOf(n, blk', q) = IF HasRoot(n, q) THEN PtrOf(op.local, blk', q) ELSE 0
    BY <2>3, Rooted
  <2> QED
    BY <2>2, <2>4
<1>9. ASSUME NEW q \in LeafLocs, PtrOf(op.local, blk, q) # 0
      PROVE  PtrOf(op.local, blk, q) \in Blocks /\ (PtrOf(op.local, blk, q) = x <=> q = l)
  <2>1. q \in Locs /\ l \in Locs
    BY LocTypes
  <2> QED
    BY <1>2, <1>3, <1>9, <2>1, Mine DEF Held, Unshared, TypeOK, x
<1>10. ASSUME NEW m, NEW q \in LeafLocs, NEW k \in Cells,
              PtrOf(m, blk', q) = PtrOf(m, blk, q), PtrOf(m, blk, q) \in {0, PtrOf(op.local, blk, q)}
       PROVE  IF q = l /\ IndexOf(q) * P + k \in op.lo..op.hi-1 /\ PtrOf(m, blk, q) # 0
              THEN Read(m, blk', q, k) = op.val
              ELSE Read(m, blk', q, k) = Read(m, blk, q, k)
  BY <1>7, <1>9, <1>10 DEF Read
<1>11. ASSUME NEW q \in LeafLocs, NEW k \in Cells
       PROVE  /\ \/ Read(n, blk', q, k) = Read(n, blk, q, k)
                 \/ IndexOf(q) * P + k \in op.lo..op.hi-1 /\ Read(n, blk', q, k) = op.val
              /\ IF q = l /\ IndexOf(q) * P + k \in op.lo..op.hi-1
                 THEN Read(op.local, blk', q, k) = op.val
                 ELSE Read(op.local, blk', q, k) = Read(op.local, blk, q, k)
              /\ IndexOf(q) * P + k \notin op.lo..op.hi-1 => Read(n, blk', q, k) = Read(n, blk, q, k)
  <2>1. q \in Locs /\ PtrOf(op.local, blk, l) # 0
    BY <1>2, LocTypes
  <2> HIDE DEF n
  <2> QED
    BY <1>8, <1>10, <2>1
<1>12. ASSUME NEW q \in LeafLocs, NEW k \in Cells
       PROVE  \/ Read(n, blk', q, k) = Read(n, blk, q, k)
              \/ IndexOf(q) * P + k \in Files!Reach /\ Read(n, blk', q, k) = Files!Goal
  <2>1. IndexOf(q) * P + k \in 0..MaxCells-1
    BY CellIs
  <2>2. Files!Goal = op.val
    BY <1>3, ReachIs
  <2>3. \A c \in 0..MaxCells-1 : c \in op.lo..op.hi-1 => c \in Files!Reach
    BY <1>3, <1>5, ReachIs
  <2> QED
    BY <1>11, <2>1, <2>2, <2>3
<1>13. Files!Progress(me)
  BY <1>3, <1>4, <1>5, <1>12, ProgressSeen
<1>14. Written'
  <2>1. ~(op.index + 1 > MaxIndex)
    BY <1>2, IndexOnce, ConstantsType DEF MaxIndex
  <2>2. ASSUME NEW q \in LeafLocs, NEW k \in Cells
        PROVE  IF IndexOf(q) * P + k \in op.lo..op.hi-1
               THEN IndexOf(q) < op.index + 1 => Read(op.local, blk', q, k) = op.val
               ELSE Read(op.local, blk', q, k) = Read(n, blk', q, k)
    <3>1. IF IndexOf(q) * P + k \in op.lo..op.hi-1
          THEN IndexOf(q) < op.index => Read(op.local, blk, q, k) = op.val
          ELSE Read(op.local, blk, q, k) = Read(n, blk, q, k)
      BY <1>3 DEF SeenInv, Written
    <3>2. IndexOf(q) < op.index + 1 => IndexOf(q) < op.index \/ q = l
      BY <1>2, <1>5, IndexOnce
    <3> HIDE DEF n
    <3> QED
      BY <1>11, <3>1, <3>2
  <2> QED
    BY <1>5, <2>1, <2>2 DEF Written
<1>15. Retained'
  BY <1>3, <1>5 DEF Retained
<1>16. Unfinished'
  BY <1>3, <1>5, StillUnfinished DEF SeenInv
<1> QED
  BY <1>13, <1>14, <1>15, <1>16 DEF SeenInv

LEMMA WholeBlocks ==
    /\ P = BlocksFor(P) * P
    /\ \A n \in Nat : n = BlocksFor(n) * P => n + P = BlocksFor(n + P) * P
<1>1. P \in Nat /\ P > 0 /\ P - 1 \in Cells
  BY ConstantsType DEF Cells
<1>2. ASSUME NEW x \in Nat, NEW n \in Nat, n = x * P PROVE BlocksFor(n) = x
  <2>1. (x * P + (P - 1)) \div P = x
    BY <1>1, Division
  <2>2. n + P - 1 = x * P + (P - 1)
    <3>1. x * P \in Nat
      BY Products
    <3> QED
      BY <1>1, <1>2, <3>1
  <2> QED
    BY <2>1, <2>2 DEF BlocksFor
<1>3. P = BlocksFor(P) * P
  <2>1. P = 1 * P
    BY <1>1
  <2> QED
    BY <1>1, <1>2, <2>1
<1>4. ASSUME NEW n \in Nat, n = BlocksFor(n) * P PROVE n + P = BlocksFor(n + P) * P
  <2>1. PICK x \in Nat : x = BlocksFor(n)
    BY DivType
  <2>2. n + P = (x + 1) * P
    <3>1. (x + 1) * P = x * P + P
      BY <1>1, <2>1
    <3> QED
      BY <1>4, <2>1, <3>1
  <2>3. BlocksFor(n + P) = x + 1
    BY <1>1, <1>2, <2>1, <2>2
  <2> QED
    BY <2>2, <2>3
<1> QED
  BY <1>3, <1>4

\* The last step of an operation other than unlink.
LEMMA CommitSeen ==
    ASSUME BlockMapInv, op.kind \in {"write", "grow", "truncate"}, OthersKept, op' = Idle,
           NEW me \in Ino, me = op.ino, NEW m, m = inode'[me],
           m.mode = inode[me].mode,
           m.size = IF op.kind = "truncate" THEN op.lo
                    ELSE IF op.hi <= inode[me].size THEN inode[me].size ELSE op.hi,
           op.kind # "truncate" /\ op.lo < op.hi => op.hi <= MaxCells,
           \A l \in LeafLocs, k \in Cells :
              IF IndexOf(l) * P + k \in Files!Reach
              THEN /\ Read(m, blk', l, k) \in {Read(inode[me], blk, l, k), Files!Goal}
                   /\ IndexOf(l) * P + k < op.hi => Read(m, blk', l, k) = Files!Goal
              ELSE Read(m, blk', l, k) = Read(inode[me], blk, l, k)
    PROVE  Files!Commit(me)
<1>1. /\ SeenRequest # Files!NoRequest /\ SeenRequest' = Files!NoRequest
      /\ SeenRequest.kind = op.kind /\ SeenRequest.ino = me /\ SeenRequest.lo = op.lo /\ SeenRequest.hi = op.hi
  <2>1. SeenRequest' = Files!NoRequest
    BY DEF SeenRequest, Files!NoRequest, Idle, Root
  <2> QED
    BY <2>1, Requests, SeenIs
<1> DEFINE f == AsSeen(inode[me], blk)
           g == AsSeen(m, blk')
<1>2. /\ f.mode = inode[me].mode /\ f.size = inode[me].size
      /\ g.mode = m.mode /\ g.size = m.size
  BY SeenFields
<1>3. ASSUME NEW x \in 0..MaxCells-1
      PROVE  IF x \in Files!Reach
             THEN g.cell[x] \in {f.cell[x], Files!Goal} /\ (x < op.hi => g.cell[x] = Files!Goal)
             ELSE g.cell[x] = f.cell[x]
  <2>1. PICK l \in LeafLocs, k \in Cells : x = IndexOf(l) * P + k
    BY IndexOnto
  <2> QED
    BY <2>1, CellSeen
<1> HIDE DEF f, g
<1>4. SeenFiles[me] = f /\ SeenFiles'[me] = g
  BY SeenIs DEF f, g
<1>5. \A i \in Ino : i # me => SeenFiles'[i] = SeenFiles[i]
  <2>1. op'.kind = "idle"
    BY DEF Idle
  <2> QED
    BY <2>1, SeenIs, OthersSeen
<1>6. SeenFiles' = [SeenFiles EXCEPT ![me] = SeenFiles'[me]]
  BY <1>5, SeenIs
<1>7. Files!Towards(me, SeenFiles'[me].cell)
  BY <1>3, <1>4, ReachIs DEF Files!Towards
<1>8. \A c \in Files!Reach : c < SeenRequest.hi => SeenFiles'[me].cell[c] = Files!Goal
  BY <1>1, <1>3, <1>4, ReachIs
<1>9. Files!Writing <=> op.kind # "truncate"
  BY ReachIs
<1>10. SeenFiles'[me].mode = SeenFiles[me].mode
  BY <1>2, <1>4
<1>11. SeenFiles'[me].size = IF Files!Writing /\ SeenRequest.hi <= SeenFiles[me].size THEN SeenFiles[me].size
                             ELSE IF Files!Writing THEN SeenRequest.hi ELSE SeenRequest.lo
  BY <1>1, <1>2, <1>4, <1>9
<1> QED
  BY <1>1, <1>6, <1>7, <1>8, <1>9, <1>10, <1>11 DEF Files!Commit

\* At its end nothing is left of an operation but files.
LEMMA EndSeen ==
    ASSUME TypeOK, SeenInv, op' = Idle, NEW me \in Ino, NEW m, inode' = [inode EXCEPT ![me] = m],
           m.mode = "dir" => m.size = BlocksFor(m.size) * P
    PROVE  SeenInv'
<1>1. op'.kind = "idle"
  BY DEF Idle
<1>2. \A i \in Ino : inode'[i] = IF i = me THEN m ELSE inode[i]
  BY DEF TypeOK
<1>3. Unfinished'
  BY <1>1, <1>2 DEF SeenInv, Unfinished
<1> QED
  BY <1>1, <1>3 DEF SeenInv, Written, Retained

LEMMA FinishWriteSeen ==
    ASSUME BlockMapInv, SeenInv, FinishWrite, NEW me \in Ino, me = op.ino
    PROVE  Files!Commit(me) /\ SeenInv'
<1> DEFINE size == IF op.hi > op.local.size THEN op.hi ELSE op.local.size
           m    == [op.local EXCEPT !.size = size]
           n    == inode[me]
<1>1. /\ op.kind \in {"write", "grow"} /\ ~More /\ op' = Idle /\ blk' = blk
      /\ inode' = [inode EXCEPT ![me] = m]
  BY DEF FinishWrite, Running
<1>2. TypeOK /\ op.local \in InodeType /\ op.lo \in Nat /\ op.hi \in Nat /\ op.index \in Nat /\ op.local.size \in Nat
  BY <1>1, Busyness DEF TypeOK, OpType, InodeType
<1>3. /\ m.mode = op.local.mode /\ m.size = size
      /\ m.direct = op.local.direct /\ m.single = op.local.single /\ m.double = op.local.double
  BY <1>2 DEF InodeType
<1> HIDE DEF m
<1>4. ASSUME NEW l \in LeafLocs, NEW k \in Cells PROVE Read(m, blk', l, k) = Read(op.local, blk, l, k)
  <2>1. PtrOf(m, blk, l) = PtrOf(op.local, blk, l)
    BY <1>3, LocTypes, PtrSame
  <2> QED
    BY <1>1, <2>1 DEF Read
<1>5. op.local.mode = n.mode /\ op.local.size = n.size
      /\ (op.kind = "grow" => op.local.mode = "dir" /\ op.hi = op.lo + P /\ op.lo = op.local.size)
      /\ (op.kind = "write" => op.local.mode = "file")
      /\ (n.mode = "dir" => n.size = BlocksFor(n.size) * P)
  BY <1>1 DEF SeenInv, Unfinished
<1>6. op.lo < op.hi => op.index <= MaxIndex /\ op.hi <= op.index * P
  <2>1. op.index * P \in Nat
    BY <1>2, Products
  <2>2. MaxIndex \in Nat
    BY ConstantsType DEF MaxIndex
  <2> QED
    BY <1>1, <1>2, <2>1, <2>2 DEF SeenInv, Written, More
<1>7. op.lo < op.hi => op.hi <= MaxCells
  <2>1. MaxIndex \in Nat
    BY ConstantsType DEF MaxIndex
  <2>2. op.index <= MaxIndex => op.index * P <= MaxIndex * P /\ op.index * P \in Nat /\ MaxIndex * P \in Nat
    BY <1>2, <2>1, Products
  <2>3. MaxCells = MaxIndex * P
    BY DEF MaxCells
  <2> QED
    BY <1>2, <1>6, <2>2, <2>3
<1>8. ASSUME NEW l \in LeafLocs, NEW k \in Cells, NEW c \in 0..MaxCells-1, c = IndexOf(l) * P + k
      PROVE  IF c \in Files!Reach
             THEN Read(m, blk', l, k) = Files!Goal
             ELSE Read(m, blk', l, k) = Read(n, blk, l, k)
  <2>1. c \in Files!Reach <=> c \in op.lo..op.hi-1
    BY <1>1, <1>2, ReachIs
  <2>2. IF c \in op.lo..op.hi-1 THEN IndexOf(l) < op.index => Read(op.local, blk, l, k) = op.val
        ELSE Read(op.local, blk, l, k) = Read(n, blk, l, k)
    BY <1>1, <1>8 DEF SeenInv, Written
  <2>3. c \in op.lo..op.hi-1 => IndexOf(l) < op.index
    <3>1. IndexOf(l) \in Nat /\ IndexOf(l) * P \in Nat /\ op.index * P \in Nat /\ k \in Nat
      BY <1>2, IndexOnce, Products, ConstantsType
    <3>2. op.index <= IndexOf(l) => op.index * P <= IndexOf(l) * P
      BY <1>2, <3>1, Products
    <3> QED
      BY <1>2, <1>6, <1>8, <3>1, <3>2
  <2>4. Files!Goal = op.val
    BY <1>1, ReachIs
  <2> HIDE DEF n
  <2> QED
    BY <1>4, <2>1, <2>2, <2>3, <2>4
<1>9. ASSUME NEW l \in LeafLocs, NEW k \in Cells
      PROVE  IF IndexOf(l) * P + k \in Files!Reach
             THEN Read(m, blk', l, k) = Files!Goal
             ELSE Read(m, blk', l, k) = Read(n, blk, l, k)
  BY <1>8, CellIs
<1>10. n.size \in Nat
  BY <1>2, <1>5
<1>11. m.size = IF op.hi <= n.size THEN n.size ELSE op.hi
  BY <1>2, <1>3, <1>5, <1>10
<1>12. m.mode = "dir" => m.size = BlocksFor(m.size) * P
  <2>1. SUFFICES ASSUME m.mode = "dir" PROVE m.size = BlocksFor(m.size) * P
    OBVIOUS
  <2>2. op.kind = "grow" /\ n.size = BlocksFor(n.size) * P
    BY <1>1, <1>3, <1>5, <2>1
  <2>3. m.size = n.size + P
    BY <1>5, <1>10, <1>11, <2>2, ConstantsType
  <2> QED
    BY <1>10, <2>2, <2>3, WholeBlocks
<1>13. OthersKept
  BY FinishWriteSafe
<1>14. Files!Commit(me)
  <2>1. m.mode = inode[me].mode
    BY <1>3, <1>5
  <2>2. /\ op.kind \in {"write", "grow", "truncate"} /\ op.kind # "truncate"
        /\ m.size = IF op.kind = "truncate" THEN op.lo
                    ELSE IF op.hi <= inode[me].size THEN inode[me].size ELSE op.hi
    BY <1>1, <1>11
  <2> HIDE DEF size
  <2>3. ASSUME NEW l \in LeafLocs, NEW k \in Cells
        PROVE  IF IndexOf(l) * P + k \in Files!Reach
               THEN /\ Read(m, blk', l, k) \in {Read(inode[me], blk, l, k), Files!Goal}
                    /\ IndexOf(l) * P + k < op.hi => Read(m, blk', l, k) = Files!Goal
               ELSE Read(m, blk', l, k) = Read(inode[me], blk, l, k)
    BY <1>9
  <2>4. inode'[me] = m
    BY <1>1, <1>2 DEF TypeOK
  <2> QED
    BY <1>1, <1>7, <1>13, <2>1, <2>2, <2>3, <2>4, CommitSeen
<1>15. SeenInv'
  BY <1>1, <1>2, <1>12, EndSeen
<1> QED
  BY <1>14, <1>15

\* An operation that fails changes nothing that callers see.
LEMMA FailSeen ==
    ASSUME SeenInv, op.kind # "idle", op' = Idle, inode' = inode, blk' = blk
    PROVE  Files!Abandon /\ SeenInv'
<1>1. SeenRequest' = Files!NoRequest
  BY DEF SeenRequest, Files!NoRequest, Idle, Root
<1>2. SeenFiles' = SeenFiles
  BY SeenIs
<1>3. Files!Abandon
  BY <1>1, <1>2, Requests DEF Files!Abandon
<1>4. op'.kind = "idle"
  BY DEF Idle
<1> QED
  BY <1>3, <1>4 DEF SeenInv, Written, Retained, Unfinished

-----------------------------------------------------------------------------
(* The steps of truncate and unlink                                        *)

\* Inode n is in the table, m is the copy and c the copy after a removal, which writes
\* to pointer blocks of the copy that it keeps.  The table then reaches what it reached,
\* or has lost a pointer together with the copy.
LEMMA StoredAfter ==
    ASSUME NEW n, NEW m, NEW c, NEW b, NEW d,
           \A h \in Locs : PtrOf(n, b, h) # 0 =>
               \/ d[PtrOf(n, b, h)] = b[PtrOf(n, b, h)]
               \/ PtrOf(m, b, h) = PtrOf(n, b, h) /\ PtrOf(c, d, h) = PtrOf(n, b, h),
           \A h \in Locs : PtrOf(c, d, h) \in {0, PtrOf(m, b, h)},
           NEW q \in Locs
    PROVE  \/ PtrOf(n, d, q) = PtrOf(n, b, q)
           \/ PtrOf(n, d, q) = 0 /\ PtrOf(c, d, q) = 0 /\ PtrOf(n, b, q) = PtrOf(m, b, q)
<1> DEFINE Sound(x) ==
               \/ PtrOf(n, d, x) = PtrOf(n, b, x)
               \/ PtrOf(n, d, x) = 0 /\ PtrOf(c, d, x) = 0 /\ PtrOf(n, b, x) = PtrOf(m, b, x)
           \* A block number that is read from the block at location h.
           Below(h, x, k) ==
               /\ PtrOf(n, d, x) = CellOf(d, PtrOf(n, d, h), k)
               /\ PtrOf(n, b, x) = CellOf(b, PtrOf(n, b, h), k)
               /\ PtrOf(m, b, x) = CellOf(b, PtrOf(m, b, h), k)
               /\ PtrOf(c, d, x) = CellOf(d, PtrOf(c, d, h), k)
<1>1. ASSUME NEW h \in Locs, NEW x \in Locs, NEW k, Sound(h), Below(h, x, k)
      PROVE  Sound(x)
  <2>1. CASE PtrOf(n, d, h) = PtrOf(n, b, h)
    <3>1. CASE PtrOf(n, b, h) = 0
      BY <1>1, <2>1, <3>1 DEF CellOf
    <3>2. CASE d[PtrOf(n, b, h)] = b[PtrOf(n, b, h)]
      BY <1>1, <2>1, <3>2 DEF CellOf
    <3>3. CASE PtrOf(m, b, h) = PtrOf(n, b, h) /\ PtrOf(c, d, h) = PtrOf(n, b, h)
      <4>1. PtrOf(n, d, x) = PtrOf(c, d, x) /\ PtrOf(n, b, x) = PtrOf(m, b, x)
        BY <1>1, <2>1, <3>3
      <4>2. PtrOf(c, d, x) \in {0, PtrOf(m, b, x)}
        BY <1>1
      <4> QED
        BY <4>1, <4>2
    <3> QED
      BY <1>1, <3>1, <3>2, <3>3
  <2>2. CASE PtrOf(n, d, h) = 0 /\ PtrOf(c, d, h) = 0 /\ PtrOf(n, b, h) = PtrOf(m, b, h)
    BY <1>1, <2>2 DEF CellOf
  <2> QED
    BY <1>1, <2>1, <2>2
<1>2. ASSUME NEW x \in Locs, x[1] \in {"direct", "single", "double"} PROVE Sound(x)
  BY <1>2, PtrBy
<1>3. ASSUME NEW x \in Locs, x[1] = "leaf1" PROVE Sound(x)
  <2> DEFINE h == <<"single", 0, 0>>
  <2>1. h \in Locs /\ h[1] = "single"
    BY LocTypes
  <2> HIDE DEF h
  <2>2. Below(h, x, x[2])
    BY <1>3, <2>1, PtrBy
  <2>3. Sound(h)
    BY <1>2, <2>1
  <2> HIDE DEF Sound, Below
  <2> QED
    BY <1>1, <2>1, <2>2, <2>3
<1>4. ASSUME NEW x \in Locs, x[1] = "inner" PROVE Sound(x)
  <2> DEFINE h == <<"double", 0, 0>>
  <2>1. h \in Locs /\ h[1] = "double"
    BY LocTypes
  <2> HIDE DEF h
  <2>2. Below(h, x, x[2])
    BY <1>4, <2>1, PtrBy
  <2>3. Sound(h)
    BY <1>2, <2>1
  <2> HIDE DEF Sound, Below
  <2> QED
    BY <1>1, <2>1, <2>2, <2>3
<1>5. ASSUME NEW x \in Locs, x[1] = "leaf2" PROVE Sound(x)
  <2> DEFINE h == <<"inner", x[2], 0>>
  <2>1. h \in Locs /\ h[1] = "inner" /\ h[2] = x[2]
    BY <1>5, LocParts, LocTypes
  <2> HIDE DEF h
  <2>2. Below(h, x, x[3])
    BY <1>5, <2>1, PtrBy
  <2>3. Sound(h)
    BY <1>4, <2>1
  <2> HIDE DEF Sound, Below
  <2> QED
    BY <1>1, <2>1, <2>2, <2>3
<1>6. Sound(q)
  <2> HIDE DEF Sound
  <2> QED
    BY <1>2, <1>3, <1>4, <1>5, LocParts
<1> QED
  BY <1>6

\* What a removal is past lies behind the new end of the file.
LEMMA PastReach ==
    ASSUME op.kind \in {"truncate", "unlink"}, op.lo \in Nat, NEW l \in LeafLocs, NEW k \in Cells,
           IndexOf(l) >= BlocksFor(op.lo)
    PROVE  IndexOf(l) * P + k >= op.lo /\ IndexOf(l) * P + k \in Files!Reach
<1>1. IndexOf(l) \in Nat /\ BlocksFor(op.lo) \in Nat /\ k \in Nat /\ IndexOf(l) * P \in Nat
  BY IndexOnce, DivType, Products, ConstantsType
<1>2. ~(IndexOf(l) < BlocksFor(op.lo))
  BY <1>1
<1>3. ~(IndexOf(l) * P < op.lo)
  BY <1>1, <1>2, Ceiling
<1> DEFINE c == IndexOf(l) * P + k
<1>4. c >= op.lo
  BY <1>1, <1>3
<1>5. c \in 0..MaxCells-1
  BY CellIs
<1> HIDE DEF c
<1>6. c \in Files!Reach
  BY <1>4, <1>5, ReachIs
<1> QED
  BY <1>4, <1>6 DEF c

LEMMA UnmapSeen ==
    ASSUME BlockMapInv, SeenInv, NEW gone, NEW l, NEW freed, NEW local, NEW blocks,
           IsUnmap(gone, l, freed, local, blocks), NEW me \in Ino, me = op.ino
    PROVE  Files!Progress(me) /\ SeenInv'
<1> DEFINE n == inode[me]
           m == op.local
<1>1. /\ Removing /\ l \in LeafLocs /\ IndexOf(l) = op.index
      /\ l \in gone /\ gone \subseteq Locs /\ \A h \in gone : h \in LeafLocs => h = l
      /\ freed = {PtrOf(m, blk, h) : h \in gone}
      /\ \A h \in Locs : PtrOf(local, blocks, h) = IF h \in gone THEN 0 ELSE PtrOf(m, blk, h)
      /\ local.mode = m.mode /\ local.size = m.size
      /\ WritesKept(gone, blocks) /\ Unmap(freed, local, blocks)
  BY DEF IsUnmap
<1>2. /\ TypeOK /\ Unshared /\ Held /\ op.kind # "idle" /\ op.kind \in {"truncate", "unlink"}
      /\ bitmap \subseteq Blocks /\ 0 \notin Blocks
  BY <1>1, RemovingFacts DEF Removing, Running
<1>3. /\ op'.kind = op.kind /\ op'.ino = op.ino /\ op'.lo = op.lo /\ op'.hi = op.hi
      /\ op'.val = op.val /\ op'.index = op.index + 1 /\ op'.local = local /\ inode' = inode
      /\ op.lo \in Nat /\ op.index \in Nat /\ blk' = blocks /\ bitmap' = bitmap \ freed
  BY <1>1, <1>2 DEF Unmap, TypeOK, OpType
<1>4. OthersKept
  BY UnmapSafe
<1>5. ASSUME NEW h \in Locs, PtrOf(m, blk, h) # 0
      PROVE  /\ PtrOf(m, blk, h) \in bitmap
             /\ \A g \in Locs : PtrOf(m, blk, g) = PtrOf(m, blk, h) => g = h
  BY <1>1, <1>2, <1>5, Mine DEF Held, Unshared
<1>6. /\ op.index >= BlocksFor(op.lo)
      /\ \A h \in Locs : PtrOf(n, blk, h) # PtrOf(m, blk, h) =>
            /\ PtrOf(m, blk, h) = 0 /\ PtrOf(n, blk, h) \in FreeBlocks
            /\ h \in LeafLocs => IndexOf(h) >= BlocksFor(op.lo)
  BY <1>2 DEF SeenInv, Retained
<1>7. \A x \in Blocks : blocks[x] = blk[x] \/ \E h \in (Locs \ LeafLocs) \ gone : PtrOf(m, blk, h) = x
  BY <1>1 DEF WritesKept
<1> HIDE DEF n, m
<1>8. ASSUME NEW h \in Locs, PtrOf(n, blk, h) # 0
      PROVE  \/ blocks[PtrOf(n, blk, h)] = blk[PtrOf(n, blk, h)]
             \/ /\ PtrOf(m, blk, h) = PtrOf(n, blk, h) /\ PtrOf(local, blocks, h) = PtrOf(n, blk, h)
                /\ h \notin LeafLocs
  <2>1. PICK x : x = PtrOf(n, blk, h)
    OBVIOUS
  <2>2. x \in Blocks /\ (x \in bitmap => PtrOf(m, blk, h) = x)
    BY <1>2, <1>5, <1>6, <1>8, <2>1 DEF FreeBlocks
  <2>3. ASSUME NEW g \in (Locs \ LeafLocs) \ gone, PtrOf(m, blk, g) = x
        PROVE  PtrOf(m, blk, h) = x /\ PtrOf(local, blocks, h) = x /\ h \notin LeafLocs
    <3>1. x # 0 /\ x \in bitmap
      BY <1>5, <1>8, <2>1, <2>3
    <3>2. g = h
      BY <1>5, <2>2, <2>3, <3>1
    <3> QED
      BY <1>1, <2>3, <3>2
  <2> QED
    BY <1>7, <2>1, <2>2, <2>3
<1>9. ASSUME NEW q \in Locs
      PROVE  \/ PtrOf(n, blocks, q) = PtrOf(n, blk, q)
             \/ /\ PtrOf(n, blocks, q) = 0 /\ PtrOf(local, blocks, q) = 0
                /\ PtrOf(n, blk, q) = PtrOf(m, blk, q)
  <2>1. \A h \in Locs : PtrOf(local, blocks, h) \in {0, PtrOf(m, blk, h)}
    BY <1>1
  <2> QED
    BY <1>8, <2>1, StoredAfter
<1>10. ASSUME NEW q \in LeafLocs, NEW k \in Cells
       PROVE  \/ Read(n, blocks, q, k) = Read(n, blk, q, k)
              \/ IndexOf(q) * P + k \in Files!Reach /\ Read(n, blocks, q, k) = Files!Goal
  <2>1. q \in Locs
    BY LocTypes
  <2>2. CASE PtrOf(n, blocks, q) = PtrOf(n, blk, q)
    BY <1>8, <2>1, <2>2 DEF Read
  <2>3. CASE /\ PtrOf(n, blocks, q) = 0 /\ PtrOf(local, blocks, q) = 0
             /\ PtrOf(n, blk, q) = PtrOf(m, blk, q)
    <3>1. Read(n, blocks, q, k) = 0
      BY <2>3 DEF Read
    <3>2. CASE PtrOf(m, blk, q) = 0
      BY <2>3, <3>1, <3>2 DEF Read
    <3>3. CASE PtrOf(m, blk, q) # 0
      <4>1. q = l
        BY <1>1, <2>1, <2>3, <3>3
      <4>2. IndexOf(q) * P + k \in Files!Reach
        BY <1>1, <1>2, <1>3, <1>6, <4>1, PastReach
      <4>3. Files!Goal = 0
        BY <1>2, ReachIs
      <4> QED
        BY <3>1, <4>2, <4>3
    <3> QED
      BY <3>2, <3>3
  <2> QED
    BY <1>9, <2>1, <2>2, <2>3
<1>11. Files!Progress(me)
  BY <1>2, <1>3, <1>4, <1>10, ProgressSeen DEF n
<1>12. ASSUME NEW q \in Locs, PtrOf(n, blocks, q) # PtrOf(local, blocks, q)
       PROVE  /\ PtrOf(local, blocks, q) = 0 /\ PtrOf(n, blocks, q) \in Blocks \ bitmap'
              /\ q \in LeafLocs => IndexOf(q) >= BlocksFor(op.lo)
  <2>1. PtrOf(n, blocks, q) = PtrOf(n, blk, q)
    BY <1>9, <1>12
  <2>2. CASE PtrOf(n, blk, q) # PtrOf(m, blk, q)
    BY <1>1, <1>3, <1>6, <2>1, <2>2 DEF FreeBlocks
  <2>3. CASE PtrOf(n, blk, q) = PtrOf(m, blk, q)
    <3>1. q \in gone /\ PtrOf(local, blocks, q) = 0 /\ PtrOf(m, blk, q) # 0
      BY <1>1, <1>12, <2>1, <2>3
    <3>2. PtrOf(m, blk, q) \in freed
      BY <1>1, <3>1
    <3> QED
      BY <1>1, <1>2, <1>3, <1>5, <1>6, <2>1, <2>3, <3>1, <3>2
  <2> QED
    BY <2>2, <2>3
<1>13. Retained'
  <2>1. FreeBlocks' = Blocks \ bitmap'
    BY DEF FreeBlocks
  <2>2. BlocksFor(op.lo) \in Nat
    BY <1>3, DivType
  <2>3. op.index + 1 >= BlocksFor(op.lo)
    BY <1>3, <1>6, <2>2
  <2> QED
    BY <1>3, <1>12, <2>1, <2>3 DEF Retained, n
<1>14. Written'
  BY <1>2, <1>3 DEF Written
<1>15. Unfinished'
  BY <1>1, <1>2, <1>3, StillUnfinished DEF SeenInv, m
<1> QED
  BY <1>11, <1>13, <1>14, <1>15 DEF SeenInv

LEMMA RemoveNothingSeen ==
    ASSUME BlockMapInv, SeenInv, RemoveNothing
    PROVE  UNCHANGED Files!vars /\ SeenInv'
<1>1. /\ op.kind \in {"truncate", "unlink"} /\ TypeOK
      /\ blk' = blk /\ inode' = inode /\ bitmap' = bitmap
  BY RemovingFacts DEF RemoveNothing, Removing, Running
<1>2. /\ op'.kind = op.kind /\ op'.ino = op.ino /\ op'.lo = op.lo /\ op'.hi = op.hi
      /\ op'.val = op.val /\ op'.index = op.index + 1 /\ op'.local = op.local
      /\ op.index \in Nat /\ op.lo \in Nat
  BY <1>1 DEF RemoveNothing, TypeOK, OpType
<1>3. UNCHANGED Files!vars
  BY <1>1, <1>2, SeenIs DEF Files!vars
<1>4. Retained'
  <2>1. BlocksFor(op.lo) \in Nat /\ FreeBlocks' = FreeBlocks
    BY <1>1, <1>2, DivType DEF FreeBlocks
  <2>2. op.index >= BlocksFor(op.lo) => op.index + 1 >= BlocksFor(op.lo)
    BY <1>2, <2>1
  <2> QED
    BY <1>1, <1>2, <2>1, <2>2 DEF SeenInv, Retained
<1>5. Written' /\ Unfinished'
  BY <1>1, <1>2, StillUnfinished DEF SeenInv, Written
<1> QED
  BY <1>3, <1>4, <1>5 DEF SeenInv

LEMMA FinishShrinkSeen ==
    ASSUME BlockMapInv, FilesInv, SeenInv, FinishShrink, NEW me \in Ino, me = op.ino
    PROVE  Files!Commit(me) /\ SeenInv'
<1> DEFINE n == inode[me]
           m == [op.local EXCEPT !.size = op.lo]
           Tail(x, k) == \E l \in LeafLocs : /\ IndexOf(l) + 1 = BlocksFor(op.lo)
                                             /\ PtrOf(op.local, blk, l) = x
                                             /\ IndexOf(l) * P + k >= op.lo
<1>1. /\ op.kind = "truncate" /\ ~More /\ op' = Idle /\ inode' = [inode EXCEPT ![me] = m]
      /\ blk' = [x \in Blocks |-> [k \in Cells |-> IF Tail(x, k) THEN 0 ELSE blk[x][k]]]
  BY DEF FinishShrink, Running
<1>2. /\ TypeOK /\ Unshared /\ Held /\ op.local \in InodeType /\ op.lo \in Nat /\ op.hi \in Nat
      /\ op.index \in Nat /\ blk \in [Blocks -> [Cells -> Nat]]
  BY <1>1, Busyness DEF TypeOK, OpType
<1>3. /\ m.mode = op.local.mode /\ m.size = op.lo
      /\ m.direct = op.local.direct /\ m.single = op.local.single /\ m.double = op.local.double
  BY <1>2 DEF InodeType
<1>4. \A x \in Blocks, k \in Cells : blk'[x][k] = IF Tail(x, k) THEN 0 ELSE blk[x][k]
  BY <1>1
<1>5. ASSUME NEW x \in Blocks, \A l \in LeafLocs : PtrOf(op.local, blk, l) # x PROVE blk'[x] = blk[x]
  <2>1. \A k \in Cells : ~Tail(x, k)
    BY <1>5
  <2>2. blk'[x] = [k \in Cells |-> blk[x][k]]
    BY <1>1, <2>1
  <2>3. blk[x] \in [Cells -> Nat]
    BY <1>2
  <2> HIDE DEF Tail
  <2> QED
    BY <2>2, <2>3
<1> HIDE DEF m
<1>6. \A l \in Locs : PtrOf(m, blk', l) = PtrOf(op.local, blk, l)
  <2>1. op.kind # "idle"
    BY <1>1
  <2> HIDE DEF Tail
  <2> QED
    BY <1>2, <1>3, <1>5, <2>1, ContentOnly
<1>7. ASSUME NEW l \in LeafLocs, PtrOf(op.local, blk, l) # 0
      PROVE  /\ PtrOf(op.local, blk, l) \in Blocks /\ PtrOf(op.local, blk, l) \in bitmap
             /\ \A g \in Locs : PtrOf(op.local, blk, g) = PtrOf(op.local, blk, l) => g = l
  <2>1. l \in Locs /\ bitmap \subseteq Blocks /\ op.kind # "idle"
    BY <1>1, <1>2, LocTypes DEF TypeOK
  <2> QED
    BY <1>2, <1>7, <2>1, Mine DEF Held, Unshared
<1>8. ASSUME NEW l \in LeafLocs, NEW k \in Cells
      PROVE  Read(m, blk', l, k) = IF IndexOf(l) + 1 = BlocksFor(op.lo) /\ IndexOf(l) * P + k >= op.lo
                                   THEN 0 ELSE Read(op.local, blk, l, k)
  <2>1. l \in Locs
    BY LocTypes
  <2>2. CASE PtrOf(op.local, blk, l) = 0
    BY <1>6, <2>1, <2>2 DEF Read
  <2>3. CASE PtrOf(op.local, blk, l) # 0
    <3>1. Tail(PtrOf(op.local, blk, l), k) <=>
             IndexOf(l) + 1 = BlocksFor(op.lo) /\ IndexOf(l) * P + k >= op.lo
      BY <1>7, <2>1, <2>3, LocTypes
    <3> HIDE DEF Tail
    <3> QED
      BY <1>4, <1>6, <1>7, <2>1, <2>3, <3>1 DEF Read
  <2> QED
    BY <2>2, <2>3
<1>9. \A l \in LeafLocs :
         PtrOf(n, blk, l) # PtrOf(op.local, blk, l) =>
            PtrOf(op.local, blk, l) = 0 /\ IndexOf(l) >= BlocksFor(op.lo)
  BY <1>1, LocTypes DEF SeenInv, Retained
<1>10. op.lo < op.hi /\ op.hi <= op.index * P
  <2>1. op.index * P \in Nat
    BY <1>2, Products
  <2> QED
    BY <1>1, <1>2, <2>1 DEF More, FilesInv, Removed
<1>11. \A l \in LeafLocs : PtrOf(op.local, blk, l) # 0 /\ IndexOf(l) >= BlocksFor(op.lo) => IndexOf(l) >= op.index
  BY <1>1 DEF FilesInv, Removed
<1>12. ASSUME NEW l \in LeafLocs, NEW k \in Cells, NEW c \in 0..MaxCells-1, c = IndexOf(l) * P + k
       PROVE  IF c \in Files!Reach
              THEN /\ Read(m, blk', l, k) \in {Read(n, blk, l, k), Files!Goal}
                   /\ c < op.hi => Read(m, blk', l, k) = Files!Goal
              ELSE Read(m, blk', l, k) = Read(n, blk, l, k)
  <2>1. (c \in Files!Reach <=> c >= op.lo) /\ Files!Goal = 0
    BY <1>1, ReachIs
  <2> DEFINE x == IndexOf(l)
             X == x * P
             top == BlocksFor(op.lo)
  <2>2. x \in Nat /\ X \in Nat /\ top \in Nat /\ k \in 0..P-1 /\ P \in Nat /\ c = X + k
    <3>1. x \in Nat
      BY IndexOnce
    <3>2. X \in Nat
      BY <3>1, Products
    <3>3. top \in Nat
      BY <1>2, DivType
    <3>4. k \in 0..P-1 /\ P \in Nat
      BY ConstantsType DEF Cells
    <3> QED
      BY <1>12, <3>1, <3>2, <3>3, <3>4
  <2>3. x < top <=> X < op.lo
    BY <1>2, <2>2, Ceiling
  <2>4. x + 1 < top => X + P < op.lo
    <3>1. (x + 1) * P = X + P
      BY <2>2
    <3>2. x + 1 < top <=> (x + 1) * P < op.lo
      BY <1>2, <2>2, Ceiling
    <3> QED
      BY <3>1, <3>2
  <2>5. op.index <= x => op.index * P <= X /\ op.index * P \in Nat
    BY <1>2, <2>2, Products
  <2>6. Read(m, blk', l, k) = IF x + 1 = top /\ c >= op.lo THEN 0 ELSE Read(op.local, blk, l, k)
    BY <1>8, <1>12
  <2>7. PtrOf(n, blk, l) # PtrOf(op.local, blk, l) => PtrOf(op.local, blk, l) = 0 /\ x >= top
    BY <1>9
  <2>8. PtrOf(n, blk, l) = PtrOf(op.local, blk, l) => Read(op.local, blk, l, k) = Read(n, blk, l, k)
    BY DEF Read
  <2>9. PtrOf(op.local, blk, l) = 0 => Read(op.local, blk, l, k) = 0
    BY DEF Read
  <2>10. PtrOf(op.local, blk, l) # 0 /\ x >= top => x >= op.index
    BY <1>11
  <2> HIDE DEF x, X, top, n, m
  <2>11. CASE c < op.lo
    <3>1. x < top
      BY <1>2, <2>2, <2>3, <2>11
    <3>2. Read(m, blk', l, k) = Read(n, blk, l, k)
      BY <1>2, <2>2, <2>6, <2>7, <2>8, <2>11, <3>1
    <3> QED
      BY <1>2, <2>1, <2>2, <2>11, <3>2
  <2>12. CASE c >= op.lo /\ x < top
    <3>1. x + 1 = top
      BY <1>2, <2>2, <2>4, <2>12
    <3> QED
      BY <2>1, <2>6, <2>12, <3>1
  <2>13. CASE c >= op.lo /\ x >= top
    <3>1. Read(m, blk', l, k) = Read(op.local, blk, l, k)
      BY <2>2, <2>6, <2>13
    <3>2. CASE PtrOf(op.local, blk, l) = 0
      BY <2>1, <2>9, <2>13, <3>1, <3>2
    <3>3. CASE PtrOf(op.local, blk, l) # 0
      <4>1. Read(m, blk', l, k) = Read(n, blk, l, k)
        BY <2>7, <2>8, <3>1, <3>3
      <4>2. c >= op.hi
        BY <1>2, <1>10, <2>2, <2>5, <2>10, <2>13, <3>3
      <4> QED
        BY <1>2, <2>1, <2>2, <2>13, <4>1, <4>2
    <3> QED
      BY <3>2, <3>3
  <2> QED
    BY <1>2, <2>2, <2>11, <2>12, <2>13
<1>13. ASSUME NEW l \in LeafLocs, NEW k \in Cells
       PROVE  IF IndexOf(l) * P + k \in Files!Reach
              THEN /\ Read(m, blk', l, k) \in {Read(inode[me], blk, l, k), Files!Goal}
                   /\ IndexOf(l) * P + k < op.hi => Read(m, blk', l, k) = Files!Goal
              ELSE Read(m, blk', l, k) = Read(inode[me], blk, l, k)
  BY <1>12, CellIs
<1>14. op.local.mode = inode[me].mode /\ op.local.mode = "file"
  BY <1>1 DEF SeenInv, Unfinished
<1>15. Files!Commit(me)
  <2>1. inode'[me] = m
    BY <1>1, <1>2 DEF TypeOK
  <2>2. OthersKept
    BY FinishShrinkSafe
  <2> HIDE DEF Tail, n
  <2>3. op.kind \in {"write", "grow", "truncate"} /\ ~(op.kind # "truncate")
    BY <1>1
  <2>4. m.mode = inode[me].mode
    BY <1>3, <1>14
  <2>5. m.size = IF op.kind = "truncate" THEN op.lo
                 ELSE IF op.hi <= inode[me].size THEN inode[me].size ELSE op.hi
    BY <1>1, <1>3
  <2> QED
    BY <1>1, <1>13, <2>1, <2>2, <2>3, <2>4, <2>5, CommitSeen
<1>16. SeenInv'
  BY <1>1, <1>2, <1>3, <1>14, EndSeen
<1> QED
  BY <1>15, <1>16

LEMMA AbsentSeen == ASSUME NEW b PROVE AsSeen(DefaultInode, b) = Files!Absent
<1>1. ASSUME NEW c \in 0..MaxCells-1 PROVE CellAt(DefaultInode, b, c) = 0
  <2>1. PICK l \in LeafLocs, k \in Cells : c = IndexOf(l) * P + k
    BY IndexOnto
  <2>2. PtrOf(DefaultInode, b, l) = 0
    BY LocTypes, PtrOfEmpty DEF DefaultInode
  <2> QED
    BY <2>1, <2>2, CellIs DEF Read
<1>2. DefaultInode.mode = "free" /\ DefaultInode.size = 0
  BY DEF DefaultInode
<1> QED
  BY <1>1, <1>2 DEF AsSeen, Files!Absent, Files!Positions

LEMMA FinishUnlinkSeen ==
    ASSUME BlockMapInv, SeenInv, FinishUnlink, NEW me \in Ino, me = op.ino
    PROVE  Files!Commit(me) /\ SeenInv'
<1>1. /\ op.kind = "unlink" /\ op' = Idle /\ blk' = blk /\ inode' = [inode EXCEPT ![me] = DefaultInode]
      /\ op'.kind = "idle"
  BY DEF FinishUnlink, Running, Idle
<1>2. TypeOK
  BY DEF BlockMapInv
<1>3. SeenRequest # Files!NoRequest /\ SeenRequest' = Files!NoRequest /\ SeenRequest.kind = "unlink"
      /\ SeenRequest.ino = me
  <2>1. SeenRequest' = Files!NoRequest
    BY <1>1 DEF SeenRequest, Files!NoRequest, Idle, Root
  <2> QED
    BY <1>1, <2>1, Requests, SeenIs
<1>4. inode'[me] = DefaultInode
  BY <1>1, <1>2 DEF TypeOK
<1>5. SeenFiles'[me] = Files!Absent
  BY <1>4, SeenIs, AbsentSeen
<1>6. \A i \in Ino : i # me => SeenFiles'[i] = SeenFiles[i]
  BY <1>1, SeenIs, OthersSeen, FinishUnlinkSafe
<1>7. SeenFiles' = [SeenFiles EXCEPT ![me] = SeenFiles'[me]]
  BY <1>6, SeenIs
<1>8. Files!Commit(me)
  BY <1>3, <1>5, <1>7 DEF Files!Commit
<1>9. DefaultInode.mode # "dir"
  BY DEF DefaultInode
<1> QED
  BY <1>1, <1>2, <1>8, <1>9, EndSeen

-----------------------------------------------------------------------------
(* The operations that take one step, and the first step of the others      *)

LEMMA DirSeen ==
    ASSUME NEW n, NEW b, NEW x, n.mode = "dir", n.size = P, n.single = 0, n.double = 0,
           \A k \in Direct : n.direct[k] = IF k = 0 THEN x ELSE 0, x # 0, b[x] = DirBlock
    PROVE  AsSeen(n, b) = [mode |-> "dir", size |-> P,
                           cell |-> [c \in Files!Positions |-> IF c < P THEN DirData ELSE 0]]
<1> DEFINE l == <<"direct", 0, 0>>
<1>1. l \in LeafLocs /\ IndexOf(l) = 0
  BY ConstantsType, LocTypes DEF IndexOf
<1> HIDE DEF l
<1>2. ASSUME NEW m \in LeafLocs PROVE PtrOf(n, b, m) = IF m = l THEN x ELSE 0
  <2>1. m \in Locs
    BY LocTypes
  <2>2. PtrOf(n, b, m) = IF m = <<"direct", 0, 0>> THEN x ELSE 0
    BY <2>1, OneBlock
  <2> QED
    BY <2>2 DEF l
<1>3. ASSUME NEW c \in 0..MaxCells-1 PROVE CellAt(n, b, c) = IF c < P THEN DirData ELSE 0
  <2>1. PICK m \in LeafLocs, k \in Cells : c = IndexOf(m) * P + k
    BY IndexOnto
  <2>2. CellAt(n, b, c) = Read(n, b, m, k)
    BY <2>1, CellIs
  <2>3. P \in Nat /\ k \in 0..P-1
    BY ConstantsType DEF Cells
  <2>4. CASE m = l
    <3>1. c = k
      BY <1>1, <2>1, <2>3, <2>4
    <3>2. Read(n, b, m, k) = DirData
      BY <1>2, <2>4 DEF Read, DirBlock
    <3> QED
      BY <2>2, <2>3, <3>1, <3>2
  <2>5. CASE m # l
    <3>1. IndexOf(m) \in Nat /\ 0 < IndexOf(m)
      BY <1>1, <2>5, IndexOnce
    <3>2. 0 * P + P <= IndexOf(m) * P /\ IndexOf(m) * P \in Nat
      BY <3>1, Products
    <3>3. c >= P
      BY <2>1, <2>3, <3>2
    <3>4. Read(n, b, m, k) = 0
      BY <1>2, <2>5 DEF Read
    <3> QED
      BY <2>2, <2>3, <3>3, <3>4
  <2> QED
    BY <2>4, <2>5
<1> QED
  BY <1>3, ReachIs DEF AsSeen

\* What the operations that take one step have in common.
LEMMA OneStepSeen ==
    ASSUME BlockMapInv, SeenInv, op.kind = "idle", op' = op, NEW i \in Ino, NEW m,
           inode' = [inode EXCEPT ![i] = m], m.mode = "dir" => m.size = BlocksFor(m.size) * P,
           \A j \in Ino : j # i => AsSeen(inode[j], blk') = AsSeen(inode[j], blk)
    PROVE  /\ SeenRequest = Files!NoRequest /\ SeenRequest' = SeenRequest
           /\ SeenFiles[i] = AsSeen(inode[i], blk)
           /\ SeenFiles' = [SeenFiles EXCEPT ![i] = AsSeen(m, blk')]
           /\ SeenInv'
<1>1. op = Idle
  BY DEF SeenInv, Unfinished
<1>2. SeenRequest = Files!NoRequest /\ SeenRequest' = SeenRequest
  BY <1>1, NoRequests, SeenIs
<1>3. inode'[i] = m /\ \A j \in Ino : j # i => inode'[j] = inode[j]
  BY DEF BlockMapInv, TypeOK
<1>4. SeenFiles' = [SeenFiles EXCEPT ![i] = AsSeen(m, blk')]
  BY <1>3, SeenIs
<1>5. SeenInv'
  BY <1>1, EndSeen DEF BlockMapInv
<1> QED
  BY <1>2, <1>4, <1>5, SeenIs

LEMMA CreateSeen ==
    ASSUME BlockMapInv, FilesInv, SeenInv, NEW i \in Ino, Create(i)
    PROVE  Files!Appear(i) /\ SeenInv'
<1> DEFINE m == [DefaultInode EXCEPT !.mode = "file"]
<1>1. /\ op.kind = "idle" /\ op' = op /\ blk' = blk /\ inode' = [inode EXCEPT ![i] = m]
      /\ inode[i] = DefaultInode
  BY DEF Create, FirstFreeInode, FilesInv, Modes
<1>2. m.mode = "file" /\ m.size = DefaultInode.size
      /\ m.direct = DefaultInode.direct /\ m.single = DefaultInode.single /\ m.double = DefaultInode.double
  BY DEF DefaultInode
<1> HIDE DEF m
<1>3. /\ SeenRequest = Files!NoRequest /\ SeenRequest' = SeenRequest
      /\ SeenFiles[i] = AsSeen(inode[i], blk)
      /\ SeenFiles' = [SeenFiles EXCEPT ![i] = AsSeen(m, blk')]
      /\ SeenInv'
  BY <1>1, <1>2, OneStepSeen
<1>4. \A x : CellAt(m, blk, x) = CellAt(DefaultInode, blk, x)
  <2>1. \A l \in LeafLocs : PtrOf(m, blk, l) = PtrOf(DefaultInode, blk, l)
    BY <1>2, PtrSame, LocTypes
  <2> QED
    BY <2>1 DEF CellAt
<1>5. SeenFiles[i] = Files!Absent
  BY <1>1, <1>3, AbsentSeen
<1>6. AsSeen(m, blk') = [SeenFiles[i] EXCEPT !.mode = "file"]
  <2> DEFINE cell(n) == [c \in 0..MaxCells-1 |-> CellAt(n, blk, c)]
  <2>1. cell(m) = cell(DefaultInode)
    BY <1>4
  <2>2. /\ AsSeen(m, blk') = [mode |-> m.mode, size |-> m.size, cell |-> cell(m)]
        /\ SeenFiles[i] = [mode |-> inode[i].mode, size |-> inode[i].size, cell |-> cell(inode[i])]
    BY <1>1, <1>3 DEF AsSeen
  <2> HIDE DEF cell
  <2> QED
    BY <1>1, <1>2, <2>1, <2>2
<1> QED
  BY <1>3, <1>5, <1>6 DEF Files!Appear

LEMMA ExtendSeen ==
    ASSUME BlockMapInv, SeenInv, NEW i \in Ino, NEW size \in Nat, Extend(i, size)
    PROVE  Files!Lengthen(i) /\ SeenInv'
<1> DEFINE m == [inode[i] EXCEPT !.size = size]
<1>1. /\ op.kind = "idle" /\ op' = op /\ blk' = blk /\ inode' = [inode EXCEPT ![i] = m]
      /\ inode[i].mode = "file" /\ size >= inode[i].size /\ inode[i] \in InodeType
  BY DEF Extend, BlockMapInv, TypeOK
<1>2. m.mode = "file" /\ m.size = size
      /\ m.direct = inode[i].direct /\ m.single = inode[i].single /\ m.double = inode[i].double
  BY <1>1 DEF InodeType
<1> HIDE DEF m
<1>3. /\ SeenRequest = Files!NoRequest /\ SeenRequest' = SeenRequest
      /\ SeenFiles[i] = AsSeen(inode[i], blk)
      /\ SeenFiles' = [SeenFiles EXCEPT ![i] = AsSeen(m, blk')]
      /\ SeenInv'
  BY <1>1, <1>2, OneStepSeen
<1>4. \A x : CellAt(m, blk, x) = CellAt(inode[i], blk, x)
  <2>1. \A l \in LeafLocs : PtrOf(m, blk, l) = PtrOf(inode[i], blk, l)
    BY <1>2, PtrSame, LocTypes
  <2> QED
    BY <2>1 DEF CellAt
<1>5. AsSeen(m, blk') = [SeenFiles[i] EXCEPT !.size = size]
  <2> DEFINE cell(n) == [c \in 0..MaxCells-1 |-> CellAt(n, blk, c)]
  <2>1. cell(m) = cell(inode[i])
    BY <1>4
  <2>2. /\ AsSeen(m, blk') = [mode |-> m.mode, size |-> m.size, cell |-> cell(m)]
        /\ SeenFiles[i] = [mode |-> inode[i].mode, size |-> inode[i].size, cell |-> cell(inode[i])]
    BY <1>1, <1>3 DEF AsSeen
  <2> HIDE DEF cell
  <2> QED
    BY <1>1, <1>2, <2>1, <2>2
<1>6. SeenFiles[i].mode = "file" /\ SeenFiles[i].size = inode[i].size
  BY <1>1, <1>3, SeenFields
<1>7. SeenFiles'[i] = [SeenFiles[i] EXCEPT !.size = size] /\ SeenFiles'[i].size = size
  BY <1>2, <1>3, <1>5, SeenIs, SeenFields
<1>8. SeenFiles' = [SeenFiles EXCEPT ![i].size = SeenFiles'[i].size]
  BY <1>3, <1>5, <1>7
<1> QED
  BY <1>1, <1>3, <1>6, <1>7, <1>8 DEF Files!Lengthen

LEMMA MkdirSeen ==
    ASSUME BlockMapInv, FilesInv, SeenInv, NEW i \in Ino, Mkdir(i)
    PROVE  Files!Appear(i) /\ SeenInv'
<1>1. op.kind = "idle" /\ op' = op /\ inode[i] = DefaultInode /\ ~torn
  BY DEF Mkdir, FirstFreeInode, FilesInv, Modes
<1> DEFINE n(b) == [DefaultInode EXCEPT !.mode = "dir", !.size = P, !.block_count = 1,
                                        !.direct[0] = b]
<1>2. PICK b \in Blocks :
         /\ b \notin bitmap /\ blk' = [blk EXCEPT ![b] = DirBlock]
         /\ inode' = [inode EXCEPT ![i] = n(b)]
         /\ \A j \in Ino : j # i => \A l \in Locs : Ptr(j, l)' = Ptr(j, l)
  BY MkdirAdds
<1>3. PICK m : m = n(b)
  OBVIOUS
<1>4. /\ m.mode = "dir" /\ m.size = P /\ m.single = 0 /\ m.double = 0
      /\ \A k \in Direct : m.direct[k] = IF k = 0 THEN b ELSE 0
  BY <1>3, ConstantsType DEF DefaultInode
<1>5. inode' = [inode EXCEPT ![i] = m]
  BY <1>2, <1>3
<1> HIDE DEF n
<1>6. /\ TypeOK /\ Held /\ \A j \in Ino : Cur(j) = inode[j]
      /\ \A j \in Ino, l \in Locs : Ptr(j, l) = PtrOf(inode[j], blk, l)
  BY <1>1, AllStored
<1>7. ASSUME NEW j \in Ino, j # i PROVE AsSeen(inode[j], blk') = AsSeen(inode[j], blk)
  <2>1. Cur(j)' = inode'[j] /\ inode'[j] = inode[j]
    BY <1>1, <1>5, <1>6, <1>7 DEF Cur, Busy, TypeOK
  <2>2. ASSUME NEW l \in LeafLocs, Ptr(j, l) # 0 PROVE blk'[Ptr(j, l)] = blk[Ptr(j, l)]
    BY <1>2, <1>6, <2>2, LocTypes DEF Held, TypeOK
  <2>3. Same(j)
    BY <1>2, <1>6, <1>7, <2>1, <2>2 DEF Same
  <2> QED
    BY <1>6, <2>1, <2>3, SameSeen
<1>8. P = BlocksFor(P) * P
  BY WholeBlocks
<1>9. /\ SeenRequest = Files!NoRequest /\ SeenRequest' = SeenRequest
      /\ SeenFiles[i] = AsSeen(inode[i], blk)
      /\ SeenFiles' = [SeenFiles EXCEPT ![i] = AsSeen(m, blk')]
      /\ SeenInv'
  BY <1>1, <1>4, <1>5, <1>7, <1>8, OneStepSeen
<1>10. SeenFiles[i] = Files!Absent
  BY <1>1, <1>9, AbsentSeen
<1>11. b # 0 /\ blk'[b] = DirBlock
  BY <1>2, <1>6, ConstantsType DEF TypeOK
<1>12. AsSeen(m, blk') = [mode |-> "dir", size |-> P,
                          cell |-> [c \in Files!Positions |-> IF c < P THEN DirData ELSE 0]]
  BY <1>4, <1>11, DirSeen
<1> QED
  BY <1>9, <1>10, <1>12 DEF Files!Appear

\* What BeginWrite, BeginGrow, BeginShrink and BeginUnlink have in common: the copy is still
\* the inode, and there is nothing in the range before the first block.
LEMMA BeginSeen ==
    ASSUME BlockMapInv, SeenInv, op.kind = "idle", blk' = blk, inode' = inode,
           NEW i \in Ino, NEW kind \in OpKinds, NEW first \in Nat, NEW lo \in Nat, NEW hi \in Nat,
           NEW val, op' = Begin(kind, i, first, lo, hi, val),
           IF kind \in {"write", "grow"} THEN first * P <= lo ELSE first >= BlocksFor(lo),
           kind = "write" => inode[i].mode = "file",
           kind = "grow" => inode[i].mode = "dir" /\ lo = inode[i].size /\ hi = lo + P,
           kind = "truncate" => inode[i].mode = "file" /\ lo < inode[i].size,
           kind = "unlink" => inode[i].mode # "free" /\ lo = 0
    PROVE  Files!Request(i) /\ SeenInv'
<1>1. /\ op'.kind = kind /\ op'.ino = i /\ op'.lo = lo /\ op'.hi = hi /\ op'.val = val
      /\ op'.index = first /\ op'.local = inode[i] /\ kind # "idle"
  BY DEF Begin, OpKinds
<1>2. SeenRequest = Files!NoRequest
  BY NoRequests DEF SeenInv, Unfinished
<1>3. SeenRequest' = [kind |-> kind, ino |-> i, lo |-> lo, hi |-> hi, val |-> val]
  BY <1>1, SeenIs
<1>4. SeenRequest' = [SeenRequest' EXCEPT !.ino = i]
  BY <1>3
<1>5. UNCHANGED SeenFiles
  BY SeenIs
<1>6. SeenFiles[i].mode = inode[i].mode /\ SeenFiles[i].size = inode[i].size
  BY SeenIs, SeenFields
<1>7. Files!Request(i)
  <2>1. /\ SeenRequest'.kind = kind /\ SeenRequest'.lo = lo
        /\ kind \in {"write", "grow", "truncate", "unlink"}
    BY <1>3 DEF OpKinds
  <2> QED
    BY <1>2, <1>4, <1>5, <1>6, <2>1 DEF Files!Request
<1>8. Written'
  <2>1. SUFFICES ASSUME kind \in {"write", "grow"} PROVE Written'
    BY <1>1 DEF Written
  <2>2. first * P <= lo /\ first * P \in Nat
    BY <2>1, Products
  <2>3. ASSUME NEW l \in LeafLocs, NEW k \in Cells, IndexOf(l) < first
        PROVE  IndexOf(l) * P + k < lo
    <3>1. IndexOf(l) \in Nat
      BY IndexOnce
    <3>2. IndexOf(l) * P \in Nat /\ IndexOf(l) * P + P <= first * P
      BY <2>3, <3>1, Products
    <3>3. P \in Nat /\ k \in 0..P-1
      BY ConstantsType DEF Cells
    <3> QED
      BY <2>2, <3>2, <3>3
  <2>4. ASSUME NEW l \in LeafLocs, NEW k \in Cells, IndexOf(l) * P + k \in lo..hi-1
        PROVE  ~(IndexOf(l) < first)
    BY <2>3, <2>4
  <2>5. lo < hi => More'
    BY <1>1, <2>2 DEF More
  <2> QED
    BY <1>1, <2>4, <2>5 DEF Written
<1>9. Retained'
  BY <1>1 DEF Retained
<1>10. Unfinished'
  BY <1>1 DEF SeenInv, Unfinished
<1> QED
  BY <1>7, <1>8, <1>9, <1>10 DEF SeenInv

LEMMA BeginsSeen ==
    ASSUME BlockMapInv, SeenInv, NEW i \in Ino,
           \/ BeginGrow(i) \/ BeginUnlink(i)
           \/ \E size \in NewSizes : BeginShrink(i, size)
           \/ \E offset \in Offsets, len \in Lengths, v \in Data : BeginWrite(i, offset, len, v)
    PROVE  Files!Request(i) /\ SeenInv'
<1>1. inode[i].size \in Nat /\ P \in Nat
  BY ConstantsType DEF BlockMapInv, TypeOK, InodeType
<1>2. CASE BeginGrow(i)
  <2> DEFINE first == BlocksFor(inode[i].size)
  <2>1. first \in Nat /\ first * P \in Nat /\ inode[i].size + P \in Nat
    BY <1>1, DivType
  <2>2. op.kind = "idle" /\ inode[i].mode = "dir" /\ blk' = blk /\ inode' = inode
        /\ op' = Begin("grow", i, first, inode[i].size, inode[i].size + P, DirData)
    BY <1>2 DEF BeginGrow
  <2>3. inode[i].size = first * P
    BY <2>2 DEF SeenInv, Unfinished
  <2>4. first * P <= inode[i].size
    BY <1>1, <2>3
  <2> HIDE DEF first
  <2>5. "grow" \in OpKinds
    BY DEF OpKinds
  <2> QED
    BY <1>1, <2>1, <2>2, <2>4, <2>5, BeginSeen
<1>3. CASE BeginUnlink(i)
  <2>1. BlocksFor(0) = 0
    <3>1. BlocksFor(0) \in Nat
      BY DivType
    <3>2. ~(0 < BlocksFor(0))
      <4>1. 0 * P = 0
        BY <1>1
      <4>2. 0 < BlocksFor(0) <=> 0 * P < 0
        BY Ceiling
      <4> QED
        BY <4>1, <4>2
    <3> QED
      BY <3>1, <3>2
  <2>2. op.kind = "idle" /\ inode[i].mode # "free" /\ blk' = blk /\ inode' = inode
        /\ op' = Begin("unlink", i, 0, 0, inode[i].size, 0)
    BY <1>3 DEF BeginUnlink
  <2>3. "unlink" \in OpKinds /\ 0 >= BlocksFor(0)
    BY <2>1 DEF OpKinds
  <2> QED
    BY <1>1, <2>2, <2>3, BeginSeen
<1>4. ASSUME NEW size \in NewSizes, BeginShrink(i, size)
      PROVE  Files!Request(i) /\ SeenInv'
  <2>1. size \in Nat
    BY ConstantsAssumption DEF ConstantsAssumption
  <2> DEFINE first == BlocksFor(size)
  <2>2. first \in Nat /\ first >= first
    BY <2>1, DivType
  <2>3. op.kind = "idle" /\ inode[i].mode = "file" /\ size < inode[i].size /\ blk' = blk /\ inode' = inode
        /\ op' = Begin("truncate", i, first, size, inode[i].size, 0)
    BY <1>4 DEF BeginShrink
  <2>4. "truncate" \in OpKinds /\ first >= BlocksFor(size)
    BY <2>2 DEF OpKinds
  <2> HIDE DEF first
  <2> QED
    BY <1>1, <2>1, <2>2, <2>3, <2>4, BeginSeen
<1>5. ASSUME NEW offset \in Offsets, NEW len \in Lengths, NEW v \in Data, BeginWrite(i, offset, len, v)
      PROVE  Files!Request(i) /\ SeenInv'
  <2>1. offset \in Nat /\ offset + len \in Nat
    BY ConstantsAssumption DEF ConstantsAssumption
  <2> DEFINE first == offset \div P
  <2>2. first \in Nat /\ first * P <= offset
    <3>1. PICK q \in Nat, k \in Cells : offset = q * P + k
      BY <2>1, Quotient
    <3>2. first = q
      BY <3>1, Division
    <3> HIDE DEF first
    <3>3. q * P \in Nat /\ k \in Nat
      BY <3>1, Products, ConstantsType
    <3> QED
      BY <3>1, <3>2, <3>3
  <2>3. op.kind = "idle" /\ inode[i].mode = "file" /\ blk' = blk /\ inode' = inode
        /\ op' = Begin("write", i, first, offset, offset + len, v)
    BY <1>5 DEF BeginWrite
  <2> HIDE DEF first
  <2>4. "write" \in OpKinds
    BY DEF OpKinds
  <2> QED
    BY <2>1, <2>2, <2>3, <2>4, BeginSeen
<1> QED
  BY <1>2, <1>3, <1>4, <1>5

-----------------------------------------------------------------------------
(* The refinement                                                          *)

LEMMA InitSeen == Init => Files!Init /\ SeenInv
<1> SUFFICES ASSUME Init PROVE Files!Init /\ SeenInv
  OBVIOUS
<1> DEFINE n == [DefaultInode EXCEPT !.mode = "dir", !.size = P, !.block_count = 1,
                                     !.direct[0] = DataStart]
<1>1. /\ n.mode = "dir" /\ n.size = P /\ n.single = 0 /\ n.double = 0
      /\ \A k \in Direct : n.direct[k] = IF k = 0 THEN DataStart ELSE 0
  BY ConstantsType DEF DefaultInode
<1>2. op = Idle /\ op.kind = "idle" /\ inode = [i \in Ino |-> IF i = Root THEN n ELSE DefaultInode]
  BY DEF Init, Idle
<1>3. blk[DataStart] = DirBlock /\ DataStart # 0
  BY ConstantsType DEF Init
<1> HIDE DEF n
<1>4. AsSeen(n, blk) = [mode |-> "dir", size |-> P,
                        cell |-> [c \in Files!Positions |-> IF c < P THEN DirData ELSE 0]]
  BY <1>1, <1>3, DirSeen
<1>5. AsSeen(DefaultInode, blk) = Files!Absent
  BY AbsentSeen
<1>6. \A i \in Ino : AsSeen(inode[i], blk) = IF i = Root THEN AsSeen(n, blk) ELSE AsSeen(DefaultInode, blk)
  BY <1>2
<1>7. SeenFiles = [i \in Ino |->
                     IF i = Root
                     THEN [mode |-> "dir", size |-> P,
                           cell |-> [c \in Files!Positions |-> IF c < P THEN DirData ELSE 0]]
                     ELSE Files!Absent]
  BY <1>4, <1>5, <1>6, SeenIs
<1>8. Root \in Ino
  BY ConstantsType
<1>9. SeenRequest = Files!NoRequest
  BY <1>2, NoRequests
<1>10. Files!Init
  BY <1>7, <1>8, <1>9 DEF Files!Init
<1>11. DefaultInode.mode # "dir" /\ P = BlocksFor(P) * P
  BY WholeBlocks DEF DefaultInode
<1>12. Unfinished
  BY <1>1, <1>2, <1>11 DEF Unfinished
<1> QED
  BY <1>2, <1>10, <1>12 DEF SeenInv, Written, Retained

LEMMA NextSeen ==
    BlockMapInv /\ FilesInv /\ SeenInv /\ [Next]_vars => [Files!Next]_(Files!vars) /\ SeenInv'
<1> SUFFICES ASSUME BlockMapInv, FilesInv, SeenInv, [Next]_vars
             PROVE  [Files!Next]_(Files!vars) /\ SeenInv'
  OBVIOUS
<1> DEFINE Step(i) == \/ Files!Appear(i) \/ Files!Lengthen(i) \/ Files!Request(i)
                      \/ Files!Progress(i) \/ Files!Commit(i)
<1>1. ASSUME NEW i \in Ino, Step(i) PROVE Files!Next
  BY <1>1 DEF Files!Next
<1> HIDE DEF Step
<1>2. ASSUME UNCHANGED vars PROVE UNCHANGED Files!vars /\ SeenInv'
  <2>1. UNCHANGED Files!vars
    BY <1>2, SeenIs DEF Files!vars, vars
  <2>2. SeenInv'
    BY <1>2 DEF vars, SeenInv, Written, Retained, Unfinished, More, FreeBlocks
  <2> QED
    BY <2>1, <2>2
<1>3. ASSUME NEW i \in Ino, Create(i) \/ Mkdir(i) \/ BeginGrow(i) \/ BeginUnlink(i)
      PROVE  Step(i) /\ SeenInv'
  BY <1>3, CreateSeen, MkdirSeen, BeginsSeen DEF Step
<1>4. ASSUME NEW i \in Ino, NEW size \in NewSizes, Extend(i, size) \/ BeginShrink(i, size)
      PROVE  Step(i) /\ SeenInv'
  <2>1. size \in Nat
    BY ConstantsAssumption DEF ConstantsAssumption
  <2> QED
    BY <1>4, <2>1, ExtendSeen, BeginsSeen DEF Step
<1>5. ASSUME NEW i \in Ino, NEW offset \in Offsets, NEW len \in Lengths, NEW v \in Data,
             BeginWrite(i, offset, len, v)
      PROVE  Step(i) /\ SeenInv'
  BY <1>5, BeginsSeen DEF Step
<1> DEFINE me == op.ino
<1>6. me \in Ino
  BY DEF BlockMapInv, TypeOK, OpType
<1>7. ASSUME LinkStep PROVE Step(me) /\ SeenInv'
  <2>1. PICK l, b, local, blocks : IsLink(l, b, local, blocks)
    BY <1>7, LinkStepIs
  <2> QED
    BY <1>6, <2>1, LinkSeen DEF Step
<1>8. ASSUME UnmapStep PROVE Step(me) /\ SeenInv'
  <2>1. PICK gone, l, freed, local, blocks : IsUnmap(gone, l, freed, local, blocks)
    BY <1>8, UnmapStepIs
  <2> QED
    BY <1>6, <2>1, UnmapSeen DEF Step
<1>9. ASSUME CopyBlock \/ FinishWrite \/ FinishShrink \/ FinishUnlink PROVE Step(me) /\ SeenInv'
  BY <1>6, <1>9, CopySeen, FinishWriteSeen, FinishShrinkSeen, FinishUnlinkSeen DEF Step
<1>10. ASSUME \/ NoSpace \/ BadBlock \/ BadTail
              \/ ReadFailsExtending \/ ReadFailsRemoving \/ AllocationFails
       PROVE  Files!Abandon /\ SeenInv'
  <2>1. op.kind # "idle"
    BY <1>10 DEF NoSpace, BadBlock, BadTail, ReadFailsExtending, ReadFailsRemoving, AllocationFails,
                 Extending, Running
  <2>2. op' = Idle /\ inode' = inode /\ blk' = blk
    BY <1>10 DEF NoSpace, BadBlock, BadTail, ReadFailsExtending, ReadFailsRemoving, AllocationFails,
                 GiveUp, DropRemoval, LoseBlock
  <2> QED
    BY <2>1, <2>2, FailSeen
<1>11. Files!Abandon => Files!Next
  BY DEF Files!Next
<1> HIDE DEF me
<1>12. ASSUME BeyondRepair PROVE UNCHANGED Files!vars /\ SeenInv'
  BY <1>2, <1>12 DEF BeyondRepair
<1>13. ASSUME MkdirFails PROVE UNCHANGED Files!vars /\ SeenInv'
  <2>1. blk' = blk /\ inode' = inode /\ op' = op /\ op.kind = "idle"
    BY <1>13 DEF MkdirFails, LoseBlock
  <2>2. UNCHANGED Files!vars
    BY <2>1, SeenIs DEF Files!vars
  <2>3. SeenInv'
    BY <2>1 DEF SeenInv, Written, Retained, Unfinished
  <2> QED
    BY <2>2, <2>3
<1> QED
  BY <1>1, <1>2, <1>3, <1>4, <1>5, <1>6, <1>7, <1>8, <1>9, <1>10, <1>11, <1>12, <1>13, RemoveNothingSeen
  DEF Next, LinkStep, UnmapStep

\* write, truncate, unlink and a growing directory, walked block by block through bmap and
\* remove_mapped_block on a copy of the inode, do to every file what FileSpec allows: reads
\* see the range of the running request move to its result and nothing else, an error
\* leaves some of it, and success is all of it.
THEOREM FilesImplemented == Spec => ImplementsFiles
<1>1. Spec => [](BlockMapInv /\ FilesInv)
  BY InvHolds, FilesHold, PTL
<1> QED
  BY <1>1, InitSeen, NextSeen, PTL DEF Spec, ImplementsFiles, Files!Spec
=============================================================================
