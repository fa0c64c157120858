----------------------------- MODULE PoolProofs -----------------------------
(* Theorems about Pool for any number of pictures of any sizes, any formats *)
(* and temporary files of any depth; and about Layout, for every size of a  *)
(* pool.                                                                    *)
EXTENDS Pool, Layout, FiniteSetTheorems, FunctionTheorems, TLAPS

-----------------------------------------------------------------------------
(* A set in the order of a relation                                        *)

\* R is a strict total order on S.
Orders(R, S) ==
    /\ \A x \in S : <<x, x>> \notin R
    /\ \A x, y \in S : x # y => <<x, y>> \in R \/ <<y, x>> \in R
    /\ \A x, y, z \in S : <<x, y>> \in R /\ <<y, z>> \in R => <<x, z>> \in R

Injective(s) == \A i, j \in 1..Len(s) : s[i] = s[j] => i = j

\* InOrder enumerates a finite set: each of its elements once.
LEMMA InOrderIs ==
    ASSUME NEW S, NEW R, IsFiniteSet(S), Orders(R, S)
    PROVE  /\ InOrder(S, R) \in Seq(S)
           /\ Len(InOrder(S, R)) = Cardinality(S)
           /\ Injective(InOrder(S, R))
           /\ \A x \in S : \E k \in 1..Cardinality(S) : InOrder(S, R)[k] = x
<1> DEFINE below(x) == {y \in S : <<y, x>> \in R}
<1> DEFINE c == Cardinality(S)
<1>1. c \in Nat
  BY FS_CardinalityType
<1>2. ASSUME NEW x \in S PROVE Cardinality(below(x)) \in 0..c - 1
  <2>1. below(x) \in SUBSET S /\ x \notin below(x)
    BY DEF Orders
  <2>2. IsFiniteSet(below(x)) /\ Cardinality(below(x)) <= c /\ Cardinality(below(x)) # c
    BY <2>1, FS_Subset
  <2>3. Cardinality(below(x)) \in Nat
    BY <2>2, FS_CardinalityType
  <2> QED
    BY <1>1, <2>2, <2>3
<1>3. ASSUME NEW x \in S, NEW y \in S, <<x, y>> \in R PROVE Cardinality(below(x)) # Cardinality(below(y))
  <2>1. below(x) \in SUBSET below(y) /\ x \in below(y) /\ x \notin below(x)
    BY <1>3 DEF Orders
  <2>2. IsFiniteSet(below(y))
    BY FS_Subset
  <2> QED
    BY <2>1, <2>2, FS_Subset
<1> DEFINE f == [x \in S |-> Cardinality(below(x))]
<1>4. f \in [S -> 0..c - 1]
  BY <1>2
<1>5. \A x, y \in S : f[x] = f[y] => x = y
  <2> SUFFICES ASSUME NEW x \in S, NEW y \in S, x # y PROVE f[x] # f[y]
    OBVIOUS
  <2>1. f[x] = Cardinality(below(x)) /\ f[y] = Cardinality(below(y))
    OBVIOUS
  <2>2. <<x, y>> \in R \/ <<y, x>> \in R
    BY DEF Orders
  <2> QED
    BY <1>3, <2>1, <2>2
<1> HIDE DEF f, c
<1>6. IsFiniteSet(0..c - 1) /\ Cardinality(0..c - 1) = c
  <2>1. 0 \in Int /\ c - 1 \in Int
    BY <1>1
  <2> QED
    BY <1>1, <2>1, FS_Interval
<1>7. f \in Injection(S, 0..c - 1)
  BY <1>4, <1>5, Fun_IsInj
<1>8. f \in Surjection(S, 0..c - 1)
  BY <1>6, <1>7, FS_Injection DEF c
<1>9. \A j \in 0..c - 1 : \E x \in S : f[x] = j
  BY <1>8, Fun_SurjectionProperties
<1> DEFINE s == InOrder(S, R)
<1> DEFINE at(k) == CHOOSE x \in S : f[x] = k - 1
<1>10. s = [k \in 1..c |-> at(k)]
  <2>1. \A k \in 1..c : (CHOOSE x \in S : Cardinality({y \in S : <<y, x>> \in R}) = k - 1) = at(k)
    <3>1. \A x \in S : f[x] = Cardinality({y \in S : <<y, x>> \in R})
      BY DEF f
    <3> QED
      BY <3>1
  <2>2. s = [k \in 1..c |-> CHOOSE x \in S : Cardinality({y \in S : <<y, x>> \in R}) = k - 1]
    BY DEF InOrder, c
  <2> HIDE DEF at, s
  <2> QED
    BY <2>1, <2>2
<1>11. \A k \in 1..c : at(k) \in S /\ f[at(k)] = k - 1
  <2> SUFFICES ASSUME NEW k \in 1..c PROVE at(k) \in S /\ f[at(k)] = k - 1
    OBVIOUS
  <2>1. k - 1 \in 0..c - 1
    BY <1>1
  <2> QED
    BY <1>9, <2>1
<1> HIDE DEF at, s
<1>12. s \in Seq(S) /\ Len(s) = c
  BY <1>1, <1>10, <1>11
<1>13. Injective(s)
  BY <1>1, <1>10, <1>11, <1>12 DEF Injective
<1>14. ASSUME NEW x \in S PROVE \E k \in 1..c : s[k] = x
  <2>1. f[x] \in 0..c - 1
    BY <1>4
  <2>2. f[x] + 1 \in 1..c /\ (f[x] + 1) - 1 = f[x]
    BY <1>1, <2>1
  <2>3. f[at(f[x] + 1)] = f[x] /\ at(f[x] + 1) \in S
    BY <1>11, <2>2
  <2>4. s[f[x] + 1] = x
    BY <1>5, <1>10, <2>2, <2>3
  <2> QED
    BY <2>2, <2>4
<1> QED
  BY <1>12, <1>13, <1>14 DEF s, c

LEMMA ImageParts ==
    ASSUME NEW x \in Images
    PROVE  /\ x[1] \in 1..NImages /\ x[1] \in Nat /\ x[2] \in 0..MaxTemp /\ x[2] \in Nat
           /\ x = <<x[1], x[2]>>
  BY PoolAssumption DEF Images, PoolAssumption

LEMMA ImagesFinite == \A S \in SUBSET Images : IsFiniteSet(S)
<1>1. NImages \in Int /\ MaxTemp \in Int /\ 0 \in Int /\ 1 \in Int
  BY PoolAssumption DEF PoolAssumption
<1>2. IsFiniteSet(1..NImages) /\ IsFiniteSet(0..MaxTemp)
  BY <1>1, FS_Interval
<1>3. IsFiniteSet(Images)
  BY <1>2, FS_Product DEF Images
<1> QED
  BY <1>3, FS_Subset

LEMMA ByNameOrders ==
    ASSUME NEW S \in SUBSET Images
    PROVE  Orders(ByName, S)
<1>1. \A x, y \in S : <<x, y>> \in ByName <=> Before(x, y)
  BY DEF ByName
<1>2. \A x \in S : x[1] \in Nat /\ x[2] \in Nat /\ x = <<x[1], x[2]>>
  BY ImageParts
<1>3. \A x \in S : Place(x) \in Nat
  BY <1>2, PoolAssumption DEF Place, PoolAssumption
<1>4. ASSUME NEW x \in S, NEW y \in S, x # y PROVE Before(x, y) \/ Before(y, x)
  <2>1. x[1] # y[1] \/ x[2] # y[2]
    BY <1>2, <1>4
  <2>2. x[2] <= MaxTemp /\ y[2] <= MaxTemp /\ MaxTemp \in Nat
    BY ImageParts, PoolAssumption DEF PoolAssumption
  <2>3. x[1] = y[1] => Place(x) # Place(y)
    BY <1>2, <2>1, <2>2 DEF Place
  <2> QED
    BY <1>2, <1>3, <2>3 DEF Before
<1>5. \A x \in S : ~Before(x, x)
  BY <1>2, <1>3 DEF Before
<1>6. \A x, y, z \in S : Before(x, y) /\ Before(y, z) => Before(x, z)
  BY <1>2, <1>3 DEF Before
<1> QED
  BY <1>1, <1>4, <1>5, <1>6 DEF Orders

\* Images in the order of their names.
LEMMA InOrderOfNames ==
    ASSUME NEW S \in SUBSET Images
    PROVE  /\ InOrder(S, ByName) \in Seq(S)
           /\ Len(InOrder(S, ByName)) = Cardinality(S)
           /\ Injective(InOrder(S, ByName))
           /\ \A x \in S : \E k \in 1..Cardinality(S) : InOrder(S, ByName)[k] = x
  BY InOrderIs, ImagesFinite, ByNameOrders

\* Numbers of chunks in their order.
LEMMA InOrderOfNumbers ==
    ASSUME NEW n \in Nat, NEW S \in SUBSET (1..n)
    PROVE  LET ks == InOrder(S, {p \in S \X S : p[1] < p[2]})
           IN  ks \in Seq(S) /\ Injective(ks)
<1> DEFINE R == {p \in S \X S : p[1] < p[2]}
<1>1. \A x, y \in S : <<x, y>> \in R <=> x < y
  OBVIOUS
<1>2. S \subseteq Nat
  OBVIOUS
<1> HIDE DEF R
<1>3. Orders(R, S)
  BY <1>1, <1>2 DEF Orders
<1>4. IsFiniteSet(S)
  <2>1. IsFiniteSet(1..n)
    BY FS_Interval
  <2> QED
    BY <2>1, FS_Subset
<1> QED
  BY <1>3, <1>4, InOrderIs DEF R

-----------------------------------------------------------------------------
(* The inductive invariant                                                 *)

Pictures == {x \in Images : x[2] = 0}
Todo     == 1..Len(run.todo)
Chunks(g) == 1..Len(pools[g].manifest)

Content ==
    {Absent, Torn, Photo} \cup {Boot(g) : g \in Nat}
    \cup {Data(g, k) : g \in Nat, k \in Nat}
    \cup {Framed(g, k, size) : g \in Nat, k \in Nat, size \in Nat}

PoolRecord == [encrypted : BOOLEAN, pass : Passphrases \cup {""},
               anchor : Images \cup {<<0, 0>>}, manifest : Seq(Images)]

RunRecord == [kind : {"idle", "format", "flush"}, gen : Nat, forced : BOOLEAN,
              todo : Seq(Images), bufs : Seq(Content), slot : Nat, staged : BOOLEAN]

Types ==
    /\ disk \in [Images -> Content] /\ pools \in Seq(PoolRecord) /\ run \in RunRecord
    /\ run.gen \in 0..Len(pools) /\ run.slot \in 1..Len(run.todo) + 1
    /\ Len(run.bufs) = Len(run.todo)
    /\ formed \in 0..Len(pools) /\ kept \in 0..Len(pools)
    /\ stray \in BOOLEAN /\ broken \in BOOLEAN

\* What the image x may hold after the formats ps: a framed chunk stays in the picture
\* whose size it has, or in a temporary file of it.
FitsIn(ps, x, c) ==
    \/ c \in {Absent, Torn, Photo}
    \/ \E g \in 1..Len(ps) : c = Boot(g)
    \/ \E g \in 1..Len(ps) : \E k \in 1..Len(ps[g].manifest) : c = Data(g, k)
    \/ \E g \in 1..Len(ps) : \E k \in 1..Len(ps[g].manifest) :
          ~ps[g].encrypted /\ ps[g].manifest[k][1] = x[1] /\ c = Framed(g, k, Size[x[1]])

Fits(x, c) == FitsIn(pools, x, c)

DiskFits == \A x \in Images : Fits(x, disk[x])

\* The carriers that format chose for p: no two the same, the anchor none of them, and as
\* long as no format met a temporary file, every picture that serves.
Chosen(p, met) ==
    /\ Len(p.manifest) > 0 /\ Injective(p.manifest)
    /\ p.encrypted => p.anchor \in Images /\ \A k \in 1..Len(p.manifest) : p.manifest[k] # p.anchor
    /\ ~p.encrypted => \A k \in 1..Len(p.manifest) : p.manifest[k][1] \notin Small
    /\ ~met => /\ p.encrypted => p.anchor \in Pictures
               /\ \A k \in 1..Len(p.manifest) : p.manifest[k] \in Pictures
               /\ \A x \in Pictures : (IF p.encrypted THEN x # p.anchor ELSE x[1] \notin Small)
                                          => \E k \in 1..Len(p.manifest) : p.manifest[k] = x

AllChosen == \A g \in Formats : Chosen(pools[g], stray)

\* What the run is about to write is a chunk or a picture, and fits where it goes.
RunOK ==
    /\ run.kind = "idle" => run = Idle
    /\ \A j \in Todo : /\ run.todo[j][2] < MaxTemp
                       /\ Fits(run.todo[j], run.bufs[j])
                       /\ run.bufs[j].kind \notin {"absent", "torn"}
    /\ run.staged => run.slot \in Todo /\ disk[Temp(Target)] = run.bufs[run.slot]

\* What chunk k of format g is, among the formats ps.
ChunkIn(ps, g, k) ==
    IF ps[g].encrypted THEN Data(g, k) ELSE Framed(g, k, Size[ps[g].manifest[k][1]])

Chunk(g, k) == ChunkIn(pools, g, k)

\* A format writes its chunks in their order, and the bootstrap after them.
FormatOK ==
    run.kind = "format" =>
        LET p == pools[run.gen]
            n == Len(p.manifest)
        IN  /\ run.gen \in Formats /\ formed = 0
            /\ Len(run.todo) = IF p.encrypted THEN n + 1 ELSE n
            /\ \A k \in 1..n : run.todo[k] = p.manifest[k] /\ run.bufs[k] = Chunk(run.gen, k)
            /\ p.encrypted => run.todo[n + 1] = p.anchor /\ run.bufs[n + 1] = Boot(run.gen)

\* Without temporary files in its way, a format leaves behind it what it wrote.
Written ==
    run.kind = "format" /\ ~stray =>
        \A j \in Todo : j < run.slot => disk[run.todo[j]] = run.bufs[j]

\* A sync has gone over the chunks of another pool.
Overrun == formed = 0 /\ kept = 0 /\ broken

\* Any other gives a picture what it holds already.
FlushOK ==
    run.kind = "flush" /\ ~Overrun =>
        /\ \A j \in Todo : j >= run.slot /\ run.todo[j] \in Pictures => disk[run.todo[j]] = run.bufs[j]
        /\ ~stray /\ ~broken =>
               /\ \A j \in Todo : j >= run.slot => disk[run.todo[j]] = run.bufs[j]
               /\ \A i, j \in Todo : i # j => run.todo[i][1] # run.todo[j][1]

PicturesKept == \A x \in Pictures : disk[x].kind \notin {"absent", "torn"}

\* While a format is at work or nothing failed since, the only temporary file is the one
\* that is about to be renamed.
NoTemps ==
    ~stray /\ (formed # 0 \/ run.kind = "format") =>
        /\ \A x \in Present : x \in Pictures \/ (run.staged /\ x = Temp(Target))
        /\ \A j \in Todo : run.todo[j] \in Pictures

FormedOK ==
    formed # 0 /\ ~stray =>
        Whole(formed) /\ (pools[formed].encrypted => disk[pools[formed].anchor] = Boot(formed))

\* As long as a plaintext pool is kept, no format is at work: one without --force finds
\* the primary image and is refused.
KeptOK ==
    kept # 0 => ~stray /\ run.kind # "format" /\ ~pools[kept].encrypted /\ Whole(kept)

\* Framed chunks are all of one format, and one of them is a primary in a picture, unless
\* the only ones are the primary that format saves first.
Tidy ==
    ~broken /\ ~stray /\ ~(run.kind = "format" /\ run.forced) =>
        /\ \A x, y \in Scanned : disk[x].gen = disk[y].gen
        /\ run.kind = "format" => \A x \in Scanned : disk[x].gen = run.gen
        /\ \/ \A x \in Scanned : disk[x].index = 1
           \/ \E x \in Pictures : IsFramed(disk[x]) /\ disk[x].index = 1

PoolInv ==
    /\ Types /\ DiskFits /\ AllChosen /\ RunOK /\ FormatOK /\ Written /\ FlushOK
    /\ PicturesKept /\ NoTemps /\ FormedOK /\ KeptOK /\ Tidy

-----------------------------------------------------------------------------
(* What images hold                                                        *)

LEMMA KindsDiffer ==
    /\ Absent.kind = "absent" /\ Torn.kind = "torn" /\ Photo.kind = "photo"
    /\ \A g : Boot(g).kind = "boot" /\ Boot(g).gen = g
    /\ \A g, k : Data(g, k).kind = "data" /\ Data(g, k).gen = g /\ Data(g, k).index = k
    /\ \A g, k, size : /\ Framed(g, k, size).kind = "framed" /\ Framed(g, k, size).gen = g
                       /\ Framed(g, k, size).index = k /\ Framed(g, k, size).size = size
    /\ Absent \in Content /\ Torn \in Content /\ Photo \in Content
    /\ \A g \in Nat : Boot(g) \in Content
    /\ \A g, k \in Nat : Data(g, k) \in Content
    /\ \A g, k, size \in Nat : Framed(g, k, size) \in Content
<1>1. \A g : Boot(g).kind = "boot" /\ Boot(g).gen = g
  BY DEF Boot
<1>2. \A g, k : Data(g, k).kind = "data" /\ Data(g, k).gen = g /\ Data(g, k).index = k
  BY DEF Data
<1>3. \A g, k, size : /\ Framed(g, k, size).kind = "framed" /\ Framed(g, k, size).gen = g
                      /\ Framed(g, k, size).index = k /\ Framed(g, k, size).size = size
  BY DEF Framed
<1>4. Absent.kind = "absent" /\ Torn.kind = "torn" /\ Photo.kind = "photo"
  BY DEF Absent, Torn, Photo
<1>5. /\ Absent \in Content /\ Torn \in Content /\ Photo \in Content
      /\ \A g \in Nat : Boot(g) \in Content
      /\ \A g, k \in Nat : Data(g, k) \in Content
      /\ \A g, k, size \in Nat : Framed(g, k, size) \in Content
  BY DEF Content
<1> QED
  BY <1>1, <1>2, <1>3, <1>4, <1>5

\* A framed chunk of x is a chunk of a plaintext pool whose carrier was x.
LEMMA FramedFits ==
    ASSUME NEW x, NEW c, Fits(x, c), IsFramed(c)
    PROVE  /\ c.gen \in Formats /\ c.index \in Chunks(c.gen) /\ c.size = Size[x[1]]
           /\ ~pools[c.gen].encrypted /\ pools[c.gen].manifest[c.index][1] = x[1]
           /\ c = Framed(c.gen, c.index, Size[x[1]])
<1> USE KindsDiffer DEF IsFramed
<1>1. PICK g \in Formats : \E k \in Chunks(g) :
          ~pools[g].encrypted /\ pools[g].manifest[k][1] = x[1] /\ c = Framed(g, k, Size[x[1]])
  BY DEF Fits, FitsIn, Formats, Chunks
<1>2. PICK k \in Chunks(g) :
          ~pools[g].encrypted /\ pools[g].manifest[k][1] = x[1] /\ c = Framed(g, k, Size[x[1]])
  BY <1>1
<1> QED
  BY <1>2

LEMMA InitPool == Init => PoolInv
<1> SUFFICES ASSUME Init PROVE PoolInv
  OBVIOUS
<1> USE DEF Init
<1>1. run = Idle /\ Idle.kind = "idle" /\ Idle.gen = 0 /\ Idle.forced = FALSE /\ Idle.todo = <<>> /\ Idle.bufs = <<>>
      /\ Idle.slot = 1 /\ Idle.staged = FALSE /\ Idle \in RunRecord
  BY DEF Idle, RunRecord
<1>2. pools = <<>> /\ Len(pools) = 0 /\ Formats = {} /\ pools \in Seq(PoolRecord)
  BY DEF Formats
<1>3. \A x \in Images : disk[x] \in {Photo, Absent} /\ (x \in Pictures => disk[x] = Photo) /\ (x \notin Pictures => disk[x] = Absent)
  BY DEF Pictures
<1>4. disk \in [Images -> Content]
  BY KindsDiffer
<1>5. Types
  <2>1. run.gen \in 0..Len(pools) /\ run.slot \in 1..Len(run.todo) + 1 /\ Len(run.bufs) = Len(run.todo)
    BY <1>1, <1>2
  <2>2. formed \in 0..Len(pools) /\ kept \in 0..Len(pools)
    BY <1>2
  <2>3. stray \in BOOLEAN /\ broken \in BOOLEAN
    BY Zenon
  <2> QED
    BY <1>1, <1>2, <1>4, <2>1, <2>2, <2>3 DEF Types
<1>6. DiskFits /\ PicturesKept
  BY <1>3, KindsDiffer DEF DiskFits, Fits, FitsIn, PicturesKept, Pictures
<1>7. AllChosen /\ RunOK /\ FormatOK /\ Written /\ FlushOK
  BY <1>1, <1>2 DEF AllChosen, RunOK, FormatOK, Written, FlushOK, Todo
<1>8. NoTemps /\ FormedOK /\ KeptOK
  BY <1>1 DEF NoTemps, FormedOK, KeptOK
<1>9. Scanned = {}
  BY <1>3, KindsDiffer DEF Scanned, Present, IsFramed
<1> QED
  BY <1>1, <1>5, <1>6, <1>7, <1>8, <1>9 DEF PoolInv, Tidy

-----------------------------------------------------------------------------
(* What every step of a run meets                                          *)

LEMMA TempIs ==
    ASSUME NEW x \in Images, x[2] < MaxTemp
    PROVE  /\ Temp(x) \in Images /\ Temp(x) \notin Pictures /\ Temp(x) # x
           /\ Temp(x)[1] = x[1]
<1>1. x[1] \in 1..NImages /\ x[2] \in 0..MaxTemp /\ x[2] \in Nat /\ MaxTemp \in Nat
  BY ImageParts, PoolAssumption DEF PoolAssumption
<1>2. x[2] + 1 \in 0..MaxTemp /\ x[2] + 1 # 0 /\ x[2] + 1 # x[2]
  BY <1>1
<1>3. Temp(x) = <<x[1], x[2] + 1>> /\ Temp(x)[1] = x[1] /\ Temp(x)[2] = x[2] + 1
  BY DEF Temp
<1> QED
  BY <1>1, <1>2, <1>3 DEF Images, Pictures

\* The framed images of the disk d, and pool g of ps whole in it.
FramedIn(d) == {x \in Images : IsFramed(d[x])}

WholeIn(ps, d, g) ==
    \A k \in 1..Len(ps[g].manifest) :
        LET x == ps[g].manifest[k]
        IN  d[x] = IF ps[g].encrypted THEN Data(g, k) ELSE Framed(g, k, Size[x[1]])

LEMMA ScannedIs == Scanned = FramedIn(disk) /\ Scanned' = FramedIn(disk')
  BY DEF Scanned, Present, FramedIn, IsFramed

LEMMA WholeIs ==
    /\ \A g : Whole(g) <=> WholeIn(pools, disk, g)
    /\ \A g : Whole(g)' <=> WholeIn(pools', disk', g)
  BY DEF Whole, WholeIn

\* Pools live in pictures, so that they stay whole while the pictures keep what they hold.
LEMMA PicturesStay ==
    ASSUME PoolInv, pools' = pools, stray' = stray, formed' \in {0, formed}, kept' = kept,
           run'.kind # "format" \/ run'.kind = run.kind,
           \A x \in Pictures : disk'[x] = disk[x]
    PROVE  PicturesKept' /\ FormedOK' /\ KeptOK'
<1> USE DEF PoolInv
<1>1. PicturesKept'
  BY DEF PicturesKept, Pictures
<1>2. ASSUME NEW g \in 1..Len(pools), ~stray, Whole(g)
      PROVE  Whole(g)' /\ (pools[g].encrypted => disk'[pools[g].anchor] = disk[pools[g].anchor])
  <2>1. Chosen(pools[g], FALSE)
    <3>1. Chosen(pools[g], stray)
      BY DEF AllChosen, Formats
    <3> QED
      BY <1>2, <3>1 DEF Chosen
  <2>2. WholeIn(pools, disk, g)
    BY <1>2, WholeIs
  <2>3. WholeIn(pools, disk', g) /\ (pools[g].encrypted => disk'[pools[g].anchor] = disk[pools[g].anchor])
    <3>1. \A k \in 1..Len(pools[g].manifest) : pools[g].manifest[k] \in Pictures
      BY <2>1 DEF Chosen
    <3>2. WholeIn(pools, disk', g)
      BY <2>2, <3>1 DEF WholeIn
    <3>3. pools[g].encrypted => pools[g].anchor \in Pictures
      BY <2>1 DEF Chosen
    <3> QED
      BY <3>2, <3>3
  <2>4. Whole(g)'
    BY <2>3, WholeIs
  <2> QED
    BY <2>3, <2>4
<1>3. formed # 0 => formed \in 1..Len(pools)
  BY DEF Types
<1>4. kept # 0 => kept \in 1..Len(pools)
  BY DEF Types
<1>5. FormedOK'
  BY <1>2, <1>3, WholeIs DEF FormedOK
<1>6. KeptOK'
  BY <1>2, <1>4, WholeIs DEF KeptOK
<1> QED
  BY <1>1, <1>5, <1>6

\* Fewer framed images that hold what they held, and the same pictures.
LEMMA TidyStays ==
    ASSUME PoolInv, UNCHANGED <<stray>>, ~broken' => ~broken,
           run.kind = "format" /\ run.forced => broken' \/ (run'.kind = "format" /\ run'.forced),
           run'.kind = "format" => run.kind = "format" /\ run'.gen = run.gen,
           \A x \in FramedIn(disk') : x \in FramedIn(disk) /\ disk'[x] = disk[x],
           \A x \in Pictures : disk'[x] = disk[x]
    PROVE  Tidy'
  BY ScannedIs DEF PoolInv, Tidy

LEMMA WritesWhat ==
    ASSUME PoolInv, Writing
    PROVE  LET t == Target
               b == run.bufs[run.slot]
           IN  /\ run.slot \in Todo /\ t = run.todo[run.slot] /\ t \in Images /\ t[2] < MaxTemp
               /\ b \in Content /\ Fits(t, b) /\ b.kind \notin {"absent", "torn"}
               /\ run.kind \in {"format", "flush"}
<1> USE DEF PoolInv, Types, RunRecord
<1>1. run.slot \in Todo /\ Len(run.bufs) = Len(run.todo) /\ run.todo \in Seq(Images) /\ run.bufs \in Seq(Content)
  BY DEF Writing, Todo
<1>2. Target = run.todo[run.slot] /\ Target \in Images
  BY <1>1 DEF Target, Todo
<1>3. run.bufs[run.slot] \in Content
  BY <1>1 DEF Todo
<1> QED
  BY <1>1, <1>2, <1>3 DEF RunOK, Writing

-----------------------------------------------------------------------------
(* Every step keeps the invariant                                          *)

\* What a format without --force wrote first is a primary in a picture.
LEMMA PrimaryStands ==
    ASSUME PoolInv, run.kind = "format", ~pools[run.gen].encrypted, ~stray, run.slot > 1
    PROVE  \E x \in Pictures : /\ IsFramed(disk[x]) /\ disk[x].index = 1
                               /\ 1 \in Todo /\ x = run.todo[1]
<1> USE DEF PoolInv, Types, RunRecord
<1>1. 1 \in Todo /\ run.todo[1] \in Pictures
  BY DEF NoTemps, Todo
<1>2. disk[run.todo[1]] = run.bufs[1]
  BY <1>1 DEF Written
<1>3. run.bufs[1] = Framed(run.gen, 1, Size[pools[run.gen].manifest[1][1]])
  BY <1>1 DEF FormatOK, Todo, Chunk, ChunkIn
<1>4. run.bufs[1].kind = "framed" /\ run.bufs[1].index = 1
  BY <1>3 DEF Framed
<1> QED
  BY <1>1, <1>2, <1>4 DEF IsFramed

\* A buffer of a format is a chunk of it.
LEMMA BufferIs ==
    ASSUME PoolInv, Writing, run.kind = "format"
    PROVE  /\ IsFramed(run.bufs[run.slot]) <=> ~pools[run.gen].encrypted
           /\ IsFramed(run.bufs[run.slot]) =>
                  run.bufs[run.slot].gen = run.gen /\ run.bufs[run.slot].index = run.slot
<1> DEFINE p == pools[run.gen]
<1> DEFINE n == Len(p.manifest)
<1> USE DEF PoolInv
<1>1. run.slot \in 1..Len(run.todo) /\ run.gen \in 1..Len(pools) /\ p \in PoolRecord
  BY WritesWhat DEF Todo, FormatOK, Formats, Types
<1>2. n \in Nat /\ p.encrypted \in BOOLEAN
  <2> HIDE DEF p
  <2>1. p.manifest \in Seq(Images) /\ p.encrypted \in BOOLEAN
    BY <1>1 DEF PoolRecord
  <2> QED
    BY <2>1
<1>3. Len(run.todo) = IF p.encrypted THEN n + 1 ELSE n
  BY DEF FormatOK
<1>4. CASE p.encrypted
  <2>1. run.slot \in 1..n \/ run.slot = n + 1
    BY <1>1, <1>2, <1>3, <1>4
  <2>2. run.slot \in 1..n => run.bufs[run.slot] = Data(run.gen, run.slot)
    BY <1>4 DEF FormatOK, Chunk, ChunkIn
  <2>3. run.slot = n + 1 => run.bufs[run.slot] = Boot(run.gen)
    BY <1>4 DEF FormatOK
  <2> QED
    BY <1>4, <2>1, <2>2, <2>3, KindsDiffer DEF IsFramed
<1>5. CASE ~p.encrypted
  <2>1. run.slot \in 1..n
    BY <1>1, <1>3, <1>5
  <2>2. run.bufs[run.slot] = Framed(run.gen, run.slot, Size[p.manifest[run.slot][1]])
    BY <1>5, <2>1 DEF FormatOK, Chunk, ChunkIn
  <2>3. /\ run.bufs[run.slot].kind = "framed" /\ run.bufs[run.slot].gen = run.gen
        /\ run.bufs[run.slot].index = run.slot
    BY <2>2 DEF Framed
  <2> QED
    BY <1>5, <2>3 DEF IsFramed
<1> QED
  BY <1>4, <1>5

\* A format writes every image once.
LEMMA TodoDiffers ==
    ASSUME PoolInv, run.kind = "format", NEW i \in Todo, NEW j \in Todo, i # j
    PROVE  run.todo[i] # run.todo[j]
<1> DEFINE p == pools[run.gen]
<1> DEFINE n == Len(p.manifest)
<1> USE DEF PoolInv
<1>1. run.gen \in 1..Len(pools) /\ p \in PoolRecord /\ Chosen(p, stray)
  BY DEF FormatOK, Formats, Types, AllChosen
<1>2. n \in Nat
  <2> HIDE DEF p
  <2>1. p.manifest \in Seq(Images)
    BY <1>1 DEF PoolRecord
  <2> QED
    BY <2>1
<1>3. /\ Len(run.todo) = IF p.encrypted THEN n + 1 ELSE n
      /\ \A k \in 1..n : run.todo[k] = p.manifest[k]
      /\ p.encrypted => run.todo[n + 1] = p.anchor
  BY DEF FormatOK
<1>4. Injective(p.manifest) /\ (p.encrypted => \A k \in 1..n : p.manifest[k] # p.anchor)
  BY <1>1 DEF Chosen
<1>5. i \in 1..n \/ (p.encrypted /\ i = n + 1)
  BY <1>2, <1>3 DEF Todo
<1>6. j \in 1..n \/ (p.encrypted /\ j = n + 1)
  BY <1>2, <1>3 DEF Todo
<1> HIDE DEF n, p
<1> QED
  BY <1>3, <1>4, <1>5, <1>6 DEF Injective, n

\* A format without --force that encrypts finds no framed image.
LEMMA NothingFramed ==
    ASSUME PoolInv, run.kind = "format", ~run.forced, ~broken, ~stray, pools[run.gen].encrypted
    PROVE  FramedIn(disk) = {}
<1> SUFFICES ASSUME NEW x \in FramedIn(disk) PROVE FALSE
  OBVIOUS
<1>1. disk[x].gen = run.gen
  BY ScannedIs DEF PoolInv, Tidy
<1>2. ~pools[disk[x].gen].encrypted
  BY FramedFits DEF PoolInv, DiskFits, FramedIn
<1> QED
  BY <1>1, <1>2

LEMMA SaveTempKeeps == PoolInv /\ SaveTemp => PoolInv'
<1> SUFFICES ASSUME PoolInv, SaveTemp PROVE PoolInv'
  OBVIOUS
<1> USE DEF PoolInv
<1> DEFINE t == run.todo[run.slot]
           u == Temp(t)
           b == run.bufs[run.slot]
<1>1. /\ run.slot \in Todo /\ t = Target /\ t \in Images /\ t[2] < MaxTemp
      /\ b \in Content /\ Fits(t, b) /\ b.kind \notin {"absent", "torn"}
      /\ run.kind \in {"format", "flush"} /\ ~run.staged
  BY WritesWhat DEF SaveTemp
<1>2. u \in Images /\ u \notin Pictures /\ u # t /\ u[1] = t[1]
  BY <1>1, TempIs
<1>3. disk' = [disk EXCEPT ![u] = b] /\ disk \in [Images -> Content]
  BY <1>1 DEF SaveTemp, Types
<1> HIDE DEF t, u, b
<1>4. \A x \in Images : disk'[x] = IF x = u THEN b ELSE disk[x]
  BY <1>3
<1>5. disk' \in [Images -> Content]
  BY <1>1, <1>3
<1>6. /\ run'.kind = run.kind /\ run'.gen = run.gen /\ run'.forced = run.forced /\ run'.todo = run.todo
      /\ run'.bufs = run.bufs /\ run'.slot = run.slot /\ run'.staged = TRUE /\ run' \in RunRecord
  BY DEF SaveTemp, Types, RunRecord
<1>7. UNCHANGED <<pools, formed, kept, stray, broken>>
  BY DEF SaveTemp
<1>8. \A x \in Pictures : disk'[x] = disk[x]
  BY <1>2, <1>4 DEF Pictures
<1>9. Types'
  BY <1>5, <1>6, <1>7 DEF Types
<1>10. DiskFits'
  <2>1. FitsIn(pools, u, b)
    BY <1>1, <1>2 DEF Fits, FitsIn
  <2>2. \A x \in Images : FitsIn(pools, x, disk'[x])
    BY <1>4, <2>1 DEF DiskFits, Fits
  <2> QED
    BY <1>7, <2>2 DEF DiskFits, Fits
<1>11. AllChosen'
  BY <1>7 DEF AllChosen, Formats
<1>12. RunOK'
  <2>1. run'.kind # "idle"
    BY <1>1, <1>6
  <2>2. \A j \in 1..Len(run.todo) : /\ run.todo[j][2] < MaxTemp /\ FitsIn(pools, run.todo[j], run.bufs[j])
                                    /\ run.bufs[j].kind \notin {"absent", "torn"}
    BY DEF RunOK, Todo, Fits
  <2>3. run.slot \in 1..Len(run.todo) /\ disk'[Temp(run.todo[run.slot])] = run.bufs[run.slot]
    BY <1>1, <1>2, <1>4 DEF t, u, b, Todo
  <2> QED
    BY <1>6, <1>7, <2>1, <2>2, <2>3 DEF RunOK, Todo, Fits, Target
<1>13. FormatOK'
  BY <1>6, <1>7 DEF FormatOK, Formats, Chunk, ChunkIn
<1>14. Written'
  <2> SUFFICES ASSUME run.kind = "format", ~stray, NEW j \in Todo, j < run.slot
               PROVE  disk'[run.todo[j]] = run.bufs[j]
    BY <1>6, <1>7 DEF Written, Todo
  <2>1. run.todo[j] \in Pictures
    BY DEF NoTemps
  <2> QED
    BY <1>8, <2>1 DEF Written
<1>15. FlushOK'
  <2> SUFFICES ASSUME run.kind = "flush", ~Overrun PROVE FlushOK'
    BY <1>6, <1>7 DEF FlushOK, Overrun
  <2>1. ASSUME NEW j \in Todo, j >= run.slot, run.todo[j] \in Pictures PROVE disk'[run.todo[j]] = run.bufs[j]
    BY <1>8, <2>1 DEF FlushOK
  <2>2. ASSUME ~stray, ~broken, NEW j \in Todo, j >= run.slot PROVE disk'[run.todo[j]] = run.bufs[j]
    <3>1. run.todo[j] # u
      <4>1. CASE j = run.slot
        BY <1>2, <4>1 DEF t
      <4>2. CASE j # run.slot
        BY <1>1, <1>2, <2>2, <4>2 DEF FlushOK, t
      <4> QED
        BY <4>1, <4>2
    <3>2. run.todo[j] \in Images
      BY DEF Types, RunRecord, Todo
    <3> QED
      BY <1>4, <2>2, <3>1, <3>2 DEF FlushOK
  <2> QED
    BY <1>6, <1>7, <2>1, <2>2 DEF FlushOK, Todo
<1>16. PicturesKept' /\ FormedOK' /\ KeptOK'
  BY <1>6, <1>7, <1>8, PicturesStay
<1>17. NoTemps'
  <2> SUFFICES ASSUME ~stray, formed # 0 \/ run.kind = "format" PROVE NoTemps'
    BY <1>6, <1>7 DEF NoTemps
  <2>1. \A x \in Images : disk'[x].kind # "absent" => x \in Pictures \/ x = u
    BY <1>1, <1>4 DEF NoTemps, Present
  <2>2. Temp(Target') = u
    BY <1>1, <1>6 DEF Target, t, u
  <2> QED
    BY <1>6, <1>7, <2>1, <2>2 DEF NoTemps, Present, Target, Todo
<1>18. Tidy'
  <2> SUFFICES ASSUME ~broken, ~stray, ~(run.kind = "format" /\ run.forced) PROVE Tidy'
    BY <1>6, <1>7 DEF Tidy
  <2>1. \A x \in FramedIn(disk') : (x \in FramedIn(disk) /\ disk'[x] = disk[x]) \/ (x = u /\ disk'[x] = b /\ IsFramed(b))
    BY <1>4 DEF FramedIn
  <2>2. CASE ~IsFramed(b)
    BY <1>6, <1>7, <1>8, <2>1, <2>2, TidyStays
  <2>3. CASE IsFramed(b) /\ run.kind = "flush"
    <3>1. t \in FramedIn(disk) /\ disk[t] = b
      BY <1>1, <2>3 DEF FlushOK, Overrun, FramedIn, t, b, Todo
    <3> QED
      BY <1>6, <1>7, <1>8, <2>1, <2>3, <3>1, ScannedIs DEF Tidy
  <2>4. CASE IsFramed(b) /\ run.kind = "format"
    <3>1. ~pools[run.gen].encrypted /\ b.gen = run.gen /\ b.index = run.slot
      BY <2>4, BufferIs DEF SaveTemp, b
    <3>2. \A x \in FramedIn(disk') : disk'[x].gen = run.gen
      BY <2>1, <2>4, <3>1, ScannedIs DEF Tidy
    <3>3. \/ \A x \in FramedIn(disk') : disk'[x].index = 1
          \/ \E x \in Pictures : IsFramed(disk'[x]) /\ disk'[x].index = 1
      <4>1. CASE run.slot = 1
        BY <1>8, <2>1, <3>1, <4>1, ScannedIs DEF Tidy
      <4>2. CASE run.slot # 1
        <5>1. run.slot > 1
          BY <1>1, <4>2 DEF Todo
        <5> QED
          BY <1>8, <2>4, <3>1, <5>1, PrimaryStands
      <4> QED
        BY <4>1, <4>2
    <3> QED
      BY <1>6, <3>2, <3>3, ScannedIs DEF Tidy
  <2> QED
    BY <1>1, <2>2, <2>3, <2>4
<1> QED
  BY <1>9, <1>10, <1>11, <1>12, <1>13, <1>14, <1>15, <1>16, <1>17, <1>18

LEMMA RenameTempKeeps == PoolInv /\ RenameTemp => PoolInv'
<1> SUFFICES ASSUME PoolInv, RenameTemp PROVE PoolInv'
  OBVIOUS
<1> USE DEF PoolInv
<1> DEFINE t == run.todo[run.slot]
           u == Temp(t)
           b == run.bufs[run.slot]
<1>1. /\ run.slot \in Todo /\ t = Target /\ t \in Images /\ t[2] < MaxTemp
      /\ b \in Content /\ Fits(t, b) /\ b.kind \notin {"absent", "torn"}
      /\ run.kind \in {"format", "flush"} /\ run.staged /\ disk[u] = b
  BY WritesWhat DEF RenameTemp, RunOK, Target
<1>2. u \in Images /\ u \notin Pictures /\ u # t /\ u[1] = t[1]
  BY <1>1, TempIs
<1>3. disk' = [disk EXCEPT ![t] = b, ![u] = Absent] /\ disk \in [Images -> Content]
  BY <1>1 DEF RenameTemp, Types
<1> HIDE DEF t, u, b
<1>4. \A x \in Images : disk'[x] = IF x = u THEN Absent ELSE IF x = t THEN b ELSE disk[x]
  BY <1>2, <1>3
<1>5. disk' \in [Images -> Content]
  BY <1>1, <1>3, KindsDiffer
<1>6. /\ run'.kind = run.kind /\ run'.gen = run.gen /\ run'.forced = run.forced /\ run'.todo = run.todo
      /\ run'.bufs = run.bufs /\ run'.slot = run.slot + 1 /\ run'.staged = FALSE /\ run' \in RunRecord
  <2>1. run \in RunRecord /\ run.slot + 1 \in Nat
    BY DEF Types, RunRecord
  <2>2. run' = [run EXCEPT !.staged = FALSE, !.slot = run.slot + 1]
    BY DEF RenameTemp
  <2> QED
    BY <2>1, <2>2 DEF RunRecord
<1>7. UNCHANGED <<pools, formed, kept, stray, broken>>
  BY DEF RenameTemp
<1>8. run.slot \in 1..Len(run.todo) /\ Len(run.todo) \in Nat
  BY <1>1 DEF Todo, Types, RunRecord
<1>9. Types'
  <2>1. run'.slot \in 1..Len(run'.todo) + 1
    BY <1>6, <1>8
  <2> QED
    BY <1>5, <1>6, <1>7, <2>1 DEF Types
<1>10. DiskFits'
  <2>1. FitsIn(pools, t, b) /\ FitsIn(pools, u, Absent)
    BY <1>1 DEF Fits, FitsIn
  <2>2. \A x \in Images : FitsIn(pools, x, disk'[x])
    BY <1>4, <2>1 DEF DiskFits, Fits
  <2> QED
    BY <1>7, <2>2 DEF DiskFits, Fits
<1>11. AllChosen'
  BY <1>7 DEF AllChosen, Formats
<1>12. RunOK'
  <2>1. run'.kind # "idle"
    BY <1>1, <1>6
  <2>2. \A j \in 1..Len(run.todo) : /\ run.todo[j][2] < MaxTemp /\ FitsIn(pools, run.todo[j], run.bufs[j])
                                    /\ run.bufs[j].kind \notin {"absent", "torn"}
    BY DEF RunOK, Todo, Fits
  <2> QED
    BY <1>6, <1>7, <2>1, <2>2 DEF RunOK, Todo, Fits
<1>13. FormatOK'
  BY <1>6, <1>7 DEF FormatOK, Formats, Chunk, ChunkIn
\* Nothing else is written to where a picture of the run is.
<1>14. Written'
  <2> SUFFICES ASSUME run.kind = "format", ~stray, NEW j \in Todo, j < run.slot + 1
               PROVE  disk'[run.todo[j]] = run.bufs[j]
    BY <1>6, <1>7 DEF Written, Todo
  <2>1. run.todo[j] \in Pictures /\ run.todo[j] \in Images
    BY DEF NoTemps, Pictures
  <2>2. CASE j = run.slot
    BY <1>1, <1>2, <1>4, <2>2 DEF t, b
  <2>3. CASE j # run.slot
    <3>1. j < run.slot
      BY <1>8, <2>3 DEF Todo
    <3>2. run.todo[j] # t
      BY <1>1, <2>3, TodoDiffers DEF t
    <3> QED
      BY <1>2, <1>4, <2>1, <3>1, <3>2 DEF Written
  <2> QED
    BY <2>2, <2>3
\* A sync gives a picture what it holds.
<1>15. run.kind = "flush" /\ ~Overrun => \A x \in Pictures : disk'[x] = disk[x]
  <2>1. run.kind = "flush" /\ ~Overrun /\ t \in Pictures => disk[t] = b
    BY <1>1, <1>8 DEF FlushOK, t, b
  <2> QED
    BY <1>2, <1>4, <2>1 DEF Pictures
<1>16. FlushOK'
  <2> SUFFICES ASSUME run.kind = "flush", ~Overrun PROVE FlushOK'
    BY <1>6, <1>7 DEF FlushOK, Overrun
  <2>1. ASSUME NEW j \in Todo, j >= run.slot + 1, run.todo[j] \in Pictures PROVE disk'[run.todo[j]] = run.bufs[j]
    BY <1>8, <1>15, <2>1 DEF FlushOK, Todo
  <2>2. ASSUME ~stray, ~broken, NEW j \in Todo, j >= run.slot + 1 PROVE disk'[run.todo[j]] = run.bufs[j]
    <3>1. j # run.slot /\ j >= run.slot
      BY <1>8, <2>2 DEF Todo
    <3>2. run.todo[j][1] # t[1]
      BY <1>1, <2>2, <3>1 DEF FlushOK, t
    <3>3. run.todo[j] \in Images
      BY DEF Types, RunRecord, Todo
    <3> QED
      BY <1>2, <1>4, <2>2, <3>1, <3>2, <3>3 DEF FlushOK
  <2> QED
    BY <1>6, <1>7, <2>1, <2>2 DEF FlushOK, Todo
<1>17. PicturesKept' /\ FormedOK' /\ KeptOK'
  <2>1. CASE run.kind = "flush" /\ ~Overrun
    BY <1>6, <1>7, <1>15, <2>1, PicturesStay
  <2>2. CASE run.kind = "format" \/ Overrun
    <3>1. PicturesKept'
      BY <1>1, <1>2, <1>4 DEF PicturesKept, Pictures
    <3>2. formed' = 0 /\ kept' = 0
      BY <1>7, <2>2 DEF FormatOK, KeptOK, Overrun
    <3> QED
      BY <3>1, <3>2 DEF FormedOK, KeptOK
  <2> QED
    BY <1>1, <2>1, <2>2
<1>18. NoTemps'
  <2> SUFFICES ASSUME ~stray, formed # 0 \/ run.kind = "format" PROVE NoTemps'
    BY <1>6, <1>7 DEF NoTemps
  <2>1. t \in Pictures
    BY <1>1 DEF NoTemps, t
  <2>2. \A x \in Images : disk'[x].kind # "absent" => x \in Pictures
    BY <1>1, <1>4, <2>1, KindsDiffer DEF NoTemps, Present, u
  <2> QED
    BY <1>6, <1>7, <2>2 DEF NoTemps, Present, Todo
<1>19. Tidy'
  <2> SUFFICES ASSUME ~broken, ~stray, ~(run.kind = "format" /\ run.forced) PROVE Tidy'
    BY <1>6, <1>7 DEF Tidy
  <2>1. \A x \in FramedIn(disk') : (x \in FramedIn(disk) /\ disk'[x] = disk[x]) \/ (x = t /\ disk'[x] = b /\ IsFramed(b))
    BY <1>4, KindsDiffer DEF FramedIn, IsFramed
  <2>2. CASE run.kind = "flush"
    <3>1. disk[t] = b
      BY <1>1, <1>8, <2>2 DEF FlushOK, Overrun, t, b
    <3>2. \A x \in FramedIn(disk') : x \in FramedIn(disk) /\ disk'[x] = disk[x]
      BY <1>1, <2>1, <3>1 DEF FramedIn
    <3> QED
      BY <1>6, <1>7, <1>15, <2>2, <3>2, TidyStays DEF Overrun
  <2>3. CASE run.kind = "format"
    <3>1. (IsFramed(b) <=> ~pools[run.gen].encrypted) /\ (IsFramed(b) => b.gen = run.gen /\ b.index = run.slot)
      BY <2>3, BufferIs DEF RenameTemp, b
    <3>2. \A x \in FramedIn(disk') : disk'[x].gen = run.gen
      BY <2>1, <2>3, <3>1, ScannedIs DEF Tidy
    <3>3. \/ \A x \in FramedIn(disk') : disk'[x].index = 1
          \/ \E x \in Pictures : IsFramed(disk'[x]) /\ disk'[x].index = 1
      <4>1. CASE pools[run.gen].encrypted
        BY <2>1, <2>3, <3>1, <4>1, NothingFramed
      <4>2. CASE ~pools[run.gen].encrypted /\ run.slot = 1
        <5>1. t \in Pictures /\ disk'[t] = b
          BY <1>1, <1>2, <1>4, <2>3 DEF NoTemps, t
        <5> QED
          BY <3>1, <4>2, <5>1
      <4>3. CASE ~pools[run.gen].encrypted /\ run.slot # 1
        <5>1. run.slot > 1
          BY <1>8, <4>3
        <5>2. PICK x \in Pictures : IsFramed(disk[x]) /\ disk[x].index = 1 /\ 1 \in Todo /\ x = run.todo[1]
          BY <2>3, <4>3, <5>1, PrimaryStands
        <5>3. x # t
          BY <1>1, <2>3, <4>3, <5>2, TodoDiffers DEF t
        <5>4. disk'[x] = disk[x]
          BY <1>2, <1>4, <5>2, <5>3 DEF Pictures
        <5> QED
          BY <5>2, <5>4
      <4> QED
        BY <4>1, <4>2, <4>3
    <3> QED
      BY <1>6, <3>2, <3>3, ScannedIs DEF Tidy
  <2> QED
    BY <1>1, <2>2, <2>3
<1> QED
  BY <1>9, <1>10, <1>11, <1>12, <1>13, <1>14, <1>16, <1>17, <1>18, <1>19

LEMMA IdleIs ==
    /\ Idle \in RunRecord /\ Idle.kind = "idle" /\ Idle.gen = 0 /\ Idle.forced = FALSE
    /\ Idle.todo = <<>> /\ Idle.bufs = <<>> /\ Idle.slot = 1 /\ Idle.staged = FALSE
  BY DEF Idle, RunRecord

\* What the invariant says of a run that has ended.
LEMMA EndsWell ==
    ASSUME PoolInv, run' = Idle, UNCHANGED <<pools, stray>>,
           disk' \in [Images -> Content], \A x \in Images : disk'[x] \in {disk[x], Torn, Photo},
           formed' \in 0..Len(pools), kept' \in 0..Len(pools), broken' \in BOOLEAN
    PROVE  Types' /\ DiskFits' /\ AllChosen' /\ RunOK' /\ FormatOK' /\ Written' /\ FlushOK'
<1> USE DEF PoolInv
<1>1. Types'
  <2>1. run'.gen \in 0..Len(pools) /\ run'.slot \in 1..Len(run'.todo) + 1 /\ Len(run'.bufs) = Len(run'.todo)
    BY IdleIs DEF Types
  <2> QED
    BY <2>1, IdleIs DEF Types
<1>2. DiskFits'
  <2>1. \A x \in Images : FitsIn(pools, x, disk'[x])
    BY DEF DiskFits, Fits, FitsIn
  <2> QED
    BY <2>1 DEF DiskFits, Fits
<1>3. AllChosen'
  BY DEF AllChosen, Formats
<1>4. RunOK' /\ FormatOK' /\ Written' /\ FlushOK'
  BY IdleIs DEF RunOK, FormatOK, Written, FlushOK, Todo
<1> QED
  BY <1>1, <1>2, <1>3, <1>4

LEMMA InterruptedKeeps == PoolInv /\ Interrupted => PoolInv'
<1> SUFFICES ASSUME PoolInv, Interrupted PROVE PoolInv'
  OBVIOUS
<1> USE DEF PoolInv
<1> DEFINE u == Temp(Target)
<1>1. Target \in Images /\ Target[2] < MaxTemp
  BY WritesWhat DEF Interrupted
<1>2. u \in Images /\ u \notin Pictures
  BY <1>1, TempIs
<1>3. disk \in [Images -> Content]
      /\ (disk' = disk \/ \E half \in {Torn, Photo} : disk' = [disk EXCEPT ![u] = half])
  BY DEF Interrupted, Types
<1> HIDE DEF u
<1>4. disk' \in [Images -> Content] /\ \A x \in Images : disk'[x] = disk[x] \/ (x = u /\ disk'[x] \in {Torn, Photo})
  BY <1>2, <1>3, KindsDiffer
<1>5. run' = Idle /\ formed' = 0 /\ UNCHANGED <<pools, kept, stray>>
  BY DEF Interrupted
<1>6. broken' \in BOOLEAN /\ (broken' <=> broken \/ run.forced)
  BY Zenon DEF Interrupted
<1>7. \A x \in Pictures : disk'[x] = disk[x]
  BY <1>2, <1>4 DEF Pictures
<1>8. formed' \in 0..Len(pools) /\ kept' \in 0..Len(pools)
  BY <1>5 DEF Types
<1>9. Types' /\ DiskFits' /\ AllChosen' /\ RunOK' /\ FormatOK' /\ Written' /\ FlushOK'
  BY <1>4, <1>5, <1>6, <1>8, EndsWell
<1>10. PicturesKept' /\ FormedOK' /\ KeptOK'
  BY <1>5, <1>7, IdleIs, PicturesStay
<1>11. NoTemps'
  BY <1>5, IdleIs DEF NoTemps
<1>12. Tidy'
  <2>1. \A x \in FramedIn(disk') : x \in FramedIn(disk) /\ disk'[x] = disk[x]
    BY <1>4, KindsDiffer DEF FramedIn, IsFramed
  <2> QED
    BY <1>5, <1>6, <1>7, <2>1, IdleIs, TidyStays
<1> QED
  BY <1>9, <1>10, <1>11, <1>12

\* A format that has written everything has left its pool, and nothing else of a plaintext
\* pool.
LEMMA AllWritten ==
    ASSUME PoolInv, run.kind = "format", ~Writing, ~stray
    PROVE  /\ run.gen \in Formats /\ ~run.staged /\ Whole(run.gen)
           /\ pools[run.gen].encrypted => disk[pools[run.gen].anchor] = Boot(run.gen)
           /\ \A x \in FramedIn(disk) : disk[x].gen = run.gen
           /\ \/ FramedIn(disk) = {}
              \/ \E x \in Pictures : IsFramed(disk[x]) /\ disk[x].index = 1
<1> DEFINE p == pools[run.gen]
<1> DEFINE n == Len(p.manifest)
<1> USE DEF PoolInv
<1>1. run.gen \in 1..Len(pools) /\ p \in PoolRecord /\ Chosen(p, FALSE)
  <2>1. run.gen \in 1..Len(pools) /\ p \in PoolRecord
    BY DEF FormatOK, Formats, Types
  <2>2. Chosen(p, stray)
    BY <2>1 DEF AllChosen, Formats
  <2> QED
    BY <2>1, <2>2 DEF Chosen
<1>2. n \in Nat /\ n > 0 /\ p.encrypted \in BOOLEAN /\ p.manifest \in Seq(Images)
  <2> HIDE DEF p
  <2>1. p.manifest \in Seq(Images) /\ p.encrypted \in BOOLEAN
    BY <1>1 DEF PoolRecord
  <2> QED
    BY <1>1, <2>1 DEF Chosen
<1>3. /\ Len(run.todo) = IF p.encrypted THEN n + 1 ELSE n
      /\ \A k \in 1..n : run.todo[k] = p.manifest[k] /\ run.bufs[k] = Chunk(run.gen, k)
      /\ p.encrypted => run.todo[n + 1] = p.anchor /\ run.bufs[n + 1] = Boot(run.gen)
  BY DEF FormatOK
<1>4. Len(run.todo) \in Nat /\ run.slot \in Nat
  BY DEF Types, RunRecord
<1>5. ~(run.slot <= Len(run.todo))
  BY DEF Writing
<1>6. \A j \in Todo : disk[run.todo[j]] = run.bufs[j]
  BY <1>4, <1>5 DEF Written, Todo
<1>7. ~run.staged
  BY <1>4, <1>5 DEF RunOK, Todo
<1> HIDE DEF n, p
<1>8. \A k \in 1..n : disk[p.manifest[k]] = Chunk(run.gen, k)
  BY <1>2, <1>3, <1>6 DEF Todo
<1>9. Whole(run.gen)
  BY <1>8 DEF Whole, Chunk, ChunkIn, n, p
<1>10. p.encrypted => disk[p.anchor] = Boot(run.gen)
  <2>1. p.encrypted => n + 1 \in Todo
    BY <1>2, <1>3 DEF Todo
  <2> QED
    BY <1>3, <1>6, <2>1
<1>11. \A x \in FramedIn(disk) : x \in Pictures
  BY <1>7, KindsDiffer DEF NoTemps, Present, FramedIn, IsFramed
<1>12. CASE p.encrypted
  <2>1. ASSUME NEW x \in FramedIn(disk) PROVE FALSE
    <3>1. x \in Pictures
      BY <1>11
    <3>2. CASE x = p.anchor
      BY <1>10, <1>12, <3>2, KindsDiffer DEF FramedIn, IsFramed
    <3>3. CASE x # p.anchor
      <4>1. PICK k \in 1..n : p.manifest[k] = x
        BY <1>1, <1>12, <3>1, <3>3 DEF Chosen, n
      <4>2. disk[x] = Data(run.gen, k)
        BY <1>8, <1>12, <4>1 DEF Chunk, ChunkIn, p
      <4> QED
        BY <4>2, KindsDiffer DEF FramedIn, IsFramed
    <3> QED
      BY <3>2, <3>3
  <2>2. FramedIn(disk) = {}
    BY <2>1
  <2> QED
    BY <1>1, <1>7, <1>9, <1>10, <2>2 DEF Formats, p
<1>13. CASE ~p.encrypted
  <2>1. \A k \in 1..n : disk[p.manifest[k]] = Framed(run.gen, k, Size[p.manifest[k][1]])
    BY <1>8, <1>13 DEF Chunk, ChunkIn, p
  <2>2. ASSUME NEW x \in FramedIn(disk) PROVE disk[x].gen = run.gen
    <3>1. x \in Pictures /\ x \in Images /\ Fits(x, disk[x])
      BY <1>11 DEF DiskFits, FramedIn
    <3>2. disk[x].gen \in Formats /\ disk[x].index \in Chunks(disk[x].gen) /\ ~pools[disk[x].gen].encrypted
          /\ pools[disk[x].gen].manifest[disk[x].index][1] = x[1]
      BY <3>1, FramedFits DEF FramedIn
    <3>3. x[1] \notin Small
      BY <3>2 DEF AllChosen, Chosen, Chunks
    <3>4. PICK k \in 1..n : p.manifest[k] = x
      BY <1>1, <1>13, <3>1, <3>3 DEF Chosen, n
    <3> QED
      BY <2>1, <3>4, KindsDiffer
  <2>3. p.manifest[1] \in Pictures
    BY <1>1, <1>2 DEF Chosen, n
  <2>4. disk[p.manifest[1]] = Framed(run.gen, 1, Size[p.manifest[1][1]])
    BY <1>2, <2>1
  <2>5. IsFramed(disk[p.manifest[1]]) /\ disk[p.manifest[1]].index = 1
    BY <2>4 DEF IsFramed, Framed
  <2> QED
    BY <1>1, <1>7, <1>9, <1>13, <2>2, <2>3, <2>5 DEF Formats, p
<1> QED
  BY <1>2, <1>12, <1>13

LEMMA FinishKeeps == PoolInv /\ Finish => PoolInv'
<1> SUFFICES ASSUME PoolInv, Finish PROVE PoolInv'
  OBVIOUS
<1> USE DEF PoolInv
<1>1. run' = Idle /\ UNCHANGED <<disk, pools, stray, broken>> /\ ~Writing /\ run.kind # "idle"
  BY DEF Finish
<1>2. /\ formed' = IF run.kind = "format" THEN run.gen ELSE formed
      /\ kept' = IF run.kind = "format" /\ ~pools[run.gen].encrypted /\ ~stray THEN run.gen ELSE kept
  BY DEF Finish
<1>3. formed' \in 0..Len(pools) /\ kept' \in 0..Len(pools) /\ broken' \in BOOLEAN
  BY <1>1, <1>2 DEF Types
<1>4. disk' \in [Images -> Content] /\ \A x \in Images : disk'[x] = disk[x]
  BY <1>1 DEF Types
<1>5. Types' /\ DiskFits' /\ AllChosen' /\ RunOK' /\ FormatOK' /\ Written' /\ FlushOK'
  BY <1>1, <1>3, <1>4, EndsWell
<1>6. run.slot \notin Todo /\ ~run.staged
  <2>1. run.slot \in Nat /\ Len(run.todo) \in Nat
    BY DEF Types, RunRecord
  <2>2. run.slot \notin Todo
    BY <1>1, <2>1 DEF Writing, Todo
  <2> QED
    BY <2>2 DEF RunOK
<1>7. NoTemps'
  BY <1>1, <1>2, <1>6, IdleIs DEF NoTemps, Present, Todo
<1>8. CASE run.kind = "flush"
  <2>1. PicturesKept' /\ FormedOK' /\ KeptOK'
    BY <1>1, <1>2, <1>8, IdleIs, PicturesStay
  <2>2. Tidy'
    BY <1>1, <1>8, IdleIs, TidyStays
  <2> QED
    BY <1>5, <1>7, <2>1, <2>2
<1>9. CASE run.kind = "format"
  <2>1. PicturesKept'
    BY <1>1 DEF PicturesKept
  <2>2. FormedOK'
    <3>1. formed' = run.gen
      BY <1>2, <1>9
    <3> QED
      BY <1>1, <1>9, <3>1, AllWritten, WholeIs DEF FormedOK
  <2>3. KeptOK'
    BY <1>1, <1>2, <1>9, AllWritten, WholeIs, IdleIs DEF KeptOK
  <2>4. Tidy'
    BY <1>1, <1>9, AllWritten, ScannedIs, IdleIs DEF Tidy
  <2> QED
    BY <1>5, <1>7, <2>1, <2>2, <2>3, <2>4
<1> QED
  BY <1>1, <1>8, <1>9 DEF Types, RunRecord

\* Either format: its carriers are images that are there, all those that serve.
Serves(pool, images, bufs, g) ==
    LET n == Len(pool.manifest)
    IN  /\ Injective(pool.manifest)
        /\ pool.encrypted => pool.anchor \in Present /\ \A k \in 1..n : pool.manifest[k] # pool.anchor
        /\ ~pool.encrypted => \A k \in 1..n : pool.manifest[k][1] \notin Small
        /\ \A k \in 1..n : pool.manifest[k] \in Present
        /\ \A x \in Present : (IF pool.encrypted THEN x # pool.anchor ELSE x[1] \notin Small)
                                  => \E k \in 1..n : pool.manifest[k] = x
        /\ Len(images) = IF pool.encrypted THEN n + 1 ELSE n
        /\ Len(bufs) = Len(images)
        /\ \A k \in 1..n : /\ images[k] = pool.manifest[k]
                           /\ bufs[k] = IF pool.encrypted THEN Data(g, k)
                                        ELSE Framed(g, k, Size[pool.manifest[k][1]])
        /\ pool.encrypted => images[n + 1] = pool.anchor /\ bufs[n + 1] = Boot(g)

LEMMA BeginFormatKeeps ==
    ASSUME PoolInv, NEW pool \in PoolRecord, NEW images \in Seq(Images), NEW bufs \in Seq(Content),
           NEW forced \in BOOLEAN, BeginFormat(pool, images, bufs, forced),
           Serves(pool, images, bufs, Len(pools) + 1), forced \/ ~ValidPlaintext
    PROVE  PoolInv'
<1> USE DEF PoolInv
<1> DEFINE g == Len(pools) + 1
           n == Len(pool.manifest)
<1>1. pools \in Seq(PoolRecord) /\ Len(pools) \in Nat /\ pool.manifest \in Seq(Images) /\ n \in Nat
      /\ pool.encrypted \in BOOLEAN
  <2>1. pools \in Seq(PoolRecord) /\ pool.manifest \in Seq(Images) /\ pool.encrypted \in BOOLEAN
    BY DEF Types, PoolRecord
  <2> QED
    BY <2>1
<1>2. pools' = Append(pools, pool) /\ pools' \in Seq(PoolRecord) /\ Len(pools') = g /\ g \in Nat
      /\ pools'[g] = pool /\ \A h \in 1..Len(pools) : pools'[h] = pools[h]
  BY <1>1 DEF BeginFormat
<1>3. run = Idle /\ Bounded /\ n > 0
  <2>1. pool.manifest # <<>>
    BY DEF BeginFormat
  <2> QED
    BY <1>1, <2>1 DEF BeginFormat
<1>4. /\ run'.kind = "format" /\ run'.gen = g /\ run'.forced = forced /\ run'.todo = images
      /\ run'.bufs = bufs /\ run'.slot = 1 /\ run'.staged = FALSE /\ run' \in RunRecord
  <2>1. run' = [kind |-> "format", gen |-> g, forced |-> forced,
                todo |-> images, bufs |-> bufs, slot |-> 1, staged |-> FALSE]
    BY DEF BeginFormat
  <2> HIDE DEF g
  <2> QED
    BY <1>2, <2>1 DEF RunRecord
<1>5. formed' = 0 /\ kept' = (IF forced THEN 0 ELSE kept) /\ UNCHANGED <<disk, broken>>
  BY DEF BeginFormat
<1>6. stray' \in BOOLEAN /\ (stray' <=> stray \/ \E x \in Present : x[2] > 0)
  BY Zenon DEF BeginFormat
<1>7. Present \subseteq Images /\ (~stray' => ~stray /\ Present = Pictures)
  <2>1. Present \subseteq Images
    BY DEF Present
  <2>2. \A x \in Present : ~(x[2] > 0) => x \in Pictures
    BY <2>1, ImageParts DEF Pictures
  <2>3. Pictures \subseteq Present
    BY DEF PicturesKept, Present, Pictures
  <2> QED
    BY <1>6, <2>1, <2>2, <2>3
<1> HIDE DEF n, g
<1>8. /\ Len(images) = IF pool.encrypted THEN n + 1 ELSE n
      /\ Len(bufs) = Len(images)
      /\ \A k \in 1..n : /\ images[k] = pool.manifest[k]
                         /\ bufs[k] = IF pool.encrypted THEN Data(g, k)
                                      ELSE Framed(g, k, Size[pool.manifest[k][1]])
      /\ pool.encrypted => images[n + 1] = pool.anchor /\ bufs[n + 1] = Boot(g)
  BY DEF Serves, n, g
<1>9. Types'
  <2>1. run'.gen \in 0..Len(pools') /\ run'.slot \in 1..Len(run'.todo) + 1 /\ Len(run'.bufs) = Len(run'.todo)
    BY <1>2, <1>4, <1>8
  <2>2. formed' \in 0..Len(pools') /\ kept' \in 0..Len(pools')
    BY <1>1, <1>2, <1>5 DEF Types, g
  <2> QED
    BY <1>2, <1>4, <1>5, <1>6, <2>1, <2>2 DEF Types
<1>10. ASSUME NEW x, NEW c, FitsIn(pools, x, c) PROVE FitsIn(pools', x, c)
  <2>1. 1..Len(pools) \subseteq 1..Len(pools')
    BY <1>1, <1>2 DEF g
  <2> QED
    BY <1>2, <1>10, <2>1 DEF FitsIn
<1>11. DiskFits'
  <2>1. \A x \in Images : FitsIn(pools', x, disk[x])
    BY <1>10 DEF DiskFits, Fits
  <2> QED
    BY <1>5, <2>1 DEF DiskFits, Fits
<1>12. AllChosen'
  <2>1. ASSUME NEW h \in 1..Len(pools) PROVE Chosen(pools[h], stray')
    BY <1>7 DEF AllChosen, Formats, Chosen
  <2>2. Chosen(pool, stray')
    BY <1>3, <1>7 DEF Serves, Chosen, n
  <2>3. \A h \in 1..g : h = g \/ h \in 1..Len(pools)
    BY <1>1 DEF g
  <2>4. \A h \in 1..g : Chosen(pools'[h], stray')
    BY <1>2, <2>1, <2>2, <2>3
  <2> QED
    BY <1>2, <2>4 DEF AllChosen, Formats
<1>13. \A j \in 1..Len(images) : j \in 1..n \/ (pool.encrypted /\ j = n + 1)
  BY <1>1, <1>8
<1>14. \A j \in 1..Len(images) : images[j] \in Present
  BY <1>8, <1>13 DEF Serves, n
<1>15. RunOK'
  <2>1. ASSUME NEW j \in 1..Len(images)
        PROVE  images[j][2] < MaxTemp /\ FitsIn(pools', images[j], bufs[j]) /\ bufs[j].kind \notin {"absent", "torn"}
    <3>1. images[j][2] < MaxTemp
      BY <1>3, <1>14 DEF Bounded
    <3>2. g \in 1..Len(pools')
      BY <1>1, <1>2 DEF g
    <3>3. CASE j \in 1..n /\ pool.encrypted
      <4>1. bufs[j] = Data(g, j) /\ j \in 1..Len(pools'[g].manifest)
        BY <1>2, <1>8, <3>3 DEF n
      <4> QED
        <5>1. FitsIn(pools', images[j], bufs[j])
          BY <3>2, <4>1 DEF FitsIn
        <5>2. bufs[j].kind = "data"
          BY <4>1 DEF Data
        <5> QED
          BY <3>1, <5>1, <5>2
    <3>4. CASE j \in 1..n /\ ~pool.encrypted
      <4>1. bufs[j] = Framed(g, j, Size[images[j][1]]) /\ j \in 1..Len(pools'[g].manifest)
            /\ ~pools'[g].encrypted /\ pools'[g].manifest[j][1] = images[j][1]
        BY <1>2, <1>8, <3>4 DEF n
      <4> QED
        <5>1. FitsIn(pools', images[j], bufs[j])
          BY <3>2, <4>1 DEF FitsIn
        <5>2. bufs[j].kind = "framed"
          BY <4>1 DEF Framed
        <5> QED
          BY <3>1, <5>1, <5>2
    <3>5. CASE pool.encrypted /\ j = n + 1
      <4>1. bufs[j] = Boot(g)
        BY <1>8, <3>5
      <4> QED
        BY <3>1, <3>2, <4>1, KindsDiffer DEF FitsIn
    <3> QED
      BY <1>13, <3>3, <3>4, <3>5
  <2> QED
    BY <1>4, <2>1 DEF RunOK, Todo, Fits
<1>16. FormatOK'
  <2>1. g \in 1..Len(pools')
    BY <1>1, <1>2 DEF g
  <2>2. \A k \in 1..n : bufs[k] = ChunkIn(pools', g, k)
    BY <1>2, <1>8 DEF ChunkIn
  <2> QED
    BY <1>2, <1>4, <1>5, <1>8, <2>1, <2>2 DEF FormatOK, Formats, Chunk, n
<1>17. Written' /\ FlushOK' /\ FormedOK'
  BY <1>4, <1>5 DEF Written, FlushOK, FormedOK, Todo
<1>18. PicturesKept'
  BY <1>5 DEF PicturesKept
<1>19. NoTemps'
  BY <1>4, <1>5, <1>7, <1>14 DEF NoTemps, Present, Todo
\* The kept pool has a primary, so that only a forced format gets here.
<1>20. KeptOK'
  <2> SUFFICES ASSUME kept # 0, ~forced PROVE FALSE
    BY <1>5 DEF KeptOK
  <2>1. kept \in 1..Len(pools) /\ Whole(kept) /\ ~pools[kept].encrypted
    BY DEF KeptOK, Types
  <2>2. Len(pools[kept].manifest) > 0 /\ pools[kept].manifest \in Seq(Images)
    <3>1. Chosen(pools[kept], stray) /\ pools[kept] \in PoolRecord
      BY <1>1, <2>1 DEF AllChosen, Formats
    <3> QED
      BY <3>1 DEF Chosen, PoolRecord
  <2>3. 1 \in 1..Len(pools[kept].manifest)
    BY <2>2
  <2> DEFINE x == pools[kept].manifest[1]
  <2>4. x \in Images /\ disk[x] = Framed(kept, 1, Size[x[1]])
    BY <2>1, <2>2, <2>3 DEF Whole
  <2> HIDE DEF x
  <2>5. x \in FramedIn(disk) /\ disk[x].index = 1
    BY <2>4 DEF FramedIn, IsFramed, Framed
  <2> QED
    BY <2>5, ScannedIs DEF ValidPlaintext
\* Nothing is framed when a format without --force begins.
<1>21. Tidy'
  <2> SUFFICES ASSUME ~broken, ~stray, ~forced PROVE Tidy'
    BY <1>4, <1>5, <1>7 DEF Tidy
  <2>1. \A x \in FramedIn(disk) : disk[x].index # 1
    BY ScannedIs DEF ValidPlaintext
  <2>2. \A x \in Pictures : IsFramed(disk[x]) => x \in FramedIn(disk)
    BY DEF Pictures, FramedIn
  <2>3. FramedIn(disk) = {}
    BY <1>3, <2>1, <2>2, ScannedIs, IdleIs DEF Tidy
  <2> QED
    BY <1>5, <2>3, ScannedIs DEF Tidy
<1> QED
  BY <1>9, <1>11, <1>12, <1>15, <1>16, <1>17, <1>18, <1>19, <1>20, <1>21

LEMMA FormatPlainKeeps ==
    ASSUME PoolInv, NEW forced \in BOOLEAN, FormatPlain(forced)
    PROVE  PoolInv'
<1> DEFINE S    == {x \in Present : x[1] \notin Small}
           m    == InOrder(S, ByName)
           g    == Len(pools) + 1
           bufs == [k \in 1..Len(m) |-> Framed(g, k, Size[m[k][1]])]
           pool == [encrypted |-> FALSE, pass |-> "", anchor |-> <<0, 0>>, manifest |-> m]
<1>1. S \in SUBSET Images /\ S \subseteq Present
  BY DEF Present
<1>2. (forced \/ ~ValidPlaintext) /\ BeginFormat(pool, m, bufs, forced)
  BY DEF FormatPlain
<1> HIDE DEF S
<1>3. /\ m \in Seq(S) /\ Len(m) = Cardinality(S) /\ Injective(m)
      /\ \A x \in S : \E k \in 1..Cardinality(S) : m[k] = x
  BY <1>1, InOrderOfNames
<1> HIDE DEF m
<1>4. Len(m) \in Nat /\ m \in Seq(Images) /\ \A k \in 1..Len(m) : m[k] \in S /\ m[k] \in Images
  BY <1>1, <1>3
<1>5. g \in Nat
  BY DEF PoolInv, Types
<1> HIDE DEF g
<1>6. \A k \in 1..Len(m) : Framed(g, k, Size[m[k][1]]) \in Content
  <2> SUFFICES ASSUME NEW k \in 1..Len(m) PROVE Framed(g, k, Size[m[k][1]]) \in Content
    OBVIOUS
  <2>1. m[k][1] \in 1..NImages
    BY <1>4, ImageParts
  <2>2. Size[m[k][1]] \in Nat /\ k \in Nat
    BY <1>4, <2>1, PoolAssumption DEF PoolAssumption
  <2> QED
    BY <1>5, <2>2, KindsDiffer
<1>7. bufs \in Seq(Content) /\ Len(bufs) = Len(m) /\ \A k \in 1..Len(m) : bufs[k] = Framed(g, k, Size[m[k][1]])
  BY <1>4, <1>6
<1>8. pool \in PoolRecord /\ pool.encrypted = FALSE /\ pool.manifest = m
  BY <1>4 DEF PoolRecord
<1> HIDE DEF bufs, pool
<1>9. Serves(pool, m, bufs, g)
  <2>1. \A k \in 1..Len(m) : m[k][1] \notin Small /\ m[k] \in Present
    BY <1>4 DEF S
  <2>2. \A x \in Present : x[1] \notin Small => \E k \in 1..Len(m) : m[k] = x
    BY <1>3 DEF S
  <2> QED
    BY <1>3, <1>7, <1>8, <2>1, <2>2 DEF Serves
<1> QED
  BY <1>2, <1>4, <1>7, <1>8, <1>9, BeginFormatKeeps DEF g

LEMMA FormatEncryptedKeeps ==
    ASSUME PoolInv, NEW forced \in BOOLEAN, NEW anchor \in Images, NEW pass \in Passphrases,
           FormatEncrypted(anchor, pass, forced)
    PROVE  PoolInv'
<1> DEFINE S      == CarriersBeside(anchor)
           m      == InOrder(S, ByName)
           g      == Len(pools) + 1
           datas  == [k \in 1..Len(m) |-> Data(g, k)]
           images == Append(m, anchor)
           bufs   == Append(datas, Boot(g))
           pool   == [encrypted |-> TRUE, pass |-> pass, anchor |-> anchor, manifest |-> m]
<1>1. S \in SUBSET Images /\ S = Present \ {anchor}
  BY DEF Present, CarriersBeside
<1>2. (forced \/ ~ValidPlaintext) /\ BeginFormat(pool, images, bufs, forced) /\ anchor \in Present
  BY DEF FormatEncrypted
<1> HIDE DEF S
<1>3. /\ m \in Seq(S) /\ Len(m) = Cardinality(S) /\ Injective(m)
      /\ \A x \in S : \E k \in 1..Cardinality(S) : m[k] = x
  BY <1>1, InOrderOfNames
<1> HIDE DEF m
<1>4. Len(m) \in Nat /\ m \in Seq(Images) /\ \A k \in 1..Len(m) : m[k] \in S /\ m[k] \in Images
  <2>1. Len(m) \in Nat /\ \A k \in 1..Len(m) : m[k] \in S
    BY <1>3
  <2>2. S \subseteq Images
    BY <1>1
  <2>3. m \in Seq(Images)
    BY <1>3, <2>2
  <2> QED
    BY <2>1, <2>2, <2>3
<1>5. g \in Nat
  BY DEF PoolInv, Types
<1> HIDE DEF g
<1>6. datas \in Seq(Content) /\ Len(datas) = Len(m) /\ \A k \in 1..Len(m) : datas[k] = Data(g, k)
  BY <1>4, <1>5, KindsDiffer
<1>7. Boot(g) \in Content
  BY <1>5, KindsDiffer
<1> HIDE DEF datas
<1>8. /\ images \in Seq(Images) /\ Len(images) = Len(m) + 1 /\ images[Len(m) + 1] = anchor
      /\ \A k \in 1..Len(m) : images[k] = m[k]
  BY <1>4
<1>9. /\ bufs \in Seq(Content) /\ Len(bufs) = Len(m) + 1 /\ bufs[Len(m) + 1] = Boot(g)
      /\ \A k \in 1..Len(m) : bufs[k] = Data(g, k)
  BY <1>4, <1>6, <1>7
<1>10. pool \in PoolRecord /\ pool.encrypted = TRUE /\ pool.manifest = m /\ pool.anchor = anchor
  BY <1>4 DEF PoolRecord
<1> HIDE DEF bufs, pool, images
<1>11. Serves(pool, images, bufs, g)
  <2>1. \A k \in 1..Len(m) : m[k] # anchor /\ m[k] \in Present
    BY <1>1, <1>4
  <2>2. \A x \in Present : x # anchor => \E k \in 1..Len(m) : m[k] = x
    BY <1>1, <1>3
  <2> QED
    BY <1>2, <1>3, <1>8, <1>9, <1>10, <2>1, <2>2 DEF Serves
<1> QED
  BY <1>2, <1>8, <1>9, <1>10, <1>11, BeginFormatKeeps DEF g

\* What the sync of a plaintext pool writes to: an image that is there, with the chunk.
LEMMA CarrierOf ==
    ASSUME PoolInv, NEW g \in Formats, ~pools[g].encrypted, OpensPlain(g), NEW k \in Chunks(g)
    PROVE  LET x == CHOOSE x \in At(k) : TRUE
           IN  x \in FramedIn(disk) /\ disk[x].index = k
<1>1. At(k) # {}
  BY DEF OpensPlain, Chunks
<1>2. (CHOOSE x \in At(k) : TRUE) \in At(k)
  BY <1>1
<1> QED
  BY <1>2, ScannedIs DEF At, First

LEMMA BeginFlushKeeps ==
    ASSUME PoolInv, NEW g \in Formats, BeginFlush(g)
    PROVE  PoolInv'
<1> USE DEF PoolInv
<1> DEFINE m == pools[g].manifest
           carrier == IF pools[g].encrypted THEN m ELSE [k \in 1..Len(m) |-> CHOOSE x \in At(k) : TRUE]
           Ks(dirty) == InOrder(dirty, {p \in dirty \X dirty : p[1] < p[2]})
<1>1. PICK dirty \in SUBSET (1..Len(m)), all \in SUBSET (1..Len(m)) :
          /\ run' = [kind |-> "flush", gen |-> g, forced |-> FALSE,
                     todo |-> [j \in 1..Len(Ks(dirty)) |-> carrier[Ks(dirty)[j]]],
                     bufs |-> [j \in 1..Len(Ks(dirty)) |->
                                  Buffer(g, Ks(dirty)[j], carrier[Ks(dirty)[j]], Ks(dirty)[j] \in all)],
                     slot |-> 1, staged |-> FALSE]
          /\ formed' = IF \E k \in dirty : Foreign(g, k) THEN 0 ELSE formed
          /\ kept' = IF \E k \in dirty : Foreign(g, k) THEN 0 ELSE kept
          /\ broken' = (broken \/ \E k \in dirty : Foreign(g, k))
  BY Zenon DEF BeginFlush
<1> DEFINE ks == Ks(dirty)
           todo == [j \in 1..Len(ks) |-> carrier[ks[j]]]
           bufs == [j \in 1..Len(ks) |-> Buffer(g, ks[j], carrier[ks[j]], ks[j] \in all)]
           over == \E k \in dirty : Foreign(g, k)
<1>2. run = Idle /\ Opens(g) /\ (\A x \in Present : x[2] < MaxTemp) /\ UNCHANGED <<disk, pools, stray>>
  BY DEF BeginFlush
<1>3. pools \in Seq(PoolRecord) /\ Len(pools) \in Nat /\ g \in 1..Len(pools) /\ pools[g] \in PoolRecord
  BY DEF Types, Formats
<1>4. m \in Seq(Images) /\ Len(m) \in Nat /\ Chosen(pools[g], stray)
  <2>1. pools[g].manifest \in Seq(Images)
    BY <1>3 DEF PoolRecord
  <2>2. Chosen(pools[g], stray)
    BY DEF AllChosen
  <2> QED
    BY <2>1, <2>2
<1>5. ks \in Seq(dirty) /\ Injective(ks)
  BY <1>4, InOrderOfNumbers
<1> HIDE DEF Ks
<1>6. Len(ks) \in Nat /\ \A j \in 1..Len(ks) : ks[j] \in 1..Len(m) /\ ks[j] \in dirty
  <2>1. Len(ks) \in Nat /\ \A j \in 1..Len(ks) : ks[j] \in dirty
    <3> HIDE DEF ks
    <3> QED
      BY <1>5
  <2> QED
    BY <2>1
<1> HIDE DEF ks
\* The carriers are images that are there.
<1>7. \A k \in 1..Len(m) : carrier[k] \in Images /\ disk[carrier[k]].kind \notin {"absent", "torn"}
  <2>1. CASE pools[g].encrypted
    BY <1>2, <1>4, <2>1 DEF Opens, OpensAnchor
  <2>2. CASE ~pools[g].encrypted
    BY <1>2, <2>2, CarrierOf DEF Opens, Chunks, FramedIn, IsFramed
  <2> QED
    BY <2>1, <2>2
\* No two are files of one picture, as long as there is nothing to confuse.
<1>8. ASSUME ~stray, ~broken, NEW k \in 1..Len(m), NEW l \in 1..Len(m), k # l
      PROVE  carrier[k][1] # carrier[l][1]
  <2>1. m[k] \in Pictures /\ m[l] \in Pictures /\ m[k] # m[l]
    BY <1>4, <1>8 DEF Chosen, Injective
  <2>2. m[k][1] # m[l][1]
    BY <2>1, ImageParts DEF Pictures
  <2>3. CASE pools[g].encrypted
    BY <2>2, <2>3
  <2>4. CASE ~pools[g].encrypted
    <3>1. PICK p \in FramedIn(disk) : disk[p].gen = g
      BY <1>2, <2>4, ScannedIs DEF Opens, OpensPlain, At, First
    <3>2. ASSUME NEW i \in 1..Len(m) PROVE carrier[i][1] = m[i][1]
      <4>1. carrier[i] \in FramedIn(disk) /\ disk[carrier[i]].index = i
        BY <1>2, <2>4, CarrierOf DEF Opens, Chunks
      <4>2. disk[carrier[i]].gen = g
        BY <1>2, <1>8, <3>1, <4>1, ScannedIs, IdleIs DEF Tidy
      <4> QED
        BY <4>1, <4>2, FramedFits DEF DiskFits, FramedIn
    <3> HIDE DEF carrier, m
    <3> QED
      BY <2>2, <3>2
  <2> QED
    BY <2>3, <2>4
\* What is written is what an image may hold, and what it holds unless the sync goes
\* over another pool.
<1>9. ASSUME NEW k \in 1..Len(m), NEW full
      PROVE  LET b == Buffer(g, k, carrier[k], full)
             IN  /\ b \in Content /\ Fits(carrier[k], b) /\ b.kind \notin {"absent", "torn"}
                 /\ ~Foreign(g, k) => b = disk[carrier[k]]
  <2>1. CASE ~Foreign(g, k)
    <3>1. Buffer(g, k, carrier[k], full) = disk[carrier[k]]
      BY <2>1 DEF Buffer
    <3> HIDE DEF carrier
    <3> QED
      BY <1>7, <3>1 DEF Types, DiskFits
  <2>2. CASE Foreign(g, k)
    <3>1. Buffer(g, k, carrier[k], full) \in {Data(g, k), Photo}
      BY <2>2 DEF Buffer
    <3>2. Data(g, k) \in Content /\ Photo \in Content /\ Data(g, k).kind = "data" /\ Photo.kind = "photo"
      BY <1>3, KindsDiffer
    <3> HIDE DEF carrier
    <3>3. Fits(carrier[k], Data(g, k)) /\ Fits(carrier[k], Photo)
      BY <1>3, <3>2 DEF Fits, FitsIn
    <3> QED
      BY <2>2, <3>1, <3>2, <3>3
  <2> QED
    BY <2>1, <2>2
<1> HIDE DEF m, carrier
<1>10. todo \in Seq(Images) /\ Len(todo) = Len(ks) /\ \A j \in 1..Len(ks) : todo[j] = carrier[ks[j]]
  BY <1>6, <1>7
<1>11. /\ bufs \in Seq(Content) /\ Len(bufs) = Len(ks)
       /\ \A j \in 1..Len(ks) : /\ Fits(todo[j], bufs[j]) /\ bufs[j].kind \notin {"absent", "torn"}
                                /\ ~Foreign(g, ks[j]) => bufs[j] = disk[carrier[ks[j]]]
  <2>1. \A j \in 1..Len(ks) : bufs[j] = Buffer(g, ks[j], carrier[ks[j]], ks[j] \in all)
    OBVIOUS
  <2>2. \A j \in 1..Len(ks) : /\ bufs[j] \in Content /\ Fits(todo[j], bufs[j])
                              /\ bufs[j].kind \notin {"absent", "torn"}
                              /\ ~Foreign(g, ks[j]) => bufs[j] = disk[carrier[ks[j]]]
    <3> SUFFICES ASSUME NEW j \in 1..Len(ks)
                 PROVE  /\ bufs[j] \in Content /\ Fits(todo[j], bufs[j])
                        /\ bufs[j].kind \notin {"absent", "torn"}
                        /\ ~Foreign(g, ks[j]) => bufs[j] = disk[carrier[ks[j]]]
      OBVIOUS
    <3>1. ks[j] \in 1..Len(m) /\ todo[j] = carrier[ks[j]]
      BY <1>6, <1>10
    <3> HIDE DEF bufs, todo
    <3> QED
      BY <1>9, <2>1, <3>1
  <2> QED
    BY <1>6, <2>1, <2>2
<1>12. run' = [kind |-> "flush", gen |-> g, forced |-> FALSE, todo |-> todo, bufs |-> bufs, slot |-> 1, staged |-> FALSE]
  BY <1>1 DEF ks
<1>13. /\ formed' = (IF over THEN 0 ELSE formed) /\ kept' = (IF over THEN 0 ELSE kept)
       /\ broken' = (broken \/ over) /\ broken' \in BOOLEAN
  BY <1>1, Zenon
<1> HIDE DEF todo, bufs, over
<1>14. /\ run'.kind = "flush" /\ run'.gen = g /\ run'.forced = FALSE /\ run'.todo = todo
       /\ run'.bufs = bufs /\ run'.slot = 1 /\ run'.staged = FALSE /\ run' \in RunRecord
  BY <1>3, <1>10, <1>11, <1>12 DEF RunRecord
<1>15. formed' \in {0, formed} /\ kept' \in {0, kept} /\ (broken => broken') /\ (over => Overrun')
  BY <1>13, Zenon DEF Overrun
<1>16. Types'
  <2>1. run'.gen \in 0..Len(pools') /\ run'.slot \in 1..Len(run'.todo) + 1 /\ Len(run'.bufs) = Len(run'.todo)
    BY <1>2, <1>3, <1>6, <1>10, <1>11, <1>14
  <2>2. formed' \in 0..Len(pools') /\ kept' \in 0..Len(pools')
    BY <1>2, <1>3, <1>15 DEF Types
  <2> QED
    BY <1>2, <1>13, <1>14, <2>1, <2>2 DEF Types
<1>17. DiskFits' /\ AllChosen' /\ FormatOK' /\ Written'
  BY <1>2, <1>14 DEF DiskFits, Fits, AllChosen, Formats, FormatOK, Written
<1>18. RunOK'
  <2>1. ASSUME NEW j \in 1..Len(todo)
        PROVE  todo[j][2] < MaxTemp /\ FitsIn(pools, todo[j], bufs[j]) /\ bufs[j].kind \notin {"absent", "torn"}
    <3>1. todo[j] \in Present
      BY <1>6, <1>7, <1>10 DEF Present
    <3> QED
      BY <1>2, <1>10, <1>11, <3>1 DEF Fits
  <2> QED
    BY <1>2, <1>14, <2>1 DEF RunOK, Todo, Fits
<1>19. FlushOK'
  <2> SUFFICES ASSUME ~over PROVE FlushOK'
    BY <1>15 DEF FlushOK
  <2>1. \A j \in 1..Len(todo) : disk[todo[j]] = bufs[j]
    BY <1>6, <1>10, <1>11 DEF over
  <2>2. broken' <=> broken
    BY <1>13, Zenon
  <2>3. ASSUME ~stray, ~broken, NEW i \in 1..Len(todo), NEW j \in 1..Len(todo), i # j
        PROVE  todo[i][1] # todo[j][1]
    BY <1>5, <1>6, <1>8, <1>10, <2>3 DEF Injective
  <2> QED
    BY <1>2, <1>14, <2>1, <2>2, <2>3 DEF FlushOK, Todo
<1>20. PicturesKept' /\ FormedOK' /\ KeptOK'
  <2>1. CASE over
    <3>1. formed' = 0 /\ kept' = 0
      BY <1>15, <2>1 DEF Overrun
    <3> QED
      BY <1>2, <3>1 DEF PicturesKept, FormedOK, KeptOK
  <2>2. CASE ~over
    BY <1>2, <1>13, <1>14, <2>2, PicturesStay
  <2> QED
    BY <2>1, <2>2
<1>21. NoTemps'
  <2> SUFFICES ASSUME ~stray, formed # 0 PROVE NoTemps'
    BY <1>2, <1>14, <1>15 DEF NoTemps
  <2>1. \A x \in Present : x \in Pictures
    BY <1>2, IdleIs DEF NoTemps
  <2>2. \A j \in 1..Len(todo) : todo[j] \in Pictures
    BY <1>6, <1>7, <1>10, <2>1 DEF Present
  <2> QED
    BY <1>2, <1>14, <2>1, <2>2 DEF NoTemps, Present, Todo
<1>22. Tidy'
  BY <1>2, <1>14, <1>15, IdleIs, TidyStays
<1> QED
  BY <1>16, <1>17, <1>18, <1>19, <1>20, <1>21, <1>22

LEMMA NextPool == PoolInv /\ [Next]_vars => PoolInv'
<1> SUFFICES ASSUME PoolInv, [Next]_vars PROVE PoolInv'
  OBVIOUS
<1>1. ASSUME NEW forced \in BOOLEAN, FormatPlain(forced) PROVE PoolInv'
  BY <1>1, FormatPlainKeeps
<1>2. ASSUME NEW forced \in BOOLEAN, NEW anchor \in Images, NEW pass \in Passphrases,
             FormatEncrypted(anchor, pass, forced)
      PROVE  PoolInv'
  BY <1>2, FormatEncryptedKeeps
<1>3. ASSUME NEW g \in Formats, BeginFlush(g) PROVE PoolInv'
  BY <1>3, BeginFlushKeeps
<1>4. CASE SaveTemp
  BY <1>4, SaveTempKeeps
<1>5. CASE RenameTemp
  BY <1>5, RenameTempKeeps
<1>6. CASE Finish
  BY <1>6, FinishKeeps
<1>7. CASE Interrupted
  BY <1>7, InterruptedKeeps
<1>8. CASE UNCHANGED vars
  <2> USE <1>8 DEF vars, PoolInv
  <2>1. Types' /\ DiskFits' /\ AllChosen' /\ RunOK'
    BY DEF Types, DiskFits, Fits, AllChosen, Formats, RunOK, Todo, Target
  <2>2. FormatOK' /\ Written' /\ FlushOK'
    BY DEF FormatOK, Formats, Chunk, Written, FlushOK, Overrun, Todo
  <2>3. PicturesKept' /\ NoTemps' /\ FormedOK' /\ KeptOK' /\ Tidy'
    BY DEF PicturesKept, NoTemps, Present, Todo, Target, FormedOK, Whole, KeptOK, Tidy, Scanned
  <2> QED
    BY <2>1, <2>2, <2>3
<1>9. CASE Refused
  BY <1>8, <1>9 DEF Refused
<1> QED
  BY <1>1, <1>2, <1>3, <1>4, <1>5, <1>6, <1>7, <1>8, <1>9 DEF Next

LEMMA PoolInvariant == Spec => []PoolInv
<1> QED
  BY InitPool, NextPool, PTL DEF Spec

-----------------------------------------------------------------------------
(* Theorems                                                                *)

\* Type correctness: an image holds what a format made, and a run that writes is at one
\* of its images or past the last one.
THEOREM TypeCorrect == Spec => []TypeOK
<1>1. PoolInv => TypeOK
  <2> SUFFICES ASSUME PoolInv PROVE TypeOK
    OBVIOUS
  <2> USE DEF PoolInv, Types
  <2>1. ASSUME NEW x \in Images
        PROVE  \/ disk[x] \in {Absent, Torn, Photo}
               \/ disk[x].kind \in {"framed", "data"} /\ disk[x].gen \in Formats
               \/ \E g \in Formats : disk[x] = Boot(g)
    <3>1. FitsIn(pools, x, disk[x])
      BY DEF DiskFits, Fits
    <3>2. CASE \E g \in 1..Len(pools) : \E k \in 1..Len(pools[g].manifest) : disk[x] = Data(g, k)
      <4>1. PICK g \in 1..Len(pools), k \in Nat : disk[x] = Data(g, k)
        BY <3>2
      <4>2. disk[x].kind = "data" /\ disk[x].gen = g
        BY <4>1 DEF Data
      <4> QED
        BY <4>2 DEF Formats
    <3>3. CASE \E g \in 1..Len(pools) : \E k \in 1..Len(pools[g].manifest) : disk[x] = Framed(g, k, Size[x[1]])
      <4>1. PICK g \in 1..Len(pools), k \in Nat : disk[x] = Framed(g, k, Size[x[1]])
        BY <3>3
      <4>2. disk[x].kind = "framed" /\ disk[x].gen = g
        BY <4>1 DEF Framed
      <4> QED
        BY <4>2 DEF Formats
    <3> QED
      BY <3>1, <3>2, <3>3 DEF FitsIn, Formats
  <2>2. ASSUME NEW g \in Formats PROVE Range(pools[g].manifest) \subseteq Images
    <3>1. pools[g] \in PoolRecord
      BY DEF Formats
    <3>2. pools[g].manifest \in Seq(Images)
      BY <3>1 DEF PoolRecord
    <3> QED
      BY <3>2 DEF Range
  <2> QED
    BY <2>1, <2>2 DEF TypeOK
<1> QED
  BY <1>1, PoolInvariant, PTL

\* The framed images of a whole plaintext pool, when there are no others, are its carriers
\* one by one.
LEMMA WholeOpens ==
    ASSUME PoolInv, NEW g \in Formats, ~stray, Whole(g), ~pools[g].encrypted,
           \A x \in Present : x \in Pictures
    PROVE  OpensPlain(g)
<1> USE DEF PoolInv
<1> DEFINE m == pools[g].manifest
           n == Len(m)
           F == FramedIn(disk)
<1>1. m \in Seq(Images) /\ Chosen(pools[g], FALSE)
  <2>1. pools[g] \in PoolRecord
    BY DEF Types, Formats
  <2> QED
    BY <2>1 DEF PoolRecord, AllChosen, Chosen
<1>2. \A k \in 1..n : m[k] \in Images /\ disk[m[k]] = Framed(g, k, Size[m[k][1]])
  BY <1>1 DEF Whole
<1>3. n \in Nat /\ n > 0 /\ Injective(m)
  BY <1>1 DEF Chosen
<1>4. ASSUME NEW x \in F PROVE \E k \in 1..n : m[k] = x
  <2>1. x \in Pictures /\ x \in Images /\ Fits(x, disk[x])
    BY ScannedIs DEF Scanned, FramedIn, DiskFits
  <2>2. disk[x].gen \in Formats /\ disk[x].index \in Chunks(disk[x].gen) /\ ~pools[disk[x].gen].encrypted
        /\ pools[disk[x].gen].manifest[disk[x].index][1] = x[1]
    BY <2>1, FramedFits DEF FramedIn
  <2>3. x[1] \notin Small
    BY <2>2 DEF AllChosen, Chosen, Chunks
  <2> QED
    BY <1>1, <2>1, <2>3 DEF Chosen
<1> HIDE DEF m, n
<1>5. ASSUME NEW k \in 1..n
      PROVE  m[k] \in F /\ disk[m[k]].gen = g /\ disk[m[k]].index = k /\ disk[m[k]].size = Size[m[k][1]]
  BY <1>2, KindsDiffer DEF FramedIn, IsFramed
<1> HIDE DEF F
<1>6. Cardinality(F) = n
  <2> DEFINE f == [k \in 1..n |-> m[k]]
  <2>1. f \in [1..n -> F]
    BY <1>5
  <2>2. \A i, j \in 1..n : f[i] = f[j] => i = j
    BY <1>3 DEF Injective, n
  <2>3. \A x \in F : \E k \in 1..n : f[k] = x
    BY <1>4
  <2> HIDE DEF f
  <2>4. f \in Bijection(1..n, F)
    BY <2>1, <2>2, <2>3, Fun_IsBij
  <2>5. ExistsBijection(1..n, F)
    BY <2>4 DEF ExistsBijection
  <2> QED
    BY <1>3, <2>5, FS_CountingElements
<1>7. ASSUME NEW k \in 1..n PROVE m[k] \in At(k)
  <2> DEFINE xs == {x \in Scanned : disk[x].index = k}
  <2>1. \A x \in xs : x = m[k]
    <3> SUFFICES ASSUME NEW x \in xs PROVE x = m[k]
      OBVIOUS
    <3>1. PICK l \in 1..n : m[l] = x
      BY <1>4, ScannedIs DEF F
    <3> QED
      BY <1>5, <3>1
  <2>2. m[k] \in xs
    BY <1>5, ScannedIs DEF F
  <2> QED
    BY <2>1, <2>2 DEF At, First
<1>8. 1 \in 1..n
  BY <1>3
<1>9. \E p \in At(1) : disk[p].gen = g
  BY <1>5, <1>7, <1>8
<1>10. \A k \in 1..n : \E x \in At(k) : disk[x].size = Size[m[k][1]]
  BY <1>5, <1>7
<1> QED
  BY <1>6, <1>9, <1>10, ScannedIs DEF OpensPlain, F, m, n

\* What format made can be opened with the credentials it was given, and still after
\* syncs, whatever the images held before and whatever formats were cut short before it,
\* if none of the images was left behind by one of them; until an encrypted pool that
\* was there before, and opens still, is synced over it.
THEOREM FormatOpens == Spec => []FormattedOpens
<1>1. PoolInv => FormattedOpens
  <2> SUFFICES ASSUME PoolInv, formed # 0, run.kind = "idle", ~stray
               PROVE  Opens(formed) /\ Whole(formed)
    BY DEF FormattedOpens
  <2> USE DEF PoolInv
  <2>1. formed \in Formats
    BY DEF Types, Formats
  <2>2. Whole(formed) /\ (pools[formed].encrypted => disk[pools[formed].anchor] = Boot(formed))
    BY DEF FormedOK
  <2>3. \A x \in Present : x \in Pictures
    BY IdleIs DEF RunOK, NoTemps
  <2>4. CASE pools[formed].encrypted
    <3>1. \A k \in 1..Len(pools[formed].manifest) : disk[pools[formed].manifest[k]] = Data(formed, k)
      BY <2>2, <2>4 DEF Whole
    <3>2. 1 \in 1..Len(pools[formed].manifest)
      <4>1. pools[formed] \in PoolRecord /\ Len(pools[formed].manifest) > 0
        BY <2>1 DEF AllChosen, Chosen, Types, Formats
      <4>2. pools[formed].manifest \in Seq(Images)
        BY <4>1 DEF PoolRecord
      <4> QED
        BY <4>1, <4>2
    <3> QED
      BY <2>2, <2>4, <3>1, <3>2, KindsDiffer DEF Opens, OpensAnchor
  <2>5. CASE ~pools[formed].encrypted
    BY <2>1, <2>2, <2>3, <2>5, WholeOpens DEF Opens
  <2> QED
    BY <2>2, <2>4, <2>5
<1> QED
  BY <1>1, PoolInvariant, PTL

\* What the last format has left, when nothing was in its way: every picture is one of its
\* own, or too small for it.
LEMMA FormedHolds ==
    ASSUME PoolInv, formed # 0, run.kind = "idle", ~stray
    PROVE  /\ formed \in Formats /\ \A x \in Present : x \in Pictures
           /\ \A x \in Pictures : disk[x].gen = formed \/ (x[1] \in Small /\ ~pools[formed].encrypted)
<1> USE DEF PoolInv
<1> DEFINE p == pools[formed]
<1>1. formed \in Formats /\ \A x \in Present : x \in Pictures
  BY IdleIs DEF RunOK, NoTemps, Types, Formats
<1>2. Chosen(p, FALSE) /\ p.encrypted \in BOOLEAN
  <2>1. Chosen(pools[formed], stray) /\ pools[formed] \in PoolRecord
    BY <1>1 DEF AllChosen, Types, Formats
  <2> QED
    BY <2>1 DEF Chosen, PoolRecord
<1>3. WholeIn(pools, disk, formed) /\ (p.encrypted => disk[p.anchor] = Boot(formed))
  BY WholeIs DEF FormedOK
<1>4. ASSUME NEW k \in 1..Len(p.manifest) PROVE disk[p.manifest[k]].gen = formed
  <2> DEFINE x == p.manifest[k]
  <2>1. disk[x] = IF p.encrypted THEN Data(formed, k) ELSE Framed(formed, k, Size[x[1]])
    BY <1>3 DEF WholeIn
  <2>2. Data(formed, k).gen = formed /\ Framed(formed, k, Size[x[1]]).gen = formed
    BY DEF Data, Framed
  <2> HIDE DEF p, x
  <2>3. disk[x].gen = formed
    BY <2>1, <2>2
  <2> QED
    BY <2>3 DEF x
<1>5. p.encrypted => disk[p.anchor].gen = formed
  BY <1>3, KindsDiffer
<1> HIDE DEF p
<1>6. \A x \in Pictures : disk[x].gen = formed \/ (x[1] \in Small /\ ~p.encrypted)
  BY <1>2, <1>4, <1>5 DEF Chosen
<1> QED
  BY <1>1, <1>6 DEF p

\* Once a format has succeeded, no pool from before opens any more, but for an encrypted
\* one that has its anchor and its bitmap in pictures too small for a plaintext pool.
THEOREM OldAreGone == Spec => []OldPoolsGone
<1>1. PoolInv => OldPoolsGone
  <2> SUFFICES ASSUME PoolInv, formed # 0, run.kind = "idle", ~stray,
                      NEW g \in Formats \ {formed}, Opens(g)
               PROVE  /\ pools[g].encrypted /\ ~pools[formed].encrypted
                      /\ pools[g].anchor[1] \in Small /\ pools[g].manifest[1][1] \in Small
    BY DEF OldPoolsGone
  <2> USE DEF PoolInv
  <2>1. Chosen(pools[g], FALSE) /\ pools[g].encrypted \in BOOLEAN /\ pools[g].manifest \in Seq(Images)
    <3>1. Chosen(pools[g], stray) /\ pools[g] \in PoolRecord
      BY DEF AllChosen, Types, Formats
    <3> QED
      BY <3>1 DEF Chosen, PoolRecord
  <2>2. 1 \in 1..Len(pools[g].manifest) /\ pools[g].manifest[1] \in Pictures
    BY <2>1 DEF Chosen
  <2>3. CASE pools[g].encrypted
    <3>1. disk[pools[g].anchor].gen = g /\ disk[pools[g].manifest[1]].gen = g
      BY <2>3, KindsDiffer DEF Opens, OpensAnchor
    <3>2. pools[g].anchor \in Pictures
      BY <2>1, <2>3 DEF Chosen
    <3> QED
      BY <2>2, <2>3, <3>1, <3>2, FormedHolds
  <2>4. CASE ~pools[g].encrypted
    <3>1. PICK x \in Scanned : disk[x].gen = g
      BY <2>4 DEF Opens, OpensPlain, At, First
    <3>2. x \in Pictures /\ x \in Images /\ IsFramed(disk[x])
      BY FormedHolds DEF Scanned, Present
    <3>3. x[1] \in Small
      BY <3>1, <3>2, FormedHolds
    <3>4. pools[g].manifest[disk[x].index][1] = x[1] /\ disk[x].index \in Chunks(g)
      BY <3>1, <3>2, FramedFits DEF DiskFits
    <3> QED
      BY <2>1, <2>4, <3>3, <3>4 DEF Chosen, Chunks
  <2> QED
    BY <2>1, <2>3, <2>4
<1> QED
  BY <1>1, PoolInvariant, PTL

\* No format without --force, finished or cut short, takes a chunk from a plaintext pool
\* that was made; nor does a sync, finished or cut short, but for one of an encrypted
\* pool from before that opens still.
THEOREM UnforcedKeeps == Spec => []UnforcedKeepsPool
<1>1. PoolInv => UnforcedKeepsPool
  BY DEF PoolInv, KeptOK, UnforcedKeepsPool
<1> QED
  BY <1>1, PoolInvariant, PTL

\* A plaintext pool that opens has all of its chunks from one format, as long as no forced
\* format was cut short, none took a temporary file for a carrier and no sync went over
\* another pool.
THEOREM PlainWhole == Spec => []PlainIsWhole
<1>1. PoolInv => PlainIsWhole
  <2> SUFFICES ASSUME PoolInv, run.kind = "idle", ~broken, ~stray, NEW g \in Formats, OpensPlain(g),
                      NEW x \in Scanned
               PROVE  disk[x].gen = g
    BY DEF PlainIsWhole
  <2>1. PICK p \in Scanned : disk[p].gen = g
    BY DEF OpensPlain, At, First
  <2> QED
    BY <2>1 DEF PoolInv, Tidy
<1> QED
  BY <1>1, PoolInvariant, PTL

-----------------------------------------------------------------------------
(* The regions of a pool                                                    *)

\* Division upwards covers what is divided: bytes of the bitmap,
LEMMA Ceiling8 ==
    ASSUME NEW a \in Nat
    PROVE  DivCeil(a, 8) \in Nat /\ a <= 8 * DivCeil(a, 8)
  BY DEF DivCeil

\* its blocks,
LEMMA CeilingUB ==
    ASSUME NEW a \in Nat
    PROVE  DivCeil(a, UB) \in Nat /\ a <= 4032 * DivCeil(a, UB)
  BY DEF DivCeil, UB

\* and blocks of the inode table.
LEMMA CeilingInodes ==
    ASSUME NEW a \in Nat
    PROVE  DivCeil(a, InodesPerBlock) \in Nat /\ a <= 21 * DivCeil(a, InodesPerBlock)
  BY DEF DivCeil, InodesPerBlock

\* The regions are large enough for a bit of each block and for all inodes.
LEMMA Sizes ==
    ASSUME NEW total \in Nat
    PROVE  /\ BitmapBlocks(total) \in Nat /\ total <= 32256 * BitmapBlocks(total)
           /\ InodeCount(total) \in Nat /\ InodeCount(total) >= 64
           /\ InodeTableBlocks(total) \in Nat /\ InodeCount(total) <= 21 * InodeTableBlocks(total)
<1>1. DivCeil(total, 8) \in Nat /\ total <= 8 * DivCeil(total, 8)
  BY Ceiling8
<1>2. BitmapBlocks(total) \in Nat /\ DivCeil(total, 8) <= 4032 * BitmapBlocks(total)
  BY <1>1, CeilingUB DEF BitmapBlocks
<1>3. InodeCount(total) \in Nat /\ InodeCount(total) >= 64
  BY DEF InodeCount
<1> QED
  BY <1>1, <1>2, <1>3, CeilingInodes DEF InodeTableBlocks

\* Superblock, bitmap, inode table and data follow one another without overlap, and a
\* pool that format accepts has room for each.
THEOREM RegionsInOrder ==
    ASSUME NEW total \in Nat, LargeEnough(total)
    PROVE  /\ 0 < BitmapStart /\ BitmapStart < InodeTableStart(total)
           /\ InodeTableStart(total) < DataStart(total) /\ DataStart(total) < total
<1>1. /\ BitmapBlocks(total) \in Nat /\ total <= 32256 * BitmapBlocks(total)
      /\ InodeTableBlocks(total) \in Nat /\ InodeTableBlocks(total) > 0
  BY Sizes
<1>2. DataStart(total) = 1 + BitmapBlocks(total) + InodeTableBlocks(total)
  BY <1>1 DEF DataStart, InodeTableStart, BitmapStart
<1>3. BitmapBlocks(total) > 0
  BY <1>1, <1>2 DEF LargeEnough
<1> QED
  BY <1>1, <1>2, <1>3 DEF LargeEnough, InodeTableStart, BitmapStart

\* An inode is at a multiple of its size in its block.
LEMMA InodePlace ==
    ASSUME NEW n \in Nat, NEW q \in Nat, NEW r \in 0..20, n = 21 * q + r
    PROVE  (n * INODE_SIZE) \div UB = q /\ (n * INODE_SIZE) % UB = 192 * r
<1> DEFINE m == n * INODE_SIZE
<1>1. m \in Nat /\ m = 4032 * q + 192 * r
  BY DEF INODE_SIZE
<1> HIDE DEF m
<1> DEFINE d == m \div UB
<1> DEFINE o == m % UB
<1>2. d \in Nat /\ o \in 0..4031 /\ m = 4032 * d + o
  BY <1>1 DEF UB
<1> HIDE DEF d, o
<1>3. d = q /\ o = 192 * r
  BY <1>1, <1>2
<1> QED
  BY <1>3 DEF d, o, m

\* A block number is made of the block, the byte and the bit of its bit.
LEMMA BitPlace ==
    ASSUME NEW x \in Nat
    PROVE  /\ BitBlock(x) \in Nat /\ BitBlock(x) >= 1
           /\ BitOffset(x) \in 0..4031 /\ BitInByte(x) \in 0..7
           /\ x = 32256 * (BitBlock(x) - 1) + 8 * BitOffset(x) + BitInByte(x)
<1> DEFINE n == x \div 8
<1> DEFINE t == x % 8
<1>1. n \in Nat /\ t \in 0..7 /\ x = 8 * n + t
  OBVIOUS
<1>2. ByteOf(x) = n /\ BitInByte(x) = t
  BY DEF ByteOf, BitInByte
<1> HIDE DEF n, t
<1> DEFINE d == n \div UB
<1> DEFINE o == n % UB
<1>3. d \in Nat /\ o \in 0..4031 /\ n = 4032 * d + o
  BY <1>1 DEF UB
<1> DEFINE c == BitBlock(x)
<1> DEFINE p == BitOffset(x)
<1> DEFINE u == BitInByte(x)
<1>4. c = 1 + d /\ p = o /\ u = t
  BY <1>2 DEF BitBlock, BitOffset, BitmapStart
<1> HIDE DEF d, o, c, p, u
<1>5. /\ c \in Nat /\ c >= 1 /\ p \in 0..4031 /\ u \in 0..7
      /\ x = 32256 * (c - 1) + 8 * p + u
  BY <1>1, <1>3, <1>4
<1> QED
  BY <1>5 DEF c, p, u

\* read_inode and write_inode stay inside the inode table and inside one block, and
\* the bytes of two inodes never overlap: the 21 of format agrees with inode_location.
THEOREM InodesApart ==
    ASSUME NEW total \in Nat, NEW i \in 1..InodeCount(total), NEW j \in 1..InodeCount(total)
    PROVE  /\ InodeBlock(total, i) \in InodeTableStart(total)..DataStart(total) - 1
           /\ InodeOffset(i) \in Nat /\ InodeOffset(i) + INODE_SIZE <= UB
           /\ i # j /\ InodeBlock(total, i) = InodeBlock(total, j) =>
                \/ InodeOffset(i) + INODE_SIZE <= InodeOffset(j)
                \/ InodeOffset(j) + INODE_SIZE <= InodeOffset(i)
<1> DEFINE c == InodeCount(total)
<1> DEFINE t == InodeTableBlocks(total)
<1> DEFINE s == InodeTableStart(total)
<1>1. c \in Nat /\ t \in Nat /\ c <= 21 * t /\ BitmapBlocks(total) \in Nat
  BY Sizes
<1>2. s \in Nat /\ DataStart(total) = s + t
  BY <1>1 DEF InodeTableStart, DataStart, BitmapStart
<1> HIDE DEF c, s, t
<1>3. ASSUME NEW k \in 1..c
      PROVE  \E q \in Nat, r \in 0..20 :
                /\ k - 1 = 21 * q + r /\ q < t
                /\ InodeBlock(total, k) = s + q /\ InodeOffset(k) = 192 * r
  <2> DEFINE q == (k - 1) \div 21
  <2> DEFINE r == (k - 1) % 21
  <2>1. k - 1 \in Nat /\ k - 1 < c
    BY <1>1
  <2>2. q \in Nat /\ r \in 0..20 /\ k - 1 = 21 * q + r
    BY <2>1
  <2> HIDE DEF q, r
  <2>3. q < t
    BY <1>1, <2>1, <2>2
  <2>4. ((k - 1) * INODE_SIZE) \div UB = q /\ ((k - 1) * INODE_SIZE) % UB = 192 * r
    BY <2>1, <2>2, InodePlace
  <2>5. InodeBlock(total, k) = s + q /\ InodeOffset(k) = 192 * r
    BY <2>4, Zenon DEF InodeBlock, InodeOffset, s
  <2> QED
    BY <2>2, <2>3, <2>5
<1>4. PICK q \in Nat, r \in 0..20 :
         /\ i - 1 = 21 * q + r /\ q < t
         /\ InodeBlock(total, i) = s + q /\ InodeOffset(i) = 192 * r
  BY <1>3 DEF c
<1>5. PICK p \in Nat, m \in 0..20 :
         /\ j - 1 = 21 * p + m /\ p < t
         /\ InodeBlock(total, j) = s + p /\ InodeOffset(j) = 192 * m
  BY <1>3 DEF c
<1>6. InodeBlock(total, i) \in s..DataStart(total) - 1
  BY <1>1, <1>2, <1>4
<1>7. InodeOffset(i) \in Nat /\ InodeOffset(i) + INODE_SIZE <= UB
  BY <1>4 DEF UB, INODE_SIZE
<1>8. i \in Int /\ j \in Int
  BY <1>1 DEF c
<1>9. ASSUME i # j, InodeBlock(total, i) = InodeBlock(total, j)
      PROVE  192 * r + 192 <= 192 * m \/ 192 * m + 192 <= 192 * r
  <2>1. q = p
    BY <1>2, <1>4, <1>5, <1>9
  <2>2. r # m
    BY <1>4, <1>5, <1>8, <1>9, <2>1
  <2> QED
    BY <2>2
<1> QED
  BY <1>4, <1>5, <1>6, <1>7, <1>9 DEF INODE_SIZE, s

\* The bit of every block of the pool is in a bitmap block, and no two blocks share one:
\* what write_bitmap stores is what load_bitmap finds.
THEOREM BitsApart ==
    ASSUME NEW total \in Nat, NEW a \in 0..total - 1, NEW b \in 0..total - 1
    PROVE  /\ BitBlock(a) \in BitmapStart..InodeTableStart(total) - 1
           /\ BitOffset(a) \in 0..UB - 1
           /\ BitBlock(a) = BitBlock(b) /\ BitOffset(a) = BitOffset(b) /\ BitInByte(a) = BitInByte(b) => a = b
<1> DEFINE blocks == BitmapBlocks(total)
<1>1. blocks \in Nat /\ total <= 32256 * blocks
  BY Sizes
<1>2. InodeTableStart(total) = 1 + blocks
  BY DEF InodeTableStart, BitmapStart
<1> HIDE DEF blocks
<1>3. a \in Nat /\ b \in Nat /\ a < total
  OBVIOUS
<1> DEFINE d == BitBlock(a)
<1> DEFINE o == BitOffset(a)
<1> DEFINE t == BitInByte(a)
<1> DEFINE e == BitBlock(b)
<1> DEFINE p == BitOffset(b)
<1> DEFINE u == BitInByte(b)
<1>4. /\ d \in Nat /\ d >= 1 /\ o \in 0..4031 /\ t \in 0..7
      /\ a = 32256 * (d - 1) + 8 * o + t
  BY <1>3, BitPlace
<1>5. b = 32256 * (e - 1) + 8 * p + u
  BY <1>3, BitPlace
<1> HIDE DEF d, o, t, e, p, u
<1>6. d \in BitmapStart..InodeTableStart(total) - 1
  BY <1>1, <1>2, <1>3, <1>4 DEF BitmapStart
<1>7. o \in 0..UB - 1
  BY <1>4 DEF UB
<1>8. d = e /\ o = p /\ t = u => a = b
  BY <1>4, <1>5
<1> QED
  BY <1>6, <1>7, <1>8 DEF d, o, t, e, p, u
=============================================================================
