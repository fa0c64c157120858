---------------------------- MODULE MountProofs ----------------------------
(* Theorems about Mount, for every number of inodes and every set of names. *)
EXTENDS Mount, SequenceTheorems, FiniteSetTheorems, WellFoundedInduction, TLAPS

Record == [name : Dots \cup Names, ino : Inos]

-----------------------------------------------------------------------------
(* Facts about the operators of the community modules                       *)

\* A set of natural numbers has a least one.
LEMMA LeastExists ==
    ASSUME NEW S \in SUBSET Nat, S # {}
    PROVE  \E x \in S : \A y \in S : x <= y
<1> DEFINE R == {ss \in Nat \X Nat : ss[1] < ss[2]}
<1>1. IsWellFoundedOn(R, Nat)
  BY NatLessThanWellFounded DEF OpToRel
<1> HIDE DEF R
<1>2. PICK x \in S : \A y \in S : ~ (<<y, x>> \in R)
  BY <1>1, WFMin
<1>3. \A y \in S : ~ (y < x)
  BY <1>2 DEF R
<1> QED
  BY <1>3

\* A sequence with an element put in.
LEMMA InsertAtIs ==
    ASSUME NEW T, NEW s \in Seq(T), NEW k \in 1..Len(s) + 1, NEW e \in T
    PROVE  /\ InsertAt(s, k, e) \in Seq(T)
           /\ Len(InsertAt(s, k, e)) = Len(s) + 1
           /\ \A j \in 1..Len(s) + 1 :
                 InsertAt(s, k, e)[j] = IF j < k THEN s[j] ELSE IF j = k THEN e ELSE s[j - 1]
<1> DEFINE a == SubSeq(s, 1, k - 1)
           c == SubSeq(s, k, Len(s))
           d == a \o <<e>>
<1>1. InsertAt(s, k, e) = d \o c
  BY DEF InsertAt
<1>2. a \in Seq(T) /\ Len(a) = k - 1 /\ \A j \in 1..k - 1 : a[j] = s[j]
  OBVIOUS
<1>3. c \in Seq(T) /\ Len(c) = Len(s) - k + 1 /\ \A j \in 1..Len(s) - k + 1 : c[j] = s[k + j - 1]
  OBVIOUS
<1> HIDE DEF a, c
<1>4. d \in Seq(T) /\ Len(d) = k /\ \A j \in 1..k : d[j] = IF j = k THEN e ELSE s[j]
  BY <1>2
<1> HIDE DEF d
<1>5. /\ (d \o c) \in Seq(T) /\ Len(d \o c) = Len(s) + 1
      /\ \A j \in 1..Len(s) + 1 : (d \o c)[j] = IF j <= k THEN d[j] ELSE c[j - k]
  BY <1>3, <1>4, ConcatProperties
<1>6. \A j \in 1..Len(s) + 1 : (d \o c)[j] = IF j < k THEN s[j] ELSE IF j = k THEN e ELSE s[j - 1]
  BY <1>3, <1>4, <1>5
<1> QED
  BY <1>1, <1>5, <1>6

\* A sequence with an element taken out.
LEMMA RemoveAtIs ==
    ASSUME NEW T, NEW s \in Seq(T), NEW k \in 1..Len(s)
    PROVE  /\ RemoveAt(s, k) \in Seq(T)
           /\ Len(RemoveAt(s, k)) = Len(s) - 1
           /\ \A j \in 1..Len(s) - 1 : RemoveAt(s, k)[j] = IF j < k THEN s[j] ELSE s[j + 1]
<1> DEFINE a == SubSeq(s, 1, k - 1)
           c == SubSeq(s, k + 1, Len(s))
<1>1. RemoveAt(s, k) = a \o c
  BY DEF RemoveAt
<1>2. a \in Seq(T) /\ Len(a) = k - 1 /\ \A j \in 1..k - 1 : a[j] = s[j]
  OBVIOUS
<1>3. c \in Seq(T) /\ Len(c) = Len(s) - k /\ \A j \in 1..Len(s) - k : c[j] = s[k + j]
  OBVIOUS
<1> HIDE DEF a, c
<1>4. /\ (a \o c) \in Seq(T) /\ Len(a \o c) = Len(s) - 1
      /\ \A j \in 1..Len(s) - 1 : (a \o c)[j] = IF j <= k - 1 THEN a[j] ELSE c[j - (k - 1)]
  BY <1>2, <1>3, ConcatProperties
<1>5. \A j \in 1..Len(s) - 1 : (a \o c)[j] = IF j < k THEN s[j] ELSE s[j + 1]
  BY <1>2, <1>3, <1>4
<1> QED
  BY <1>1, <1>4, <1>5

-----------------------------------------------------------------------------
(* The list of entries                                                      *)

LEMMA EntriesTyped ==
    ASSUME NEW s, Listed(s)
    PROVE  s \in Seq(Record) /\ ToSet(s) \subseteq Record
<1>1. s \in Seq(Record)
  BY DEF Listed, Record, Entry
<1> QED
  BY <1>1 DEF ToSet

\* An added name comes somewhere after "..", and moves no entry forward.
LEMMA AddedIs ==
    ASSUME NEW s, Listed(s), NEW n \in Names, NEW i \in Inos, NEW t \in Added(n, i, s),
           \A k \in DOMAIN s : s[k].name # n
    PROVE  /\ Listed(t)
           /\ ToSet(t) = ToSet(s) \cup {Entry(n, i)}
           /\ \A j \in DOMAIN s : \E k \in DOMAIN t : k >= j /\ t[k] = s[j]
<1> DEFINE e == Entry(n, i)
<1>1. PICK p \in 3..Len(s) + 1 : t = InsertAt(s, p, e)
  BY DEF Added
<1>2. /\ s \in Seq(Record) /\ Len(s) \in Nat /\ Len(s) >= 2 /\ DOMAIN s = 1..Len(s)
      /\ e \in Record /\ e.name = n
      /\ \A j, k \in DOMAIN s : s[j].name = s[k].name => j = k
  BY DEF Listed, Record, Entry
<1> HIDE DEF e
<1>3. p \in 1..Len(s) + 1
  BY <1>2
<1>4. /\ t \in Seq(Record) /\ Len(t) = Len(s) + 1 /\ DOMAIN t = 1..Len(s) + 1
      /\ \A j \in 1..Len(s) + 1 : t[j] = IF j < p THEN s[j] ELSE IF j = p THEN e ELSE s[j - 1]
  <2>1. /\ InsertAt(s, p, e) \in Seq(Record) /\ Len(InsertAt(s, p, e)) = Len(s) + 1
        /\ \A j \in 1..Len(s) + 1 :
              InsertAt(s, p, e)[j] = IF j < p THEN s[j] ELSE IF j = p THEN e ELSE s[j - 1]
    <3>1. s \in Seq(Record) /\ p \in 1..Len(s) + 1 /\ e \in Record
      BY <1>2, <1>3
    <3> QED
      BY <3>1, InsertAtIs
  <2> QED
    BY <1>1, <2>1
<1>5. \A j \in DOMAIN t : j # p => \E k \in DOMAIN s : t[j] = s[k] /\ k = IF j < p THEN j ELSE j - 1
  BY <1>2, <1>3, <1>4
<1>6. \A j \in DOMAIN s : \E k \in DOMAIN t : k >= j /\ t[k] = s[j]
  <2> TAKE j \in DOMAIN s
  <2> DEFINE k == IF j < p THEN j ELSE j + 1
  <2>1. k \in DOMAIN t /\ k >= j /\ t[k] = s[j]
    BY <1>2, <1>3, <1>4
  <2> QED
    BY <2>1
<1>7. ASSUME NEW j \in DOMAIN t, NEW k \in DOMAIN t, t[j].name = t[k].name
      PROVE  j = k
  <2>1. CASE j # p /\ k # p
    BY <1>2, <1>3, <1>4, <1>5, <1>7, <2>1
  <2>2. CASE j = p \/ k = p
    BY <1>2, <1>3, <1>4, <1>5, <1>7, <2>2
  <2> QED
    BY <2>1, <2>2
<1>8. t[1] = s[1] /\ t[2] = s[2]
  BY <1>2, <1>4
<1>9. Listed(t)
  BY <1>2, <1>4, <1>7, <1>8 DEF Listed, Record
<1>10. ToSet(t) = ToSet(s) \cup {e}
  <2>1. ASSUME NEW x \in ToSet(t) PROVE x \in ToSet(s) \cup {e}
    <3>1. PICK j \in DOMAIN t : x = t[j]
      BY <2>1 DEF ToSet
    <3> QED
      BY <1>3, <1>4, <1>5, <3>1 DEF ToSet
  <2>2. ASSUME NEW x \in ToSet(s) PROVE x \in ToSet(t)
    BY <1>6 DEF ToSet
  <2>3. e \in ToSet(t)
    BY <1>3, <1>4 DEF ToSet
  <2> QED
    BY <2>1, <2>2, <2>3
<1> QED
  BY <1>6, <1>9, <1>10 DEF e

\* A removed name is the only one that goes, and no entry moves back.
LEMMA WithoutIs ==
    ASSUME NEW s, Listed(s), NEW n \in Names
    PROVE  /\ Listed(Without(n, s))
           /\ ToSet(Without(n, s)) = {e \in ToSet(s) : e.name # n}
           /\ \A k \in DOMAIN Without(n, s) : \E j \in DOMAIN s : j >= k /\ s[j] = Without(n, s)[k]
<1>1. CASE \A k \in DOMAIN s : s[k].name # n
  <2>1. Without(n, s) = s
    BY <1>1 DEF Without
  <2>2. ToSet(s) = {e \in ToSet(s) : e.name # n}
    BY <1>1 DEF ToSet
  <2>3. s \in Seq(Record) /\ Len(s) \in Nat /\ DOMAIN s = 1..Len(s)
    BY DEF Listed, Record, Entry
  <2>4. \A k \in DOMAIN s : k >= k
    BY <2>3
  <2> QED
    BY <2>1, <2>2, <2>4
<1>2. CASE \E k \in DOMAIN s : s[k].name = n
  <2> DEFINE p == At(n, s)
             t == Without(n, s)
  <2>1. p \in DOMAIN s /\ s[p].name = n
    BY <1>2 DEF At
  <2>2. /\ s \in Seq(Record) /\ Len(s) \in Nat /\ Len(s) >= 2 /\ DOMAIN s = 1..Len(s)
        /\ \A j, k \in DOMAIN s : s[j].name = s[k].name => j = k
    BY DEF Listed, Record, Entry
  <2>3. t = RemoveAt(s, p)
    BY <1>2 DEF Without
  <2>4. n # "." /\ n # ".."
    BY MountAssumption DEF MountAssumption, Dots
  <2> HIDE DEF p, t
  <2>5. p > 2
    BY <2>1, <2>2, <2>4 DEF Listed, Entry
  <2>6. /\ t \in Seq(Record) /\ Len(t) = Len(s) - 1 /\ DOMAIN t = 1..Len(s) - 1
        /\ \A j \in 1..Len(s) - 1 : t[j] = IF j < p THEN s[j] ELSE s[j + 1]
    <3>1. /\ RemoveAt(s, p) \in Seq(Record) /\ Len(RemoveAt(s, p)) = Len(s) - 1
          /\ \A j \in 1..Len(s) - 1 : RemoveAt(s, p)[j] = IF j < p THEN s[j] ELSE s[j + 1]
      <4>1. s \in Seq(Record) /\ p \in 1..Len(s)
        BY <2>1, <2>2
      <4> QED
        BY <4>1, RemoveAtIs
    <3> QED
      BY <2>2, <2>3, <3>1
  <2> DEFINE from(k) == IF k < p THEN k ELSE k + 1
  <2>7. \A k \in DOMAIN t : from(k) \in DOMAIN s /\ from(k) # p /\ from(k) >= k /\ s[from(k)] = t[k]
    BY <2>1, <2>2, <2>6
  <2>8. ASSUME NEW j \in DOMAIN t, NEW k \in DOMAIN t, t[j].name = t[k].name
        PROVE  j = k
    <3>1. from(j) = from(k)
      BY <2>2, <2>7, <2>8
    <3> QED
      BY <2>1, <2>2, <2>6, <3>1
  <2>9. t[1] = s[1] /\ t[2] = s[2]
    BY <2>1, <2>2, <2>5, <2>6
  <2>10. Len(t) >= 2
    BY <2>1, <2>2, <2>5, <2>6
  <2>11. Listed(t)
    BY <2>6, <2>8, <2>9, <2>10 DEF Listed, Record
  <2>12. ToSet(t) = {e \in ToSet(s) : e.name # n}
    <3>1. ASSUME NEW x \in ToSet(t) PROVE x \in ToSet(s) /\ x.name # n
      <4>1. PICK k \in DOMAIN t : x = t[k]
        BY DEF ToSet
      <4>2. PICK j \in DOMAIN s : x = s[j] /\ j # p
        BY <2>7, <4>1
      <4> QED
        BY <2>1, <2>2, <4>2 DEF ToSet
    <3>2. ASSUME NEW x \in ToSet(s), x.name # n PROVE x \in ToSet(t)
      <4>1. PICK j \in DOMAIN s : x = s[j]
        BY DEF ToSet
      <4>2. j # p
        BY <2>1, <3>2, <4>1
      <4> DEFINE k == IF j < p THEN j ELSE j - 1
      <4>3. k \in DOMAIN t /\ t[k] = x
        BY <2>1, <2>2, <2>6, <4>1, <4>2
      <4> QED
        BY <4>3 DEF ToSet
    <3> QED
      BY <3>1, <3>2
  <2> QED
    BY <2>7, <2>11, <2>12 DEF t
<1> QED
  BY <1>1, <1>2

\* Every entry after "." has an inode of its own.
LEMMA ListFits ==
    ASSUME NEW s, Listed(s), InosOnce(ToSet(s))
    PROVE  Len(s) <= InodeCount + 1
<1> DEFINE f == [k \in 1..Len(s) - 1 |-> s[k + 1].ino]
<1>1. /\ s \in Seq(Record) /\ Len(s) \in Nat /\ Len(s) >= 2 /\ DOMAIN s = 1..Len(s)
      /\ s[1].name = "." /\ s[2].name = ".."
      /\ \A j, k \in DOMAIN s : s[j].name = s[k].name => j = k
  BY DEF Listed, Record, Entry
<1>2. InodeCount \in Nat /\ InodeCount >= 1
  BY MountAssumption DEF MountAssumption
<1>3. f \in [1..Len(s) - 1 -> Inos]
  <2>1. \A k \in 1..Len(s) - 1 : s[k + 1] \in Record
    BY <1>1
  <2> QED
    BY <2>1 DEF Record
<1>4. ASSUME NEW j \in 1..Len(s) - 1, NEW k \in 1..Len(s) - 1, f[j] = f[k], j # 1
      PROVE  j = k
  <2>1. /\ s[j + 1] \in ToSet(s) /\ s[k + 1] \in ToSet(s) /\ s[j + 1].ino = s[k + 1].ino
        /\ j + 1 \in DOMAIN s /\ k + 1 \in DOMAIN s /\ 1 \in DOMAIN s /\ 2 \in DOMAIN s
    BY <1>1, <1>4 DEF ToSet
  <2>2. s[j + 1].name \notin Dots
    <3>1. s[j + 1].name # s[1].name /\ s[j + 1].name # s[2].name
      BY <1>1, <1>4, <2>1
    <3> QED
      BY <1>1, <3>1 DEF Dots
  <2>3. s[j + 1].name = s[k + 1].name
    BY <2>1, <2>2 DEF InosOnce
  <2> QED
    BY <1>1, <2>1, <2>3
<1>5. f \in Injection(1..Len(s) - 1, Inos)
  <2>1. \A j, k \in 1..Len(s) - 1 : f[j] = f[k] => j = k
    BY <1>4
  <2> HIDE DEF f
  <2> QED
    BY <1>3, <2>1 DEF Injection, IsInjective
<1> HIDE DEF f
<1>6. IsFiniteSet(Inos) /\ Cardinality(Inos) = InodeCount
  BY <1>2, FS_Interval DEF Inos
<1>7. Cardinality(1..Len(s) - 1) = Len(s) - 1
  BY <1>1, FS_Interval
<1>8. Cardinality(1..Len(s) - 1) <= Cardinality(Inos)
  BY <1>5, <1>6, FS_Injection
<1> QED
  BY <1>1, <1>2, <1>6, <1>7, <1>8

\* A page begins at the offset and is empty only at the end of the list.
LEMMA PageIs ==
    ASSUME NEW s \in Seq(Record), NEW offset \in Nat, NEW most \in Nat \ {0}
    PROVE  LET page == ReaddirPage(s, offset, most)
           IN  /\ page \in Seq(Record)
               /\ \A j \in 1..Len(page) : offset + j \in DOMAIN s /\ page[j] = s[offset + j]
               /\ page = <<>> => Len(s) <= offset
               /\ page # <<>> => offset + Len(page) <= Len(s)
<1> DEFINE last == IF offset + most < Len(s) THEN offset + most ELSE Len(s)
           page == SubSeq(s, offset + 1, last)
<1>1. last \in Nat /\ last <= Len(s) /\ (last <= offset => Len(s) <= offset)
  OBVIOUS
<1> HIDE DEF last
<1>2. \A j \in offset + 1..last : s[j] \in Record
  BY <1>1
<1>3. /\ page \in Seq(Record)
      /\ Len(page) = IF offset + 1 <= last THEN last - (offset + 1) + 1 ELSE 0
      /\ \A j \in 1..last - (offset + 1) + 1 : page[j] = s[offset + 1 + j - 1]
  BY <1>1, <1>2, SubSeqProperties
<1>4. page = ReaddirPage(s, offset, most)
  BY DEF ReaddirPage, last
<1> HIDE DEF page
<1>5. \A j \in 1..Len(page) : offset + j \in DOMAIN s /\ page[j] = s[offset + j]
  BY <1>1, <1>3
<1>6. page = <<>> <=> Len(page) = 0
  BY <1>3
<1> QED
  BY <1>1, <1>3, <1>4, <1>5, <1>6

-----------------------------------------------------------------------------
(* The parts of the invariant                                               *)

AttrPart  == attr \in [Inos -> Attr] /\ told = TRUE
ReplyPart == /\ saved \in BOOLEAN /\ reply \in {"ok", "error"}
             /\ phase \in {"up", "destroyed", "exited"} /\ OkIsSaved
ListingPart ==
    /\ listing \in [offset : Nat, got : [Dots \cup Names -> 0..2], state : {"none", "open", "done"}]
    /\ listing.offset \in 0..InodeCount + 1
    /\ start \subseteq Dots \cup Names /\ grew \in BOOLEAN /\ shrank \in BOOLEAN
    /\ Ahead /\ Behind

LEMMA Parts == MountInv <=> AttrPart /\ ReplyPart /\ ListSound /\ ListingPart
  BY DEF MountInv, TypeOK, ToldIsStored, ListSound, Listed, AttrPart, ReplyPart, ListingPart

LEMMA PartsNext ==
    ASSUME AttrPart', ReplyPart', ListSound', ListingPart'
    PROVE  MountInv'
  BY DEF MountInv, TypeOK, ToldIsStored, ListSound, Listed, AttrPart, ReplyPart, ListingPart

\* What a request leaves is what its caller may expect.
LEMMA Left ==
    ASSUME NEW done, NEW halfway, Leaves(done, halfway),
           \/ After(attr', ToSet(list')) \in done
           \/ reply' = "error" /\ After(attr', ToSet(list')) \in {Now} \cup halfway
    PROVE  told' = TRUE
<1>1. After(attr', ToSet(list')) \in IF reply' = "ok" THEN done ELSE {Now} \cup done \cup halfway
  OBVIOUS
<1> QED
  BY <1>1, Zenon DEF Leaves

\* Where a name is in the list, and that nothing else shares its inode.
LEMMA Located ==
    ASSUME ListSound, NEW n \in Names, n \in Entries
    PROVE  /\ InodeOf(n) \in Inos
           /\ Entry(n, InodeOf(n)) \in ToSet(list)
           /\ \A e \in ToSet(list) : e.name # n => e.ino # InodeOf(n)
<1> DEFINE k == At(n, list)
<1>1. k \in DOMAIN list /\ list[k].name = n
  BY DEF Entries, At
<1>2. list \in Seq(Record) /\ list[k] \in ToSet(list) /\ InodeOf(n) = list[k].ino
  BY <1>1 DEF ListSound, Listed, Record, ToSet, InodeOf
<1>3. list[k] \in Record
  BY <1>1, <1>2
<1> HIDE DEF k
<1>4. list[k] = Entry(n, InodeOf(n)) /\ InodeOf(n) \in Inos
  BY <1>1, <1>2, <1>3 DEF Record, Entry
<1>5. n \notin Dots
  BY MountAssumption DEF MountAssumption
<1>6. \A e \in ToSet(list) : e.name # n => e.ino # InodeOf(n)
  BY <1>1, <1>2, <1>5 DEF ListSound, InosOnce
<1> QED
  BY <1>2, <1>4, <1>6

\* alloc_inode finds the first free inode.
LEMMA FirstFree ==
    ASSUME FreeInos # {}
    PROVE  FreeIno \in FreeInos
<1>1. FreeInos \in SUBSET Nat
  BY DEF FreeInos, Inos
<1> QED
  BY <1>1, LeastExists DEF FreeIno

\* A change of the list that keeps its order keeps what a listing knows: what is
\* ahead when nothing is removed, what is behind when nothing is added.
LEMMA ListingStep ==
    ASSUME ListingPart, NEW adds \in BOOLEAN, NEW removes \in BOOLEAN, Track(adds, removes),
           list \in Seq(Record), list' \in Seq(Record),
           ~removes => \A j \in DOMAIN list : \E k \in DOMAIN list' : k >= j /\ list'[k] = list[j],
           ~adds => \A k \in DOMAIN list' : \E j \in DOMAIN list : j >= k /\ list[j] = list'[k]
    PROVE  ListingPart'
<1>1. /\ grew' = (grew \/ (adds /\ listing.state = "open"))
      /\ shrank' = (shrank \/ (removes /\ listing.state = "open"))
      /\ listing' = listing /\ start' = start
  BY DEF Track
<1>2. listing.offset \in Nat /\ DOMAIN list \subseteq Nat /\ DOMAIN list' \subseteq Nat
  BY DEF ListingPart
<1>3. Ahead'
  <2> SUFFICES ASSUME listing.state # "none", ~shrank', NEW n \in start, listing.got[n] = 0
               PROVE  /\ listing.state = "open"
                      /\ \E k \in DOMAIN list' : k > listing.offset /\ list'[k].name = n
    BY <1>1 DEF Ahead
  <2>1. PICK j \in DOMAIN list : j > listing.offset /\ list[j].name = n
    BY <1>1 DEF ListingPart, Ahead
  <2>2. listing.state = "open" /\ ~removes
    BY <1>1 DEF ListingPart, Ahead
  <2>3. PICK k \in DOMAIN list' : k >= j /\ list'[k] = list[j]
    BY <2>2
  <2>4. k > listing.offset /\ list'[k].name = n
    BY <1>2, <2>1, <2>3
  <2> QED
    BY <2>2, <2>4
<1>4. Behind'
  <2> SUFFICES ASSUME listing.state # "none", ~grew', NEW n \in Dots \cup Names
               PROVE  /\ listing.got[n] <= 1
                      /\ listing.state = "open" /\ listing.got[n] = 1 =>
                            \A k \in DOMAIN list' : list'[k].name = n => k <= listing.offset
    BY <1>1 DEF Behind
  <2>1. ~grew /\ (listing.state = "open" => ~adds)
    BY <1>1
  <2>2. ASSUME listing.state = "open", listing.got[n] = 1, NEW k \in DOMAIN list', list'[k].name = n
        PROVE  k <= listing.offset
    <3>1. PICK j \in DOMAIN list : j >= k /\ list[j] = list'[k]
      BY <2>1, <2>2
    <3>2. j <= listing.offset
      BY <2>1, <2>2, <3>1 DEF ListingPart, Behind
    <3> QED
      BY <1>2, <3>1, <3>2
  <2>3. listing.got[n] <= 1
    BY <2>1 DEF ListingPart, Behind
  <2> QED
    BY <2>2, <2>3
<1> QED
  BY <1>1, <1>3, <1>4 DEF ListingPart

-----------------------------------------------------------------------------
(* Every request keeps the invariant                                        *)

LEMMA InitMount == Init => MountInv
<1> SUFFICES ASSUME Init PROVE MountInv
  OBVIOUS
<1>0. /\ InodeCount \in Nat /\ InodeCount >= 1 /\ Dir \in Inos
      /\ NoPerm \in Perms /\ RootUser \in Users /\ 0 \in Sizes
  BY MountAssumption DEF MountAssumption, Dir, Inos
<1>1. AttrPart
  BY <1>0 DEF Init, AttrPart, Attr, FreeAttr
<1>2. ReplyPart
  BY DEF Init, ReplyPart, OkIsSaved
<1>3. ListSound
  <2> DEFINE a == Entry(".", Dir)
             b == Entry("..", Dir)
  <2>1. /\ a \in Record /\ b \in Record /\ a.name = "." /\ b.name = ".." /\ a.name # b.name
        /\ a.ino = Dir /\ b.ino = Dir /\ a.name \in Dots /\ b.name \in Dots
    BY <1>0 DEF Record, Dots, Entry
  <2>2. list = <<a, b>>
    BY DEF Init
  <2> HIDE DEF a, b
  <2>3. /\ list \in Seq(Record) /\ Len(list) = 2 /\ DOMAIN list = {1, 2}
        /\ list[1] = a /\ list[2] = b
    BY <2>1, <2>2
  <2>4. ToSet(list) = {a, b}
    BY <2>3 DEF ToSet
  <2>5. InosOnce(ToSet(list))
    BY <2>1, <2>4 DEF InosOnce
  <2>6. Listed(list)
    BY <2>1, <2>3 DEF Listed, Record, a, b
  <2>7. \A e \in ToSet(list) : attr[e.ino].kind # "free"
    BY <1>0, <2>1, <2>4 DEF Init
  <2> QED
    BY <2>5, <2>6, <2>7 DEF ListSound
<1>4. ListingPart
  <2>1. /\ listing = NoListing /\ start = {} /\ grew = FALSE /\ shrank = FALSE
        /\ listing.state = "none" /\ listing.offset = 0
    BY DEF Init, NoListing
  <2>2. NoListing \in [offset : Nat, got : [Dots \cup Names -> 0..2], state : {"none", "open", "done"}]
    BY DEF NoListing
  <2>3. Ahead /\ Behind
    BY <2>1 DEF Ahead, Behind
  <2>4. /\ listing \in [offset : Nat, got : [Dots \cup Names -> 0..2], state : {"none", "open", "done"}]
        /\ listing.offset \in 0..InodeCount + 1
    BY <1>0, <2>1, <2>2
  <2> QED
    BY <2>1, <2>3, <2>4 DEF ListingPart
<1> QED
  BY <1>1, <1>2, <1>3, <1>4, Parts

LEMMA CreateStep ==
    ASSUME MountInv, NEW n \in Names, NEW k \in {"file", "dir"}, NEW u \in Users, NEW p \in Perms,
           NEW s1 \in BOOLEAN, NEW s2 \in BOOLEAN, Create(n, k, u, p, s1, s2)
    PROVE  MountInv'
<1> DEFINE i   == FreeIno
           new == Made(k, p, Owner(u, s1))
           e   == Entry(n, i)
<1>0. AttrPart /\ ReplyPart /\ ListSound /\ ListingPart
  BY Parts
<1>1. i \in FreeInos
  BY FirstFree DEF Create
<1>2. /\ phase = "up" /\ n \notin Entries /\ list' \in Added(n, i, list)
      /\ attr' = [attr EXCEPT ![i] = new]
      /\ saved' = (s1 /\ s2) /\ reply' = (IF s1 /\ s2 THEN "ok" ELSE "error")
      /\ Track(TRUE, FALSE) /\ phase' = phase
  BY DEF Create, Reply
<1>14. told' = TRUE
  <2> DEFINE MadeAt(j, v) == [attr EXCEPT ![j] = Made(k, p, v)]
             With(j)      == ToSet(list) \cup {Entry(n, j)}
             done    == {After(MadeAt(j, u), With(j)) : j \in FreeInos}
             halfway == UNION {{After(MadeAt(j, v), es) : v \in {RootUser, u}, es \in {ToSet(list), With(j)}} :
                                  j \in FreeInos}
  <2>1. Leaves(done, halfway)
    BY DEF Create, LeavesCreated
  <2>2. attr' = MadeAt(i, Owner(u, s1)) /\ ToSet(list') = With(i)
    <3>1. i \in Inos /\ \A j \in DOMAIN list : list[j].name # n
      BY <1>1, <1>2 DEF FreeInos, Entries
    <3> QED
      BY <1>0, <1>2, <3>1, AddedIs DEF ListSound
  <2>3. CASE s1
    <3>1. After(MadeAt(i, u), With(i)) \in done
      BY <1>1
    <3>2. MadeAt(i, Owner(u, s1)) = MadeAt(i, u)
      BY <2>3 DEF Owner
    <3> HIDE DEF done, halfway, MadeAt, With
    <3>3. After(attr', ToSet(list')) \in done
      BY <2>2, <3>1, <3>2
    <3> QED
      BY <2>1, <3>3, Left
  <2>4. CASE ~s1
    <3>1. After(MadeAt(i, RootUser), With(i)) \in halfway
      <4>1. RootUser \in {RootUser, u} /\ With(i) \in {ToSet(list), With(i)}
        OBVIOUS
      <4> HIDE DEF With, MadeAt
      <4> QED
        BY <1>1, <4>1
    <3>2. reply' = "error"
      BY <1>2, <2>4
    <3> HIDE DEF done, halfway
    <3> QED
      BY <2>1, <2>2, <2>4, <3>1, <3>2, Left DEF Owner
  <2> QED
    BY <2>3, <2>4
<1> HIDE DEF i
<1>3. i \in Inos /\ attr[i].kind = "free" /\ attr[Dir].kind # "free"
  <2>1. Dir = list[1].ino /\ list[1] \in ToSet(list)
    BY <1>0 DEF ListSound, Listed, ToSet, Entry
  <2> QED
    BY <1>0, <1>1, <2>1 DEF FreeInos, ListSound
<1>4. new \in Attr /\ new.kind # "free"
  BY MountAssumption DEF MountAssumption, Attr, Made, Owner
<1> HIDE DEF new
<1>5. AttrPart'
  BY <1>0, <1>2, <1>3, <1>4, <1>14 DEF AttrPart
<1>6. ReplyPart'
  BY <1>0, <1>2 DEF ReplyPart, OkIsSaved
<1>7. /\ Listed(list) /\ Listed(list') /\ ToSet(list') = ToSet(list) \cup {e}
      /\ \A j \in DOMAIN list : \E m \in DOMAIN list' : m >= j /\ list'[m] = list[j]
  <2>1. \A j \in DOMAIN list : list[j].name # n
    BY <1>2 DEF Entries
  <2> QED
    BY <1>0, <1>2, <1>3, <2>1, AddedIs DEF ListSound
<1>8. e.name = n /\ e.ino = i /\ \A x \in ToSet(list) : x.ino # i
  BY <1>0, <1>3 DEF ListSound, Entry
<1> HIDE DEF e
<1>9. ListSound'
  <2>1. InosOnce(ToSet(list'))
    BY <1>0, <1>7, <1>8 DEF ListSound, InosOnce
  <2>2. ToSet(list) \subseteq Record
    BY <1>7, EntriesTyped
  <2>3. \A x \in ToSet(list') : attr'[x.ino].kind # "free"
    BY <1>0, <1>2, <1>3, <1>4, <1>7, <1>8, <2>2 DEF ListSound, AttrPart, Record
  <2> QED
    BY <1>7, <2>1, <2>3 DEF ListSound
<1>10. ListingPart'
  BY <1>0, <1>2, <1>7, ListingStep DEF Listed, Record
<1> QED
  BY <1>5, <1>6, <1>9, <1>10, PartsNext

LEMMA CreateUnnamedStep ==
    ASSUME MountInv, NEW n \in Names, NEW k \in {"file", "dir"}, NEW u \in Users, NEW p \in Perms,
           CreateUnnamed(n, k, u, p)
    PROVE  MountInv'
<1> DEFINE i   == FreeIno
           new == Made(k, p, RootUser)
<1>0. AttrPart /\ ReplyPart /\ ListSound /\ ListingPart
  BY Parts
<1>1. i \in FreeInos
  BY FirstFree DEF CreateUnnamed
<1>2. /\ attr' = [attr EXCEPT ![i] = new]
      /\ saved' = FALSE /\ reply' = "error"
      /\ UNCHANGED <<list, phase, listing, start, grew, shrank>>
  BY DEF CreateUnnamed, Reply, listingVars
<1>7. told' = TRUE
  <2> DEFINE MadeAt(j, v) == [attr EXCEPT ![j] = Made(k, p, v)]
             With(j)      == ToSet(list) \cup {Entry(n, j)}
             done    == {After(MadeAt(j, u), With(j)) : j \in FreeInos}
             halfway == UNION {{After(MadeAt(j, v), es) : v \in {RootUser, u}, es \in {ToSet(list), With(j)}} :
                                  j \in FreeInos}
  <2>1. Leaves(done, halfway)
    BY DEF CreateUnnamed, LeavesCreated
  <2>2. After(MadeAt(i, RootUser), ToSet(list)) \in halfway
    BY <1>1
  <2>3. attr' = MadeAt(i, RootUser) /\ ToSet(list') = ToSet(list)
    BY <1>2 DEF ToSet
  <2> HIDE DEF done, halfway
  <2> QED
    BY <1>2, <2>1, <2>2, <2>3, Left
<1> HIDE DEF i
<1>3. i \in Inos /\ attr[i].kind = "free" /\ new \in Attr /\ new.kind # "free"
  BY <1>1, MountAssumption DEF FreeInos, MountAssumption, Attr, Made
<1> HIDE DEF new
<1>4. AttrPart' /\ ReplyPart'
  BY <1>0, <1>2, <1>3, <1>7 DEF AttrPart, ReplyPart, OkIsSaved
<1>5. ListSound'
  <2>1. ToSet(list) \subseteq Record
    BY <1>0, EntriesTyped DEF ListSound
  <2> QED
    BY <1>0, <1>2, <1>3, <2>1 DEF ListSound, Listed, InosOnce, ToSet, AttrPart, Record
<1>6. ListingPart'
  BY <1>0, <1>2 DEF ListingPart, Ahead, Behind
<1> QED
  BY <1>4, <1>5, <1>6, PartsNext

\* Freeing the inode of a name that is no longer in the list.
LEMMA FreedIs ==
    ASSUME AttrPart, told' = TRUE, NEW i \in Inos, attr' = Freed(i)
    PROVE  AttrPart' /\ \A j \in Inos \ {i} : attr'[j] = attr[j]
<1>1. FreeAttr \in Attr
  BY MountAssumption DEF MountAssumption, FreeAttr, Attr
<1> QED
  BY <1>1 DEF AttrPart, Freed

\* A name goes and the rest stays, whether its inode is freed or not.
LEMMA NameGone ==
    ASSUME AttrPart, ListSound, ListingPart, NEW n \in Names, n \in Entries,
           list' = Without(n, list), Track(FALSE, TRUE), attr' \in {attr, Freed(InodeOf(n))},
           told' = TRUE
    PROVE  AttrPart' /\ ListSound' /\ ListingPart'
<1> DEFINE i == InodeOf(n)
<1>1. i \in Inos /\ \A e \in ToSet(list) : e.name # n => e.ino # i
  BY Located
<1> HIDE DEF i
<1>2. AttrPart' /\ \A j \in Inos \ {i} : attr'[j] = attr[j]
  <2>1. CASE attr' = attr
    BY <2>1 DEF AttrPart
  <2>2. CASE attr' = Freed(i)
    BY <1>1, <2>2, FreedIs
  <2> QED
    BY <2>1, <2>2 DEF i
<1>3. /\ Listed(list) /\ Listed(list') /\ ToSet(list') = {e \in ToSet(list) : e.name # n}
      /\ \A k \in DOMAIN list' : \E j \in DOMAIN list : j >= k /\ list[j] = list'[k]
  BY WithoutIs DEF ListSound
<1>4. ListSound'
  <2>1. ToSet(list) \subseteq Record
    BY <1>3, EntriesTyped
  <2>2. \A x \in ToSet(list') : attr'[x.ino].kind # "free"
    BY <1>1, <1>2, <1>3, <2>1 DEF ListSound, Record
  <2> QED
    BY <1>3, <2>2 DEF ListSound, InosOnce
<1>5. ListingPart'
  BY <1>3, ListingStep, EntriesTyped
<1> QED
  BY <1>2, <1>4, <1>5

LEMMA UnlinkStep ==
    ASSUME MountInv, NEW n \in Names,
           UnlinkFails(n) \/ \E s1 \in BOOLEAN : Unlink(n, s1)
    PROVE  MountInv'
<1> DEFINE done    == {After(Freed(InodeOf(n)), NotCalled(n))}
           halfway == {After(attr, NotCalled(n))}
<1>0. AttrPart /\ ReplyPart /\ ListSound /\ ListingPart
  BY Parts
<1>1. /\ phase = "up" /\ n \in Entries /\ phase' = phase /\ Track(FALSE, TRUE)
      /\ list' = Without(n, list) /\ Leaves(done, halfway)
      /\ \/ attr' = attr /\ saved' = FALSE /\ reply' = "error"
         \/ \E s1 \in BOOLEAN : /\ attr' = Freed(InodeOf(n))
                                /\ saved' = s1 /\ reply' = (IF s1 THEN "ok" ELSE "error")
  <2>1. CASE UnlinkFails(n)
    BY <2>1 DEF UnlinkFails, LeavesRemoved, Reply
  <2>2. ASSUME NEW s1 \in BOOLEAN, Unlink(n, s1)
        PROVE  /\ phase = "up" /\ n \in Entries /\ phase' = phase /\ Track(FALSE, TRUE)
               /\ list' = Without(n, list) /\ Leaves(done, halfway)
               /\ attr' = Freed(InodeOf(n))
               /\ saved' = s1 /\ reply' = (IF s1 THEN "ok" ELSE "error")
    BY <2>2 DEF Unlink, LeavesRemoved, Reply
  <2> QED
    BY <2>1, <2>2
<1>2. ReplyPart'
  <2>1. CASE saved' = FALSE /\ reply' = "error"
    BY <1>0, <1>1, <2>1 DEF ReplyPart, OkIsSaved
  <2>2. ASSUME NEW s1 \in BOOLEAN, saved' = s1, reply' = IF s1 THEN "ok" ELSE "error"
        PROVE  ReplyPart'
    BY <1>0, <1>1, <2>2 DEF ReplyPart, OkIsSaved
  <2> QED
    BY <1>1, <2>1, <2>2
<1>3. ToSet(list') = NotCalled(n)
  BY <1>0, <1>1, WithoutIs DEF ListSound, NotCalled
<1>4. told' = TRUE
  BY <1>1, <1>3, Left
<1>5. AttrPart' /\ ListSound' /\ ListingPart'
  BY <1>0, <1>1, <1>4, NameGone
<1> QED
  BY <1>2, <1>5, PartsNext

LEMMA RenameStep ==
    ASSUME MountInv, NEW n \in Names, NEW m \in Names, NEW s1 \in BOOLEAN, Rename(n, m, s1)
    PROVE  MountInv'
<1> DEFINE i    == InodeOf(n)
           old  == InodeOf(m)
           gone == IF m \in Entries THEN Freed(old) ELSE attr
           base == Without(m, list)
           e    == Entry(m, i)
           done    == {After(gone, {x \in NotCalled(m) : x.name # n} \cup {e})}
           halfway == {After(attr, NotCalled(m)), After(gone, NotCalled(m))}
<1>0. AttrPart /\ ReplyPart /\ ListSound /\ ListingPart /\ ToSet(list) \subseteq Record
  BY Parts, EntriesTyped DEF ListSound
<1>1. phase = "up" /\ n \in Entries /\ n # m /\ phase' = phase /\ Leaves(done, halfway)
  BY DEF Rename, LeavesMoved
<1>2. \/ /\ m \in Entries /\ list' = base /\ attr' \in {attr, gone}
         /\ saved' = FALSE /\ reply' = "error" /\ Track(FALSE, TRUE)
      \/ /\ \E s \in Added(m, i, base) : list' = Without(n, s)
         /\ attr' = gone
         /\ saved' = s1 /\ reply' = (IF s1 THEN "ok" ELSE "error") /\ Track(TRUE, TRUE)
  BY DEF Rename, Reply
<1>3. /\ i \in Inos /\ Entry(n, i) \in ToSet(list)
      /\ \A x \in ToSet(list) : x.name # n => x.ino # i
  BY <1>0, <1>1, Located
<1>4. m \in Entries => old \in Inos /\ old # i /\ \A x \in ToSet(list) : x.name # m => x.ino # old
  <2> SUFFICES ASSUME m \in Entries
               PROVE  old \in Inos /\ old # i /\ \A x \in ToSet(list) : x.name # m => x.ino # old
    OBVIOUS
  <2>1. old \in Inos /\ \A x \in ToSet(list) : x.name # m => x.ino # old
    BY <1>0, Located
  <2>2. Entry(n, i).name = n /\ Entry(n, i).ino = i
    BY DEF Entry
  <2> QED
    BY <1>1, <1>3, <2>1, <2>2
<1>5. ReplyPart'
  BY <1>0, <1>1, <1>2 DEF ReplyPart, OkIsSaved
<1>6. /\ Listed(base) /\ ToSet(base) = NotCalled(m)
      /\ \A k \in DOMAIN base : \E j \in DOMAIN list : j >= k /\ list[j] = base[k]
  BY <1>0, WithoutIs DEF ListSound, NotCalled
<1>7. CASE /\ m \in Entries /\ list' = base /\ attr' \in {attr, gone}
           /\ reply' = "error" /\ Track(FALSE, TRUE)
  <2>1. After(attr', ToSet(list')) \in halfway
    BY <1>6, <1>7
  <2>2. told' = TRUE
    BY <1>1, <1>7, <2>1, Left
  <2>3. AttrPart' /\ ListSound' /\ ListingPart'
    BY <1>0, <1>7, <2>2, NameGone
  <2> QED
    BY <1>5, <2>3, PartsNext
<1> HIDE DEF i, old, base
<1>8. CASE /\ \E s \in Added(m, i, base) : list' = Without(n, s)
           /\ attr' = gone /\ Track(TRUE, TRUE)
  <2>1. PICK s \in Added(m, i, base) : list' = Without(n, s)
    BY <1>8
  <2>2. \A k \in DOMAIN base : base[k].name # m
    BY <1>6 DEF ToSet, NotCalled
  <2>3. Listed(s) /\ ToSet(s) = NotCalled(m) \cup {e}
    BY <1>3, <1>6, <2>2, AddedIs
  <2>4. Listed(list') /\ ToSet(list') = {x \in ToSet(s) : x.name # n}
    BY <2>1, <2>3, WithoutIs
  <2>5. e.name = m /\ e.ino = i
    BY DEF Entry
  <2>6. told' = TRUE
    <3>1. ToSet(list') = {x \in NotCalled(m) : x.name # n} \cup {e}
      BY <1>1, <2>3, <2>4, <2>5
    <3> QED
      BY <1>1, <1>8, <3>1, Left
  <2> HIDE DEF e
  <2>7. AttrPart' /\ \A x \in ToSet(list) : x.name # m => attr'[x.ino] = attr[x.ino]
    <3>1. CASE m \in Entries
      <4>1. AttrPart' /\ \A j \in Inos \ {old} : attr'[j] = attr[j]
        BY <1>0, <1>4, <1>8, <2>6, <3>1, FreedIs
      <4> QED
        BY <1>0, <1>4, <3>1, <4>1 DEF Record
    <3>2. CASE m \notin Entries
      BY <1>0, <1>8, <2>6, <3>2 DEF AttrPart
    <3> QED
      BY <3>1, <3>2
  <2>8. \A x \in ToSet(list') : x = e \/ (x \in ToSet(list) /\ x.name # n /\ x.name # m)
    BY <2>3, <2>4 DEF NotCalled
  <2>9. InosOnce(ToSet(list'))
    BY <1>0, <1>3, <2>5, <2>8 DEF ListSound, InosOnce
  <2>10. \A x \in ToSet(list') : attr'[x.ino].kind # "free"
    <3>1. attr'[i].kind # "free"
      <4>1. Entry(n, i).name = n /\ Entry(n, i).ino = i
        BY DEF Entry
      <4> QED
        BY <1>0, <1>1, <1>3, <2>7, <4>1 DEF ListSound
    <3> QED
      BY <1>0, <2>5, <2>7, <2>8, <3>1 DEF ListSound
  <2>11. ListSound'
    BY <2>4, <2>9, <2>10 DEF ListSound
  <2>12. ListingPart'
    BY <1>0, <1>8, <2>4, ListingStep, EntriesTyped DEF ListSound
  <2> QED
    BY <1>5, <2>7, <2>11, <2>12, PartsNext
<1> QED
  BY <1>2, <1>7, <1>8

\* Nothing but the inodes and the replies changes.
LEMMA ListUnchanged ==
    ASSUME ListSound, ListingPart, AttrPart,
           UNCHANGED <<list, listing, start, grew, shrank>>,
           \A i \in Inos : attr'[i].kind = attr[i].kind
    PROVE  ListSound' /\ ListingPart'
<1>1. ToSet(list) \subseteq Record
  BY EntriesTyped DEF ListSound
<1>2. \A e \in ToSet(list) : attr'[e.ino].kind # "free"
  BY <1>1 DEF ListSound, Record
<1> QED
  BY <1>2 DEF ListSound, ListingPart, Ahead, Behind

LEMMA WriteRequestStep ==
    ASSUME MountInv, NEW i \in Inos, NEW z \in Sizes, NEW s1 \in BOOLEAN, Write(i, z, s1)
    PROVE  MountInv'
<1> DEFINE new == [attr[i] EXCEPT !.size = IF z > @ THEN z ELSE @]
<1>0. AttrPart /\ ReplyPart /\ ListSound /\ ListingPart
  BY Parts
<1>1. /\ attr' = [attr EXCEPT ![i] = new]
      /\ saved' = s1 /\ reply' = (IF s1 THEN "ok" ELSE "error")
      /\ UNCHANGED <<list, phase, listing, start, grew, shrank>>
  BY <1>0 DEF Write, Reply, listingVars, AttrPart
<1>4. told' = TRUE
  <2>1. Leaves({After(attr', ToSet(list))}, {After(a, ToSet(list)) : a \in {}})
    BY DEF Write, LeavesWritten, LeavesInode
  <2>2. ToSet(list') = ToSet(list)
    BY <1>1 DEF ToSet
  <2> QED
    BY <2>1, <2>2, Left
<1>2. attr[i] \in Attr /\ new \in Attr /\ new.kind = attr[i].kind
  BY <1>0 DEF AttrPart, Attr
<1> HIDE DEF new
<1>3. AttrPart' /\ ReplyPart' /\ \A j \in Inos : attr'[j].kind = attr[j].kind
  BY <1>0, <1>1, <1>2, <1>4 DEF AttrPart, ReplyPart, OkIsSaved
<1> QED
  BY <1>0, <1>1, <1>3, ListUnchanged, PartsNext

\* What setattr writes back, and what its caller may expect in its place.
LEMMA SetattrIs ==
    ASSUME AttrPart, NEW i \in Inos, NEW w \in Wants
    PROVE  LET a         == attr[i]
               truncated == IF w.size = None THEN a ELSE [a EXCEPT !.size = w.size]
               Sized     == [attr EXCEPT ![i].size = IF w.size = None THEN @ ELSE w.size]
               new       == WithFields(a, truncated, w)
           IN  /\ truncated \in Attr /\ truncated.kind = a.kind
               /\ new \in Attr /\ new.kind = a.kind
               /\ [attr EXCEPT ![i] = truncated] = Sized
               /\ [attr EXCEPT ![i] = new] =
                     [Sized EXCEPT ![i].perm = IF w.perm = None THEN @ ELSE w.perm,
                                   ![i].uid  = IF w.uid  = None THEN @ ELSE w.uid]
<1> DEFINE a == attr[i]
           z == IF w.size = None THEN a.size ELSE w.size
           p == IF w.perm = None THEN a.perm ELSE w.perm
           u == IF w.uid = None THEN a.uid ELSE w.uid
           truncated == IF w.size = None THEN a ELSE [a EXCEPT !.size = w.size]
           Sized     == [attr EXCEPT ![i].size = IF w.size = None THEN @ ELSE w.size]
           new       == WithFields(a, truncated, w)
<1>1. a \in Attr /\ attr \in [Inos -> Attr]
  BY DEF AttrPart
<1>2. z \in Sizes /\ p \in Perms /\ u \in Users
  BY <1>1 DEF Wants, Attr
<1>3. truncated = [kind |-> a.kind, size |-> z, perm |-> a.perm, uid |-> a.uid]
  BY <1>1 DEF Attr
<1>4. new = [kind |-> a.kind, size |-> z, perm |-> p, uid |-> u]
  BY <1>3 DEF WithFields
<1>5. Sized = [attr EXCEPT ![i] = truncated]
  <2>1. Sized = [attr EXCEPT ![i] = [a EXCEPT !.size = z]]
    BY <1>1
  <2>2. [a EXCEPT !.size = z] = truncated
    BY <1>1, <1>3 DEF Attr
  <2> QED
    BY <2>1, <2>2
<1>6. truncated \in Attr /\ new \in Attr /\ truncated.kind = a.kind /\ new.kind = a.kind
  BY <1>1, <1>2, <1>3, <1>4 DEF Attr
<1>7. /\ truncated.perm = a.perm /\ truncated.uid = a.uid
      /\ [[truncated EXCEPT !.perm = p] EXCEPT !.uid = u] = new
  <2> HIDE DEF p, u, z, new
  <2>1. /\ truncated = [kind |-> a.kind, size |-> z, perm |-> a.perm, uid |-> a.uid]
        /\ new = [kind |-> a.kind, size |-> z, perm |-> p, uid |-> u]
    BY <1>3, <1>4
  <2> HIDE DEF truncated, a
  <2>2. [truncated EXCEPT !.perm = p] = [kind |-> a.kind, size |-> z, perm |-> p, uid |-> a.uid]
    BY <2>1
  <2>3. [[truncated EXCEPT !.perm = p] EXCEPT !.uid = u] = new
    <3> DEFINE r == [truncated EXCEPT !.perm = p]
    <3>1. r = [kind |-> a.kind, size |-> z, perm |-> p, uid |-> a.uid]
      BY <2>2
    <3> HIDE DEF r
    <3>2. [r EXCEPT !.uid = u] = new
      BY <2>1, <3>1
    <3> QED
      BY <3>2 DEF r
  <2>4. truncated.perm = a.perm /\ truncated.uid = a.uid
    BY <2>1
  <2> QED
    BY <2>3, <2>4
<1>8. /\ p = IF w.perm = None THEN truncated.perm ELSE w.perm
      /\ u = IF w.uid = None THEN truncated.uid ELSE w.uid
  BY <1>7
<1> HIDE DEF truncated, new, p, u, z, a
<1> DEFINE permed == [truncated EXCEPT !.perm = p]
<1>9. Sized[i] = truncated /\ DOMAIN Sized = Inos
  BY <1>1, <1>5 DEF a
<1>10. permed.uid = truncated.uid
  BY <1>6 DEF Attr
<1>11. [Sized EXCEPT ![i].perm = IF w.perm = None THEN @ ELSE w.perm,
                     ![i].uid  = IF w.uid  = None THEN @ ELSE w.uid] =
       [attr EXCEPT ![i] = new]
  <2> DEFINE first == [Sized EXCEPT ![i].perm = IF w.perm = None THEN @ ELSE w.perm]
  <2>1. first = [Sized EXCEPT ![i] = permed]
    BY <1>8, <1>9
  <2>2. first[i] = permed
    BY <1>9, <2>1
  <2>3. /\ [Sized EXCEPT ![i].perm = IF w.perm = None THEN @ ELSE w.perm,
                         ![i].uid  = IF w.uid  = None THEN @ ELSE w.uid]
             = [first EXCEPT ![i].uid = IF w.uid = None THEN @ ELSE w.uid]
    OBVIOUS
  <2>4. [first EXCEPT ![i] = new] = [attr EXCEPT ![i] = new]
    BY <1>1, <1>5, <2>1
  <2> HIDE DEF first
  <2>5. [first EXCEPT ![i].uid = IF w.uid = None THEN @ ELSE w.uid] = [first EXCEPT ![i] = new]
    <3>1. (IF w.uid = None THEN permed.uid ELSE w.uid) = u
      BY <1>8, <1>10
    <3> HIDE DEF permed
    <3>2. [first EXCEPT ![i].uid = IF w.uid = None THEN @ ELSE w.uid]
          = [first EXCEPT ![i] = [permed EXCEPT !.uid = u]]
      BY <2>2, <3>1
    <3> QED
      BY <1>7, <3>2 DEF permed
  <2> QED
    BY <2>3, <2>4, <2>5
<1> QED
  BY <1>5, <1>6, <1>11 DEF a, truncated, new

LEMMA SetattrStep ==
    ASSUME MountInv, NEW i \in Inos, NEW w \in Wants, NEW s1 \in BOOLEAN, NEW s2 \in BOOLEAN,
           Setattr(i, w, s1, s2)
    PROVE  MountInv'
<1> DEFINE a         == attr[i]
           truncated == IF w.size = None THEN a ELSE [a EXCEPT !.size = w.size]
           Sized     == [attr EXCEPT ![i].size = IF w.size = None THEN @ ELSE w.size]
           new       == WithFields(a, truncated, w)
           All       == [Sized EXCEPT ![i].perm = IF w.perm = None THEN @ ELSE w.perm,
                                      ![i].uid  = IF w.uid  = None THEN @ ELSE w.uid]
           done      == {After(All, ToSet(list))}
           halfway   == {After(b, ToSet(list)) : b \in {Sized}}
<1>0. AttrPart /\ ReplyPart /\ ListSound /\ ListingPart
  BY Parts
<1>1. /\ \/ reply' = "error" /\ UNCHANGED <<attr, saved>>
         \/ attr' = [attr EXCEPT ![i] = truncated] /\ saved' = FALSE /\ reply' = "error"
         \/ /\ attr' = [attr EXCEPT ![i] = new]
            /\ saved' = s2 /\ reply' = (IF s2 THEN "ok" ELSE "error")
      /\ UNCHANGED <<list, phase, listing, start, grew, shrank>>
  BY DEF Setattr, Reply, listingVars
<1>2. Leaves(done, halfway)
  BY DEF Setattr, LeavesSet, LeavesInode
<1>3. /\ truncated \in Attr /\ truncated.kind = a.kind /\ new \in Attr /\ new.kind = a.kind
      /\ [attr EXCEPT ![i] = truncated] = Sized /\ [attr EXCEPT ![i] = new] = All
  BY <1>0, SetattrIs
<1> HIDE DEF truncated, new, Sized, All
<1>4. ToSet(list') = ToSet(list)
  BY <1>1 DEF ToSet
<1>5. told' = TRUE
  <2>1. CASE reply' = "error" /\ attr' = attr
    BY <1>2, <1>4, <2>1, Left DEF Now
  <2>2. CASE attr' = Sized /\ reply' = "error"
    <3>1. After(attr', ToSet(list')) \in halfway
      BY <1>4, <2>2
    <3> QED
      BY <1>2, <2>2, <3>1, Left
  <2>3. CASE attr' = All
    BY <1>2, <1>4, <2>3, Left
  <2> QED
    BY <1>1, <1>3, <2>1, <2>2, <2>3
<1>6. AttrPart' /\ \A j \in Inos : attr'[j].kind = attr[j].kind
  BY <1>0, <1>1, <1>3, <1>5 DEF AttrPart
<1>7. ReplyPart'
  BY <1>0, <1>1 DEF ReplyPart, OkIsSaved
<1> QED
  BY <1>0, <1>1, <1>6, <1>7, ListUnchanged, PartsNext

\* Stops, a sync and the end of the mount change no inode and no name.
LEMMA OtherSteps ==
    ASSUME MountInv,
           \/ Stops
           \/ \E s1 \in BOOLEAN : \/ SyncRequest(s1) \/ Destroy(s1)
                                 \/ \E session \in BOOLEAN : Exit(session, s1)
           \/ UNCHANGED vars
    PROVE  MountInv'
<1>0. AttrPart /\ ReplyPart /\ ListSound /\ ListingPart
  BY Parts
<1>1. UNCHANGED <<attr, told, list, listing, start, grew, shrank>>
  BY DEF Stops, SyncRequest, Destroy, Exit, vars, listingVars
<1>2. ReplyPart'
  <2>1. CASE Stops
    BY <1>0, <2>1 DEF Stops, Reply, ReplyPart, OkIsSaved
  <2>2. ASSUME NEW s1 \in BOOLEAN, SyncRequest(s1) PROVE ReplyPart'
    BY <1>0, <2>2 DEF SyncRequest, Reply, ReplyPart, OkIsSaved
  <2>3. ASSUME NEW s1 \in BOOLEAN, Destroy(s1) PROVE ReplyPart'
    BY <1>0, <2>3 DEF Destroy, Reply, ReplyPart, OkIsSaved
  <2>4. ASSUME NEW s1 \in BOOLEAN, NEW session \in BOOLEAN, Exit(session, s1) PROVE ReplyPart'
    BY <1>0, <2>4 DEF Exit, Reply, ReplyPart, OkIsSaved
  <2>5. CASE UNCHANGED vars
    BY <1>0, <2>5 DEF vars, ReplyPart, OkIsSaved
  <2> QED
    BY <2>1, <2>2, <2>3, <2>4, <2>5
<1> QED
  BY <1>0, <1>1, <1>2, ListUnchanged, PartsNext DEF AttrPart

LEMMA OpendirStep ==
    ASSUME MountInv, Opendir
    PROVE  MountInv'
<1>0. AttrPart /\ ReplyPart /\ ListSound /\ ListingPart
  BY Parts
<1>1. /\ UNCHANGED <<attr, list, saved, reply, phase, told>>
      /\ listing' = [NoListing EXCEPT !.state = "open"]
      /\ start' = Entries /\ grew' = FALSE /\ shrank' = FALSE
  BY DEF Opendir
<1>2. AttrPart' /\ ReplyPart' /\ ListSound'
  BY <1>0, <1>1 DEF AttrPart, ReplyPart, OkIsSaved, ListSound, Listed, ToSet
<1>3. /\ listing'.offset = 0 /\ listing'.state = "open"
      /\ \A n \in Dots \cup Names : listing'.got[n] = 0
      /\ listing' \in [offset : Nat, got : [Dots \cup Names -> 0..2], state : {"none", "open", "done"}]
  BY <1>1 DEF NoListing
<1>4. list \in Seq(Record) /\ DOMAIN list = 1..Len(list) /\ Len(list) \in Nat
  BY <1>0, EntriesTyped DEF ListSound
<1>5. Ahead'
  BY <1>1, <1>3, <1>4 DEF Ahead, Entries
<1>6. Behind'
  BY <1>3 DEF Behind
<1>7. start' \subseteq Dots \cup Names
  <2>1. \A k \in DOMAIN list : list[k] \in Record
    BY <1>4
  <2> QED
    BY <1>1, <2>1 DEF Entries, Record
<1>8. listing'.offset \in 0..InodeCount + 1
  BY <1>3, MountAssumption DEF MountAssumption
<1>9. ListingPart'
  BY <1>1, <1>3, <1>5, <1>6, <1>7, <1>8 DEF ListingPart
<1> QED
  BY <1>2, <1>9, PartsNext

\* A page that is not empty moves the offset to behind its last entry; an empty
\* one says that nothing is ahead.
LEMMA ReaddirStep ==
    ASSUME MountInv, NEW most \in 1..PageMax, Readdir(most)
    PROVE  MountInv'
<1> DEFINE page == ReaddirPage(list, listing.offset, most)
           o    == listing.offset
           hit(n) == \E k \in DOMAIN page : page[k].name = n
<1>0. AttrPart /\ ReplyPart /\ ListSound /\ ListingPart
  BY Parts
<1>1. /\ UNCHANGED <<attr, list, saved, reply, phase, start, grew, shrank, told>>
      /\ listing.state = "open"
      /\ listing' = [offset |-> o + Len(page),
                     got    |-> [n \in Dots \cup Names |->
                                   IF hit(n) /\ listing.got[n] < 2 THEN listing.got[n] + 1 ELSE listing.got[n]],
                     state  |-> IF page = <<>> THEN "done" ELSE "open"]
  BY DEF Readdir, NextOffset
<1>2. AttrPart' /\ ReplyPart' /\ ListSound'
  BY <1>0, <1>1 DEF AttrPart, ReplyPart, OkIsSaved, ListSound, Listed, ToSet
<1>3. /\ list \in Seq(Record) /\ Len(list) \in Nat /\ DOMAIN list = 1..Len(list)
      /\ Len(list) <= InodeCount + 1
      /\ \A j, k \in DOMAIN list : list[j].name = list[k].name => j = k
  <2>1. Listed(list) /\ InosOnce(ToSet(list))
    BY <1>0 DEF ListSound
  <2>2. Len(list) <= InodeCount + 1
    BY <2>1, ListFits
  <2>3. list \in Seq(Record)
    BY <2>1, EntriesTyped
  <2> QED
    BY <2>1, <2>2, <2>3 DEF Listed
<1>4. /\ o \in Nat /\ o <= InodeCount + 1 /\ InodeCount \in Nat
      /\ listing.got \in [Dots \cup Names -> 0..2]
  BY <1>0, MountAssumption DEF ListingPart, MountAssumption
<1>5. /\ page \in Seq(Record) /\ Len(page) \in Nat /\ DOMAIN page = 1..Len(page)
      /\ \A j \in 1..Len(page) : o + j \in DOMAIN list /\ page[j] = list[o + j]
      /\ page = <<>> => Len(list) <= o
      /\ page # <<>> => o + Len(page) <= Len(list)
      /\ page = <<>> <=> Len(page) = 0
  <2>1. most \in Nat \ {0}
    BY MountAssumption DEF MountAssumption
  <2> QED
    BY <1>3, <1>4, <2>1, PageIs
<1> HIDE DEF page, o
<1>6. \A n \in Dots \cup Names :
         listing'.got[n] = IF hit(n) /\ listing.got[n] < 2 THEN listing.got[n] + 1 ELSE listing.got[n]
  BY <1>1
<1>7. \A n \in Dots \cup Names : listing'.got[n] \in 0..2 /\ listing'.got[n] >= listing.got[n]
                                /\ (hit(n) => listing'.got[n] # 0)
  BY <1>4, <1>6
<1>8. /\ listing' \in [offset : Nat, got : [Dots \cup Names -> 0..2], state : {"none", "open", "done"}]
      /\ listing'.offset = o + Len(page) /\ listing'.offset \in 0..InodeCount + 1
      /\ listing'.state = IF page = <<>> THEN "done" ELSE "open"
  <2>1. listing'.got \in [Dots \cup Names -> 0..2]
    BY <1>1, <1>7
  <2>2. o + Len(page) \in 0..InodeCount + 1
    BY <1>3, <1>4, <1>5
  <2> QED
    BY <1>1, <2>1, <2>2
<1>9. Ahead'
  <2> SUFFICES ASSUME ~shrank, NEW n \in start, listing'.got[n] = 0
               PROVE  /\ page # <<>>
                      /\ \E k \in DOMAIN list : k > o + Len(page) /\ list[k].name = n
    BY <1>1, <1>8 DEF Ahead
  <2>1. n \in Dots \cup Names
    BY <1>0 DEF ListingPart
  <2>2. listing.got[n] = 0 /\ ~hit(n)
    BY <1>4, <1>7, <2>1
  <2>3. PICK k \in DOMAIN list : k > o /\ list[k].name = n
    BY <1>0, <1>1, <2>2 DEF ListingPart, Ahead, o
  <2>4. page # <<>>
    BY <1>3, <1>4, <1>5, <2>3
  <2>5. k > o + Len(page)
    <3> SUFFICES ASSUME k <= o + Len(page) PROVE FALSE
      BY <1>3, <1>4, <1>5
    <3>1. k - o \in DOMAIN page /\ page[k - o].name = n
      BY <1>3, <1>4, <1>5, <2>3
    <3> QED
      BY <2>2, <3>1
  <2> QED
    BY <2>3, <2>4, <2>5
<1>10. Behind'
  <2> SUFFICES ASSUME ~grew, NEW n \in Dots \cup Names
               PROVE  /\ listing'.got[n] <= 1
                      /\ listing'.got[n] = 1 =>
                            \A k \in DOMAIN list : list[k].name = n => k <= o + Len(page)
    BY <1>1, <1>8 DEF Behind
  <2>1. /\ listing.got[n] \in 0..2 /\ listing.got[n] <= 1
        /\ listing.got[n] = 1 => \A k \in DOMAIN list : list[k].name = n => k <= o
    BY <1>0, <1>1, <1>4 DEF ListingPart, Behind, o
  <2>2. CASE hit(n)
    <3>1. PICK j \in DOMAIN page : page[j].name = n
      BY <2>2
    <3>2. o + j \in DOMAIN list /\ list[o + j].name = n /\ o + j > o /\ o + j <= o + Len(page)
      BY <1>4, <1>5, <3>1
    <3>3. listing.got[n] = 0
      <4>1. listing.got[n] # 1
        BY <1>4, <1>5, <2>1, <3>1, <3>2
      <4> QED
        BY <2>1, <4>1
    <3>4. \A k \in DOMAIN list : list[k].name = n => k <= o + Len(page)
      BY <1>3, <3>2
    <3> QED
      BY <1>6, <3>3, <3>4
  <2>3. CASE ~hit(n)
    <3>1. listing'.got[n] = listing.got[n]
      BY <1>6, <2>3
    <3>2. \A k \in DOMAIN list : k <= o => k <= o + Len(page)
      BY <1>3, <1>4, <1>5
    <3> QED
      BY <2>1, <3>1, <3>2
  <2> QED
    BY <2>2, <2>3
<1>11. ListingPart'
  BY <1>0, <1>1, <1>8, <1>9, <1>10 DEF ListingPart
<1> QED
  BY <1>2, <1>11, PartsNext

-----------------------------------------------------------------------------
(* The theorems                                                             *)

LEMMA MountInvHolds == Spec => []MountInv
<1>1. MountInv /\ [Next]_vars => MountInv'
  <2> SUFFICES ASSUME MountInv, [Next]_vars PROVE MountInv'
    OBVIOUS
  <2>1. CASE UNCHANGED vars
    BY <2>1, OtherSteps
  <2>2. CASE Requests
    <3>1. ASSUME NEW s1 \in BOOLEAN, NEW s2 \in BOOLEAN,
                 \/ \E n \in Names, k \in {"file", "dir"}, u \in Users, p \in Perms :
                       Create(n, k, u, p, s1, s2)
                 \/ \E i \in Inos, w \in Wants : Setattr(i, w, s1, s2)
          PROVE  MountInv'
      BY <3>1, CreateStep, SetattrStep
    <3>2. ASSUME NEW s1 \in BOOLEAN,
                 \/ \E n \in Names : Unlink(n, s1)
                 \/ \E n, m \in Names : Rename(n, m, s1)
                 \/ \E i \in Inos, z \in Sizes : Write(i, z, s1)
          PROVE  MountInv'
      BY <3>2, UnlinkStep, RenameStep, WriteRequestStep
    <3>3. ASSUME NEW s1 \in BOOLEAN,
                 \/ SyncRequest(s1) \/ Destroy(s1)
                 \/ \E session \in BOOLEAN : Exit(session, s1)
          PROVE  MountInv'
      BY <3>3, OtherSteps
    <3>4. ASSUME NEW n \in Names, NEW k \in {"file", "dir"}, NEW u \in Users, NEW p \in Perms,
                 CreateUnnamed(n, k, u, p)
          PROVE  MountInv'
      BY <3>4, CreateUnnamedStep
    <3>5. ASSUME NEW n \in Names, UnlinkFails(n) PROVE MountInv'
      BY <3>5, UnlinkStep
    <3>6. CASE Stops \/ Exited
      BY <3>6, OtherSteps DEF Exited
    <3> QED
      BY <2>2, <3>1, <3>2, <3>3, <3>4, <3>5, <3>6 DEF Requests
  <2>3. CASE ReadNext
    BY <2>3, ReaddirStep DEF ReadNext
  <2>4. CASE Opendir
    BY <2>4, OpendirStep
  <2> QED
    BY <2>1, <2>2, <2>3, <2>4 DEF Next
<1> QED
  BY <1>1, InitMount, PTL DEF Spec

\* The handlers keep the variables in their types; in particular the offset that
\* readdir hands out never exceeds the number of inodes by more than one.
THEOREM TypeCorrect == Spec => []TypeOK
<1>1. MountInv => TypeOK
  BY DEF MountInv
<1> QED
  BY <1>1, MountInvHolds, PTL

\* Wherever create, mkdir, unlink, rmdir, rename, write and setattr end, at one of
\* their syncs or before, the inodes and the names are those that the caller may
\* expect from the answer, for every size, owner and permission.
THEOREM RepliesAreTrue == Spec => []ToldIsStored
<1>1. MountInv => ToldIsStored
  BY DEF MountInv
<1> QED
  BY <1>1, MountInvHolds, PTL

\* No handler answers with success before the sync that its success rests on.
THEOREM SuccessIsSaved == Spec => []OkIsSaved
<1>1. MountInv => OkIsSaved
  BY DEF MountInv
<1> QED
  BY <1>1, MountInvHolds, PTL

\* Paging by index skips no entry of a directory of any length, by pages of any
\* sizes, unless an entry is removed while it is listed.
THEOREM ListingIsComplete == Spec => []NoneSkipped
<1>1. MountInv => NoneSkipped
  BY DEF MountInv, NoneSkipped, Ahead
<1> QED
  BY <1>1, MountInvHolds, PTL

\* And it repeats none, unless an entry is added.
THEOREM ListingHasNoRepeats == Spec => []NoneTwice
<1>1. MountInv => NoneTwice
  <2> SUFFICES ASSUME MountInv, listing.state # "none", ~grew
               PROVE  \A n \in DOMAIN listing.got : listing.got[n] <= 1
    BY DEF NoneTwice
  <2>1. DOMAIN listing.got = Dots \cup Names
    BY DEF MountInv
  <2> QED
    BY <2>1 DEF MountInv, Behind
<1> QED
  BY <1>1, MountInvHolds, PTL
=============================================================================
