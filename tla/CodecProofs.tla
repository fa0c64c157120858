----------------------------- MODULE CodecProofs -----------------------------
(* Theorems about Codec for pictures of any size, bytes and headers of any  *)
(* width and every order of the positions that the order keys can give.     *)
EXTENDS Codec, FiniteSetTheorems, FunctionTheorems, SequenceTheorems, TLAPS

\* What TypeOK says of one picture.
PictureType(k, im) ==
    /\ k \in Kinds
    /\ im \in [Slots -> Values]
    /\ k = "png" => \A s \in Slots : im[s] >= 0

\* Every picture of which this is said carries bits in the lowest bit of the same slots.
Resembles(k, im, other) ==
    \A s \in Slots :
        /\ s \notin Usable(k, im) => other[s] = im[s]
        /\ HighBits(other[s]) = HighBits(im[s])
        /\ other[s] < 0 <=> im[s] < 0

-----------------------------------------------------------------------------
(* One value                                                               *)

LEMMA Halves ==
    ASSUME NEW a \in Nat
    PROVE  /\ a \div 2 \in Nat /\ a % 2 \in Bit
           /\ a = 2 * (a \div 2) + (a % 2)
BY DEF Bit

LEMMA AbsNat ==
    ASSUME NEW v \in Int
    PROVE  Abs(v) \in Nat
BY DEF Abs

\* Setting the lowest bit keeps range, sign and higher bits of a value that is not -1.
LEMMA SetBitKeeps ==
    ASSUME NEW v \in Values, NEW b \in Bit, v # 0 - 1
    PROVE  /\ SetBit(v, b) \in Values
           /\ SetBit(v, b) < 0 <=> v < 0
           /\ HighBits(SetBit(v, b)) = HighBits(v)
           /\ Abs(SetBit(v, b)) % 2 = b
<1> DEFINE a == Abs(v)
<1> DEFINE h == a \div 2
<1>1. MaxValue \in Nat /\ MaxValue % 2 = 1 /\ v \in Int /\ v <= MaxValue /\ 0 - MaxValue <= v
  BY CodecAssumption DEF CodecAssumption, Values
<1>2. a \in Nat /\ a <= MaxValue /\ (v < 0 => a >= 2)
  BY <1>1 DEF Abs
<1>3. h \in Nat /\ a = 2 * h + (a % 2) /\ a % 2 \in Bit
  BY <1>2, Halves
<1>4. 2 * h + b \in Nat /\ 2 * h + b <= MaxValue /\ (v < 0 => 2 * h + b > 0)
  <2> HIDE DEF a, h
  <2>1. \E m \in Nat : MaxValue = 2 * m + 1
    BY <1>1, Halves
  <2>2. PICK m \in Nat : MaxValue = 2 * m + 1
    BY <2>1
  <2>3. h <= m
    BY <1>2, <1>3, <2>2 DEF Bit
  <2> QED
    BY <1>2, <1>3, <2>2, <2>3 DEF Bit
<1>5. SetBit(v, b) = IF v < 0 THEN 0 - (2 * h + b) ELSE 2 * h + b
  BY DEF SetBit, HighBits
<1> HIDE DEF h
<1>6. Abs(SetBit(v, b)) = 2 * h + b
  BY <1>1, <1>3, <1>4, <1>5 DEF Abs
<1>7. (2 * h + b) \div 2 = h /\ (2 * h + b) % 2 = b
  BY <1>3 DEF Bit
<1>8. HighBits(SetBit(v, b)) = 2 * h /\ HighBits(v) = 2 * h
  BY <1>6, <1>7 DEF HighBits, h
<1>9. SetBit(v, b) \in Values /\ (SetBit(v, b) < 0 <=> v < 0)
  BY <1>1, <1>3, <1>4, <1>5 DEF Values, Bit
<1> QED
  BY <1>6, <1>7, <1>8, <1>9

-----------------------------------------------------------------------------
(* Positions                                                               *)

\* The usable slots are a finite set of numbers.
LEMMA UsableFinite ==
    ASSUME NEW k, NEW im
    PROVE  /\ Usable(k, im) \subseteq Slots /\ Slots \subseteq Nat
           /\ IsFiniteSet(Usable(k, im))
           /\ Cardinality(Usable(k, im)) \in Nat /\ Cardinality(Usable(k, im)) <= NSlots
<1>1. NSlots \in Nat
  BY CodecAssumption DEF CodecAssumption
<1>2. IsFiniteSet(Slots) /\ Cardinality(Slots) = NSlots /\ Slots \subseteq Nat
  BY <1>1, FS_Interval DEF Slots
<1>3. Usable(k, im) \subseteq Slots
  BY DEF Usable
<1>4. IsFiniteSet(Usable(k, im)) /\ Cardinality(Usable(k, im)) <= NSlots
  BY <1>2, <1>3, FS_Subset
<1> QED
  BY <1>2, <1>3, <1>4, FS_CardinalityType

\* usable_positions lists every usable slot once: the ranks are 0 to their number.
LEMMA RankOnto ==
    ASSUME NEW U, U \subseteq Nat, IsFiniteSet(U)
    PROVE  /\ \A s \in U : Rank(U, s) \in 0..Cardinality(U) - 1
           /\ \A j \in 0..Cardinality(U) - 1 : \E s \in U : Rank(U, s) = j
<1> DEFINE below(s) == {t \in U : t < s}
<1> DEFINE c == Cardinality(U)
<1>1. c \in Nat
  BY FS_CardinalityType
<1>2. ASSUME NEW s \in U PROVE Cardinality(below(s)) \in 0..c - 1
  <2>1. below(s) \in SUBSET U /\ s \notin below(s)
    OBVIOUS
  <2>2. IsFiniteSet(below(s)) /\ Cardinality(below(s)) <= c /\ Cardinality(below(s)) # c
    BY <2>1, FS_Subset
  <2>3. Cardinality(below(s)) \in Nat
    BY <2>2, FS_CardinalityType
  <2> QED
    BY <1>1, <2>2, <2>3
<1>3. ASSUME NEW s \in U, NEW t \in U, s < t PROVE Cardinality(below(s)) # Cardinality(below(t))
  <2> s \in Nat /\ t \in Nat /\ ~(s < s)
    OBVIOUS
  <2>3. \A u \in U : u < s => u < t
    BY <1>3
  <2>1. below(s) \in SUBSET below(t) /\ s \in below(t) /\ s \notin below(s)
    BY <1>3, <2>3
  <2>2. IsFiniteSet(below(t))
    BY FS_Subset
  <2> QED
    BY <2>1, <2>2, FS_Subset
<1> DEFINE f == [s \in U |-> Cardinality(below(s))]
<1>4. f \in [U -> 0..c - 1]
  BY <1>2
<1>5. \A s, t \in U : f[s] = f[t] => s = t
  <2> SUFFICES ASSUME NEW s \in U, NEW t \in U, s # t PROVE f[s] # f[t]
    OBVIOUS
  <2>1. f[s] = Cardinality(below(s)) /\ f[t] = Cardinality(below(t))
    OBVIOUS
  <2>2. s < t \/ t < s
    OBVIOUS
  <2> QED
    BY <1>3, <2>1, <2>2
<1> HIDE DEF f, c
<1>6. IsFiniteSet(0..c - 1) /\ Cardinality(0..c - 1) = c
  <2>1. 0 \in Int /\ c - 1 \in Int
    BY <1>1
  <2> QED
    BY <1>1, <2>1, FS_Interval
<1>7. f \in Injection(U, 0..c - 1)
  BY <1>4, <1>5, Fun_IsInj
<1>8. f \in Surjection(U, 0..c - 1)
  BY <1>6, <1>7, FS_Injection DEF c
<1>9. \A j \in 0..c - 1 : \E s \in U : f[s] = j
  BY <1>8, Fun_SurjectionProperties
<1>10. \A s \in U : f[s] = Rank(U, s)
  BY DEF f, Rank
<1>11. \A s \in U : Rank(U, s) \in 0..c - 1
  BY <1>2 DEF Rank
<1> QED
  BY <1>9, <1>10, <1>11 DEF c

\* A key of an encrypted pool, or none.
AllKeys == Keys \cup {Plain}

\* Plain or shuffled, every bit has its slot and every usable slot its bit.
LEMMA PlaceOnto ==
    ASSUME NEW k, NEW im, NEW key \in AllKeys
    PROVE  LET U == Usable(k, im) IN
           /\ \A s \in U : Place(key, U, s) \in 0..Cardinality(U) - 1
           /\ \A j \in 0..Cardinality(U) - 1 : \E s \in U : Place(key, U, s) = j
<1> DEFINE U == Usable(k, im)
<1> DEFINE c == Cardinality(U)
<1>1. U \subseteq Nat /\ IsFiniteSet(U) /\ c \in 0..NSlots
  BY UsableFinite
<1> HIDE DEF U
<1>2. /\ \A s \in U : Rank(U, s) \in 0..c - 1
      /\ \A j \in 0..c - 1 : \E s \in U : Rank(U, s) = j
  BY <1>1, RankOnto
<1>3. CASE key = Plain
  BY <1>2, <1>3 DEF Place, U
<1>4. CASE key # Plain
  <2>1. \A s : Place(key, U, s) = Shuffle[key][c][Rank(U, s)]
    BY <1>4 DEF Place
  <2>2. /\ Shuffle[key][c] \in [0..c - 1 -> 0..c - 1]
        /\ \A j \in 0..c - 1 : \E i \in 0..c - 1 : Shuffle[key][c][i] = j
    BY <1>1, <1>4, ShuffleAssumption DEF AllKeys
  <2> HIDE DEF c
  <2>3. \A s \in U : Place(key, U, s) \in 0..c - 1
    BY <1>2, <2>1, <2>2
  <2>4. ASSUME NEW j \in 0..c - 1 PROVE \E s \in U : Place(key, U, s) = j
    <3>1. PICK i \in 0..c - 1 : Shuffle[key][c][i] = j
      BY <2>2
    <3>2. PICK s \in U : Rank(U, s) = i
      BY <1>2
    <3> QED
      BY <2>1, <3>1, <3>2
  <2> QED
    BY <2>3, <2>4 DEF U, c
<1> QED
  BY <1>3, <1>4

-----------------------------------------------------------------------------
(* Embedding                                                               *)

\* A coefficient is usable by its higher bits alone.
LEMMA UsableByHighBits ==
    ASSUME NEW k, NEW im, NEW other, PictureType(k, im), PictureType(k, other), Resembles(k, im, other)
    PROVE  Usable(k, other) = Usable(k, im)
<1>1. ASSUME NEW v \in Int PROVE Abs(v) >= 2 <=> HighBits(v) >= 2
  <2>1. Abs(v) \in Nat
    BY AbsNat
  <2> QED
    BY <2>1, Halves DEF HighBits, Bit
<1>2. \A s \in Slots : im[s] \in Int /\ other[s] \in Int
  BY CodecAssumption DEF CodecAssumption, PictureType, Values
<1>3. \A s \in Slots : Abs(other[s]) >= 2 <=> Abs(im[s]) >= 2
  BY <1>1, <1>2 DEF Resembles
<1> QED
  BY <1>3 DEF Usable

\* write_bytes and embed_bytes change nothing but the lowest bits of usable slots, and
\* there they leave the bits that they were given.
LEMMA EmbedKeeps ==
    ASSUME NEW k, NEW im, PictureType(k, im),
           NEW key \in AllKeys, NEW bits \in Seq(Bit)
    PROVE  LET other == Embed(k, im, key, bits)
               U     == Usable(k, im)
           IN  /\ PictureType(k, other)
               /\ Resembles(k, im, other)
               /\ Usable(k, other) = U
               /\ \A s \in U : Place(key, U, s) < Len(bits) =>
                                   Abs(other[s]) % 2 = bits[Place(key, U, s) + 1]
<1> DEFINE other == Embed(k, im, key, bits)
<1> DEFINE U == Usable(k, im)
<1> DEFINE at(s) == Place(key, U, s)
<1>1. \A s \in Slots : other[s] = IF s \in U /\ at(s) < Len(bits) THEN SetBit(im[s], bits[at(s) + 1]) ELSE im[s]
  BY DEF Embed
<1>2. other = [s \in Slots |-> other[s]]
  BY DEF Embed
<1>3. Cardinality(U) \in Nat /\ U \subseteq Slots
  BY UsableFinite
<1>4. \A s \in U : at(s) \in 0..Cardinality(U) - 1
  BY PlaceOnto
<1> HIDE DEF other, at
<1>5. ASSUME NEW s \in U, at(s) < Len(bits) PROVE bits[at(s) + 1] \in Bit
  <2>1. at(s) + 1 \in 1..Len(bits)
    BY <1>3, <1>4, <1>5
  <2> QED
    BY <2>1
<1>6. ASSUME NEW s \in U PROVE im[s] \in Values /\ im[s] # 0 - 1
  <2>1. s \in Slots /\ im[s] \in Values /\ im[s] \in Int /\ (k = "png" => im[s] >= 0)
    BY <1>3, <1>6, CodecAssumption DEF CodecAssumption, PictureType, Values
  <2>2. k # "png" => Abs(im[s]) >= 2
    BY <1>6 DEF Usable
  <2>3. k = "png" => im[s] # 0 - 1
    BY <2>1
  <2>4. k # "png" => im[s] # 0 - 1
    BY <2>1, <2>2 DEF Abs
  <2> QED
    BY <2>1, <2>3, <2>4
<1>7. ASSUME NEW s \in Slots
      PROVE  /\ other[s] \in Values
             /\ s \notin U => other[s] = im[s]
             /\ HighBits(other[s]) = HighBits(im[s])
             /\ other[s] < 0 <=> im[s] < 0
             /\ s \in U /\ at(s) < Len(bits) => Abs(other[s]) % 2 = bits[at(s) + 1]
  <2>1. CASE s \in U /\ at(s) < Len(bits)
    <3>1. other[s] = SetBit(im[s], bits[at(s) + 1])
      BY <1>1, <2>1
    <3>2. bits[at(s) + 1] \in Bit /\ im[s] \in Values /\ im[s] # 0 - 1
      BY <1>5, <1>6, <2>1
    <3> QED
      BY <2>1, <3>1, <3>2, SetBitKeeps
  <2>2. CASE ~(s \in U /\ at(s) < Len(bits))
    <3>1. other[s] = im[s]
      BY <1>1, <2>2
    <3> QED
      BY <2>2, <3>1 DEF PictureType
  <2> QED
    BY <2>1, <2>2
<1>8. other \in [Slots -> Values]
  BY <1>2, <1>7
<1>9. k = "png" => \A s \in Slots : other[s] >= 0
  <2> SUFFICES ASSUME k = "png", NEW s \in Slots PROVE other[s] >= 0
    OBVIOUS
  <2>1. other[s] \in Int /\ im[s] \in Int /\ im[s] >= 0
    BY <1>7, CodecAssumption DEF CodecAssumption, PictureType, Values
  <2> QED
    BY <1>7, <2>1
<1>10. PictureType(k, other)
  BY <1>8, <1>9 DEF PictureType
<1>11. Resembles(k, im, other)
  BY <1>7 DEF Resembles
<1>12. Usable(k, other) = U
  BY <1>10, <1>11, UsableByHighBits
<1> QED
  BY <1>3, <1>7, <1>10, <1>11, <1>12 DEF other, at

-----------------------------------------------------------------------------
(* Reading                                                                 *)

\* n bits of a sequence, after bit `from`.
Part(bits, from, n) == [j \in 1..n |-> bits[from + j]]

\* Bits that a picture has room for.
HasRoom(k, im, key, bits) ==
    /\ PictureType(k, im) /\ key \in AllKeys
    /\ bits \in Seq(Bit) /\ Len(bits) <= Cardinality(Usable(k, im))

\* read_bytes and extract_bytes find in the changed picture what was embedded.
LEMMA ExtractEmbedded ==
    ASSUME NEW k, NEW im, NEW key, NEW bits, HasRoom(k, im, key, bits),
           NEW from \in Nat, NEW n \in Nat, from + n <= Len(bits)
    PROVE  Extract(k, Embed(k, im, key, bits), key, from, n) = Part(bits, from, n)
<1> USE DEF HasRoom
<1> DEFINE other == Embed(k, im, key, bits)
<1> DEFINE U == Usable(k, im)
<1>1. /\ Usable(k, other) = U
      /\ \A s \in U : Place(key, U, s) < Len(bits) => Abs(other[s]) % 2 = bits[Place(key, U, s) + 1]
  BY EmbedKeeps
<1>2. Cardinality(U) \in Nat /\ Len(bits) \in Nat /\ Len(bits) <= Cardinality(U)
  BY UsableFinite
<1>3. \A j \in 0..Cardinality(U) - 1 : \E s \in U : Place(key, U, s) = j
  BY PlaceOnto
<1> DEFINE slot(j) == CHOOSE s \in U : Place(key, U, s) = from + j - 1
<1>4. Extract(k, other, key, from, n) = [j \in 1..n |-> Abs(other[slot(j)]) % 2]
  <2>1. ~(from + n > Cardinality(U))
    BY <1>2
  <2> QED
    BY <1>1, <2>1 DEF Extract
<1> HIDE DEF other, U
<1>5. ASSUME NEW j \in 1..n PROVE Abs(other[slot(j)]) % 2 = bits[from + j]
  <2>1. from + j - 1 \in 0..Cardinality(U) - 1 /\ from + j - 1 < Len(bits) /\ (from + j - 1) + 1 = from + j
    BY <1>2
  <2>2. \E s \in U : Place(key, U, s) = from + j - 1
    BY <1>3, <2>1
  <2>3. slot(j) \in U /\ Place(key, U, slot(j)) = from + j - 1
    BY <2>2
  <2> HIDE DEF slot
  <2> QED
    BY <1>1, <2>1, <2>3
<1> HIDE DEF slot
<1> QED
  BY <1>4, <1>5 DEF other, Part

\* A header and what follows it are found one after the other.
LEMMA ExtractBoth ==
    ASSUME NEW k, NEW im, NEW key, NEW head \in Seq(Bit), NEW bits \in Seq(Bit),
           HasRoom(k, im, key, head \o bits)
    PROVE  LET other == Embed(k, im, key, head \o bits)
           IN  /\ Extract(k, other, key, 0, Len(head)) = head
               /\ Extract(k, other, key, Len(head), Len(bits)) = bits
<1> DEFINE all == head \o bits
<1> DEFINE h == Len(head)
<1> DEFINE n == Len(bits)
<1>1. h \in Nat /\ n \in Nat
  OBVIOUS
<1>2. all \in Seq(Bit) /\ Len(all) = h + n
  BY ConcatProperties
<1>12. \A i \in 1..h + n : all[i] = IF i <= h THEN head[i] ELSE bits[i - h]
  BY ConcatProperties
<1>3. head = [j \in 1..h |-> head[j]] /\ bits = [j \in 1..n |-> bits[j]]
  OBVIOUS
<1>4. HasRoom(k, im, key, all)
  OBVIOUS
<1> HIDE DEF all, h, n
<1>5. 0 \in Nat /\ 0 + h <= Len(all) /\ h + n <= Len(all)
  BY <1>1, <1>2
<1>13. ASSUME NEW from \in Nat, NEW m \in Nat, from + m <= Len(all)
       PROVE  Extract(k, Embed(k, im, key, all), key, from, m) = Part(all, from, m)
  BY <1>4, <1>13, ExtractEmbedded
<1>6. Extract(k, Embed(k, im, key, all), key, 0, h) = Part(all, 0, h)
  BY <1>1, <1>5, <1>13, Zenon
<1>7. Extract(k, Embed(k, im, key, all), key, h, n) = Part(all, h, n)
  BY <1>1, <1>5, <1>13, Zenon
<1>8. \A j \in 1..h : all[0 + j] = head[j]
  BY <1>1, <1>12
<1>9. \A j \in 1..n : all[h + j] = bits[j]
  BY <1>1, <1>12
<1>10. Part(all, 0, h) = head
  BY <1>3, <1>8 DEF Part
<1>11. Part(all, h, n) = bits
  BY <1>3, <1>9 DEF Part
<1> QED
  BY <1>6, <1>7, <1>10, <1>11 DEF all, h, n

\* What fits in bytes fits in bits.
LEMMA Fits ==
    ASSUME NEW k, NEW im, NEW n \in Nat, n <= RawCapacity(k, im)
    PROVE  n * ByteBits \in Nat /\ n * ByteBits <= Cardinality(Usable(k, im))
<1> DEFINE c == Cardinality(Usable(k, im))
<1> DEFINE q == c \div ByteBits
<1>1. c \in Nat /\ ByteBits \in Nat /\ ByteBits > 0
  BY UsableFinite, CodecAssumption DEF CodecAssumption
<1>2. n <= q
  BY DEF RawCapacity
<1>3. q \in Nat /\ q * ByteBits <= c
  BY <1>1
<1> HIDE DEF q, c
<1>4. n * ByteBits \in Nat /\ n * ByteBits <= q * ByteBits
  BY <1>1, <1>2, <1>3
<1>5. q * ByteBits \in Nat
  BY <1>1, <1>3
<1> QED
  BY <1>1, <1>3, <1>4, <1>5 DEF c

LEMMA PayloadSeq ==
    ASSUME NEW n \in Nat, NEW bits \in Payloads(n)
    PROVE  bits \in Seq(Bit) /\ Len(bits) = n * ByteBits /\ n * ByteBits \in Nat
<1>1. n * ByteBits \in Nat
  BY CodecAssumption DEF CodecAssumption
<1> QED
  BY <1>1 DEF Payloads

LEMMA HeaderSeq ==
    ASSUME NEW n
    PROVE  Header(n) \in Seq(Bit) /\ Len(Header(n)) = HeaderBits /\ HeaderBits \in Nat
<1>1. HeaderBits \in Nat
  BY CodecAssumption DEF CodecAssumption, HeaderBits
<1>2. ASSUME NEW j \in 1..HeaderBits PROVE j % 2 \in Bit
  BY <1>1, Halves
<1>3. Header(n) \in [1..HeaderBits -> Bit]
  BY <1>2 DEF Header, Bit
<1> QED
  BY <1>1, <1>3

\* decode_header gives back the length that encode_header was given.
LEMMA HeaderDecodes ==
    ASSUME NEW n \in Lengths
    PROVE  Framed(Header(n)) /\ LengthOf(Header(n)) = n
<1>1. \E m \in Lengths : Header(n) = Header(m)
  OBVIOUS
<1>2. LengthOf(Header(n)) \in Lengths /\ Header(n) = Header(LengthOf(Header(n)))
  BY <1>1 DEF LengthOf
<1> QED
  BY <1>1, <1>2, HeaderAssumption DEF Framed

-----------------------------------------------------------------------------
(* The steps                                                               *)

\* The inductive invariant: what a picture keeps determines which slots a reader takes.
CodecInv == TypeOK /\ PictureKept /\ CapacityStable /\ ReadBack

LEMMA InitCodec == Init => CodecInv
<1> SUFFICES ASSUME Init PROVE CodecInv
  OBVIOUS
<1>1. PICK p \in Pictures : kind = p.kind /\ image = p.image
  BY DEF Init
<1>2. p \in [kind : Kinds, image : [Slots -> Values]] /\ (p.kind = "png" => \A s \in Slots : p.image[s] >= 0)
  BY CodecAssumption DEF CodecAssumption
<1>3. <<>> \in Payloads(0) /\ 0 \in 0..NSlots \div ByteBits
  <2>1. NSlots \in Nat /\ ByteBits \in Nat /\ ByteBits > 0
    BY CodecAssumption DEF CodecAssumption
  <2>2. NSlots \div ByteBits \in Nat /\ 0 * ByteBits = 0
    BY <2>1
  <2> QED
    BY <2>2 DEF Payloads
<1>4. TypeOK
  BY <1>1, <1>2, <1>3 DEF Init, TypeOK
<1>5. original = image /\ stored.mode = "none"
  BY DEF Init
<1> QED
  BY <1>4, <1>5 DEF CodecInv, PictureKept, CapacityStable, ReadBack

\* No write of any mode takes more than lowest bits from the picture.
LEMMA WriteKeeps ==
    ASSUME TypeOK, PictureKept, CapacityStable,
           NEW mode, NEW key \in AllKeys, NEW first \in Seq(Bit),
           NEW n \in 0..NSlots \div ByteBits, NEW bits \in Payloads(n),
           Write(mode, key, first, bits)
    PROVE  TypeOK' /\ PictureKept' /\ CapacityStable'
<1> DEFINE all == first \o bits
<1>1. n \in Nat
  OBVIOUS
<1>2. bits \in Seq(Bit)
  BY <1>1, PayloadSeq
<1>3. all \in Seq(Bit)
  BY <1>2, ConcatProperties
<1>4. PictureType(kind, image)
  BY DEF TypeOK, PictureType
<1>5. /\ image' = Embed(kind, image, key, all)
      /\ kind' = kind /\ original' = original /\ stored'.bits = bits
  BY DEF Write
<1> HIDE DEF all
<1>6. PictureType(kind, image') /\ Resembles(kind, image, image') /\ Usable(kind, image') = Usable(kind, image)
  BY <1>3, <1>4, <1>5, EmbedKeeps
<1>7. TypeOK'
  BY <1>5, <1>6 DEF TypeOK, PictureType
<1>8. CapacityStable'
  BY <1>5, <1>6 DEF CapacityStable
<1>9. PictureKept'
  BY <1>5, <1>6 DEF PictureKept, CapacityStable, Resembles
<1> QED
  BY <1>7, <1>8, <1>9

LEMMA FramedReads ==
    ASSUME TypeOK, PictureKept, CapacityStable,
           NEW n \in 0..NSlots \div ByteBits, NEW bits \in Payloads(n), WriteFramed(n, bits)
    PROVE  ReadBack'
<1> DEFINE all == Header(n) \o bits
<1>1. n \in Nat /\ n \in Lengths /\ HeaderLen \in Nat /\ HeaderLen + n \in Nat /\ HeaderLen + n <= RawCapacity(kind, image)
  BY CodecAssumption DEF CodecAssumption, WriteFramed
<1>2. Header(n) \in Seq(Bit) /\ Len(Header(n)) = HeaderBits /\ HeaderBits \in Nat
  BY HeaderSeq
<1>3. bits \in Seq(Bit) /\ Len(bits) = n * ByteBits /\ n * ByteBits \in Nat
  BY <1>1, PayloadSeq
<1>4. all \in Seq(Bit) /\ Len(all) = HeaderBits + n * ByteBits
  BY <1>2, <1>3, ConcatProperties
<1>5. PictureType(kind, image)
  BY DEF TypeOK, PictureType
<1>6. Len(all) <= Cardinality(Usable(kind, image))
  <2>1. (HeaderLen + n) * ByteBits = HeaderBits + n * ByteBits
    BY <1>1, CodecAssumption DEF CodecAssumption, HeaderBits
  <2> QED
    BY <1>1, <1>4, <2>1, Fits
<1>7. /\ image' = Embed(kind, image, Plain, all) /\ kind' = kind
      /\ stored'.bits = bits /\ stored'.mode = "framed"
  BY DEF WriteFramed, Write
<1>8. /\ Extract(kind, image', Plain, 0, HeaderBits) = Header(n)
      /\ Extract(kind, image', Plain, HeaderBits, n * ByteBits) = bits
  <2>1. HasRoom(kind, image, Plain, Header(n) \o bits)
    BY <1>4, <1>5, <1>6 DEF AllKeys, HasRoom
  <2>2. /\ Extract(kind, image', Plain, 0, Len(Header(n))) = Header(n)
        /\ Extract(kind, image', Plain, Len(Header(n)), Len(bits)) = bits
    BY <1>2, <1>3, <1>7, <2>1, ExtractBoth
  <2> QED
    BY <1>2, <1>3, <2>2
<1>10. n <= RawCapacity(kind, image') - HeaderLen
  <2>1. Usable(kind, image') = Usable(kind, image)
    BY <1>4, <1>5, <1>7, EmbedKeeps DEF AllKeys
  <2>2. RawCapacity(kind, image') = RawCapacity(kind, image) /\ RawCapacity(kind, image) \in Nat
    BY <2>1, UsableFinite, CodecAssumption DEF CodecAssumption, RawCapacity
  <2> QED
    BY <1>1, <2>2
<1>11. ReadFramed(kind, image') = bits
  BY <1>1, <1>8, <1>10, HeaderDecodes DEF ReadFramed
<1> QED
  BY <1>7, <1>11 DEF ReadBack

LEMMA BareReads ==
    ASSUME TypeOK, PictureKept, CapacityStable, NEW mode, mode \in {"markerless", "prefix"},
           NEW key \in AllKeys,
           NEW n \in 0..NSlots \div ByteBits, NEW bits \in Payloads(n),
           n <= RawCapacity(kind, image), Write(mode, key, <<>>, bits)
    PROVE  ReadBack'
<1>1. n \in Nat
  OBVIOUS
<1>2. bits \in Seq(Bit) /\ Len(bits) = n * ByteBits /\ n * ByteBits \in Nat
  BY <1>1, PayloadSeq
<1>3. <<>> \o bits = bits
  BY <1>2, ConcatEmptySeq
<1>4. PictureType(kind, image)
  BY DEF TypeOK, PictureType
<1>5. Len(bits) <= Cardinality(Usable(kind, image))
  BY <1>1, <1>2, Fits
<1>6. /\ image' = Embed(kind, image, key, bits) /\ kind' = kind
      /\ stored'.bits = bits /\ stored'.mode = mode /\ stored'.key = key
  BY <1>3 DEF Write
<1>7. Extract(kind, image', key, 0, Len(bits)) = Part(bits, 0, Len(bits))
  <2>1. 0 \in Nat /\ Len(bits) \in Nat /\ 0 + Len(bits) <= Len(bits)
    BY <1>2
  <2>2. HasRoom(kind, image, key, bits)
    BY <1>2, <1>4, <1>5 DEF HasRoom
  <2> QED
    BY <1>6, <2>1, <2>2, ExtractEmbedded
<1>8. Part(bits, 0, Len(bits)) = bits
  BY <1>2 DEF Part
<1> QED
  BY <1>6, <1>7, <1>8 DEF ReadBack, ReadBits

LEMMA NextCodec == CodecInv /\ [Next]_vars => CodecInv'
<1> SUFFICES ASSUME CodecInv, [Next]_vars PROVE CodecInv'
  OBVIOUS
<1>1. TypeOK /\ PictureKept /\ CapacityStable
  BY DEF CodecInv
<1>2. CASE Next
  <2> PICK n \in 0..NSlots \div ByteBits : \E bits \in Payloads(n) :
            \/ WriteFramed(n, bits)
            \/ \E key \in Keys : WriteMarkerless(key, n, bits)
            \/ WritePrefix(n, bits)
    BY <1>2 DEF Next
  <2>1. PICK bits \in Payloads(n) :
            \/ WriteFramed(n, bits)
            \/ \E key \in Keys : WriteMarkerless(key, n, bits)
            \/ WritePrefix(n, bits)
    OBVIOUS
  <2>2. <<>> \in Seq(Bit) /\ Header(n) \in Seq(Bit)
    BY HeaderSeq
  <2>3. CASE WriteFramed(n, bits)
    <3>1. TypeOK' /\ PictureKept' /\ CapacityStable'
      BY <1>1, <2>2, <2>3, WriteKeeps DEF WriteFramed, AllKeys
    <3> QED
      BY <1>1, <2>3, <3>1, FramedReads DEF CodecInv
  <2>4. ASSUME NEW key \in Keys, WriteMarkerless(key, n, bits) PROVE CodecInv'
    <3>1. TypeOK' /\ PictureKept' /\ CapacityStable'
      BY <1>1, <2>2, <2>4, WriteKeeps DEF WriteMarkerless, AllKeys
    <3>2. ReadBack'
      BY <1>1, <2>4, BareReads DEF WriteMarkerless, AllKeys
    <3> QED
      BY <3>1, <3>2 DEF CodecInv
  <2>5. CASE WritePrefix(n, bits)
    <3>1. TypeOK' /\ PictureKept' /\ CapacityStable'
      BY <1>1, <2>2, <2>5, WriteKeeps DEF WritePrefix, AllKeys
    <3>2. ReadBack'
      BY <1>1, <2>5, BareReads DEF WritePrefix, AllKeys
    <3> QED
      BY <3>1, <3>2 DEF CodecInv
  <2> QED
    BY <2>1, <2>3, <2>4, <2>5
<1>3. CASE UNCHANGED vars
  BY <1>1, <1>3 DEF CodecInv, TypeOK, PictureKept, CapacityStable, ReadBack, vars
<1> QED
  BY <1>2, <1>3

\* Samples and coefficients stay in their ranges whatever is embedded.
THEOREM TypeCorrect == Spec => []TypeOK
<1>1. CodecInv => TypeOK
  BY DEF CodecInv
<1> QED
  BY <1>1, InitCodec, NextCodec, PTL DEF Spec

\* Any sequence of writes leaves the picture as it was but for lowest bits: sign, higher
\* bits and every slot that is not usable are those of the first picture.
THEOREM PictureIsKept == Spec => []PictureKept
<1>1. CodecInv => PictureKept
  BY DEF CodecInv
<1> QED
  BY <1>1, InitCodec, NextCodec, PTL DEF Spec

\* The slots that usable_positions finds in the changed picture are those of the first.
THEOREM CapacityIsStable == Spec => []CapacityStable
<1>1. CodecInv => CapacityStable
  BY DEF CodecInv
<1> QED
  BY <1>1, InitCodec, NextCodec, PTL DEF Spec

\* What write_chunk or write_prefix wrote last, read_chunk or read_prefix gives back: for
\* every picture, order of positions and length.
THEOREM ReadsBack == Spec => []ReadBack
<1>1. CodecInv => ReadBack
  BY DEF CodecInv
<1> QED
  BY <1>1, InitCodec, NextCodec, PTL DEF Spec
=============================================================================
