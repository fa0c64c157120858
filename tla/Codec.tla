-------------------------------- MODULE Codec --------------------------------
(* How a chunk is kept in a picture (src/stego/): in the lowest bits of the *)
(* red, green and blue samples of a PNG, or of the magnitudes of those      *)
(* quantised JPEG coefficients that are large enough.  Nothing records      *)
(* which ones: a reader finds them by the same test on the changed picture. *)
(*                                                                          *)
(* A picture is a function from slots to values: sample s % 4 of pixel      *)
(* s \div 4, or coefficient s % BlockLen of block s \div BlockLen in the     *)
(* order in which usable_positions walks the components.  Files and their   *)
(* replacement are the module BlockStore.                                   *)
EXTENDS Integers, Sequences, FiniteSets

CONSTANTS
    NSlots,         \* samples or coefficients of a picture
    BlockLen,       \* coefficients of a JPEG block, 64
    ByteBits,       \* bits of a byte, 8
    HeaderLen,      \* bytes of a chunk header, CHUNK_HEADER_LEN
    MaxValue,       \* largest magnitude; odd, as 255 and 2^k - 1 are
    Keys,           \* order keys with a chunk index
    Shuffle,        \* order_positions: for a key and a length, where the k-th position goes
    Pictures        \* the pictures that are there before the first write

Slots  == 0..NSlots - 1
Bit    == {0, 1}
Values == (0 - MaxValue)..MaxValue
Kinds  == {"png", "jpeg"}

ASSUME CodecAssumption ==
    /\ NSlots \in Nat /\ BlockLen \in Nat \ {0} /\ ByteBits \in Nat \ {0} /\ HeaderLen \in Nat \ {0}
    /\ MaxValue \in Nat /\ MaxValue % 2 = 1
    /\ Pictures \subseteq [kind : Kinds, image : [Slots -> Values]]
    /\ \A p \in Pictures : p.kind = "png" => \A s \in Slots : p.image[s] >= 0

\* The shuffle of a list is a permutation that depends on its length alone.
ASSUME ShuffleAssumption ==
    \A key \in Keys : \A n \in 0..NSlots :
        /\ Shuffle[key][n] \in [0..n - 1 -> 0..n - 1]
        /\ \A j \in 0..n - 1 : \E k \in 0..n - 1 : Shuffle[key][n][k] = j

VARIABLES
    kind,           \* format of the picture
    image,          \* the picture as it is now
    original,       \* history: as it was at first
    stored          \* history: how the last chunk or prefix was written, and its bits

vars == <<kind, image, original, stored>>

Abs(v) == IF v < 0 THEN 0 - v ELSE v

\* The magnitude without its lowest bit.
HighBits(v) == 2 * (Abs(v) \div 2)

\* Mutant: coefficients of magnitude 1 are used too.
UsableFromOne(k, im) ==
    IF k = "png" THEN {s \in Slots : s % 4 # 3}
                 ELSE {s \in Slots : s % BlockLen # 0 /\ Abs(im[s]) >= 1}

\* usable_positions: all samples but alpha; coefficients of magnitude 2 and more
\* but the first of a block.
Usable(k, im) ==
    IF k = "png" THEN {s \in Slots : s % 4 # 3}
                 ELSE {s \in Slots : s % BlockLen # 0 /\ Abs(im[s]) >= 2}

\* raw_capacity, in bytes.
RawCapacity(k, im) == Cardinality(Usable(k, im)) \div ByteBits

\* The place of a usable slot among the usable ones.
Rank(U, s) == Cardinality({t \in U : t < s})

\* Which bit slot s carries: in order without a key, shuffled with one.
Plain == "plain"
Place(key, U, s) == IF key = Plain THEN Rank(U, s) ELSE Shuffle[key][Cardinality(U)][Rank(U, s)]

\* Mutant: a negative coefficient comes back as a positive one.
SetBitUnsigned(v, b) == HighBits(v) + b

\* The lowest bit of the magnitude becomes b; the sign stays.
SetBit(v, b) ==
    LET embedded == HighBits(v) + b
    IN  IF v < 0 THEN 0 - embedded ELSE embedded

\* Mutant: the last slot is not copied to the changed picture.
EmbedShort(k, im, key, bits) ==
    LET U == Usable(k, im)
    IN  [s \in Slots \ {NSlots - 1} |-> IF s \in U /\ Place(key, U, s) < Len(bits)
                                      THEN SetBit(im[s], bits[Place(key, U, s) + 1])
                                      ELSE im[s]]

\* write_bytes and embed_bytes: the bits go to the slots that come first.
Embed(k, im, key, bits) ==
    LET U == Usable(k, im)
    IN  [s \in Slots |-> IF s \in U /\ Place(key, U, s) < Len(bits)
                         THEN SetBit(im[s], bits[Place(key, U, s) + 1])
                         ELSE im[s]]

\* The error, told apart from every payload.
NotACarrier == <<2>>

\* read_bytes and extract_bytes: n bits from bit `from`.
Extract(k, im, key, from, n) ==
    LET U == Usable(k, im)
    IN  IF from + n > Cardinality(U) THEN NotACarrier
        ELSE [j \in 1..n |-> Abs(im[CHOOSE s \in U : Place(key, U, s) = from + j - 1]) % 2]

\* encode_header: a mark of a byte and the length of the payload, in bytes, in the
\* rest; index, flags and checksum are left out.
BitSet(n, k) == (n \div 2^k) % 2 = 1
HeaderBits   == HeaderLen * ByteBits
Header(n)    == [j \in 1..HeaderBits |-> IF j <= ByteBits THEN j % 2
                                       ELSE IF BitSet(n, HeaderBits - j) THEN 1 ELSE 0]

\* decode_header: the length, or none without the mark.
Lengths     == 0..2^(HeaderBits - ByteBits) - 1
Framed(h)   == \E n \in Lengths : h = Header(n)
LengthOf(h) == CHOOSE n \in Lengths : h = Header(n)

\* A length that fits its field comes back from it.
ASSUME HeaderAssumption == \A m, n \in Lengths : Header(m) = Header(n) => m = n

Payloads(n) == [1..n * ByteBits -> Bit]

Init ==
    /\ \E p \in Pictures : kind = p.kind /\ image = p.image
    /\ original = image
    /\ stored = [mode |-> "none", key |-> Plain, bits |-> <<>>]

Write(mode, key, first, bits) ==
    /\ image' = Embed(kind, image, key, first \o bits)
    /\ stored' = [mode |-> mode, key |-> key, bits |-> bits]
    /\ UNCHANGED <<kind, original>>

\* Mutant: the room for the header is not counted.
WriteFramedFull(n, bits) ==
    /\ n \in Lengths /\ n <= RawCapacity(kind, image)
    /\ Write("framed", Plain, Header(n), bits)

\* write_chunk of a plaintext pool.
WriteFramed(n, bits) ==
    /\ n \in Lengths /\ HeaderLen + n <= RawCapacity(kind, image)
    /\ Write("framed", Plain, Header(n), bits)

\* write_chunk of an encrypted pool: no header, and the reader knows the length.
WriteMarkerless(key, n, bits) ==
    /\ n <= RawCapacity(kind, image)
    /\ Write("markerless", key, <<>>, bits)

\* write_prefix: the bootstrap in an anchor.
WritePrefix(n, bits) ==
    /\ n <= RawCapacity(kind, image)
    /\ Write("prefix", Plain, <<>>, bits)

Next ==
    \E n \in 0..NSlots \div ByteBits : \E bits \in Payloads(n) :
        \/ WriteFramed(n, bits)
        \/ \E key \in Keys : WriteMarkerless(key, n, bits)
        \/ WritePrefix(n, bits)

Spec == Init /\ [][Next]_vars

\* read_chunk of a framed chunk: the header, the test of its length, the payload.
ReadFramed(k, im) ==
    LET h == Extract(k, im, Plain, 0, HeaderBits)
    IN  IF Framed(h) /\ LengthOf(h) <= RawCapacity(k, im) - HeaderLen
        THEN Extract(k, im, Plain, HeaderBits, LengthOf(h) * ByteBits)
        ELSE NotACarrier

\* read_chunk of a markerless chunk, and read_prefix.
ReadBits(k, im, key, n) == Extract(k, im, key, 0, n)

-----------------------------------------------------------------------------
(* Properties                                                              *)

\* The variables have their types: a sample or coefficient stays in its range.
TypeOK ==
    /\ kind \in Kinds
    /\ image \in [Slots -> Values] /\ original \in [Slots -> Values]
    /\ kind = "png" => \A s \in Slots : image[s] >= 0
    /\ stored.bits \in UNION {Payloads(n) : n \in 0..NSlots \div ByteBits}

\* Over any number of writes a picture changes in nothing but the lowest bit of
\* usable samples or magnitudes: signs, higher bits, alpha, the first
\* coefficients of blocks and small coefficients stay.
PictureKept ==
    \A s \in Slots :
        /\ s \notin Usable(kind, original) => image[s] = original[s]
        /\ HighBits(image[s]) = HighBits(original[s])
        /\ image[s] < 0 <=> original[s] < 0

\* The slots that a reader finds usable are those of the first picture, so no
\* write takes away capacity or shifts the order in which bits are read.
CapacityStable == Usable(kind, image) = Usable(kind, original)

\* The last chunk or prefix is read back from the changed picture, whatever was
\* written before it, in whatever order and length.
ReadBack ==
    CASE stored.mode = "none"   -> TRUE
      [] stored.mode = "framed" -> ReadFramed(kind, image) = stored.bits
      [] OTHER                  -> ReadBits(kind, image, stored.key, Len(stored.bits)) = stored.bits
=============================================================================
