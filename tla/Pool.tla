-------------------------------- MODULE Pool --------------------------------
(***************************************************************************)
(* A directory of pictures and the file systems that are made in it        *)
(* (fs/format.rs, with the saves of stego/png.rs and stego/jpeg.rs and the *)
(* bootstrap of fs/crypto.rs).                                             *)
(*                                                                         *)
(* format picks its carriers from whatever images it finds, and writes     *)
(* them one after the other; a mounted pool is synced in the same way.     *)
(* Each image is first saved under a temporary name, which is an image in  *)
(* the directory as well, and then renamed.  Both can be cut short at any  *)
(* point, by an error or by the end of the process; nothing cleans up.     *)
(***************************************************************************)
EXTENDS Naturals, FiniteSets, Sequences, Functions

CONSTANTS
    NImages,      \* pictures in the directory
    Size,         \* blocks that each of them holds beside a chunk header
    Small,        \* those that hold a block only without the header
    UpperCase,    \* those whose extension sorts before .albumfs-tmp, as .JPG does
    Passphrases,  \* passphrases that callers use
    MaxTemp,      \* bound of the model: a temporary file of a temporary file of ...
    MaxFormats    \* bound of the model: formats that get to write

VARIABLES
    disk,     \* what each image holds
    pools,    \* the superblock of every format so far: its credentials and its manifest
    run,      \* the format or the sync that is writing
    formed,   \* history: the last format, if it and all since succeeded and
              \*          no sync went over another pool
    kept,     \* history: the last plaintext format that succeeded, until one is forced
              \*          or a sync goes over another pool
    stray,    \* history: a format began with a temporary file in the directory
    broken    \* history: a forced format was cut short, or a sync went over another pool

vars == <<disk, pools, run, formed, kept, stray, broken>>

\* Image <<n, 0>> is a picture; <<n, d + 1>> is the temporary file of <<n, d>>.
Images == (1..NImages) \X (0..MaxTemp)

ASSUME PoolAssumption ==
    /\ NImages \in Nat /\ MaxTemp \in Nat /\ MaxFormats \in Nat
    /\ Size \in [1..NImages -> Nat]
    /\ Small \subseteq 1..NImages /\ UpperCase \subseteq 1..NImages

-----------------------------------------------------------------------------
(* Images and what they hold                                               *)

Temp(x) == <<x[1], x[2] + 1>>

\* carrier_paths sorts by name: x.albumfs-tmp.jpg comes before x.jpg, and behind
\* x.JPG.  No two pictures share a stem here (a.jpg and a.jpeg would also share
\* their temporary file), and none extends that of another behind a dot.
Place(x)     == IF x[1] \in UpperCase /\ x[2] = 0 THEN MaxTemp + 1 ELSE x[2]
Before(x, y) == x[1] < y[1] \/ (x[1] = y[1] /\ Place(x) > Place(y))
ByName       == {p \in Images \X Images : Before(p[1], p[2])}

\* The elements of the set S, one by one, in the order R.
InOrder(S, R) ==
    [k \in 1..Cardinality(S) |->
        CHOOSE x \in S : Cardinality({y \in S : <<y, x>> \in R}) = k - 1]

Absent == [kind |-> "absent"]   \* no such file
Torn   == [kind |-> "torn"]     \* a file that is not an image
Photo  == [kind |-> "photo"]    \* an image that holds no chunk as a whole

\* A framed chunk of a plaintext pool; the first one has the primary flag.
Framed(g, k, size) == [kind |-> "framed", gen |-> g, index |-> k, size |-> size]

\* The blocks of an encrypted pool, and the bootstrap in its anchor.
Data(g, k) == [kind |-> "data", gen |-> g, index |-> k]
Boot(g)    == [kind |-> "boot", gen |-> g]

IsFramed(c) == c.kind = "framed"
Present     == {x \in Images : disk[x].kind # "absent"}
Scanned     == {x \in Present : IsFramed(disk[x])}

Formats == 1..Len(pools)
Whole(g) ==
    \A k \in 1..Len(pools[g].manifest) :
        LET x == pools[g].manifest[k]
        IN  disk[x] = IF pools[g].encrypted THEN Data(g, k) ELSE Framed(g, k, Size[x[1]])

-----------------------------------------------------------------------------
(* open                                                                    *)

First(xs) == {x \in xs : \A y \in xs : x = y \/ Before(x, y)}
At(k)     == First({x \in Scanned : disk[x].index = k})

\* open_plaintext: the superblock is the one of the first primary image, and
\* there is an image for every chunk that it names and no other.
OpensPlain(g) ==
    /\ \E p \in At(1) : disk[p].gen = g
    /\ Cardinality(Scanned) = Len(pools[g].manifest)
    /\ \A k \in 1..Len(pools[g].manifest) :
          \E x \in At(k) : disk[x].size = Size[pools[g].manifest[k][1]]

\* open_with_anchor and load_bitmap: the bootstrap decrypts, every image that
\* its manifest names is there, and the block of the bitmap decrypts.
OpensAnchor(g, anchor, pass) ==
    /\ disk[anchor] = Boot(g) /\ pools[g].pass = pass
    /\ \A k \in 1..Len(pools[g].manifest) :
          disk[pools[g].manifest[k]].kind \notin {"absent", "torn"}
    /\ disk[pools[g].manifest[1]] = Data(g, 1)

Opens(g) ==
    IF pools[g].encrypted THEN OpensAnchor(g, pools[g].anchor, pools[g].pass)
    ELSE OpensPlain(g)

-----------------------------------------------------------------------------
(* format                                                                  *)

Idle == [kind |-> "idle", gen |-> 0, forced |-> FALSE, todo |-> <<>>, bufs |-> <<>>,
         slot |-> 1, staged |-> FALSE]

Init ==
    /\ disk = [x \in Images |-> IF x[2] = 0 THEN Photo ELSE Absent]
    /\ pools = <<>> /\ run = Idle
    /\ formed = 0 /\ kept = 0 /\ stray = FALSE /\ broken = FALSE

\* Mutants: the guard asks whether the pool opens, or finds nothing.
OpeningPlaintext == \E g \in Formats : ~pools[g].encrypted /\ OpensPlain(g)
NoPlaintext      == FALSE

\* contains_valid_plaintext_filesystem: some image is a primary.
ValidPlaintext == \E x \in Scanned : disk[x].index = 1

\* contains_valid_markerless_filesystem.
ValidMarkerless(anchor, pass) ==
    disk[anchor].kind = "boot" /\ pools[disk[anchor].gen].pass = pass

\* The bound of the model on temporary files.
Bounded == Len(pools) < MaxFormats /\ \A x \in Present : x[2] < MaxTemp

BeginFormat(pool, images, bufs, forced) ==
    /\ run = Idle /\ Bounded
    /\ pool.manifest # <<>>
    /\ pools' = Append(pools, pool)
    /\ run' = [kind |-> "format", gen |-> Len(pools) + 1, forced |-> forced,
               todo |-> images, bufs |-> bufs, slot |-> 1, staged |-> FALSE]
    /\ stray' = (stray \/ \E x \in Present : x[2] > 0)
    /\ formed' = 0
    /\ kept' = IF forced THEN 0 ELSE kept
    /\ UNCHANGED <<disk, broken>>

\* Mutant: an image with the bootstrap of an encrypted pool is left alone.
FormatPlainSparing(forced) ==
    LET manifest == InOrder({x \in Present : x[1] \notin Small /\ disk[x].kind # "boot"}, ByName)
        g        == Len(pools) + 1
    IN  /\ forced \/ ~ValidPlaintext
        /\ BeginFormat([encrypted |-> FALSE, pass |-> "", anchor |-> <<0, 0>>,
                        manifest |-> manifest],
                       manifest,
                       [k \in 1..Len(manifest) |-> Framed(g, k, Size[manifest[k][1]])],
                       forced)

\* format without a passphrase takes every image that holds a framed block.
FormatPlain(forced) ==
    LET manifest == InOrder({x \in Present : x[1] \notin Small}, ByName)
        g        == Len(pools) + 1
    IN  /\ forced \/ ~ValidPlaintext
        /\ BeginFormat([encrypted |-> FALSE, pass |-> "", anchor |-> <<0, 0>>,
                        manifest |-> manifest],
                       manifest,
                       [k \in 1..Len(manifest) |-> Framed(g, k, Size[manifest[k][1]])],
                       forced)

\* Mutant: the anchor becomes a carrier as well.
CarriersWithAnchor(anchor) == Present

\* With a passphrase: every image but the anchor.
CarriersBeside(anchor) == Present \ {anchor}

\* The bootstrap is written last.
FormatEncrypted(anchor, pass, forced) ==
    LET manifest == InOrder(CarriersBeside(anchor), ByName)
        g        == Len(pools) + 1
    IN  /\ anchor \in Present
        /\ forced \/ (~ValidPlaintext /\ disk[anchor].kind # "torn"
                        /\ ~ValidMarkerless(anchor, pass))
        /\ BeginFormat([encrypted |-> TRUE, pass |-> pass, anchor |-> anchor,
                        manifest |-> manifest],
                       Append(manifest, anchor),
                       Append([k \in 1..Len(manifest) |-> Data(g, k)], Boot(g)),
                       forced)

-----------------------------------------------------------------------------
(* sync of a pool that is open: some of its carriers are dirty             *)

\* An encrypted pool takes what bits its carriers hold for its blocks: this one are
\* those of another pool.
Foreign(g, k) == pools[g].encrypted /\ disk[pools[g].manifest[k]] # Data(g, k)

\* What a sync writes to the carrier x of chunk k: the chunk, with some of its blocks
\* changed.  Where the pool has changed all blocks of another one's, what is left is
\* its own; where it has changed some, nobody's.
Buffer(g, k, x, all) ==
    IF ~Foreign(g, k) THEN disk[x] ELSE IF all THEN Data(g, k) ELSE Photo

BeginFlush(g) ==
    /\ run = Idle /\ Opens(g)
    /\ \A x \in Present : x[2] < MaxTemp
    /\ LET manifest == pools[g].manifest
           carrier  == IF pools[g].encrypted THEN manifest
                       ELSE [k \in 1..Len(manifest) |-> CHOOSE x \in At(k) : TRUE]
       IN  \E dirty \in SUBSET (1..Len(manifest)) : \E all \in SUBSET dirty :
              LET ks   == InOrder(dirty, {p \in dirty \X dirty : p[1] < p[2]})
                  over == \E k \in dirty : Foreign(g, k)
              IN  /\ run' = [kind |-> "flush", gen |-> g, forced |-> FALSE,
                             todo |-> [j \in 1..Len(ks) |-> carrier[ks[j]]],
                             bufs |-> [j \in 1..Len(ks) |->
                                          Buffer(g, ks[j], carrier[ks[j]], ks[j] \in all)],
                             slot |-> 1, staged |-> FALSE]
                  /\ formed' = IF over THEN 0 ELSE formed
                  /\ kept' = IF over THEN 0 ELSE kept
                  /\ broken' = (broken \/ over)
    /\ UNCHANGED <<disk, pools, stray>>

-----------------------------------------------------------------------------
(* Both write image after image                                            *)

Writing == run.kind # "idle" /\ run.slot <= Len(run.todo)
Target  == run.todo[run.slot]

\* write_chunk or write_prefix: the image is opened, filled and saved.
SaveTemp ==
    /\ Writing /\ ~run.staged
    /\ disk[Target].kind \notin {"absent", "torn"}
    /\ disk' = [disk EXCEPT ![Temp(Target)] = run.bufs[run.slot]]
    /\ run' = [run EXCEPT !.staged = TRUE]
    /\ UNCHANGED <<pools, formed, kept, stray, broken>>

\* Mutant: every other image is left out.
RenameTempSkipping ==
    /\ Writing /\ run.staged
    /\ disk' = [disk EXCEPT ![Target] = disk[Temp(Target)], ![Temp(Target)] = Absent]
    /\ run' = [run EXCEPT !.staged = FALSE, !.slot = @ + 2]
    /\ UNCHANGED <<pools, formed, kept, stray, broken>>

RenameTemp ==
    /\ Writing /\ run.staged
    /\ disk' = [disk EXCEPT ![Target] = disk[Temp(Target)], ![Temp(Target)] = Absent]
    /\ run' = [run EXCEPT !.staged = FALSE, !.slot = @ + 1]
    /\ UNCHANGED <<pools, formed, kept, stray, broken>>

Finish ==
    /\ run.kind # "idle" /\ ~Writing
    /\ run' = Idle
    /\ formed' = IF run.kind = "format" THEN run.gen ELSE formed
    /\ kept' = IF run.kind = "format" /\ ~pools[run.gen].encrypted /\ ~stray THEN run.gen ELSE kept
    /\ UNCHANGED <<disk, pools, stray, broken>>

\* An error or the end of the process; a save may be left half done, and the half of
\* a JPEG still decodes.
Interrupted ==
    /\ Writing
    /\ \/ UNCHANGED disk
       \/ /\ ~run.staged
          /\ \E half \in {Torn, Photo} : disk' = [disk EXCEPT ![Temp(Target)] = half]
    /\ run' = Idle
    /\ formed' = 0
    /\ broken' = (broken \/ run.forced)
    /\ UNCHANGED <<pools, kept, stray>>

\* A format that is refused and an open that fails change nothing.
Refused == run = Idle /\ UNCHANGED vars

-----------------------------------------------------------------------------
Next ==
    \/ \E forced \in BOOLEAN :
          \/ FormatPlain(forced)
          \/ \E anchor \in Images, pass \in Passphrases : FormatEncrypted(anchor, pass, forced)
    \/ \E g \in Formats : BeginFlush(g)
    \/ SaveTemp \/ RenameTemp \/ Finish \/ Interrupted \/ Refused

Spec == Init /\ [][Next]_vars

-----------------------------------------------------------------------------
(* Properties                                                              *)

\* Type correctness; a run that writes is always at one of its images, or past
\* the last one.
TypeOK ==
    /\ \A x \in Images : \/ disk[x] \in {Absent, Torn, Photo}
                         \/ disk[x].kind \in {"framed", "data"} /\ disk[x].gen \in Formats
                         \/ \E g \in Formats : disk[x] = Boot(g)
    /\ \A g \in Formats : Range(pools[g].manifest) \subseteq Images
    /\ run.gen \in 0..Len(pools) /\ run.slot \in 1..Len(run.todo) + 1
    /\ Len(run.bufs) = Len(run.todo)
    /\ formed \in 0..Len(pools) /\ kept \in 0..Len(pools)
    /\ stray \in BOOLEAN /\ broken \in BOOLEAN

\* What format made can be opened with the credentials it was given, and still after
\* syncs, whatever the images held before and whatever formats were cut short before it,
\* if none of the images was left behind by one of them; until an encrypted pool that
\* was there before, and opens still, is synced over it.
FormattedOpens ==
    formed # 0 /\ run.kind = "idle" /\ ~stray => Opens(formed) /\ Whole(formed)

\* Once a format has succeeded, no pool from before opens any more, but for an encrypted
\* one that has its anchor and its bitmap in pictures too small for a plaintext pool.
\* Such a pool takes the other's chunks for its own blocks when it is synced.
OldPoolsGone ==
    formed # 0 /\ run.kind = "idle" /\ ~stray =>
        \A g \in Formats \ {formed} : Opens(g) =>
            /\ pools[g].encrypted /\ ~pools[formed].encrypted
            /\ pools[g].anchor[1] \in Small /\ pools[g].manifest[1][1] \in Small

\* No format without --force, finished or cut short, takes a chunk from a plaintext pool
\* that was made; nor does a sync, finished or cut short, but for one of an encrypted
\* pool from before that opens still.
UnforcedKeepsPool == kept # 0 => Whole(kept)

\* A plaintext pool that opens has all of its chunks from one format, as long as no
\* forced format was cut short, none took a temporary file for a carrier and no sync
\* went over another pool: open_plaintext itself does not compare them.
PlainIsWhole ==
    run.kind = "idle" /\ ~broken /\ ~stray =>
        \A g \in Formats : ~pools[g].encrypted /\ OpensPlain(g) =>
            \A x \in Scanned : disk[x].gen = g

\* What format made can be opened, also when it is forced over what an earlier one
\* left: the test format_guard (tests/format.rs:106) expects this of its two calls.
ForcedFormatOpens ==
    formed # 0 /\ run.kind = "idle" => Opens(formed)

\* format refuses to overwrite an existing pool without --force (README.md:91).
RefusesExisting ==
    [][run'.kind = "format" /\ run.kind = "idle" /\ ~run'.forced
          => \A g \in Formats : ~Opens(g)]_vars
=============================================================================
