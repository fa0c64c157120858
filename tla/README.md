# AlbumFS in TLA+

Models, model-checking runs and proofs for AlbumFS: a file system kept in the
low bits of a directory of pictures. Paths below are those of the repository
(`src/fs/album.rs` and so on).

## The system

| Component | State | Operations | Talks to |
|---|---|---|---|
| FUSE adapter, `fs/fuse.rs` | `Arc<Mutex<AlbumFs>>` | one handler per request; all take the mutex for their whole length | file layer |
| File layer, `fs/album.rs`, `bitmap.rs`, `inode.rs` | bitmap in memory; inode table and pointer blocks in the store | `create mkdir read write truncate unlink rmdir rename`, `bmap`, `remove_mapped_block`, `sync` | block store |
| Directories, `fs/dirent.rs` and `album.rs` | records in directory blocks | `lookup`, `add_dir_entry`, `remove_dir_entry`, `update_dotdot` | file layer |
| Block store, `fs/block.rs` | per carrier: buffer, dirty flag | `read_block`, `write_block`, `flush` | codecs |
| Format and open, `fs/format.rs` | superblock, manifest | `format`, `open_plaintext`, `open_with_anchor`, `load_bitmap`, `write_bitmap` | block store, codecs |
| Superblock, crypto, `fs/superblock.rs`, `fs/crypto.rs` | none | encode, decode, key derivation, AEAD | |
| Codecs, `stego/*` | image files | `write_chunk`, `read_chunk`, `write_prefix`, `read_prefix` | libjpeg, `image` |
| Statistics, command line | none | read-only, printing | all |

What is hard here:

* an operation of the file layer keeps a *local copy* of its inode, writes
  blocks and the bitmap as it goes, and stores the copy at its end: every `?`
  in between drops the copy and keeps the rest;
* three levels of block map, with pointer blocks that appear and disappear;
* directory records whose lengths have to add up, and removals that erase nothing;
* operations on the tree that make several changes in several inodes and blocks,
  with no way back from the middle, and handlers that sync several times in one
  request;
* a listing by index from a directory that changes between its pages;
* bits whose places nobody records: a reader finds them again from the picture
  that the writer has changed;
* a store that is written carrier by carrier, each through a temporary file,
  with no journal, no fsync and no lock on the directory;
* format and open, which take whatever images they find.

Requests do not interleave inside the file layer (one mutex, and one thread in
`fuser`), so the concurrency is that of failures: at which step does an
operation, a save or the process end.

What makes the parts correct: no block has two owners; every owned block is
marked, and every marked block owned; files read back as arrays; a directory
lists exactly what its callers linked; directories form a tree whose files are
named once; a request that reports success is saved; a chunk is read back as it
was embedded, over any earlier ones; a reader gets the last write, and a sync
is not lost; what format made opens, and is not overwritten unasked.

## Modules

| Module | Models | Used by |
|---|---|---|
| `BlockMap` | bitmap, inodes and block maps; one step per block linked, copied or removed | `BlockMapRefinement`, `BlockMapProofs` |
| `FileSpec` | the abstract specification: files are arrays of cells | `BlockMapRefinement` |
| `BlockMapRefinement` | the mapping from `BlockMap` to `FileSpec`, and the invariant that makes it one | `MCBlockMap`, `BlockMapContents` |
| `BlockMapProofs` | theorems about `BlockMap`: types, ownership of blocks, isolation of files | `BlockMapContents` |
| `BlockMapContents` | theorems about `BlockMap`: what files hold, how much, and that it implements `FileSpec` | |
| `Directory` | the records of one directory | `MCDirectory` |
| `Namespace` | the tree of directories over inode table, bitmap and carriers; one step per change | `MCNamespace`, `NamespaceProofs` |
| `NamespaceProofs` | theorems about `Namespace`: types, names, metadata of one sync | `NamespaceTree` |
| `NamespaceTree` | theorems about `Namespace`: directories are a tree, link counts are right | |
| `Mount` | the FUSE handlers and the end of a mount; one step per request | `MCMount`, `MountProofs` |
| `MountProofs` | theorems about `Mount` | |
| `BlockStore` | buffers, flush, temporary files, process ends, reopening | `MCBlockStore`, `BlockStoreProofs` |
| `BlockStoreProofs` | theorems about `BlockStore` | |
| `Pool` | the directory of images: formats and syncs that are cut short, open | `MCPool`, `PoolProofs` |
| `PoolProofs` | theorems about `Pool` and `Layout` | |
| `Codec` | bits in samples and coefficients, framed, keyed and as a prefix | `MCCodec`, `CodecProofs` |
| `CodecProofs` | theorems about `Codec` | |
| `Layout` | the arithmetic of a pool's regions, inodes and bitmap bits | `PoolProofs` |
| `MC*` | constants for TLC | |

A definition whose comment begins with *Mutant* is a faulty variant of the one
below it. It is part of no specification; it records a change of the code that
the named property would notice.

### BlockMap

`inode`, `bitmap` and `blk` are the inode table, the bitmap and the blocks of
the data region; `op` is the running operation with its local inode. A cell is
the 8 bytes of a block number, so a block holds `P` cells as data or `P`
pointers. `Link*` are the six places where `bmap` allocates, `CopyBlock` and
`FinishWrite` the rest of `write`; `Remove*` are the branches of
`remove_mapped_block`, `FinishShrink` and `FinishUnlink` the ends of `truncate`
and of `unlink`/`rmdir`. `NoSpace`, `BadBlock`, `BadTail`, `ReadFails*` and `AllocationFails` are
the ways an operation fails; they drop `op.local`. `allocate_block` sets the bit and then writes the
block, whose carrier may not load: `AllocationFails`, and `MkdirFails` for a `mkdir`, leave a
bit that belongs to nothing (`LoseBlock`). `add_dir_entry` growing a
directory is an operation of kind `grow`; the entries themselves are opaque
(`DirData`).

`spoiled`, `leaky` and `torn` are history: they remember that an operation
failed half way, on which file, and whether blocks were freed that an inode in
the table still names. In the last case (a read error in the middle of a
truncate or an unlink) two files may share a block from then on; the model ends
there with `BeyondRepair`.

`block_count` wraps as in a release build. A write whose `sync` fails reports
an error after all is done; that is the same state as success. Times, modes and
owners, the overflow check of `offset + len`, and writes at offsets that are no
multiple of a cell are left out.

### Directory

A block is a function from 4-byte units to what was last written there as a
header; `Reached` is the walk that `decode` drives. A removed record stays in
its block, as in the code. A unit that holds no header decodes to an error;
real bytes of a name could decode to something else, but a walk gets there only
after a removal has skewed the block, which `skewed` remembers. `linked` is what
callers were told.

### Namespace

An operation does all its lookups before it changes anything. So an action `Create`, `Mkdir`,
`Unlink`, `Rmdir` or `Rename` tests the code's conditions and lays out the changes in `todo`; each
is then a step of its own, ending with the carriers that `sync` writes (twice for a rename
that replaces: its `rmdir` or `unlink` syncs too). What the lookups read stays loaded, so a later
read fails only for a block that none of them came to. There are two: a pointer block of a file that
is freed after its name was removed (`FreeFails`; rmdir has read all blocks of a directory to
find it empty), and the first block of a directory that moves, whose ".." `update_dotdot` sets
(`UpdateDotdotFails`). An operation also ends early where `add_dir_entry` refuses
a name or finds no block (`LinkFails`), where `mkdir`
gets none (`MakeDirectoryFails`) and where a carrier is not saved
(`FlushFails`); nothing is undone. `Reopen` is the end of the process between
any two changes or saves and the next open.

Three history variables say what such an end leaves for ever: `orphans`, inodes without a name;
`stale`, directories whose ".." is still the parent before the move; `miscounted`, the two parents
whose link counts a move did not reach. They are saved with the inode table, as what they
describe is. `MaxFaults` bounds failed saves and failed reads, not failures for lack of space. A carrier is
loaded once and for all, but which ones are is not kept: any carrier other than those of bitmap
and table, which are loaded at mount, may fail (`MayNotLoad`).

`home` says which carrier holds bitmap, table and blocks. When the process ends
between saves of carriers, what is found afterwards is a mixture; `torn` marks
it, `MetadataAgrees` and `TypeOK` are still claimed of it, and the model ends there
(`Abandoned`). A block has room for `Room` names; how records share it is `Directory`, and
what its removals can do wrong in later blocks is not repeated here. Two guards are the
kernel's and not the code's: `Known` and `Allowed` (no directory is moved below
itself). The kernel knows the tree by names (`Above`), which after a failed `update_dotdot` is not
what ".." says; that it may go on with an older view right after a failed rename, and callers
of the library who keep other rules, are left out. Files are empty: their blocks, and which of them a
failed free has given back, are `BlockMap`.

### Mount

A handler holds the mutex to its end, so a request is one step; its parameters
say which of its syncs succeed. `Create` is AlbumFs's create or mkdir with the
owner set and synced afterwards, `Setattr` a truncate and then the other fields,
`Rename` may unlink its target first. `CreateUnnamed`, `UnlinkFails`, the first two cases of `Rename`
and `Stops` are requests that fail half way in the file layer.

`told` is history: whether the last request that changes something left what its caller may expect. What that is, the
operators `Leaves*` say from the arguments of the request, not from the steps of its handler: after success
all that was asked for, and after an error nothing, all, or a half that is named there (a file without a name or still
of root; a removed name whose inode is in use; a target removed and the old name still there; a size
set and nothing else). Everything else has to be as before. `saved` says that memory and disk
agree (`BlockStore` has the details, as does `Namespace` for crashes). A listing is `Opendir` and pages `Readdir` of at
most `PageMax` entries, cut from the list as it is then. Files and directories are in one
directory, a new name comes anywhere after `..`, and times and groups are left
out (they are handled as the owner is).

### Codec

A picture is a function from slots to values. `Usable` is `usable_positions` (for a
PNG every sample but alpha), `Place` the position of a slot in plain or
keyed order, `Embed` and `Extract` the loops over bits of both codecs. The
constant `Shuffle` stands for `order_positions`: any permutation that depends
on the key and on the length only. A header is a mark and a length; index, flags
and checksum are left out. PNGs are taken after their conversion to RGBA.
Values are at most `MaxValue` in magnitude, an odd number, as 255 and 32767
are; a coefficient of -32768, which libjpeg does not produce, is left out.

### Layout

Three places compute where things are: `format` (with the literal 21),
`inode_location` and `Bitmap` with `write_bitmap`. `Layout` states all three with the
real constants. It has no state and no run.

### BlockStore

One variable per thing that survives (`file`, `temp`, `staged`) or does not
(`buffer`, `loaded`, `dirty`). `sync` writes the bitmap and then goes over the
carriers: `StartSave`, `FinishSave`, `RenameTemp` for a dirty one. `SyncFails`
and `Stop` can come at each of these points. The bitmap is one block, so a
bitmap that spans carriers and fails to load half way is not covered. A rename
is atomic and what was renamed is on the disk: power loss is not modelled
(the code has no fsync). `Stop` is the end of the process, without a sync. A whole temporary file keeps a plaintext
pool from opening; a partial one may (`OpenRefused`), since libjpeg decodes half a JPEG with no
more than a warning. `view`, `synced` and `since` are history.

### Pool

An image is a picture or the temporary file of one (or the temporary file of
that), and holds a photo, a framed chunk, encrypted blocks, a bootstrap, or half
a file. Half a JPEG still decodes, so half a file may count as a photo. `FormatPlain` and
`FormatEncrypted` are `format_with_anchor_options` up to its first write, guards included; `SaveTemp` and `RenameTemp` are the
writes of format and of the flush of an open pool; `Interrupted` is an error or
the end of the process at any of them. Encryption is symbolic: a bootstrap
opens under its passphrase, a block under the keys of its format. The anchor is
any image, which includes the largest one that `select_anchor` takes by
default. A format that fails before it writes changes nothing (`Refused`).

A framed chunk is known by its mark, a block of an encrypted pool by nothing: the store
reads the bits where its blocks would be, changes some and writes the carrier, whatever
another format has put there (`Foreign`). So `BeginFlush` embeds blocks of its own over foreign ones:
all of the carrier's blocks, or some, after which it is nobody's (`Buffer`). That happens when an encrypted pool opens
after a plaintext format, which leaves alone the images that are too small for a framed block
(`Small`): the anchor and the carrier of the bitmap have to be among those. One small image stands for as many as
the superblock, bitmap and inode table need; an image that holds a bootstrap and no block at all is left out.

`carrier_paths` sorts by name, and so the temporary file of `x.jpg` comes before it and that of `x.JPG` after it
(`UpperCase`, `Place`). Pictures have different stems. `InOrder` puts a set in order by counting what comes before each
element, since the provers have no definition of `SortSeq`.

## Runs

| Run | Checks | Bounds |
|---|---|---|
| `BlockMapDeep` | `TypeOK NoSharing Allocated SpaceAccounted CountExact NothingPastEOF`, `OperationsEnd` under `FairSpec` | one file and the root; one direct pointer, two pointers to a block: all three levels with seven logical blocks, offsets in each of them and past the last, cuts within and at the end of a block, five blocks to take, reads that fail in a truncation, a block of a mkdir that cannot be written |
| `BlockMapRefinement` | `Isolation ImplementsFiles` | two inodes and a growing root that compete for four blocks, all failures |
| `Directory` | `TypeOK EntriesKept FirstBlockSound` | blocks of 12 units, three names of two lengths, two blocks: exact fits, splits, dead records, growth and a name that finds no room all happen |
| `Namespace` | `TypeOK NamedOnce NoDangling TreeSound LinksCounted MetadataAgrees` | four inodes, five blocks, two names that fit and a third that is too long, one name to a block, so that directories grow, fill the pool and replace each other; two carriers, or a second one that cannot be read; one failed save or read. `LargeTrees`: the fourth inode and the fifth block are there for directories only, so that one moves between two others over another, and what fails there is the last step |
| `Mount` | `TypeOK ToldIsStored OkIsSaved NoneSkipped NoneTwice`, `ListingEnds` under `FairSpec` | two names, two inodes beside the directory, two sizes, owners and sets of permissions, pages of one to three of the at most four entries. `PlainWhenListed`: from the first listing on one owner and one set |
| `Codec` | `TypeOK PictureKept CapacityStable ReadBack` | eight slots, bytes of two bits, headers of two bytes: a PNG with six usable slots and eight JPEGs whose usable slots range from three to six, every payload, two keyed orders |
| `BlockStore` | `TypeOK ReadYourWrites SyncIsDurable`, `SyncEnds` under `FairSpec` | two carriers of one and two blocks, two values |
| `Pool` | `TypeOK FormattedOpens OldPoolsGone UnforcedKeepsPool PlainIsWhole` | four pictures, two of them too small for a framed block, so that an encrypted pool with its anchor and bitmap there survives a plaintext format over the other two; three formats; temporary files two deep. `Followed`: a format that takes a temporary file for a picture is the last, and a third format begins when there is none |

A bound with a name is a `CONSTRAINT` of the run, defined in its MC module: states outside it are checked and not followed.

The bounds are small because each hazard needs few actors: sharing needs two
locations, a skewed directory block three records, a half-done flush two
carriers, and a lost chunk one picture and its temporary file. A move that
breaks the tree needs two directories, a skipped entry three entries, and a
shifted bit one coefficient that crosses the threshold.

Four runs end in a violation, each of a statement of the repository:

| Run | What happens |
|---|---|
| `UnlinkReturnsSpace` | a write fails for lack of space after it took blocks; they are never given back. (The same failure leaves blocks mapped in an indirect block that `block_count` does not count, so a later truncate can take the count below zero: `spoiled` marks such files.) |
| `UnlinkedIsGone` | in a directory block after the first, the first two records are removed, a name is added again in the place of the first, and the third is removed: its length goes to the first record, over the dead one between them, and the walk comes to the removed name |
| `ForcedFormatOpens` | a format that was cut short left a temporary image; the next one takes it for a carrier and then overwrites it with its own temporary file |
| `RefusesExisting` | an unforced format overwrites an encrypted pool of another passphrase or anchor |

The passing runs say what holds around these: for example `CountExact` for
every file on which no operation failed half way, `FirstBlockSound` for the
first block of a directory always, `UnforcedKeepsPool` after an interrupted sync.

Some things that the models show and that no line of the repository denies: a
process that ends between the save and the rename of a plaintext carrier leaves
a temporary image that `open_plaintext` counts, so the pool is refused until the
file is deleted; a `create` or `mkdir` that finds no room for its name leaves an
inode (and a block) that nothing names (`orphans`), and so does an unlink that cannot
read a pointer block; a rename that cannot read the ".." of the directory it moves
leaves that and two link counts as they were; an encrypted pool that survives a plaintext format in
small images ruins the new pool with its next sync; and when the bitmap and
the inode table lie in different carriers, a crash between their saves leaves
them of different syncs.

### Fairness

`BlockMap!FairSpec` assumes weak fairness of the steps of a running operation:
the thread that holds the mutex waits for nothing until it is done.
`BlockStore!FairSpec` assumes it of the steps of a flush, whose loop has no wait
in it. `Mount!FairSpec` assumes that a program that lists a directory asks for
pages until one is empty. Nothing assumes that an operation begins, fails or stops.

## Proofs

All for every value of the constants, from the assumptions that the modules state,
which TLC evaluates in the runs:

* `ConstantsAssumption`, `GeometryAssumption`, `CodecAssumption`, `MountAssumption`,
  `NamespaceAssumption`, `PoolAssumption`: positive sizes, sets of numbers, and carriers that cover the
  blocks once, which `validate_manifest_geometry` tests;
* `CountAssumption`: the largest block map has fewer blocks than `block_count`
  can count (with real sizes 12 + 512 + 512 * 512 against 2^32);
* `ShuffleAssumption`, `HeaderAssumption`: a keyed order is a permutation, and
  lengths in the range of the field have different headers.

Each invariant below was checked with TLC on the module's run before its proof.

**`BlockMap`: ownership.** `TypeCorrect`, `NeverShared`, `AlwaysAllocated` state
`TypeOK`, `NoSharing` and `Allocated`. The latter two are not inductive: dropping a
local inode brings the stored one back. The inductive invariant `BlockMapInv` adds
`LocalExtends` (the stored inode of a write has only pointers that the local one has
too) and `TornIdle`. The argument: a step changes pointers of one file only; a linked
block comes from outside the bitmap, and every reachable block is in it, so it is new;
a removed block has one location, so clearing its bit takes it from nobody.
`FilesIsolated` states the action property `Isolation`, from the same invariant: blocks
written by a step are those of its own file or were free.

**`BlockMap`: contents.** `SpaceIsAccounted`, `CountsAreExact`, `NothingIsLeftPastEOF`
state `SpaceAccounted`, `CountExact` and `NothingPastEOF`. They need one another, and more,
in the middle of an operation: `FilesInv`.
`Within` and `ZeroTail` say how far content may reach while a write is ahead of
the size in its inode (`Extent`), so that the end of the write finds the file as
`NothingPastEOF` wants it. `Kept` says that a pointer block has a pointer in it, or is about to get
its first: otherwise a removal, which frees a pointer block when it takes the last
pointer out, would leave one behind and `SpaceAccounted` would fail. `Removed` says
what a truncate or unlink has behind it, `Fresh` that a write
that has linked nothing works on an equal copy (so its failure loses nothing and marks
nothing), and `Modes` that a free inode is empty. What each of the six links and three removals does
to the pointers of the file, and which one location comes or goes, are lemmas
(`Link*Is`, `Remove*Is`); counting is then by one element at a time.

**`BlockMap` implements `FileSpec`.** `FilesImplemented` states `ImplementsFiles`: read
through the inode table, every file is an array of cells that only the running request
changes, only in its range and only towards its result; an error leaves some of that
and success all of it. Callers see the stored inode while the operation works on its
copy, so the invariant needed beside the other two, `SeenInv`, relates what the two reach.
`Written`: the copy of a write reads as its value in the part of the range it has come over, and as the
stored inode everywhere else. So the end of a write, which makes the copy the stored
inode, is a step to the whole result. `Retained`: a pointer that a removal took
from its copy and the table still has is to a free block, past everything that is kept. So
writing a pointer block with one pointer less shows as cells that became zero, or not
at all, and never outside the range. `Unfinished`: mode and size change at the end only, and a
directory is whole blocks. Links, removals and copies map to `Progress`, the ends to
`Commit`, failures to `Abandon`, a logical block that was a hole under a missing pointer block to a stutter.

**`BlockStore`.** `TypeCorrect`, `ReadsAreCurrent`, `SyncedIsKept` state `TypeOK`,
`ReadYourWrites` and `SyncIsDurable`. `StoreInv` adds `CleanIsOnDisk` (a
clean loaded carrier equals its file), `FlushOrder` (flush has passed only
clean carriers, and what it will rename is the buffer) and `WrittenSince`.

**`Namespace`: names.** `TypeCorrect`, `NamesAreLive`, `EveryFileHasOneName`,
`MetadataIsOfOneSync` state `TypeOK`, `NoDangling`, `NamedOnce` and
`MetadataAgrees`; `InTheTree` the invariant they follow from, `NamespaceInv`. In the middle of an
operation the tree is none of these things: a rename has taken the old name away, a
`mkdir` has an inode without a name. So the invariant speaks of the plan `todo`:
the tree without what the plan still takes away (`Leaving`) and with what it has
still to name (`Loose`) is a tree, and every change in the plan is right where it will be made
(`MakesOK`, `UnlinksOK`, `RemovesOK`, `LinksOK`), whatever the operation was
and wherever it is. Each change, taken from the front, keeps that; an operation
that gives up leaves what was `Loose` to `orphans`, be it a name that found no room or a file whose blocks
could not be freed. The same holds of what the carriers
hold after a sync that was whole. `ReplacePlan` was first written as a `CASE`; the
proof found that two of its guards overlap, and it is now the `if` chain of the code.

**`Namespace`: the shape of the tree.** `DirectoriesFormATree`, `LinkCountsAreRight` state
`TreeSound` and `LinksCounted`; `TreeAndCounts` the invariant they follow from, `TreeInv`,
which leans on `NamespaceInv` and is again about the plan, in memory and in what one
sync left on the carriers. `Placed` says where directories are. The entries are `Acyclic`: of
any set of inodes, one is named from outside it or not at all, which needs no paths and
no lengths. ".." of an entry that stays is its directory, or a `dotdot` in the plan will make it so
(`Agrees`, `DotdotsOK`: at most one is left once the name is there, and it is the next change or the one
after). A name is added to a directory that an upward closed set without
the inode contains (`LinksBelow`), so no loop closes. That set is `Above` of the new
parent: the kernel's test (`Allowed`), which is all that keeps a directory out of itself.
`Counted` says how many links a directory has: with what the plan owes it before anything can
fail (`Owed`), 2 and one for each directory in it (`CountsOK`). What is owed is paid once and before
the next name is added or carrier saved (`OrderOK`), so an operation that gives up there owes nothing; and the
link counts that follow a new name are those of the two parents (`LinkCountsOK`).
Only a failed `update_dotdot` gives up with debts: they are those of the two parents, which join `miscounted`, and
the directory joins `stale` until a move sets its "..". So the invariant speaks of parents and counts as they are
meant to be, which exist and are the real ones but in these two sets (`Meant`); `Acyclic` and `Above` go by names,
so the tree stays one in spite of them.
At rest nothing is owed. `Above` is a function defined by recursion over a bounded
range; `GoesUp` finds its values by a least counterexample, which needs no induction
schema. The way up ends at the root because `InodeCount` steps through fewer directories meet one
of them twice (`RootIsAbove`, a pigeonhole), and that one would be below itself.

**`Mount`.** `TypeCorrect`, `RepliesAreTrue`, `SuccessIsSaved`, `ListingIsComplete`,
`ListingHasNoRepeats` state `TypeOK`, `ToldIsStored`, `OkIsSaved`, `NoneSkipped` and `NoneTwice`.
`MountInv` adds that names are there once and each inode has one, of an inode in use (`ListSound`), that what a
listing has not got yet lies ahead of its offset as long as nothing was removed (`Ahead`), and that
what it has got lies behind it as long as nothing was added (`Behind`). For `ToldIsStored` each handler is shown to
end, at each of its exits, in one of the states that `Leaves*` allow; a rename needs `ListSound`, so that
the name it removes is the source's and no other.

**`Codec`.** `TypeCorrect`, `PictureIsKept`, `CapacityIsStable`, `ReadsBack` state `TypeOK`,
`PictureKept`, `CapacityStable` and `ReadBack`.
The invariant `CodecInv` says that the picture has the high bits and signs of the
original and that its lowest bits hold what was written last. Setting the lowest
bit of a magnitude of 2 or more leaves it at 2 or more, so the usable slots
are those of the original; ranks and keyed places are then the same for writer
and reader, and different slots have different places.

**`Pool`.** `TypeCorrect`, `FormatOpens`, `OldAreGone`, `UnforcedKeeps`, `PlainWhole` state `TypeOK`,
`FormattedOpens`, `OldPoolsGone`, `UnforcedKeepsPool` and `PlainIsWhole`. `PoolInv` adds what each image
may hold (`DiskFits`: a framed chunk never leaves the picture whose size it has, or a temporary
file of it) and which carriers a format chose (`Chosen`). A sync either goes over another pool, which ends
`formed` and `kept` and sets `broken` (`Overrun`), or gives a picture
what it holds already (`FlushOK`). A format with `--force`
has, when it has written everything, left nothing else that is framed (`AllWritten`). One without
finds no primary, and then no framed image at all (`Tidy`): a primary stands in a
picture as soon as there is a second chunk, since a format writes it first. So
it cannot begin where a plaintext pool is kept (`KeptOK`). `open_plaintext` counts the
framed images and takes the first of each index; in a pool that is whole and beside which
there are no temporary files (`NoTemps`), its carriers are those images, one by one (`WholeOpens`).
`OldAreGone` rests on `FormedHolds`, what a format that has succeeded has written over: all pictures, or all but the
small ones if it was a plaintext one; so a bootstrap and a bitmap from before are in small pictures or nowhere.

**`Layout`** (in `PoolProofs`). `RegionsInOrder`, `InodesApart`, `BitsApart`: linear arithmetic over quotients
and remainders, for every number of blocks, with the real constants.

Only model-checked: liveness (`OperationsEnd`, `SyncEnds`, `ListingEnds`), which needs
fairness; and `Directory`, whose walk over a block is a fold, so that a proof would be
by induction over data.

## Not modelled

* The byte formats of superblock, inode and directory record beyond what the
  properties need, and the validation of names: no state, and straight round trips.
* libjpeg, the `image` crate, key derivation and ciphers: external.
* Statistics and the command line: they change nothing.
* Power loss: the code has no fsync, so a rename may reach the disk before the
  data, and nothing could be claimed.
* Two processes on one album: each overwrites what the other saved; nothing
  locks the directory and nothing in the repository says what should happen.
* A panic under the mutex (`block_count` of a spoiled file in a debug build), after
  which every request answers EIO.
* Inode numbers that the kernel still caches when they are used again.

## Plan

1. `BlockMap` over carriers: what a crash between two of them leaves of
   pointer blocks, as `Namespace` has it for directories.
2. Superblock encode and decode as a pair of operators over bounded fields.
