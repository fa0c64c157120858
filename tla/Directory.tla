----------------------------- MODULE Directory -----------------------------
(***************************************************************************)
(* The entries of one directory (fs/dirent.rs, and lookup, add_dir_entry,  *)
(* remove_dir_entry and update_dotdot of fs/album.rs).                     *)
(*                                                                         *)
(* A directory is a list of blocks; a block is cut into records, each with *)
(* the length of its own record in its header, and is read by walking from *)
(* record to record.  Removing an entry changes a header and erases        *)
(* nothing, so the model keeps what every unit of a block holds.  A unit   *)
(* is 4 bytes, the granularity of rec_len.                                 *)
(***************************************************************************)
EXTENDS Naturals, Sequences, SequencesExt

CONSTANTS
    UB,         \* units in a block (1008 in the code)
    Names,      \* names that callers use
    Need,       \* required_len of every name, "." and ".." included
    Inos,       \* inodes that callers link
    Self,       \* the inode of this directory
    Parents,    \* inodes this directory may be moved under
    MaxBlocks   \* bound of the model: blocks of the directory

VARIABLES
    blocks,   \* the content of the directory, block by block
    linked,   \* history: the inode under each name, 0 for none, as callers were told
    skewed    \* history: blocks where a removal lengthened a record not next to it

vars == <<blocks, linked, skewed>>

Units    == 0..UB-1
AllNames == Names \cup {".", ".."}

ASSUME DirectoryAssumption ==
    /\ UB \in Nat /\ MaxBlocks \in Nat \ {0} /\ Names \cap {".", ".."} = {}
    /\ Need \in [AllNames -> Nat \ {0}] /\ Need["."] + Need[".."] <= UB
    /\ \A n \in Names : Need[n] <= UB
    /\ Inos \subseteq Nat \ {0} /\ Self \in Nat \ {0} /\ Parents \subseteq Nat \ {0}

-----------------------------------------------------------------------------
(* Blocks and records                                                      *)

Header(ino, name, len) == [inode |-> ino, name |-> name, rec_len |-> len]

\* A unit where no record was started: decode finds a record length of 0.
Blank == Header(0, "", 0)

\* encode_into: the record is zeroed before its header is written.
Encode(block, u, ino, name, len) ==
    [v \in Units |-> CASE v = u            -> Header(ino, name, len)
                       [] v \in u+1..u+len-1 -> Blank
                       [] OTHER             -> block[v]]

EmptyBlock == [v \in Units |-> Blank]

InitialBlock(parent) ==
    Encode(Encode(EmptyBlock, 0, Self, ".", Need["."]),
           Need["."], parent, "..", UB - Need["."])

\* decode accepts what is at unit u.
Decodes(block, u) == block[u].rec_len # 0 /\ u + block[u].rec_len <= UB

\* The units a walk over the block comes to, its end included.
Reached(block) ==
    FoldLeft(LAMBDA seen, u : IF u \in seen /\ Decodes(block, u)
                              THEN seen \cup {u + block[u].rec_len} ELSE seen,
             {0}, [k \in 1..UB |-> k - 1])

Records(block) == {u \in Reached(block) \ {UB} : Decodes(block, u)}
Live(block)    == {u \in Records(block) : block[u].inode # 0}
Broken(block)  == UB \notin Reached(block)

\* directory_entries reads every block, and fails if one is broken.
Readable(bs) == \A n \in 1..Len(bs) : ~Broken(bs[n])

\* The places of live records with this name.
Holding(bs, name) ==
    UNION {{n} \X {u \in Live(bs[n]) : bs[n][u].name = name} : n \in 1..Len(bs)}

\* The record that a walk over all blocks meets first; a walk ends at a broken
\* block.
FirstOf(bs, places) ==
    {p \in places : /\ \A n \in 1..p[1]-1 : ~Broken(bs[n])
                    /\ \A q \in places : p[1] < q[1] \/ (p[1] = q[1] /\ p[2] <= q[2])}

\* lookup: the inode under a name, 0 for None.
Lookup(bs, name) ==
    IF Holding(bs, name) = {} THEN 0
    ELSE LET p == CHOOSE p \in FirstOf(bs, Holding(bs, name)) : TRUE IN bs[p[1]][p[2]].inode

-----------------------------------------------------------------------------
(* add_dir_entry                                                           *)

\* Mutant: the record at u is taken to be as long as its name needs.
FitsLoosely(block, u, need) ==
    \/ block[u].inode = 0 /\ block[u].rec_len >= need
    \/ block[u].inode # 0 /\ block[u].rec_len >= need

\* A dead record that is long enough, or a live one with enough room behind.
Fits(block, u, need) ==
    \/ block[u].inode = 0 /\ block[u].rec_len >= need
    \/ block[u].inode # 0 /\ block[u].rec_len >= Need[block[u].name] + need

\* Mutant: the new record is as long as the one that is split.
PutWhole(block, u, name, ino) ==
    IF block[u].inode = 0
    THEN Encode(block, u, ino, name, block[u].rec_len)
    ELSE LET minimal == Need[block[u].name]
         IN  Encode([block EXCEPT ![u].rec_len = minimal],
                    u + minimal, ino, name, block[u].rec_len)

Put(block, u, name, ino) ==
    IF block[u].inode = 0
    THEN Encode(block, u, ino, name, block[u].rec_len)
    ELSE LET minimal == Need[block[u].name]
         IN  Encode([block EXCEPT ![u].rec_len = minimal],
                    u + minimal, ino, name, block[u].rec_len - minimal)

\* The directory with the entry added; room says whether the pool has a block
\* left for it to grow.
Added(bs, name, ino, room) ==
    LET fits == UNION {{n} \X {u \in Records(bs[n]) : Fits(bs[n], u, Need[name])} : n \in 1..Len(bs)}
    IN  CASE FirstOf(bs, fits) # {} ->
               LET p == CHOOSE p \in FirstOf(bs, fits) : TRUE
               IN  [ok |-> TRUE, blocks |-> [bs EXCEPT ![p[1]] = Put(@, p[2], name, ino)]]
          [] FirstOf(bs, fits) = {} /\ Readable(bs) /\ room ->
               [ok |-> TRUE, blocks |-> Append(bs, Encode(EmptyBlock, 0, ino, name, UB))]
          [] OTHER -> [ok |-> FALSE, blocks |-> bs]

-----------------------------------------------------------------------------
(* remove_dir_entry                                                        *)

\* The last live record before u: what the code calls previous.
Previous(block, u) ==
    {v \in Live(block) : v < u /\ \A w \in Live(block) : w < u => w <= v}

\* The removed record goes to the record before it, or stays as a dead one.
Cut(block, u) ==
    IF Previous(block, u) = {}
    THEN [block EXCEPT ![u].inode = 0]
    ELSE LET v == CHOOSE v \in Previous(block, u) : TRUE
         IN  [block EXCEPT ![v].rec_len = @ + block[u].rec_len]

Removed(bs, p) == [bs EXCEPT ![p[1]] = Cut(@, p[2])]

\* Whether the record before is not the one next to it.
Skews(bs, p) ==
    \E v \in Previous(bs[p[1]], p[2]) : v + bs[p[1]][v].rec_len # p[2]

SkewedBy(bs, p) == IF Skews(bs, p) THEN {p[1]} ELSE {}

-----------------------------------------------------------------------------
(* Operations                                                              *)

Init ==
    /\ \E parent \in Parents : blocks = <<InitialBlock(parent)>>
    /\ linked = [n \in Names |-> 0]
    /\ skewed = {}

Room == IF Len(blocks) < MaxBlocks THEN BOOLEAN ELSE {FALSE}

\* The entry half of create and mkdir, and of a rename into this directory.
Create(name, ino) ==
    /\ Readable(blocks) /\ Lookup(blocks, name) = 0
    /\ \A n \in Names : linked[n] # ino
    /\ \E room \in Room :
          LET added == Added(blocks, name, ino, room)
          IN  /\ blocks' = added.blocks
              /\ linked' = IF added.ok THEN [linked EXCEPT ![name] = ino] ELSE linked
    /\ UNCHANGED skewed

\* The entry half of unlink and rmdir, and of a rename out of this directory.
Unlink(name) ==
    /\ Readable(blocks)
    /\ \E p \in FirstOf(blocks, Holding(blocks, name)) :
          /\ blocks' = Removed(blocks, p)
          /\ skewed' = skewed \cup SkewedBy(blocks, p)
    /\ linked' = [linked EXCEPT ![name] = 0]

\* Mutant: the old name goes first, and is lost when the new one finds no room.
RenameRemovingFirst(name, new) ==
    /\ Readable(blocks) /\ name # new
    /\ Lookup(blocks, name) # 0 /\ Lookup(blocks, new) = 0
    /\ \E p \in FirstOf(blocks, Holding(blocks, name)), room \in Room :
          LET ino   == Lookup(blocks, name)
              added == Added(Removed(blocks, p), new, ino, room)
          IN  /\ blocks' = added.blocks
              /\ skewed' = skewed \cup SkewedBy(blocks, p)
              /\ linked' = IF added.ok THEN [linked EXCEPT ![name] = 0, ![new] = ino] ELSE linked

\* rename within the directory to a name that is free.  When the new entry
\* finds no room nothing is changed; the old one goes last.
Rename(name, new) ==
    /\ Readable(blocks) /\ name # new
    /\ Lookup(blocks, name) # 0 /\ Lookup(blocks, new) = 0
    /\ \E room \in Room :
          LET ino   == Lookup(blocks, name)
              added == Added(blocks, new, ino, room)
          IN  \/ ~added.ok /\ UNCHANGED vars
              \/ /\ added.ok
                 /\ \E p \in FirstOf(added.blocks, Holding(added.blocks, name)) :
                       /\ blocks' = Removed(added.blocks, p)
                       /\ skewed' = skewed \cup SkewedBy(added.blocks, p)
                 /\ linked' = [linked EXCEPT ![name] = 0, ![new] = ino]

\* rename onto a name that is taken: its entry is removed by unlink or rmdir
\* before the new one is added, and stays removed when that fails.
Replace(name, new) ==
    /\ Readable(blocks) /\ name # new
    /\ Lookup(blocks, name) # 0 /\ Lookup(blocks, new) # 0
    /\ Lookup(blocks, name) # Lookup(blocks, new)
    /\ \E t \in FirstOf(blocks, Holding(blocks, new)), room \in Room :
          LET ino   == Lookup(blocks, name)
              gone  == Removed(blocks, t)
              added == Added(gone, new, ino, room)
              left  == FirstOf(added.blocks, Holding(added.blocks, name))
          IN  \/ /\ ~added.ok \/ left = {}
                 /\ blocks' = added.blocks
                 /\ skewed' = skewed \cup SkewedBy(blocks, t)
                 /\ linked' = [linked EXCEPT ![new] = IF added.ok THEN ino ELSE 0]
              \/ /\ added.ok
                 /\ \E p \in left :
                       /\ blocks' = Removed(added.blocks, p)
                       /\ skewed' = skewed \cup SkewedBy(blocks, t)
                                        \cup SkewedBy(added.blocks, p)
                 /\ linked' = [linked EXCEPT ![name] = 0, ![new] = ino]

\* update_dotdot, when this directory is moved: only the first block is read.
UpdateDotdot(parent) ==
    /\ \E u \in Live(blocks[1]) :
          /\ blocks[1][u].name = ".." /\ \A v \in Live(blocks[1]) : blocks[1][v].name = ".." => u <= v
          /\ blocks' = [blocks EXCEPT ![1][u].inode = parent]
    /\ UNCHANGED <<linked, skewed>>

Next ==
    \/ \E name \in Names : Unlink(name) \/ \E ino \in Inos : Create(name, ino)
    \/ \E name, new \in Names : Rename(name, new) \/ Replace(name, new)
    \/ \E parent \in Parents : UpdateDotdot(parent)

Spec == Init /\ [][Next]_vars

-----------------------------------------------------------------------------
(* Properties                                                              *)

\* Type correctness; every header, those of removed records included, describes a
\* record inside its block, so decode never reads past one (add_dir_entry and
\* remove_dir_entry compute these lengths).
TypeOK ==
    /\ Len(blocks) \in 1..MaxBlocks
    /\ \A n \in 1..Len(blocks) :
          /\ blocks[n] \in [Units -> [inode : Nat, name : AllNames \cup {""}, rec_len : 0..UB]]
          /\ \A u \in Units : u + blocks[n][u].rec_len <= UB
    /\ linked \in [Names -> Inos \cup {0}]
    /\ skewed \subseteq 1..MaxBlocks

\* A block tells the truth: its walk ends exactly at its end, no name is in it
\* twice, and every live record in it but "." and ".." is one that callers were
\* told is linked (create, unlink and rename answer for what lookup and readdir
\* will find).
Sound(n) ==
    /\ ~Broken(blocks[n])
    /\ \A u \in Live(blocks[n]) :
          /\ blocks[n][u].name \in Names => linked[blocks[n][u].name] = blocks[n][u].inode
          /\ \A v \in Live(blocks[n]) : blocks[n][v].name = blocks[n][u].name => u = v

\* Every block is sound, until a removal lengthens a record that is not next to
\* the one removed; and every linked name is found.
EntriesKept ==
    skewed = {} =>
        /\ \A n \in 1..Len(blocks) : Sound(n)
        /\ \A name \in Names : Lookup(blocks, name) = linked[name]

\* The first block always stays sound, and always starts with "." and "..": since
\* these are live, what is removed behind them has its neighbour to go to, and no
\* dead record stays, so that all its space comes back.
FirstBlockSound ==
    /\ Sound(1) /\ 1 \notin skewed
    /\ blocks[1][0].name = "." /\ blocks[1][0].inode = Self
    /\ blocks[1][Need["."]].name = ".." /\ blocks[1][Need["."]].inode \in Parents
    /\ \A u \in Records(blocks[1]) : u \in Live(blocks[1])

\* A name that was unlinked is not found any more: what the test
\* unlink_frees_space (tests/fs_ops.rs:89) expects of lookup.
UnlinkedIsGone ==
    Readable(blocks) => \A name \in Names : linked[name] = 0 => Lookup(blocks, name) = 0
=============================================================================
