------------------------------ MODULE Namespace ------------------------------
(* The tree of directories (src/fs/album.rs): create, mkdir, unlink, rmdir  *)
(* and rename over the inode table, the bitmap and the directory blocks,    *)
(* and what an operation that fails or a process that ends half way leaves. *)
(*                                                                          *)
(* An operation looks everything up before it changes anything; from then   *)
(* on it is a list of changes, `todo`, ending in the carriers that sync     *)
(* writes.  It can fail where it allocates a block, where it saves a        *)
(* carrier, and at the two reads that no lookup made before: a file's       *)
(* pointer blocks when it is freed, and the block with the ".." of a        *)
(* directory that rename moves.  How records share a block is the module    *)
(* Directory; a block has room for `Room` names here.  Files are empty:     *)
(* their blocks, and which of them a failed free has given back, are the    *)
(* module BlockMap.                                                         *)
EXTENDS Naturals, Sequences, FiniteSets, FiniteSetsExt, SequencesExt

CONSTANTS
    InodeCount,     \* inodes of the table, at most 2^64
    NBlocks,        \* blocks of the data region
    Names,          \* names that callers use, other than "." and ".."
    LongNames,      \* those of more than 255 bytes, which no record holds
    Room,           \* names that fit into one directory block
    MaxFaults,      \* bound: carriers that cannot be saved, or be read by unlink and rename
    Layouts         \* number of carriers, which of them hold the bitmap, the inode table
                    \* and the blocks, and which cannot be read

Root   == 1
Inos   == 1..InodeCount
Blocks == 1..NBlocks

ASSUME NamespaceAssumption ==
    /\ InodeCount \in Nat \ {0} /\ NBlocks \in Nat \ {0}
    /\ LongNames \subseteq Names
    /\ Room \in Nat \ {0} /\ MaxFaults \in Nat
    /\ \A h \in Layouts : /\ h.carriers \in Nat /\ h.bitmap \in 1..h.carriers /\ h.table \in 1..h.carriers
                          /\ h.block \in [Blocks -> 1..h.carriers]
                          /\ h.broken \subseteq (h.table + 1)..h.carriers /\ h.bitmap <= h.table
                          /\ \A b \in Blocks : h.table <= h.block[b]

VARIABLES
    inode,          \* the inode table
    bitmap,         \* blocks marked as in use
    data,           \* the directory blocks: parent entry and names
    disk,           \* the three as the carriers hold them
    todo,           \* what is left of the running operation
    orphans,        \* history: inodes that a failed create, mkdir or unlink left without a name
    stale,          \* history: directories whose ".." a failed rename did not set
    miscounted,     \* history: directories whose links a failed rename did not count
    whole,          \* history: the carriers are of one sync
    torn,           \* history: the process ended when they were not
    faults,         \* how many of these there were
    home            \* which carrier holds what, and cannot be read

vars == <<inode, bitmap, data, disk, todo, orphans, stale, miscounted, whole, torn, faults, home>>

FreeInode == [kind |-> "free", nlink |-> 0, blocks |-> <<>>]
ZeroBlock == [dotdot |-> 0, names |-> [n \in Names |-> 0]]

Image == [inode : [Inos -> [kind   : {"free", "file", "dir"},
                            nlink  : Nat,
                            blocks : Seq(Blocks)]],
          bitmap  : SUBSET Blocks,
          data    : [Blocks -> [dotdot : {0} \cup Inos, names : [Names -> {0} \cup Inos]]],
          orphans : SUBSET Inos, stale : SUBSET Inos, miscounted : SUBSET Inos]

Memory == [inode |-> inode, bitmap |-> bitmap, data |-> data,
           orphans |-> orphans, stale |-> stale, miscounted |-> miscounted]

\* The state after format, which makes the root directory and syncs.
Init ==
    /\ inode = [i \in Inos |-> IF i = Root THEN [kind |-> "dir", nlink |-> 2, blocks |-> <<1>>]
                                           ELSE FreeInode]
    /\ bitmap = {1}
    /\ data = [b \in Blocks |-> IF b = 1 THEN [ZeroBlock EXCEPT !.dotdot = Root] ELSE ZeroBlock]
    /\ orphans = {} /\ stale = {} /\ miscounted = {}
    /\ disk = Memory
    /\ todo = <<>> /\ whole = TRUE /\ torn = FALSE /\ faults = 0
    /\ home \in Layouts

-----------------------------------------------------------------------------
(* What the operations read                                                *)

Live  == {i \in Inos : inode[i].kind # "free"}
Dirs  == {i \in Inos : inode[i].kind = "dir"}
BlocksOf(i) == ToSet(inode[i].blocks)

\* The places that name inode i: directory, block and name.
Links(i) == {l \in UNION {{d} \X BlocksOf(d) \X Names : d \in Dirs} : data[l[2]].names[l[3]] = i}

\* lookup: the inode of a name in directory d, or 0.
Lookup(d, n) ==
    LET found == {b \in BlocksOf(d) : data[b].names[n] # 0}
    IN  IF found = {} THEN 0 ELSE data[CHOOSE b \in found : TRUE].names[n]

IsEmpty(d) == \A n \in Names : Lookup(d, n) = 0

Parent(d) == data[Head(inode[d].blocks)].dotdot

\* Mutant: the scan goes one inode too far.
FreeInosPastEnd == (1..InodeCount + 1) \ Live

\* alloc_inode and alloc_from take the first that is free.
FreeInos == Inos \ Live

FreeBlocks == Blocks \ bitmap

\* allocate_block marks the first free block and then writes it, for which its
\* carrier has to be loaded.
CanAllocate == FreeBlocks # {} /\ home.block[Min(FreeBlocks)] \notin home.broken
FailsToAllocate ==
    /\ ~CanAllocate
    /\ bitmap' = IF FreeBlocks = {} THEN bitmap ELSE bitmap \cup {Min(FreeBlocks)}

\* The bitmap and the inode table are loaded at mount, the other carriers at the
\* first read of one of their blocks; which were loaded since is left open.
MayNotLoad(b) == home.block[b] \notin {home.bitmap, home.table}

\* What the kernel lets through: directories that it got from a lookup, and no
\* directory moved to or below itself (the code tests neither).  The kernel knows
\* the tree by the names in it, not by "..".
Known(d) == d = Root \/ (d \in Dirs /\ Links(d) # {})

\* The directory that names d; the root has none.
Up(d) == IF Links(d) = {} THEN d ELSE (CHOOSE l \in Links(d) : TRUE)[1]

Above(d) ==
    LET up[k \in 0..InodeCount] == IF k = 0 THEN d ELSE Up(up[k - 1])
    IN  {up[k] : k \in 0..InodeCount}

Allowed(i, d) == i \notin Above(d)

-----------------------------------------------------------------------------
(* The operations as lists of changes                                      *)

Sync == [c \in 1..home.carriers |-> [do |-> "flush", carrier |-> c]]

Idle == todo = <<>> /\ ~torn

Begin(plan) ==
    /\ todo' = plan
    /\ UNCHANGED <<inode, bitmap, data, disk, orphans, stale, miscounted, whole, torn, faults, home>>

Create(p, n) ==
    /\ Idle /\ Known(p) /\ Lookup(p, n) = 0 /\ FreeInos # {}
    /\ LET i == Min(FreeInos)
       IN  Begin(<<[do |-> "file", ino |-> i], [do |-> "link", dir |-> p, name |-> n, ino |-> i]>> \o Sync)

\* Mutant: the name is added before the inode is there.
MkdirNameFirst(p, n) ==
    /\ Idle /\ Known(p) /\ Lookup(p, n) = 0 /\ FreeInos # {}
    /\ LET i == Min(FreeInos)
       IN  Begin(<<[do |-> "link", dir |-> p, name |-> n, ino |-> i],
                   [do |-> "dir", ino |-> i, parent |-> p],
                   [do |-> "more", ino |-> p]>> \o Sync)

Mkdir(p, n) ==
    /\ Idle /\ Known(p) /\ Lookup(p, n) = 0 /\ FreeInos # {}
    /\ LET i == Min(FreeInos)
       IN  Begin(<<[do |-> "dir", ino |-> i, parent |-> p],
                   [do |-> "link", dir |-> p, name |-> n, ino |-> i],
                   [do |-> "more", ino |-> p]>> \o Sync)

UnlinkPlan(p, n) ==
    <<[do |-> "remove", dir |-> p, name |-> n], [do |-> "drop", ino |-> Lookup(p, n)]>> \o Sync

Unlink(p, n) ==
    /\ Idle /\ Known(p) /\ Lookup(p, n) \in Live \ Dirs
    /\ Begin(UnlinkPlan(p, n))

\* Mutant: the parent keeps the link that ".." was.
RmdirPlanKeepsCount(p, n) ==
    <<[do |-> "remove", dir |-> p, name |-> n], [do |-> "free", ino |-> Lookup(p, n)]>> \o Sync

RmdirPlan(p, n) ==
    <<[do |-> "remove", dir |-> p, name |-> n], [do |-> "free", ino |-> Lookup(p, n)],
      [do |-> "less", ino |-> p]>> \o Sync

Rmdir(p, n) ==
    /\ Idle /\ Known(p) /\ Lookup(p, n) \in Dirs /\ IsEmpty(Lookup(p, n))
    /\ Begin(RmdirPlan(p, n))

\* The directory entry ".." and the link counts follow a directory to its new parent.
MovePlan(i, p, q) ==
    IF inode[i].kind = "dir" /\ p # q
    THEN <<[do |-> "dotdot", ino |-> i, parent |-> q], [do |-> "less", ino |-> p], [do |-> "more", ino |-> q]>>
    ELSE <<>>

\* Mutant: the target of a rename stays where it is.
ReplacePlanNothing(i, q, m) == <<>>

\* A target of the same kind is removed, and that is synced, before the rename.
ReplacePlan(i, q, m) ==
    IF Lookup(q, m) = 0 THEN <<>>
    ELSE IF inode[i].kind = "dir" THEN RmdirPlan(q, m) ELSE UnlinkPlan(q, m)

Replaceable(i, t) ==
    \/ t = 0
    \/ t \in Live /\ t # i /\ inode[t].kind = inode[i].kind /\ (t \in Dirs => IsEmpty(t))

Rename(p, n, q, m) ==
    /\ Idle /\ Known(p) /\ Known(q) /\ <<p, n>> # <<q, m>>
    /\ LET i == Lookup(p, n)
       IN  /\ i \in Live /\ Allowed(i, q) /\ Replaceable(i, Lookup(q, m))
           /\ Begin(ReplacePlan(i, q, m)
                    \o <<[do |-> "link", dir |-> q, name |-> m, ino |-> i],
                         [do |-> "remove", dir |-> p, name |-> n]>>
                    \o MovePlan(i, p, q) \o Sync)

-----------------------------------------------------------------------------
(* The changes                                                             *)

Doing(what) == todo # <<>> /\ Head(todo).do = what
Advance     == todo' = Tail(todo) /\ UNCHANGED <<disk, orphans, whole, torn, faults, home>>
Step        == Advance /\ UNCHANGED <<stale, miscounted>>

\* The error return: the rest of the operation does not happen.
GiveUp ==
    /\ todo' = <<>>
    /\ UNCHANGED <<inode, data, disk, whole, torn, home>>

Fault == faults < MaxFaults /\ faults' = faults + 1

WriteFileInode ==
    /\ Doing("file") /\ Step
    /\ inode' = [inode EXCEPT ![Head(todo).ino] = [kind |-> "file", nlink |-> 1, blocks |-> <<>>]]
    /\ UNCHANGED <<bitmap, data>>

MakeDirectory ==
    /\ Doing("dir") /\ CanAllocate /\ Step
    /\ LET b == Min(FreeBlocks)
       IN  /\ bitmap' = bitmap \cup {b}
           /\ data' = [data EXCEPT ![b] = [ZeroBlock EXCEPT !.dotdot = Head(todo).parent]]
           /\ inode' = [inode EXCEPT ![Head(todo).ino] = [kind |-> "dir", nlink |-> 2, blocks |-> <<b>>]]

\* Blocks of directory d, by their place in it, with room for one more name.
Roomy(d) == {k \in DOMAIN inode[d].blocks :
                Cardinality({n \in Names : data[inode[d].blocks[k]].names[n] # 0}) < Room}

LinkInRoom ==
    /\ Doing("link") /\ Head(todo).name \notin LongNames /\ Roomy(Head(todo).dir) # {} /\ Step
    /\ LET e == Head(todo)
           b == inode[e.dir].blocks[Min(Roomy(e.dir))]
       IN  data' = [data EXCEPT ![b].names[e.name] = e.ino]
    /\ UNCHANGED <<inode, bitmap>>

LinkInNewBlock ==
    /\ Doing("link") /\ Head(todo).name \notin LongNames /\ Roomy(Head(todo).dir) = {} /\ CanAllocate
    /\ Step
    /\ LET e == Head(todo)
           b == Min(FreeBlocks)
       IN  /\ bitmap' = bitmap \cup {b}
           /\ data' = [data EXCEPT ![b] = [ZeroBlock EXCEPT !.names[e.name] = e.ino]]
           /\ inode' = [inode EXCEPT ![e.dir].blocks = Append(@, b)]

\* add_dir_entry refuses the name or gets no block.
LinkFails ==
    /\ Doing("link")
    /\ \/ Head(todo).name \in LongNames /\ UNCHANGED bitmap
       \/ Head(todo).name \notin LongNames /\ Roomy(Head(todo).dir) = {} /\ FailsToAllocate
    /\ orphans' = orphans \cup {i \in {Head(todo).ino} : Links(i) = {}}
    /\ GiveUp /\ UNCHANGED <<stale, miscounted, faults>>

MakeDirectoryFails ==
    /\ Doing("dir") /\ FailsToAllocate
    /\ GiveUp /\ UNCHANGED <<orphans, stale, miscounted, faults>>

RemoveName ==
    /\ Doing("remove") /\ Step
    /\ LET e == Head(todo)
           b == CHOOSE x \in BlocksOf(e.dir) : data[x].names[e.name] # 0
       IN  data' = [data EXCEPT ![b].names[e.name] = 0]
    /\ UNCHANGED <<inode, bitmap>>

\* free_all_blocks and free_inode; unlink only when no link is left.  What a free
\* block holds is never read, since allocate_block zeroes it; here it is zeroed
\* when it is freed.
FreeInodeAndBlocks ==
    /\ Doing("free") \/ (Doing("drop") /\ inode[Head(todo).ino].nlink <= 1)
    /\ Advance
    /\ stale' = stale \ {Head(todo).ino} /\ miscounted' = miscounted \ {Head(todo).ino}
    /\ bitmap' = bitmap \ BlocksOf(Head(todo).ino)
    /\ inode' = [inode EXCEPT ![Head(todo).ino] = FreeInode]
    /\ data' = [b \in Blocks |-> IF b \in BlocksOf(Head(todo).ino) THEN ZeroBlock ELSE data[b]]

\* free_all_blocks cannot read a pointer block of the file, which has lost its name;
\* a directory's were all read by readdir when rmdir found it empty.
FreeFails ==
    /\ Doing("drop") /\ inode[Head(todo).ino].nlink <= 1 /\ \E b \in Blocks : MayNotLoad(b)
    /\ orphans' = orphans \cup {Head(todo).ino}
    /\ Fault /\ GiveUp /\ UNCHANGED <<bitmap, stale, miscounted>>

CountLinks ==
    /\ Doing("more") \/ Doing("less")
    /\ Step
    /\ inode' = [inode EXCEPT ![Head(todo).ino].nlink =
                    IF Head(todo).do = "more" THEN @ + 1 ELSE IF @ = 0 THEN 0 ELSE @ - 1]
    /\ UNCHANGED <<bitmap, data>>

\* Mutant: the moved directory keeps its old parent.
UpdateDotdotNot ==
    /\ Doing("dotdot") /\ Step
    /\ UNCHANGED <<inode, bitmap, data>>

UpdateDotdot ==
    /\ Doing("dotdot") /\ Advance
    /\ data' = [data EXCEPT ![Head(inode[Head(todo).ino].blocks)].dotdot = Head(todo).parent]
    /\ stale' = stale \ {Head(todo).ino}
    /\ UNCHANGED <<inode, bitmap, miscounted>>

\* The block with the ".." cannot be read: the directory has moved, and the rest of
\* the rename, which counts the links of the old and the new parent, does not happen.
UpdateDotdotFails ==
    /\ Doing("dotdot") /\ MayNotLoad(Head(inode[Head(todo).ino].blocks))
    /\ stale' = stale \cup {Head(todo).ino}
    /\ miscounted' = miscounted \cup {e.ino : e \in {f \in ToSet(todo) : f.do \in {"less", "more"}}}
    /\ Fault /\ GiveUp /\ UNCHANGED <<bitmap, orphans>>

-----------------------------------------------------------------------------
(* Carriers and the end of the process                                     *)

\* Mutant: flush without write_bitmap before it.
WriteCarrierOldBitmap(c) ==
    [inode   |-> IF home.table  = c THEN inode  ELSE disk.inode,
     bitmap  |-> disk.bitmap,
     data    |-> [b \in Blocks |-> IF home.block[b] = c THEN data[b] ELSE disk.data[b]],
     orphans |-> IF home.table  = c THEN orphans ELSE disk.orphans,
     stale   |-> IF home.table  = c THEN stale   ELSE disk.stale,
     miscounted |-> IF home.table = c THEN miscounted ELSE disk.miscounted]

\* The carriers once carrier c is saved: write_bitmap put the bitmap there first.
WriteCarrier(c) ==
    [inode   |-> IF home.table  = c THEN inode  ELSE disk.inode,
     bitmap  |-> IF home.bitmap = c THEN bitmap ELSE disk.bitmap,
     data    |-> [b \in Blocks |-> IF home.block[b] = c THEN data[b] ELSE disk.data[b]],
     orphans |-> IF home.table  = c THEN orphans ELSE disk.orphans,
     stale   |-> IF home.table  = c THEN stale   ELSE disk.stale,
     miscounted |-> IF home.table = c THEN miscounted ELSE disk.miscounted]

Flush ==
    /\ Doing("flush")
    /\ disk' = WriteCarrier(Head(todo).carrier)
    /\ whole' = (disk' = Memory \/ (whole /\ disk' = disk))
    /\ todo' = Tail(todo)
    /\ UNCHANGED <<inode, bitmap, data, orphans, stale, miscounted, torn, faults, home>>

\* A carrier cannot be saved: an error after everything was changed in memory.
FlushFails ==
    /\ Doing("flush")
    /\ Fault /\ GiveUp /\ UNCHANGED <<bitmap, orphans, stale, miscounted>>

\* The process ends, at any point, and another one opens the carriers.
Reopen ==
    /\ ~torn
    /\ inode' = disk.inode /\ bitmap' = disk.bitmap /\ data' = disk.data
    /\ orphans' = disk.orphans /\ stale' = disk.stale /\ miscounted' = disk.miscounted
    /\ todo' = <<>>
    /\ torn' = ~whole
    /\ UNCHANGED <<disk, whole, faults, home>>

\* What is done with carriers of different syncs is not modelled.
Abandoned == torn /\ UNCHANGED vars

Next ==
    \/ \E p \in Inos, n \in Names : Create(p, n) \/ Mkdir(p, n) \/ Unlink(p, n) \/ Rmdir(p, n)
    \/ \E p, q \in Inos, n, m \in Names : Rename(p, n, q, m)
    \/ WriteFileInode \/ MakeDirectory \/ MakeDirectoryFails
    \/ LinkInRoom \/ LinkInNewBlock \/ LinkFails
    \/ RemoveName \/ FreeInodeAndBlocks \/ FreeFails \/ CountLinks
    \/ UpdateDotdot \/ UpdateDotdotFails
    \/ Flush \/ FlushFails \/ Reopen \/ Abandoned

Spec == Init /\ [][Next]_vars

-----------------------------------------------------------------------------
(* Properties                                                              *)

\* The variables have their types; the tree never outgrows the tables.
TypeOK ==
    /\ Memory \in Image /\ disk \in Image
    /\ whole \in BOOLEAN /\ torn \in BOOLEAN
    /\ faults \in 0..MaxFaults /\ home \in Layouts

\* Between operations every inode in use, other than the root, is named by one
\* entry, and by none only if its create or mkdir failed at add_dir_entry or
\* its unlink at free_all_blocks; and no directory has a name twice.  No other
\* failure, no failed save and no restart leaks, doubles or hides a file.
NamedOnce ==
    Idle => /\ \A i \in Live \ {Root} : Cardinality(Links(i)) = IF i \in orphans THEN 0 ELSE 1
            /\ \A d \in Dirs : \A b, c \in BlocksOf(d) : \A n \in Names :
                  data[b].names[n] # 0 /\ data[c].names[n] # 0 => b = c

\* The changes come in an order in which no directory ever names an inode that is
\* not in use: the inode is written before its name, the name removed before
\* the inode is freed, also in the middle of a rename that replaces.
NoDangling ==
    ~torn => \A d \in Dirs : \A b \in BlocksOf(d) : \A n \in Names : data[b].names[n] \in {0} \cup Live

\* Between operations going up from a named directory, by the names, ends at the
\* root, and ".." is the directory that names it: renames keep the tree a tree.
\* Only ".." of a directory whose update_dotdot failed is another, until a
\* later rename sets it.
TreeSound ==
    Idle => /\ Parent(Root) = Root
            /\ \A d \in Dirs \ ({Root} \cup orphans) :
                  /\ d \notin stale => \A l \in Links(d) : l[1] = Parent(d)
                  /\ Root \in Above(d)

\* Between operations a directory has two links and one for each directory in it,
\* as mkdir, rmdir and rename between directories count them; all but the two
\* parents of a directory whose update_dotdot failed.
LinksCounted ==
    Idle => \A d \in Dirs \ miscounted :
                inode[d].nlink = 2 + Cardinality({c \in Dirs \ {Root} : \E l \in Links(c) : l[1] = d})

\* When the bitmap and the inode table are in one carrier, every block of an
\* inode in use is marked and has one owner, also after a crash between the
\* saves of two carriers: the next allocation overwrites nothing.
MetadataAgrees ==
    home.table = home.bitmap =>
        \A i \in Live : /\ BlocksOf(i) \subseteq bitmap
                        /\ \A j \in Live \ {i} : BlocksOf(i) \cap BlocksOf(j) = {}
=============================================================================
