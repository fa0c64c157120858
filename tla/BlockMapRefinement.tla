------------------------- MODULE BlockMapRefinement -------------------------
(* The file layer implements FileSpec: the content of a file is what the   *)
(* stored inode reaches, and the inode of a running operation is hidden.   *)
EXTENDS BlockMap

MaxCells == MaxIndex * P

\* A file as its callers see it, and the request that runs.
AsSeen(n, b) ==
    [mode |-> n.mode, size |-> n.size, cell |-> [c \in 0..MaxCells-1 |-> CellAt(n, b, c)]]
SeenFiles   == [i \in Ino |-> AsSeen(inode[i], blk)]
SeenRequest == [kind |-> op.kind, ino |-> op.ino, lo |-> op.lo, hi |-> op.hi, val |-> op.val]

Files ==
    INSTANCE FileSpec WITH
        File <- Ino, DirCells <- P, file <- SeenFiles, pending <- SeenRequest

\* Reads see, at every moment and after every failure, files as FileSpec has
\* them: a write, truncate or unlink changes the cells of its range only, to
\* the values it was given, holes read as zero, and success means all of it.
ImplementsFiles == Files!Spec

-----------------------------------------------------------------------------
(* What relates the inode in the table, which callers see, to the copy     *)

\* What is read in cell k of the logical block at location l.
Read(n, b, l, k) == IF PtrOf(n, b, l) = 0 THEN 0 ELSE b[PtrOf(n, b, l)][k]

\* A write has put its value in its range as far as it has come, and nothing else differs
\* between the two.
Written ==
    op.kind \in {"write", "grow"} =>
        /\ \A l \in LeafLocs, k \in Cells :
              IF IndexOf(l) * P + k \in op.lo..op.hi-1
              THEN IndexOf(l) < op.index => Read(op.local, blk, l, k) = op.val
              ELSE Read(op.local, blk, l, k) = Read(inode[op.ino], blk, l, k)
        /\ op.lo < op.hi /\ op.index > MaxIndex => More

\* A pointer that a removal has taken from its copy, and that the table still has, is to a
\* block that is free, and is not a pointer to anything that will be kept.
Retained ==
    op.kind \in {"truncate", "unlink"} =>
        /\ op.index >= BlocksFor(op.lo)
        /\ \A l \in Locs :
              PtrOf(inode[op.ino], blk, l) # PtrOf(op.local, blk, l) =>
                  /\ PtrOf(op.local, blk, l) = 0 /\ PtrOf(inode[op.ino], blk, l) \in FreeBlocks
                  /\ l \in LeafLocs => IndexOf(l) >= BlocksFor(op.lo)

\* An operation changes neither mode nor size before its end; a directory grows by blocks.
Unfinished ==
    /\ op.kind = "idle" => op = Idle
    /\ op.kind # "idle" =>
          /\ op.local.mode = inode[op.ino].mode /\ op.local.size = inode[op.ino].size
          /\ op.kind = "grow" => op.local.mode = "dir" /\ op.hi = op.lo + P /\ op.lo = op.local.size
          /\ op.kind = "write" => op.local.mode = "file"
          /\ op.kind = "truncate" => op.local.mode = "file"
    /\ \A i \in Ino : inode[i].mode = "dir" => inode[i].size = BlocksFor(inode[i].size) * P

SeenInv == Written /\ Retained /\ Unfinished
=============================================================================
