------------------------------ MODULE FileSpec ------------------------------
(***************************************************************************)
(* What the file layer promises its callers: a file is a size and an array *)
(* of cells, and there are no blocks.  One request runs at a time.  A      *)
(* request may take effect cell by cell, but only inside its own range and *)
(* only towards its result; at its end all of the range shows the result,  *)
(* or it was abandoned and shows some of it.                               *)
(***************************************************************************)
EXTENDS Integers

CONSTANTS
    File,      \* the inodes
    MaxCells,  \* cells that a file can hold
    DirCells,  \* cells of a directory's first block
    DirData    \* a cell of a directory's entries

VARIABLES
    file,     \* the files: mode, size and cells
    pending   \* the request that runs

vars == <<file, pending>>

Positions == 0..MaxCells-1
Absent    == [mode |-> "free", size |-> 0, cell |-> [c \in Positions |-> 0]]
NoRequest == [kind |-> "idle", ino |-> 1, lo |-> 0, hi |-> 0, val |-> 0]

Init ==
    /\ \E f \in File :
          file = [i \in File |->
                    IF i = f
                    THEN [mode |-> "dir", size |-> DirCells,
                          cell |-> [c \in Positions |-> IF c < DirCells THEN DirData ELSE 0]]
                    ELSE Absent]
    /\ pending = NoRequest

\* A file appears empty, a directory with its first entries.
Appear(i) ==
    /\ pending = NoRequest
    /\ file[i] = Absent
    /\ \/ file' = [file EXCEPT ![i].mode = "file"]
       \/ file' = [file EXCEPT ![i] =
                     [mode |-> "dir", size |-> DirCells,
                      cell |-> [c \in Positions |-> IF c < DirCells THEN DirData ELSE 0]]]
    /\ UNCHANGED pending

\* A longer size changes no cell.
Lengthen(i) ==
    /\ pending = NoRequest
    /\ file[i].mode = "file"
    /\ file' = [file EXCEPT ![i].size = file'[i].size] /\ file'[i].size >= file[i].size
    /\ UNCHANGED pending

Request(i) ==
    /\ pending = NoRequest
    /\ pending' = [pending' EXCEPT !.ino = i]
    /\ \/ pending'.kind = "write"    /\ file[i].mode = "file"
       \/ pending'.kind = "grow"     /\ file[i].mode = "dir" /\ pending'.lo = file[i].size
       \/ pending'.kind = "truncate" /\ file[i].mode = "file" /\ pending'.lo < file[i].size
       \/ pending'.kind = "unlink"   /\ file[i].mode # "free" /\ pending'.lo = 0
    /\ UNCHANGED file

Writing == pending.kind \in {"write", "grow"}
Goal    == IF Writing THEN pending.val ELSE 0
Reach   == {c \in Positions : c >= pending.lo /\ (Writing => c < pending.hi)}

\* The cells of the file on which the request runs, and no others, move, each to the
\* value the request gives it.
Towards(i, cell) ==
    /\ \A c \in Positions \ Reach : cell[c] = file[i].cell[c]
    /\ \A c \in Reach : cell[c] \in {file[i].cell[c], Goal}

Progress(i) ==
    /\ pending # NoRequest /\ i = pending.ino
    /\ file' = [file EXCEPT ![i].cell = file'[i].cell]
    /\ Towards(i, file'[i].cell)
    /\ UNCHANGED pending

\* The whole range shows the result, and the size is the new one.
Commit(i) ==
    /\ pending # NoRequest /\ i = pending.ino
    /\ pending' = NoRequest
    /\ file' = [file EXCEPT ![i] = file'[i]]
    /\ IF pending.kind = "unlink" THEN file'[i] = Absent
       ELSE /\ Towards(i, file'[i].cell)
            /\ \A c \in Reach : c < pending.hi => file'[i].cell[c] = Goal
            /\ file'[i].mode = file[i].mode
            /\ Writing /\ pending.lo < pending.hi => pending.hi <= MaxCells
            /\ file'[i].size = IF Writing /\ pending.hi <= file[i].size THEN file[i].size
                               ELSE IF Writing THEN pending.hi ELSE pending.lo

\* An error: what was done stays, size and mode do not change.
Abandon == pending # NoRequest /\ pending' = NoRequest /\ UNCHANGED file

Next == Abandon \/ \E i \in File :
            Appear(i) \/ Lengthen(i) \/ Request(i) \/ Progress(i) \/ Commit(i)

Spec == Init /\ [][Next]_vars
=============================================================================
