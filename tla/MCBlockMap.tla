----------------------------- MODULE MCBlockMap -----------------------------
(* Small pools for TLC: two cells to a block, one direct pointer, so that  *)
(* one file has seven logical blocks over all three levels of its map.     *)
EXTENDS BlockMapRefinement

OneDatum   == {9}

\* One file over all three levels, and past the last block a map reaches; cuts within
\* and at the end of a block, and reads that fail in them.
DeepOffsets == {0, 6, 13}
DeepLengths == {4}
DeepSizes   == {0, 3, 15, 17}
CutFaults   == {"truncate", "mkdir"}

\* Two files and a growing root directory that compete for blocks, and reads that
\* fail in every operation.
WideOffsets == {6}
WideLengths == {1, 2}
WideSizes   == {1}

\* A write that fits, and one that runs out of space half way.
FullOffsets == {0}
FullLengths == {4, 12}
FullSizes   == {0}

NoFaults    == {}
AllFaults   == OpKinds \cup {"mkdir"}
=============================================================================
