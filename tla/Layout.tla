------------------------------- MODULE Layout -------------------------------
(* Where format puts things in a pool of `total` blocks, and where the file *)
(* layer looks for them: block 0 is the superblock (unused in an encrypted  *)
(* pool), then the bitmap, the inode table and the data.  Each of the three *)
(* computations, in format, in write_bitmap with Bitmap::set, and in        *)
(* inode_location, has its own constants; PoolProofs says that they fit.    *)
EXTENDS Integers

UB             == 4032      \* bytes of a block that hold data
INODE_SIZE     == 192
InodesPerBlock == 21        \* the literal in format

DivCeil(a, b) == (a + b - 1) \div b

BitmapStart             == 1
BitmapBlocks(total)     == DivCeil(DivCeil(total, 8), UB)
InodeTableStart(total)  == BitmapStart + BitmapBlocks(total)
InodeCount(total)       == IF total \div 4 > 64 THEN total \div 4 ELSE 64
InodeTableBlocks(total) == DivCeil(InodeCount(total), InodesPerBlock)
DataStart(total)        == InodeTableStart(total) + InodeTableBlocks(total)

\* A pool that format does not refuse as too small.
LargeEnough(total) == DataStart(total) < total

\* inode_location: block, and first byte in it.
InodeBlock(total, ino) == InodeTableStart(total) + (((ino - 1) * INODE_SIZE) \div UB)
InodeOffset(ino)       == ((ino - 1) * INODE_SIZE) % UB

\* Bitmap::set and is_set choose a byte and a bit of it; write_bitmap and
\* load_bitmap cut the bytes into blocks.
ByteOf(lba)     == lba \div 8
BitInByte(lba)  == lba % 8
BitBlock(lba)   == BitmapStart + (ByteOf(lba) \div UB)
BitOffset(lba)  == ByteOf(lba) % UB
=============================================================================
