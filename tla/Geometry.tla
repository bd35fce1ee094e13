------------------------------ MODULE Geometry ------------------------------
(***************************************************************************)
(* Bytes, blocks and cache chunks of a device (block/mod.rs, cache.rs).    *)
(* Everything is a range of byte addresses: block l is the bytes           *)
(* BytesOf(l, 1), and a buffer is a function from the addresses it covers  *)
(* to values.                                                              *)
(***************************************************************************)
EXTENDS Integers, FiniteSets

CONSTANTS
    BlockSize,    \* bytes in a block
    TotalBlocks,  \* blocks on the device
    ChunkBlocks,  \* blocks in a chunk of the cache
    Word          \* 2^32: sizes are kept in u32

ASSUME GeometryAssumption ==
    /\ BlockSize \in Nat \ {0}
    /\ TotalBlocks \in Nat \ {0}
    /\ ChunkBlocks \in Nat \ {0}
    /\ Word \in Nat \ {0}

TotalBytes == TotalBlocks * BlockSize

Lba  == 0 .. TotalBlocks - 1
Byte == 0 .. TotalBytes - 1

Lesser(a, b) == IF a <= b THEN a ELSE b

BytesOf(lba, count) == lba * BlockSize .. (lba + count) * BlockSize - 1

BlockOf(byte) == byte \div BlockSize

\* compute_alignment: the blocks that cover size bytes from offset.
StartLba(offset) == offset \div BlockSize
EndLba(offset, size) == (offset + size + BlockSize - 1) \div BlockSize
BlockCount(offset, size) == EndLba(offset, size) - StartLba(offset)
Aligned(offset, size) == offset % BlockSize = 0 /\ size % BlockSize = 0

Extent(offset, size) == offset .. offset + size - 1
BlocksOf(offset, size) == StartLba(offset) .. EndLba(offset, size) - 1

\* Fault: a read is clamped one byte short of the end.
ClampReadShort(offset, size) == Lesser(size, (TotalBytes - offset - 1) % Word)

\* handle_read keeps the bytes that are left in a u32, handle_write in a usize.
ClampRead(offset, size) == Lesser(size, (TotalBytes - offset) % Word)
ClampWrite(offset, size) == Lesser(size, TotalBytes - offset)

\* chunk_lba, and the chunks read_blocks and invalidate_range go over.
ChunkLba(lba) == (lba \div ChunkBlocks) * ChunkBlocks
LastChunk(lba, count) == ChunkLba(IF lba + count = 0 THEN 0 ELSE lba + count - 1)
ChunksOf(lba, count) == {ChunkLba(l) : l \in lba .. lba + count - 1}

\* The target has all the blocks of the chunk.
OnDevice(chunk) == chunk + ChunkBlocks <= TotalBlocks
=============================================================================
