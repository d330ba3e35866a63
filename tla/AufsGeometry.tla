---------------------------- MODULE AufsGeometry ----------------------------
(***************************************************************************)
(* Where things are on the device: the arithmetic that mkfs and the kernel *)
(* module share.  Block 0 is the super block, then come the zone map, the  *)
(* inode map, the inode table and, rounded up to the alignment, the zones. *)
(***************************************************************************)
EXTENDS Integers

integer_round_up_division(dividend, divisor) ==
  (dividend + divisor - 1) \div divisor

\* CalculateAlignedNumBlocks of mkfs, written out in aufs_new_zone.
AlignUp(blocks, alignment) ==
  integer_round_up_division(blocks, alignment) * alignment

\* j += i * bits_per_block: the number of bit j of map block i.
BitNumber(i, j, bitsPerBlock) == i * bitsPerBlock + j

\* What aufs_new_zone returns for zone n: its first block, from the number of
\* blocks before the zones, the blocks in a zone and the alignment.
ZoneBlockNumber(n, metaBlocks, blocksPerZone, alignment) ==
  n * blocksPerZone + AlignUp(metaBlocks + blocksPerZone, alignment)

\* aufs_inode_block and aufs_inode_offset: the block and the byte of inode no.
aufs_inode_block(no, mapBlocks, inodesInBlock) ==
  1 + mapBlocks + no \div inodesInBlock
aufs_inode_offset(no, inodesInBlock, inodeSize) ==
  inodeSize * (no % inodesInBlock)
=============================================================================
