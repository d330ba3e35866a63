----------------------------- MODULE AufsLayout -----------------------------
(***************************************************************************)
(* The layout of the device: what mkfs.aufs (user/) writes for the         *)
(* arguments it accepts, and what the kernel module (kern/super.c) makes   *)
(* of it when it mounts the device.  The two compute block numbers apart.  *)
(*                                                                         *)
(* Sizes are in bytes.  The byte sizes that the code fixes are CONSTANTS   *)
(* so that TLC can take scaled-down ones; Word is 2^32, the range of the   *)
(* uint32_t product in VerifyDevice.                                       *)
(***************************************************************************)
EXTENDS AufsGeometry, FiniteSets

CONSTANTS
  DeviceSizes,   \* device sizes tried
  ZoneSizes,     \* values of --zonesize tried
  ZoneCounts,    \* values of --nzones tried; 0 is the default
  MaxBlockSize,  \* 4096
  MinZoneSize,   \* 512
  InodeSize,     \* sizeof(struct aufs_inode) = sizeof(struct aufs_disk_inode)
  DirSize,       \* AUFS_DIR_SIZE
  Alignment,     \* num_block_alignment, 1024
  SectorSize,    \* 512
  Word           \* 2^32

ASSUME LayoutAssumption ==
  /\ DeviceSizes \subseteq Nat /\ ZoneSizes \subseteq Nat \ {0} /\ ZoneCounts \subseteq Nat
  /\ {MaxBlockSize, MinZoneSize, InodeSize, DirSize, Alignment, SectorSize, Word}
       \subseteq Nat \ {0}
  /\ InodeSize <= MinZoneSize /\ 2 * DirSize <= MinZoneSize
  /\ MinZoneSize <= MaxBlockSize

VARIABLES
  phase,     \* "start", "parsed", "rejected", "verified", "aborted", ...
  config,    \* mkfs: the Configuration and the size of its device
  dsb,       \* the super block on the device
  zoneMap,   \* zone numbers in use in the zone map on the device
  inodeMap,  \* inode numbers in use in the inode map on the device
  root,      \* where mkfs put the root inode and its zone
  asb,       \* the kernel's struct aufs_super_block
  sbsize,    \* s_blocksize of the kernel's struct super_block
  zmap,      \* the zone numbers in use in the buffer s_zmap
  imap       \* the inode numbers in use in the buffer s_imap

deviceVars == <<dsb, zoneMap, inodeMap, root>>
kernelVars == <<asb, sbsize, zmap, imap>>
vars == <<phase, config, deviceVars, kernelVars>>

Nothing == [none |-> TRUE]
Lesser(a, b) == IF a <= b THEN a ELSE b
Least(S) == CHOOSE n \in S : \A m \in S : n <= m

Init ==
  /\ phase = "start"
  /\ config = Nothing /\ dsb = Nothing /\ root = Nothing /\ asb = Nothing
  /\ zoneMap = {} /\ inodeMap = {} /\ zmap = {} /\ imap = {} /\ sbsize = 0
-----------------------------------------------------------------------------
(***************************************************************************)
(* mkfs.aufs                                                               *)
(***************************************************************************)
\* Both maps have one block (the constants of ParseArgs).
NumInodeMapBlocks == 1
NumZoneMapBlocks == 1
BlockSize(c) == Lesser(c.zoneSize, MaxBlockSize)
InBlock(c) == BlockSize(c) \div InodeSize

\* The constructor: no more zones than the zone map has bits.
Configuration(device, zones, zoneSize) ==
  [device |-> device, zoneSize |-> zoneSize,
   numZones |-> Lesser(NumZoneMapBlocks * Lesser(zoneSize, MaxBlockSize) * 8, zones)]

\* Without --nzones (0) as many zones as the device has room for.
ParseArgs(device, zones, zoneSize) ==
  /\ phase = "start"
  /\ phase' = "parsed"
  /\ config' = Configuration(device, IF zones = 0 THEN device \div zoneSize ELSE zones, zoneSize)
  /\ UNCHANGED <<deviceVars, kernelVars>>

\* CountInodeEntryBlocks.
NumInodeEntryBlocks(c) ==
  integer_round_up_division(
    Lesser(c.numZones, NumInodeMapBlocks * BlockSize(c) * 8), InBlock(c))

\* Halve while the rest is above 1 and even.
IsPowerOfTwo(n) ==
  LET halves[k \in 0 .. n] == k <= 1 \/ (k % 2 = 0 /\ halves[k \div 2])
  IN halves[n]
VerifyZoneSize(c) == c.zoneSize >= MinZoneSize /\ IsPowerOfTwo(c.zoneSize)
VerifyZones(c) == c.numZones > 3
VerifyDevice(c) == c.device >= (c.numZones * c.zoneSize) % Word

VerifyConfiguration ==
  /\ phase = "parsed"
  /\ phase' = IF VerifyZoneSize(config) /\ VerifyZones(config) /\ VerifyDevice(config)
                THEN "verified" ELSE "rejected"
  /\ UNCHANGED <<config, deviceVars, kernelVars>>

\* Bit 0 is in use, the bits up to the number of objects are free, and those
\* from there to the end of the map are in use (FillZoneMap, FillInodeMap).
FillMap(objects, bits) == {0} \cup objects .. bits - 1

ZoneMapBits(c) == NumZoneMapBlocks * BlockSize(c) * 8
MappedZones(c) == Lesser(c.numZones, ZoneMapBits(c))
FillZoneMap(c) == FillMap(MappedZones(c), ZoneMapBits(c))

\* num_inodes.  The variant has all the bits of the map, with or without a record.
InodeMapBits(c) == NumInodeMapBlocks * BlockSize(c) * 8
num_inodesAllBits(c) == InodeMapBits(c)
num_inodes(c) == Lesser(NumInodeEntryBlocks(c) * InBlock(c), InodeMapBits(c))
FillInodeMap(c) == FillMap(num_inodes(c), InodeMapBits(c))

\* AllocateInode takes the first free inode number, AllocateZones the first run
\* of n free zone numbers.
AllocateInode(c) == Least((0 .. InodeMapBits(c) - 1) \ FillInodeMap(c))
AllocateZones(c, n) ==
  Least({z \in 0 .. ZoneMapBits(c) - n : (z .. z + n - 1) \cap FillZoneMap(c) = {}})

\* FillSuper.  The zone map's length is written from NumInodeMapBlocks.
FillSuper(c) ==
  [zone_size |-> c.zoneSize, inode_blocks |-> NumInodeEntryBlocks(c),
   inode_map_blocks |-> NumInodeMapBlocks, zone_map_blocks |-> NumInodeMapBlocks,
   alignment_num_blocks |-> Alignment, root_inode |-> 1]

\* Inode::FillInode: where mkfs puts an inode.
InodeBlock(c, no) == no \div InBlock(c) + 1 + NumInodeMapBlocks + NumZoneMapBlocks
InodeOffset(c, no) == (no % InBlock(c)) * InodeSize

\* MkRootDir: inode 1, zone 1 and its block number.
RootBlock(c) ==
  c.zoneSize \div BlockSize(c) +
    AlignUp(NumInodeMapBlocks + NumInodeEntryBlocks(c) + NumZoneMapBlocks + 1, Alignment)

RootZones(c) == integer_round_up_division(2 * DirSize, c.zoneSize)

\* The assertions of MkRootDir: the allocators answer 1.
MkRootDirAsserts(c) == AllocateInode(c) = 1 /\ AllocateZones(c, RootZones(c)) = 1

\* The entries that MkRootDir writes into the root directory.
RootEntries == <<".", "..", ".badblocks">>

Format ==
  /\ phase = "verified" /\ MkRootDirAsserts(config)
  /\ phase' = "formatted"
  /\ dsb' = FillSuper(config)
  /\ inodeMap' = FillInodeMap(config) \cup {AllocateInode(config)}
  /\ zoneMap' = FillZoneMap(config) \cup
       {AllocateZones(config, RootZones(config)) + k : k \in 0 .. RootZones(config) - 1}
  /\ root' = [block |-> InodeBlock(config, 1), offset |-> InodeOffset(config, 1),
              zone_ptr |-> RootBlock(config), entries |-> RootEntries]
  /\ UNCHANGED <<config, kernelVars>>

\* An assertion fails: abort() leaves the device as it was.
Abort ==
  /\ phase = "verified" /\ ~MkRootDirAsserts(config)
  /\ phase' = "aborted"
  /\ UNCHANGED <<config, deviceVars, kernelVars>>
-----------------------------------------------------------------------------
(***************************************************************************)
(* The kernel                                                              *)
(***************************************************************************)
\* aufs_super_block_fill.  block_size is computed before asb_zone_size is read
\* from the device, so it is always 4096.
aufs_super_block_fill(d) ==
  [zone_size |-> d.zone_size, inode_blocks |-> d.inode_blocks,
   inode_map_blocks |-> d.inode_map_blocks, zone_map_blocks |-> d.zone_map_blocks,
   alignment_num_blocks |-> d.alignment_num_blocks, root_inode |-> d.root_inode,
   blocks_per_zone |-> IF d.zone_size > MaxBlockSize
                         THEN d.zone_size \div MaxBlockSize ELSE 1,
   inodes_in_block |-> MaxBlockSize \div InodeSize]

\* The block size of the block device, with which the mount starts: the largest
\* power of two from a sector to a page that divides the device's size.
BdevBlockSize(device) ==
  LET sizes == {b \in SectorSize .. MaxBlockSize : IsPowerOfTwo(b) /\ device % b = 0}
  IN CHOOSE b \in sizes : \A a \in sizes : a <= b

\* aufs_super_block_read reads both maps with that block size.  Where mkfs used
\* another one the kernel finds other bytes there, such as zeros or a map.  Bit 0
\* of either map is set in the buffer.
aufs_super_block_read ==
  LET found(map) == IF BdevBlockSize(config.device) = BlockSize(config)
                      THEN {map} ELSE {{}, zoneMap, inodeMap}
  IN /\ asb' = aufs_super_block_fill(dsb)
     /\ \E m \in found(zoneMap) : zmap' = m \cup {0}
     /\ \E m \in found(inodeMap) : imap' = m \cup {0}

\* aufs_fill_sb sets the block size of the file system afterwards.  The variant
\* confuses the two sizes, as aufs_super_block_fill does.
sb_blocksizeLarger(d) == IF d.zone_size > MaxBlockSize THEN d.zone_size ELSE MaxBlockSize
sb_blocksize(d) == IF d.zone_size > MaxBlockSize THEN MaxBlockSize ELSE d.zone_size
aufs_fill_sb ==
  /\ phase = "formatted"
  /\ phase' = "mounted"
  /\ aufs_super_block_read
  /\ sbsize' = sb_blocksize(asb')
  /\ UNCHANGED <<config, deviceVars>>

Next ==
  \/ \E device \in DeviceSizes, zones \in ZoneCounts, zoneSize \in ZoneSizes :
       ParseArgs(device, zones, zoneSize)
  \/ VerifyConfiguration
  \/ Format \/ Abort
  \/ aufs_fill_sb

Spec == Init /\ [][Next]_vars
-----------------------------------------------------------------------------
(***************************************************************************)
(* Properties of a mounted device                                          *)
(***************************************************************************)
MapBits == 8 * sbsize
MetaBlocks(a) == 1 + a.inode_map_blocks + a.zone_map_blocks + a.inode_blocks
FreeZones == (0 .. MapBits * asb.zone_map_blocks - 1) \ zmap
FreeInodes == (0 .. MapBits * asb.inode_map_blocks - 1) \ imap

\* aufs_new_zone's answer for zone n, and the blocks of the zone.  The variant
\* counts zones from the start of the device.
ZoneStartAbsolute(n) == n * asb.blocks_per_zone
ZoneStart(n) ==
  ZoneBlockNumber(n, MetaBlocks(asb), asb.blocks_per_zone, asb.alignment_num_blocks)
BlocksFrom(b) == b .. b + asb.blocks_per_zone - 1
RootZone == BlocksFrom(root.zone_ptr)

\* The assertions of MkRootDir hold for every configuration that mkfs accepts:
\* inode 1 and zone 1 are free when the root directory asks for them.
RootGetsOne == phase # "aborted"

\* The zones that the kernel can hand out lie behind the super block, the maps
\* and the inode table, apart from each other and from the root directory's
\* zone, whose block number mkfs computed by another formula.
ZonesApart ==
  phase = "mounted" =>
    /\ \A b \in RootZone : b >= MetaBlocks(asb)
    /\ \A n \in FreeZones :
         /\ \A b \in BlocksFrom(ZoneStart(n)) : b >= MetaBlocks(asb)
         /\ BlocksFrom(ZoneStart(n)) \cap RootZone = {}
         /\ \A m \in FreeZones \ {n} :
              BlocksFrom(ZoneStart(n)) \cap BlocksFrom(ZoneStart(m)) = {}

\* Where the kernel looks for the record of an inode.
KernelInodeBlock(no) ==
  aufs_inode_block(no, asb.inode_map_blocks + asb.zone_map_blocks, asb.inodes_in_block)
KernelInodeOffset(no) == aufs_inode_offset(no, asb.inodes_in_block, InodeSize)

\* The kernel finds the root inode where mkfs put it, and the record of every
\* inode number it can hand out lies inside one block of the inode table.
InodesInTable ==
  phase = "mounted" =>
    /\ KernelInodeBlock(1) = root.block /\ KernelInodeOffset(1) = root.offset
    /\ \A no \in FreeInodes \cup {1} :
         /\ KernelInodeBlock(no) < MetaBlocks(asb)
         /\ KernelInodeOffset(no) + InodeSize <= sbsize

\* Every zone that the kernel can hand out is on the device, which mkfs would
\* otherwise have refused as too small.
ZonesOnDevice ==
  phase = "mounted" =>
    \A n \in FreeZones :
      (ZoneStart(n) + asb.blocks_per_zone) * sbsize <= config.device
=============================================================================
