-------------------------- MODULE AufsLayoutProofs --------------------------
(***************************************************************************)
(* The layout of the device for every device, zone size and number of      *)
(* zones, and for every block size, inode size and alignment: mkfs and the *)
(* kernel agree on it, as long as both work with blocks of one size.       *)
(***************************************************************************)
EXTENDS AufsLayout, AufsGeometryProofs

-----------------------------------------------------------------------------
(***************************************************************************)
(* Configurations                                                          *)
(***************************************************************************)
\* What ParseArgs makes of the arguments, and what VerifyConfiguration accepts.
Parsed(c) == c \in [device : DeviceSizes, zoneSize : ZoneSizes, numZones : Nat]
Accepted(c) == Parsed(c) /\ c.zoneSize >= MinZoneSize /\ c.numZones > 3

\* The kernel computes with blocks of MaxBlockSize and reads the maps with the
\* block size of the device: both are the size that mkfs used if no zone is
\* smaller than a page and the device is a whole number of pages.
WholeBlocks ==
  /\ \A z \in ZoneSizes : z >= MaxBlockSize
  /\ \A d \in DeviceSizes : d % MaxBlockSize = 0
  /\ IsPowerOfTwo(MaxBlockSize) /\ SectorSize <= MaxBlockSize

\* The sizes of a configuration, one by one.
LEMMA ConstantTypes ==
  /\ MaxBlockSize \in Nat \ {0} /\ MinZoneSize \in Nat \ {0} /\ InodeSize \in Nat \ {0}
  /\ DirSize \in Nat \ {0} /\ Alignment \in Nat \ {0} /\ SectorSize \in Nat \ {0}
  /\ Word \in Nat \ {0}
  /\ InodeSize <= MinZoneSize /\ 2 * DirSize <= MinZoneSize /\ MinZoneSize <= MaxBlockSize
  BY LayoutAssumption

\* A block holds at least one inode, and no more than fit.
LEMMA BlockSizes ==
  ASSUME NEW c, Accepted(c)
  PROVE  /\ c.zoneSize \in Nat /\ c.numZones \in Nat /\ c.numZones > 3
         /\ BlockSize(c) \in Nat /\ BlockSize(c) >= MinZoneSize /\ BlockSize(c) > 0
         /\ BlockSize(c) <= c.zoneSize /\ BlockSize(c) <= MaxBlockSize
         /\ InBlock(c) \in Nat \ {0} /\ InBlock(c) * InodeSize <= BlockSize(c)
<1>1. c.zoneSize \in Nat /\ c.numZones \in Nat /\ c.numZones > 3 /\ c.zoneSize >= MinZoneSize
  BY LayoutAssumption DEF Accepted, Parsed
<1>2. /\ BlockSize(c) \in Nat /\ BlockSize(c) >= MinZoneSize /\ BlockSize(c) > 0
      /\ BlockSize(c) <= c.zoneSize /\ BlockSize(c) <= MaxBlockSize
  BY <1>1, ConstantTypes DEF BlockSize, Lesser
<1> DEFINE B == BlockSize(c)
<1> HIDE DEF B
<1>3. /\ B \div InodeSize \in Nat /\ (B \div InodeSize) * InodeSize <= B
      /\ B < (B \div InodeSize) * InodeSize + InodeSize
  BY <1>2, ConstantTypes, Quotient DEF B
<1>4. B \div InodeSize # 0
  BY <1>2, <1>3, ConstantTypes DEF B
<1> QED
  BY <1>1, <1>2, <1>3, <1>4 DEF B, InBlock

\* The maps have eight bits for a byte, of which at least four are objects, and the
\* inode table has a record for each inode number that is free.
LEMMA MapSizes ==
  ASSUME NEW c, Accepted(c)
  PROVE  /\ ZoneMapBits(c) = 8 * BlockSize(c) /\ InodeMapBits(c) = 8 * BlockSize(c)
         /\ ZoneMapBits(c) \in Nat /\ ZoneMapBits(c) >= 8
         /\ MappedZones(c) \in 4 .. ZoneMapBits(c)
         /\ NumInodeEntryBlocks(c) \in Nat
         /\ NumInodeEntryBlocks(c) * InBlock(c) \in Nat
         /\ NumInodeEntryBlocks(c) * InBlock(c) >= 4
         /\ num_inodes(c) \in 4 .. InodeMapBits(c)
         /\ num_inodes(c) <= NumInodeEntryBlocks(c) * InBlock(c)
<1> USE BlockSizes
<1>1. /\ ZoneMapBits(c) = 8 * BlockSize(c) /\ InodeMapBits(c) = 8 * BlockSize(c)
      /\ ZoneMapBits(c) \in Nat /\ ZoneMapBits(c) >= 8
  BY DEF ZoneMapBits, InodeMapBits, NumZoneMapBlocks, NumInodeMapBlocks
<1>2. MappedZones(c) \in 4 .. ZoneMapBits(c)
  BY <1>1 DEF MappedZones, Lesser
<1> DEFINE objects == Lesser(c.numZones, NumInodeMapBlocks * BlockSize(c) * 8)
<1>3. objects \in Nat /\ objects >= 4
  BY DEF Lesser, NumInodeMapBlocks
<1> HIDE DEF objects
<1>4. NumInodeEntryBlocks(c) = integer_round_up_division(objects, InBlock(c))
  BY DEF NumInodeEntryBlocks, objects
<1>5. /\ NumInodeEntryBlocks(c) \in Nat /\ NumInodeEntryBlocks(c) * InBlock(c) \in Nat
      /\ NumInodeEntryBlocks(c) * InBlock(c) >= 4
  BY <1>3, <1>4, RoundUpHolds
<1>6. /\ num_inodes(c) \in 4 .. InodeMapBits(c)
      /\ num_inodes(c) <= NumInodeEntryBlocks(c) * InBlock(c)
  BY <1>1, <1>5 DEF num_inodes, Lesser
<1> QED
  BY <1>1, <1>2, <1>5, <1>6

\* The least element, where there is one.
LEMMA LeastIs ==
  ASSUME NEW S \in SUBSET Nat, NEW n \in S, \A m \in S : n <= m
  PROVE  Least(S) = n
<1>1. \E k \in S : \A m \in S : k <= m
  OBVIOUS
<1>2. Least(S) \in S /\ \A m \in S : Least(S) <= m
  BY <1>1, Zenon DEF Least
<1>3. Least(S) <= n /\ n <= Least(S) /\ Least(S) \in Nat
  BY <1>2
<1> QED
  BY <1>3

\* One zone is enough for the root directory.
LEMMA OneRootZone ==
  ASSUME NEW c, Accepted(c)
  PROVE  RootZones(c) = 1
<1> DEFINE n == 2 * DirSize + c.zoneSize - 1
           z == c.zoneSize
<1>0. z \in Nat \ {0} /\ z >= MinZoneSize
  BY LayoutAssumption DEF Accepted, Parsed
<1>1. n \in Nat /\ z \in Nat \ {0} /\ n >= z /\ n < 2 * z
  BY <1>0, ConstantTypes
<1> HIDE DEF n, z
<1>2. n \div z \in Nat /\ (n \div z) * z <= n /\ n < (n \div z) * z + z
  BY <1>1, Quotient
<1>3. n \div z # 0
  BY <1>1, <1>2
<1>4. ~(n \div z > 1)
  <2> SUFFICES ASSUME 1 < n \div z PROVE FALSE
    BY <1>2
  <2>1. 1 * z + z <= (n \div z) * z
    BY <1>1, <1>2, MulMono
  <2> QED
    BY <1>1, <1>2, <2>1
<1>5. n \div z = 1
  BY <1>2, <1>3, <1>4
<1> QED
  BY <1>5 DEF RootZones, integer_round_up_division, n, z

\* The allocators of mkfs find inode 1 and zone 1 free: bit 0 is the only one in
\* use among the first four of either map.
LEMMA RootAnswers ==
  ASSUME NEW c, Accepted(c)
  PROVE  /\ AllocateInode(c) = 1
         /\ AllocateZones(c, RootZones(c)) = 1
         /\ MkRootDirAsserts(c)
<1>1. AllocateInode(c) = 1
  <2> DEFINE S == (0 .. InodeMapBits(c) - 1) \ FillInodeMap(c)
  <2>1. S \in SUBSET Nat /\ 1 \in S /\ \A m \in S : 1 <= m
    BY MapSizes DEF FillInodeMap, FillMap
  <2> HIDE DEF S
  <2>2. Least(S) = 1
    BY <2>1, LeastIs
  <2> QED
    BY <2>2 DEF AllocateInode, S
<1>2. AllocateZones(c, RootZones(c)) = 1
  <2> DEFINE S == {z \in 0 .. ZoneMapBits(c) - 1 : (z .. z + 1 - 1) \cap FillZoneMap(c) = {}}
  <2>1. /\ 1 \in 0 .. ZoneMapBits(c) - 1 /\ 1 \notin FillZoneMap(c) /\ 0 \in FillZoneMap(c)
        /\ 0 .. ZoneMapBits(c) - 1 \subseteq Nat
    BY MapSizes DEF FillZoneMap, FillMap
  <2>2. \A z \in Nat : z .. z + 1 - 1 = {z}
    OBVIOUS
  <2>3. \A z \in 0 .. ZoneMapBits(c) - 1 : z \in S <=> z \notin FillZoneMap(c)
    BY <2>1, <2>2
  <2>4. S \in SUBSET Nat /\ 1 \in S /\ 0 \notin S
    BY <2>1, <2>3
  <2> HIDE DEF S
  <2>5. \A m \in S : 1 <= m
    BY <2>4
  <2>6. Least(S) = 1
    BY <2>4, <2>5, LeastIs
  <2> QED
    BY <2>6, OneRootZone DEF AllocateZones, S
<1> QED
  BY <1>1, <1>2 DEF MkRootDirAsserts
-----------------------------------------------------------------------------
(***************************************************************************)
(* What is on the device, and what the kernel makes of it                  *)
(***************************************************************************)
RootRecord(c) ==
  [block |-> InodeBlock(c, 1), offset |-> InodeOffset(c, 1), zone_ptr |-> RootBlock(c),
   entries |-> RootEntries]

\* The device after mkfs.
DeviceOK ==
  /\ Accepted(config) /\ dsb = FillSuper(config) /\ root = RootRecord(config)
  /\ inodeMap = FillInodeMap(config) \cup {1}
  /\ zoneMap = FillZoneMap(config) \cup {1}

\* The super block in memory after the mount.
KernelOK ==
  /\ asb = aufs_super_block_fill(dsb) /\ sbsize = sb_blocksize(asb)
  /\ BdevBlockSize(config.device) = BlockSize(config) => zmap = zoneMap /\ imap = inodeMap

LayoutInv ==
  /\ phase \in {"start", "parsed", "rejected", "verified", "formatted", "mounted", "unwritten"}
  /\ phase \in {"parsed", "verified"} => Parsed(config)
  /\ phase = "verified" => Accepted(config)
  /\ phase \in {"formatted", "mounted"} => DeviceOK
  /\ phase = "mounted" => KernelOK

\* Before anything is parsed nothing is known of the device.
LEMMA InitLayoutInv == Init => LayoutInv
  BY DEF Init, LayoutInv

\* ParseArgs and VerifyConfiguration.
LEMMA ArgumentsLayoutInv ==
  ASSUME LayoutInv,
         \/ \E device \in DeviceSizes, zones \in ZoneCounts, zoneSize \in ZoneSizes :
              ParseArgs(device, zones, zoneSize)
         \/ VerifyConfiguration
  PROVE  LayoutInv'
<1>1. ASSUME NEW device \in DeviceSizes, NEW zones \in ZoneCounts, NEW zoneSize \in ZoneSizes,
             ParseArgs(device, zones, zoneSize)
      PROVE  LayoutInv'
  <2> DEFINE n == IF zones = 0 THEN device \div zoneSize ELSE zones
  <2>1. device \in Nat /\ zones \in Nat /\ zoneSize \in Nat \ {0}
    BY LayoutAssumption
  <2>2. n \in Nat
    BY <2>1
  <2>3. Lesser(NumZoneMapBlocks * Lesser(zoneSize, MaxBlockSize) * 8, n) \in Nat
    BY <2>1, <2>2, ConstantTypes DEF Lesser, NumZoneMapBlocks
  <2>4. config' = Configuration(device, n, zoneSize) /\ phase' = "parsed"
    BY <1>1 DEF ParseArgs
  <2>5. Parsed(config')
    BY <2>3, <2>4 DEF Parsed, Configuration
  <2> QED
    BY <2>4, <2>5 DEF LayoutInv
<1>2. CASE VerifyConfiguration
  BY <1>2 DEF VerifyConfiguration, LayoutInv, Accepted, VerifyZoneSize, VerifyZones
<1> QED
  BY <1>1, <1>2

\* Writing the device, and the abort that never happens.
LEMMA FormatLayoutInv ==
  ASSUME LayoutInv, Format \/ Abort
  PROVE  LayoutInv'
<1>1. phase = "verified" /\ Accepted(config) /\ MkRootDirAsserts(config)
  BY RootAnswers DEF LayoutInv, Format, Abort
<1>2. Format
  BY <1>1 DEF Abort
<1>3. AllocateInode(config) = 1 /\ AllocateZones(config, RootZones(config)) = 1 /\ RootZones(config) = 1
  BY <1>1, RootAnswers, OneRootZone
<1>4. inodeMap' = FillInodeMap(config) \cup {1}
  BY <1>2, <1>3 DEF Format
<1>5. zoneMap' = FillZoneMap(config) \cup {1}
  <2>1. {1 + k : k \in 0 .. 1 - 1} = {1}
    OBVIOUS
  <2> QED
    BY <1>2, <1>3, <2>1 DEF Format
<1>6. phase' = "formatted" /\ config' = config /\ dsb' = FillSuper(config) /\ root' = RootRecord(config)
  BY <1>2 DEF Format, RootRecord
<1> QED
  BY <1>1, <1>4, <1>5, <1>6 DEF LayoutInv, DeviceOK

\* Bit 0 is in use in either map.
LEMMA BitZero ==
  ASSUME DeviceOK
  PROVE  zoneMap \cup {0} = zoneMap /\ inodeMap \cup {0} = inodeMap
  BY DEF DeviceOK, FillZoneMap, FillInodeMap, FillMap

\* The mount.
LEMMA MountLayoutInv ==
  ASSUME LayoutInv, aufs_fill_sb
  PROVE  LayoutInv'
<1>1. DeviceOK /\ phase' = "mounted" /\ UNCHANGED <<config, dsb, zoneMap, inodeMap, root>>
  BY DEF LayoutInv, aufs_fill_sb, deviceVars
<1>2. asb' = aufs_super_block_fill(dsb) /\ sbsize' = sb_blocksize(asb')
  BY DEF aufs_fill_sb, aufs_super_block_read
<1>3. BdevBlockSize(config.device) = BlockSize(config) =>
        zmap' = zoneMap \cup {0} /\ imap' = inodeMap \cup {0}
  BY DEF aufs_fill_sb, aufs_super_block_read
<1>4. DeviceOK'
  BY <1>1 DEF DeviceOK
<1>5. KernelOK'
  BY <1>1, <1>2, <1>3, BitZero DEF KernelOK
<1> QED
  BY <1>1, <1>4, <1>5 DEF LayoutInv

\* Every step keeps the invariant.
LEMMA LayoutInvNext ==
  ASSUME LayoutInv, [Next]_vars
  PROVE  LayoutInv'
<1>1. CASE UNCHANGED vars
  BY <1>1 DEF LayoutInv, DeviceOK, KernelOK, vars, deviceVars, kernelVars
<1> QED
  BY <1>1, ArgumentsLayoutInv, FormatLayoutInv, MountLayoutInv DEF Next

\* It is an invariant of the specification.
LEMMA LayoutInvHolds == Spec => []LayoutInv
<1>1. LayoutInv /\ [Next]_vars => LayoutInv'
  BY LayoutInvNext
<1> QED
  BY <1>1, InitLayoutInv, PTL DEF Spec

\* No configuration that VerifyConfiguration accepts makes an assertion of MkRootDir
\* fail: the root directory gets inode 1 and zone 1.
THEOREM RootAlwaysGetsOne == Spec => []RootGetsOne
<1>1. LayoutInv => RootGetsOne
  BY DEF LayoutInv, RootGetsOne
<1> QED
  BY <1>1, LayoutInvHolds, PTL
-----------------------------------------------------------------------------
(***************************************************************************)
(* Zones                                                                   *)
(***************************************************************************)
\* The fields of the super block in memory.
LEMMA Fields ==
  ASSUME DeviceOK, KernelOK
  PROVE  /\ asb.zone_map_blocks = 1 /\ asb.inode_map_blocks = 1
         /\ asb.inode_blocks = NumInodeEntryBlocks(config)
         /\ asb.alignment_num_blocks = Alignment
         /\ asb.zone_size = config.zoneSize
         /\ asb.blocks_per_zone = IF config.zoneSize > MaxBlockSize
                                    THEN config.zoneSize \div MaxBlockSize ELSE 1
         /\ asb.inodes_in_block = MaxBlockSize \div InodeSize
         /\ sbsize = BlockSize(config)
<1>1. asb = aufs_super_block_fill(FillSuper(config)) /\ sbsize = sb_blocksize(asb)
  BY DEF DeviceOK, KernelOK
<1>2. /\ asb.zone_map_blocks = 1 /\ asb.inode_map_blocks = 1
      /\ asb.inode_blocks = NumInodeEntryBlocks(config)
      /\ asb.alignment_num_blocks = Alignment
      /\ asb.zone_size = config.zoneSize
      /\ asb.blocks_per_zone = IF config.zoneSize > MaxBlockSize
                                 THEN config.zoneSize \div MaxBlockSize ELSE 1
      /\ asb.inodes_in_block = MaxBlockSize \div InodeSize
  BY <1>1 DEF aufs_super_block_fill, FillSuper, NumInodeMapBlocks
<1>3. config.zoneSize \in Nat
  BY LayoutAssumption DEF DeviceOK, Accepted, Parsed
<1>4. sbsize = BlockSize(config)
  BY <1>1, <1>2, <1>3, ConstantTypes DEF sb_blocksize, BlockSize, Lesser
<1> QED
  BY <1>2, <1>4

\* mkfs and the kernel agree on the blocks of a zone, although one divides by its
\* block size and the other by MaxBlockSize.
LEMMA ZoneLength ==
  ASSUME DeviceOK, KernelOK
  PROVE  /\ asb.blocks_per_zone \in Nat \ {0}
         /\ config.zoneSize \div BlockSize(config) = asb.blocks_per_zone
<1> DEFINE z == config.zoneSize
<1>1. z \in Nat \ {0}
  BY LayoutAssumption DEF DeviceOK, Accepted, Parsed
<1> HIDE DEF z
<1>2. CASE z > MaxBlockSize
  <2>1. BlockSize(config) = MaxBlockSize /\ asb.blocks_per_zone = z \div MaxBlockSize
    BY <1>1, <1>2, ConstantTypes, Fields DEF BlockSize, Lesser, z
  <2>2. z \div MaxBlockSize \in Nat /\ z < (z \div MaxBlockSize) * MaxBlockSize + MaxBlockSize
    BY <1>1, ConstantTypes, Quotient
  <2>3. z \div MaxBlockSize # 0
    BY <1>1, <1>2, <2>2, ConstantTypes
  <2> QED
    BY <2>1, <2>2, <2>3 DEF z
<1>3. CASE z <= MaxBlockSize
  <2>1. BlockSize(config) = z /\ asb.blocks_per_zone = 1
    BY <1>1, <1>3, ConstantTypes, Fields DEF BlockSize, Lesser, z
  <2>2. z \div z = 1
    BY <1>1
  <2> QED
    BY <2>1, <2>2 DEF z
<1> QED
  BY <1>1, <1>2, <1>3, ConstantTypes

\* If the kernel reads the maps that mkfs wrote it hands out no zone but those from
\* number 2 on.
LEMMA FreeZonesFromTwo ==
  ASSUME DeviceOK, KernelOK, BdevBlockSize(config.device) = BlockSize(config)
  PROVE  \A n \in FreeZones : n \in Nat /\ n >= 2
<1>1. 0 \in zmap /\ 1 \in zmap
  BY DEF DeviceOK, KernelOK, FillZoneMap, FillMap
<1>2. FreeZones \subseteq Nat
  <2>1. MapBits * asb.zone_map_blocks - 1 \in Int
    BY Fields, BlockSizes DEF MapBits, DeviceOK
  <2> QED
    BY <2>1 DEF FreeZones
<1>3. 0 \notin FreeZones /\ 1 \notin FreeZones
  BY <1>1 DEF FreeZones
<1> QED
  BY <1>2, <1>3

\* The root directory's zone lies behind the inode table, and the zones from number
\* 2 on behind it and apart.
LEMMA ZonesBehindRoot ==
  ASSUME DeviceOK, KernelOK
  PROVE  /\ MetaBlocks(asb) \in Nat /\ root.zone_ptr \in Nat /\ root.zone_ptr >= MetaBlocks(asb)
         /\ \A n \in Nat : n >= 2 => /\ ZoneStart(n) \in Nat
                                     /\ root.zone_ptr + asb.blocks_per_zone <= ZoneStart(n)
         /\ \A n \in Nat : \A m \in Nat :
              n < m => ZoneStart(n) + asb.blocks_per_zone <= ZoneStart(m)
<1> DEFINE B == asb.blocks_per_zone
           M == MetaBlocks(asb)
<1>1. B \in Nat \ {0}
  BY ZoneLength
<1>2. M = 3 + NumInodeEntryBlocks(config) /\ M \in Nat
  BY Fields, MapSizes DEF MetaBlocks, DeviceOK
<1>3. root.zone_ptr = B + AlignUp(M, Alignment)
  <2>1. root.zone_ptr = RootBlock(config)
    BY DEF DeviceOK, RootRecord
  <2>2. NumInodeMapBlocks + NumInodeEntryBlocks(config) + NumZoneMapBlocks + 1 = M
    BY <1>2, MapSizes DEF NumInodeMapBlocks, NumZoneMapBlocks, DeviceOK
  <2> QED
    BY <2>1, <2>2, ZoneLength DEF RootBlock
<1>4. \A n : ZoneStart(n) = ZoneBlockNumber(n, M, B, Alignment)
  BY Fields DEF ZoneStart
<1> HIDE DEF B, M
<1>5. AlignUp(M, Alignment) \in Nat /\ AlignUp(M, Alignment) >= M
  BY <1>2, AlignUpBound, ConstantTypes
<1>6. AlignUp(M + B, Alignment) \in Nat /\ AlignUp(M, Alignment) <= AlignUp(M + B, Alignment)
  BY <1>1, <1>2, AlignUpBound, AlignUpMono, ConstantTypes
<1>7. ASSUME NEW n \in Nat, n >= 2
      PROVE  ZoneStart(n) \in Nat /\ root.zone_ptr + B <= ZoneStart(n)
  <2>1. 1 * B + B <= n * B /\ n * B \in Nat
    BY <1>1, <1>7, MulMono
  <2> QED
    BY <1>1, <1>3, <1>4, <1>5, <1>6, <2>1 DEF ZoneBlockNumber
<1>8. ASSUME NEW n \in Nat, NEW m \in Nat, n < m
      PROVE  ZoneStart(n) + B <= ZoneStart(m)
  BY <1>1, <1>2, <1>4, <1>8, ZonesDoNotOverlap, ConstantTypes
<1>9. root.zone_ptr \in Nat /\ root.zone_ptr >= M
  BY <1>1, <1>2, <1>3, <1>5
<1> QED
  BY <1>2, <1>7, <1>8, <1>9 DEF B, M

\* Every zone that the kernel can hand out is apart from the root directory, from
\* the other zones and from what lies before the zones, if it reads the maps with
\* the block size of mkfs.
LEMMA MountedZonesApart ==
  ASSUME LayoutInv, phase = "mounted" => BdevBlockSize(config.device) = BlockSize(config)
  PROVE  ZonesApart
<1> SUFFICES ASSUME phase = "mounted" PROVE ZonesApart
  BY DEF ZonesApart
<1>1. DeviceOK /\ KernelOK /\ BdevBlockSize(config.device) = BlockSize(config)
  BY DEF LayoutInv
<1> DEFINE B == asb.blocks_per_zone
           M == MetaBlocks(asb)
           r == root.zone_ptr
<1>2. B \in Nat \ {0} /\ M \in Nat /\ r \in Nat /\ r >= M
  BY <1>1, ZoneLength, ZonesBehindRoot
<1>3. \A n \in FreeZones : n \in Nat /\ ZoneStart(n) \in Nat /\ r + B <= ZoneStart(n)
  BY <1>1, FreeZonesFromTwo, ZonesBehindRoot
<1>4. \A n \in FreeZones : \A m \in FreeZones : n < m => ZoneStart(n) + B <= ZoneStart(m)
  BY <1>1, <1>3, ZonesBehindRoot
<1>5. \A b : BlocksFrom(b) = b .. b + B - 1
  BY DEF BlocksFrom
<1> HIDE DEF B, M, r
<1>6. \A b \in RootZone : b >= M
  BY <1>2, <1>5 DEF RootZone, r
<1>7. ASSUME NEW n \in FreeZones
      PROVE  /\ \A b \in BlocksFrom(ZoneStart(n)) : b >= M
             /\ BlocksFrom(ZoneStart(n)) \cap RootZone = {}
             /\ \A m \in FreeZones \ {n} : BlocksFrom(ZoneStart(n)) \cap BlocksFrom(ZoneStart(m)) = {}
  <2>1. \A b \in BlocksFrom(ZoneStart(n)) : b >= M
    BY <1>2, <1>3, <1>5
  <2>2. BlocksFrom(ZoneStart(n)) \cap RootZone = {}
    BY <1>2, <1>3, <1>5 DEF RootZone, r
  <2>3. ASSUME NEW m \in FreeZones \ {n}
        PROVE  BlocksFrom(ZoneStart(n)) \cap BlocksFrom(ZoneStart(m)) = {}
    <3>1. ZoneStart(n) + B <= ZoneStart(m) \/ ZoneStart(m) + B <= ZoneStart(n)
      BY <1>3, <1>4
    <3> QED
      BY <1>2, <1>3, <1>5, <3>1
  <2> QED
    BY <2>1, <2>2, <2>3
<1> QED
  BY <1>6, <1>7 DEF ZonesApart, M

\* Blocks of one size: mkfs, the file system and the device.
LEMMA SameBlockSize ==
  ASSUME WholeBlocks, NEW c, Accepted(c)
  PROVE  BlockSize(c) = MaxBlockSize /\ BdevBlockSize(c.device) = MaxBlockSize
<1>1. c.zoneSize \in ZoneSizes /\ c.device \in DeviceSizes
  BY DEF Accepted, Parsed
<1>2. BlockSize(c) = MaxBlockSize
  <2>1. c.zoneSize \in Nat /\ c.zoneSize >= MaxBlockSize
    BY <1>1, LayoutAssumption DEF WholeBlocks
  <2> QED
    BY <2>1, ConstantTypes DEF BlockSize, Lesser
<1> DEFINE sizes == {b \in SectorSize .. MaxBlockSize : IsPowerOfTwo(b) /\ c.device % b = 0}
<1>3. MaxBlockSize \in sizes /\ \A a \in sizes : a <= MaxBlockSize /\ a \in Nat
  BY <1>1, ConstantTypes DEF WholeBlocks
<1>4. BdevBlockSize(c.device) = CHOOSE b \in sizes : \A a \in sizes : a <= b
  BY DEF BdevBlockSize
<1> HIDE DEF sizes
<1>5. BdevBlockSize(c.device) \in sizes /\ \A a \in sizes : a <= BdevBlockSize(c.device)
  BY <1>3, <1>4, Zenon
<1>6. BdevBlockSize(c.device) = MaxBlockSize
  <2>1. /\ BdevBlockSize(c.device) \in Nat /\ BdevBlockSize(c.device) <= MaxBlockSize
        /\ MaxBlockSize <= BdevBlockSize(c.device)
    BY <1>3, <1>5
  <2> QED
    BY <2>1, ConstantTypes
<1> QED
  BY <1>2, <1>6

\* For every device and zone size of whole pages, every number of zones and every
\* alignment, the zones that the kernel can hand out lie apart.
THEOREM ZonesAlwaysApart ==
  ASSUME WholeBlocks
  PROVE  Spec => []ZonesApart
<1>1. LayoutInv => ZonesApart
  <2>1. LayoutInv /\ phase = "mounted" => BdevBlockSize(config.device) = BlockSize(config)
    BY SameBlockSize DEF LayoutInv, DeviceOK
  <2> QED
    BY <2>1, MountedZonesApart
<1> QED
  BY <1>1, LayoutInvHolds, PTL
-----------------------------------------------------------------------------
(***************************************************************************)
(* Inodes                                                                  *)
(***************************************************************************)
\* The record of an inode number below the number of inodes lies in the table, and
\* inside one block.
LEMMA RecordInTable ==
  ASSUME NEW k \in Nat \ {0}, NEW n \in Nat, NEW no \in Nat, n * k \in Nat, no < n * k,
         k * InodeSize <= MaxBlockSize
  PROVE  /\ no \div k \in Nat /\ no \div k < n
         /\ InodeSize * (no % k) + InodeSize <= MaxBlockSize
<1>1. no \div k \in Nat /\ (no \div k) * k \in Nat /\ (no \div k) * k <= no /\ no % k \in 0 .. k - 1
  BY Quotient
<1>2. ~(n < no \div k) /\ n # no \div k
  <2>1. ASSUME n < no \div k PROVE FALSE
    <3>1. n * k + k <= (no \div k) * k
      BY <1>1, <2>1, MulMono
    <3> QED
      BY <1>1, <3>1
  <2>2. ASSUME n = no \div k PROVE FALSE
    BY <1>1, <2>2
  <2> QED
    BY <2>1, <2>2
<1>3. (no % k) * InodeSize + InodeSize <= k * InodeSize
  <2>1. no % k \in Nat /\ no % k < k
    BY <1>1
  <2> QED
    BY <2>1, MulMono, ConstantTypes
<1>4. /\ InodeSize * (no % k) = (no % k) * InodeSize /\ InodeSize * (no % k) \in Nat
      /\ k * InodeSize \in Nat
  BY <1>1, ConstantTypes
<1> QED
  BY <1>1, <1>2, <1>3, <1>4, ConstantTypes

\* The kernel finds the root inode, and has a place for every inode it can hand out.
LEMMA MountedInodesInTable ==
  ASSUME WholeBlocks, LayoutInv
  PROVE  InodesInTable
<1> SUFFICES ASSUME phase = "mounted" PROVE InodesInTable
  BY DEF InodesInTable
<1>1. DeviceOK /\ KernelOK /\ Accepted(config)
  BY DEF LayoutInv, DeviceOK
<1>2. BlockSize(config) = MaxBlockSize /\ BdevBlockSize(config.device) = BlockSize(config)
  BY <1>1, SameBlockSize
<1> DEFINE k == InBlock(config)
           n == NumInodeEntryBlocks(config)
<1>3. /\ k \in Nat \ {0} /\ k * InodeSize <= MaxBlockSize /\ n \in Nat /\ n * k \in Nat /\ n * k >= 4
      /\ num_inodes(config) \in Nat /\ num_inodes(config) <= n * k
  BY <1>1, <1>2, BlockSizes, MapSizes
<1>4. asb.inodes_in_block = k /\ sbsize = MaxBlockSize /\ MetaBlocks(asb) = 3 + n
  <2>1. asb.inodes_in_block = k /\ sbsize = MaxBlockSize
    BY <1>1, <1>2, Fields DEF InBlock
  <2>2. MetaBlocks(asb) = 3 + n
    BY <1>1, <1>3, Fields DEF MetaBlocks
  <2> QED
    BY <2>1, <2>2
<1>5. \A no : /\ KernelInodeBlock(no) = 3 + no \div k
              /\ KernelInodeOffset(no) = InodeSize * (no % k)
  BY <1>1, <1>4, Fields DEF KernelInodeBlock, KernelInodeOffset, aufs_inode_block, aufs_inode_offset
<1>6. KernelInodeBlock(1) = root.block /\ KernelInodeOffset(1) = root.offset
  <2>1. root.block = 1 \div k + 1 + 1 + 1 /\ root.offset = (1 % k) * InodeSize
    BY <1>1 DEF DeviceOK, RootRecord, InodeBlock, InodeOffset, NumInodeMapBlocks, NumZoneMapBlocks
  <2>2. 1 \div k \in Nat /\ 1 % k \in 0 .. k - 1
    BY <1>3, Quotient
  <2> HIDE DEF k
  <2>3. (1 % k) * InodeSize = InodeSize * (1 % k)
    BY <1>3, <2>2, ConstantTypes
  <2> QED
    BY <1>5, <2>1, <2>2, <2>3
<1>7. \A no \in FreeInodes \cup {1} : no \in Nat /\ no < n * k
  <2>1. imap = FillInodeMap(config) \cup {1}
    BY <1>1, <1>2 DEF DeviceOK, KernelOK
  <2>2. InodeMapBits(config) = 8 * MaxBlockSize /\ InodeMapBits(config) \in Nat
    BY <1>1, <1>2, MapSizes
  <2>3. MapBits * asb.inode_map_blocks = InodeMapBits(config)
    BY <1>1, <1>4, <2>2, Fields, ConstantTypes DEF MapBits
  <2>4. \A no \in FreeInodes : no \in Nat /\ no < num_inodes(config)
    BY <1>3, <2>1, <2>2, <2>3 DEF FreeInodes, FillInodeMap, FillMap
  <2> QED
    BY <1>3, <2>4
<1>8. ASSUME NEW no \in FreeInodes \cup {1}
      PROVE  /\ KernelInodeBlock(no) < MetaBlocks(asb)
             /\ KernelInodeOffset(no) + InodeSize <= sbsize
  <2>1. no \in Nat /\ no < n * k
    BY <1>7
  <2>2. no \div k \in Nat /\ no \div k < n /\ InodeSize * (no % k) + InodeSize <= MaxBlockSize
    BY <1>3, <2>1, RecordInTable
  <2> HIDE DEF k, n
  <2>3. 3 + no \div k < 3 + n
    BY <1>3, <2>2
  <2> QED
    BY <1>4, <1>5, <2>2, <2>3
<1> QED
  BY <1>6, <1>8 DEF InodesInTable

\* For every device and zone size of whole pages and every size of an inode, the
\* kernel finds the root inode where mkfs put it, and the record of every inode it
\* can hand out is inside the inode table.
THEOREM InodesAlwaysInTable ==
  ASSUME WholeBlocks
  PROVE  Spec => []InodesInTable
<1>1. LayoutInv => InodesInTable
  BY MountedInodesInTable
<1> QED
  BY <1>1, LayoutInvHolds, PTL
=============================================================================
