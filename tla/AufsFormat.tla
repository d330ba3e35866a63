----------------------------- MODULE AufsFormat -----------------------------
(***************************************************************************)
(* How mkfs.aufs writes the device: the Formatter (user/format.cpp), step  *)
(* by step, through the block cache (user/block.cpp) and the bit iterator  *)
(* (AufsBits.tla).  It implements AufsLayout, where formatting is a step.  *)
(*                                                                         *)
(* A Block object is its block number and its data; `blocks' holds the     *)
(* objects in the order in which they were made, and a BlockPtr is an      *)
(* index into it, or 0.  The data of a map block is the set of its one     *)
(* bits, that of the other blocks a record of the fields mkfs writes.      *)
(***************************************************************************)
EXTENDS AufsLayout, AufsBits, Sequences

CONSTANT ThresholdSize  \* bytes the cache may hold, 1048576

ASSUME FormatAssumption == ThresholdSize \in Nat

VARIABLES
  step,     \* where the formatter is
  device,   \* the blocks of the device that mkfs uses
  blocks,   \* the Block objects
  m_cache,  \* the objects that are in the cache
  ptr,      \* the BlockPtr's of SuperBlock, Inode and MkRootDir
  failed    \* history: a write of the device failed, which mkfs does not notice

cacheVars == <<device, blocks, m_cache, ptr, failed>>
formatVars == <<vars, step, cacheVars>>

Pointers == {"m_super_block", "m_zone_map", "m_inode_map", "m_block", "rootContent"}
UsedBlocks(c) == {0, 1, 1 + NumZoneMapBlocks, InodeBlock(c, 1), RootBlock(c)}

FormatInit ==
  /\ Init
  /\ step = "start" /\ device = <<>> /\ blocks = <<>> /\ m_cache = {}
  /\ ptr = [v \in Pointers |-> 0] /\ failed = FALSE
-----------------------------------------------------------------------------
(***************************************************************************)
(* BlocksCache                                                             *)
(***************************************************************************)
\* Sync, given the BlockPtr's that are left: the device afterwards, of which a
\* write that fails (at block number bad) and all later ones leave no trace, and
\* the objects that stay in the cache because somebody else has them too.  The
\* variant erases all of them.
Synced(bad) ==
  [no \in DOMAIN device |->
     IF no < bad /\ \E id \in m_cache : blocks[id].no = no
       THEN blocks[CHOOSE id \in m_cache : blocks[id].no = no].data ELSE device[no]]
KeptNone(p) == {}
Kept(p) == {id \in m_cache : \E v \in Pointers : p[v] = id}

\* No write fails, or the one of some block does.
NoFailure == RootBlock(config) + 1
FailureAt == {blocks[id].no : id \in m_cache} \cup {NoFailure}

\* v = GetBlock(no): the object in the cache, or a new one with what the device
\* holds.  The formatter asks for no block twice.
GetBlock(v, no) ==
  LET hits == {k \in m_cache : blocks[k].no = no}
      miss == hits = {}
      full == miss /\ BlockSize(config) * Cardinality(m_cache) > ThresholdSize
      id == IF miss THEN Len(blocks) + 1 ELSE CHOOSE k \in hits : TRUE
  IN /\ \E bad \in IF full THEN FailureAt ELSE {NoFailure} :
          /\ device' = IF full THEN Synced(bad) ELSE device
          /\ failed' = (failed \/ bad # NoFailure)
     /\ m_cache' = (IF full THEN Kept(ptr) ELSE m_cache) \cup {id}
     /\ blocks' = IF miss THEN Append(blocks, [no |-> no, data |-> device'[no]]) ELSE blocks
     /\ ptr' = [ptr EXCEPT ![v] = id]

Data(v) == blocks[ptr[v]].data
Store(v, data) ==
  /\ blocks' = [blocks EXCEPT ![ptr[v]].data = data]
  /\ UNCHANGED <<device, m_cache, ptr, failed>>
-----------------------------------------------------------------------------
(***************************************************************************)
(* SuperBlock, Inode and Formatter                                         *)
(***************************************************************************)
Goes(from, to) == step = from /\ step' = to /\ UNCHANGED vars

\* What was on the device before: its maps have any contents.
Formatter ==
  /\ phase = "verified" /\ Goes("start", "super")
  /\ \E bits \in {{}, 0 .. ZoneMapBits(config) - 1} :
       device' = [no \in UsedBlocks(config) |->
                    IF no \in {1, 1 + NumZoneMapBlocks} THEN bits ELSE Nothing]
  /\ UNCHANGED <<blocks, m_cache, ptr, failed>>

SuperBlock ==
  \/ Goes("super", "zone_map") /\ GetBlock("m_super_block", 0)
  \/ Goes("zone_map", "inode_map") /\ GetBlock("m_zone_map", 1)
  \/ Goes("inode_map", "FillZoneMap") /\ GetBlock("m_inode_map", 1 + NumZoneMapBlocks)

\* std::fill three times: the first bit, the objects, the rest of the map.  The
\* variant frees the first bit, too.
Begin == Iterator(0, 0)
FillBitsFromZero(memory, objects, bits) ==
  Fill(Fill(memory, Begin, advance(Begin, objects), FALSE),
       advance(Begin, objects), advance(Begin, bits), TRUE)
FillBits(memory, objects, bits) ==
  LET first == advance(Begin, 1)
      rest == advance(Begin, objects)
  IN Fill(Fill(Fill(memory, Begin, first, TRUE), first, rest, FALSE),
          rest, advance(Begin, bits), TRUE)

WriteZoneMap ==
  /\ Goes("FillZoneMap", "FillInodeMap")
  /\ Store("m_zone_map",
           FillBits(Data("m_zone_map"), MappedZones(config), ZoneMapBits(config)))

WriteInodeMap ==
  /\ Goes("FillInodeMap", "FillSuper")
  /\ Store("m_inode_map",
           FillBits(Data("m_inode_map"), num_inodes(config), InodeMapBits(config)))

WriteSuper ==
  /\ Goes("FillSuper", "AllocateInode")
  /\ Store("m_super_block", [FillSuper(config) EXCEPT !.root_inode = -1])

\* The end of the map that both allocators search to: eight times too far.
SearchEnd(mapBlocks) == Iterator(mapBlocks * BlockSize(config) * 8, 0)
MapEnd(mapBlocks) == Iterator(mapBlocks * BlockSize(config), 0)

\* The answer of an allocator is asserted to be 1; abort() runs no destructor.
Asserted(answer, to) ==
  /\ step' = IF answer = 1 THEN to ELSE "ended"
  /\ phase' = IF answer = 1 THEN phase ELSE "aborted"

TakeInode ==
  /\ step = "AllocateInode"
  /\ \E it \in Find(Data("m_inode_map"), Begin, MapEnd(NumInodeMapBlocks),
                    SearchEnd(NumInodeMapBlocks), FALSE) :
       /\ Asserted(it, "Inode")
       /\ Store("m_inode_map", Data("m_inode_map") \cup {it})
  /\ UNCHANGED <<config, deviceVars, kernelVars>>

\* Inode(m_cache, 1) and FillInode.
OpenInode == Goes("Inode", "AllocateZones") /\ GetBlock("m_block", InodeBlock(config, 1))

\* The first free bit from it on, and where the run of free bits ends.  The variant
\* finds the beginning of the run again.
FindZone(it, v) ==
  Find(Data("m_zone_map"), it, MapEnd(NumZoneMapBlocks), SearchEnd(NumZoneMapBlocks), v)
FreeFrom(it) == FindZone(it, FALSE)
RunEndFree(it) == FindZone(it, FALSE)
RunEnd(it) == FindZone(it, TRUE)

\* The first run of free bits; if it is too short the loop never ends.
TakeZones ==
  /\ step = "AllocateZones"
  /\ \E no \in FreeFrom(Begin) :
       LET it == advance(Begin, no)
       IN /\ \E jt \in RunEnd(it) : jt - no >= RootZones(config)
          /\ Asserted(no, "Set")
          /\ Store("m_zone_map",
                   Fill(Data("m_zone_map"), it, advance(it, RootZones(config)), TRUE))
  /\ UNCHANGED <<config, deviceVars, kernelVars>>

\* SetFirstBlock to SetCreateTime; the other zone pointers are cleared.
SetInode ==
  /\ Goes("Set", "rootContent")
  /\ Store("m_block", [offset |-> InodeOffset(config, 1), zone_ptr |-> RootBlock(config)])

OpenRootContent == Goes("rootContent", "entries") /\ GetBlock("rootContent", RootBlock(config))
WriteEntries == Goes("entries", "return") /\ Store("rootContent", RootEntries)

\* MkRootDir returns and lets go of the block of the entries.
ReturnInode ==
  /\ Goes("return", "SetRootInode")
  /\ ptr' = [ptr EXCEPT !["rootContent"] = 0]
  /\ UNCHANGED <<device, blocks, m_cache, failed>>

SetRootInode ==
  /\ Goes("SetRootInode", "destroy")
  /\ Store("m_super_block", [Data("m_super_block") EXCEPT !.root_inode = 1])

\* The Inode and the SuperBlock are destroyed before the cache, whose destructor
\* writes everything.  mkfs returns 0, whether that worked or not.  What it left
\* on the device is what the kernel will read.
Destroy ==
  /\ step = "destroy" /\ step' = "ended"
  /\ ptr' = [v \in Pointers |-> 0]
  /\ m_cache' = Kept(ptr')
  /\ \E bad \in FailureAt : device' = Synced(bad) /\ failed' = (failed \/ bad # NoFailure)
  /\ IF failed'
       THEN phase' = "unwritten" /\ UNCHANGED deviceVars
       ELSE /\ phase' = "formatted"
            /\ dsb' = device'[0]
            /\ zoneMap' = device'[1] /\ inodeMap' = device'[1 + NumZoneMapBlocks]
            /\ LET inode == device'[InodeBlock(config, 1)]
               IN root' = [block |-> InodeBlock(config, 1), offset |-> inode.offset,
                           zone_ptr |-> inode.zone_ptr, entries |-> device'[inode.zone_ptr]]
  /\ UNCHANGED <<config, kernelVars, blocks>>

FormatStep ==
  \/ Formatter \/ SuperBlock \/ WriteZoneMap \/ WriteInodeMap \/ WriteSuper
  \/ TakeInode \/ OpenInode \/ TakeZones \/ SetInode
  \/ OpenRootContent \/ WriteEntries \/ ReturnInode \/ SetRootInode \/ Destroy

ArgumentStep ==
  /\ \/ \E d \in DeviceSizes, zones \in ZoneCounts, zoneSize \in ZoneSizes :
          ParseArgs(d, zones, zoneSize)
     \/ VerifyConfiguration
  /\ UNCHANGED <<step, cacheVars>>

FormatNext == ArgumentStep \/ FormatStep \/ (aufs_fill_sb /\ UNCHANGED <<step, cacheVars>>)
FormatSpec == FormatInit /\ [][FormatNext]_formatVars
-----------------------------------------------------------------------------
\* The cache has one object for a block number, and keeps it as long as anyone
\* holds it: what is stored through any BlockPtr is what the next Sync writes.
OneCopy ==
  /\ \A v \in Pointers : ptr[v] # 0 /\ phase # "aborted" => ptr[v] \in m_cache
  /\ \A k, l \in m_cache : blocks[k].no = blocks[l].no => k = l

\* The formatter implements AufsLayout, whatever was on the device and whenever
\* the cache writes: if no write fails, then when mkfs ends the device holds what
\* Format says, and before that mkfs has shown nothing.
Layout == INSTANCE AufsLayout WITH
            phase <- IF phase = "unwritten" THEN "verified" ELSE phase
LayoutSpec == Layout!Spec
=============================================================================
