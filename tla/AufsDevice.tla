----------------------------- MODULE AufsDevice -----------------------------
(***************************************************************************)
(* The whole life of a device: mkfs.aufs (AufsFormat.tla) writes it, or    *)
(* refuses or fails to, and then the kernel module (AufsSuper.tla) is      *)
(* loaded and mounts it, again and again.  Both read and write the same    *)
(* first blocks of the device, which is all they share.                    *)
(***************************************************************************)
EXTENDS AufsFormat, AufsSuper

deviceLife == <<formatVars, superVars, disk>>

\* A device without a file system of ours, with anything in place of the numbers
\* of map blocks.
ForeignDisks ==
  {[magic |-> FALSE, zmaps |-> n, imaps |-> n, bsize |-> 0, bdev |-> 0] : n \in {0, 1}}

\* A device with the super block d of mkfs, as aufs_super_block_fill reads it.
DiskOf(d, c) ==
  [magic |-> TRUE, zmaps |-> d.zone_map_blocks, imaps |-> d.inode_map_blocks,
   bsize |-> sb_blocksize(d), bdev |-> BdevBlockSize(c.device)]

DeviceInit == FormatInit /\ SuperInit /\ disk \in ForeignDisks

\* mkfs has ended.
Done == phase \in {"rejected", "aborted", "unwritten", "formatted", "mounted"}

\* The super block may be among the blocks that were written before one failed.
Mkfs ==
  /\ ~Done /\ (ArgumentStep \/ FormatStep)
  /\ disk' \in CASE phase' = "formatted" -> {DiskOf(dsb', config)}
                 [] phase' = "unwritten" -> {disk, DiskOf(FillSuper(config), config)}
                 [] OTHER -> {disk}
  /\ UNCHANGED superVars

\* The first mount of what mkfs wrote is the step aufs_fill_sb of AufsLayout when it
\* succeeds; no other step of the kernel changes what is modelled there.
Kernel ==
  /\ Done /\ SuperNext
  /\ IF phase = "formatted" /\ mount' = "mounted" THEN aufs_fill_sb ELSE UNCHANGED vars
  /\ UNCHANGED <<step, cacheVars, disk>>

DeviceNext == Mkfs \/ Kernel
DeviceSpec ==
  DeviceInit /\ [][DeviceNext]_deviceLife /\ SuperFairness /\ WF_formatVars(Mkfs)
-----------------------------------------------------------------------------
\* Once a device that mkfs wrote is mounted, what the allocators change in the
\* buffers of the maps is written back to the device: setting the block size has
\* not thrown the buffers out of the page cache.
MapsWrittenBack == mount = "mounted" /\ phase = "mounted" => attached

\* mkfs ends: the loop of AllocateZones finds a run of zones in the maps that
\* FillZoneMap has written.
MkfsEnds == phase = "verified" ~> Done
=============================================================================
