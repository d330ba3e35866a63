-------------------------- MODULE AufsSuperProofs ---------------------------
(***************************************************************************)
(* The life of a device, for any number of mounts and inodes: the slab     *)
(* cache of the inodes outlives every inode, the buffers of the maps are   *)
(* held while the device is mounted, and what AufsFormatProofs shows of    *)
(* mkfs holds on.                                                          *)
(***************************************************************************)
EXTENDS AufsDevice, AufsFormatProofs

\* Exactly a mounted super block has inodes that do not wait for RCU, a super block
\* keeps the module, and RCU has freed all inodes when the module is out.
ModuleInv ==
  /\ inodes \in Nat /\ dying \in 0 .. inodes
  /\ module \in {"out", "created", "loaded", "leaving"}
  /\ module # "out" => slab = TRUE
  /\ mount # "idle" => module = "loaded"
  /\ dying < inodes <=> mount \in {"d_make_root", "mounted"}
  /\ mount = "d_make_root" => inodes = dying + 1
  /\ module = "out" => inodes = 0

\* Before insmod there is nothing.
LEMMA ModuleInvInit == SuperInit => ModuleInv
  BY DEF SuperInit, ModuleInv

\* The module's own steps: only the end of aufs_inode_cache_destroy matters.
LEMMA ModuleSteps ==
  ASSUME ModuleInv,
         \/ aufs_inode_cache_create \/ register_filesystem \/ unregister_filesystem
         \/ aufs_fini \/ aufs_free_callback
  PROVE  ModuleInv'
<1>1. CASE aufs_inode_cache_create
  BY <1>1 DEF ModuleInv, aufs_inode_cache_create, inodeVars, bufferVars
<1>2. CASE register_filesystem
  <2>1. mount = "idle" /\ dying = inodes
    BY <1>2 DEF ModuleInv, register_filesystem
  <2>2. CASE module' = "loaded" /\ UNCHANGED <<slab, inodeVars, mount>>
    BY <1>2, <2>1, <2>2 DEF ModuleInv, register_filesystem, inodeVars
  <2>3. CASE module' = "out" /\ aufs_inode_cache_destroy
    BY <2>1, <2>3 DEF ModuleInv, aufs_inode_cache_destroy, rcu_barrier, inodeVars
  <2> QED  BY <1>2, <2>2, <2>3 DEF register_filesystem
<1>3. CASE unregister_filesystem
  BY <1>3 DEF ModuleInv, unregister_filesystem, inodeVars, bufferVars
<1>4. CASE aufs_fini
  BY <1>4 DEF ModuleInv, aufs_fini, aufs_inode_cache_destroy, rcu_barrier,
              inodeVars, bufferVars
<1>5. CASE aufs_free_callback
  BY <1>5 DEF ModuleInv, aufs_free_callback, slabVars, bufferVars
<1> QED  BY <1>1, <1>2, <1>3, <1>4, <1>5

\* The steps of a mount up to the root inode touch no inode.
LEMMA ReadSteps ==
  ASSUME ModuleInv,
         \/ aufs_mount \/ AllocSuper \/ ReadSuper \/ AllocMap \/ ReadMap \/ SetBits
         \/ TestMagic \/ SetBlocksize
  PROVE  ModuleInv'
<1> USE DEF ModuleInv, Goto, ReturnNull, ReturnError, slabVars, inodeVars
<1>1. CASE aufs_mount  BY <1>1 DEF aufs_mount
<1>2. CASE AllocSuper  BY <1>2 DEF AllocSuper
<1>3. CASE ReadSuper  BY <1>3 DEF ReadSuper
<1>4. CASE AllocMap  BY <1>4 DEF AllocMap
<1>5. CASE ReadMap  BY <1>5 DEF ReadMap
<1>6. CASE SetBits  BY <1>6 DEF SetBits
<1>7. CASE TestMagic  BY <1>7 DEF TestMagic
<1>8. CASE SetBlocksize  BY <1>8 DEF SetBlocksize
<1> QED  BY <1>1, <1>2, <1>3, <1>4, <1>5, <1>6, <1>7, <1>8

\* Each exit of a mount that fails with an inode hands it to RCU, and so do the
\* shrinker and the unmount.
LEMMA InodeSteps ==
  ASSUME ModuleInv,
         \/ GetRoot \/ MakeRoot \/ aufs_inode_alloc \/ aufs_inode_free \/ aufs_put_super
  PROVE  ModuleInv'
<1> USE DEF ModuleInv, Goto, ReturnError, slabVars, inodeVars
<1>1. CASE GetRoot  BY <1>1 DEF GetRoot
<1>2. CASE MakeRoot  BY <1>2 DEF MakeRoot
<1>3. CASE aufs_inode_alloc  BY <1>3 DEF aufs_inode_alloc
<1>4. CASE aufs_inode_free  BY <1>4 DEF aufs_inode_free
<1>5. CASE aufs_put_super  BY <1>5 DEF aufs_put_super
<1> QED  BY <1>1, <1>2, <1>3, <1>4, <1>5

\* Every step of the kernel keeps ModuleInv.
LEMMA ModuleInvNext == ModuleInv /\ [SuperNext]_superVars => ModuleInv'
<1> SUFFICES ASSUME ModuleInv, [SuperNext]_superVars PROVE ModuleInv'
  OBVIOUS
<1>1. CASE SuperNext  BY <1>1, ModuleSteps, ReadSteps, InodeSteps DEF SuperNext
<1>2. CASE UNCHANGED superVars
  BY <1>2 DEF ModuleInv, superVars, slabVars, inodeVars
<1> QED  BY <1>1, <1>2

\* On the whole life of a device, mkfs included, the cache of struct aufs_inode and
\* the module are there while an inode is: rcu_barrier in aufs_inode_cache_destroy,
\* and handing over every inode before the super block goes, are enough.
THEOREM SlabSafe == DeviceSpec => []SlabOutlivesInodes
<1>1. DeviceInit => ModuleInv
  BY ModuleInvInit DEF DeviceInit
<1>2. [DeviceNext]_deviceLife => [SuperNext]_superVars
  BY DEF DeviceNext, Mkfs, Kernel, deviceLife
<1>3. ModuleInv /\ [DeviceNext]_deviceLife => ModuleInv'
  BY <1>2, ModuleInvNext
<1>4. ModuleInv => SlabOutlivesInodes
  BY DEF ModuleInv, SlabOutlivesInodes
<1> QED  BY <1>1, <1>3, <1>4, PTL DEF DeviceSpec
-----------------------------------------------------------------------------
(***************************************************************************)
(* mkfs and the kernel on one device                                       *)
(***************************************************************************)
\* The kernel leaves the formatter alone, but for the first mount.
LEMMA DeviceStep ==
  ASSUME [DeviceNext]_deviceLife
  PROVE  [FormatNext]_formatVars
<1>1. CASE Mkfs
  BY <1>1 DEF Mkfs, FormatNext
<1>2. CASE Kernel
  <2>1. CASE phase = "formatted" /\ mount' = "mounted"
    BY <1>2, <2>1 DEF Kernel, FormatNext
  <2>2. CASE ~(phase = "formatted" /\ mount' = "mounted")
    BY <1>2, <2>2 DEF Kernel, formatVars
  <2> QED
    BY <2>1, <2>2
<1>3. CASE UNCHANGED deviceLife
  BY <1>3 DEF deviceLife
<1> QED
  BY <1>1, <1>2, <1>3 DEF DeviceNext

\* Whatever the kernel module does with the device, mkfs and the first mount are
\* those of AufsFormat: what is proved there holds for the whole life of a device.
THEOREM DeviceImplementsFormat == DeviceSpec => FormatSpec
<1>1. DeviceInit => FormatInit
  BY DEF DeviceInit
<1>2. [DeviceNext]_deviceLife => [FormatNext]_formatVars
  BY DeviceStep
<1> QED
  BY <1>1, <1>2, PTL DEF DeviceSpec, FormatSpec

\* On the way to the device the formatter asks for the first inode and the first
\* zone bit by bit, and its assertions hold for every configuration it accepts.
THEOREM MkfsNeverAborts ==
  ASSUME ByteSizes
  PROVE  DeviceSpec => []RootGetsOne
<1>1. FormatInv => RootGetsOne
  BY DEF FormatInv, LayoutInv, RootGetsOne
<1> QED
  BY <1>1, FormatInvHolds, DeviceImplementsFormat, PTL

\* The zones, the inodes and the blocks of the cache stay apart on a device that
\* mkfs has written through the cache and the kernel has mounted.
THEOREM DeviceApart ==
  ASSUME ByteSizes, WholeBlocks
  PROVE  DeviceSpec => [](ZonesApart /\ InodesInTable /\ OneCopy)
<1>1. LayoutInv => ZonesApart /\ InodesInTable
  <2>1. LayoutInv /\ phase = "mounted" => BdevBlockSize(config.device) = BlockSize(config)
    BY SameBlockSize DEF LayoutInv, DeviceOK
  <2> QED
    BY <2>1, MountedZonesApart, MountedInodesInTable
<1>2. FormatInv => ZonesApart /\ InodesInTable /\ OneCopy
  BY <1>1, OneCopyInv DEF FormatInv
<1> QED
  BY <1>2, FormatInvHolds, DeviceImplementsFormat, PTL

-----------------------------------------------------------------------------
(***************************************************************************)
(* The buffers of the maps                                                 *)
(***************************************************************************)
\* Where the kernel may have map buffers of its own.
Reading == {"bitmaps", "magic", "blocksize", "root", "d_make_root", "mounted"}

\* Where it has all of them.
HaveMaps == Reading \ {"bitmaps"}

\* Where it has looked at the magic number as well.
Ours == HaveMaps \ {"magic"}

\* What is on the device has two maps or none, and two if it is ours.
DiskOK ==
  /\ disk.zmaps \in {0, 1} /\ disk.imaps = disk.zmaps
  /\ disk.magic => disk.zmaps = 1
  /\ phase \in {"formatted", "mounted"} => disk = DiskOf(FillSuper(config), config)

\* Each buffer that was read is held; while nothing has failed exactly once, and no
\* other is.
RefsInv ==
  /\ refs \in [{0, 1, 2} -> Int] /\ read \in Nat
  /\ mount # "idle" => Done
  /\ mount \in {"kzalloc", "sb_bread", "map"} => read = 0
  /\ mount = "bitmaps" => read <= Maps
  /\ mount \in HaveMaps => read = Maps
  /\ mount \in Ours => Maps = 2
  /\ \A b \in {1, 2} : refs[b] >= 0 /\ (mount \in Reading /\ b <= read => refs[b] >= 1)
  /\ clean => /\ refs[0] = 0
              /\ \A b \in {1, 2} : refs[b] = IF mount \in Reading /\ b <= read THEN 1 ELSE 0

\* What a clean kernel holds is what it has read.
LEMMA RefsInvHolds == RefsInv => MapsHeld
<1> SUFFICES ASSUME RefsInv, NEW b \in {0, 1, 2}
             PROVE  /\ mount = "mounted" /\ b \in MapBlocks => refs[b] >= 1
                    /\ mount = "mounted" /\ clean => refs[b] = IF b \in MapBlocks THEN 1 ELSE 0
                    /\ mount = "idle" /\ clean => refs[b] = 0
  BY DEF RefsInv, MapsHeld
<1>1. mount = "mounted" => read = 2 /\ mount \in Reading
  BY DEF RefsInv, HaveMaps, Ours, Reading
<1>2. mount = "idle" => mount \notin Reading
  BY DEF Reading
<1> QED
  BY <1>1, <1>2 DEF RefsInv, MapBlocks

\* A device of ours has one block for each map.
LEMMA OurDisk ==
  ASSUME NEW c
  PROVE  LET d == DiskOf(FillSuper(c), c) IN d.zmaps = 1 /\ d.imaps = 1 /\ d.magic
  BY DEF DiskOf, FillSuper, NumInodeMapBlocks

\* mkfs leaves a foreign device, or one of ours.
LEMMA DiskStep ==
  ASSUME ByteSizes, FormatInv, DiskOK, [DeviceNext]_deviceLife
  PROVE  DiskOK'
<1>1. FormatInv'
  BY DeviceStep, FormatInvStep
<1>2. CASE Mkfs
  <2>1. /\ ~Done
        /\ disk' \in CASE phase' = "formatted" -> {DiskOf(dsb', config)}
                       [] phase' = "unwritten" -> {disk, DiskOf(FillSuper(config), config)}
                       [] OTHER -> {disk}
    BY <1>2 DEF Mkfs
  <2>2. phase \notin {"formatted", "mounted"}
    BY <2>1 DEF Done
  <2>3. CASE phase' = "formatted"
    <3>1. Format
      BY DeviceStep, VisibleSteps, <2>2, <2>3 DEF vars, ParseArgs, VerifyConfiguration, aufs_fill_sb
    <3>2. config' = config /\ dsb' = FillSuper(config)
      BY <3>1 DEF Format
    <3>3. disk' = DiskOf(FillSuper(config'), config')
      BY <2>1, <2>3, <3>2
    <3> QED
      BY <3>3, OurDisk DEF DiskOK
  <2>4. CASE phase' = "unwritten"
    <3>1. disk' = disk \/ disk' = DiskOf(FillSuper(config), config)
      BY <2>1, <2>4
    <3> QED
      BY <2>4, <3>1, OurDisk DEF DiskOK
  <2>5. CASE phase' \notin {"formatted", "unwritten"}
    <3>1. disk' = disk
      BY <2>1, <2>5
    <3>2. phase' # "mounted"
      <4>1. phase # "formatted" /\ phase # "mounted"
        BY <2>2
      <4> QED
        BY <4>1, DeviceStep, VisibleSteps DEF vars, ParseArgs, VerifyConfiguration, Format, aufs_fill_sb
    <3> QED
      BY <2>5, <3>1, <3>2 DEF DiskOK
  <2> QED
    BY <2>3, <2>4, <2>5
<1>3. CASE Kernel
  <2>1. disk' = disk /\ (aufs_fill_sb \/ UNCHANGED vars)
    BY <1>3 DEF Kernel
  <2>2. config' = config /\ (phase' = phase \/ phase = "formatted")
    BY <2>1 DEF aufs_fill_sb, vars
  <2> QED
    BY <2>1, <2>2 DEF DiskOK
<1>4. CASE UNCHANGED deviceLife
  BY <1>4 DEF DiskOK, deviceLife, formatVars, vars
<1> QED
  BY <1>2, <1>3, <1>4 DEF DeviceNext

\* The steps that touch no buffer: the module, the inodes, and the mount up to the
\* maps, however it fails.
LEMMA RefsKept ==
  ASSUME RefsInv, DiskOK, Done', disk' = disk,
         \/ aufs_inode_cache_create \/ register_filesystem \/ unregister_filesystem
         \/ aufs_fini \/ aufs_free_callback \/ aufs_inode_alloc \/ aufs_inode_free
         \/ aufs_mount \/ AllocSuper \/ ReadSuper
  PROVE  RefsInv'
<1> USE DEF Reading, HaveMaps, Ours, Maps, bufferVars, slabVars, Goto, ReturnNull
<1>1. CASE \/ aufs_inode_cache_create \/ register_filesystem \/ unregister_filesystem
           \/ aufs_fini \/ aufs_free_callback \/ aufs_inode_alloc \/ aufs_inode_free
  <2>1. UNCHANGED <<mount, refs, read, clean>>
    BY <1>1 DEF aufs_inode_cache_create, register_filesystem, unregister_filesystem,
         aufs_fini, aufs_inode_cache_destroy, aufs_free_callback, aufs_inode_alloc, aufs_inode_free
  <2> QED
    BY <2>1 DEF RefsInv
<1>2. CASE aufs_mount
  BY <1>2 DEF RefsInv, aufs_mount
<1>3. CASE AllocSuper
  BY <1>3 DEF RefsInv, AllocSuper
<1>4. CASE ReadSuper
  BY <1>4 DEF RefsInv, ReadSuper
<1> QED
  BY <1>1, <1>2, <1>3, <1>4

\* The steps that read the maps.
LEMMA RefsRead ==
  ASSUME RefsInv, DiskOK, Done', disk' = disk, AllocMap \/ ReadMap \/ SetBits \/ TestMagic
  PROVE  RefsInv'
<1>0. Maps \in {0, 2} /\ Maps' = Maps /\ (disk.magic => Maps = 2)
  BY DEF DiskOK, Maps
<1> USE DEF Reading, HaveMaps, Ours, bufferVars, slabVars, Goto, ReturnNull
<1>1. CASE AllocMap
  BY <1>0, <1>1 DEF RefsInv, AllocMap
<1>2. CASE ReadMap
  <2>1. read \in {0, 1} /\ NextMap \in {1, 2} /\ mount = "bitmaps"
    BY <1>0, <1>2 DEF ReadMap, RefsInv, NextMap
  <2>2. CASE /\ mount' = "bitmaps" /\ read' = read + 1 /\ refs' = [refs EXCEPT ![NextMap] = @ + 1]
             /\ clean' = clean
    <3>1. refs' \in [{0, 1, 2} -> Int] /\ read' \in Nat /\ read' <= Maps
      BY <1>0, <1>2, <2>1, <2>2 DEF RefsInv, ReadMap
    <3>2. \A b \in {0, 1, 2} : refs'[b] = IF b = read + 1 THEN refs[b] + 1 ELSE refs[b]
      BY <2>1, <2>2 DEF RefsInv, NextMap
    <3>3. \A b \in {1, 2} : refs'[b] >= 0 /\ (b <= read' => refs'[b] >= 1)
      BY <2>1, <2>2, <3>2 DEF RefsInv
    <3>4. clean' => refs'[0] = 0 /\ \A b \in {1, 2} : refs'[b] = IF b <= read' THEN 1 ELSE 0
      BY <2>1, <2>2, <3>2 DEF RefsInv
    <3> QED
      BY <1>0, <2>2, <3>1, <3>3, <3>4 DEF RefsInv
  <2>3. CASE /\ mount' = "oops" /\ clean' = FALSE /\ read' = read
             /\ refs' = [b \in DOMAIN refs |-> IF b <= read THEN refs[b] - 1 ELSE refs[b]]
    BY <1>0, <2>1, <2>3 DEF RefsInv
  <2> QED
    BY <1>2, <2>2, <2>3 DEF ReadMap
<1>3. CASE SetBits
  BY <1>0, <1>3 DEF RefsInv, SetBits
<1>4. CASE TestMagic
  BY <1>0, <1>4 DEF RefsInv, TestMagic
<1> QED
  BY <1>1, <1>2, <1>3, <1>4

\* The rest of the mount, and the unmount.
LEMMA RefsRest ==
  ASSUME RefsInv, DiskOK, Done', disk' = disk, SetBlocksize \/ GetRoot \/ MakeRoot \/ aufs_put_super
  PROVE  RefsInv'
<1>0. Maps \in {0, 2} /\ Maps' = Maps
  BY DEF DiskOK, Maps
<1> USE DEF Reading, HaveMaps, Ours, bufferVars, slabVars, Goto, ReturnError
<1>1. CASE SetBlocksize
  BY <1>0, <1>1 DEF RefsInv, SetBlocksize
<1>2. CASE GetRoot
  BY <1>0, <1>2 DEF RefsInv, GetRoot
<1>3. CASE MakeRoot
  BY <1>0, <1>3 DEF RefsInv, MakeRoot
<1>4. CASE aufs_put_super
  <2>1. Maps = 2 /\ read = 2 /\ mount = "mounted" /\ read' = read /\ mount' \in {"idle", "oops"}
    BY <1>4 DEF aufs_put_super, RefsInv
  <2>2. CASE /\ refs' = [b \in DOMAIN refs |-> IF b \in 1 .. Maps THEN refs[b] - 1 ELSE refs[b]]
             /\ clean' = clean
    BY <1>0, <2>1, <2>2 DEF RefsInv
  <2>3. CASE refs' = refs /\ clean' = FALSE
    BY <1>0, <2>1, <2>3 DEF RefsInv
  <2> QED
    BY <1>4, <2>2, <2>3 DEF aufs_put_super
<1> QED
  BY <1>1, <1>2, <1>3, <1>4

\* While mkfs runs nothing is mounted; when it has ended it does not start again.
LEMMA RefsStep ==
  ASSUME ByteSizes, FormatInv, DiskOK, RefsInv, [DeviceNext]_deviceLife
  PROVE  RefsInv'
<1>1. CASE Mkfs
  <2>1. mount = "idle" /\ UNCHANGED superVars
    BY <1>1 DEF Mkfs, RefsInv
  <2>2. UNCHANGED <<mount, refs, read, clean>>
    BY <2>1 DEF superVars, bufferVars
  <2> QED
    BY <2>1, <2>2 DEF RefsInv, Reading, HaveMaps, Ours
<1>2. CASE Kernel
  <2>1. Done /\ SuperNext /\ disk' = disk /\ (aufs_fill_sb \/ UNCHANGED vars)
    BY <1>2 DEF Kernel
  <2>2. Done'
    BY <2>1 DEF Done, aufs_fill_sb, vars
  <2> QED
    BY <2>1, <2>2, RefsKept, RefsRead, RefsRest DEF SuperNext
<1>3. CASE UNCHANGED deviceLife
  <2>1. UNCHANGED <<mount, refs, read, clean, disk, phase>>
    BY <1>3 DEF deviceLife, formatVars, vars, superVars, bufferVars
  <2> QED
    BY <2>1 DEF RefsInv, Maps, Done
<1> QED
  BY <1>1, <1>2, <1>3 DEF DeviceNext

\* At the start nothing is held, and the device is foreign.
LEMMA DeviceStart ==
  ASSUME DeviceInit
  PROVE  FormatInv /\ DiskOK /\ RefsInv
<1>1. FormatInv
  BY FormatInvInit DEF DeviceInit
<1>2. phase = "start"
  BY DEF DeviceInit, FormatInit, Init
<1>3. DiskOK
  BY <1>2 DEF DeviceInit, ForeignDisks, DiskOK
<1>4. RefsInv
  BY DEF DeviceInit, SuperInit, RefsInv, MapBlocks, Reading, HaveMaps, Ours
<1> QED
  BY <1>1, <1>3, <1>4

\* For any number of mounts that fail anywhere or succeed, of any device that mkfs
\* has written or not: a mounted device has every map buffer, and a kernel whose
\* mounts all succeeded has each of them once, and none after the unmount.
THEOREM MapBuffersHeld ==
  ASSUME ByteSizes
  PROVE  DeviceSpec => []MapsHeld
<1> DEFINE I == FormatInv /\ DiskOK /\ RefsInv
<1>1. DeviceInit => I
  BY DeviceStart
<1>2. I /\ [DeviceNext]_deviceLife => I'
  BY DeviceStep, FormatInvStep, DiskStep, RefsStep
<1>3. I => MapsHeld
  BY RefsInvHolds
<1> QED
  BY <1>1, <1>2, <1>3, PTL DEF DeviceSpec

\* Setting the block size detaches the buffers exactly if it changes it.
AttachedInv ==
  mount \in {"root", "d_make_root", "mounted"} => attached = (disk.bsize = disk.bdev)

\* Only SetBlocksize and the next mount change it, and mkfs has ended before both.
LEMMA AttachedStep ==
  ASSUME RefsInv, AttachedInv, [DeviceNext]_deviceLife
  PROVE  AttachedInv'
<1> USE DEF bufferVars, slabVars, Goto, ReturnNull, ReturnError
<1>1. CASE Mkfs
  BY <1>1 DEF Mkfs, RefsInv, AttachedInv, superVars
<1>2. CASE Kernel
  <2>1. SuperNext /\ disk' = disk
    BY <1>2 DEF Kernel
  <2>2. CASE \/ aufs_inode_cache_create \/ register_filesystem \/ unregister_filesystem
             \/ aufs_fini \/ aufs_free_callback \/ aufs_inode_alloc \/ aufs_inode_free
    <3>1. UNCHANGED <<mount, attached>>
      BY <2>2 DEF aufs_inode_cache_create, register_filesystem, unregister_filesystem,
           aufs_fini, aufs_inode_cache_destroy, aufs_free_callback, aufs_inode_alloc,
           aufs_inode_free
    <3> QED
      BY <2>1, <3>1 DEF AttachedInv
  <2>3. CASE aufs_mount \/ AllocSuper \/ ReadSuper \/ AllocMap \/ ReadMap \/ SetBits \/ TestMagic
    <3>1. mount' \notin {"root", "d_make_root", "mounted"}
      BY <2>3 DEF aufs_mount, AllocSuper, ReadSuper, AllocMap, ReadMap, SetBits, TestMagic
    <3> QED
      BY <3>1 DEF AttachedInv
  <2>4. CASE SetBlocksize
    BY <2>1, <2>4 DEF SetBlocksize, AttachedInv
  <2>5. CASE GetRoot \/ MakeRoot \/ aufs_put_super
    BY <2>1, <2>5 DEF GetRoot, MakeRoot, aufs_put_super, AttachedInv
  <2> QED
    BY <2>1, <2>2, <2>3, <2>4, <2>5 DEF SuperNext
<1>3. CASE UNCHANGED deviceLife
  BY <1>3 DEF deviceLife, superVars, AttachedInv
<1> QED
  BY <1>1, <1>2, <1>3 DEF DeviceNext

\* On devices and zones of whole pages, setting the block size of a mount never
\* throws the buffers of the maps out of the page cache: what the allocators mark
\* there is written back.
THEOREM MapBuffersAttached ==
  ASSUME ByteSizes, WholeBlocks
  PROVE  DeviceSpec => []MapsWrittenBack
<1> DEFINE I == FormatInv /\ DiskOK /\ RefsInv /\ AttachedInv
<1>1. DeviceInit => I
  BY DeviceStart DEF DeviceInit, SuperInit, AttachedInv
<1>2. I /\ [DeviceNext]_deviceLife => I'
  BY DeviceStep, FormatInvStep, DiskStep, RefsStep, AttachedStep
<1>3. I => MapsWrittenBack
  <2> SUFFICES ASSUME I, mount = "mounted", phase = "mounted" PROVE attached
    BY DEF MapsWrittenBack
  <2>1. Accepted(config) /\ disk = DiskOf(FillSuper(config), config)
    BY DEF FormatInv, LayoutInv, DeviceOK, DiskOK
  <2>2. disk.bsize = sb_blocksize(FillSuper(config)) /\ disk.bdev = BdevBlockSize(config.device)
    BY <2>1 DEF DiskOf
  <2>3. BdevBlockSize(config.device) = MaxBlockSize /\ config.zoneSize \in ZoneSizes
    BY <2>1, SameBlockSize DEF Accepted, Parsed
  <2>4. sb_blocksize(FillSuper(config)) = MaxBlockSize
    <3>1. FillSuper(config).zone_size = config.zoneSize
      BY DEF FillSuper
    <3>2. config.zoneSize \in Nat /\ config.zoneSize >= MaxBlockSize /\ MaxBlockSize \in Nat
      BY <2>3, LayoutAssumption, ConstantTypes DEF WholeBlocks
    <3> QED
      BY <3>1, <3>2 DEF sb_blocksize
  <2> QED
    BY <2>2, <2>3, <2>4 DEF AttachedInv
<1> QED
  BY <1>1, <1>2, <1>3, PTL DEF DeviceSpec
=============================================================================
