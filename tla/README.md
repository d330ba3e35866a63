# aufs: a verification project in TLA+

aufs is a small Linux file system: a kernel module (`kern/`) and a formatter, `mkfs.aufs`
(`user/`). This directory models its core in TLA+, checks the models with TLC on small
instances, and proves the most important invariants with TLAPS for every value of the
constants. `PROJECT.json` is the index: components, runs, the source lines behind every
definition, findings, hazards, theorems.

## The system

A device is an array of blocks. Block 0 is the super block; the zone map, the inode map and
the inode table follow, and behind an alignment gap come the zones, runs of `zone_size` bytes
that hold file data. An inode has nine zone pointers; there are no indirect ones. Nothing is ever
freed: truncation keeps the zones, and there is no unlink.

| component | state it keeps | operations | talks to | what makes it correct |
|---|---|---|---|---|
| bitmap allocators, `kern/bitmap.c` | zone and inode map buffers, their dirty flags, `bitmap_lock` | `aufs_new_zone`, `aufs_new_inode` | called by file data and names; flusher writes the buffers | no number is given out twice or lost; failure only when full; lock and in-core inode released on every exit; every set bit reaches the device |
| geometry, `kern/aufs.h`, `kern/bitmap.c`, `user/block.hpp` | none | block number arithmetic | mkfs and kernel both compute it | zones do not overlap each other or the metadata |
| file data and inode write back, `kern/inode.c`, `kern/file.c` | in-core inodes with zone pointers, inode table buffer, page cache | `aufs_get_block` behind read, write and write back, `minix_setattr`, `minix_write_inode`, `aufs_inode_get` | allocator, page cache, flusher | what is written is read back; a zone has one owner, also after a crash; everything reaches the device |
| mount and module, `kern/super.c` | `aufs_super_block`, map buffers, slab cache of the inodes | `aufs_init`, `aufs_mount`, `aufs_super_block_read`, `aufs_fill_sb`, `aufs_put_super`, `aufs_inode_alloc`, `aufs_inode_free`, `aufs_fini` | VFS, RCU, module loader | reads what mkfs wrote; holds what it uses, releases what it took, on every exit; no inode outlives its cache |
| formatter, `user/mkfs.cpp`, `user/format.cpp`, `user/block.hpp` | configuration, super block, maps, root inode | `ParseArgs`, `VerifyConfiguration`, `Formatter` | the device, read later by the kernel | accepts only what works; both sides agree on every address |
| block cache and bit iterator, `user/block.cpp`, `user/bit_iterator.hpp` | cached blocks | `GetBlock`, `Sync`; iterator arithmetic | formatter | every change reaches the device once |
| directories, `kern/dir.c` | directory pages, sizes | `minix_add_link`, `minix_find_entry`, `minix_readdir`, `minix_make_empty` | file data, names | a map from names to inode numbers that loses nothing without a crash |
| names, `kern/namei.c` | link counts, dentries | create, mknod, mkdir, tmpfile, lookup | directories, allocator | failed calls leave nothing behind |
| stat, `kern/itree_common.c`; test script | none | | | |

What is hard here: threads race in the allocators and in `aufs_get_block`, which takes no lock;
the dirty marks are set outside the lock while the flusher runs; three copies of every inode and
two of every map (memory, buffer, device) are moved and dropped independently; a crash can come
between any two of these; the limits (nine pointers, a full map, odd sizes) are tested late or
not at all. `hazards` in `PROJECT.json` lists these at their lines.

## Modules

| module | what it is |
|---|---|
| `Allocator` | what an allocator promises its callers: a number nobody else got, or a refusal at a moment when nothing is left |
| `AufsGeometry` | the address arithmetic shared by mkfs and kernel, as operators |
| `AufsBitmap` | `kern/bitmap.c`: both allocators, one action per step no other thread can see inside of |
| `AufsFile` | `kern/inode.c`, `kern/file.c`: page reads and writes, truncation, inode write back, cache eviction, remount, crash |
| `AufsLayout` | mkfs's arguments and checks, what formatting leaves on the device, and the kernel's reading of it |
| `AufsBits` | `user/bit_iterator.hpp`: the iterator's arithmetic, `std::fill` and `std::find` on it |
| `AufsFormat` | `user/format.cpp`, `user/block.cpp`: formatting step by step through the block cache; implements `AufsLayout` |
| `AufsSuper` | `kern/super.c`: the module, a mount with all its exits, inodes and RCU, unmount |
| `AufsDevice` | `AufsFormat` and `AufsSuper` on one device |
| `Directory` | what directories promise: names are added to a map, and only a crash loses some |
| `AufsDir` | `kern/dir.c`, `kern/namei.c`: lookup, create, mkdir, tmpfile and readdir, with the write back of directories, inodes and the inode map, and crashes |
| `MCAufsBitmap`, `MCAufsFile`, `MCAufsLayout`, `MCAufsDevice`, `MCAufsDir` | instances for TLC |
| `AufsGeometryProofs`, `AufsBitmapProofs`, `AufsFileProofs`, `AufsBitsProofs`, `AufsLayoutProofs`, `AufsFormatProofs`, `AufsSuperProofs`, `AufsDirProofs` | theorems |

**AufsBitmap.** A map buffer is the set of its one bits; `zmap`, `imap` are the buffers,
`zmapDirty`, `imapDirty` the dirty flags, `zmapDisk`, `imapDisk` the device. `i`, `j`, `ret` are
the locals of a call, `held` is its reference to the in-core inode, `pc` its place. The actions
`ZoneCall` ... `ZoneReturn` and `InodeCall` ... `InodeReturn` follow the two functions statement
group by statement group; `FlushZoneMap`, `FlushInodeMap` are the block layer. `zonesOut`,
`inodesOut` record what callers were given. `ZoneSpec` and `InodeSpec` state that the functions
implement `Allocator` (a call is granted at `minix_set_bit`; it is refused at the end of the loop,
which is sound only because bits are never cleared).

**AufsFile.** `ptr`, `size`, `idirty`, `incore` are the in-core inode; `table` the buffer of the
inode table, `tableDisk` the device; `zmap`, `zmapDisk` the zone map; `page` the page cache with the
block every page is mapped to, `disk` the data blocks. A call of `aufs_get_block` takes the steps
`GetBlock` (the test), `NewZone` or `NewZoneFull`, `StorePtr`, `MapBh`; other threads run in between.
`MapBh` may use the pointer it tested or stored, or read it again: the code races on it without a
lock and the compiler may do either. An index behind the pointers is an undefined read:
`GetBlockTooLarge` and `GetBlockWild` are its outcomes. A page is a block and holds what one write
stored. `aufs_new_zone` is one step, as `ZoneSpec` allows. What the VFS guarantees is taken as given: the
page lock around `aufs_get_block`, `i_rwsem` around writes and truncation, dirty pages and inodes are
written before they are dropped. `want` and `lost` are history: what a page should read, and whether a
crash lost zone map bits.

**AufsLayout.** One behaviour is one device: `ParseArgs`, `VerifyConfiguration`, `Format` (or `Abort`, if an assertion of
`MkRootDir` fails), `aufs_fill_sb`.
`zoneMap`, `inodeMap` are the maps on the device, `zmap`, `imap` the kernel's buffers. The kernel reads them before it
sets its block size, so with the block size of the block device (`BdevBlockSize`); where that is not mkfs's, the buffers
hold other bytes, of which zeros and the two maps are representatives.
The byte sizes of the code are constants, so that TLC uses sizes divided by 64 (blocks of 64 "bytes"
with 64 inodes of one); `Word` stands for 2^32 and is scaled so that the product wraps at the zone size at
which it wraps in the code. `NumZoneMapBlocks` and `NumInodeMapBlocks` are 1, as `ParseArgs` fixes them.

**AufsFormat.** `blocks` are the `Block` objects, `m_cache` those in the cache, `ptr` the `shared_ptr`s that `SuperBlock`, `Inode` and
`MkRootDir` hold, `device` what is on the device, `step` the place in the program. `GetBlock` reads a block or, above the
threshold, writes all cached ones first and drops those nobody holds; a stream on which a write fails writes nothing any more and
nobody notices, which ends in the phase `unwritten`. Map blocks are filled and searched through `AufsBits`. Both allocators
search to an end eight times too far (`SearchEnd`); behind the buffer `Find` may answer anything. What was on the device before is arbitrary.
The refinement `LayoutSpec` hides all this: until the cache is destroyed the layout is still `verified`.

**AufsSuper.** `mount` is where the mounting task is, `memory` its `struct aufs_super_block`, `refs` the references to the buffers of super
block and maps, `attached` whether the map buffers belong to the page cache, `inodes` and `dying` count the `struct aufs_inode`s and those
handed to RCU. Every allocation, read and call may fail, and each exit does what the code does: `ReturnNull` ends in the null pointer
dereference of `aufs_fill_sb`, `ReturnError` leaves everything behind because `aufs_put_super` is called only for a super block with a
root. `aufs_put_super` reads `asb` after `kfree`: it finds the old contents, zeros, or a wild pointer. `clean` is history: none of this has happened.

**AufsDevice.** mkfs runs first, then the kernel; `disk` is the part of the device both see: a foreign device stays one when mkfs
refuses it, and a device on which a write failed may have the super block or not. The successful end of the first mount is the step
`aufs_fill_sb` of `AufsLayout`.

**AufsDir.** A directory is its entries, `PerPage` to a page: `ents` is the page cache, `pdirty` its dirty pages, `entsDisk` the device;
`incore`, `mode`, `size`, `nlink`, `idirty` are the inodes, `table` and `imap` the buffers of inode table and inode map. A call is
`CallCreate` or `CallTmpfile`, then `NewInode` or `NewInodeFull`, `minix_make_empty` for a directory, then `minix_add_link` or `AddLinkFails`;
`op` holds its arguments and what the directory was like before it. The search of `minix_add_link` is one step (the VFS holds the
directory's lock), its result is the least slot in `AddLinkStops`: the first hole, the slot at `i_size`, or an entry of the name.
The entries that mkfs left (two within the size, one behind it, all with big endian numbers) are the initial contents of the root.
`DirectorySpec` maps the entries that a lookup can find, in memory or on the device, to the map of `Directory`.
`aufs_new_inode` is one step, as `InodeSpec` allows. `Reachable` is the VFS's path walk: calls come only for a
directory in memory that a path leads to, never for one that `mkdir` is still making. A thread that dereferences the null inode in `minix_mknod` stays at `oops` and keeps the lock.

## Runs

| run | shows | bounds |
|---|---|---|
| `bitmap` | no zone or inode number is given out twice, given out while in use, or lost; the "shouldn't happen" exit is not reached; no exit leaks the in-core inode; write back cannot miss a bit although buffers are marked outside the lock; both functions implement `Allocator`; every call returns; a granted zone's bit reaches the device | 2 threads, maps of 2 blocks of 2 bits, one bit of each block in use: calls cross blocks, meet in one block, exhaust the maps |
| `file_append` | without holes: written data is read back across reclaim, eviction, remount; pages are mapped to the file's own zone; no zone leaks; pointers are never replaced | 2 threads, 1 file, 2 zones of 2 blocks, 3 pages; page 0 has two contents, so a lost overwrite shows |
| `file_live` | data, inode record and zone map bit of a write all reach the device | 2 threads, 2 pages of one zone |
| `file_limits` | with holes, an oversized page, too few zones: a zone has one owner across crashes as long as no zone map bit is lost; while the map's buffer is clean, a crash is harmless | 2 threads, 1 file, 2 pointers, 3 pages, 1 zone |
| `dir_crash` | `BUG()` in `minix_add_link` is not reached; an inode number has one name, in memory or on the device, and is marked in the map; the directory implements `Directory`: no order of write back, eviction and remount loses, changes or doubles a name, and a crash only takes names away | 2 threads, 2 names, temporary files, 2 pages of 3 entries (the root fills its first page, then needs the second), 3 free inode numbers, so that one is left after a crash; a crash at any step |
| `dir_names` | every name leads to an inode; a failed call leaves the directory as it was; a reader that comes to the end has seen every name once | 1 thread, 1 reader, 2 names, files, directories, refused types, temporary files, 1 page of 3 entries, 2 free inode numbers: both run out |
| `device` | the formatter implements `AufsLayout`, for any old contents and any moment at which the cache writes, and ends; mkfs's assertions hold; kernel and mkfs agree; zones, metadata, root zone are apart; every inode is in the table; the cache has one object for a block; a mounted device holds its map buffers, once if nothing failed, and they are written back; no inode outlives the slab cache; unloading the module ends | zone sizes of 1 to 4 blocks and one that is no power of two; devices for few zones, for some and for more than the map has bits, all a whole number of blocks (see Findings); zone counts below, at and above the limit; a cache of more than two blocks writes (mkfs touches five, which the real threshold of 256 never meets); 2 mounts, 2 inodes, so that one mount follows a failed or an undone one while an inode still waits for RCU |
| `file_holes`, `file_full`, `layout_small_zones`, `layout_device`, `mount_failed` | the code departs from what its comments, messages and tests say (see Findings) | the smallest instances that show it |

`file_limits` uses a view that hides page contents and the blocks cached pages are mapped
to, which no step on zone pointers or maps depends on, and stops at a crash that lost zone map bits, after which
its properties claim nothing; `dir_crash` stops likewise at a crash that lost inode map bits. Threads, files and names are symmetric in the runs that say so; they check no liveness.
Deadlock is checked in all runs but those of a device (`device`, `mount_failed` and the two of `AufsLayout`), where the bounds or a refusal are the end, and `dir_names`, where a
thread that stopped in `minix_mknod` holds the directory's lock for good.

"Without holes" (`AllowHoles = FALSE`) restricts the workload, not the code: a write starts at most at
the end of the file and truncation does not extend it. `file_holes` shows that `ReadBack` needs it. Without
holes `NoZoneLeaks` and `PtrStable` hold as well, although `aufs_get_block` takes no lock: every page
below the file's size has its zone, so only the writer, who holds `i_rwsem`, finds a zero pointer.

**Fairness.** Threads inside a call keep running (weak fairness of their steps). The kernel's spin locks
are queued, hence strong fairness of taking `bitmap_lock`. The flusher visits dirty inodes, pages and buffers
again and again (weak fairness; strong for a page, whose lock others may hold whenever it looks: page locks are
queued too). RCU runs its callbacks, the task that unloads the module goes on after `rcu_barrier`, and mkfs, a single process, is not stopped. Nothing is assumed of new calls, reclaim, eviction, unmount.

## Findings

1. `kern/inode.c:45` stores a new zone pointer without marking the inode dirty. A write into a hole is lost when
   the inode leaves memory (`file_holes`).
2. `kern/bitmap.c:41` returns 0 for a full map, and `aufs_get_block` uses it as a block number: the page is mapped
   to the super block or a map (`file_full`).
3. `kern/super.c:36` computes the block size from a field not yet read: zones below 4096 bytes, which mkfs accepts,
   do not work (`layout_small_zones`).
4. `user/mkfs.cpp:35` neither counts the metadata nor computes in more than 32 bits (`layout_device`).
5. `kern/super.c:161` uses `asb` before the test for NULL: a mount of anything but aufs, or one that runs out of memory, kills
   the mounting task instead of returning an error (`mount_failed`).

The maps are also read before the block size is set (`kern/super.c:91`, `169`). A device whose size is a multiple of
4096 starts with blocks of 4096 and zones of at least that size are safe, which `device` assumes; on other devices the
kernel takes other bytes for its maps, and keeps them in buffers that setting the block size has detached from the device.

In `AufsDir`, without a run of their own because no comment, test or assertion of the code speaks of them:
`minix_mknod` uses its inode before the NULL test (`kern/namei.c:87`), so create with no inode number left stops with the
directory locked; every failure after `aufs_new_inode` leaks the inode number, and a refused type the in-core inode too (`kern/namei.c:93`);
link counts are not kept on the device, so a directory read again has one link; after two crashes a directory can hold one name twice:
the first cuts off an entry whose page was written but not the size, the second brings the size but not the page that overwrote
it (`dir_crash` therefore has one crash); the numbers of `.` and `..` of the root are big endian (`user/format.cpp:246`)
and read in native order (`kern/dir.c:346`).

Likewise in `AufsFile`: `kern/inode.c:41` reads `ai_zone_ptr[block_idx]` before it tests `block_idx`, so a page behind the last pointer
is mapped to whatever lies there instead of being refused. In `AufsSuper`: two exits of `aufs_super_block_read` release the super block twice, the one for a wrong
magic number releases no map buffer, a mount that fails later is not undone, `s_sbh` is kept without a reference, and `aufs_put_super` uses `asb` after `kfree` (`kern/super.c:14-21`).
In `AufsFormat`: failed writes are not noticed and mkfs returns 0 (`user/block.cpp:58`; the `PANIC` of the destructor needs an exception
that the streams do not throw), both allocators search far behind the map (`user/format.cpp:126`, `144`), and `AllocateZones` would loop for ever if the first free run were too short
(`user/format.cpp:156`; `MkfsEnds` shows that it is not). The root directory is allocated inside `assert`, so with `NDEBUG` it would not be.
The help text gives 4096 as the default zone size (`user/mkfs.cpp:85`), the program takes 16384 (`93`).

## Proofs

All proofs hold for any number of threads, files, names, zones, map blocks, pointers, mounts and crashes, and any block and zone size; they assume
only the named `ASSUME`s of the modules (`BitmapAssumption`, `FileAssumption`, `DirAssumption` and the like: positive sizes, finite bounds), which
TLC evaluates in the runs, and hypotheses that some theorems name. Those about devices:

- `WholeBlocks`: zones of at least 4096 bytes on a device of a whole number of pages (`MaxBlockSize` stands for 4096). Below it the code is wrong
  (findings 3 and the remark after finding 5), so `ZonesApart`, `InodesInTable` and `MapsWrittenBack` are not true without it.
- `ByteSizes`: bytes of eight bits, and a `size_t` that can count eight times the bytes of a block. `SearchEnd` goes that far; with a smaller
  word its iterator would wrap. The code has 2^64 against 2^15.

The instance of `device` satisfies both, so TLC checks there what the theorems say. Those about the contents of files (`AllowHoles = FALSE`, `Fits`,
`ZoneLeft` or `Roomy`) and the one about names across a crash (`MaxCrashes <= 1`, `[]~lost`) are discussed below; `file_append` and `dir_crash` satisfy them.

**`AufsGeometryProofs`** has the arithmetic: rounding up to an alignment never goes down and is monotonic, division and remainder fit together,
and a zone ends before the next one starts (`ZonesDoNotOverlap`).

**`AufsBitmapProofs`.** `TypeOK` is not inductive alone (a loop index must stay below the map's length); the strengthening is `ControlOK`: the lock's holder is exactly
the thread whose `pc` is between lock and unlock, and what that thread has found (the bit it is about to set is zero)
is still so. Mutual exclusion gives stability: only the holder writes a map. `ControlCorrect` proves it, `TypeCorrect` and `ShouldntHappen` follow
(the exit of `aufs_new_inode` with that comment is unreachable). `ZonesCorrect` and `InodesCorrect` add the accounting
of a map: bits set = bits set at mount + numbers given out + numbers in the hands of a thread, without overlap. `InodeNeverLeaks` says that every
exit has put or returned the in-core inode. `WritebackCorrect` needs the covering of the dirty flags (`ZoneMapCovered`, `InodeMapCovered`): a bit
that the device misses is in a dirty buffer, or its thread has not got to `mark_buffer_dirty`. The refinements `ZoneAllocatorImplemented`
and `InodeAllocatorImplemented` go step by step: setting the bit is the grant, the end of the loop the refusal, everything else a stutter. The refusal is the hard
step, since the lock is dropped between two blocks: `AllocInv` says that the blocks a thread has searched are full, which stays true because no bit is ever cleared.

**`AufsFileProofs`.** `TypeOK` is inductive (`TypeCorrect`). `ZonesStayDisjoint` says that no zone has two owners although
`aufs_get_block` takes no lock, and `CrashIsSafe` that a crash is harmless while the zone map's buffer is clean. Neither is
inductive: after a crash the kernel trusts the map on the device, so one needs to know what that is. `ZoneInv` adds
`ZoneMapWritten`, that the device's map is the buffer whenever the buffer is clean. The argument has two halves. Every step but `NewZone`
only lets the zones of a slot shrink: a pointer moves from a thread to memory, from memory to the inode table, from there to the
device or back, always within its slot (`SlotShrinks`, `AllShrink`). `NewZone` adds one zone to one slot, and a zone that was not
marked, hence belonged to nobody. A crash keeps the map unless the buffer was dirty, in which case `lost` ends the claim.

What a file contains is proved without holes (`AllowHoles = FALSE`), where every page has a zone pointer (`Fits`) and `aufs_new_zone` never finds the map
full (`ZoneLeft`): findings 1 and 2 and the remark on `kern/inode.c:41` show that none of the three can be left out. Under them `PagesOnOwnZones` says that a
page in memory always lies in the zone its file's pointer names, `PointersKept` that no step changes a pointer that is set, and `WritesReadBack` that a read finds what was
last written through any reclaim, write back and eviction, and after crashes that lost no zone map bits. The invariant is `AppendInv`: every page below the size, in memory, in the
buffer and on the device, has its pointer (`InodeOK`), hence a reader never allocates and the writer, who is alone (`CallsApart`), finds the
pointer it saw as zero still zero when it stores (`CallOK`). That is why `aufs_get_block` gets away without a lock, and why a missing `mark_inode_dirty` does no
harm here: the size that grows afterwards marks the inode (`Growing` is the window between). `DataInv` adds that a clean page is the device's and that `Content`,
what the next read would find, is what was written.

`NothingLeaks` says that without crashes every marked zone has an owner. It needs no `ZoneLeft` but `Roomy`, a zone for each pointer: a slot
has at most one zone and a slot that is given one had none, so the marked zones are injected into the slots, and a writer about to allocate leaves one slot
empty (`RoomLeft`, by cardinality). So `ZoneLeft` holds, and `AppendCorrect` states the three theorems above without it. TLC explored `AppendInv` and
`DataInv` with crashes, on instances of up to 3.6 million states, before they were proved.

**`AufsBitsProofs`** shows for every byte size and every `size_t` that `++` and `--` move by one bit (`StepsByOne`, which `Walk` relies
on), that `+` moves by the distance and `-` finds it back, as long as the result is not before the iterator's byte (`AdvanceMoves`),
and that otherwise it is off by exactly 2^64 bits (`AdvanceBackFails`): the code's correction of a negative rest is dead, because the rest is unsigned. mkfs only goes forward.

**`AufsLayoutProofs`.** `LayoutInv` says what each phase has established: the arguments as parsed, the checks of `VerifyConfiguration`, the super block and the maps that
formatting computes from them (`DeviceOK`), the kernel's copies (`KernelOK`). `RootAlwaysGetsOne` follows without a hypothesis. With `WholeBlocks`, `ZonesAlwaysApart` and
`InodesAlwaysInTable` are arithmetic on it: kernel and mkfs compute the same block size, the first zone lies behind the table, and zone `n` is
handed out only if its bit was cleared, for which mkfs counted it.

**`AufsFormatProofs`.** `FormatInv` is `LayoutInv` and, for each step of the program, which blocks are held (`Held`, `Opened`), that
cached objects and pointers agree (`Struct`), and what the blocks that have been filled contain, whether in the cache or already on the device (`DataIs`, `Known`, `Content`). It has to follow
a block through being written, dropped and read again, because the cache may do that at any `GetBlock`. `CacheKeepsOneCopy` is one part of it.
`FormatterImplementsLayout` uses the whole: at the end every block is on the device as `Format` says, or a write has failed and the phase is `unwritten`.

**`AufsSuperProofs`** is about `DeviceSpec`. `SlabSafe` (`SlabOutlivesInodes`) is not inductive: destroying the cache is safe only if
`rcu_barrier` has seen every inode. `ModuleInv` adds that inodes which do not wait for RCU exist exactly while a device is mounted or about to be
(`d_make_root` owns one), and that a mount in progress, mounted or lost keeps the module loaded; so when the module leaves, all inodes are with RCU.
`DeviceImplementsFormat` shows that the kernel's steps after the first mount are stutters of `AufsFormat`; so what is proved there holds for the life of a device
(`MkfsNeverAborts`, `DeviceApart`). `MapBuffersHeld` needs `DiskOK` (what a super block on the device can say) and `RefsInv` (which buffers a mount holds
at each of its steps); `MapBuffersAttached` needs `AttachedInv`: buffers stay in the page cache exactly if mkfs's block size is the device's.

**`AufsDirProofs`.** The inductive invariant `Inv` has three layers, each true as long as less has gone wrong. TLC explored its parts on two instances before they were proved.

- `TypeInv` holds always, after any crashes. With it, the search of `minix_add_link` meets the slot at `i_size` at the latest or runs out of pages (`AddLinkReachesNoBug`).
- As long as no crash has lost inode map bits: `UseInv`, that each number in use (in memory, in an entry here or on the device, in a thread's hands) is marked and has one user,
  and that the device's map is the buffer when that is clean; and `CallInv`, that a call's directory stays in memory and as the call found it (names,
  size, links but for its own `..`), that no other call is in it, and that its new inode is there until it fails. Both depend on each other: eviction spares a call's
  directory only because it is locked, and an inode that is put is nobody else's directory only because numbers have one user. `NumbersNamedOnce`, `FailedCallsUndone` and `TypesKept` follow.
- Until the first crash: `NameInv`, that the record of a clean inode is up to date and every named inode has a type (`NamesNeverDangle`); `RootInv`, that the root's
  entries up to its size are in use, differ in name, and are those of the device where pages are clean; `ReadersInv`, that a reader has counted exactly the names before its position
  (`ReadersSeeNamesOnce`). After a crash the last two are false (see Findings: an old entry can come back), so the theorem does not claim them.

`DirectoriesImplemented` is the refinement: with at most one crash, and as long as it lost no inode map bits, `AufsDir` implements `Directory` for all directories, those that leave
memory and come back included. `RefInv` has what the three layers do not: for every inode `DirOK`, that a clean inode is its record, a clean page the device's up to the
size, that only a directory in memory has dirty pages, that free numbers have no entries and numbers in a thread's hands no names; and until the first crash `NoneBehind`, that
no name lies behind the size and a name on the device is one the next reader finds. Then every step is one of three (`StepKinds`). Most keep the names of every directory (`Kept`),
either because they leave it alone (`DirSameKeeps`), because it has no names (`UnnamedKeeps`), or because it is clean and goes to or comes from the device
(`CleanKeeps`, for lookup, eviction and unmount). `minix_add_link` adds one (`LinkAdded`): the slot it fills is not in use or at the size, the name is new by `CallInv`, the number
by `UseInv`. A crash leaves names that are on the device, which by `NoneBehind` were there (`CrashLoses`). The second crash breaks exactly that, hence `MaxCrashes <= 1`; `RefInv` itself is
proved for any number. TLC explored it with up to two crashes first.

Two rewritings in `AufsDir` serve the proofs and change no behaviour: the assumptions on numbers and on the workload have separate names, and a function
that changes at two points is written as two nested `EXCEPT`s, since tlapm 1.4.5 takes `@` in the second place for the unchanged function's value.

Left to TLC:

- liveness (`CallsReturn`, `GrantReachesDisk`, `WriteReachesDevice`, `MkfsEnds`, `ModuleLeaves`), outside the prover's reach;
- what the code does outside the hypotheses above: the runs that expect a violation.

Every other property of a passing run is stated by a theorem.

## Plan

1. `Allocator`, `AufsGeometry`, `AufsBitmap` with runs and first proofs. Done.
2. `AufsFile` with runs; `ZonesDisjoint` and `CrashSafeWhenClean` proved. Done.
3. `AufsLayout` with runs. Done.
4. `AufsDir`, both `kern/dir.c` and `kern/namei.c`, with runs. Done.
5. `AufsFormat` with `AufsBits`, `AufsSuper`, their composition `AufsDevice`; the abstract `Directory`. Done.
6. Calls in subdirectories, with eviction of directories: by proof, for any set `Parents`; the instances of TLC have one directory. Liveness of names is open.
7. Proofs: the allocators with their refinements, the layout, the formatter and its refinement, mount, the invariants of names and directories. Done.
8. Proofs: `PtrStable`, `NoZoneLeaks`, `PagesMapped`, `ReadBack` without holes; `DirectorySpec` with one crash. Done.

## What is not modelled

I/O errors and memory exhaustion outside mkfs and the mount (but for `new_inode`), `mmap` (its pages go through `aufs_get_block` as
reads do), several devices at once, time stamps other than their effect on the inode's dirty flag, `stat` (`kern/itree_common.c` only rounds a size),
kernel messages, the scanning of the command line, the ownership of the root inode, the test script (a workload).
