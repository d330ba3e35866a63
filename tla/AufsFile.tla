------------------------------ MODULE AufsFile ------------------------------
(***************************************************************************)
(* File data in aufs: from a read or write of a page to the zone on the    *)
(* device that holds it (kern/inode.c, kern/file.c).                       *)
(*                                                                         *)
(* A file has ZONE_PTR_IN_INODE_NUM zone pointers in its in-core inode.    *)
(* aufs_get_block maps page p to block p % BlocksPerZone of the zone that  *)
(* pointer p / BlocksPerZone names, and allocates the zone on the first    *)
(* access of any kind.  The zone pointers travel to the device in three    *)
(* hops: the in-core inode (dirty or clean), the buffer of the inode table *)
(* block, the device; the zone map travels on its own, and so do the data  *)
(* pages.  The flusher, reclaim, the shrinker, unmount and crashes move or *)
(* drop each of them independently.                                        *)
(*                                                                         *)
(* Data is abstract: a page is a whole block and holds the content of one  *)
(* write.  aufs_new_zone is one step here (AufsBitmap.tla shows that it    *)
(* may be taken as one).  I/O errors and memory exhaustion are left out.   *)
(* The VFS page cache, i_rwsem, page locks and write back are external.    *)
(***************************************************************************)
EXTENDS Integers, FiniteSets

CONSTANTS
  Threads,        \* threads that read and write files
  Inodes,         \* the files
  ZonePtrNum,     \* ZONE_PTR_IN_INODE_NUM
  BlocksPerZone,  \* asb_zone_size / s_blocksize
  NZones,         \* zones that were free when the file system was made
  MaxPage,        \* largest page offset accessed (bound)
  Versions,       \* distinct contents a page may be given (bound)
  AllowHoles,     \* the workload writes beyond the end of file and truncates
  AllowCrash      \* the machine may crash

ASSUME FileAssumption ==
  /\ ZonePtrNum \in Nat \ {0}
  /\ BlocksPerZone \in Nat \ {0}
  /\ NZones \in Nat
  /\ MaxPage \in Nat
  /\ AllowHoles \in BOOLEAN /\ AllowCrash \in BOOLEAN

Zones == 1 .. NZones
Slots == 0 .. ZonePtrNum - 1
Pages == 0 .. MaxPage
Offsets == 0 .. BlocksPerZone - 1
Sizes == 0 .. MaxPage + 1

\* block_idx and block_offset of aufs_get_block.
BlockIdx(p) == p \div BlocksPerZone
BlockOffset(p) == p % BlocksPerZone

\* A block of the device by the zone it is in.  Zone 0 stands for the blocks
\* from 0 on: the super block and the maps.
Addr == (Zones \cup {0}) \X Offsets
Junk == <<"junk">>
Contents == {Junk} \cup {<<f, p, v>> : f \in Inodes, p \in Pages, v \in Versions}

\* The zone pointers of an inode, and its record in the inode table: reg says
\* that di_mode is that of a regular file.
Ptrs == [Slots -> Zones \cup {0}]
NoPtrs == [s \in Slots |-> 0]
Records == [reg : BOOLEAN, size : Sizes, ptr : Ptrs]
Frames == [here : BOOLEAN, addr : Addr, val : Contents, dirty : BOOLEAN]
NoFrame == [here |-> FALSE, addr |-> <<0, 0>>, val |-> Junk, dirty |-> FALSE]
NoPages == [f \in Inodes |-> [p \in Pages |-> NoFrame]]
Requests == [op : {"read", "write"}, f : Inodes, p : Pages, val : Contents]
NoReq == [op |-> "none"]

VARIABLES
  incore,      \* the inode is in memory
  size,        \* i_size, in pages
  ptr,         \* ai_zone_ptr
  idirty,      \* the in-core inode is dirty
  table,       \* the inode records in the buffer of the inode table block
  tableDirty,  \* that buffer is dirty
  tableDisk,   \* the inode records on the device
  zmap,        \* zones marked in the buffer of the zone map
  zmapDirty,   \* that buffer is dirty
  zmapDisk,    \* zones marked on the device
  page,        \* the page cache, with the block each page is mapped to
  disk,        \* the data blocks on the device
  pc,          \* where every thread is
  req,         \* what it was asked to do
  zone,        \* the zone pointer as it last saw it
  want,        \* history: what the last write of the page stored, or Junk
  lost         \* history: a crash lost zone map bits that were not written yet

inodeVars == <<incore, size, ptr, idirty>>
tableVars == <<table, tableDirty, tableDisk>>
zmapVars == <<zmap, zmapDirty, zmapDisk>>
dataVars == <<page, disk, want>>
vars == <<inodeVars, tableVars, zmapVars, dataVars, pc, req, zone, lost>>

\* Empty files just created by aufs_new_inode: in memory and dirty, with
\* cleared zone pointers; their inode table records are zero from mkfs.
NewRecord == [reg |-> FALSE, size |-> 0, ptr |-> NoPtrs]
Init ==
  /\ incore = [f \in Inodes |-> TRUE]
  /\ size = [f \in Inodes |-> 0]
  /\ ptr = [f \in Inodes |-> NoPtrs]
  /\ idirty = [f \in Inodes |-> TRUE]
  /\ table = [f \in Inodes |-> NewRecord]
  /\ tableDirty = FALSE
  /\ tableDisk = table
  /\ zmap = {} /\ zmapDirty = FALSE /\ zmapDisk = {}
  /\ page = NoPages
  /\ disk = [a \in Addr |-> Junk]
  /\ pc = [t \in Threads |-> "idle"]
  /\ req = [t \in Threads |-> NoReq]
  /\ zone = [t \in Threads |-> 0]
  /\ want = [f \in Inodes |-> [p \in Pages |-> Junk]]
  /\ lost = FALSE
-----------------------------------------------------------------------------
(***************************************************************************)
(* Threads.  A read or a write of a page holds the page's lock from the    *)
(* call of aufs_get_block to the end; a write holds the file's i_rwsem.    *)
(***************************************************************************)
InPage == {"check", "alloc", "store", "map", "copy"}
PageLocked(f, p) ==
  \E t \in Threads : pc[t] \in InPage /\ req[t].f = f /\ req[t].p = p
WriteLocked(f) ==
  \E t \in Threads : pc[t] # "idle" /\ req[t].op = "write" /\ req[t].f = f
InUse(f) == \E t \in Threads : pc[t] # "idle" /\ req[t].f = f

Goto(t, from, to) == pc[t] = from /\ pc' = [pc EXCEPT ![t] = to]
Done(t, from) == Goto(t, from, "idle") /\ req' = [req EXCEPT ![t] = NoReq]

\* generic_file_read_iter finds no page and calls aufs_readpage.  A page that
\* is in the cache is read without a call into aufs.
ReadPage(t, f, p) ==
  /\ incore[f] /\ p < size[f]
  /\ ~page[f][p].here /\ ~PageLocked(f, p)
  /\ Goto(t, "idle", "check")
  /\ req' = [req EXCEPT ![t] = [op |-> "read", f |-> f, p |-> p, val |-> Junk]]
  /\ UNCHANGED <<inodeVars, tableVars, zmapVars, dataVars, zone, lost>>

\* generic_file_write_iter takes i_rwsem.  file_update_time dirties the inode
\* unless its time stamps are already those of the current tick.
WriteFile(t, f, p, v) ==
  /\ incore[f] /\ ~WriteLocked(f)
  /\ AllowHoles \/ p <= size[f]
  /\ Goto(t, "idle", "begin")
  /\ req' = [req EXCEPT ![t] = [op |-> "write", f |-> f, p |-> p, val |-> <<f, p, v>>]]
  /\ idirty' \in {idirty, [idirty EXCEPT ![f] = TRUE]}
  /\ UNCHANGED <<incore, size, ptr, tableVars, zmapVars, dataVars, zone, lost>>

\* minix_write_begin: block_write_begin locks the page and calls aufs_get_block
\* unless the page is mapped already.
WriteBegin(t) ==
  LET f == req[t].f
      p == req[t].p
  IN /\ pc[t] = "begin"
     /\ ~PageLocked(f, p)
     /\ pc' = [pc EXCEPT ![t] = IF page[f][p].here THEN "copy" ELSE "check"]
     /\ UNCHANGED <<inodeVars, tableVars, zmapVars, dataVars, req, zone, lost>>

(***************************************************************************)
(* aufs_get_block.  "create" is ignored, and no lock covers the zone       *)
(* pointer from the test to the store.  A zone is a whole number of blocks *)
(* (AufsLayout.tla), so the two tests of the sizes never fail.             *)
(***************************************************************************)
\* if (!ai_zone_ptr[block_idx]) with block_idx < ZONE_PTR_IN_INODE_NUM.  The
\* variants always allocate, and never do.
GetBlockAlways(t) ==
  /\ Goto(t, "check", "alloc")
  /\ BlockIdx(req[t].p) \in Slots
  /\ UNCHANGED <<inodeVars, tableVars, zmapVars, dataVars, req, zone, lost>>

GetBlockNever(t) ==
  /\ Goto(t, "check", "map")
  /\ BlockIdx(req[t].p) \in Slots
  /\ zone' = [zone EXCEPT ![t] = ptr[req[t].f][BlockIdx(req[t].p)]]
  /\ UNCHANGED <<inodeVars, tableVars, zmapVars, dataVars, req, lost>>

GetBlock(t) ==
  LET f == req[t].f
      s == BlockIdx(req[t].p)
  IN /\ pc[t] = "check" /\ s \in Slots
     /\ pc' = [pc EXCEPT ![t] = IF ptr[f][s] = 0 THEN "alloc" ELSE "map"]
     /\ zone' = [zone EXCEPT ![t] = ptr[f][s]]
     /\ UNCHANGED <<inodeVars, tableVars, zmapVars, dataVars, req, lost>>

\* block_idx is too large: the code has read memory behind the array.  Where
\* that is zero it returns -EIO ...
GetBlockTooLarge(t) ==
  /\ Goto(t, "check", "fail")
  /\ BlockIdx(req[t].p) \notin Slots
  /\ UNCHANGED <<inodeVars, tableVars, zmapVars, dataVars, req, zone, lost>>

\* ... and otherwise it maps the page to the block found there, whatever it is.
GetBlockWild(t) ==
  /\ pc[t] = "check"
  /\ BlockIdx(req[t].p) \notin Slots
  /\ \E a \in Addr :
       /\ page' = [page EXCEPT ![req[t].f][req[t].p] =
                     [here |-> TRUE, addr |-> a, val |-> disk[a], dirty |-> FALSE]]
       /\ IF req[t].op = "read" THEN Done(t, "check")
                                ELSE Goto(t, "check", "copy") /\ UNCHANGED req
  /\ UNCHANGED <<inodeVars, tableVars, zmapVars, disk, want, zone, lost>>

\* aufs_new_zone marks the first free zone and the buffer of the map, or
\* returns 0 when the map is full.  The variants forget either mark.
FirstFree(z) == z \in Zones \ zmap /\ \A y \in Zones \ zmap : z <= y

NewZoneUnmarked(t) ==
  /\ Goto(t, "alloc", "store")
  /\ \/ \E z \in Zones : FirstFree(z) /\ zone' = [zone EXCEPT ![t] = z]
     \/ Zones \subseteq zmap /\ zone' = [zone EXCEPT ![t] = 0]
  /\ UNCHANGED <<inodeVars, tableVars, zmapVars, dataVars, req, lost>>

NewZoneNotDirty(t) ==
  /\ Goto(t, "alloc", "store")
  /\ \E z \in Zones :
       /\ FirstFree(z)
       /\ zmap' = zmap \cup {z}
       /\ zone' = [zone EXCEPT ![t] = z]
  /\ UNCHANGED <<inodeVars, tableVars, zmapDirty, zmapDisk, dataVars, req, lost>>

NewZone(t) ==
  /\ Goto(t, "alloc", "store")
  /\ \E z \in Zones :
       /\ FirstFree(z)
       /\ zmap' = zmap \cup {z}
       /\ zone' = [zone EXCEPT ![t] = z]
  /\ zmapDirty' = TRUE
  /\ UNCHANGED <<inodeVars, tableVars, zmapDisk, dataVars, req, lost>>

NewZoneFull(t) ==
  /\ Zones \subseteq zmap
  /\ Goto(t, "alloc", "store")
  /\ zone' = [zone EXCEPT ![t] = 0]
  /\ UNCHANGED <<inodeVars, tableVars, zmapVars, dataVars, req, lost>>

\* ai_zone_ptr[block_idx] = ...; the inode is not marked dirty.
StorePtr(t) ==
  /\ Goto(t, "store", "map")
  /\ ptr' = [ptr EXCEPT ![req[t].f][BlockIdx(req[t].p)] = zone[t]]
  /\ UNCHANGED <<incore, size, idirty, tableVars, zmapVars, dataVars, req, zone, lost>>

\* map_bh with the zone pointer, which the compiler may read again or keep from
\* the test or the store.  A read then fetches the block; a write of the whole
\* page does not need it.  The variant forgets block_offset.
MapAt(t, offset) ==
  LET f == req[t].f
      p == req[t].p
  IN /\ pc[t] = "map"
     /\ \E z \in {zone[t], ptr[f][BlockIdx(p)]} :
          page' = [page EXCEPT ![f][p] = [here |-> TRUE, addr |-> <<z, offset>>,
                                          val |-> disk[<<z, offset>>], dirty |-> FALSE]]
     /\ zone' = [zone EXCEPT ![t] = 0]
     /\ IF req[t].op = "read" THEN Done(t, "map")
                              ELSE Goto(t, "map", "copy") /\ UNCHANGED req
     /\ UNCHANGED <<inodeVars, tableVars, zmapVars, disk, want, lost>>

MapNoOffset(t) == MapAt(t, 0)
MapBh(t) == MapAt(t, BlockOffset(req[t].p))

\* The pages of a file without those from page n on (truncate_pagecache).
PagesBelow(f, n) == [p \in Pages |-> IF p < n THEN page[f][p] ELSE NoFrame]

\* -EIO: the read fails; the write calls minix_write_failed, which drops the
\* pages behind the end of file.
GetBlockFailed(t) ==
  LET f == req[t].f
  IN /\ Done(t, "fail")
     /\ page' = IF req[t].op = "write" /\ req[t].p + 1 > size[f]
                  THEN [page EXCEPT ![f] = PagesBelow(f, size[f])]
                  ELSE page
     /\ UNCHANGED <<inodeVars, tableVars, zmapVars, disk, want, zone, lost>>

\* generic_write_end: the data, then the size, then the page lock is dropped ...
CopyOneTooFar(t) ==
  LET f == req[t].f
      p == req[t].p
  IN /\ pc[t] = "copy"
     /\ IF p < size[f] THEN Done(t, "copy")
                       ELSE Goto(t, "copy", "grew") /\ UNCHANGED req
     /\ page' = [page EXCEPT ![f][p].val = req[t].val, ![f][p].dirty = TRUE]
     /\ want' = [want EXCEPT ![f][p] = req[t].val]
     /\ size' = [size EXCEPT ![f] = IF p < @ THEN @ ELSE p + 2]
     /\ UNCHANGED <<incore, ptr, idirty, tableVars, zmapVars, disk, zone, lost>>

Copy(t) ==
  LET f == req[t].f
      p == req[t].p
  IN /\ pc[t] = "copy"
     /\ IF p < size[f] THEN Done(t, "copy")
                       ELSE Goto(t, "copy", "grew") /\ UNCHANGED req
     /\ page' = [page EXCEPT ![f][p].val = req[t].val, ![f][p].dirty = TRUE]
     /\ want' = [want EXCEPT ![f][p] = req[t].val]
     /\ size' = [size EXCEPT ![f] = IF p < @ THEN @ ELSE p + 1]
     /\ UNCHANGED <<incore, ptr, idirty, tableVars, zmapVars, disk, zone, lost>>

\* ... and the inode is marked dirty if the size changed.  The variant does not.
GrewClean(t) ==
  /\ Done(t, "grew")
  /\ UNCHANGED <<inodeVars, tableVars, zmapVars, dataVars, zone, lost>>

Grew(t) ==
  /\ Done(t, "grew")
  /\ idirty' = [idirty EXCEPT ![req[t].f] = TRUE]
  /\ UNCHANGED <<incore, size, ptr, tableVars, zmapVars, dataVars, zone, lost>>

-----------------------------------------------------------------------------
(***************************************************************************)
(* Truncation, inode write back and inode cache.                           *)
(***************************************************************************)
\* minix_setattr: truncate_setsize, setattr_copy, mark_inode_dirty.  The zones
\* behind the new end stay allocated and their pointers stay set.
minix_setattr(f, n) ==
  /\ incore[f] /\ ~WriteLocked(f)
  /\ AllowHoles \/ n <= size[f]
  /\ \A p \in Pages : p >= n => ~PageLocked(f, p)
  /\ IF n = size[f]
       THEN UNCHANGED <<size, page, want>>
       ELSE /\ size' = [size EXCEPT ![f] = n]
            /\ page' = [page EXCEPT ![f] = PagesBelow(f, n)]
            /\ want' = [want EXCEPT ![f] = [p \in Pages |-> IF p < n THEN @[p] ELSE Junk]]
  /\ idirty' = [idirty EXCEPT ![f] = TRUE]
  /\ UNCHANGED <<incore, ptr, tableVars, zmapVars, disk, pc, req, zone, lost>>

\* V2_minix_update_inode copies the in-core inode to its record in the buffer
\* of the inode table block.  The variant copies the size alone.
Record(f) == [reg |-> TRUE, size |-> size[f], ptr |-> ptr[f]]
UpdateSizeOnly(f) == table' = [table EXCEPT ![f].size = size[f]]
UpdateInode(f) == table' = [table EXCEPT ![f] = Record(f)]

\* minix_write_inode, called by the VFS for a dirty inode it has marked clean;
\* with WB_SYNC_ALL it also writes the buffer and waits.
minix_write_inode(f, sync) ==
  /\ incore[f] /\ idirty[f]
  /\ idirty' = [idirty EXCEPT ![f] = FALSE]
  /\ UpdateInode(f)
  /\ tableDirty' = ~sync
  /\ tableDisk' = IF sync THEN table' ELSE tableDisk
  /\ UNCHANGED <<incore, size, ptr, zmapVars, dataVars, pc, req, zone, lost>>

aufs_inode_fill(f) ==
  /\ size' = [size EXCEPT ![f] = table[f].size]
  /\ ptr' = [ptr EXCEPT ![f] = table[f].ptr]

\* aufs_inode_get for an inode that is not in memory.  A record that was never
\* written has no file type: it is refused with -EIO and nothing changes.
aufs_inode_get(f) ==
  /\ ~incore[f]
  /\ table[f].reg
  /\ incore' = [incore EXCEPT ![f] = TRUE]
  /\ aufs_inode_fill(f)
  /\ UNCHANGED <<idirty, tableVars, zmapVars, dataVars, pc, req, zone, lost>>

\* The inode shrinker drops a clean inode that nobody uses, with its pages.
EvictInode(f) ==
  /\ incore[f] /\ ~idirty[f] /\ ~InUse(f)
  /\ \A p \in Pages : ~page[f][p].dirty
  /\ incore' = [incore EXCEPT ![f] = FALSE]
  /\ size' = [size EXCEPT ![f] = 0]
  /\ ptr' = [ptr EXCEPT ![f] = NoPtrs]
  /\ page' = [page EXCEPT ![f] = [p \in Pages |-> NoFrame]]
  /\ UNCHANGED <<idirty, tableVars, zmapVars, disk, want, pc, req, zone, lost>>
-----------------------------------------------------------------------------
(***************************************************************************)
(* Page and buffer write back, page reclaim, unmount and crash.            *)
(***************************************************************************)
\* aufs_writepage: the buffer of a dirty page is mapped, so aufs_get_block is
\* not called again.
aufs_writepage(f, p) ==
  /\ page[f][p].dirty /\ ~PageLocked(f, p)
  /\ page' = [page EXCEPT ![f][p].dirty = FALSE]
  /\ disk' = [disk EXCEPT ![page[f][p].addr] = page[f][p].val]
  /\ UNCHANGED <<inodeVars, tableVars, zmapVars, want, pc, req, zone, lost>>

ReclaimPage(f, p) ==
  /\ page[f][p].here /\ ~page[f][p].dirty /\ ~PageLocked(f, p)
  /\ page' = [page EXCEPT ![f][p] = NoFrame]
  /\ UNCHANGED <<inodeVars, tableVars, zmapVars, disk, want, pc, req, zone, lost>>

FlushTable ==
  /\ tableDirty
  /\ tableDirty' = FALSE /\ tableDisk' = table
  /\ UNCHANGED <<inodeVars, table, zmapVars, dataVars, pc, req, zone, lost>>

FlushZoneMap ==
  /\ zmapDirty
  /\ zmapDirty' = FALSE /\ zmapDisk' = zmap
  /\ UNCHANGED <<inodeVars, tableVars, zmap, dataVars, pc, req, zone, lost>>

\* Memory is gone; the next mount reads the maps and the inodes again.
LoseMemory ==
  /\ incore' = [f \in Inodes |-> FALSE]
  /\ size' = [f \in Inodes |-> 0]
  /\ ptr' = [f \in Inodes |-> NoPtrs]
  /\ idirty' = [f \in Inodes |-> FALSE]
  /\ table' = tableDisk /\ tableDirty' = FALSE
  /\ zmap' = zmapDisk /\ zmapDirty' = FALSE
  /\ page' = NoPages
  /\ UNCHANGED <<tableDisk, zmapDisk, disk>>

\* umount waits until everything that is marked dirty has been written; mount.
Remount ==
  /\ \A t \in Threads : pc[t] = "idle"
  /\ ~tableDirty /\ ~zmapDirty
  /\ \A f \in Inodes : ~idirty[f] /\ \A p \in Pages : ~page[f][p].dirty
  /\ LoseMemory
  /\ UNCHANGED <<want, pc, req, zone, lost>>

\* A crash, and the mount after it.
Crash ==
  /\ AllowCrash
  /\ LoseMemory
  /\ pc' = [t \in Threads |-> "idle"]
  /\ req' = [t \in Threads |-> NoReq]
  /\ zone' = [t \in Threads |-> 0]
  /\ want' = [f \in Inodes |-> [p \in Pages |-> Junk]]
  /\ lost' = (lost \/ zmapDirty)
-----------------------------------------------------------------------------
ThreadStep(t) ==
  \/ WriteBegin(t) \/ GetBlock(t) \/ GetBlockTooLarge(t) \/ GetBlockWild(t)
  \/ NewZone(t) \/ NewZoneFull(t) \/ StorePtr(t) \/ MapBh(t)
  \/ GetBlockFailed(t) \/ Copy(t) \/ Grew(t)

Next ==
  \/ \E t \in Threads, f \in Inodes, p \in Pages :
       ReadPage(t, f, p) \/ \E v \in Versions : WriteFile(t, f, p, v)
  \/ \E t \in Threads : ThreadStep(t)
  \/ \E f \in Inodes :
       \/ \E n \in Sizes : minix_setattr(f, n)
       \/ \E sync \in BOOLEAN : minix_write_inode(f, sync)
       \/ aufs_inode_get(f)
       \/ EvictInode(f)
  \/ \E f \in Inodes, p \in Pages : aufs_writepage(f, p) \/ ReclaimPage(f, p)
  \/ FlushTable
  \/ FlushZoneMap
  \/ Remount
  \/ Crash

Spec == Init /\ [][Next]_vars

\* Threads inside a call keep running; the flusher visits every dirty inode,
\* page and buffer again and again, and its wait for a page lock, which is
\* queued, ends.
Fairness ==
  /\ \A t \in Threads : WF_vars(ThreadStep(t))
  /\ \A f \in Inodes :
       /\ WF_vars(minix_write_inode(f, FALSE))
       /\ \A p \in Pages : SF_vars(aufs_writepage(f, p))
  /\ WF_vars(FlushTable) /\ WF_vars(FlushZoneMap)

FairSpec == Spec /\ Fairness
-----------------------------------------------------------------------------
(***************************************************************************)
(* Properties                                                              *)
(***************************************************************************)
\* Every variable has its type.
TypeOK ==
  /\ incore \in [Inodes -> BOOLEAN] /\ idirty \in [Inodes -> BOOLEAN]
  /\ size \in [Inodes -> Sizes] /\ ptr \in [Inodes -> Ptrs]
  /\ table \in [Inodes -> Records] /\ tableDisk \in [Inodes -> Records]
  /\ zmap \subseteq Zones /\ zmapDisk \subseteq Zones
  /\ {tableDirty, zmapDirty, lost} \subseteq BOOLEAN
  /\ page \in [Inodes -> [Pages -> Frames]]
  /\ disk \in [Addr -> Contents]
  /\ want \in [Inodes -> [Pages -> Contents]]
  /\ pc \in [Threads -> {"idle", "begin", "fail", "grew"} \cup InPage]
  /\ zone \in [Threads -> Zones \cup {0}]
  /\ req \in [Threads -> Requests \cup {NoReq}]
  /\ \A t \in Threads : pc[t] # "idle" => req[t] \in Requests
  /\ \A t \in Threads : pc[t] \in {"alloc", "store", "map"} => BlockIdx(req[t].p) \in Slots

\* The zones that a slot of a file refers to: in memory, in the inode table
\* buffer, on the device, or about to be stored there by a thread.
ZonesOf(f, s) ==
  ({ptr[f][s], table[f].ptr[s], tableDisk[f].ptr[s]}
    \cup {zone[t] : t \in {u \in Threads : /\ pc[u] = "store" /\ req[u].f = f
                                           /\ BlockIdx(req[u].p) = s}}) \ {0}

\* No zone ever belongs to two slots, of one file or of two, and every zone
\* referred to is marked in use, however reads, writes, write back, eviction,
\* unmount and crashes interleave, as long as no crash loses zone map bits.
ZonesDisjoint ==
  ~lost => /\ \A f \in Inodes, s \in Slots : ZonesOf(f, s) \subseteq zmap
           /\ \A f, g \in Inodes, s, r \in Slots :
                <<f, s>> # <<g, r>> => ZonesOf(f, s) \cap ZonesOf(g, r) = {}

\* Whenever the zone map buffer is clean, a crash is harmless: the device's zone
\* map covers every zone that the device's inode table refers to.
CrashSafeWhenClean ==
  ~lost /\ ~zmapDirty =>
    \A f \in Inodes, s \in Slots : tableDisk[f].ptr[s] \in zmapDisk \cup {0}

\* A page is cached with the block of the device that the file's zone pointer
\* names now, never the super block or the maps and never another file's zone.
PagesMapped ==
  \A f \in Inodes, p \in Pages :
    page[f][p].here =>
      /\ page[f][p].addr[1] # 0
      /\ page[f][p].addr = <<ptr[f][BlockIdx(p)], BlockOffset(p)>>

\* What a read of the page returns: the cached page, or the block on the device.
PtrOf(f) == IF incore[f] THEN ptr[f] ELSE table[f].ptr
SizeOf(f) == IF incore[f] THEN size[f] ELSE table[f].size
Content(f, p) ==
  IF page[f][p].here THEN page[f][p].val
                     ELSE disk[<<PtrOf(f)[BlockIdx(p)], BlockOffset(p)>>]

\* What a write stored is read back, also after the page, the inode or the whole
\* mount is gone from memory, until it is overwritten or truncated.
ReadBack ==
  \A f \in Inodes, p \in Pages :
    want[f][p] # Junk =>
      p < SizeOf(f) /\ (PageLocked(f, p) \/ Content(f, p) = want[f][p])

\* Every zone marked in use is reachable from a file or from a thread that is
\* about to store it: nothing leaks.
NoZoneLeaks ==
  zmap \subseteq UNION {ZonesOf(f, s) : f \in Inodes, s \in Slots}

\* A zone pointer in memory, once set, keeps its value until the inode leaves
\* memory: no later aufs_get_block replaces it.
PtrStable ==
  [][\A f \in Inodes, s \in Slots :
       ptr[f][s] # 0 /\ incore'[f] => ptr'[f][s] = ptr[f][s]]_vars

\* What is found on the device: the page's block by the inode table there.
OnDevice(f, p) == disk[<<tableDisk[f].ptr[BlockIdx(p)], BlockOffset(p)>>]

\* What a write stored reaches the device with the zone pointer and the zone map
\* bit that lead to it, unless it is overwritten or truncated first.
WriteReachesDevice ==
  \A f \in Inodes, p \in Pages, v \in Versions :
    want[f][p] = <<f, p, v>> ~>
      \/ want[f][p] # <<f, p, v>>
      \/ /\ p < tableDisk[f].size
         /\ OnDevice(f, p) = <<f, p, v>>
         /\ tableDisk[f].ptr[BlockIdx(p)] \in zmapDisk
=============================================================================
