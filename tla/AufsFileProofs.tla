--------------------------- MODULE AufsFileProofs ---------------------------
(***************************************************************************)
(* Proofs about AufsFile: types, one owner for every zone, crash safety,   *)
(* and pages, pointers, data and zones of files that are only appended to. *)
(***************************************************************************)
EXTENDS AufsFile, FiniteSetTheorems, TLAPS

-----------------------------------------------------------------------------
(***************************************************************************)
(* Types                                                                   *)
(***************************************************************************)
\* block_offset is below the number of blocks of a zone.
LEMMA BlockOffsetType ==
  ASSUME NEW p \in Pages
  PROVE  BlockOffset(p) \in Offsets
  BY FileAssumption DEF BlockOffset, Offsets, Pages

\* A page that is not cached is a frame like any other.
LEMMA NoFrameType == NoFrame \in Frames
<1>1. <<0, 0>> \in Addr
  BY FileAssumption DEF Addr, Offsets, Zones
<1> QED
  BY <1>1 DEF NoFrame, Frames, Contents

\* Cleared zone pointers.
LEMMA NoPtrsType == NoPtrs \in Ptrs
  BY DEF NoPtrs, Ptrs

\* The initial state has its types.
LEMMA InitTypeOK == Init => TypeOK
<1> SUFFICES ASSUME Init PROVE TypeOK
  OBVIOUS
<1>1. NewRecord \in Records
  BY NoPtrsType, FileAssumption DEF NewRecord, Records, Sizes
<1>2. page \in [Inodes -> [Pages -> Frames]]
  BY NoFrameType DEF Init, NoPages
<1>3. 0 \in Sizes
  BY FileAssumption DEF Sizes
<1>4. /\ disk \in [Addr -> Contents]
      /\ want \in [Inodes -> [Pages -> Contents]]
  BY DEF Init, Contents
<1>5. /\ incore \in [Inodes -> BOOLEAN] /\ idirty \in [Inodes -> BOOLEAN]
      /\ {tableDirty, zmapDirty, lost} \subseteq BOOLEAN
  BY DEF Init
<1>6. /\ pc \in [Threads -> {"idle", "begin", "fail", "grew"} \cup InPage]
      /\ zone \in [Threads -> Zones \cup {0}]
      /\ req \in [Threads -> Requests \cup {NoReq}]
      /\ \A t \in Threads : pc[t] = "idle"
  BY DEF Init
<1>7. /\ size \in [Inodes -> Sizes] /\ ptr \in [Inodes -> Ptrs]
      /\ table \in [Inodes -> Records] /\ tableDisk \in [Inodes -> Records]
      /\ zmap \subseteq Zones /\ zmapDisk \subseteq Zones
  BY <1>1, <1>3, NoPtrsType DEF Init
<1> QED
  BY <1>2, <1>4, <1>5, <1>6, <1>7 DEF TypeOK

\* Dropping pages from page n on keeps the type of the rest.
LEMMA PagesBelowType ==
  ASSUME TypeOK, NEW f \in Inodes, NEW n
  PROVE  PagesBelow(f, n) \in [Pages -> Frames]
  BY NoFrameType DEF TypeOK, PagesBelow

\* The steps that start a read or a write.
LEMMA CallTypeOK ==
  ASSUME TypeOK, NEW t \in Threads, NEW f \in Inodes, NEW p \in Pages,
         ReadPage(t, f, p) \/ \E v \in Versions : WriteFile(t, f, p, v)
  PROVE  TypeOK'
<1>1. CASE ReadPage(t, f, p)
  <2>1. [op |-> "read", f |-> f, p |-> p, val |-> Junk] \in Requests
    BY DEF Requests, Contents
  <2> QED
    BY <1>1, <2>1 DEF TypeOK, ReadPage, Goto, inodeVars, tableVars, zmapVars, dataVars, InPage
<1>2. ASSUME NEW v \in Versions, WriteFile(t, f, p, v) PROVE TypeOK'
  <2>1. [op |-> "write", f |-> f, p |-> p, val |-> <<f, p, v>>] \in Requests
    BY DEF Requests, Contents
  <2>2. idirty' \in [Inodes -> BOOLEAN]
    BY <1>2 DEF TypeOK, WriteFile
  <2> QED
    BY <1>2, <2>1, <2>2 DEF TypeOK, WriteFile, Goto, tableVars, zmapVars, dataVars, InPage
<1> QED
  BY <1>1, <1>2

\* What TypeOK says about the request of a thread that is inside a call.
LEMMA RequestType ==
  ASSUME TypeOK, NEW t \in Threads, pc[t] # "idle"
  PROVE  /\ req[t] \in Requests
         /\ req[t].f \in Inodes /\ req[t].p \in Pages /\ req[t].val \in Contents
  BY DEF TypeOK, Requests

\* The steps of aufs_get_block up to the store of the pointer.
LEMMA GetBlockTypeOK ==
  ASSUME TypeOK, NEW t \in Threads,
         \/ WriteBegin(t) \/ GetBlock(t) \/ GetBlockTooLarge(t)
         \/ NewZone(t) \/ NewZoneFull(t) \/ StorePtr(t)
  PROVE  TypeOK'
<1> USE DEF inodeVars, tableVars, zmapVars, dataVars
<1>1. CASE WriteBegin(t)
  BY <1>1 DEF TypeOK, WriteBegin, InPage
<1>2. CASE GetBlock(t)
  <2>1. req[t].f \in Inodes /\ req[t].p \in Pages
    BY <1>2, RequestType DEF GetBlock
  <2>2. ptr[req[t].f][BlockIdx(req[t].p)] \in Zones \cup {0}
    BY <1>2, <2>1 DEF GetBlock, TypeOK, Ptrs
  <2> QED
    BY <1>2, <2>1, <2>2 DEF TypeOK, GetBlock, InPage
<1>3. CASE GetBlockTooLarge(t)
  BY <1>3 DEF TypeOK, GetBlockTooLarge, Goto, InPage
<1>4. CASE NewZone(t)
  BY <1>4 DEF TypeOK, NewZone, FirstFree, Goto, InPage
<1>5. CASE NewZoneFull(t)
  BY <1>5 DEF TypeOK, NewZoneFull, Goto, InPage
<1>6. CASE StorePtr(t)
  <2>1. req[t].f \in Inodes /\ BlockIdx(req[t].p) \in Slots /\ zone[t] \in Zones \cup {0}
    BY <1>6, RequestType DEF StorePtr, Goto, TypeOK
  <2>2. ptr' \in [Inodes -> Ptrs]
    BY <1>6, <2>1 DEF StorePtr, TypeOK, Ptrs
  <2> QED
    BY <1>6, <2>2 DEF TypeOK, StorePtr, Goto, InPage
<1> QED
  BY <1>1, <1>2, <1>3, <1>4, <1>5, <1>6

\* A frame for a page, with what the block holds.
LEMMA FrameType ==
  ASSUME TypeOK, NEW a \in Addr
  PROVE  [here |-> TRUE, addr |-> a, val |-> disk[a], dirty |-> FALSE] \in Frames
  BY DEF TypeOK, Frames

\* A call ends, or goes on with the next step of a write.
LEMMA EndOrGoOn ==
  ASSUME TypeOK, NEW t \in Threads, NEW from, NEW to \in {"copy", "grew"}, NEW ends,
         from # "idle", pc[t] = from,
         IF ends THEN Done(t, from) ELSE Goto(t, from, to) /\ UNCHANGED req
  PROVE  /\ pc' \in [Threads -> {"idle", "begin", "fail", "grew"} \cup InPage]
         /\ req' \in [Threads -> Requests \cup {NoReq}]
         /\ \A u \in Threads : pc'[u] # "idle" => req'[u] \in Requests
         /\ \A u \in Threads :
              pc'[u] \in {"alloc", "store", "map"} => BlockIdx(req'[u].p) \in Slots
<1>1. CASE ends
  BY <1>1 DEF TypeOK, Done, Goto
<1>2. CASE ~ends
  BY <1>2 DEF TypeOK, Goto, InPage
<1> QED
  BY <1>1, <1>2

\* The steps that fill, write or drop a page, and the end of a write.
LEMMA PageTypeOK ==
  ASSUME TypeOK, NEW t \in Threads,
         GetBlockWild(t) \/ MapBh(t) \/ GetBlockFailed(t) \/ Copy(t) \/ Grew(t)
  PROVE  TypeOK'
<1> USE DEF inodeVars, tableVars, zmapVars, dataVars
<1>0. pc[t] # "idle"
  BY DEF GetBlockWild, MapBh, MapAt, GetBlockFailed, Copy, Grew, Done, Goto
<1>00. req[t] \in Requests /\ req[t].f \in Inodes /\ req[t].p \in Pages /\ req[t].val \in Contents
  BY <1>0, RequestType
<1>1. CASE GetBlockWild(t)
  <2>1. PICK a \in Addr :
          /\ page' = [page EXCEPT ![req[t].f][req[t].p] =
                       [here |-> TRUE, addr |-> a, val |-> disk[a], dirty |-> FALSE]]
          /\ IF req[t].op = "read" THEN Done(t, "check")
                                   ELSE Goto(t, "check", "copy") /\ UNCHANGED req
    BY <1>1 DEF GetBlockWild
  <2>2. page' \in [Inodes -> [Pages -> Frames]]
    BY <1>00, <2>1, FrameType DEF TypeOK
  <2> QED
    BY <1>1, <2>1, <2>2, EndOrGoOn DEF TypeOK, GetBlockWild
<1>2. CASE MapBh(t)
  <2>1. BlockIdx(req[t].p) \in Slots
    BY <1>2 DEF MapBh, MapAt, TypeOK
  <2>2. ptr[req[t].f][BlockIdx(req[t].p)] \in Zones \cup {0} /\ zone[t] \in Zones \cup {0}
    BY <1>00, <2>1 DEF TypeOK, Ptrs
  <2>3. PICK z \in {zone[t], ptr[req[t].f][BlockIdx(req[t].p)]} :
          page' = [page EXCEPT ![req[t].f][req[t].p] =
                     [here |-> TRUE, addr |-> <<z, BlockOffset(req[t].p)>>,
                      val |-> disk[<<z, BlockOffset(req[t].p)>>], dirty |-> FALSE]]
    BY <1>2 DEF MapBh, MapAt
  <2>4. <<z, BlockOffset(req[t].p)>> \in Addr
    BY <1>00, <2>2, BlockOffsetType DEF Addr
  <2>5. page' \in [Inodes -> [Pages -> Frames]]
    BY <1>00, <2>3, <2>4, FrameType DEF TypeOK
  <2>6. zone' \in [Threads -> Zones \cup {0}]
    BY <1>2 DEF MapBh, MapAt, TypeOK
  <2> QED
    BY <1>2, <2>5, <2>6, EndOrGoOn DEF TypeOK, MapBh, MapAt
<1>3. CASE GetBlockFailed(t)
  <2>1. page' \in [Inodes -> [Pages -> Frames]]
    BY <1>3, <1>00, PagesBelowType DEF GetBlockFailed, TypeOK
  <2> QED
    BY <1>3, <2>1 DEF TypeOK, GetBlockFailed, Done, Goto, InPage
<1>4. CASE Copy(t)
  <2>1. page' \in [Inodes -> [Pages -> Frames]]
    <3> DEFINE fr == [page[req[t].f][req[t].p] EXCEPT !.val = req[t].val, !.dirty = TRUE]
    <3>1. page[req[t].f][req[t].p] \in Frames
      BY <1>00 DEF TypeOK
    <3>2. fr \in Frames
      BY <1>00, <3>1 DEF Frames
    <3>3. page' = [page EXCEPT ![req[t].f] = [@ EXCEPT ![req[t].p] = fr]]
      BY <1>4, <1>00 DEF Copy, TypeOK
    <3> QED
      BY <1>00, <3>2, <3>3 DEF TypeOK
  <2>2. want' \in [Inodes -> [Pages -> Contents]]
    BY <1>4, <1>00 DEF Copy, TypeOK
  <2>3. req[t].p + 1 \in Sizes
    BY <1>00, FileAssumption DEF Pages, Sizes
  <2>4. size' \in [Inodes -> Sizes]
    BY <1>4, <1>00, <2>3 DEF Copy, TypeOK
  <2> QED
    BY <1>4, <2>1, <2>2, <2>4, EndOrGoOn DEF TypeOK, Copy
<1>5. CASE Grew(t)
  BY <1>5 DEF TypeOK, Grew, Done, Goto, InPage
<1> QED
  BY <1>1, <1>2, <1>3, <1>4, <1>5

\* Truncation, write back of an inode, its reload and its eviction.
LEMMA InodeTypeOK ==
  ASSUME TypeOK, NEW f \in Inodes,
         \/ \E n \in Sizes : minix_setattr(f, n)
         \/ \E sync \in BOOLEAN : minix_write_inode(f, sync)
         \/ aufs_inode_get(f)
         \/ EvictInode(f)
  PROVE  TypeOK'
<1> USE DEF inodeVars, tableVars, zmapVars, dataVars
<1>1. ASSUME NEW n \in Sizes, minix_setattr(f, n) PROVE TypeOK'
  <2>1. size' \in [Inodes -> Sizes]
    BY <1>1 DEF minix_setattr, TypeOK
  <2>2. page' \in [Inodes -> [Pages -> Frames]]
    <3>1. PagesBelow(f, n) \in [Pages -> Frames]
      BY PagesBelowType
    <3>2. page' = page \/ page' = [page EXCEPT ![f] = PagesBelow(f, n)]
      BY <1>1 DEF minix_setattr
    <3> QED
      BY <3>1, <3>2 DEF TypeOK
  <2>3. want' \in [Inodes -> [Pages -> Contents]]
    <3> DEFINE w == [p \in Pages |-> IF p < n THEN want[f][p] ELSE Junk]
    <3>1. w \in [Pages -> Contents]
      BY DEF TypeOK, Contents
    <3>2. want' = want \/ want' = [want EXCEPT ![f] = w]
      BY <1>1 DEF minix_setattr, TypeOK
    <3> QED
      BY <3>1, <3>2 DEF TypeOK
  <2> QED
    BY <1>1, <2>1, <2>2, <2>3 DEF minix_setattr, TypeOK
<1>2. ASSUME NEW sync \in BOOLEAN, minix_write_inode(f, sync) PROVE TypeOK'
  <2>1. Record(f) \in Records
    BY DEF Record, Records, TypeOK
  <2>2. table' \in [Inodes -> Records]
    BY <1>2, <2>1 DEF minix_write_inode, UpdateInode, TypeOK
  <2>3. tableDisk' \in [Inodes -> Records]
    BY <1>2, <2>2 DEF minix_write_inode, TypeOK
  <2>4. {tableDirty', zmapDirty', lost'} \subseteq BOOLEAN
    BY <1>2 DEF minix_write_inode, TypeOK
  <2> QED
    BY <1>2, <2>2, <2>3, <2>4 DEF minix_write_inode, TypeOK
<1>3. CASE aufs_inode_get(f)
  <2>1. table[f].size \in Sizes /\ table[f].ptr \in Ptrs
    BY DEF TypeOK, Records
  <2> QED
    BY <1>3, <2>1 DEF aufs_inode_get, aufs_inode_fill, TypeOK
<1>4. CASE EvictInode(f)
  <2>1. page' \in [Inodes -> [Pages -> Frames]]
    BY <1>4, NoFrameType DEF EvictInode, TypeOK
  <2>2. 0 \in Sizes
    BY FileAssumption DEF Sizes
  <2> QED
    BY <1>4, <2>1, <2>2, NoPtrsType DEF EvictInode, TypeOK
<1> QED
  BY <1>1, <1>2, <1>3, <1>4

\* Write back of pages and buffers, page reclaim.
LEMMA FlushTypeOK ==
  ASSUME TypeOK,
         \/ \E f \in Inodes, p \in Pages : aufs_writepage(f, p) \/ ReclaimPage(f, p)
         \/ FlushTable \/ FlushZoneMap
  PROVE  TypeOK'
<1> USE DEF inodeVars, tableVars, zmapVars, dataVars
<1>1. ASSUME NEW f \in Inodes, NEW p \in Pages, aufs_writepage(f, p) PROVE TypeOK'
  <2>1. page[f][p] \in Frames
    BY DEF TypeOK
  <2>2. page[f][p].addr \in Addr /\ page[f][p].val \in Contents
    BY <2>1 DEF Frames
  <2>3. page' \in [Inodes -> [Pages -> Frames]]
    BY <1>1, <2>1 DEF aufs_writepage, TypeOK, Frames
  <2>4. disk' \in [Addr -> Contents]
    BY <1>1, <2>2 DEF aufs_writepage, TypeOK
  <2> QED
    BY <1>1, <2>3, <2>4 DEF aufs_writepage, TypeOK
<1>2. ASSUME NEW f \in Inodes, NEW p \in Pages, ReclaimPage(f, p) PROVE TypeOK'
  <2>1. page' \in [Inodes -> [Pages -> Frames]]
    BY <1>2, NoFrameType DEF ReclaimPage, TypeOK
  <2> QED
    BY <1>2, <2>1 DEF ReclaimPage, TypeOK
<1>3. CASE FlushTable
  BY <1>3 DEF FlushTable, TypeOK
<1>4. CASE FlushZoneMap
  BY <1>4 DEF FlushZoneMap, TypeOK
<1> QED
  BY <1>1, <1>2, <1>3, <1>4

\* Unmount or crash, and the next mount.
LEMMA LoseMemoryTypeOK ==
  ASSUME TypeOK, Remount \/ Crash
  PROVE  TypeOK'
<1>1. LoseMemory
  BY DEF Remount, Crash
<1>2. page' \in [Inodes -> [Pages -> Frames]]
  BY <1>1, NoFrameType DEF LoseMemory, NoPages
<1>3. 0 \in Sizes
  BY FileAssumption DEF Sizes
<1>4. /\ incore' \in [Inodes -> BOOLEAN] /\ idirty' \in [Inodes -> BOOLEAN]
      /\ size' \in [Inodes -> Sizes] /\ ptr' \in [Inodes -> Ptrs]
      /\ table' \in [Inodes -> Records] /\ tableDisk' \in [Inodes -> Records]
      /\ zmap' \subseteq Zones /\ zmapDisk' \subseteq Zones
      /\ {tableDirty', zmapDirty'} \subseteq BOOLEAN
      /\ disk' \in [Addr -> Contents]
  BY <1>1, <1>3, NoPtrsType DEF LoseMemory, TypeOK
<1>5. lost' \in BOOLEAN
  BY DEF Remount, Crash, TypeOK
<1>6. want' \in [Inodes -> [Pages -> Contents]]
  BY DEF Remount, Crash, TypeOK, Contents
<1>7. /\ pc' \in [Threads -> {"idle", "begin", "fail", "grew"} \cup InPage]
      /\ zone' \in [Threads -> Zones \cup {0}]
      /\ req' \in [Threads -> Requests \cup {NoReq}]
      /\ \A t \in Threads : pc'[t] = "idle"
  BY DEF Remount, Crash, TypeOK
<1> QED
  BY <1>2, <1>4, <1>5, <1>6, <1>7 DEF TypeOK

\* Every step keeps the types.
LEMMA StepTypeOK ==
  ASSUME TypeOK, [Next]_vars
  PROVE  TypeOK'
<1>1. CASE UNCHANGED vars
  BY <1>1 DEF TypeOK, vars, inodeVars, tableVars, zmapVars, dataVars
<1>2. CASE Next
  BY <1>2, CallTypeOK, GetBlockTypeOK, PageTypeOK, InodeTypeOK, FlushTypeOK, LoseMemoryTypeOK
     DEF Next, ThreadStep
<1> QED
  BY <1>1, <1>2

\* Types are kept by every behaviour of reads, writes, write back and crashes.
THEOREM TypeCorrect == Spec => []TypeOK
<1>1. Init => TypeOK
  BY InitTypeOK
<1>2. TypeOK /\ [Next]_vars => TypeOK'
  BY StepTypeOK
<1> QED
  BY <1>1, <1>2, PTL DEF Spec
-----------------------------------------------------------------------------
(***************************************************************************)
(* One owner for every zone.  ZonesDisjoint is not inductive alone: after  *)
(* a crash the zone map is what the device had, so the device's map must   *)
(* be known to be the buffer whenever the buffer is clean.                 *)
(***************************************************************************)
\* The zone map on the device is the one in memory unless the buffer is dirty.
ZoneMapWritten == ~zmapDirty => zmapDisk = zmap

\* The inductive invariant for the zones.
ZoneInv == TypeOK /\ ZoneMapWritten /\ ZonesDisjoint

\* The initial state: no zone is referred to and none is marked.
LEMMA InitZoneInv == Init => ZoneInv
<1> SUFFICES ASSUME Init PROVE ZoneInv
  OBVIOUS
<1>1. ASSUME NEW f \in Inodes, NEW s \in Slots PROVE ZonesOf(f, s) = {}
  <2>1. /\ ptr[f][s] = 0 /\ table[f].ptr[s] = 0 /\ tableDisk[f].ptr[s] = 0
        /\ \A u \in Threads : pc[u] # "store"
    BY DEF Init, NewRecord, NoPtrs
  <2> QED
    BY <2>1 DEF ZonesOf
<1>2. ZonesDisjoint
  BY <1>1 DEF ZonesDisjoint
<1>3. ZoneMapWritten
  BY DEF Init, ZoneMapWritten
<1> QED
  BY <1>2, <1>3, InitTypeOK DEF ZoneInv

\* The zones of a slot only shrink when its pointers take values from among
\* them and no thread comes to hold a zone for it.
LEMMA SlotShrinks ==
  ASSUME NEW f \in Inodes, NEW s \in Slots,
         ptr'[f][s] \in ZonesOf(f, s) \cup {0},
         table'[f].ptr[s] \in ZonesOf(f, s) \cup {0},
         tableDisk'[f].ptr[s] \in ZonesOf(f, s) \cup {0},
         \A u \in Threads : pc'[u] = "store" =>
           pc[u] = "store" /\ req'[u] = req[u] /\ zone'[u] = zone[u]
  PROVE  ZonesOf(f, s)' \subseteq ZonesOf(f, s)
<1> SUFFICES ASSUME NEW z, z \in ZonesOf(f, s)' PROVE z \in ZonesOf(f, s)
  OBVIOUS
<1>1. z # 0
  BY DEF ZonesOf
<1>2. CASE z \in {ptr'[f][s], table'[f].ptr[s], tableDisk'[f].ptr[s]}
  BY <1>1, <1>2
<1>3. CASE \E u \in Threads : /\ pc'[u] = "store" /\ req'[u].f = f
                              /\ BlockIdx(req'[u].p) = s /\ zone'[u] = z
  <2>1. PICK u \in Threads : /\ pc'[u] = "store" /\ req'[u].f = f
                             /\ BlockIdx(req'[u].p) = s /\ zone'[u] = z
    BY <1>3
  <2>2. pc[u] = "store" /\ req'[u] = req[u] /\ zone[u] = z
    BY <2>1
  <2> QED
    BY <1>1, <2>1, <2>2 DEF ZonesOf
<1> QED
  BY <1>2, <1>3 DEF ZonesOf

\* The three pointers of a slot are among its zones, or clear.
LEMMA PointersInZones ==
  ASSUME NEW f \in Inodes, NEW s \in Slots
  PROVE  /\ ptr[f][s] \in ZonesOf(f, s) \cup {0}
         /\ table[f].ptr[s] \in ZonesOf(f, s) \cup {0}
         /\ tableDisk[f].ptr[s] \in ZonesOf(f, s) \cup {0}
  BY DEF ZonesOf

\* Nothing becomes shared or unmarked when the zones of every slot only shrink.
LEMMA AllShrink ==
  ASSUME ZonesDisjoint, lost' = FALSE => lost = FALSE, lost \in BOOLEAN, lost' \in BOOLEAN,
         lost' = FALSE => zmap \subseteq zmap',
         \A f \in Inodes, s \in Slots : ZonesOf(f, s)' \subseteq ZonesOf(f, s)
  PROVE  ZonesDisjoint'
<1> SUFFICES ASSUME ~lost'
             PROVE  /\ \A f \in Inodes, s \in Slots : ZonesOf(f, s)' \subseteq zmap'
                    /\ \A f, g \in Inodes, s, r \in Slots :
                         <<f, s>> # <<g, r>> => ZonesOf(f, s)' \cap ZonesOf(g, r)' = {}
  BY DEF ZonesDisjoint
<1>1. ~lost /\ zmap \subseteq zmap'
  OBVIOUS
<1>2. ASSUME NEW f \in Inodes, NEW s \in Slots PROVE ZonesOf(f, s)' \subseteq zmap'
  BY <1>1 DEF ZonesDisjoint
<1>3. ASSUME NEW f \in Inodes, NEW g \in Inodes, NEW s \in Slots, NEW r \in Slots,
             <<f, s>> # <<g, r>>
      PROVE  ZonesOf(f, s)' \cap ZonesOf(g, r)' = {}
  <2>1. ZonesOf(f, s) \cap ZonesOf(g, r) = {}
    BY <1>1, <1>3 DEF ZonesDisjoint
  <2>2. ZonesOf(f, s)' \subseteq ZonesOf(f, s) /\ ZonesOf(g, r)' \subseteq ZonesOf(g, r)
    OBVIOUS
  <2> QED
    BY <2>1, <2>2
<1> QED
  BY <1>2, <1>3

\* Steps that touch neither the pointers nor the zone map, and after which no
\* thread is about to store a pointer that was not before.
LEMMA QuietZoneInv ==
  ASSUME ZoneInv, TypeOK', UNCHANGED <<ptr, tableVars, zmapVars, lost>>,
         \A u \in Threads : pc'[u] = "store" =>
           pc[u] = "store" /\ req'[u] = req[u] /\ zone'[u] = zone[u]
  PROVE  ZoneInv'
<1>1. ASSUME NEW f \in Inodes, NEW s \in Slots
      PROVE  ZonesOf(f, s)' \subseteq ZonesOf(f, s)
  BY SlotShrinks, PointersInZones DEF tableVars
<1>2. ZonesDisjoint'
  BY <1>1, AllShrink DEF ZoneInv, TypeOK, zmapVars
<1>3. ZoneMapWritten'
  BY DEF ZoneInv, ZoneMapWritten, zmapVars
<1> QED
  BY <1>2, <1>3 DEF ZoneInv

\* The start of a call, and every step of a thread but the allocation of a zone
\* and the store of its pointer.
LEMMA ThreadZoneInv ==
  ASSUME ZoneInv, TypeOK', NEW t \in Threads,
         \/ \E f \in Inodes, p \in Pages :
              ReadPage(t, f, p) \/ \E v \in Versions : WriteFile(t, f, p, v)
         \/ WriteBegin(t) \/ GetBlock(t) \/ GetBlockTooLarge(t) \/ GetBlockWild(t)
         \/ MapBh(t) \/ GetBlockFailed(t) \/ Copy(t) \/ Grew(t)
  PROVE  ZoneInv'
<1> USE DEF inodeVars, zmapVars
<1>1. UNCHANGED <<ptr, tableVars, zmapVars, lost>>
  BY DEF ReadPage, WriteFile, WriteBegin, GetBlock, GetBlockTooLarge, GetBlockWild, MapBh, MapAt,
         GetBlockFailed, Copy, Grew
<1>2. pc \in [Threads -> {"idle", "begin", "fail", "grew"} \cup InPage]
  BY DEF ZoneInv, TypeOK
<1>3. pc'[t] # "store"
  BY <1>2 DEF ReadPage, WriteFile, WriteBegin, GetBlock, GetBlockTooLarge, GetBlockWild, MapBh, MapAt,
              GetBlockFailed, Copy, Grew, Goto, Done
<1>4. ASSUME NEW u \in Threads, u # t
      PROVE  pc'[u] = pc[u] /\ req'[u] = req[u] /\ zone'[u] = zone[u]
  <2>1. pc'[u] = pc[u]
    BY <1>2, <1>4 DEF ReadPage, WriteFile, WriteBegin, GetBlock, GetBlockTooLarge, GetBlockWild, MapBh,
                      MapAt, GetBlockFailed, Copy, Grew, Goto, Done
  <2>2. req'[u] = req[u]
    BY <1>4 DEF ZoneInv, TypeOK, ReadPage, WriteFile, WriteBegin, GetBlock, GetBlockTooLarge,
                GetBlockWild, MapBh, MapAt, GetBlockFailed, Copy, Grew, Goto, Done
  <2>3. zone'[u] = zone[u]
    BY <1>4 DEF ZoneInv, TypeOK, ReadPage, WriteFile, WriteBegin, GetBlock, GetBlockTooLarge,
                GetBlockWild, MapBh, MapAt, GetBlockFailed, Copy, Grew
  <2> QED
    BY <2>1, <2>2, <2>3
<1>5. \A u \in Threads : pc'[u] = "store" =>
        pc[u] = "store" /\ req'[u] = req[u] /\ zone'[u] = zone[u]
  BY <1>3, <1>4
<1> QED
  BY <1>1, <1>5, QuietZoneInv

\* aufs_new_zone gives one slot a zone that was not marked, so no slot had it.
LEMMA NewZoneZoneInv ==
  ASSUME ZoneInv, TypeOK', NEW t \in Threads, NewZone(t)
  PROVE  ZoneInv'
<1> DEFINE f0 == req[t].f
           s0 == BlockIdx(req[t].p)
<1>1. PICK z \in Zones : /\ z \notin zmap
                         /\ zmap' = zmap \cup {z}
                         /\ zone' = [zone EXCEPT ![t] = z]
  BY DEF NewZone, FirstFree
<1>2. /\ UNCHANGED <<ptr, table, tableDisk, req, lost>>
      /\ pc[t] = "alloc" /\ pc' = [pc EXCEPT ![t] = "store"] /\ zmapDirty' = TRUE
  BY DEF NewZone, Goto, inodeVars, tableVars
<1>3. \A u \in Threads : u # t => pc'[u] = pc[u] /\ zone'[u] = zone[u]
  BY <1>1, <1>2 DEF ZoneInv, TypeOK
<1>4. ASSUME NEW f \in Inodes, NEW s \in Slots
      PROVE  ZonesOf(f, s)' \subseteq
               ZonesOf(f, s) \cup IF f = f0 /\ s = s0 THEN {z} ELSE {}
  <2> SUFFICES ASSUME NEW y, y \in ZonesOf(f, s)', y \notin ZonesOf(f, s)
               PROVE  y = z /\ f = f0 /\ s = s0
    OBVIOUS
  <2>1. y # 0 /\ y \notin {ptr[f][s], table[f].ptr[s], tableDisk[f].ptr[s]}
    BY DEF ZonesOf
  <2>2. PICK u \in Threads : /\ pc'[u] = "store" /\ req[u].f = f
                             /\ BlockIdx(req[u].p) = s /\ zone'[u] = y
    BY <1>2, <2>1 DEF ZonesOf
  <2>3. u = t
    BY <1>3, <2>1, <2>2 DEF ZonesOf
  <2>4. zone'[t] = z
    BY <1>1 DEF ZoneInv, TypeOK
  <2> QED
    BY <2>2, <2>3, <2>4
<1>5. ZonesDisjoint'
  <2> SUFFICES ASSUME ~lost'
               PROVE  /\ \A f \in Inodes, s \in Slots : ZonesOf(f, s)' \subseteq zmap'
                      /\ \A f, g \in Inodes, s, r \in Slots :
                           <<f, s>> # <<g, r>> => ZonesOf(f, s)' \cap ZonesOf(g, r)' = {}
    BY DEF ZonesDisjoint
  <2>1. \A f \in Inodes, s \in Slots : ZonesOf(f, s) \subseteq zmap
    BY <1>2 DEF ZoneInv, ZonesDisjoint
  <2>2. ASSUME NEW f \in Inodes, NEW s \in Slots PROVE ZonesOf(f, s)' \subseteq zmap'
    BY <1>1, <1>4, <2>1
  <2>3. ASSUME NEW f \in Inodes, NEW g \in Inodes, NEW s \in Slots, NEW r \in Slots,
               <<f, s>> # <<g, r>>
        PROVE  ZonesOf(f, s)' \cap ZonesOf(g, r)' = {}
    <3>1. ZonesOf(f, s) \cap ZonesOf(g, r) = {}
      BY <1>2, <2>3 DEF ZoneInv, ZonesDisjoint
    <3>2. z \notin ZonesOf(f, s) /\ z \notin ZonesOf(g, r)
      BY <1>1, <2>1
    <3>3. ~(f = f0 /\ s = s0) \/ ~(g = f0 /\ r = s0)
      BY <2>3
    <3> HIDE DEF f0, s0
    <3> QED
      BY <1>4, <3>1, <3>2, <3>3
  <2> QED
    BY <2>2, <2>3
<1>6. ZoneMapWritten'
  BY <1>2 DEF ZoneMapWritten
<1> QED
  BY <1>5, <1>6 DEF ZoneInv

\* A full zone map: the thread is about to store 0, which is no zone.
LEMMA NewZoneFullZoneInv ==
  ASSUME ZoneInv, TypeOK', NEW t \in Threads, NewZoneFull(t)
  PROVE  ZoneInv'
<1>1. /\ UNCHANGED <<ptr, table, tableDisk, zmap, zmapDirty, zmapDisk, req, lost>>
      /\ pc' = [pc EXCEPT ![t] = "store"] /\ zone' = [zone EXCEPT ![t] = 0]
  BY DEF NewZoneFull, Goto, inodeVars, tableVars, zmapVars
<1>2. /\ zone'[t] = 0
      /\ \A u \in Threads : u # t => pc'[u] = pc[u] /\ zone'[u] = zone[u]
  BY <1>1 DEF ZoneInv, TypeOK
<1>3. ASSUME NEW f \in Inodes, NEW s \in Slots
      PROVE  ZonesOf(f, s)' \subseteq ZonesOf(f, s)
  <2> SUFFICES ASSUME NEW y, y \in ZonesOf(f, s)', y \notin ZonesOf(f, s) PROVE FALSE
    OBVIOUS
  <2>1. y # 0 /\ y \notin {ptr[f][s], table[f].ptr[s], tableDisk[f].ptr[s]}
    BY DEF ZonesOf
  <2>2. PICK u \in Threads : /\ pc'[u] = "store" /\ req[u].f = f
                             /\ BlockIdx(req[u].p) = s /\ zone'[u] = y
    BY <1>1, <2>1 DEF ZonesOf
  <2>3. u = t
    BY <1>2, <2>1, <2>2 DEF ZonesOf
  <2> QED
    BY <1>2, <2>1, <2>2, <2>3
<1>4. ZonesDisjoint'
  BY <1>1, <1>3, AllShrink DEF ZoneInv, TypeOK
<1> QED
  BY <1>1, <1>4 DEF ZoneInv, ZoneMapWritten

\* The zone a thread holds moves into the pointer it was allocated for.
LEMMA StorePtrZoneInv ==
  ASSUME ZoneInv, TypeOK', NEW t \in Threads, StorePtr(t)
  PROVE  ZoneInv'
<1>1. /\ UNCHANGED <<table, tableDisk, zmap, zmapDirty, zmapDisk, req, zone, lost>>
      /\ pc[t] = "store" /\ pc' = [pc EXCEPT ![t] = "map"]
      /\ ptr' = [ptr EXCEPT ![req[t].f][BlockIdx(req[t].p)] = zone[t]]
  BY DEF StorePtr, Goto, tableVars, zmapVars
<1>2. \A u \in Threads : pc'[u] = "store" => pc[u] = "store"
  BY <1>1 DEF ZoneInv, TypeOK
<1>3. ASSUME NEW f \in Inodes, NEW s \in Slots
      PROVE  ZonesOf(f, s)' \subseteq ZonesOf(f, s)
  <2>1. ptr'[f][s] \in ZonesOf(f, s) \cup {0}
    <3>1. CASE f = req[t].f /\ s = BlockIdx(req[t].p)
      <4>1. ptr'[f][s] = zone[t]
        BY <1>1, <3>1 DEF ZoneInv, TypeOK, Ptrs
      <4> QED
        BY <1>1, <3>1, <4>1 DEF ZonesOf
    <3>2. CASE ~(f = req[t].f /\ s = BlockIdx(req[t].p))
      <4>1. ptr'[f][s] = ptr[f][s]
        BY <1>1, <3>2 DEF ZoneInv, TypeOK, Ptrs
      <4> QED
        BY <4>1, PointersInZones
    <3> QED
      BY <3>1, <3>2
  <2> QED
    BY <1>1, <1>2, <2>1, SlotShrinks, PointersInZones
<1>4. ZonesDisjoint'
  BY <1>1, <1>3, AllShrink DEF ZoneInv, TypeOK
<1> QED
  BY <1>1, <1>4 DEF ZoneInv, ZoneMapWritten

\* Truncation, write back of an inode, its reload and its eviction: pointers are
\* copied within a slot, or cleared.
LEMMA InodeZoneInv ==
  ASSUME ZoneInv, TypeOK', NEW g \in Inodes,
         \/ \E n \in Sizes : minix_setattr(g, n)
         \/ \E sync \in BOOLEAN : minix_write_inode(g, sync)
         \/ aufs_inode_get(g)
         \/ EvictInode(g)
  PROVE  ZoneInv'
<1>1. UNCHANGED <<zmap, zmapDirty, zmapDisk, pc, req, zone, lost>>
  BY DEF minix_setattr, minix_write_inode, aufs_inode_get, EvictInode, zmapVars
<1>2. ASSUME NEW f \in Inodes, NEW s \in Slots
      PROVE  /\ ptr'[f][s] \in {ptr[f][s], table[f].ptr[s], 0}
             /\ table'[f].ptr[s] \in {ptr[f][s], table[f].ptr[s]}
             /\ tableDisk'[f].ptr[s] \in {ptr[f][s], table[f].ptr[s], tableDisk[f].ptr[s]}
  <2>1. CASE \E n \in Sizes : minix_setattr(g, n)
    BY <2>1 DEF minix_setattr, tableVars
  <2>2. CASE \E sync \in BOOLEAN : minix_write_inode(g, sync)
    <3>1. ptr' = ptr /\ table' = [table EXCEPT ![g] = Record(g)] /\ tableDisk' \in {table', tableDisk}
      BY <2>2 DEF minix_write_inode, UpdateInode
    <3>2. table'[f] = table[f] \/ (f = g /\ table'[f] = Record(g))
      BY <3>1 DEF ZoneInv, TypeOK
    <3>3. table'[f].ptr[s] \in {ptr[f][s], table[f].ptr[s]}
      BY <3>2 DEF Record
    <3> QED
      BY <3>1, <3>3
  <2>3. CASE aufs_inode_get(g)
    BY <2>3 DEF aufs_inode_get, aufs_inode_fill, tableVars, ZoneInv, TypeOK
  <2>4. CASE EvictInode(g)
    BY <2>4 DEF EvictInode, tableVars, NoPtrs, ZoneInv, TypeOK
  <2> QED
    BY <2>1, <2>2, <2>3, <2>4
<1>3. ASSUME NEW f \in Inodes, NEW s \in Slots
      PROVE  ZonesOf(f, s)' \subseteq ZonesOf(f, s)
  BY <1>1, <1>2, SlotShrinks, PointersInZones
<1>4. ZonesDisjoint'
  BY <1>1, <1>3, AllShrink DEF ZoneInv, TypeOK
<1> QED
  BY <1>1, <1>4 DEF ZoneInv, ZoneMapWritten

\* Write back of pages and buffers, page reclaim.
LEMMA FlushZoneInv ==
  ASSUME ZoneInv, TypeOK',
         \/ \E f \in Inodes, p \in Pages : aufs_writepage(f, p) \/ ReclaimPage(f, p)
         \/ FlushTable \/ FlushZoneMap
  PROVE  ZoneInv'
<1>1. UNCHANGED <<ptr, table, zmap, pc, req, zone, lost>>
  BY DEF aufs_writepage, ReclaimPage, FlushTable, FlushZoneMap, inodeVars, tableVars, zmapVars
<1>2. tableDisk' = table \/ tableDisk' = tableDisk
  BY DEF aufs_writepage, ReclaimPage, FlushTable, FlushZoneMap, tableVars
<1>3. ASSUME NEW f \in Inodes, NEW s \in Slots
      PROVE  ZonesOf(f, s)' \subseteq ZonesOf(f, s)
  BY <1>1, <1>2, SlotShrinks, PointersInZones
<1>4. ZonesDisjoint'
  BY <1>1, <1>3, AllShrink DEF ZoneInv, TypeOK
<1>5. ZoneMapWritten'
  BY DEF ZoneInv, ZoneMapWritten, aufs_writepage, ReclaimPage, FlushTable, FlushZoneMap, zmapVars
<1> QED
  BY <1>4, <1>5 DEF ZoneInv

\* Unmount or crash: what the device has is all that is left, and the zone map
\* there is the one that was in memory unless the crash lost bits.
LEMMA LoseMemoryZoneInv ==
  ASSUME ZoneInv, TypeOK', Remount \/ Crash
  PROVE  ZoneInv'
<1>1. LoseMemory
  BY DEF Remount, Crash
<1>2. lost' = FALSE => lost = FALSE /\ zmapDirty = FALSE
  BY DEF Remount, Crash, ZoneInv, TypeOK
<1>3. lost' = FALSE => zmap' = zmap
  BY <1>1, <1>2 DEF LoseMemory, ZoneInv, ZoneMapWritten
<1>4. \A u \in Threads : pc'[u] = "idle"
  BY DEF Remount, Crash, ZoneInv, TypeOK
<1>5. ASSUME NEW f \in Inodes, NEW s \in Slots
      PROVE  ZonesOf(f, s)' \subseteq ZonesOf(f, s)
  <2>1. ptr'[f][s] = 0 /\ table' = tableDisk /\ tableDisk' = tableDisk
    BY <1>1 DEF LoseMemory, NoPtrs
  <2> QED
    BY <1>4, <2>1, SlotShrinks, PointersInZones
<1>6. ZonesDisjoint'
  BY <1>2, <1>3, <1>5, AllShrink DEF ZoneInv, TypeOK
<1>7. ZoneMapWritten'
  BY <1>1 DEF LoseMemory, ZoneMapWritten
<1> QED
  BY <1>6, <1>7 DEF ZoneInv

\* Every step keeps the inductive invariant.
LEMMA StepZoneInv ==
  ASSUME ZoneInv, [Next]_vars
  PROVE  ZoneInv'
<1>1. TypeOK'
  BY StepTypeOK DEF ZoneInv
<1>2. CASE UNCHANGED vars
  BY <1>1, <1>2, QuietZoneInv DEF vars, inodeVars
<1>3. CASE Next
  BY <1>1, <1>3, ThreadZoneInv, NewZoneZoneInv, NewZoneFullZoneInv, StorePtrZoneInv,
     InodeZoneInv, FlushZoneInv, LoseMemoryZoneInv DEF Next, ThreadStep
<1> QED
  BY <1>2, <1>3

\* The inductive invariant holds for any number of threads, files and zones.
THEOREM ZoneInvHolds == Spec => []ZoneInv
<1>1. Init => ZoneInv
  BY InitZoneInv
<1>2. ZoneInv /\ [Next]_vars => ZoneInv'
  BY StepZoneInv
<1> QED
  BY <1>1, <1>2, PTL DEF Spec

\* No zone ever belongs to two slots, and every zone referred to is marked, in
\* spite of the race on ai_zone_ptr in aufs_get_block, of eviction and crashes,
\* as long as no crash loses zone map bits.
THEOREM ZonesStayDisjoint == Spec => []ZonesDisjoint
<1>1. ZoneInv => ZonesDisjoint
  BY DEF ZoneInv
<1> QED
  BY <1>1, ZoneInvHolds, PTL

\* A crash while the zone map buffer is clean finds a zone map on the device that
\* covers every zone pointer minix_write_inode has put there.
THEOREM CrashIsSafe == Spec => []CrashSafeWhenClean
<1>1. ZoneInv => CrashSafeWhenClean
  <2> SUFFICES ASSUME ZoneInv, ~lost, ~zmapDirty, NEW f \in Inodes, NEW s \in Slots
               PROVE  tableDisk[f].ptr[s] \in zmapDisk \cup {0}
    BY DEF CrashSafeWhenClean
  <2>1. zmapDisk = zmap /\ ZonesOf(f, s) \subseteq zmap
    BY DEF ZoneInv, ZoneMapWritten, ZonesDisjoint
  <2> QED
    BY <2>1, PointersInZones
<1> QED
  BY <1>1, ZoneInvHolds, PTL
-----------------------------------------------------------------------------
(***************************************************************************)
(* A workload that only appends, and stays within the zone pointers and    *)
(* the zones: every page below a file's size has its zone, so only the     *)
(* writer, who holds i_rwsem, finds a zero pointer.                        *)
(***************************************************************************)
\* Every page has a zone pointer.
Fits == \A p \in Pages : BlockIdx(p) \in Slots

\* aufs_new_zone never finds the zone map full.
ZoneLeft == \A t \in Threads : pc[t] = "alloc" => ~(Zones \subseteq zmap)

\* The zone pointer that a call is about.
Slot(t) == ptr[req[t].f][BlockIdx(req[t].p)]

\* Every page below the size has its zone.
Covered(n, pointers) == \A p \in Pages : p < n => pointers[BlockIdx(p)] # 0

\* A writer that is going to extend the file, or has and has not marked it dirty.
Growing(f) ==
  \E t \in Threads : /\ pc[t] # "idle" /\ req[t].op = "write" /\ req[t].f = f
                     /\ pc[t] = "grew" \/ req[t].p >= size[f]

\* An inode and its copies: a pointer in the buffer, or on the device, is the one in
\* memory or not there yet; all pages are covered; a clean inode is in the buffer
\* as it is in memory unless it grows.
InodeOK(f) ==
  /\ ~incore[f] => ptr[f] = NoPtrs /\ \A p \in Pages : ~page[f][p].here
  /\ incore[f] => \A s \in Slots : table[f].ptr[s] \in {0, ptr[f][s]}
  /\ \A s \in Slots : tableDisk[f].ptr[s] \in {0, table[f].ptr[s]}
  /\ incore[f] => Covered(size[f], ptr[f])
  /\ Covered(table[f].size, table[f].ptr) /\ Covered(tableDisk[f].size, tableDisk[f].ptr)
  /\ incore[f] /\ ~idirty[f] /\ ~Growing(f) => table[f].size = size[f] /\ table[f].ptr = ptr[f]

\* What a call knows at each step: only a writer allocates, and what it saw stays.
CallOK(t) ==
  pc[t] # "idle" =>
    /\ incore[req[t].f] /\ pc[t] # "fail"
    /\ req[t].op = "read" => pc[t] \in {"check", "map"} /\ req[t].p < size[req[t].f]
    /\ req[t].p <= size[req[t].f]
    /\ pc[t] \in {"check", "alloc", "store", "map"} => ~page[req[t].f][req[t].p].here
    /\ pc[t] = "copy" => page[req[t].f][req[t].p].here
    /\ pc[t] \in {"alloc", "store"} => Slot(t) = 0
    /\ pc[t] = "store" => zone[t] # 0
    /\ pc[t] = "map" => zone[t] = Slot(t) /\ zone[t] # 0
    /\ pc[t] = "grew" => req[t].p < size[req[t].f]

\* Two calls in one file: one writer, and one call in a page.
CallsApart(t, u) ==
  pc[t] # "idle" /\ pc[u] # "idle" /\ t # u /\ req[t].f = req[u].f =>
    /\ ~(req[t].op = "write" /\ req[u].op = "write")
    /\ pc[t] \in InPage /\ pc[u] \in InPage => req[t].p # req[u].p

\* The inductive invariant for pointers and pages.
AppendInv ==
  /\ tableDirty \/ tableDisk = table
  /\ \A f \in Inodes : InodeOK(f)
  /\ \A t \in Threads : CallOK(t)
  /\ \A t, u \in Threads : CallsApart(t, u)
  /\ PagesMapped

\* What a page holds: a clean page is that of the device, and what was written is
\* what a read would find.
DataOK(f, p) ==
  /\ page[f][p].dirty => page[f][p].here
  /\ page[f][p].here /\ ~page[f][p].dirty => disk[page[f][p].addr] = page[f][p].val
  /\ want[f][p] # Junk => p < SizeOf(f) /\ Content(f, p) = want[f][p]

\* The data, as long as no crash has lost zone map bits.
DataInv == ~lost => \A f \in Inodes, p \in Pages : DataOK(f, p)

\* CallsApart is symmetric.
LEMMA ApartSymmetric ==
  ASSUME NEW t, NEW u, CallsApart(t, u)
  PROVE  CallsApart(u, t)
  BY DEF CallsApart

\* An inode whose pages, pointers and copies stay as they are, and which gets clean
\* or stops growing only by getting dirty.
LEMMA InodeKept ==
  ASSUME NEW f \in Inodes, InodeOK(f),
         incore'[f] = incore[f], size'[f] = size[f], ptr'[f] = ptr[f],
         table'[f] = table[f], tableDisk'[f] \in {table[f], tableDisk[f]},
         \A p \in Pages : page'[f][p].here => page[f][p].here \/ incore[f],
         ~idirty'[f] => ~idirty[f] /\ (Growing(f) => Growing(f)')
  PROVE  InodeOK(f)'
  BY DEF InodeOK, Covered

\* A call in an inode that stays as it is, but for other pages and pointers.
LEMMA CallKept ==
  ASSUME TypeOK, NEW t \in Threads, CallOK(t),
         pc'[t] = pc[t], req'[t] = req[t], zone'[t] = zone[t],
         pc[t] # "idle" =>
           /\ incore'[req[t].f] = incore[req[t].f] /\ size'[req[t].f] = size[req[t].f]
           /\ pc[t] \in InPage => page'[req[t].f][req[t].p].here = page[req[t].f][req[t].p].here
           /\ Slot(t)' = Slot(t)
  PROVE  CallOK(t)'
  BY DEF CallOK, InPage

\* A step of one call that leaves inodes and pages alone.
LEMMA StepOfCall ==
  ASSUME AppendInv, TypeOK, NEW t \in Threads,
         UNCHANGED <<incore, size, ptr, tableVars, page>>,
         \A u \in Threads : u # t => pc'[u] = pc[u] /\ req'[u] = req[u] /\ zone'[u] = zone[u],
         \A f \in Inodes : ~idirty'[f] => ~idirty[f] /\ (Growing(f) => Growing(f)'),
         CallOK(t)', \A u \in Threads : u # t => CallsApart(t, u)'
  PROVE  AppendInv'
<1>1. \A f \in Inodes : InodeOK(f)'
  BY InodeKept DEF AppendInv, tableVars
<1>2. \A u \in Threads : u # t => CallOK(u)'
  <2> SUFFICES ASSUME NEW u \in Threads, u # t PROVE CallOK(u)'
    OBVIOUS
  <2>1. CallOK(u)
    BY DEF AppendInv
  <2>2. Slot(u)' = Slot(u)
    BY DEF Slot
  <2> QED
    BY <2>1, <2>2, CallKept
<1>3. \A u, v \in Threads : CallsApart(u, v)'
  <2> SUFFICES ASSUME NEW u \in Threads, NEW v \in Threads PROVE CallsApart(u, v)'
    OBVIOUS
  <2>1. CASE u = v
    BY <2>1 DEF CallsApart
  <2>2. CASE u = t /\ v # t
    BY <2>2
  <2>3. CASE u # t /\ v = t
    BY <2>3 DEF CallsApart
  <2>4. CASE u # t /\ v # t
    <3>1. CallsApart(u, v)
      BY DEF AppendInv
    <3> QED
      BY <2>4, <3>1 DEF CallsApart
  <2> QED
    BY <2>1, <2>2, <2>3, <2>4
<1>4. PagesMapped'
  BY DEF AppendInv, PagesMapped
<1>5. tableDirty' \/ tableDisk' = table'
  BY DEF AppendInv, tableVars
<1> QED
  BY <1>1, <1>2, <1>3, <1>4, <1>5 DEF AppendInv

\* The start of a read: the page is not cached, not locked and below the size.
LEMMA ReadPageAppend ==
  ASSUME AppendInv, TypeOK, NEW t \in Threads, NEW f \in Inodes, NEW p \in Pages,
         ReadPage(t, f, p)
  PROVE  AppendInv'
<1>1. /\ UNCHANGED <<incore, size, ptr, idirty, tableVars, page, zone>>
      /\ pc[t] = "idle" /\ pc' = [pc EXCEPT ![t] = "check"]
      /\ req' = [req EXCEPT ![t] = [op |-> "read", f |-> f, p |-> p, val |-> Junk]]
      /\ incore[f] /\ p < size[f] /\ ~page[f][p].here /\ ~PageLocked(f, p)
  BY DEF ReadPage, Goto, inodeVars, dataVars
<1>2. /\ pc'[t] = "check" /\ req'[t] = [op |-> "read", f |-> f, p |-> p, val |-> Junk]
      /\ \A u \in Threads : u # t => pc'[u] = pc[u] /\ req'[u] = req[u] /\ zone'[u] = zone[u]
  BY <1>1 DEF TypeOK
<1>3. p <= size[f]
  BY <1>1 DEF TypeOK, Pages, Sizes
<1>4. CallOK(t)'
  BY <1>1, <1>2, <1>3 DEF CallOK
<1>5. \A u \in Threads : u # t => CallsApart(t, u)'
  BY <1>1, <1>2 DEF CallsApart, PageLocked
<1>6. \A g \in Inodes : Growing(g) => Growing(g)'
  <2> SUFFICES ASSUME NEW g \in Inodes, Growing(g) PROVE Growing(g)'
    OBVIOUS
  <2>1. PICK u \in Threads : /\ pc[u] # "idle" /\ req[u].op = "write" /\ req[u].f = g
                             /\ pc[u] = "grew" \/ req[u].p >= size[g]
    BY DEF Growing
  <2> QED
    BY <1>1, <1>2, <2>1 DEF Growing
<1> QED
  BY <1>1, <1>2, <1>4, <1>5, <1>6, StepOfCall

\* The start of a write: i_rwsem keeps other writers away, and without holes the
\* page is at most the one behind the last.
LEMMA WriteFileAppend ==
  ASSUME AppendInv, TypeOK, AllowHoles = FALSE,
         NEW t \in Threads, NEW f \in Inodes, NEW p \in Pages, NEW v \in Versions,
         WriteFile(t, f, p, v)
  PROVE  AppendInv'
<1> DEFINE r == [op |-> "write", f |-> f, p |-> p, val |-> <<f, p, v>>]
<1>1. /\ UNCHANGED <<incore, size, ptr, tableVars, page, zone>>
      /\ pc[t] = "idle" /\ pc' = [pc EXCEPT ![t] = "begin"]
      /\ req' = [req EXCEPT ![t] = r]
      /\ incore[f] /\ p <= size[f] /\ ~WriteLocked(f)
      /\ idirty' \in {idirty, [idirty EXCEPT ![f] = TRUE]}
  BY DEF WriteFile, Goto, dataVars
<1>2. /\ pc'[t] = "begin" /\ req'[t] = r
      /\ \A u \in Threads : u # t => pc'[u] = pc[u] /\ req'[u] = req[u] /\ zone'[u] = zone[u]
  BY <1>1 DEF TypeOK
<1>3. r.op = "write" /\ r.f = f /\ r.p = p
  OBVIOUS
<1> HIDE DEF r
<1>4. CallOK(t)'
  BY <1>1, <1>2, <1>3 DEF CallOK
<1>5. \A u \in Threads : u # t => CallsApart(t, u)'
  BY <1>1, <1>2, <1>3 DEF CallsApart, WriteLocked, InPage
<1>6. \A g \in Inodes : Growing(g) => Growing(g)'
  <2> SUFFICES ASSUME NEW g \in Inodes, Growing(g) PROVE Growing(g)'
    OBVIOUS
  <2>1. PICK u \in Threads : /\ pc[u] # "idle" /\ req[u].op = "write" /\ req[u].f = g
                             /\ pc[u] = "grew" \/ req[u].p >= size[g]
    BY DEF Growing
  <2> QED
    BY <1>1, <1>2, <2>1 DEF Growing
<1>7. \A g \in Inodes : ~idirty'[g] => ~idirty[g]
  BY <1>1 DEF TypeOK
<1> QED
  BY <1>1, <1>2, <1>4, <1>5, <1>6, <1>7, StepOfCall

\* A call that goes on with the same request keeps apart from the others, if the
\* page it gets into is not locked.
LEMMA StillApart ==
  ASSUME AppendInv, NEW t \in Threads, NEW u \in Threads, u # t, req' = req,
         pc[t] # "idle", pc'[u] = pc[u],
         pc'[t] \in InPage => pc[t] \in InPage \/ ~PageLocked(req[t].f, req[t].p)
  PROVE  CallsApart(t, u)'
<1>1. CallsApart(t, u)
  BY DEF AppendInv
<1> QED
  BY <1>1 DEF CallsApart, PageLocked

\* A call that goes on with the same request still grows its file.
LEMMA StillGrowing ==
  ASSUME NEW t \in Threads, NEW f \in Inodes, Growing(f), req' = req, size'[f] = size[f],
         pc[t] # "grew", pc'[t] # "idle", \A u \in Threads : u # t => pc'[u] = pc[u]
  PROVE  Growing(f)'
  BY DEF Growing

\* minix_write_begin: the page is cached, or aufs_get_block is called for it.
LEMMA WriteBeginAppend ==
  ASSUME AppendInv, TypeOK, NEW t \in Threads, WriteBegin(t)
  PROVE  AppendInv'
<1>1. /\ UNCHANGED <<incore, size, ptr, idirty, tableVars, page, zone, req>>
      /\ pc[t] = "begin" /\ ~PageLocked(req[t].f, req[t].p)
      /\ pc' = [pc EXCEPT ![t] = IF page[req[t].f][req[t].p].here THEN "copy" ELSE "check"]
  BY DEF WriteBegin, inodeVars, dataVars
<1>2. /\ pc'[t] = IF page[req[t].f][req[t].p].here THEN "copy" ELSE "check"
      /\ \A u \in Threads : u # t => pc'[u] = pc[u]
  BY <1>1 DEF TypeOK
<1>3. CallOK(t)
  BY DEF AppendInv
<1>4. CallOK(t)'
  BY <1>1, <1>2, <1>3 DEF CallOK
<1>5. \A u \in Threads : u # t => CallsApart(t, u)'
  BY <1>1, <1>2, StillApart
<1>6. \A f \in Inodes : Growing(f) => Growing(f)'
  BY <1>1, <1>2, StillGrowing
<1> QED
  BY <1>1, <1>2, <1>4, <1>5, <1>6, StepOfCall

\* The test of the zone pointer: a reader finds it set.
LEMMA GetBlockAppend ==
  ASSUME AppendInv, TypeOK, NEW t \in Threads, GetBlock(t)
  PROVE  AppendInv'
<1>1. /\ UNCHANGED <<incore, size, ptr, idirty, tableVars, page, req>>
      /\ pc[t] = "check" /\ zone' = [zone EXCEPT ![t] = Slot(t)]
      /\ pc' = [pc EXCEPT ![t] = IF Slot(t) = 0 THEN "alloc" ELSE "map"]
  BY DEF GetBlock, inodeVars, dataVars, Slot
<1>2. /\ pc'[t] = (IF Slot(t) = 0 THEN "alloc" ELSE "map") /\ zone'[t] = Slot(t)
      /\ \A u \in Threads : u # t => pc'[u] = pc[u] /\ zone'[u] = zone[u]
  BY <1>1 DEF TypeOK
<1>3. CallOK(t) /\ req[t].f \in Inodes /\ req[t].p \in Pages
  BY <1>1, RequestType DEF AppendInv
<1>4. Covered(size[req[t].f], ptr[req[t].f])
  BY <1>1, <1>3 DEF AppendInv, InodeOK, CallOK
<1>5. req[t].op = "read" => Slot(t) # 0
  BY <1>1, <1>3, <1>4 DEF Covered, Slot, CallOK
<1>6. Slot(t)' = Slot(t)
  BY <1>1 DEF Slot
<1>7. CallOK(t)'
  BY <1>1, <1>2, <1>3, <1>5, <1>6 DEF CallOK
<1>8. \A u \in Threads : u # t => CallsApart(t, u)'
  BY <1>1, <1>2, StillApart DEF InPage
<1>9. \A f \in Inodes : Growing(f) => Growing(f)'
  BY <1>1, <1>2, StillGrowing
<1> QED
  BY <1>1, <1>2, <1>7, <1>8, <1>9, StepOfCall

\* aufs_new_zone has a zone left.
LEMMA NewZoneAppend ==
  ASSUME AppendInv, TypeOK, NEW t \in Threads, NewZone(t)
  PROVE  AppendInv'
<1>1. PICK z \in Zones : zone' = [zone EXCEPT ![t] = z]
  BY DEF NewZone
<1>2. /\ UNCHANGED <<incore, size, ptr, idirty, tableVars, page, req>>
      /\ pc[t] = "alloc" /\ pc' = [pc EXCEPT ![t] = "store"]
  BY DEF NewZone, Goto, inodeVars, dataVars
<1>3. /\ pc'[t] = "store" /\ zone'[t] = z /\ z # 0
      /\ \A u \in Threads : u # t => pc'[u] = pc[u] /\ zone'[u] = zone[u]
  BY <1>1, <1>2 DEF TypeOK, Zones
<1>4. CallOK(t)
  BY DEF AppendInv
<1>5. Slot(t)' = Slot(t)
  BY <1>2 DEF Slot
<1>6. CallOK(t)'
  BY <1>2, <1>3, <1>4, <1>5 DEF CallOK
<1>7. \A u \in Threads : u # t => CallsApart(t, u)'
  BY <1>2, <1>3, StillApart DEF InPage
<1>8. \A f \in Inodes : Growing(f) => Growing(f)'
  BY <1>2, <1>3, StillGrowing
<1> QED
  BY <1>2, <1>3, <1>6, <1>7, <1>8, StepOfCall

\* mark_inode_dirty ends a write that has extended the file.
LEMMA GrewAppend ==
  ASSUME AppendInv, TypeOK, NEW t \in Threads, Grew(t)
  PROVE  AppendInv'
<1>1. /\ UNCHANGED <<incore, size, ptr, tableVars, page, zone>>
      /\ pc[t] = "grew" /\ pc' = [pc EXCEPT ![t] = "idle"]
      /\ req' = [req EXCEPT ![t] = NoReq]
      /\ idirty' = [idirty EXCEPT ![req[t].f] = TRUE]
  BY DEF Grew, Done, Goto, dataVars
<1>2. /\ pc'[t] = "idle"
      /\ \A u \in Threads : u # t => pc'[u] = pc[u] /\ req'[u] = req[u] /\ zone'[u] = zone[u]
  BY <1>1 DEF TypeOK
<1>3. CallOK(t)' /\ \A u \in Threads : u # t => CallsApart(t, u)'
  BY <1>2 DEF CallOK, CallsApart
<1>4. ASSUME NEW f \in Inodes, ~idirty'[f]
      PROVE  ~idirty[f] /\ (Growing(f) => Growing(f)')
  <2>1. req[t].f # f /\ ~idirty[f]
    BY <1>1, <1>4 DEF TypeOK
  <2> QED
    BY <1>1, <1>2, <2>1 DEF Growing
<1> QED
  BY <1>1, <1>2, <1>3, <1>4, StepOfCall

\* The writer's new zone becomes the pointer, which nobody else uses: it was zero.
LEMMA StorePtrAppend ==
  ASSUME AppendInv, TypeOK, NEW t \in Threads, StorePtr(t)
  PROVE  AppendInv'
<1>0. PICK f \in Inodes, p \in Pages, s \in Slots :
        f = req[t].f /\ p = req[t].p /\ s = BlockIdx(p)
  BY RequestType DEF StorePtr, Goto, TypeOK
<1>1. /\ UNCHANGED <<incore, size, idirty, table, tableDirty, tableDisk, page, req, zone>>
      /\ pc[t] = "store" /\ pc' = [pc EXCEPT ![t] = "map"]
      /\ ptr' = [ptr EXCEPT ![f][s] = zone[t]]
  BY <1>0 DEF StorePtr, Goto, tableVars, dataVars
<1>2. p \in Nat /\ size[f] \in Nat
  BY FileAssumption DEF TypeOK, Pages, Sizes
<1>3. CallOK(t)
  BY DEF AppendInv
<1>4. ptr[f][s] = 0 /\ zone[t] # 0 /\ req[t].op = "write" /\ incore[f]
  <2>1. req[t].op \in {"read", "write"}
    BY <1>1, RequestType DEF Requests
  <2> QED
    BY <1>0, <1>1, <1>3, <2>1 DEF CallOK, Slot
<1>5. /\ pc'[t] = "map" /\ \A u \in Threads : u # t => pc'[u] = pc[u]
  BY <1>1 DEF TypeOK
<1>6. /\ ptr'[f][s] = zone[t] /\ \A r \in Slots : r # s => ptr'[f][r] = ptr[f][r]
      /\ \A g \in Inodes : g # f => ptr'[g] = ptr[g]
  BY <1>1, <1>2 DEF TypeOK, Ptrs
<1>7. InodeOK(f)
  BY <1>2 DEF AppendInv
<1>8. p >= size[f]
  BY <1>0, <1>2, <1>4, <1>7 DEF InodeOK, Covered
<1>9. Growing(f)'
  BY <1>0, <1>1, <1>4, <1>5, <1>8 DEF Growing
<1>10. InodeOK(f)'
  <2>1. \A r \in Slots : ptr'[f][r] # ptr[f][r] => ptr[f][r] = 0 /\ ptr'[f][r] # 0
    BY <1>4, <1>6
  <2>2. Covered(size[f], ptr[f]) => Covered(size'[f], ptr'[f])
    BY <1>1, <1>4, <1>6 DEF Covered
  <2>3. \A r \in Slots : table'[f].ptr[r] \in {0, ptr'[f][r]}
    BY <1>1, <1>4, <1>7, <2>1 DEF InodeOK
  <2> QED
    BY <1>1, <1>4, <1>7, <1>9, <2>2, <2>3 DEF InodeOK, Covered
<1>11. \A g \in Inodes : InodeOK(g)'
  <2> SUFFICES ASSUME NEW g \in Inodes, g # f PROVE InodeOK(g)'
    BY <1>10
  <2>1. InodeOK(g)
    BY DEF AppendInv
  <2>2. Growing(g) => Growing(g)'
    BY <1>1, <1>5, StillGrowing
  <2> QED
    BY <1>1, <1>6, <2>1, <2>2, InodeKept
<1>12. \A u \in Threads : CallOK(u)'
  <2>1. Slot(t)' = zone[t]
    BY <1>0, <1>1, <1>6 DEF Slot
  <2>2. CallOK(t)'
    BY <1>1, <1>3, <1>4, <1>5, <2>1 DEF CallOK
  <2> SUFFICES ASSUME NEW u \in Threads, u # t PROVE CallOK(u)'
    BY <2>2
  <2>3. CallOK(u) /\ CallsApart(t, u)
    BY DEF AppendInv
  <2>4. CASE pc[u] # "idle" /\ req[u].f = f /\ BlockIdx(req[u].p) = s
    <3>1. req[u].op \in {"read", "write"}
      BY <2>4, RequestType DEF Requests
    <3>2. req[u].op = "read"
      BY <1>1, <1>4, <2>3, <2>4, <3>1, <1>0 DEF CallsApart
    <3>3. pc[u] = "check"
      BY <1>4, <2>3, <2>4, <3>2 DEF CallOK, Slot
    <3> QED
      BY <1>1, <1>5, <2>3, <3>3 DEF CallOK
  <2>5. CASE pc[u] # "idle" /\ ~(req[u].f = f /\ BlockIdx(req[u].p) = s)
    <3>1. pc[u] \in {"alloc", "store", "map"} => Slot(u)' = Slot(u)
      <4>1. req[u].f \in Inodes
        BY <2>5, RequestType
      <4>2. pc[u] \in {"alloc", "store", "map"} => BlockIdx(req[u].p) \in Slots
        BY DEF TypeOK
      <4> QED
        BY <1>1, <1>6, <2>5, <4>1, <4>2 DEF Slot
    <3> QED
      BY <1>1, <1>5, <2>3, <3>1 DEF CallOK
  <2>6. CASE pc[u] = "idle"
    BY <1>5, <2>6 DEF CallOK
  <2> QED
    BY <2>4, <2>5, <2>6
<1>13. \A u, v \in Threads : CallsApart(u, v)'
  BY <1>1, <1>5 DEF AppendInv, CallsApart, InPage
<1>14. PagesMapped'
  <2> SUFFICES ASSUME NEW g \in Inodes, NEW q \in Pages, page[g][q].here
               PROVE  /\ page[g][q].addr[1] # 0
                      /\ page[g][q].addr = <<ptr'[g][BlockIdx(q)], BlockOffset(q)>>
    BY <1>1 DEF PagesMapped
  <2>1. page[g][q].addr[1] # 0 /\ page[g][q].addr = <<ptr[g][BlockIdx(q)], BlockOffset(q)>>
    BY DEF AppendInv, PagesMapped
  <2>2. ~(g = f /\ BlockIdx(q) = s)
    BY <1>4, <2>1
  <2>3. ptr'[g][BlockIdx(q)] = ptr[g][BlockIdx(q)]
    BY <1>1, <1>2, <2>2 DEF TypeOK, Ptrs
  <2> QED
    BY <2>1, <2>3
<1> QED
  BY <1>1, <1>11, <1>12, <1>13, <1>14 DEF AppendInv

\* A call ends or goes on with its request, apart from the others as before.
LEMMA EndsApart ==
  ASSUME AppendInv, NEW t \in Threads, pc[t] \in InPage,
         \A u \in Threads : u # t => pc'[u] = pc[u] /\ req'[u] = req[u],
         pc'[t] = "idle" \/ req'[t] = req[t]
  PROVE  \A u, v \in Threads : CallsApart(u, v)'
<1> SUFFICES ASSUME NEW u \in Threads, NEW v \in Threads PROVE CallsApart(u, v)'
  OBVIOUS
<1>1. CallsApart(u, v)
  BY DEF AppendInv
<1> QED
  BY <1>1 DEF CallsApart, InPage

\* The page is mapped to the block that the pointer names, and nobody else is in it.
LEMMA MapBhAppend ==
  ASSUME AppendInv, TypeOK, NEW t \in Threads, MapBh(t)
  PROVE  AppendInv'
<1>0. PICK f \in Inodes, p \in Pages, s \in Slots :
        f = req[t].f /\ p = req[t].p /\ s = BlockIdx(p)
  BY RequestType DEF MapBh, MapAt, TypeOK
<1>1. CallOK(t) /\ pc[t] = "map"
  BY DEF AppendInv, MapBh, MapAt
<1>2. zone[t] = ptr[f][s] /\ zone[t] # 0 /\ incore[f] /\ p <= size[f]
  BY <1>0, <1>1 DEF CallOK, Slot
<1> DEFINE frame == [here |-> TRUE, addr |-> <<ptr[f][s], BlockOffset(p)>>,
                     val |-> disk[<<ptr[f][s], BlockOffset(p)>>], dirty |-> FALSE]
<1>3. /\ page' = [page EXCEPT ![f][p] = frame]
      /\ UNCHANGED <<incore, size, ptr, idirty, table, tableDirty, tableDisk>>
      /\ zone' = [zone EXCEPT ![t] = 0]
  BY <1>0, <1>2 DEF MapBh, MapAt, inodeVars, tableVars
<1>4. /\ page'[f][p] = frame
      /\ \A g \in Inodes, q \in Pages : <<g, q>> # <<f, p>> => page'[g][q] = page[g][q]
  BY <1>3 DEF TypeOK
<1>5. IF req[t].op = "read" THEN pc'[t] = "idle" ELSE pc'[t] = "copy" /\ req'[t] = req[t]
  BY <1>1 DEF MapBh, MapAt, Done, Goto, TypeOK
<1>6. \A u \in Threads : u # t => pc'[u] = pc[u] /\ req'[u] = req[u] /\ zone'[u] = zone[u]
  <2>1. pc' = [pc EXCEPT ![t] = pc'[t]] /\ (req' = req \/ req' = [req EXCEPT ![t] = NoReq])
    BY <1>1 DEF MapBh, MapAt, Done, Goto, TypeOK
  <2> QED
    BY <1>3, <2>1 DEF TypeOK
<1>7. frame.here /\ frame.addr = <<ptr[f][s], BlockOffset(p)>>
  OBVIOUS
<1> HIDE DEF frame
<1>8. \A g \in Inodes : Growing(g) => Growing(g)'
  <2> SUFFICES ASSUME NEW g \in Inodes, Growing(g) PROVE Growing(g)'
    OBVIOUS
  <2>1. PICK u \in Threads : /\ pc[u] # "idle" /\ req[u].op = "write" /\ req[u].f = g
                             /\ pc[u] = "grew" \/ req[u].p >= size[g]
    BY DEF Growing
  <2> QED
    BY <1>1, <1>3, <1>5, <1>6, <2>1 DEF Growing
<1>9. \A g \in Inodes : InodeOK(g)'
  <2> SUFFICES ASSUME NEW g \in Inodes PROVE InodeOK(g)'
    OBVIOUS
  <2>1. InodeOK(g)
    BY DEF AppendInv
  <2>2. \A q \in Pages : page'[g][q].here => page[g][q].here \/ incore[g]
    BY <1>2, <1>4
  <2> QED
    BY <1>3, <1>8, <2>1, <2>2, InodeKept
<1>10. \A u \in Threads : CallOK(u)'
  <2>1. CallOK(t)'
    BY <1>0, <1>1, <1>2, <1>3, <1>4, <1>5, <1>7 DEF CallOK
  <2> SUFFICES ASSUME NEW u \in Threads, u # t PROVE CallOK(u)'
    BY <2>1
  <2>2. CallOK(u) /\ CallsApart(t, u)
    BY DEF AppendInv
  <2>3. pc[u] \in InPage => page'[req[u].f][req[u].p] = page[req[u].f][req[u].p]
    <3> SUFFICES ASSUME pc[u] \in InPage PROVE page'[req[u].f][req[u].p] = page[req[u].f][req[u].p]
      OBVIOUS
    <3>1. pc[u] # "idle" /\ pc[t] \in InPage
      BY <1>1 DEF InPage
    <3>2. req[u].f \in Inodes /\ req[u].p \in Pages
      BY <3>1, RequestType
    <3>3. <<req[u].f, req[u].p>> # <<f, p>>
      BY <1>0, <1>1, <2>2, <3>1 DEF CallsApart
    <3> QED
      BY <1>4, <3>2, <3>3
  <2>4. Slot(u)' = Slot(u)
    BY <1>3, <1>6 DEF Slot
  <2> QED
    BY <1>3, <1>6, <2>2, <2>3, <2>4, CallKept
<1>11. \A u, v \in Threads : CallsApart(u, v)'
  BY <1>1, <1>5, <1>6, EndsApart DEF InPage
<1>12. PagesMapped'
  <2> SUFFICES ASSUME NEW g \in Inodes, NEW q \in Pages, page'[g][q].here
               PROVE  /\ page'[g][q].addr[1] # 0
                      /\ page'[g][q].addr = <<ptr[g][BlockIdx(q)], BlockOffset(q)>>
    BY <1>3 DEF PagesMapped
  <2>1. CASE g = f /\ q = p
    BY <1>0, <1>2, <1>4, <1>7, <2>1
  <2>2. CASE ~(g = f /\ q = p)
    BY <1>4, <2>2 DEF AppendInv, PagesMapped
  <2> QED
    BY <2>1, <2>2
<1> QED
  BY <1>3, <1>9, <1>10, <1>11, <1>12 DEF AppendInv

\* The data is in the page and the size covers it: its zone is there.
LEMMA CopyAppend ==
  ASSUME AppendInv, TypeOK, NEW t \in Threads, Copy(t)
  PROVE  AppendInv'
<1>0. PICK f \in Inodes, p \in Pages : f = req[t].f /\ p = req[t].p
  BY RequestType DEF Copy
<1>1. CallOK(t) /\ pc[t] = "copy"
  BY DEF AppendInv, Copy
<1>2. /\ incore[f] /\ p <= size[f] /\ page[f][p].here /\ req[t].op = "write"
      /\ p \in Nat /\ size[f] \in Nat
  <2>1. req[t].op \in {"read", "write"}
    BY <1>1, RequestType DEF Requests
  <2>2. p \in Nat /\ size[f] \in Nat
    BY FileAssumption DEF TypeOK, Pages, Sizes
  <2> QED
    BY <1>0, <1>1, <2>1, <2>2 DEF CallOK
<1>3. /\ UNCHANGED <<incore, ptr, idirty, table, tableDirty, tableDisk, zone>>
      /\ page' = [page EXCEPT ![f][p].val = req[t].val, ![f][p].dirty = TRUE]
      /\ size' = [size EXCEPT ![f] = IF p < @ THEN @ ELSE p + 1]
  BY <1>0 DEF Copy, tableVars
<1>4. \A g \in Inodes, q \in Pages :
        page'[g][q].here = page[g][q].here /\ page'[g][q].addr = page[g][q].addr
  BY <1>3 DEF TypeOK, Frames
<1>5. IF p < size[f] THEN pc'[t] = "idle" ELSE pc'[t] = "grew" /\ req'[t] = req[t]
  BY <1>0, <1>1 DEF Copy, Done, Goto, TypeOK
<1>6. \A u \in Threads : u # t => pc'[u] = pc[u] /\ req'[u] = req[u] /\ zone'[u] = zone[u]
  <2>1. pc' = [pc EXCEPT ![t] = pc'[t]] /\ (req' = req \/ req' = [req EXCEPT ![t] = NoReq])
    BY <1>1 DEF Copy, Done, Goto, TypeOK
  <2> QED
    BY <1>3, <2>1 DEF TypeOK
<1>7. /\ size'[f] = (IF p < size[f] THEN size[f] ELSE p + 1)
      /\ \A g \in Inodes : g # f => size'[g] = size[g]
  BY <1>3 DEF TypeOK
<1>8. InodeOK(f)'
  <2>1. InodeOK(f)
    BY DEF AppendInv
  <2>2. ptr[f][BlockIdx(p)] # 0
    BY <1>2 DEF AppendInv, PagesMapped
  <2>3. Covered(size[f], ptr[f])
    BY <1>2, <2>1 DEF InodeOK
  <2>4. Covered(size'[f], ptr[f])
    BY <1>2, <1>7, <2>2, <2>3 DEF Covered, Pages
  <2>5. CASE p < size[f]
    <3>1. ~Growing(f)
      <4> SUFFICES ASSUME NEW u \in Threads, pc[u] # "idle", req[u].op = "write", req[u].f = f,
                          pc[u] = "grew" \/ req[u].p >= size[f]
                   PROVE  FALSE
        BY DEF Growing
      <4>1. u = t
        BY <1>0, <1>1, <1>2 DEF AppendInv, CallsApart
      <4> QED
        BY <1>0, <1>1, <1>2, <2>5, <4>1
    <3> QED
      BY <1>3, <1>4, <1>7, <2>1, <2>4, <2>5, <3>1 DEF InodeOK, Covered
  <2>6. CASE ~(p < size[f])
    <3>1. Growing(f)'
      BY <1>0, <1>2, <1>5, <2>6 DEF Growing
    <3> QED
      BY <1>2, <1>3, <1>4, <2>1, <2>4, <3>1 DEF InodeOK, Covered
  <2> QED
    BY <2>5, <2>6
<1>9. \A g \in Inodes : InodeOK(g)'
  <2> SUFFICES ASSUME NEW g \in Inodes, g # f PROVE InodeOK(g)'
    BY <1>8
  <2>1. InodeOK(g)
    BY DEF AppendInv
  <2>2. Growing(g) => Growing(g)'
    BY <1>0, <1>6, <1>7 DEF Growing
  <2>3. \A q \in Pages : page'[g][q].here => page[g][q].here \/ incore[g]
    BY <1>4
  <2> QED
    BY <1>3, <1>7, <2>1, <2>2, <2>3, InodeKept
<1>10. \A u \in Threads : CallOK(u)'
  <2>1. CallOK(t)'
    <3>1. CASE p < size[f]
      BY <1>5, <3>1 DEF CallOK
    <3>2. CASE ~(p < size[f])
      <4>1. size'[f] = p + 1 /\ p < p + 1 /\ p <= p + 1
        BY <1>2, <1>7, <3>2
      <4> QED
        BY <1>0, <1>2, <1>3, <1>5, <3>2, <4>1 DEF CallOK
    <3> QED
      BY <3>1, <3>2
  <2> SUFFICES ASSUME NEW u \in Threads, u # t PROVE CallOK(u)'
    BY <2>1
  <2>2. CallOK(u)
    BY DEF AppendInv
  <2>3. CASE pc[u] = "idle"
    BY <1>6, <2>3 DEF CallOK
  <2>4. CASE pc[u] # "idle"
    <3>1. req[u].f \in Inodes /\ req[u].p \in Pages
      BY <2>4, RequestType
    <3>2. req[u].p < size[req[u].f] => req[u].p < size'[req[u].f]
      BY <1>2, <1>7, <3>1 DEF Pages
    <3>3. req[u].p <= size[req[u].f] => req[u].p <= size'[req[u].f]
      BY <1>2, <1>7, <3>1 DEF Pages
    <3>4. Slot(u)' = Slot(u)
      BY <1>3, <1>6 DEF Slot
    <3>5. page'[req[u].f][req[u].p].here = page[req[u].f][req[u].p].here
      BY <1>4, <3>1
    <3> QED
      BY <1>3, <1>6, <2>2, <2>4, <3>2, <3>3, <3>4, <3>5 DEF CallOK
  <2> QED
    BY <2>3, <2>4
<1>11. \A u, v \in Threads : CallsApart(u, v)'
  BY <1>1, <1>5, <1>6, EndsApart DEF InPage
<1>12. PagesMapped'
  <2> SUFFICES ASSUME NEW g \in Inodes, NEW q \in Pages, page'[g][q].here
               PROVE  /\ page'[g][q].addr[1] # 0
                      /\ page'[g][q].addr = <<ptr[g][BlockIdx(q)], BlockOffset(q)>>
    BY <1>3 DEF PagesMapped
  <2> QED
    BY <1>4 DEF AppendInv, PagesMapped
<1> QED
  BY <1>3, <1>9, <1>10, <1>11, <1>12 DEF AppendInv

\* Steps of nobody's call keep calls apart.
LEMMA CallsStayApart ==
  ASSUME AppendInv, UNCHANGED <<pc, req>>
  PROVE  \A t, u \in Threads : CallsApart(t, u)'
  BY DEF AppendInv, CallsApart

\* Truncation: no writer is in the file, and no reader in a page that goes.
LEMMA SetattrAppend ==
  ASSUME AppendInv, TypeOK, AllowHoles = FALSE, NEW f \in Inodes, NEW n \in Sizes,
         minix_setattr(f, n)
  PROVE  AppendInv'
<1>1. /\ incore[f] /\ n <= size[f] /\ ~WriteLocked(f)
      /\ \A p \in Pages : p >= n => ~PageLocked(f, p)
      /\ idirty' = [idirty EXCEPT ![f] = TRUE]
      /\ UNCHANGED <<incore, ptr, table, tableDirty, tableDisk, pc, req, zone>>
  BY DEF minix_setattr, tableVars
<1>2. n \in Nat /\ size[f] \in Nat
  BY FileAssumption DEF TypeOK, Sizes
<1>3. size'[f] = n /\ \A g \in Inodes : g # f => size'[g] = size[g] /\ page'[g] = page[g]
  BY DEF minix_setattr, TypeOK
<1>4. \A p \in Pages : p < n => page'[f][p] = page[f][p]
  BY DEF minix_setattr, PagesBelow, TypeOK
<1>5. \A p \in Pages : page'[f][p] = page[f][p] \/ ~page'[f][p].here
  BY DEF minix_setattr, PagesBelow, TypeOK, NoFrame
<1>6. \A g \in Inodes : InodeOK(g)'
  <2>1. \A g \in Inodes : g # f => InodeOK(g)'
    <3> SUFFICES ASSUME NEW g \in Inodes, g # f PROVE InodeOK(g)'
      OBVIOUS
    <3>1. InodeOK(g)
      BY DEF AppendInv
    <3>2. idirty'[g] = idirty[g] /\ (Growing(g) => Growing(g)')
      BY <1>1, <1>3 DEF TypeOK, Growing
    <3> QED
      BY <1>1, <1>3, <3>1, <3>2, InodeKept
  <2>2. InodeOK(f)'
    <3>1. InodeOK(f)
      BY DEF AppendInv
    <3>2. Covered(size'[f], ptr[f])
      BY <1>1, <1>2, <1>3, <3>1 DEF InodeOK, Covered, Pages
    <3>3. idirty'[f]
      BY <1>1 DEF TypeOK
    <3> QED
      BY <1>1, <3>1, <3>2, <3>3 DEF InodeOK, Covered
  <2> QED
    BY <2>1, <2>2
<1>7. \A t \in Threads : CallOK(t)'
  <2> SUFFICES ASSUME NEW t \in Threads, pc[t] # "idle" PROVE CallOK(t)'
    BY <1>1 DEF CallOK
  <2>1. CallOK(t) /\ req[t].f \in Inodes /\ req[t].p \in Pages /\ req[t].op \in {"read", "write"}
    BY RequestType DEF AppendInv, Requests
  <2>2. Slot(t)' = Slot(t)
    BY <1>1 DEF Slot
  <2>3. CASE req[t].f # f
    BY <1>1, <1>3, <2>1, <2>2, <2>3, CallKept
  <2>4. CASE req[t].f = f
    <3>1. req[t].op = "read" /\ pc[t] \in {"check", "map"}
      BY <1>1, <2>1, <2>4 DEF WriteLocked, CallOK
    <3>2. PageLocked(f, req[t].p)
      BY <2>4, <3>1 DEF PageLocked, InPage
    <3>3. req[t].p < n /\ req[t].p <= n
      BY <1>1, <1>2, <2>1, <3>2 DEF Pages
    <3>4. page'[f][req[t].p] = page[f][req[t].p]
      BY <1>4, <2>1, <3>3
    <3> QED
      BY <1>1, <1>3, <2>1, <2>2, <2>4, <3>1, <3>3, <3>4 DEF CallOK
  <2> QED
    BY <2>3, <2>4
<1>8. PagesMapped'
  <2> SUFFICES ASSUME NEW g \in Inodes, NEW q \in Pages, page'[g][q].here
               PROVE  /\ page'[g][q].addr[1] # 0
                      /\ page'[g][q].addr = <<ptr[g][BlockIdx(q)], BlockOffset(q)>>
    BY <1>1 DEF PagesMapped
  <2>1. page'[g][q] = page[g][q]
    BY <1>3, <1>5
  <2> QED
    BY <2>1 DEF AppendInv, PagesMapped
<1>9. \A t, u \in Threads : CallsApart(t, u)'
  BY <1>1, CallsStayApart
<1> QED
  BY <1>1, <1>6, <1>7, <1>8, <1>9 DEF AppendInv

\* A step of nobody's call that leaves the inodes in memory and the pages alone.
LEMMA CopiesAppend ==
  ASSUME AppendInv, TypeOK, UNCHANGED <<incore, size, ptr, pc, req, zone>>,
         \A f \in Inodes, p \in Pages :
           /\ page'[f][p].here => page[f][p].here /\ page'[f][p].addr = page[f][p].addr
           /\ PageLocked(f, p) => page'[f][p].here = page[f][p].here,
         tableDirty' \/ tableDisk' = table',
         \A f \in Inodes : InodeOK(f)'
  PROVE  AppendInv'
<1>1. \A t \in Threads : CallOK(t)'
  <2> SUFFICES ASSUME NEW t \in Threads PROVE CallOK(t)'
    OBVIOUS
  <2>1. CallOK(t)
    BY DEF AppendInv
  <2>2. Slot(t)' = Slot(t)
    BY DEF Slot
  <2>3. pc[t] \in InPage => page'[req[t].f][req[t].p].here = page[req[t].f][req[t].p].here
    <3> SUFFICES ASSUME pc[t] \in InPage
                 PROVE  page'[req[t].f][req[t].p].here = page[req[t].f][req[t].p].here
      OBVIOUS
    <3>1. req[t].f \in Inodes /\ req[t].p \in Pages
      BY RequestType DEF InPage
    <3> QED
      BY <3>1 DEF PageLocked
  <2> QED
    BY <2>1, <2>2, <2>3, CallKept
<1>2. \A t, u \in Threads : CallsApart(t, u)'
  BY CallsStayApart
<1>3. PagesMapped'
  <2> SUFFICES ASSUME NEW g \in Inodes, NEW q \in Pages, page'[g][q].here
               PROVE  /\ page'[g][q].addr[1] # 0
                      /\ page'[g][q].addr = <<ptr[g][BlockIdx(q)], BlockOffset(q)>>
    BY DEF PagesMapped
  <2> QED
    BY DEF AppendInv, PagesMapped
<1> QED
  BY <1>1, <1>2, <1>3 DEF AppendInv

\* minix_write_inode: the record is what memory has.
LEMMA WriteInodeAppend ==
  ASSUME AppendInv, TypeOK, NEW f \in Inodes, NEW sync \in BOOLEAN,
         minix_write_inode(f, sync)
  PROVE  AppendInv'
<1>1. /\ incore[f] /\ UNCHANGED <<incore, size, ptr, page, pc, req, zone>>
      /\ idirty' = [idirty EXCEPT ![f] = FALSE]
      /\ table' = [table EXCEPT ![f] = Record(f)] /\ tableDirty' = ~sync
      /\ tableDisk' = IF sync THEN table' ELSE tableDisk
  BY DEF minix_write_inode, UpdateInode, dataVars
<1>2. /\ table'[f].ptr = ptr[f] /\ table'[f].size = size[f]
      /\ \A g \in Inodes : g # f => table'[g] = table[g] /\ idirty'[g] = idirty[g]
  BY <1>1 DEF TypeOK, Record
<1>3. \A g \in Inodes : Growing(g)' <=> Growing(g)
  BY <1>1 DEF Growing
<1>4. InodeOK(f)'
  <2>1. InodeOK(f)
    BY DEF AppendInv
  <2>2. \A s \in Slots : tableDisk'[f].ptr[s] \in {0, table'[f].ptr[s]}
    BY <1>1, <1>2, <2>1 DEF InodeOK
  <2>3. Covered(table'[f].size, table'[f].ptr) /\ Covered(tableDisk'[f].size, tableDisk'[f].ptr)
    BY <1>1, <1>2, <2>1 DEF InodeOK
  <2> QED
    BY <1>1, <1>2, <2>1, <2>2, <2>3 DEF InodeOK, Covered
<1>5. \A g \in Inodes : InodeOK(g)'
  <2> SUFFICES ASSUME NEW g \in Inodes, g # f PROVE InodeOK(g)'
    BY <1>4
  <2>1. InodeOK(g)
    BY DEF AppendInv
  <2>2. tableDisk'[g] \in {table[g], tableDisk[g]}
    BY <1>1, <1>2
  <2> QED
    BY <1>1, <1>2, <1>3, <2>1, <2>2, InodeKept
<1>6. tableDirty' \/ tableDisk' = table'
  BY <1>1
<1> QED
  BY <1>1, <1>5, <1>6, CopiesAppend

\* Write back and reclaim of pages, and of the buffers.
LEMMA FlushAppend ==
  ASSUME AppendInv, TypeOK,
         \/ \E f \in Inodes, p \in Pages : aufs_writepage(f, p) \/ ReclaimPage(f, p)
         \/ FlushTable \/ FlushZoneMap
  PROVE  AppendInv'
<1>1. /\ UNCHANGED <<incore, size, ptr, idirty, table, pc, req, zone>>
      /\ tableDisk' = table \/ (tableDisk' = tableDisk /\ tableDirty' = tableDirty)
  <2> USE DEF inodeVars, tableVars
  <2>1. CASE \E f \in Inodes, p \in Pages : aufs_writepage(f, p) \/ ReclaimPage(f, p)
    BY <2>1 DEF aufs_writepage, ReclaimPage
  <2>2. CASE FlushTable
    BY <2>2 DEF FlushTable
  <2>3. CASE FlushZoneMap
    BY <2>3 DEF FlushZoneMap
  <2> QED
    BY <2>1, <2>2, <2>3
<1>2. \A f \in Inodes, p \in Pages :
        /\ page'[f][p].here => page[f][p].here /\ page'[f][p].addr = page[f][p].addr
        /\ PageLocked(f, p) => page'[f][p].here = page[f][p].here
  <2>1. ASSUME NEW g \in Inodes, NEW q \in Pages, ReclaimPage(g, q)
        PROVE  \A f \in Inodes, p \in Pages :
                 /\ page'[f][p].here => page[f][p].here /\ page'[f][p].addr = page[f][p].addr
                 /\ PageLocked(f, p) => page'[f][p].here = page[f][p].here
    BY <2>1 DEF ReclaimPage, TypeOK, NoFrame
  <2>2. ASSUME NEW g \in Inodes, NEW q \in Pages, aufs_writepage(g, q)
        PROVE  \A f \in Inodes, p \in Pages :
                 page'[f][p].here = page[f][p].here /\ page'[f][p].addr = page[f][p].addr
    BY <2>2 DEF aufs_writepage, TypeOK, Frames
  <2>3. CASE FlushTable \/ FlushZoneMap
    BY <2>3 DEF FlushTable, FlushZoneMap, dataVars
  <2> QED
    BY <2>1, <2>2, <2>3
<1>3. \A f \in Inodes : InodeOK(f)'
  <2> SUFFICES ASSUME NEW f \in Inodes PROVE InodeOK(f)'
    OBVIOUS
  <2>1. InodeOK(f)
    BY DEF AppendInv
  <2>2. Growing(f) => Growing(f)'
    BY <1>1 DEF Growing
  <2>3. \A p \in Pages : page'[f][p].here => page[f][p].here \/ incore[f]
    BY <1>2
  <2> QED
    BY <1>1, <2>1, <2>2, <2>3, InodeKept
<1>4. tableDirty' \/ tableDisk' = table'
  BY <1>1 DEF AppendInv
<1> QED
  BY <1>1, <1>2, <1>3, <1>4, CopiesAppend

\* Nobody uses the inode that comes into memory or leaves it.
LEMMA OneInodeAppend ==
  ASSUME AppendInv, TypeOK, NEW f \in Inodes, UNCHANGED <<pc, req, zone, idirty, tableVars>>,
         \A t \in Threads : pc[t] # "idle" => req[t].f # f,
         \A g \in Inodes : g # f => /\ incore'[g] = incore[g] /\ size'[g] = size[g]
                                    /\ ptr'[g] = ptr[g] /\ page'[g] = page[g],
         InodeOK(f)', \A p \in Pages : ~page'[f][p].here
  PROVE  AppendInv'
<1>1. \A g \in Inodes : InodeOK(g)'
  <2> SUFFICES ASSUME NEW g \in Inodes, g # f PROVE InodeOK(g)'
    OBVIOUS
  <2>1. InodeOK(g)
    BY DEF AppendInv
  <2>2. Growing(g) => Growing(g)'
    BY DEF Growing
  <2> QED
    BY <2>1, <2>2, InodeKept DEF tableVars
<1>2. \A t \in Threads : CallOK(t)'
  <2> SUFFICES ASSUME NEW t \in Threads PROVE CallOK(t)'
    OBVIOUS
  <2>1. CallOK(t)
    BY DEF AppendInv
  <2>2. pc[t] # "idle" => req[t].f \in Inodes /\ req[t].f # f
    BY RequestType
  <2>3. pc[t] # "idle" => Slot(t)' = Slot(t)
    BY <2>2 DEF Slot
  <2> QED
    BY <2>1, <2>2, <2>3, CallKept
<1>3. PagesMapped'
  <2> SUFFICES ASSUME NEW g \in Inodes, NEW q \in Pages, page'[g][q].here
               PROVE  /\ page'[g][q].addr[1] # 0
                      /\ page'[g][q].addr = <<ptr'[g][BlockIdx(q)], BlockOffset(q)>>
    BY DEF PagesMapped
  <2>1. g # f
    OBVIOUS
  <2> QED
    BY <2>1 DEF AppendInv, PagesMapped
<1>4. \A t, u \in Threads : CallsApart(t, u)'
  BY CallsStayApart
<1>5. tableDirty' \/ tableDisk' = table'
  BY DEF AppendInv, tableVars
<1> QED
  BY <1>1, <1>2, <1>3, <1>4, <1>5 DEF AppendInv

\* aufs_inode_get takes pointers and size from the record.
LEMMA InodeGetAppend ==
  ASSUME AppendInv, TypeOK, NEW f \in Inodes, aufs_inode_get(f)
  PROVE  AppendInv'
<1>1. /\ ~incore[f] /\ incore' = [incore EXCEPT ![f] = TRUE]
      /\ size' = [size EXCEPT ![f] = table[f].size] /\ ptr' = [ptr EXCEPT ![f] = table[f].ptr]
      /\ UNCHANGED <<idirty, tableVars, page, pc, req, zone>>
  BY DEF aufs_inode_get, aufs_inode_fill, dataVars
<1>2. /\ incore'[f] /\ size'[f] = table[f].size /\ ptr'[f] = table[f].ptr
      /\ \A g \in Inodes : g # f => incore'[g] = incore[g] /\ size'[g] = size[g] /\ ptr'[g] = ptr[g]
  BY <1>1 DEF TypeOK
<1>3. InodeOK(f)
  BY DEF AppendInv
<1>4. InodeOK(f)'
  BY <1>1, <1>2, <1>3 DEF InodeOK, Covered, tableVars
<1>5. \A p \in Pages : ~page'[f][p].here
  BY <1>1, <1>3 DEF InodeOK
<1>6. \A t \in Threads : pc[t] # "idle" => req[t].f # f
  BY <1>1 DEF AppendInv, CallOK
<1> QED
  BY <1>1, <1>2, <1>4, <1>5, <1>6, OneInodeAppend

\* The shrinker drops an inode that is in the buffer as it was in memory.
LEMMA EvictAppend ==
  ASSUME AppendInv, TypeOK, NEW f \in Inodes, EvictInode(f)
  PROVE  AppendInv'
<1>1. /\ incore[f] /\ ~InUse(f) /\ incore' = [incore EXCEPT ![f] = FALSE]
      /\ size' = [size EXCEPT ![f] = 0] /\ ptr' = [ptr EXCEPT ![f] = NoPtrs]
      /\ page' = [page EXCEPT ![f] = [p \in Pages |-> NoFrame]]
      /\ UNCHANGED <<idirty, tableVars, pc, req, zone>>
  BY DEF EvictInode
<1>2. /\ ~incore'[f] /\ ptr'[f] = NoPtrs
      /\ \A g \in Inodes : g # f => /\ incore'[g] = incore[g] /\ size'[g] = size[g]
                                    /\ ptr'[g] = ptr[g] /\ page'[g] = page[g]
  BY <1>1 DEF TypeOK
<1>3. \A p \in Pages : ~page'[f][p].here
  BY <1>1 DEF TypeOK, NoFrame
<1>4. InodeOK(f)
  BY DEF AppendInv
<1>5. InodeOK(f)'
  BY <1>1, <1>2, <1>3, <1>4 DEF InodeOK, Covered, tableVars
<1>6. \A t \in Threads : pc[t] # "idle" => req[t].f # f
  BY <1>1 DEF InUse
<1> QED
  BY <1>1, <1>2, <1>3, <1>5, <1>6, OneInodeAppend

\* Unmount or crash: no inode and no page is in memory, no call goes on.
LEMMA LoseMemoryAppend ==
  ASSUME AppendInv, TypeOK, Remount \/ Crash
  PROVE  AppendInv'
<1>1. /\ incore' = [f \in Inodes |-> FALSE] /\ ptr' = [f \in Inodes |-> NoPtrs]
      /\ page' = NoPages /\ table' = tableDisk /\ tableDisk' = tableDisk
  BY DEF Remount, Crash, LoseMemory
<1>2. \A t \in Threads : pc'[t] = "idle"
  BY DEF Remount, Crash
<1>3. \A f \in Inodes, p \in Pages : ~page'[f][p].here
  BY <1>1 DEF NoPages, NoFrame
<1>4. \A f \in Inodes : InodeOK(f)'
  <2> SUFFICES ASSUME NEW f \in Inodes PROVE InodeOK(f)'
    OBVIOUS
  <2>1. InodeOK(f)
    BY DEF AppendInv
  <2> QED
    BY <1>1, <1>3, <2>1 DEF InodeOK, Covered
<1>5. \A t, u \in Threads : CallOK(t)' /\ CallsApart(t, u)'
  BY <1>2 DEF CallOK, CallsApart
<1>6. PagesMapped'
  BY <1>3 DEF PagesMapped
<1> QED
  BY <1>1, <1>4, <1>5, <1>6 DEF AppendInv

\* Inside the pointers, with a zone left, aufs_get_block does not fail.
LEMMA NoFailure ==
  ASSUME AppendInv, TypeOK, Fits, ZoneLeft, NEW t \in Threads
  PROVE  ~(GetBlockTooLarge(t) \/ GetBlockWild(t) \/ NewZoneFull(t) \/ GetBlockFailed(t))
<1>1. pc[t] # "idle" => BlockIdx(req[t].p) \in Slots
  BY RequestType DEF Fits
<1>2. pc[t] # "fail"
  BY DEF AppendInv, CallOK
<1> QED
  BY <1>1, <1>2 DEF GetBlockTooLarge, GetBlockWild, NewZoneFull, GetBlockFailed, Goto, Done, ZoneLeft

\* Every step keeps the invariant, if it does not find the zone map full.
LEMMA StepAppend ==
  ASSUME AppendInv, TypeOK, Fits, ZoneLeft, AllowHoles = FALSE, [Next]_vars
  PROVE  AppendInv'
<1>1. CASE UNCHANGED vars
  <2>1. UNCHANGED <<incore, size, ptr, idirty, table, tableDirty, tableDisk, page, pc, req, zone>>
    BY <1>1 DEF vars, inodeVars, tableVars, dataVars
  <2>2. \A f \in Inodes : InodeOK(f)'
    BY <2>1 DEF AppendInv, InodeOK, Covered, Growing
  <2> QED
    BY <2>1, <2>2, CopiesAppend DEF AppendInv
<1>2. CASE \E t \in Threads, f \in Inodes, p \in Pages :
             ReadPage(t, f, p) \/ \E v \in Versions : WriteFile(t, f, p, v)
  BY <1>2, ReadPageAppend, WriteFileAppend
<1>3. CASE \E t \in Threads : ThreadStep(t)
  BY <1>3, NoFailure, WriteBeginAppend, GetBlockAppend, NewZoneAppend, StorePtrAppend, MapBhAppend,
     CopyAppend, GrewAppend DEF ThreadStep
<1>4. CASE \E f \in Inodes : \/ \E n \in Sizes : minix_setattr(f, n)
                             \/ \E sync \in BOOLEAN : minix_write_inode(f, sync)
                             \/ aufs_inode_get(f)
                             \/ EvictInode(f)
  BY <1>4, SetattrAppend, WriteInodeAppend, InodeGetAppend, EvictAppend
<1>5. CASE \/ \E f \in Inodes, p \in Pages : aufs_writepage(f, p) \/ ReclaimPage(f, p)
           \/ FlushTable \/ FlushZoneMap
  BY <1>5, FlushAppend
<1>6. CASE Remount \/ Crash
  BY <1>6, LoseMemoryAppend
<1> QED
  BY <1>1, <1>2, <1>3, <1>4, <1>5, <1>6 DEF Next

\* New files have nothing.
LEMMA InitAppend == Init => AppendInv
<1> SUFFICES ASSUME Init PROVE AppendInv
  OBVIOUS
<1>1. \A f \in Inodes, p \in Pages : ~page[f][p].here
  BY DEF Init, NoPages, NoFrame
<1>2. \A p \in Pages : ~(p < 0)
  BY DEF Pages
<1>3. \A f \in Inodes : InodeOK(f)
  BY <1>1, <1>2 DEF Init, InodeOK, Covered, NewRecord, NoPtrs
<1>4. \A t, u \in Threads : CallOK(t) /\ CallsApart(t, u)
  BY DEF Init, CallOK, CallsApart
<1>5. PagesMapped
  BY <1>1 DEF PagesMapped
<1>6. tableDisk = table
  BY DEF Init
<1> QED
  BY <1>3, <1>4, <1>5, <1>6 DEF AppendInv

\* The invariant for pointers and pages, with any crashes.
LEMMA AppendInvHolds ==
  ASSUME Fits, AllowHoles = FALSE
  PROVE  Spec /\ []ZoneLeft => []AppendInv
<1>1. TypeOK /\ AppendInv /\ ZoneLeft /\ [Next]_vars => AppendInv'
  BY StepAppend
<1> QED
  BY <1>1, InitAppend, TypeCorrect, PTL DEF Spec

\* A file that is only appended to never has a page mapped to the super block, the
\* maps or a zone that its pointer does not name, although aufs_get_block takes no
\* lock, with any crashes, as long as it finds a zone.
THEOREM PagesOnOwnZones ==
  ASSUME Fits, AllowHoles = FALSE
  PROVE  Spec /\ []ZoneLeft => []PagesMapped
<1>1. AppendInv => PagesMapped
  BY DEF AppendInv
<1> QED
  BY <1>1, AppendInvHolds, PTL

\* One step replaces no zone pointer: the one that is stored was zero.
LEMMA StepPtrStable ==
  ASSUME AppendInv, TypeOK, [Next]_vars,
         NEW f \in Inodes, NEW s \in Slots, ptr[f][s] # 0, incore'[f]
  PROVE  ptr'[f][s] = ptr[f][s]
<1> USE DEF inodeVars
<1>1. ASSUME NEW t \in Threads, StorePtr(t)
      PROVE  ptr'[f][s] = ptr[f][s]
  <2>1. /\ req[t].f \in Inodes /\ BlockIdx(req[t].p) \in Slots /\ Slot(t) = 0
        /\ ptr' = [ptr EXCEPT ![req[t].f][BlockIdx(req[t].p)] = zone[t]]
    BY <1>1, RequestType DEF StorePtr, Goto, TypeOK, AppendInv, CallOK
  <2>2. ~(f = req[t].f /\ s = BlockIdx(req[t].p))
    BY <2>1 DEF Slot
  <2> QED
    BY <2>1, <2>2 DEF TypeOK, Ptrs
<1>2. ASSUME NEW g \in Inodes, aufs_inode_get(g) \/ EvictInode(g)
      PROVE  ptr'[f][s] = ptr[f][s]
  <2>1. aufs_inode_get(g) => ptr[g] = NoPtrs
    BY DEF aufs_inode_get, AppendInv, InodeOK
  <2>2. g # f
    BY <1>2, <2>1 DEF EvictInode, TypeOK, NoPtrs
  <2> QED
    BY <1>2, <2>2 DEF aufs_inode_get, aufs_inode_fill, EvictInode, TypeOK
<1>3. ~(Remount \/ Crash)
  BY DEF Remount, Crash, LoseMemory
<1>4. CASE UNCHANGED vars
  BY <1>4 DEF vars
<1>5. CASE \E t \in Threads, g \in Inodes, p \in Pages :
             ReadPage(t, g, p) \/ \E v \in Versions : WriteFile(t, g, p, v)
  BY <1>5 DEF ReadPage, WriteFile
<1>6. CASE \E t \in Threads : ThreadStep(t)
  BY <1>1, <1>6 DEF ThreadStep, WriteBegin, GetBlock, GetBlockTooLarge, GetBlockWild, NewZone,
     NewZoneFull, MapBh, MapAt, GetBlockFailed, Copy, Grew
<1>7. CASE \E g \in Inodes : \/ \E n \in Sizes : minix_setattr(g, n)
                             \/ \E sync \in BOOLEAN : minix_write_inode(g, sync)
                             \/ aufs_inode_get(g)
                             \/ EvictInode(g)
  BY <1>2, <1>7 DEF minix_setattr, minix_write_inode
<1>8. CASE \/ \E g \in Inodes, p \in Pages : aufs_writepage(g, p) \/ ReclaimPage(g, p)
           \/ FlushTable \/ FlushZoneMap
  BY <1>8 DEF aufs_writepage, ReclaimPage, FlushTable, FlushZoneMap
<1> QED
  BY <1>3, <1>4, <1>5, <1>6, <1>7, <1>8 DEF Next

\* No aufs_get_block ever replaces a zone pointer, although nothing locks it from
\* the test to the store: without holes only one thread can find it zero.
THEOREM PointersKept ==
  ASSUME Fits, AllowHoles = FALSE
  PROVE  Spec /\ []ZoneLeft => PtrStable
<1>1. AppendInv /\ TypeOK /\ [Next]_vars
        => [\A f \in Inodes, s \in Slots :
              ptr[f][s] # 0 /\ incore'[f] => ptr'[f][s] = ptr[f][s]]_vars
  BY StepPtrStable
<1> QED
  BY <1>1, AppendInvHolds, TypeCorrect, PTL DEF Spec, PtrStable
-----------------------------------------------------------------------------
(***************************************************************************)
(* What is read back.                                                      *)
(***************************************************************************)
\* Quotient and remainder make up the number.
LEMMA Division ==
  ASSUME NEW p \in Nat, NEW n \in Nat \ {0}
  PROVE  p = n * (p \div n) + (p % n)
  OBVIOUS

\* Two pages of one zone lie at different offsets.
LEMMA OffsetsApart ==
  ASSUME NEW p \in Pages, NEW q \in Pages, BlockIdx(p) = BlockIdx(q), BlockOffset(p) = BlockOffset(q)
  PROVE  p = q
<1>1. p \in Nat /\ q \in Nat /\ BlocksPerZone \in Nat \ {0}
  BY FileAssumption DEF Pages
<1>2. /\ p = BlocksPerZone * BlockIdx(p) + BlockOffset(p)
      /\ q = BlocksPerZone * BlockIdx(q) + BlockOffset(q)
  BY <1>1, Division DEF BlockIdx, BlockOffset
<1> QED
  BY <1>2, Zenon

\* The block of a cached page is not that of another page of any file.
LEMMA BlocksApart ==
  ASSUME AppendInv, ZoneInv, Fits, ~lost,
         NEW f \in Inodes, NEW p \in Pages, page[f][p].here,
         NEW g \in Inodes, NEW q \in Pages, <<f, p>> # <<g, q>>,
         PtrOf(g)[BlockIdx(q)] # 0
  PROVE  page[f][p].addr # <<PtrOf(g)[BlockIdx(q)], BlockOffset(q)>>
<1> DEFINE s == BlockIdx(p)
           r == BlockIdx(q)
<1>1. s \in Slots /\ r \in Slots
  BY DEF Fits
<1>2. page[f][p].addr[1] # 0 /\ page[f][p].addr = <<ptr[f][s], BlockOffset(p)>>
  BY DEF AppendInv, PagesMapped
<1>3. ptr[f][s] \in ZonesOf(f, s)
  BY <1>1, <1>2, PointersInZones DEF ZoneInv
<1>4. PtrOf(g)[r] \in ZonesOf(g, r)
  BY <1>1, PointersInZones DEF ZoneInv, PtrOf
<1>5. CASE <<f, s>> # <<g, r>>
  <2>1. ZonesOf(f, s) \cap ZonesOf(g, r) = {}
    BY <1>1, <1>5 DEF ZoneInv, ZonesDisjoint
  <2> QED
    BY <1>2, <1>3, <1>4, <2>1
<1>6. CASE f = g /\ s = r
  <2>1. BlockOffset(p) # BlockOffset(q)
    BY <1>6, OffsetsApart
  <2> QED
    BY <1>2, <2>1
<1> QED
  BY <1>5, <1>6

\* A page of which nothing changes that a read depends on.
LEMMA DataKept ==
  ASSUME NEW f \in Inodes, NEW p \in Pages, DataOK(f, p),
         page'[f][p] = page[f][p], want'[f][p] = want[f][p],
         page[f][p].here => disk'[page[f][p].addr] = disk[page[f][p].addr],
         want[f][p] # Junk =>
           /\ p < SizeOf(f) => p < SizeOf(f)'
           /\ ~page[f][p].here =>
                disk'[<<PtrOf(f)[BlockIdx(p)], BlockOffset(p)>>'] = disk[<<PtrOf(f)[BlockIdx(p)], BlockOffset(p)>>]
  PROVE  DataOK(f, p)'
<1> DEFINE at == <<PtrOf(f)[BlockIdx(p)], BlockOffset(p)>>
<1>1. Content(f, p)' = IF page'[f][p].here THEN page'[f][p].val ELSE disk'[at']
  BY DEF Content
<1>2. Content(f, p) = IF page[f][p].here THEN page[f][p].val ELSE disk[at]
  BY DEF Content
<1>3. ~page[f][p].here /\ want[f][p] # Junk => disk'[at'] = disk[at]
  OBVIOUS
<1> HIDE DEF at
<1> QED
  BY <1>1, <1>2, <1>3 DEF DataOK

\* A page that leaves memory clean: its block holds what it held, if the pointer
\* and the size that are left are those that were in memory.
LEMMA DataDropped ==
  ASSUME AppendInv, NEW f \in Inodes, NEW p \in Pages, DataOK(f, p), ~page[f][p].dirty,
         page'[f][p] = NoFrame, UNCHANGED <<want, disk>>,
         SizeOf(f)' = SizeOf(f), PtrOf(f)' = PtrOf(f)
  PROVE  DataOK(f, p)'
<1>1. ~page'[f][p].here /\ ~page'[f][p].dirty
  BY DEF NoFrame
<1>2. Content(f, p)' = disk[<<PtrOf(f)[BlockIdx(p)], BlockOffset(p)>>]
  BY <1>1 DEF Content
<1>3. page[f][p].here => incore[f] /\ page[f][p].addr = <<ptr[f][BlockIdx(p)], BlockOffset(p)>>
  BY DEF AppendInv, InodeOK, PagesMapped
<1>4. Content(f, p)' = Content(f, p)
  BY <1>2, <1>3 DEF Content, DataOK, PtrOf
<1> QED
  BY <1>1, <1>4 DEF DataOK

\* What was written has its zone.
LEMMA WrittenCovered ==
  ASSUME AppendInv, NEW f \in Inodes, NEW p \in Pages, DataOK(f, p), want[f][p] # Junk
  PROVE  PtrOf(f)[BlockIdx(p)] # 0
<1>1. InodeOK(f) /\ p < SizeOf(f)
  BY DEF AppendInv, DataOK
<1> QED
  BY <1>1 DEF InodeOK, Covered, SizeOf, PtrOf

\* Steps that change nothing a read depends on.
LEMMA QuietData ==
  ASSUME DataInv, UNCHANGED <<page, disk, want, lost>>,
         \A f \in Inodes : SizeOf(f)' = SizeOf(f) /\ PtrOf(f)' = PtrOf(f)
  PROVE  DataInv'
<1> SUFFICES ASSUME ~lost, NEW f \in Inodes, NEW p \in Pages PROVE DataOK(f, p)'
  BY DEF DataInv
<1>1. DataOK(f, p)
  BY DEF DataInv
<1> QED
  BY <1>1, DataKept

\* Steps of calls and buffers that move no data.
LEMMA StepsQuiet ==
  ASSUME DataInv, TypeOK,
         \/ UNCHANGED vars
         \/ \E t \in Threads, f \in Inodes, p \in Pages :
              ReadPage(t, f, p) \/ \E v \in Versions : WriteFile(t, f, p, v)
         \/ \E t \in Threads : WriteBegin(t) \/ GetBlock(t) \/ NewZone(t) \/ Grew(t)
         \/ FlushTable \/ FlushZoneMap
  PROVE  DataInv'
<1>1. UNCHANGED <<incore, size, ptr, table, page, disk, want, lost>>
  BY DEF vars, inodeVars, tableVars, dataVars, ReadPage, WriteFile, WriteBegin, GetBlock, NewZone,
     Grew, FlushTable, FlushZoneMap
<1>2. \A f \in Inodes : SizeOf(f)' = SizeOf(f) /\ PtrOf(f)' = PtrOf(f)
  BY <1>1 DEF SizeOf, PtrOf
<1> QED
  BY <1>1, <1>2, QuietData

\* An inode is copied to the buffer or filled from it.
LEMMA InodeCopyData ==
  ASSUME DataInv, TypeOK, NEW f \in Inodes,
         aufs_inode_get(f) \/ \E sync \in BOOLEAN : minix_write_inode(f, sync)
  PROVE  DataInv'
<1>1. UNCHANGED <<page, disk, want, lost>>
  BY DEF aufs_inode_get, minix_write_inode, dataVars
<1>2. ASSUME NEW g \in Inodes PROVE SizeOf(g)' = SizeOf(g) /\ PtrOf(g)' = PtrOf(g)
  <2>1. CASE aufs_inode_get(f)
    <3>1. /\ ~incore[f] /\ incore' = [incore EXCEPT ![f] = TRUE] /\ table' = table
          /\ size' = [size EXCEPT ![f] = table[f].size] /\ ptr' = [ptr EXCEPT ![f] = table[f].ptr]
      BY <2>1 DEF aufs_inode_get, aufs_inode_fill, tableVars
    <3> QED
      BY <3>1 DEF SizeOf, PtrOf, TypeOK
  <2>2. CASE \E sync \in BOOLEAN : minix_write_inode(f, sync)
    <3>1. /\ incore[f] /\ UNCHANGED <<incore, size, ptr>>
          /\ table' = [table EXCEPT ![f] = Record(f)]
      BY <2>2 DEF minix_write_inode, UpdateInode
    <3> QED
      BY <3>1 DEF SizeOf, PtrOf, TypeOK
  <2> QED
    BY <2>1, <2>2
<1> QED
  BY <1>1, <1>2, QuietData

\* The pointer that is stored was zero: nothing was written behind it.
LEMMA StorePtrData ==
  ASSUME DataInv, AppendInv, TypeOK, Fits, NEW t \in Threads, StorePtr(t)
  PROVE  DataInv'
<1>0. PICK f \in Inodes, p \in Pages, s \in Slots :
        f = req[t].f /\ p = req[t].p /\ s = BlockIdx(p)
  BY RequestType DEF StorePtr, Goto, TypeOK
<1>1. /\ UNCHANGED <<incore, size, table, page, disk, want, lost>>
      /\ pc[t] = "store"
      /\ ptr' = [ptr EXCEPT ![f][s] = zone[t]]
  BY <1>0 DEF StorePtr, Goto, tableVars, dataVars
<1>2. ptr[f][s] = 0 /\ incore[f]
  BY <1>0, <1>1 DEF AppendInv, CallOK, Slot
<1> SUFFICES ASSUME ~lost, NEW g \in Inodes, NEW q \in Pages PROVE DataOK(g, q)'
  BY <1>1 DEF DataInv
<1>3. DataOK(g, q)
  BY DEF DataInv
<1>4. want[g][q] # Junk => PtrOf(g)'[BlockIdx(q)] = PtrOf(g)[BlockIdx(q)]
  <2> SUFFICES ASSUME want[g][q] # Junk PROVE PtrOf(g)'[BlockIdx(q)] = PtrOf(g)[BlockIdx(q)]
    OBVIOUS
  <2>1. PtrOf(g)[BlockIdx(q)] # 0
    BY <1>3, WrittenCovered
  <2>2. ~(g = f /\ BlockIdx(q) = s)
    BY <1>2, <2>1 DEF PtrOf
  <2>3. BlockIdx(q) \in Slots
    BY DEF Fits
  <2>4. ptr'[g][BlockIdx(q)] = ptr[g][BlockIdx(q)]
    BY <1>1, <2>2, <2>3 DEF TypeOK, Ptrs
  <2> QED
    BY <1>1, <2>4 DEF PtrOf
<1>5. SizeOf(g)' = SizeOf(g)
  BY <1>1 DEF SizeOf
<1> QED
  BY <1>1, <1>3, <1>4, <1>5, DataKept

\* A page that is brought in holds what its block holds.
LEMMA MapBhData ==
  ASSUME DataInv, AppendInv, TypeOK, NEW t \in Threads, MapBh(t)
  PROVE  DataInv'
<1>0. PICK f \in Inodes, p \in Pages, s \in Slots :
        f = req[t].f /\ p = req[t].p /\ s = BlockIdx(p)
  BY RequestType DEF MapBh, MapAt, TypeOK
<1>1. CallOK(t) /\ pc[t] = "map"
  BY DEF AppendInv, MapBh, MapAt
<1>2. zone[t] = ptr[f][s] /\ incore[f] /\ ~page[f][p].here
  BY <1>0, <1>1 DEF CallOK, Slot
<1> DEFINE at == <<ptr[f][s], BlockOffset(p)>>
           frame == [here |-> TRUE, addr |-> at, val |-> disk[at], dirty |-> FALSE]
<1>3. /\ page' = [page EXCEPT ![f][p] = frame]
      /\ UNCHANGED <<incore, size, ptr, table, disk, want, lost>>
  BY <1>0, <1>2 DEF MapBh, MapAt, inodeVars, tableVars
<1>4. /\ page'[f][p] = frame
      /\ \A g \in Inodes, q \in Pages : <<g, q>> # <<f, p>> => page'[g][q] = page[g][q]
  BY <1>3 DEF TypeOK
<1>5. \A g \in Inodes : SizeOf(g)' = SizeOf(g) /\ PtrOf(g)' = PtrOf(g)
  BY <1>3 DEF SizeOf, PtrOf
<1> SUFFICES ASSUME ~lost, NEW g \in Inodes, NEW q \in Pages PROVE DataOK(g, q)'
  BY <1>3 DEF DataInv
<1>6. DataOK(g, q)
  BY DEF DataInv
<1>7. CASE g = f /\ q = p
  <2>1. frame.here /\ frame.addr = at /\ frame.val = disk[at] /\ ~frame.dirty
    OBVIOUS
  <2>2. Content(f, p) = disk[at]
    BY <1>0, <1>2 DEF Content, PtrOf
  <2> HIDE DEF frame, at
  <2>3. Content(f, p)' = disk[at]
    BY <1>4, <2>1 DEF Content
  <2> QED
    BY <1>3, <1>4, <1>5, <1>6, <1>7, <2>1, <2>2, <2>3 DEF DataOK
<1>8. CASE ~(g = f /\ q = p)
  BY <1>3, <1>4, <1>5, <1>6, <1>8, DataKept
<1> QED
  BY <1>7, <1>8

\* What is written is in its page, which is dirty, and below the size.
LEMMA CopyData ==
  ASSUME DataInv, AppendInv, TypeOK, NEW t \in Threads, Copy(t)
  PROVE  DataInv'
<1>0. PICK f \in Inodes, p \in Pages : f = req[t].f /\ p = req[t].p
  BY RequestType DEF Copy
<1>1. page[f][p].here /\ incore[f] /\ p \in Nat /\ size[f] \in Nat
  BY <1>0, FileAssumption DEF AppendInv, CallOK, Copy, TypeOK, Pages, Sizes
<1>2. /\ UNCHANGED <<incore, ptr, table, disk, lost>>
      /\ page' = [page EXCEPT ![f][p].val = req[t].val, ![f][p].dirty = TRUE]
      /\ want' = [want EXCEPT ![f][p] = req[t].val]
      /\ size' = [size EXCEPT ![f] = IF p < @ THEN @ ELSE p + 1]
  BY <1>0 DEF Copy, tableVars
<1>3. /\ page'[f][p].here /\ page'[f][p].dirty /\ page'[f][p].val = req[t].val
      /\ want'[f][p] = req[t].val
  BY <1>1, <1>2 DEF TypeOK, Frames
<1>4. \A g \in Inodes, q \in Pages :
        ~(g = f /\ q = p) => page'[g][q] = page[g][q] /\ want'[g][q] = want[g][q]
  BY <1>2 DEF TypeOK
<1>5. /\ p < size'[f] /\ \A q \in Pages : q < size[f] => q < size'[f]
      /\ \A g \in Inodes : g # f => size'[g] = size[g]
  BY <1>1, <1>2 DEF TypeOK, Pages
<1> SUFFICES ASSUME ~lost, NEW g \in Inodes, NEW q \in Pages PROVE DataOK(g, q)'
  BY <1>2 DEF DataInv
<1>6. DataOK(g, q)
  BY DEF DataInv
<1>7. CASE g = f /\ q = p
  BY <1>1, <1>2, <1>3, <1>5, <1>7 DEF DataOK, Content, SizeOf
<1>8. CASE ~(g = f /\ q = p)
  <2>1. q < SizeOf(g) => q < SizeOf(g)'
    BY <1>2, <1>5 DEF SizeOf
  <2>2. PtrOf(g)' = PtrOf(g)
    BY <1>2 DEF PtrOf
  <2> QED
    BY <1>2, <1>4, <1>6, <1>8, <2>1, <2>2, DataKept
<1> QED
  BY <1>7, <1>8

\* A truncation takes the pages behind the new end with what was written there.
LEMMA SetattrData ==
  ASSUME DataInv, AppendInv, TypeOK, NEW f \in Inodes, NEW n \in Sizes, minix_setattr(f, n)
  PROVE  DataInv'
<1>1. incore[f] /\ UNCHANGED <<incore, ptr, table, disk, lost>>
  BY DEF minix_setattr, tableVars
<1>2. /\ size'[f] = n
      /\ \A g \in Inodes : g # f => size'[g] = size[g] /\ page'[g] = page[g] /\ want'[g] = want[g]
  BY DEF minix_setattr, TypeOK
<1>3. \A p \in Pages : p < n => page'[f][p] = page[f][p] /\ want'[f][p] = want[f][p]
  BY DEF minix_setattr, PagesBelow, TypeOK
<1>4. \A p \in Pages : ~(p < n) => \/ n = size[f] /\ page'[f][p] = page[f][p] /\ want'[f][p] = want[f][p]
                                   \/ page'[f][p] = NoFrame /\ want'[f][p] = Junk
  BY DEF minix_setattr, PagesBelow, TypeOK
<1> SUFFICES ASSUME ~lost, NEW g \in Inodes, NEW q \in Pages PROVE DataOK(g, q)'
  BY <1>1 DEF DataInv
<1>5. DataOK(g, q)
  BY DEF DataInv
<1>6. PtrOf(g)' = PtrOf(g)
  BY <1>1 DEF PtrOf
<1>7. CASE g # f
  <2>1. SizeOf(g)' = SizeOf(g)
    BY <1>1, <1>2, <1>7 DEF SizeOf
  <2> QED
    BY <1>1, <1>2, <1>5, <1>6, <1>7, <2>1, DataKept
<1>8. CASE g = f /\ (q < n \/ (n = size[f] /\ page'[f][q] = page[f][q] /\ want'[f][q] = want[f][q]))
  <2>1. q < SizeOf(g) => q < SizeOf(g)'
    BY <1>1, <1>2, <1>8 DEF SizeOf
  <2> QED
    BY <1>1, <1>3, <1>5, <1>6, <1>8, <2>1, DataKept
<1>9. CASE g = f /\ page'[f][q] = NoFrame /\ want'[f][q] = Junk
  BY <1>9 DEF DataOK, NoFrame
<1> QED
  BY <1>4, <1>7, <1>8, <1>9

\* The shrinker drops an inode that can be read again as it was.
LEMMA EvictData ==
  ASSUME DataInv, AppendInv, TypeOK, NEW f \in Inodes, EvictInode(f)
  PROVE  DataInv'
<1>1. /\ incore[f] /\ ~idirty[f] /\ ~InUse(f) /\ \A p \in Pages : ~page[f][p].dirty
      /\ incore' = [incore EXCEPT ![f] = FALSE]
      /\ size' = [size EXCEPT ![f] = 0] /\ ptr' = [ptr EXCEPT ![f] = NoPtrs]
      /\ page' = [page EXCEPT ![f] = [p \in Pages |-> NoFrame]]
      /\ UNCHANGED <<table, disk, want, lost>>
  BY DEF EvictInode, tableVars
<1>2. /\ ~incore'[f]
      /\ \A g \in Inodes : g # f => /\ incore'[g] = incore[g] /\ size'[g] = size[g]
                                    /\ ptr'[g] = ptr[g] /\ page'[g] = page[g]
      /\ \A p \in Pages : page'[f][p] = NoFrame
  BY <1>1 DEF TypeOK
<1>3. ~Growing(f)
  BY <1>1 DEF Growing, InUse
<1>4. table[f].size = size[f] /\ table[f].ptr = ptr[f]
  BY <1>1, <1>3 DEF AppendInv, InodeOK
<1>5. \A g \in Inodes : SizeOf(g)' = SizeOf(g) /\ PtrOf(g)' = PtrOf(g)
  BY <1>1, <1>2, <1>4 DEF SizeOf, PtrOf
<1> SUFFICES ASSUME ~lost, NEW g \in Inodes, NEW q \in Pages PROVE DataOK(g, q)'
  BY <1>1 DEF DataInv
<1>6. DataOK(g, q)
  BY DEF DataInv
<1>7. CASE g = f
  BY <1>1, <1>2, <1>5, <1>6, <1>7, DataDropped
<1>8. CASE g # f
  BY <1>1, <1>2, <1>5, <1>6, <1>8, DataKept
<1> QED
  BY <1>7, <1>8

\* Reclaim drops a page that its block holds.
LEMMA ReclaimData ==
  ASSUME DataInv, AppendInv, TypeOK, NEW f \in Inodes, NEW p \in Pages, ReclaimPage(f, p)
  PROVE  DataInv'
<1>1. /\ ~page[f][p].dirty /\ page' = [page EXCEPT ![f][p] = NoFrame]
      /\ UNCHANGED <<incore, size, ptr, table, disk, want, lost>>
  BY DEF ReclaimPage, inodeVars, tableVars
<1>2. /\ page'[f][p] = NoFrame
      /\ \A g \in Inodes, q \in Pages : ~(g = f /\ q = p) => page'[g][q] = page[g][q]
  BY <1>1 DEF TypeOK
<1>3. \A g \in Inodes : SizeOf(g)' = SizeOf(g) /\ PtrOf(g)' = PtrOf(g)
  BY <1>1 DEF SizeOf, PtrOf
<1> SUFFICES ASSUME ~lost, NEW g \in Inodes, NEW q \in Pages PROVE DataOK(g, q)'
  BY <1>1 DEF DataInv
<1>4. DataOK(g, q)
  BY DEF DataInv
<1>5. CASE g = f /\ q = p
  BY <1>1, <1>2, <1>3, <1>4, <1>5, DataDropped
<1>6. CASE ~(g = f /\ q = p)
  BY <1>1, <1>2, <1>3, <1>4, <1>6, DataKept
<1> QED
  BY <1>5, <1>6

\* Write back of a page changes its own block and that of no other page.
LEMMA WritePageData ==
  ASSUME DataInv, AppendInv, ZoneInv, Fits, NEW f \in Inodes, NEW p \in Pages, aufs_writepage(f, p)
  PROVE  DataInv'
<1>0. TypeOK
  BY DEF ZoneInv
<1>1. /\ page[f][p].dirty /\ page' = [page EXCEPT ![f][p].dirty = FALSE]
      /\ disk' = [disk EXCEPT ![page[f][p].addr] = page[f][p].val]
      /\ UNCHANGED <<incore, size, ptr, table, want, lost>>
  BY DEF aufs_writepage, inodeVars, tableVars
<1> SUFFICES ASSUME ~lost, NEW g \in Inodes, NEW q \in Pages PROVE DataOK(g, q)'
  BY <1>1 DEF DataInv
<1>2. DataOK(g, q) /\ DataOK(f, p)
  BY DEF DataInv
<1>3. page[f][p].here
  BY <1>1, <1>2 DEF DataOK
<1>4. /\ page'[f][p].here /\ page'[f][p].val = page[f][p].val /\ page'[f][p].addr = page[f][p].addr
      /\ disk'[page[f][p].addr] = page[f][p].val
      /\ ~(g = f /\ q = p) => page'[g][q] = page[g][q]
      /\ \A a \in Addr : a # page[f][p].addr => disk'[a] = disk[a]
  BY <1>0, <1>1, <1>3 DEF TypeOK, Frames
<1>5. SizeOf(g)' = SizeOf(g) /\ PtrOf(g)' = PtrOf(g)
  BY <1>1 DEF SizeOf, PtrOf
<1>6. CASE g = f /\ q = p
  <2>1. Content(f, p)' = Content(f, p)
    BY <1>3, <1>4 DEF Content
  <2> QED
    BY <1>1, <1>2, <1>4, <1>5, <1>6, <2>1 DEF DataOK
<1>7. CASE ~(g = f /\ q = p)
  <2> DEFINE at == <<PtrOf(g)[BlockIdx(q)], BlockOffset(q)>>
  <2>1. BlockIdx(q) \in Slots /\ BlockOffset(q) \in Offsets
    BY BlockOffsetType DEF Fits
  <2>2. PtrOf(g)[BlockIdx(q)] \in Zones \cup {0}
    BY <1>0, <2>1 DEF PtrOf, TypeOK, Records, Ptrs
  <2>3. at \in Addr
    BY <2>1, <2>2 DEF Addr
  <2>4. page[g][q].here => page[g][q].addr = at /\ PtrOf(g)[BlockIdx(q)] # 0
    <3> SUFFICES ASSUME page[g][q].here PROVE page[g][q].addr = at /\ PtrOf(g)[BlockIdx(q)] # 0
      OBVIOUS
    <3>1. InodeOK(g) /\ page[g][q].addr[1] # 0 /\ page[g][q].addr = <<ptr[g][BlockIdx(q)], BlockOffset(q)>>
      BY DEF AppendInv, PagesMapped
    <3>2. incore[g]
      BY <3>1 DEF InodeOK
    <3> QED
      BY <3>1, <3>2 DEF PtrOf
  <2>5. want[g][q] # Junk => PtrOf(g)[BlockIdx(q)] # 0
    BY <1>2, WrittenCovered
  <2>6. PtrOf(g)[BlockIdx(q)] # 0 => page[f][p].addr # at
    BY <1>3, <1>7, BlocksApart
  <2>7. page[g][q].here \/ want[g][q] # Junk => disk'[at] = disk[at]
    BY <1>4, <2>3, <2>4, <2>5, <2>6
  <2>8. at' = at
    BY <1>5
  <2> QED
    BY <1>1, <1>2, <1>4, <1>5, <1>7, <2>4, <2>7, <2>8, DataKept
<1> QED
  BY <1>6, <1>7

\* A clean unmount leaves everything on the device; after a crash nothing is expected.
LEMMA LoseMemoryData ==
  ASSUME DataInv, AppendInv, TypeOK, Remount \/ Crash
  PROVE  DataInv'
<1>1. /\ \A f \in Inodes : ~incore'[f] /\ table' = tableDisk /\ disk' = disk
      /\ \A f \in Inodes, p \in Pages : page'[f][p] = NoFrame
  BY DEF Remount, Crash, LoseMemory, NoPages
<1> SUFFICES ASSUME ~lost', NEW f \in Inodes, NEW p \in Pages PROVE DataOK(f, p)'
  BY DEF DataInv
<1>2. CASE Crash
  BY <1>1, <1>2 DEF Crash, DataOK, NoFrame
<1>3. CASE Remount
  <2>1. /\ ~lost /\ want' = want /\ ~tableDirty /\ ~idirty[f] /\ ~page[f][p].dirty
        /\ \A t \in Threads : pc[t] = "idle"
    BY <1>3 DEF Remount
  <2>2. DataOK(f, p) /\ InodeOK(f) /\ tableDisk = table
    BY <2>1 DEF DataInv, AppendInv
  <2>3. ~Growing(f)
    BY <2>1 DEF Growing
  <2>4. incore[f] => table[f].size = size[f] /\ table[f].ptr = ptr[f]
    BY <2>1, <2>2, <2>3 DEF InodeOK
  <2>5. SizeOf(f)' = SizeOf(f) /\ PtrOf(f)' = PtrOf(f)
    BY <1>1, <2>2, <2>4 DEF SizeOf, PtrOf
  <2> QED
    BY <1>1, <2>1, <2>2, <2>5, DataDropped
<1> QED
  BY <1>2, <1>3

\* Every step keeps what was written, if it does not find the zone map full.
LEMMA StepData ==
  ASSUME DataInv, AppendInv, ZoneInv, Fits, ZoneLeft, [Next]_vars
  PROVE  DataInv'
<1>0. TypeOK
  BY DEF ZoneInv
<1>1. CASE \E t \in Threads : ThreadStep(t)
  BY <1>0, <1>1, NoFailure, StepsQuiet, StorePtrData, MapBhData, CopyData DEF ThreadStep
<1>2. CASE \E f \in Inodes : \/ \E n \in Sizes : minix_setattr(f, n)
                             \/ \E sync \in BOOLEAN : minix_write_inode(f, sync)
                             \/ aufs_inode_get(f)
                             \/ EvictInode(f)
  BY <1>0, <1>2, SetattrData, InodeCopyData, EvictData
<1>3. CASE \E f \in Inodes, p \in Pages : aufs_writepage(f, p) \/ ReclaimPage(f, p)
  BY <1>0, <1>3, WritePageData, ReclaimData
<1>4. CASE Remount \/ Crash
  BY <1>0, <1>4, LoseMemoryData
<1> QED
  BY <1>0, <1>1, <1>2, <1>3, <1>4, StepsQuiet DEF Next

\* Nothing is cached or written at first.
LEMMA InitData == Init => DataInv
  BY DEF Init, DataInv, DataOK, NoPages, NoFrame

\* The invariant for data, with any crashes.
LEMMA DataInvHolds ==
  ASSUME Fits, AllowHoles = FALSE
  PROVE  Spec /\ []ZoneLeft => []DataInv
<1>1. ZoneInv /\ AppendInv /\ DataInv /\ ZoneLeft /\ [Next]_vars => DataInv'
  BY StepData
<1> QED
  BY <1>1, InitData, AppendInvHolds, ZoneInvHolds, PTL DEF Spec

\* What was written is what a read returns, after the page is reclaimed, the inode
\* evicted or the file system unmounted, until a crash loses zone map bits; no other
\* file's write changes it.
THEOREM WritesReadBack ==
  ASSUME Fits, AllowHoles = FALSE
  PROVE  Spec /\ []ZoneLeft => [](~lost => ReadBack)
<1>1. DataInv => (~lost => ReadBack)
  BY DEF DataInv, DataOK, ReadBack
<1> QED
  BY <1>1, DataInvHolds, PTL
-----------------------------------------------------------------------------
(***************************************************************************)
(* No zone leaks, and none is missing, as long as the machine does not     *)
(* crash: a slot has at most one zone, and a slot that is given one had    *)
(* none.                                                                   *)
(***************************************************************************)
\* There is a zone for every zone pointer of every file.
Roomy == IsFiniteSet(Inodes) /\ NZones >= Cardinality(Inodes) * ZonePtrNum

\* A thread is about to store the zone in the slot.
Brings(u, f, s, z) == /\ pc[u] = "store" /\ zone[u] = z
                      /\ req[u].f = f /\ BlockIdx(req[u].p) = s

\* The zones of a slot, one by one.
LEMMA InZonesOf ==
  ASSUME NEW f, NEW s, NEW z
  PROVE  z \in ZonesOf(f, s) <=>
           /\ z # 0
           /\ \/ z = ptr[f][s] \/ z = table[f].ptr[s] \/ z = tableDisk[f].ptr[s]
              \/ \E u \in Threads : Brings(u, f, s, z)
  BY DEF ZonesOf, Brings

\* Nothing leaks as long as no slot loses a zone.
LEMMA SlotsKeep ==
  ASSUME NoZoneLeaks, zmap' \subseteq zmap,
         \A f \in Inodes, s \in Slots : ZonesOf(f, s) \subseteq ZonesOf(f, s)'
  PROVE  NoZoneLeaks'
  BY DEF NoZoneLeaks

\* Steps that leave the pointers alone, and of no thread that is about to store one.
LEMMA QuietLeak ==
  ASSUME NoZoneLeaks, UNCHANGED <<ptr, tableVars, zmap>>,
         \A u \in Threads : pc[u] = "store" => pc'[u] = pc[u] /\ req'[u] = req[u] /\ zone'[u] = zone[u]
  PROVE  NoZoneLeaks'
<1> SUFFICES ASSUME NEW f \in Inodes, NEW s \in Slots PROVE ZonesOf(f, s) \subseteq ZonesOf(f, s)'
  BY SlotsKeep
<1> SUFFICES ASSUME NEW z, z \in ZonesOf(f, s) PROVE z \in ZonesOf(f, s)'
  OBVIOUS
<1>1. \A u \in Threads : Brings(u, f, s, z) => Brings(u, f, s, z)'
  BY DEF Brings
<1> QED
  BY <1>1, InZonesOf DEF tableVars, ZonesOf, Brings

\* All steps that neither hand out, store, copy nor drop a pointer.
LEMMA StepsLeak ==
  ASSUME NoZoneLeaks, TypeOK,
         \/ UNCHANGED vars
         \/ \E t \in Threads, f \in Inodes, p \in Pages :
              ReadPage(t, f, p) \/ \E v \in Versions : WriteFile(t, f, p, v)
         \/ \E t \in Threads : WriteBegin(t) \/ GetBlock(t) \/ MapBh(t) \/ Copy(t) \/ Grew(t)
         \/ \E f \in Inodes, n \in Sizes : minix_setattr(f, n)
         \/ \E f \in Inodes, p \in Pages : aufs_writepage(f, p) \/ ReclaimPage(f, p)
         \/ FlushZoneMap
  PROVE  NoZoneLeaks'
<1>1. UNCHANGED <<ptr, tableVars, zmap>>
  BY DEF vars, inodeVars, zmapVars, ReadPage, WriteFile, WriteBegin, GetBlock, MapBh, MapAt, Copy, Grew,
     minix_setattr, aufs_writepage, ReclaimPage, FlushZoneMap
<1>2. ASSUME NEW u \in Threads, pc[u] = "store"
      PROVE  pc'[u] = pc[u] /\ req'[u] = req[u] /\ zone'[u] = zone[u]
  <2>1. CASE \E t \in Threads, f \in Inodes, p \in Pages :
               ReadPage(t, f, p) \/ \E v \in Versions : WriteFile(t, f, p, v)
    BY <1>2, <2>1 DEF ReadPage, WriteFile, Goto, TypeOK
  <2>2. CASE \E t \in Threads : WriteBegin(t) \/ GetBlock(t) \/ MapBh(t) \/ Copy(t) \/ Grew(t)
    <3>1. PICK t \in Threads : WriteBegin(t) \/ GetBlock(t) \/ MapBh(t) \/ Copy(t) \/ Grew(t)
      BY <2>2
    <3>2. pc[t] # "store"
      BY <3>1 DEF WriteBegin, GetBlock, MapBh, MapAt, Copy, Grew, Goto, Done
    <3>3. \E l : pc' = [pc EXCEPT ![t] = l]
      BY <3>1 DEF WriteBegin, GetBlock, MapBh, MapAt, Copy, Grew, Goto, Done
    <3>4. req' = req \/ req' = [req EXCEPT ![t] = NoReq]
      BY <3>1 DEF WriteBegin, GetBlock, MapBh, MapAt, Copy, Grew, Done
    <3>5. zone' = zone \/ \E z : zone' = [zone EXCEPT ![t] = z]
      BY <3>1 DEF WriteBegin, GetBlock, MapBh, MapAt, Copy, Grew
    <3> QED
      BY <1>2, <3>2, <3>3, <3>4, <3>5 DEF TypeOK
  <2>3. CASE UNCHANGED <<pc, req, zone>>
    BY <2>3
  <2> QED
    BY <2>1, <2>2, <2>3 DEF vars, minix_setattr, aufs_writepage, ReclaimPage, FlushZoneMap
<1> QED
  BY <1>1, <1>2, QuietLeak

\* A zone that is handed out is on its way to a slot.
LEMMA NewZoneLeak ==
  ASSUME NoZoneLeaks, TypeOK, NEW t \in Threads, NewZone(t)
  PROVE  NoZoneLeaks'
<1>0. PICK f \in Inodes, p \in Pages, s \in Slots :
        f = req[t].f /\ p = req[t].p /\ s = BlockIdx(p)
  BY RequestType DEF NewZone, Goto, TypeOK
<1>1. PICK z \in Zones : zmap' = zmap \cup {z} /\ zone' = [zone EXCEPT ![t] = z]
  BY DEF NewZone
<1>2. /\ pc[t] = "alloc" /\ pc' = [pc EXCEPT ![t] = "store"]
      /\ UNCHANGED <<ptr, table, tableDisk, req>>
  BY DEF NewZone, Goto, inodeVars, tableVars
<1>3. pc'[t] = "store" /\ zone'[t] = z /\ \A u \in Threads : u # t => pc'[u] = pc[u] /\ zone'[u] = zone[u]
  BY <1>1, <1>2 DEF TypeOK
<1>4. z # 0
  BY DEF Zones
<1>5. z \in ZonesOf(f, s)'
  BY <1>0, <1>2, <1>3, <1>4 DEF ZonesOf
<1>6. ASSUME NEW g \in Inodes, NEW r \in Slots, NEW y, y \in ZonesOf(g, r) PROVE y \in ZonesOf(g, r)'
  BY <1>2, <1>3, <1>6 DEF ZonesOf
<1> QED
  BY <1>1, <1>5, <1>6 DEF NoZoneLeaks

\* It becomes the pointer of the slot, which was zero.
LEMMA StorePtrLeak ==
  ASSUME NoZoneLeaks, AppendInv, TypeOK, NEW t \in Threads, StorePtr(t)
  PROVE  NoZoneLeaks'
<1>0. PICK f \in Inodes, p \in Pages, s \in Slots :
        f = req[t].f /\ p = req[t].p /\ s = BlockIdx(p)
  BY RequestType DEF StorePtr, Goto, TypeOK
<1>1. /\ pc[t] = "store" /\ pc' = [pc EXCEPT ![t] = "map"]
      /\ ptr' = [ptr EXCEPT ![f][s] = zone[t]]
      /\ UNCHANGED <<table, tableDisk, req, zone, zmap>>
  BY <1>0 DEF StorePtr, Goto, tableVars, zmapVars
<1>2. ptr[f][s] = 0
  BY <1>0, <1>1 DEF AppendInv, CallOK, Slot
<1>3. \A u \in Threads : u # t => pc'[u] = pc[u]
  BY <1>1 DEF TypeOK
<1>4. ptr'[f][s] = zone[t]
  BY <1>1 DEF TypeOK, Ptrs
<1>5. \A g \in Inodes, r \in Slots : ~(g = f /\ r = s) => ptr'[g][r] = ptr[g][r]
  BY <1>1 DEF TypeOK, Ptrs
<1>6. ASSUME NEW g \in Inodes, NEW r \in Slots, NEW y, y \in ZonesOf(g, r) PROVE y \in ZonesOf(g, r)'
  <2>1. y # 0
    BY <1>6 DEF ZonesOf
  <2>2. CASE y = ptr[g][r] \/ y = table[g].ptr[r] \/ y = tableDisk[g].ptr[r]
    BY <1>1, <1>2, <1>5, <2>1, <2>2 DEF ZonesOf
  <2>3. CASE \E u \in Threads : Brings(u, g, r, y)
    <3>1. PICK u \in Threads : Brings(u, g, r, y)
      BY <2>3
    <3>2. CASE u = t
      BY <1>0, <1>4, <2>1, <3>1, <3>2 DEF ZonesOf, Brings
    <3>3. CASE u # t
      BY <1>1, <1>3, <2>1, <3>1, <3>3 DEF ZonesOf, Brings
    <3> QED
      BY <3>2, <3>3
  <2> QED
    BY <1>6, <2>2, <2>3, InZonesOf
<1> QED
  BY <1>1, <1>6, SlotsKeep

\* A slot that keeps its zone in memory or in the buffer keeps it, as the copies hold
\* no other.
LEMMA CopiesLeak ==
  ASSUME NoZoneLeaks, zmap' \subseteq zmap,
         \A u \in Threads : pc[u] = "store" => pc'[u] = pc[u] /\ req'[u] = req[u] /\ zone'[u] = zone[u],
         \A f \in Inodes, s \in Slots :
           {ptr[f][s], table[f].ptr[s], tableDisk[f].ptr[s]}
             \subseteq {0, ptr'[f][s], table'[f].ptr[s], tableDisk'[f].ptr[s]}
  PROVE  NoZoneLeaks'
<1> SUFFICES ASSUME NEW f \in Inodes, NEW s \in Slots, NEW z, z \in ZonesOf(f, s)
             PROVE  z \in ZonesOf(f, s)'
  BY SlotsKeep
<1>1. z # 0
  BY DEF ZonesOf
<1>2. CASE z \in {ptr[f][s], table[f].ptr[s], tableDisk[f].ptr[s]}
  <2>1. z \in {ptr'[f][s], table'[f].ptr[s], tableDisk'[f].ptr[s]}
    BY <1>1, <1>2
  <2> QED
    BY <1>1, <2>1 DEF ZonesOf
<1>3. CASE \E u \in Threads : Brings(u, f, s, z)
  BY <1>1, <1>3 DEF ZonesOf, Brings
<1> QED
  BY <1>2, <1>3, InZonesOf

\* Inode write back, inode read, eviction, table write back and a clean unmount move
\* the pointers and lose none.
LEMMA MovesLeak ==
  ASSUME NoZoneLeaks, AppendInv, TypeOK, ZoneMapWritten,
         \/ \E f \in Inodes : \/ \E sync \in BOOLEAN : minix_write_inode(f, sync)
                              \/ aufs_inode_get(f) \/ EvictInode(f)
         \/ FlushTable \/ Remount
  PROVE  NoZoneLeaks'
<1>0. \A f \in Inodes : InodeOK(f)
  BY DEF AppendInv
<1>1. CASE \E f \in Inodes, sync \in BOOLEAN : minix_write_inode(f, sync)
  <2>1. PICK f \in Inodes, sync \in BOOLEAN : minix_write_inode(f, sync)
    BY <1>1
  <2>2. /\ incore[f] /\ UNCHANGED <<ptr, zmap, pc, req, zone>>
        /\ table' = [table EXCEPT ![f] = Record(f)] /\ tableDisk' \in {table', tableDisk}
    BY <2>1 DEF minix_write_inode, UpdateInode, zmapVars
  <2>3. /\ table'[f].ptr = ptr[f] /\ \A g \in Inodes : g # f => table'[g] = table[g]
    BY <2>2 DEF TypeOK, Record
  <2>4. \A g \in Inodes, s \in Slots :
          {ptr[g][s], table[g].ptr[s], tableDisk[g].ptr[s]}
            \subseteq {0, ptr'[g][s], table'[g].ptr[s], tableDisk'[g].ptr[s]}
    BY <1>0, <2>2, <2>3 DEF InodeOK
  <2> QED
    BY <2>2, <2>4, CopiesLeak
<1>2. CASE \E f \in Inodes : aufs_inode_get(f)
  <2>1. PICK f \in Inodes : aufs_inode_get(f)
    BY <1>2
  <2>2. /\ ~incore[f] /\ UNCHANGED <<table, tableDisk, zmap, pc, req, zone>>
        /\ \A g \in Inodes : g # f => ptr'[g] = ptr[g]
    BY <2>1 DEF aufs_inode_get, aufs_inode_fill, tableVars, zmapVars, TypeOK
  <2>3. \A g \in Inodes, s \in Slots : ptr[g][s] \in {0, ptr'[g][s]}
    BY <1>0, <2>2 DEF InodeOK, NoPtrs
  <2> QED
    BY <2>2, <2>3, CopiesLeak
<1>3. CASE \E f \in Inodes : EvictInode(f)
  <2>1. PICK f \in Inodes : EvictInode(f)
    BY <1>3
  <2>2. /\ incore[f] /\ ~idirty[f] /\ ~InUse(f)
        /\ UNCHANGED <<table, tableDisk, zmap, pc, req, zone>>
        /\ \A g \in Inodes : g # f => ptr'[g] = ptr[g]
    BY <2>1 DEF EvictInode, tableVars, zmapVars, TypeOK
  <2>3. table[f].ptr = ptr[f]
    BY <1>0, <2>2 DEF InodeOK, Growing, InUse
  <2>4. \A g \in Inodes, s \in Slots : ptr[g][s] \in {ptr'[g][s], table'[g].ptr[s]}
    BY <2>2, <2>3
  <2> QED
    BY <2>2, <2>4, CopiesLeak
<1>4. CASE FlushTable
  <2>1. UNCHANGED <<ptr, table, zmap, pc, req, zone>> /\ tableDisk' = table
    BY <1>4 DEF FlushTable, inodeVars, zmapVars
  <2> QED
    BY <1>0, <2>1, CopiesLeak DEF InodeOK
<1>5. CASE Remount
  <2>1. /\ \A t \in Threads : pc[t] = "idle"
        /\ ~tableDirty /\ ~zmapDirty /\ \A f \in Inodes : ~idirty[f]
        /\ table' = tableDisk /\ tableDisk' = tableDisk /\ zmap' = zmapDisk
    BY <1>5 DEF Remount, LoseMemory
  <2>2. tableDisk = table /\ zmap' = zmap
    BY <2>1 DEF AppendInv, ZoneMapWritten
  <2>3. ASSUME NEW f \in Inodes, NEW s \in Slots PROVE ptr[f][s] \in {0, table[f].ptr[s]}
    <3>1. CASE incore[f]
      BY <1>0, <2>1, <3>1 DEF InodeOK, Growing
    <3>2. CASE ~incore[f]
      BY <1>0, <3>2 DEF InodeOK, NoPtrs
    <3> QED
      BY <3>1, <3>2
  <2> QED
    BY <2>1, <2>2, <2>3, CopiesLeak
<1> QED
  BY <1>1, <1>2, <1>3, <1>4, <1>5

\* No step but a crash leaks a zone.
LEMMA StepLeak ==
  ASSUME NoZoneLeaks, AppendInv, ZoneInv, Fits, ZoneLeft, AllowCrash = FALSE, [Next]_vars
  PROVE  NoZoneLeaks'
<1>0. TypeOK /\ ZoneMapWritten
  BY DEF ZoneInv
<1>1. ~Crash
  BY DEF Crash
<1>2. CASE \E t \in Threads : ThreadStep(t)
  BY <1>0, <1>2, NoFailure, StepsLeak, NewZoneLeak, StorePtrLeak DEF ThreadStep
<1>3. CASE \/ \E f \in Inodes : \/ \E sync \in BOOLEAN : minix_write_inode(f, sync)
                                \/ aufs_inode_get(f) \/ EvictInode(f)
           \/ FlushTable \/ Remount
  BY <1>0, <1>3, MovesLeak
<1> QED
  BY <1>0, <1>1, <1>2, <1>3, StepsLeak DEF Next

\* A slot has at most one zone, in all its copies and on its way there.
LEMMA OneZone ==
  ASSUME AppendInv, TypeOK, NEW f \in Inodes, NEW s \in Slots,
         NEW y, y \in ZonesOf(f, s), NEW z, z \in ZonesOf(f, s)
  PROVE  y = z
<1>1. InodeOK(f)
  BY DEF AppendInv
<1>2. y # 0 /\ z # 0
  BY DEF ZonesOf
<1>3. ASSUME NEW u \in Threads, NEW x, Brings(u, f, s, x)
      PROVE  incore[f] /\ ptr[f][s] = 0 /\ req[u].op = "write"
  <2>1. CallOK(u) /\ pc[u] = "store"
    BY <1>3 DEF AppendInv, Brings
  <2>2. req[u].op \in {"read", "write"}
    BY <2>1, RequestType DEF Requests
  <2> QED
    BY <1>3, <2>1, <2>2 DEF CallOK, Brings, Slot
<1>4. ASSUME NEW u \in Threads, NEW v \in Threads, NEW x, Brings(u, f, s, x), NEW w, Brings(v, f, s, w)
      PROVE  x = w
  <2>1. req[u].op = "write" /\ req[v].op = "write" /\ CallsApart(u, v)
    BY <1>3, <1>4 DEF AppendInv
  <2>2. u = v
    BY <1>4, <2>1 DEF CallsApart, Brings
  <2> QED
    BY <1>4, <2>2 DEF Brings
<1>5. table[f].ptr[s] \in {0, ptr[f][s]} \/ ~incore[f]
  BY <1>1 DEF InodeOK
<1>6. tableDisk[f].ptr[s] \in {0, table[f].ptr[s]} /\ (~incore[f] => ptr[f][s] = 0)
  BY <1>1 DEF InodeOK, NoPtrs
<1>7. /\ \/ y = ptr[f][s] \/ y = table[f].ptr[s] \/ y = tableDisk[f].ptr[s]
         \/ \E u \in Threads : Brings(u, f, s, y)
      /\ \/ z = ptr[f][s] \/ z = table[f].ptr[s] \/ z = tableDisk[f].ptr[s]
         \/ \E u \in Threads : Brings(u, f, s, z)
  BY InZonesOf
<1> QED
  BY <1>2, <1>3, <1>4, <1>5, <1>6, <1>7

\* The slot that a thread allocates a zone for has none.
LEMMA NoZoneYet ==
  ASSUME AppendInv, TypeOK, NEW t \in Threads, pc[t] = "alloc"
  PROVE  /\ req[t].f \in Inodes /\ BlockIdx(req[t].p) \in Slots
         /\ ZonesOf(req[t].f, BlockIdx(req[t].p)) = {}
<1>0. PICK f \in Inodes, s \in Slots : f = req[t].f /\ s = BlockIdx(req[t].p)
  BY RequestType DEF TypeOK
<1>1. CallOK(t) /\ InodeOK(f)
  BY DEF AppendInv
<1>2. incore[f] /\ ptr[f][s] = 0 /\ req[t].op = "write"
  <2>1. req[t].op \in {"read", "write"}
    BY RequestType DEF Requests
  <2> QED
    BY <1>0, <1>1, <2>1 DEF CallOK, Slot
<1>3. ASSUME NEW u \in Threads, NEW z PROVE ~Brings(u, f, s, z)
  <2> SUFFICES ASSUME Brings(u, f, s, z) PROVE FALSE
    OBVIOUS
  <2>1. CallOK(u) /\ CallsApart(t, u) /\ pc[u] = "store" /\ req[u].f = f
    BY DEF AppendInv, Brings
  <2>2. req[u].op \in {"read", "write"}
    BY <2>1, RequestType DEF Requests
  <2> QED
    BY <1>0, <1>2, <2>1, <2>2 DEF CallOK, CallsApart
<1>4. table[f].ptr[s] = 0 /\ tableDisk[f].ptr[s] = 0
  BY <1>1, <1>2 DEF InodeOK
<1>5. \A z : z \notin ZonesOf(f, s)
  BY <1>2, <1>3, <1>4, InZonesOf
<1> QED
  BY <1>0, <1>5

\* With a zone for every pointer, a thread that needs a zone finds one: the slot it
\* is for has none, and every zone in use has a slot of its own.
LEMMA RoomLeft ==
  ASSUME AppendInv, TypeOK, NoZoneLeaks, Roomy
  PROVE  ZoneLeft
<1> SUFFICES ASSUME NEW t \in Threads, pc[t] = "alloc", Zones \subseteq zmap PROVE FALSE
  BY DEF ZoneLeft
<1> DEFINE own == <<req[t].f, BlockIdx(req[t].p)>>
           T == (Inodes \X Slots) \ {own}
<1>1. IsFiniteSet(Slots) /\ Cardinality(Slots) = ZonePtrNum
  BY FileAssumption, FS_Interval DEF Slots
<1>2. IsFiniteSet(Zones) /\ Cardinality(Zones) = NZones
  BY FileAssumption, FS_Interval DEF Zones
<1>3. /\ IsFiniteSet(Inodes \X Slots)
      /\ Cardinality(Inodes \X Slots) = Cardinality(Inodes) * ZonePtrNum
  BY <1>1, FS_Product DEF Roomy
<1>4. Cardinality(Inodes \X Slots) \in Nat /\ Cardinality(Inodes \X Slots) <= NZones
  BY <1>3, FS_CardinalityType, FileAssumption DEF Roomy
<1>5. own \in Inodes \X Slots
  BY NoZoneYet
<1>6. IsFiniteSet(T) /\ Cardinality(T) = Cardinality(Inodes \X Slots) - 1
  <2>1. \A S, x : IsFiniteSet(S) /\ x \in S
                    => IsFiniteSet(S \ {x}) /\ Cardinality(S \ {x}) = Cardinality(S) - 1
    BY FS_RemoveElement
  <2> QED
    BY <1>3, <1>5, <2>1, Zenon
<1>7. Cardinality(T) < Cardinality(Zones)
  BY <1>2, <1>4, <1>6, FileAssumption
<1>8. ASSUME NEW z \in Zones PROVE \E x \in T : z \in ZonesOf(x[1], x[2])
  <2>1. PICK f \in Inodes, s \in Slots : z \in ZonesOf(f, s)
    BY DEF NoZoneLeaks
  <2>2. <<f, s>> # own
    BY <2>1, NoZoneYet
  <2>3. <<f, s>> \in T /\ z \in ZonesOf(<<f, s>>[1], <<f, s>>[2])
    BY <2>1, <2>2
  <2> QED
    BY <2>3, Zenon
<1> DEFINE at == [z \in Zones |-> CHOOSE x \in T : z \in ZonesOf(x[1], x[2])]
<1>9. \A z \in Zones : at[z] \in T /\ z \in ZonesOf(at[z][1], at[z][2])
  BY <1>8
<1>10. at \in [Zones -> T]
  BY <1>9
<1> HIDE DEF at
<1>11. PICK y \in Zones, z \in Zones : y # z /\ at[y] = at[z]
  BY <1>2, <1>6, <1>7, <1>10, FS_PigeonHole
<1>12. at[y][1] \in Inodes /\ at[y][2] \in Slots
  BY <1>9
<1> QED
  BY <1>9, <1>11, <1>12, OneZone

\* No zone is in use at first.
LEMMA InitLeak == Init => NoZoneLeaks
  BY DEF Init, NoZoneLeaks

\* The invariants hold together, and a zone is always left.
LEMMA RoomyHolds ==
  ASSUME Fits, AllowHoles = FALSE, AllowCrash = FALSE, Roomy
  PROVE  Spec => [](AppendInv /\ NoZoneLeaks /\ ZoneLeft)
<1>1. TypeOK /\ AppendInv /\ NoZoneLeaks => ZoneLeft
  BY RoomLeft
<1>2. ZoneInv /\ AppendInv /\ NoZoneLeaks /\ ZoneLeft /\ [Next]_vars => NoZoneLeaks'
  BY StepLeak
<1>3. TypeOK /\ AppendInv /\ ZoneLeft /\ [Next]_vars => AppendInv'
  BY StepAppend
<1> QED
  BY <1>1, <1>2, <1>3, InitAppend, InitLeak, ZoneInvHolds, TypeCorrect, PTL DEF Spec

\* Every zone marked in use belongs to a file or is about to: aufs_get_block, write
\* back, eviction and unmount leak none, without holes and crashes.
THEOREM NothingLeaks ==
  ASSUME Fits, AllowHoles = FALSE, AllowCrash = FALSE, Roomy
  PROVE  Spec => []NoZoneLeaks
<1>1. AppendInv /\ NoZoneLeaks /\ ZoneLeft => NoZoneLeaks
  OBVIOUS
<1> QED
  BY <1>1, RoomyHolds, PTL

\* No machine that does not crash loses zone map bits.
LEMMA NeverLost ==
  ASSUME AllowCrash = FALSE
  PROVE  Spec => []~lost
<1>1. Init => ~lost
  BY DEF Init
<1>2. ~lost /\ [Next]_vars => ~lost'
  <2> SUFFICES ASSUME ~lost, [Next]_vars PROVE ~lost'
    OBVIOUS
  <2> QED
    BY DEF Next, vars, ThreadStep, ReadPage, WriteFile, WriteBegin, GetBlock, GetBlockTooLarge,
       GetBlockWild, NewZone, NewZoneFull, StorePtr, MapBh, MapAt, GetBlockFailed, Copy, Grew,
       minix_setattr, minix_write_inode, aufs_inode_get, EvictInode, aufs_writepage, ReclaimPage,
       FlushTable, FlushZoneMap, Remount, Crash
<1> QED
  BY <1>1, <1>2, PTL DEF Spec

\* With a zone for every pointer, no holes and no crashes, files behave: pages stay on
\* their own blocks, pointers stay, and what was written is read back.
THEOREM AppendCorrect ==
  ASSUME Fits, AllowHoles = FALSE, AllowCrash = FALSE, Roomy
  PROVE  Spec => []PagesMapped /\ []ReadBack /\ PtrStable
<1>1. Spec => []ZoneLeft
  BY RoomyHolds, PTL
<1>2. Spec => []PagesMapped /\ PtrStable /\ [](~lost => ReadBack)
  BY <1>1, PagesOnOwnZones, PointersKept, WritesReadBack, PTL
<1>3. ~lost /\ (~lost => ReadBack) => ReadBack
  OBVIOUS
<1> QED
  BY <1>2, <1>3, NeverLost, PTL
=============================================================================
