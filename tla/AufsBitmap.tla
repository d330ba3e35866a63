----------------------------- MODULE AufsBitmap -----------------------------
(***************************************************************************)
(* The allocators of kern/bitmap.c: aufs_new_zone and aufs_new_inode       *)
(* search the in-memory zone map and inode map for a zero bit under the    *)
(* global spin lock bitmap_lock, set it, drop the lock and mark the map's  *)
(* buffer dirty.  Any number of kernel threads run them at the same time,  *)
(* and the block layer writes dirty map buffers to the device behind their *)
(* back.  One action is one step no other thread can see inside of.        *)
(*                                                                         *)
(* A map buffer (s_zmap[i]->b_data) is the set of its bits that are one.   *)
(* Numbers stay far below 2^31 (mkfs makes maps of one block), so the      *)
(* "j < 0" exit after the addition in aufs_new_zone is dead code and is    *)
(* left out.                                                               *)
(***************************************************************************)
EXTENDS AufsGeometry, FiniteSets

CONSTANTS
  Threads,         \* kernel threads that allocate
  NoThread,        \* owner of a free bitmap_lock
  ZoneMapBlocks,   \* asb_zone_map_blocks
  InodeMapBlocks,  \* asb_inode_map_blocks
  BitsPerBlock,    \* bits_per_block = 8 * s_blocksize
  InodeBlocks,     \* asb_inode_blocks
  BlocksPerZone,   \* asb_blocks_per_zone
  Alignment,       \* asb_alignment_num_blocks
  ZoneBits0,       \* zone numbers marked in use when the maps are read
  InodeBits0       \* inode numbers marked in use when the maps are read

Bits == 0 .. BitsPerBlock - 1
ZBlocks == 0 .. ZoneMapBlocks - 1
IBlocks == 0 .. InodeMapBlocks - 1

BitNo(b, x) == BitNumber(b, x, BitsPerBlock)

Numbers(Blocks) == {BitNo(b, x) : b \in Blocks, x \in Bits}
ZoneNumbers == Numbers(ZBlocks)
InodeNumbers == Numbers(IBlocks)

\* The first block of zone n.
ZoneBlock(n) ==
  ZoneBlockNumber(n, 1 + InodeMapBlocks + ZoneMapBlocks + InodeBlocks,
                  BlocksPerZone, Alignment)

\* mkfs and aufs_super_block_read set bit 0 of both maps, so neither allocator
\* ever hands out number 0; reading s_zmap[0] takes a map of at least one block.
ASSUME BitmapAssumption ==
  /\ NoThread \notin Threads
  /\ ZoneMapBlocks \in Nat \ {0}
  /\ InodeMapBlocks \in Nat \ {0}
  /\ BitsPerBlock \in Nat \ {0}
  /\ InodeBlocks \in Nat
  /\ BlocksPerZone \in Nat \ {0}
  /\ Alignment \in Nat \ {0}
  /\ ZoneBits0 \subseteq Nat /\ 0 \in ZoneBits0
  /\ InodeBits0 \subseteq Nat /\ 0 \in InodeBits0

VARIABLES
  zmap,         \* s_zmap[i]->b_data: the set bits of every zone map block
  imap,         \* s_imap[i]->b_data
  zmapDirty,    \* zone map blocks whose buffer is dirty
  imapDirty,    \* inode map blocks whose buffer is dirty
  zmapDisk,     \* the zone map on the device
  imapDisk,     \* the inode map on the device
  bitmap_lock,  \* the thread that holds the spin lock, or NoThread
  pc,           \* where every thread is
  i,            \* its loop variable i
  j,            \* its loop variable j
  ret,          \* what its call returns: a block or inode number, 0 for failure
  held,         \* it holds a reference to an inode made by new_inode()
  zonesOut,     \* history: first blocks of the zones given to callers
  inodesOut     \* history: inode numbers given to callers

mapVars == <<zmap, imap, zmapDirty, imapDirty>>
diskVars == <<zmapDisk, imapDisk>>
outVars == <<zonesOut, inodesOut>>
vars == <<mapVars, diskVars, bitmap_lock, pc, i, j, ret, held, outVars>>

BitsOf(S, b) == {x \in Bits : BitNo(b, x) \in S}

Init ==
  /\ zmap = [b \in ZBlocks |-> BitsOf(ZoneBits0, b)]
  /\ imap = [b \in IBlocks |-> BitsOf(InodeBits0, b)]
  /\ zmapDirty = {} /\ imapDirty = {}
  /\ zmapDisk = zmap /\ imapDisk = imap
  /\ bitmap_lock = NoThread
  /\ pc = [t \in Threads |-> "idle"]
  /\ i = [t \in Threads |-> 0]
  /\ j = [t \in Threads |-> 0]
  /\ ret = [t \in Threads |-> 0]
  /\ held = [t \in Threads |-> FALSE]
  /\ zonesOut = {} /\ inodesOut = {}

Goto(t, from, to) == pc[t] = from /\ pc' = [pc EXCEPT ![t] = to]

\* minix_find_first_zero_bit(bh->b_data, bits_per_block) stores its answer
\* in j: the lowest zero bit, or bits_per_block when there is none.
FindFirstZero(t, set) ==
  \/ /\ Bits \subseteq set
     /\ j' = [j EXCEPT ![t] = BitsPerBlock]
  \/ \E b \in Bits \ set :
       /\ \A c \in Bits \ set : b <= c
       /\ j' = [j EXCEPT ![t] = b]

SpinLock(t) == bitmap_lock = NoThread /\ bitmap_lock' = t
SpinUnlock == bitmap_lock' = NoThread
-----------------------------------------------------------------------------
(***************************************************************************)
(* aufs_new_zone                                                           *)
(***************************************************************************)
ZoneCall(t) ==
  /\ Goto(t, "idle", "z_loop")
  /\ i' = [i EXCEPT ![t] = 0]
  /\ UNCHANGED <<mapVars, diskVars, bitmap_lock, j, ret, held, outVars>>

\* A variant that searches without the lock.
ZoneLockSkipped(t) ==
  /\ i[t] < ZoneMapBlocks
  /\ Goto(t, "z_loop", "z_find")
  /\ UNCHANGED <<mapVars, diskVars, bitmap_lock, i, j, ret, held, outVars>>

\* for (i = 0; i < asb_zone_map_blocks; i++) { spin_lock(&bitmap_lock); ...
ZoneLock(t) ==
  /\ i[t] < ZoneMapBlocks
  /\ Goto(t, "z_loop", "z_find")
  /\ SpinLock(t)
  /\ UNCHANGED <<mapVars, diskVars, i, j, ret, held, outVars>>

\* The loop ran out of map blocks: return 0.
ZoneFail(t) ==
  /\ i[t] >= ZoneMapBlocks
  /\ Goto(t, "z_loop", "z_ret")
  /\ ret' = [ret EXCEPT ![t] = 0]
  /\ UNCHANGED <<mapVars, diskVars, bitmap_lock, i, j, held, outVars>>

ZoneFind(t) ==
  /\ Goto(t, "z_find", "z_test")
  /\ FindFirstZero(t, zmap[i[t]])
  /\ UNCHANGED <<mapVars, diskVars, bitmap_lock, i, ret, held, outVars>>

\* if (j < bits_per_block) minix_set_bit(j, bh->b_data);  The variant is off by
\* one.
ZoneSetAny(t) ==
  /\ j[t] <= BitsPerBlock
  /\ Goto(t, "z_test", "z_unlock")
  /\ zmap' = [zmap EXCEPT ![i[t]] = @ \cup {j[t]}]
  /\ UNCHANGED <<imap, zmapDirty, imapDirty, diskVars, bitmap_lock, i, j, ret,
                 held, outVars>>

ZoneSet(t) ==
  /\ j[t] < BitsPerBlock
  /\ Goto(t, "z_test", "z_unlock")
  /\ zmap' = [zmap EXCEPT ![i[t]] = @ \cup {j[t]}]
  /\ UNCHANGED <<imap, zmapDirty, imapDirty, diskVars, bitmap_lock, i, j, ret,
                 held, outVars>>

\* This map block is full: unlock and go on with the next one.  The variants
\* skip a block, or search the same one again.
ZoneSkip(t) ==
  /\ j[t] >= BitsPerBlock
  /\ Goto(t, "z_test", "z_loop")
  /\ SpinUnlock
  /\ i' = [i EXCEPT ![t] = @ + 2]
  /\ UNCHANGED <<mapVars, diskVars, j, ret, held, outVars>>

ZoneAgain(t) ==
  /\ j[t] >= BitsPerBlock
  /\ Goto(t, "z_test", "z_loop")
  /\ SpinUnlock
  /\ UNCHANGED <<mapVars, diskVars, i, j, ret, held, outVars>>

ZoneNext(t) ==
  /\ j[t] >= BitsPerBlock
  /\ Goto(t, "z_test", "z_loop")
  /\ SpinUnlock
  /\ i' = [i EXCEPT ![t] = @ + 1]
  /\ UNCHANGED <<mapVars, diskVars, j, ret, held, outVars>>

ZoneUnlock(t) ==
  /\ Goto(t, "z_unlock", "z_dirty")
  /\ SpinUnlock
  /\ UNCHANGED <<mapVars, diskVars, i, j, ret, held, outVars>>

\* mark_buffer_dirty(bh), outside the lock, then the return value.  The variant
\* forgets the former.
ZoneDirtyNever(t) ==
  /\ Goto(t, "z_dirty", "z_ret")
  /\ ret' = [ret EXCEPT ![t] = ZoneBlock(BitNo(i[t], j[t]))]
  /\ UNCHANGED <<mapVars, diskVars, bitmap_lock, i, j, held, outVars>>

ZoneDirty(t) ==
  /\ Goto(t, "z_dirty", "z_ret")
  /\ zmapDirty' = zmapDirty \cup {i[t]}
  /\ ret' = [ret EXCEPT ![t] = ZoneBlock(BitNo(i[t], j[t]))]
  /\ UNCHANGED <<zmap, imap, imapDirty, diskVars, bitmap_lock, i, j, held,
                 outVars>>

ZoneReturn(t) ==
  /\ Goto(t, "z_ret", "idle")
  /\ zonesOut' = zonesOut \cup ({ret[t]} \ {0})
  /\ UNCHANGED <<mapVars, diskVars, bitmap_lock, i, j, ret, held, inodesOut>>
-----------------------------------------------------------------------------
(***************************************************************************)
(* aufs_new_inode                                                          *)
(***************************************************************************)
\* new_inode(sb) gives an in-core inode, which the call must hand on or iput.
InodeCall(t) ==
  /\ Goto(t, "idle", "i_lock")
  /\ held' = [held EXCEPT ![t] = TRUE]
  /\ i' = [i EXCEPT ![t] = 0]
  /\ j' = [j EXCEPT ![t] = BitsPerBlock]
  /\ UNCHANGED <<mapVars, diskVars, bitmap_lock, ret, outVars>>

\* new_inode(sb) fails: *error = -ENOMEM, return NULL.
InodeNoMemory(t) ==
  /\ Goto(t, "idle", "i_ret")
  /\ ret' = [ret EXCEPT ![t] = 0]
  /\ UNCHANGED <<mapVars, diskVars, bitmap_lock, i, j, held, outVars>>

\* The variant searches without the lock.
InodeLockSkipped(t) ==
  /\ Goto(t, "i_lock", "i_loop")
  /\ UNCHANGED <<mapVars, diskVars, bitmap_lock, i, j, ret, held, outVars>>

InodeLock(t) ==
  /\ Goto(t, "i_lock", "i_loop")
  /\ SpinLock(t)
  /\ UNCHANGED <<mapVars, diskVars, i, j, ret, held, outVars>>

InodeFind(t) ==
  /\ i[t] < InodeMapBlocks
  /\ Goto(t, "i_loop", "i_test")
  /\ FindFirstZero(t, imap[i[t]])
  /\ UNCHANGED <<mapVars, diskVars, bitmap_lock, i, ret, held, outVars>>

InodeBreak(t) ==
  /\ j[t] < BitsPerBlock
  /\ Goto(t, "i_test", "i_set")
  /\ UNCHANGED <<mapVars, diskVars, bitmap_lock, i, j, ret, held, outVars>>

\* The variant skips a map block.
InodeSkip(t) ==
  /\ j[t] >= BitsPerBlock
  /\ Goto(t, "i_test", "i_loop")
  /\ i' = [i EXCEPT ![t] = @ + 2]
  /\ UNCHANGED <<mapVars, diskVars, bitmap_lock, j, ret, held, outVars>>

InodeNext(t) ==
  /\ j[t] >= BitsPerBlock
  /\ Goto(t, "i_test", "i_loop")
  /\ i' = [i EXCEPT ![t] = @ + 1]
  /\ UNCHANGED <<mapVars, diskVars, bitmap_lock, j, ret, held, outVars>>

\* The shared tail of the error exits: spin_unlock, iput(inode), return NULL.
InodeGiveUp(t) ==
  /\ SpinUnlock
  /\ held' = [held EXCEPT ![t] = FALSE]
  /\ ret' = [ret EXCEPT ![t] = 0]

\* Every map block is full: -ENOSPC.  The variant forgets the iput.
InodeNoSpaceLeak(t) ==
  /\ i[t] >= InodeMapBlocks
  /\ Goto(t, "i_loop", "i_ret")
  /\ SpinUnlock
  /\ ret' = [ret EXCEPT ![t] = 0]
  /\ UNCHANGED <<mapVars, diskVars, i, j, held, outVars>>

InodeNoSpace(t) ==
  /\ i[t] >= InodeMapBlocks
  /\ Goto(t, "i_loop", "i_ret")
  /\ InodeGiveUp(t)
  /\ UNCHANGED <<mapVars, diskVars, i, j, outVars>>

AlreadySet(t) == j[t] \in imap[i[t]]

\* if (minix_test_and_set_bit(j, bh->b_data)) { /* shouldn't happen */ ...
InodeSet(t) ==
  /\ pc[t] = "i_set"
  /\ imap' = [imap EXCEPT ![i[t]] = @ \cup {j[t]}]
  /\ IF AlreadySet(t)
       THEN /\ pc' = [pc EXCEPT ![t] = "i_ret"]
            /\ InodeGiveUp(t)
       ELSE /\ pc' = [pc EXCEPT ![t] = "i_unlock"]
            /\ UNCHANGED <<bitmap_lock, held, ret>>
  /\ UNCHANGED <<zmap, zmapDirty, imapDirty, diskVars, i, j, outVars>>

InodeUnlock(t) ==
  /\ Goto(t, "i_unlock", "i_dirty")
  /\ SpinUnlock
  /\ UNCHANGED <<mapVars, diskVars, i, j, ret, held, outVars>>

\* mark_buffer_dirty(bh); j += i * bits_per_block; if (!j) give the inode up.
\* The new inode number goes to the caller.  The variants mark the wrong buffer,
\* or forget the addition.
InodeDirtyNoBase(t) ==
  /\ Goto(t, "i_dirty", "i_ret")
  /\ imapDirty' = imapDirty \cup {i[t]}
  /\ ret' = [ret EXCEPT ![t] = j[t]]
  /\ held' = [held EXCEPT ![t] = j[t] # 0]
  /\ UNCHANGED <<zmap, imap, zmapDirty, diskVars, bitmap_lock, i, j, outVars>>

InodeDirtyWrongBlock(t) ==
  /\ Goto(t, "i_dirty", "i_ret")
  /\ imapDirty' = imapDirty \cup {0}
  /\ ret' = [ret EXCEPT ![t] = BitNo(i[t], j[t])]
  /\ held' = [held EXCEPT ![t] = BitNo(i[t], j[t]) # 0]
  /\ UNCHANGED <<zmap, imap, zmapDirty, diskVars, bitmap_lock, i, j, outVars>>

InodeDirty(t) ==
  /\ Goto(t, "i_dirty", "i_ret")
  /\ imapDirty' = imapDirty \cup {i[t]}
  /\ ret' = [ret EXCEPT ![t] = BitNo(i[t], j[t])]
  /\ held' = [held EXCEPT ![t] = BitNo(i[t], j[t]) # 0]
  /\ UNCHANGED <<zmap, imap, zmapDirty, diskVars, bitmap_lock, i, j, outVars>>

\* The caller takes over the in-core inode, or NULL.
InodeReturn(t) ==
  /\ Goto(t, "i_ret", "idle")
  /\ held' = [held EXCEPT ![t] = FALSE]
  /\ inodesOut' = inodesOut \cup ({ret[t]} \ {0})
  /\ UNCHANGED <<mapVars, diskVars, bitmap_lock, i, j, ret, zonesOut>>
-----------------------------------------------------------------------------
(***************************************************************************)
(* The block layer writes a dirty map buffer back: it clears the dirty bit *)
(* and copies the buffer as it is then.                                    *)
(***************************************************************************)
FlushZoneMap(b) ==
  /\ b \in zmapDirty
  /\ zmapDirty' = zmapDirty \ {b}
  /\ zmapDisk' = [zmapDisk EXCEPT ![b] = zmap[b]]
  /\ UNCHANGED <<zmap, imap, imapDirty, imapDisk, bitmap_lock, pc, i, j, ret,
                 held, outVars>>

FlushInodeMap(b) ==
  /\ b \in imapDirty
  /\ imapDirty' = imapDirty \ {b}
  /\ imapDisk' = [imapDisk EXCEPT ![b] = imap[b]]
  /\ UNCHANGED <<zmap, imap, zmapDirty, zmapDisk, bitmap_lock, pc, i, j, ret,
                 held, outVars>>
-----------------------------------------------------------------------------
NewZone(t) ==
  \/ ZoneLock(t) \/ ZoneFail(t) \/ ZoneFind(t) \/ ZoneSet(t)
  \/ ZoneNext(t) \/ ZoneUnlock(t) \/ ZoneDirty(t) \/ ZoneReturn(t)

NewInode(t) ==
  \/ InodeLock(t) \/ InodeFind(t) \/ InodeBreak(t) \/ InodeNext(t)
  \/ InodeNoSpace(t) \/ InodeSet(t) \/ InodeUnlock(t) \/ InodeDirty(t)
  \/ InodeReturn(t)

Next ==
  \/ \E t \in Threads :
       ZoneCall(t) \/ InodeCall(t) \/ InodeNoMemory(t) \/ NewZone(t) \/ NewInode(t)
  \/ \E b \in ZBlocks : FlushZoneMap(b)
  \/ \E b \in IBlocks : FlushInodeMap(b)

\* A thread inside a call keeps running, and the kernel's spin locks are
\* queued: a thread that waits for bitmap_lock gets it in its turn, which
\* strong fairness of the acquiring step states.  The flusher threads run on
\* every dirty buffer again and again.
Fairness ==
  /\ \A t \in Threads :
       /\ WF_vars(NewZone(t) \/ NewInode(t))
       /\ SF_vars(ZoneLock(t) \/ InodeLock(t))
  /\ \A b \in ZBlocks : WF_vars(FlushZoneMap(b))
  /\ \A b \in IBlocks : WF_vars(FlushInodeMap(b))

Spec == Init /\ [][Next]_vars
FairSpec == Spec /\ Fairness
-----------------------------------------------------------------------------
(***************************************************************************)
(* Properties                                                              *)
(***************************************************************************)
ZonePcs == {"z_loop", "z_find", "z_test", "z_unlock", "z_dirty", "z_ret"}
InodePcs == {"i_lock", "i_loop", "i_test", "i_set", "i_unlock", "i_dirty",
             "i_ret"}
Locked == {"z_find", "z_test", "z_unlock", "i_loop", "i_test", "i_set",
           "i_unlock"}

\* Every variable has its type.
TypeOK ==
  /\ zmap \in [ZBlocks -> SUBSET Bits] /\ zmapDisk \in [ZBlocks -> SUBSET Bits]
  /\ imap \in [IBlocks -> SUBSET Bits] /\ imapDisk \in [IBlocks -> SUBSET Bits]
  /\ zmapDirty \subseteq ZBlocks /\ imapDirty \subseteq IBlocks
  /\ bitmap_lock \in Threads \cup {NoThread}
  /\ pc \in [Threads -> {"idle"} \cup ZonePcs \cup InodePcs]
  /\ i \in [Threads -> Nat] /\ j \in [Threads -> 0 .. BitsPerBlock]
  /\ ret \in [Threads -> Nat]
  /\ held \in [Threads -> BOOLEAN]
  /\ zonesOut \subseteq Nat /\ inodesOut \subseteq Nat

\* Where a thread is decides who holds the lock and what its loop variables
\* say: a bit found zero is still zero as long as the lock is held.
ControlOK ==
  \A t \in Threads :
    /\ pc[t] \in Locked <=> bitmap_lock = t
    /\ pc[t] \in {"z_find", "z_test", "z_unlock", "z_dirty"} => i[t] \in ZBlocks
    /\ pc[t] \in {"i_test", "i_set", "i_unlock", "i_dirty"} => i[t] \in IBlocks
    /\ pc[t] \in {"z_unlock", "z_dirty", "i_set", "i_unlock", "i_dirty"} => j[t] \in Bits
    /\ pc[t] = "z_test" /\ j[t] \in Bits => j[t] \notin zmap[i[t]]
    /\ pc[t] \in {"i_test", "i_set"} /\ j[t] \in Bits => j[t] \notin imap[i[t]]
    /\ pc[t] = "i_ret" => ret[t] = 0 \/ ret[t] \in InodeNumbers
    /\ pc[t] \in InodePcs \ {"i_ret"} => held[t]

\* The zones and inode numbers whose bits are set in the maps in memory, and
\* those that were set when the file system was mounted.
ZonesIn(map) == UNION {{ZoneBlock(BitNo(b, x)) : x \in map[b]} : b \in ZBlocks}
ZonesMarked == ZonesIn(zmap)
ZonesOnDisk == ZonesIn(zmapDisk)
ZonesBefore == {ZoneBlock(n) : n \in ZoneBits0 \cap ZoneNumbers}
InodesMarked == UNION {{BitNo(b, x) : x \in imap[b]} : b \in IBlocks}
InodesBefore == InodeBits0 \cap InodeNumbers

\* What a call has won and not yet given to its caller.
ZoneInFlight(t) ==
  CASE pc[t] \in {"z_unlock", "z_dirty"} -> {ZoneBlock(BitNo(i[t], j[t]))}
    [] pc[t] = "z_ret" -> {ret[t]} \ {0}
    [] OTHER -> {}

InodeInFlight(t) ==
  CASE pc[t] \in {"i_unlock", "i_dirty"} -> {BitNo(i[t], j[t])}
    [] pc[t] = "i_ret" -> {ret[t]} \ {0}
    [] OTHER -> {}

\* aufs_new_zone never gives one zone to two callers, nor one that was in use
\* before, and never loses one: the marked zones are exactly those in use at
\* mount, those given out and those about to be given out, all distinct.
ZonesAccounted ==
  /\ ZonesMarked = ZonesBefore \cup zonesOut \cup UNION {ZoneInFlight(t) : t \in Threads}
  /\ \A t \in Threads : ZoneInFlight(t) \cap (ZonesBefore \cup zonesOut) = {}
  /\ \A t, u \in Threads : t # u => ZoneInFlight(t) \cap ZoneInFlight(u) = {}

\* The same of aufs_new_inode and inode numbers, across all its error exits.
InodesAccounted ==
  /\ InodesMarked = InodesBefore \cup inodesOut \cup UNION {InodeInFlight(t) : t \in Threads}
  /\ \A t \in Threads : InodeInFlight(t) \cap (InodesBefore \cup inodesOut) = {}
  /\ \A t, u \in Threads : t # u => InodeInFlight(t) \cap InodeInFlight(u) = {}

\* The exit of aufs_new_inode marked "shouldn't happen" does not: the bit found
\* under bitmap_lock is still zero when test_and_set reaches it.
AlreadySetShouldntHappen ==
  \A t \in Threads : pc[t] = "i_set" => ~AlreadySet(t)

\* When aufs_new_inode returns, the in-core inode of new_inode() belongs to the
\* caller or was put: no exit leaks it and none returns one it has put.
NoOrphanInode ==
  \A t \in Threads : /\ pc[t] = "i_ret" => (held[t] <=> ret[t] # 0)
                     /\ pc[t] \notin InodePcs => ~held[t]

\* mark_buffer_dirty runs after the lock is dropped and races with write back:
\* still, the device never has a bit the memory has not, and a bit missing on
\* the device in a buffer that is clean belongs to a call that is still going to
\* mark that buffer dirty.
WritebackCannotMiss ==
  /\ \A b \in ZBlocks :
       /\ zmapDisk[b] \subseteq zmap[b]
       /\ b \notin zmapDirty =>
            \A x \in zmap[b] \ zmapDisk[b] :
              \E t \in Threads : /\ pc[t] \in {"z_unlock", "z_dirty"}
                                 /\ i[t] = b /\ j[t] = x
  /\ \A b \in IBlocks :
       /\ imapDisk[b] \subseteq imap[b]
       /\ b \notin imapDirty =>
            \A x \in imap[b] \ imapDisk[b] :
              \E t \in Threads : /\ pc[t] \in {"i_unlock", "i_dirty"}
                                 /\ i[t] = b /\ j[t] = x

\* The promise of Allocator.tla, for zones (known by their first block) ...
zonePhase ==
  [t \in Threads |->
     CASE pc[t] \in {"z_loop", "z_find", "z_test"} -> "busy"
       [] pc[t] \in {"z_unlock", "z_dirty", "z_ret"} -> "done"
       [] OTHER -> "idle"]
zoneAnswer ==
  [t \in Threads |->
     CASE pc[t] \in {"z_unlock", "z_dirty"} -> ZoneBlock(BitNo(i[t], j[t]))
       [] pc[t] = "z_ret" -> ret[t]
       [] OTHER -> 0]
ZoneAllocator ==
  INSTANCE Allocator WITH Ids <- {ZoneBlock(n) : n \in ZoneNumbers}, None <- 0,
    taken <- ZonesMarked, call <- zonePhase, answer <- zoneAnswer

\* ... and for inode numbers.
inodePhase ==
  [t \in Threads |->
     CASE pc[t] \in {"i_lock", "i_loop", "i_test", "i_set"} -> "busy"
       [] pc[t] \in {"i_unlock", "i_dirty", "i_ret"} -> "done"
       [] OTHER -> "idle"]
inodeAnswer ==
  [t \in Threads |->
     CASE pc[t] \in {"i_unlock", "i_dirty"} -> BitNo(i[t], j[t])
       [] pc[t] = "i_ret" -> ret[t]
       [] OTHER -> 0]
InodeAllocator ==
  INSTANCE Allocator WITH Ids <- InodeNumbers, None <- 0,
    taken <- InodesMarked, call <- inodePhase, answer <- inodeAnswer

\* aufs_new_zone implements the allocator: it fails only when, at some moment
\* of the call, every bit of every map block was set, although it drops the
\* lock between two blocks.
ZoneSpec == ZoneAllocator!Spec

\* aufs_new_inode implements the allocator, or fails for lack of memory.
InodeSpec == InodeAllocator!Spec

\* Every call returns: nobody keeps bitmap_lock or searches for ever.
CallsReturn == \A t \in Threads : pc[t] # "idle" ~> pc[t] = "idle"

\* The bit of every zone given to a caller reaches the device.
GrantReachesDisk ==
  \A z \in {ZoneBlock(n) : n \in ZoneNumbers} : z \in zonesOut ~> z \in ZonesOnDisk
=============================================================================
