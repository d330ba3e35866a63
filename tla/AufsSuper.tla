----------------------------- MODULE AufsSuper ------------------------------
(***************************************************************************)
(* The life of the kernel module and of one mounted device (kern/super.c): *)
(* loading the module, mounting step by step with every error exit,        *)
(* inodes that are freed through RCU, unmounting, unloading the module.    *)
(*                                                                         *)
(* What the kernel does around it is external: mount_bdev calls            *)
(* aufs_fill_sb; kill_block_super calls aufs_put_super only for a super    *)
(* block that has a root; a module is unloaded only when no super block,   *)
(* failed or not, holds it.  An "oops" kills the task that mounts or       *)
(* unmounts, and leaves its super block and its module as they are.        *)
(***************************************************************************)
EXTENDS Integers

CONSTANTS
  MaxMounts,  \* bound on calls of mount
  MaxInodes   \* bound on struct aufs_inode's

ASSUME SuperAssumption == MaxMounts \in Nat /\ MaxInodes \in Nat

VARIABLES
  disk,      \* what is on the device: the fields of its super block
  module,    \* "out", "created" (the slab cache exists), "loaded", "leaving"
  slab,      \* aufs_inode_cache exists
  inodes,    \* allocated struct aufs_inode's
  dying,     \* those of them that wait for aufs_free_callback
  mount,     \* where the task that mounts is: "idle", ..., "mounted", "oops"
  mounts,    \* calls of mount so far
  memory,    \* the struct aufs_super_block: "none", "live", "freed"
  refs,      \* references to the buffers of the super block and the maps; below
             \* zero when one was released too often
  read,      \* map buffers read so far
  attached,  \* the buffers belong to the device's page cache, which is written back
  clean      \* history: no mount failed, and no freed memory was read

slabVars == <<module, slab>>
inodeVars == <<inodes, dying>>
bufferVars == <<refs, read, attached>>
superVars == <<slabVars, inodeVars, mount, mounts, memory, bufferVars, clean>>

MapBlocks == {1, 2}

SuperInit ==
  /\ module = "out" /\ slab = FALSE /\ inodes = 0 /\ dying = 0
  /\ mount = "idle" /\ mounts = 0 /\ memory = "none"
  /\ refs = [b \in {0} \cup MapBlocks |-> 0] /\ read = 0 /\ attached = TRUE /\ clean = TRUE
-----------------------------------------------------------------------------
(***************************************************************************)
(* The module                                                              *)
(***************************************************************************)
aufs_inode_cache_create ==
  /\ module = "out"
  /\ module' = "created" /\ slab' = TRUE
  /\ UNCHANGED <<inodeVars, mount, mounts, memory, bufferVars, clean>>

\* rcu_barrier waits for the callbacks.  The variant does not.
DestroyAtOnce == TRUE
rcu_barrier == dying = 0
aufs_inode_cache_destroy ==
  /\ rcu_barrier
  /\ slab' = FALSE
  /\ UNCHANGED <<inodeVars, mount, mounts, memory, bufferVars, clean>>

register_filesystem ==
  /\ module = "created"
  /\ \/ module' = "loaded" /\ UNCHANGED <<slab, inodeVars, mount, mounts, memory, bufferVars, clean>>
     \/ module' = "out" /\ aufs_inode_cache_destroy

\* aufs_fini; unregister_filesystem comes first.
unregister_filesystem ==
  /\ module = "loaded" /\ mount = "idle"
  /\ module' = "leaving"
  /\ UNCHANGED <<slab, inodeVars, mount, mounts, memory, bufferVars, clean>>
aufs_fini == module = "leaving" /\ module' = "out" /\ aufs_inode_cache_destroy

\* An RCU callback.  The variant queues itself again.
CallbackAgain ==
  dying > 0 /\ UNCHANGED <<slabVars, inodeVars, mount, mounts, memory, bufferVars, clean>>
aufs_free_callback ==
  /\ dying > 0
  /\ dying' = dying - 1 /\ inodes' = inodes - 1
  /\ UNCHANGED <<slabVars, mount, mounts, memory, bufferVars, clean>>
-----------------------------------------------------------------------------
(***************************************************************************)
(* Mounting                                                                *)
(***************************************************************************)
Goto(from, to) == mount = from /\ mount' = to /\ UNCHANGED <<slabVars, mounts>>

aufs_mount ==
  /\ mount = "idle" /\ module = "loaded" /\ mounts < MaxMounts
  /\ mount' = "kzalloc" /\ mounts' = mounts + 1
  /\ read' = 0 /\ attached' = TRUE
  /\ UNCHANGED <<slabVars, inodeVars, memory, refs, clean>>

\* aufs_super_block_read returned NULL, which aufs_fill_sb dereferences before it
\* tests for it.
ReturnNull(from) == Goto(from, "oops") /\ clean' = FALSE /\ UNCHANGED inodeVars

AllocSuper ==
  \/ /\ Goto("kzalloc", "sb_bread") /\ memory' = "live"
     /\ UNCHANGED <<inodeVars, bufferVars, clean>>
  \/ ReturnNull("kzalloc") /\ UNCHANGED <<memory, bufferVars>>

\* The buffer is released at once, and s_sbh still points to it.
ReadSuper ==
  \/ Goto("sb_bread", "map") /\ UNCHANGED <<inodeVars, memory, bufferVars, clean>>
  \/ ReturnNull("sb_bread") /\ memory' = "freed" /\ UNCHANGED bufferVars

\* out_release releases it once more.
AllocMap ==
  \/ Goto("map", "bitmaps") /\ UNCHANGED <<inodeVars, memory, bufferVars, clean>>
  \/ /\ ReturnNull("map") /\ memory' = "freed"
     /\ refs' = [refs EXCEPT ![0] = @ - 1] /\ UNCHANGED <<read, attached>>

\* The buffers read so far: the zone map from block 1 on, then the inode map.  The
\* variant reads the inode map from block 1 on, too.
Maps == disk.zmaps + disk.imaps
NextMapAgain == IF read < disk.zmaps THEN read + 1 ELSE read - disk.zmaps + 1
NextMap == read + 1

\* out_freemap releases what was read, and the super block once more.
ReadMap ==
  /\ read < Maps
  /\ \/ /\ Goto("bitmaps", "bitmaps") /\ read' = read + 1
        /\ refs' = [refs EXCEPT ![NextMap] = @ + 1]
        /\ UNCHANGED <<inodeVars, memory, attached, clean>>
     \/ /\ ReturnNull("bitmaps") /\ memory' = "freed"
        /\ refs' = [b \in DOMAIN refs |-> IF b <= read THEN refs[b] - 1 ELSE refs[b]]
        /\ UNCHANGED <<read, attached>>

\* The bits 0 are set before the magic number is tested.  Without map blocks there
\* is no array to read, and a map without blocks has no first buffer: what is in
\* its place may be no pointer.
SetBits ==
  /\ read = Maps
  /\ \/ Maps > 0 /\ Goto("bitmaps", "magic") /\ UNCHANGED clean
     \/ disk.zmaps * disk.imaps = 0 /\ Goto("bitmaps", "oops") /\ clean' = FALSE
  /\ UNCHANGED <<inodeVars, memory, bufferVars>>

\* The exit for a wrong number frees neither the map nor its buffers.
TestMagic ==
  /\ UNCHANGED bufferVars
  /\ \/ disk.magic /\ Goto("magic", "blocksize") /\ UNCHANGED <<inodeVars, memory, clean>>
     \/ ~disk.magic /\ ReturnNull("magic") /\ memory' = "freed"

\* aufs_fill_sb returns an error.  There is no root, and thus no aufs_put_super:
\* s_fs_info and the buffers are lost.
ReturnError(from) ==
  Goto(from, "idle") /\ memory' = "none" /\ clean' = FALSE /\ UNCHANGED bufferVars

\* Another block size than the device was opened with removes all its pages from
\* the page cache; the buffers of the maps, and s_sbh, stay behind detached.
SetBlocksize ==
  \/ /\ Goto("blocksize", "root")
     /\ attached' = (disk.bsize = disk.bdev)
     /\ UNCHANGED <<inodeVars, memory, refs, read, clean>>
  \/ ReturnError("blocksize") /\ UNCHANGED inodeVars

\* aufs_inode_get: no memory for the inode, or its block cannot be read.
GetRoot ==
  \/ /\ inodes < MaxInodes /\ inodes' = inodes + 1
     /\ \/ Goto("root", "d_make_root") /\ UNCHANGED <<dying, memory, bufferVars, clean>>
        \/ ReturnError("root") /\ dying' = dying + 1
  \/ ReturnError("root") /\ UNCHANGED inodeVars

\* d_make_root: no memory for the dentry, and the inode is put.
MakeRoot ==
  \/ Goto("d_make_root", "mounted") /\ UNCHANGED <<inodeVars, memory, bufferVars, clean>>
  \/ ReturnError("d_make_root") /\ dying' = dying + 1 /\ UNCHANGED inodes
-----------------------------------------------------------------------------
(***************************************************************************)
(* A mounted device                                                        *)
(***************************************************************************)
aufs_inode_alloc ==
  /\ mount = "mounted" /\ inodes < MaxInodes /\ inodes' = inodes + 1
  /\ UNCHANGED <<slabVars, dying, mount, mounts, memory, bufferVars, clean>>

\* The last reference to an inode is put, except the root's.
aufs_inode_free ==
  /\ mount = "mounted" /\ inodes - dying > 1 /\ dying' = dying + 1
  /\ UNCHANGED <<slabVars, inodes, mount, mounts, memory, bufferVars, clean>>

\* All inodes go, then aufs_put_super.  It frees asb and goes on with what it finds
\* there: still the old contents, or what others have put there.
aufs_put_super ==
  /\ dying' = inodes /\ memory' = "freed"
  /\ \/ /\ Goto("mounted", "idle")
        /\ refs' = [b \in DOMAIN refs |-> IF b \in 1 .. Maps THEN refs[b] - 1 ELSE refs[b]]
        /\ UNCHANGED clean
     \/ Goto("mounted", "idle") /\ UNCHANGED refs /\ clean' = FALSE
     \/ Goto("mounted", "oops") /\ UNCHANGED refs /\ clean' = FALSE
  /\ UNCHANGED <<inodes, read, attached>>

SuperNext ==
  \/ aufs_inode_cache_create \/ register_filesystem \/ unregister_filesystem \/ aufs_fini
  \/ aufs_free_callback
  \/ aufs_mount \/ AllocSuper \/ ReadSuper \/ AllocMap \/ ReadMap \/ SetBits \/ TestMagic
  \/ SetBlocksize \/ GetRoot \/ MakeRoot
  \/ aufs_inode_alloc \/ aufs_inode_free \/ aufs_put_super

\* RCU runs its callbacks; the task that unloads the module goes on.
SuperFairness == WF_superVars(aufs_free_callback) /\ WF_superVars(aufs_fini)
-----------------------------------------------------------------------------
\* The slab cache of the inodes, and the module with the code of their callback,
\* are there as long as there is an inode, mounted or waiting for RCU.
SlabOutlivesInodes == inodes > 0 => slab /\ module # "out"

\* While a device is mounted the kernel holds each buffer of the two maps, so that
\* none of them is freed under the allocators.  If no mount failed, and
\* aufs_put_super found what it had freed, it holds each of them once, and none
\* any more when the device is unmounted.
MapsHeld ==
  \A b \in DOMAIN refs :
    /\ mount = "mounted" /\ b \in MapBlocks => refs[b] >= 1
    /\ mount = "mounted" /\ clean => refs[b] = IF b \in MapBlocks THEN 1 ELSE 0
    /\ mount = "idle" /\ clean => refs[b] = 0

\* A module that is being unloaded gets out, however many inodes wait for RCU.
ModuleLeaves == module = "leaving" ~> module = "out"

\* A mount that fails is reported to the caller ("aufs mounting failed"), and no
\* task is lost in it.
MountFailureReported == mount # "oops"
=============================================================================
