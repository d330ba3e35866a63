------------------------------ MODULE AufsDir -------------------------------
(***************************************************************************)
(* Directories and names in aufs (kern/dir.c, kern/namei.c).               *)
(*                                                                         *)
(* A directory is an array of entries of AUFS_DIR_SIZE bytes, PerPage to a *)
(* page, i_size of them in use; minix_add_link fills the first hole or     *)
(* appends.  The pages, the directory's inode, the inode an entry names    *)
(* and that inode's bit in the inode map reach the device independently.   *)
(*                                                                         *)
(* The VFS holds the directory's i_rwsem alone for create, mknod and mkdir,*)
(* from the lookup of the name to the end, and shared for lookup and       *)
(* readdir; tmpfile takes no lock.  aufs_new_inode is one step             *)
(* (AufsBitmap.tla).  Sizes are counted in entries.  Zone pointers are the *)
(* matter of AufsFile.tla: here a page keeps its place on the device, as   *)
(* the pages of a directory's first zone do, and the device was zero       *)
(* before mkfs.  I/O errors, memory exhaustion and the dentry cache are    *)
(* left out.                                                               *)
(***************************************************************************)
EXTENDS Integers, FiniteSets

CONSTANTS
  Threads,    \* threads that create files and directories
  Readers,    \* open files on the root directory
  Names,      \* names the workload uses (bound)
  Parents,    \* directories the workload uses (bound)
  Kinds,      \* what it creates: regular files, directories, other types that
              \* minix_set_inode refuses, temporary files (bound)
  NInodes,    \* inode numbers on the device
  PerPage,    \* PAGE_SIZE / AUFS_DIR_SIZE
  MaxPages,   \* pages that aufs_get_block can map for one directory
  MaxCrashes  \* times the machine may crash (bound)

Root == 1
Inos == 1 .. NInodes

ASSUME DirAssumption ==
  /\ NInodes \in Nat \ {0} /\ MaxPages \in Nat \ {0}
  /\ PerPage \in Nat \ {0, 1}
  /\ MaxCrashes \in Nat

ASSUME WorkloadAssumption ==
  /\ Root \in Parents /\ Parents \subseteq Inos
  /\ Kinds \subseteq {"reg", "dir", "other", "tmp"}
  /\ Names \cap {".", "..", ".badblocks", ""} = {}

Slots == 0 .. MaxPages * PerPage - 1
DirPages == 0 .. MaxPages - 1
PageOf(s) == s \div PerPage
Sizes == 0 .. MaxPages * PerPage

\* dde_inode and dde_name.  The kernel stores and reads dde_inode in its own byte
\* order; a number that mkfs stored big endian is written negative.
Entry(ino, name) == [ino |-> ino, name |-> name]
BigEndian(ino) == -ino
NoEntry == Entry(0, "")
Entries == [ino : {BigEndian(1), BigEndian(2)} \cup {0} \cup Inos,
            name : Names \cup {".", "..", ".badblocks", ""}]
NoEntries == [s \in Slots |-> NoEntry]

\* The inode's mode and size as the inode table keeps them; a record that was
\* never written has no file type.
Modes == {"none", "reg", "dir", "other"}
Records == [mode : Modes, size : Sizes]
NoRecord == [mode |-> "none", size |-> 0]

VARIABLES
  incore,      \* the inode is in memory
  mode,        \* i_mode
  size,        \* i_size, in entries
  nlink,       \* i_nlink; it is not kept on the device
  idirty,      \* the in-core inode is dirty
  ents,        \* a directory's entries in the page cache
  pdirty,      \* a directory's dirty pages
  entsDisk,    \* a directory's entries on the device
  table, tableDirty, tableDisk,  \* the inode table: buffer, its dirty flag, device
  imap, imapDirty, imapDisk,     \* the inode map
  pc,          \* where every thread is
  op,          \* its call: directory, name, type, new inode, state before
  reader,      \* ctx->pos of the open file and what it has emitted
  crashes,     \* history: crashes so far
  lost         \* history: a crash lost inode map bits

inodeVars == <<incore, mode, size, nlink, idirty>>
pageVars == <<ents, pdirty, entsDisk>>
tableVars == <<table, tableDirty, tableDisk>>
imapVars == <<imap, imapDirty, imapDisk>>
history == <<crashes, lost>>
vars == <<inodeVars, pageVars, tableVars, imapVars, pc, op, reader, history>>
-----------------------------------------------------------------------------
\* dir_pages, and the pages of a directory as they are read from the device:
\* behind the last page there are zeros.
NPages(n) == (n + PerPage - 1) \div PerPage
Loaded(d, n) == [s \in Slots |-> IF PageOf(s) < NPages(n) THEN entsDisk[d][s] ELSE NoEntry]

\* The root directory as MkRootDir writes it: three entries in its first page, of
\* which the size covers two.
MkRootDir ==
  [s \in Slots |-> CASE s = 0 -> Entry(BigEndian(1), ".")
                     [] s = 1 -> Entry(BigEndian(1), "..")
                     [] s = 2 /\ PerPage > 2 -> Entry(BigEndian(2), ".badblocks")
                     [] OTHER -> NoEntry]

NoOp == [kind |-> "none"]
Rewound == [pos |-> 0, seen |-> [n \in Names |-> 0], start |-> {}]

\* A formatted device, just mounted.
Init ==
  /\ table = [i \in Inos |-> IF i = Root THEN [mode |-> "dir", size |-> 2] ELSE NoRecord]
  /\ tableDirty = FALSE /\ tableDisk = table
  /\ entsDisk = [d \in Inos |-> IF d = Root THEN MkRootDir ELSE NoEntries]
  /\ imap = {Root} /\ imapDirty = FALSE /\ imapDisk = imap
  /\ incore = [i \in Inos |-> i = Root]
  /\ mode = [i \in Inos |-> IF i = Root THEN "dir" ELSE "none"]
  /\ size = [i \in Inos |-> IF i = Root THEN 2 ELSE 0]
  /\ nlink = [i \in Inos |-> IF i = Root THEN 1 ELSE 0]
  /\ idirty = [i \in Inos |-> FALSE]
  /\ ents = [d \in Inos |-> IF d = Root THEN Loaded(Root, 2) ELSE NoEntries]
  /\ pdirty = [d \in Inos |-> {}]
  /\ pc = [t \in Threads |-> "idle"]
  /\ op = [t \in Threads |-> NoOp]
  /\ reader = [r \in Readers |-> Rewound]
  /\ crashes = 0 /\ lost = FALSE
-----------------------------------------------------------------------------
(***************************************************************************)
(* Searching a directory                                                   *)
(***************************************************************************)
\* Entries of page n before i_size.
minix_last_byte(d, n) == IF n = PageOf(size[d]) THEN size[d] % PerPage ELSE PerPage

\* The slots that minix_find_entry and minix_readdir look at.
Searched(d) ==
  {s \in Slots : /\ PageOf(s) < NPages(size[d])
                 /\ s % PerPage <= minix_last_byte(d, PageOf(s)) - 1}

\* namecompare with an entry in use.
Matches(d, s, name) == ents[d][s].ino # 0 /\ ents[d][s].name = name
Least(S) == CHOOSE s \in S : \A r \in S : s <= r

\* minix_find_entry and minix_inode_by_name: the inode number, or 0.
minix_inode_by_name(d, name) ==
  LET found == {s \in Searched(d) : Matches(d, s, name)}
  IN IF found = {} THEN 0 ELSE ents[d][Least(found)].ino

\* Where the search of minix_add_link stops: at i_size, at an entry that is not
\* in use, or at one with the name.  The page behind the last one that can be
\* mapped, which is searched when all are full, reads as zeros and stops it too.
\* The variant leaves out the page behind the last.
StopsAt(d, s, name) ==
  \/ s % PerPage = minix_last_byte(d, PageOf(s))
  \/ ents[d][s].ino = 0
  \/ Matches(d, s, name)
AddLinkStopsShort(d, name) ==
  {s \in Slots : PageOf(s) < NPages(size[d]) /\ StopsAt(d, s, name)}
AddLinkStops(d, name) ==
  {s \in Slots : PageOf(s) <= NPages(size[d]) /\ StopsAt(d, s, name)}
NoPageLeft(d) == NPages(size[d]) = MaxPages

\* The entry minix_add_link fills, if there is room and no entry has the name.
Room(d, name) ==
  {s \in Slots : /\ s \in AddLinkStops(d, name) /\ \A r \in AddLinkStops(d, name) : s <= r
                 /\ s = size[d] \/ ~Matches(d, s, name)}

\* A call holds the directory's i_rwsem alone.
DirLocked(d) == \E t \in Threads : pc[t] # "idle" /\ op[t].kind # "tmp" /\ op[t].d = d

\* A directory in memory that a path leads to: not one that mkdir is still making.
Reachable(d) ==
  incore[d] /\ mode[d] = "dir" /\ \A t \in Threads : pc[t] # "idle" => op[t].ino # d

\* minix_lookup finds the name: aufs_inode_get.  A name that is not there, and a
\* record without a type (-EIO), change nothing.
minix_lookup(d, name) ==
  LET i == minix_inode_by_name(d, name)
  IN /\ Reachable(d) /\ ~DirLocked(d)
     /\ i \in Inos
     /\ ~incore[i] /\ table[i].mode \in {"reg", "dir"}
     /\ incore' = [incore EXCEPT ![i] = TRUE]
     /\ mode' = [mode EXCEPT ![i] = table[i].mode]
     /\ size' = [size EXCEPT ![i] = table[i].size]
     /\ nlink' = [nlink EXCEPT ![i] = 1]
     /\ ents' = [ents EXCEPT ![i] = Loaded(i, table[i].size)]
     /\ UNCHANGED <<idirty, pdirty, entsDisk, tableVars, imapVars, pc, op, reader, history>>
-----------------------------------------------------------------------------
(***************************************************************************)
(* minix_mknod (also for create), minix_mkdir, minix_tmpfile               *)
(***************************************************************************)
NamesIn(d) == {ents[d][s].name : s \in {r \in Searched(d) : ents[d][r].ino # 0}} \cap Names

\* The call, after the VFS found the name free.  minix_mkdir counts the link of
\* ".." before anything else.
CallCreate(t, d, name, kind) ==
  /\ pc[t] = "idle"
  /\ Reachable(d) /\ ~DirLocked(d)
  /\ minix_inode_by_name(d, name) = 0
  /\ pc' = [pc EXCEPT ![t] = "new"]
  /\ op' = [op EXCEPT ![t] = [kind |-> kind, d |-> d, name |-> name, ino |-> 0,
                              links |-> nlink[d], size |-> size[d], names |-> NamesIn(d)]]
  /\ IF kind = "dir"
       THEN /\ nlink' = [nlink EXCEPT ![d] = @ + 1]
            /\ idirty' = [idirty EXCEPT ![d] = TRUE]
       ELSE UNCHANGED <<nlink, idirty>>
  /\ UNCHANGED <<incore, mode, size, pageVars, tableVars, imapVars, reader, history>>

CallTmpfile(t, d) ==
  /\ pc[t] = "idle" /\ "tmp" \in Kinds /\ Reachable(d)
  /\ pc' = [pc EXCEPT ![t] = "new"]
  /\ op' = [op EXCEPT ![t] = [kind |-> "tmp", d |-> d, ino |-> 0]]
  /\ UNCHANGED <<inodeVars, pageVars, tableVars, imapVars, reader, history>>

\* aufs_new_inode takes the first free number, then minix_set_inode: the new
\* inode is in memory and dirty.  minix_mkdir counts the link of ".", d_tmpfile
\* drops the only one; a type that minix_set_inode refuses makes minix_mknod
\* return at once, and nobody puts the inode.  The variants forget a dirty mark.
TakeInode(t, dirtyInode, dirtyMap) ==
  LET kind == op[t].kind
  IN /\ pc[t] = "new"
     /\ \E i \in Inos \ imap :
          /\ \A k \in Inos \ imap : i <= k
          /\ imap' = imap \cup {i} /\ imapDirty' = (imapDirty \/ dirtyMap)
          /\ incore' = [incore EXCEPT ![i] = TRUE]
          /\ mode' = [mode EXCEPT ![i] = IF kind = "tmp" THEN "reg" ELSE kind]
          /\ nlink' = [nlink EXCEPT ![i] = CASE kind = "dir" -> 2 [] kind = "tmp" -> 0 [] OTHER -> 1]
          /\ idirty' = [idirty EXCEPT ![i] = dirtyInode]
          /\ op' = [op EXCEPT ![t].ino = i]
     /\ pc' = [pc EXCEPT ![t] = CASE kind = "dir" -> "empty" [] kind = "reg" -> "link"
                                  [] kind = "tmp" -> "open" [] kind = "other" -> "failed"]
     /\ UNCHANGED <<size, pageVars, tableVars, imapDisk, reader, history>>

NewInodeClean(t) == TakeInode(t, FALSE, TRUE)
NewInodeMapClean(t) == TakeInode(t, TRUE, FALSE)
NewInode(t) == TakeInode(t, TRUE, TRUE)

\* The links that a failed call takes back from the directory: that of "..".  The
\* variant takes none.
LinkKept(t) == 0
LinkBack(t) == IF op[t].kind = "dir" THEN 1 ELSE 0

\* No number is free.  minix_mkdir takes the link back and minix_tmpfile returns
\* the error; minix_mknod prints inode->i_ino through the null pointer.
NewInodeFull(t) ==
  LET kind == op[t].kind
      d == op[t].d
  IN /\ pc[t] = "new" /\ Inos \subseteq imap
     /\ pc' = [pc EXCEPT ![t] = CASE kind = "dir" -> "failed" [] kind = "tmp" -> "idle"
                                  [] OTHER -> "oops"]
     /\ op' = IF kind = "tmp" THEN [op EXCEPT ![t] = NoOp] ELSE op
     /\ nlink' = [nlink EXCEPT ![d] = @ - LinkBack(t)]
     /\ idirty' = [idirty EXCEPT ![d] = @ \/ kind = "dir"]
     /\ UNCHANGED <<incore, mode, size, pageVars, tableVars, imapVars, reader, history>>

\* The last close of a temporary file: without links it is dropped, not written.
CloseTmpfile(t) ==
  /\ pc[t] = "open"
  /\ pc' = [pc EXCEPT ![t] = "idle"]
  /\ op' = [op EXCEPT ![t] = NoOp]
  /\ incore' = [incore EXCEPT ![op[t].ino] = FALSE]
  /\ idirty' = [idirty EXCEPT ![op[t].ino] = FALSE]
  /\ UNCHANGED <<mode, size, nlink, pageVars, tableVars, imapVars, reader, history>>

minix_make_empty(t) ==
  LET i == op[t].ino
  IN /\ pc[t] = "empty"
     /\ pc' = [pc EXCEPT ![t] = "link"]
     /\ ents' = [ents EXCEPT ![i] = [NoEntries EXCEPT ![0] = Entry(i, "."),
                                                      ![1] = Entry(op[t].d, "..")]]
     /\ pdirty' = [pdirty EXCEPT ![i] = {0}]
     /\ size' = [size EXCEPT ![i] = 2]
     /\ idirty' = [idirty EXCEPT ![i] = TRUE]
     /\ UNCHANGED <<incore, mode, nlink, entsDisk, tableVars, imapVars, op, reader, history>>

\* minix_add_link stores the entry at slot s: dir_commit_chunk marks the page, and
\* the directory's inode is marked whether its size changed or not.  The variants
\* make the directory one entry too long, and do not mark the inode.
StoreUpTo(t, s, n, dirtyInode) ==
  LET d == op[t].d
  IN /\ ents' = [ents EXCEPT ![d][s] = Entry(op[t].ino, op[t].name)]
     /\ pdirty' = [pdirty EXCEPT ![d] = @ \cup {PageOf(s)}]
     /\ size' = [size EXCEPT ![d] = IF n > @ THEN n ELSE @]
     /\ idirty' = [idirty EXCEPT ![d] = @ \/ dirtyInode]
StoreTooLong(t, s) == StoreUpTo(t, s, s + 2, TRUE)
StoreUnmarked(t, s) == StoreUpTo(t, s, s + 1, FALSE)
StoreEntry(t, s) == StoreUpTo(t, s, s + 1, TRUE)

minix_add_link(t) ==
  /\ pc[t] = "link"
  /\ \E s \in Room(op[t].d, op[t].name) : StoreEntry(t, s)
  /\ pc' = [pc EXCEPT ![t] = "idle"] /\ op' = [op EXCEPT ![t] = NoOp]
  /\ UNCHANGED <<incore, mode, nlink, entsDisk, tableVars, imapVars, reader, history>>

\* -EEXIST, or -EIO from aufs_get_block for a page behind the last: add_nondir and
\* out_fail drop all links of the new inode and put it, which is its end.
AddLinkFails(t) ==
  LET d == op[t].d
      i == op[t].ino
      back == LinkBack(t)
  IN /\ pc[t] = "link"
     /\ Room(d, op[t].name) = {}
     /\ AddLinkStops(d, op[t].name) # {} \/ NoPageLeft(d)
     /\ pc' = [pc EXCEPT ![t] = "failed"]
     /\ nlink' = [[nlink EXCEPT ![i] = 0] EXCEPT ![d] = @ - back]
     /\ idirty' = [[idirty EXCEPT ![i] = FALSE] EXCEPT ![d] = @ \/ back = 1]
     /\ incore' = [incore EXCEPT ![i] = FALSE]
     /\ ents' = [ents EXCEPT ![i] = NoEntries]
     /\ pdirty' = [pdirty EXCEPT ![i] = {}]
     /\ UNCHANGED <<mode, size, entsDisk, tableVars, imapVars, op, reader, history>>

\* A call that failed returns.
ReturnError(t) ==
  /\ pc[t] = "failed"
  /\ pc' = [pc EXCEPT ![t] = "idle"] /\ op' = [op EXCEPT ![t] = NoOp]
  /\ UNCHANGED <<inodeVars, pageVars, tableVars, imapVars, reader, history>>
-----------------------------------------------------------------------------
(***************************************************************************)
(* minix_readdir on the root directory                                     *)
(***************************************************************************)
\* One getdents call, whose buffer takes the entries up to slot n; the first
\* call starts at 0.  The variant does not advance ctx->pos past the last entry.
Emit(r, n) ==
  LET new == {s \in Searched(Root) : reader[r].pos <= s /\ s < n /\ ents[Root][s].ino # 0}
  IN [name \in Names |-> reader[r].seen[name] +
                           Cardinality({s \in new : ents[Root][s].name = name})]

ReaddirStuck(r, n) ==
  /\ ~DirLocked(Root)
  /\ reader[r].pos < n /\ n <= size[Root]
  /\ reader' = [reader EXCEPT ![r] =
       [pos |-> n - 1, seen |-> Emit(r, n),
        start |-> IF reader[r].pos = 0 THEN NamesIn(Root) ELSE reader[r].start]]
  /\ UNCHANGED <<inodeVars, pageVars, tableVars, imapVars, pc, op, history>>

minix_readdir(r, n) ==
  /\ ~DirLocked(Root)
  /\ reader[r].pos < n /\ n <= size[Root]
  /\ reader' = [reader EXCEPT ![r] =
       [pos |-> n, seen |-> Emit(r, n),
        start |-> IF reader[r].pos = 0 THEN NamesIn(Root) ELSE reader[r].start]]
  /\ UNCHANGED <<inodeVars, pageVars, tableVars, imapVars, pc, op, history>>

\* The file is opened again or rewound.
Rewind(r) ==
  /\ reader[r] # Rewound
  /\ reader' = [reader EXCEPT ![r] = Rewound]
  /\ UNCHANGED <<inodeVars, pageVars, tableVars, imapVars, pc, op, history>>
-----------------------------------------------------------------------------
(***************************************************************************)
(* Write back, eviction, unmount and crash                                 *)
(***************************************************************************)
WriteInode(i) ==
  /\ incore[i] /\ idirty[i]
  /\ idirty' = [idirty EXCEPT ![i] = FALSE]
  /\ table' = [table EXCEPT ![i] = [mode |-> mode[i], size |-> size[i]]]
  /\ tableDirty' = TRUE
  /\ UNCHANGED <<incore, mode, size, nlink, pageVars, tableDisk, imapVars, pc, op, reader, history>>

WriteDirPage(d, n) ==
  /\ n \in pdirty[d]
  /\ pdirty' = [pdirty EXCEPT ![d] = @ \ {n}]
  /\ entsDisk' = [entsDisk EXCEPT ![d] =
       [s \in Slots |-> IF PageOf(s) = n THEN ents[d][s] ELSE @[s]]]
  /\ UNCHANGED <<inodeVars, ents, tableVars, imapVars, pc, op, reader, history>>

FlushTable ==
  /\ tableDirty
  /\ tableDirty' = FALSE /\ tableDisk' = table
  /\ UNCHANGED <<inodeVars, pageVars, table, imapVars, pc, op, reader, history>>

FlushInodeMap ==
  /\ imapDirty
  /\ imapDirty' = FALSE /\ imapDisk' = imap
  /\ UNCHANGED <<inodeVars, pageVars, tableVars, imap, pc, op, reader, history>>

\* An inode nobody uses leaves memory; one of a refused type is never put.
InUse(i) ==
  \/ i = Root \/ mode[i] = "other"
  \/ \E t \in Threads : pc[t] # "idle" /\ (op[t].d = i \/ op[t].ino = i)

EvictInode(i) ==
  /\ incore[i] /\ ~idirty[i] /\ pdirty[i] = {} /\ ~InUse(i)
  /\ incore' = [incore EXCEPT ![i] = FALSE]
  /\ ents' = [ents EXCEPT ![i] = NoEntries]
  /\ UNCHANGED <<mode, size, nlink, idirty, pdirty, entsDisk, tableVars, imapVars, pc, op, reader, history>>

\* Memory is gone; the next mount reads the map and the root inode.
LoseMemory ==
  LET n == tableDisk[Root].size
  IN /\ incore' = [i \in Inos |-> i = Root]
     /\ mode' = [i \in Inos |-> IF i = Root THEN tableDisk[i].mode ELSE "none"]
     /\ size' = [i \in Inos |-> IF i = Root THEN n ELSE 0]
     /\ nlink' = [i \in Inos |-> IF i = Root THEN 1 ELSE 0]
     /\ idirty' = [i \in Inos |-> FALSE]
     /\ ents' = [d \in Inos |-> IF d = Root THEN Loaded(Root, n) ELSE NoEntries]
     /\ pdirty' = [d \in Inos |-> {}]
     /\ table' = tableDisk /\ tableDirty' = FALSE
     /\ imap' = imapDisk /\ imapDirty' = FALSE
     /\ reader' = [r \in Readers |-> Rewound]
     /\ UNCHANGED <<entsDisk, tableDisk, imapDisk>>

\* umount has written everything; mount.
Remount ==
  /\ \A t \in Threads : pc[t] = "idle"
  /\ ~tableDirty /\ ~imapDirty
  /\ \A i \in Inos : ~idirty[i] /\ pdirty[i] = {}
  /\ LoseMemory
  /\ UNCHANGED <<pc, op, history>>

Crash ==
  /\ crashes < MaxCrashes
  /\ LoseMemory
  /\ pc' = [t \in Threads |-> "idle"]
  /\ op' = [t \in Threads |-> NoOp]
  /\ crashes' = crashes + 1 /\ lost' = (lost \/ imapDirty)
-----------------------------------------------------------------------------
ThreadStep(t) ==
  \/ NewInode(t) \/ NewInodeFull(t) \/ CloseTmpfile(t) \/ minix_make_empty(t)
  \/ minix_add_link(t) \/ AddLinkFails(t) \/ ReturnError(t)

Next ==
  \/ \E t \in Threads, d \in Parents :
       \/ \E name \in Names, kind \in Kinds \ {"tmp"} : CallCreate(t, d, name, kind)
       \/ CallTmpfile(t, d)
  \/ \E t \in Threads : ThreadStep(t)
  \/ \E d \in Parents, name \in Names : minix_lookup(d, name)
  \/ \E r \in Readers : Rewind(r) \/ \E n \in Sizes : minix_readdir(r, n)
  \/ \E i \in Inos : WriteInode(i) \/ EvictInode(i)
  \/ \E d \in Inos, n \in DirPages : WriteDirPage(d, n)
  \/ FlushTable \/ FlushInodeMap
  \/ Remount
  \/ Crash

Spec == Init /\ [][Next]_vars
-----------------------------------------------------------------------------
(***************************************************************************)
(* Properties                                                              *)
(***************************************************************************)
\* Every variable has its type.
TypeOK ==
  /\ incore \in [Inos -> BOOLEAN] /\ idirty \in [Inos -> BOOLEAN]
  /\ mode \in [Inos -> Modes] /\ size \in [Inos -> Sizes]
  /\ nlink \in [Inos -> Nat]
  /\ ents \in [Inos -> [Slots -> Entries]] /\ entsDisk \in [Inos -> [Slots -> Entries]]
  /\ pdirty \in [Inos -> SUBSET DirPages]
  /\ table \in [Inos -> Records] /\ tableDisk \in [Inos -> Records]
  /\ imap \subseteq Inos /\ imapDisk \subseteq Inos
  /\ {tableDirty, imapDirty, lost} \subseteq BOOLEAN /\ crashes \in 0 .. MaxCrashes
  /\ pc \in [Threads -> {"idle", "new", "empty", "link", "open", "failed", "oops"}]
  /\ \A r \in Readers : reader[r].pos \in Sizes /\ reader[r].start \subseteq Names

\* BUG() of minix_add_link is not reached: the search stops in a page it looks at,
\* for every size of the directory, a full last page included.
AddLinkNoBug ==
  \A t \in Threads : pc[t] = "link" =>
    AddLinkStops(op[t].d, op[t].name) # {} \/ NoPageLeft(op[t].d)

\* The entries that give inode number i a name, in memory or on the device, and
\* the threads that are about to.
EntriesOf(i) ==
  {at \in Inos \X Slots :
     \E e \in {ents[at[1]][at[2]], entsDisk[at[1]][at[2]]} : e.ino = i /\ e.name \in Names}
HoldersOf(i) == {t \in Threads : pc[t] \in {"empty", "link", "open"} /\ op[t].ino = i}

\* An inode number never has two names, and is marked in the inode map, as long as
\* no crash loses inode map bits: entries, inodes and map may be written and lost
\* in any order.
OneNameOneInode ==
  ~lost =>
    \A i \in Inos :
      LET users == EntriesOf(i) \cup HoldersOf(i)
      IN Cardinality(users) <= 1 /\ (users # {} => i \in imap)

\* Without a crash every name leads to an inode that can be read: it is in memory
\* or its record has a type.
NoDanglingName ==
  crashes = 0 =>
    \A d \in Inos : incore[d] /\ mode[d] = "dir" =>
      \A s \in Searched(d) :
        LET i == ents[d][s].ino
        IN ents[d][s].name \in Names /\ i # 0 => incore[i] \/ table[i].mode \in {"reg", "dir"}

\* A call of mknod or mkdir that fails leaves its directory as it was: names, size
\* and link count; and mkdir and create leave no inode in memory.
FailedCallUndone ==
  \A t \in Threads : pc[t] = "failed" =>
    LET o == op[t]
    IN /\ nlink[o.d] = o.links /\ size[o.d] = o.size /\ NamesIn(o.d) = o.names
       /\ o.kind # "other" /\ o.ino # 0 => ~incore[o.ino]

\* A reader that gets to the end has seen every name that was there when it began
\* exactly once and no name twice, although names are added between its calls.
ReaddirOnce ==
  \A r \in Readers : \A name \in Names :
    /\ reader[r].seen[name] <= 1
    /\ reader[r].pos = size[Root] /\ name \in reader[r].start => reader[r].seen[name] = 1

\* The names of directory d: from the pages in memory, or from the device when the
\* directory is not in memory.
LinksOf(d) ==
  LET e == IF incore[d] THEN ents[d] ELSE entsDisk[d]
      used == {s \in IF incore[d] THEN Searched(d) ELSE 0 .. table[d].size - 1 :
                 e[s].ino # 0 /\ e[s].name \in Names}
  IN {[dir |-> d, name |-> e[s].name, ino |-> e[s].ino] : s \in used}

\* Directories implement the map from names to numbers of Directory.tla: no order
\* of write back, eviction, lookup and remount loses or changes a name, and after
\* a crash a name that is still there has the number it had, and no second entry.
\* (A second crash may bring back, behind the new i_size, an entry that the first
\* had cut off.)
Abstract == INSTANCE Directory WITH links <- UNION {LinksOf(d) : d \in Inos}
DirectorySpec == Abstract!Spec
=============================================================================
