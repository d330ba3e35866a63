--------------------------- MODULE AufsDirProofs ----------------------------
(***************************************************************************)
(* Directories and names (AufsDir.tla) for any number of threads, readers, *)
(* names, directories, inodes, pages and crashes.                          *)
(***************************************************************************)
EXTENDS AufsDir, AufsGeometryProofs, WellFoundedInduction, FiniteSetTheorems

\* The calls in progress: create, mknod and mkdir, and tmpfile.
CreateCalls ==
  [kind : {"reg", "dir", "other"}, d : Parents, name : Names, ino : Inos \cup {0},
   links : Int, size : Sizes, names : SUBSET Names]

\* tmpfile has no name.
TmpCalls == [kind : {"tmp"}, d : Parents, ino : Inos \cup {0}]

\* Which call is where.
CallOK(t) ==
  /\ pc[t] # "idle" => op[t] \in CreateCalls \cup TmpCalls
  /\ pc[t] = "new" => op[t].ino = 0
  /\ pc[t] = "empty" => op[t].kind = "dir"
  /\ pc[t] = "link" => op[t].kind \in {"reg", "dir"}
  /\ pc[t] = "open" => op[t].kind = "tmp"
  /\ pc[t] \in {"failed", "oops"} => op[t].kind # "tmp"
  /\ pc[t] \in {"empty", "link", "open"} => op[t].ino \in Inos

\* Where a call can be.
States == {"idle", "new", "empty", "link", "open", "failed", "oops"}

\* TypeOK with the calls, but for the sign of the link counts, one part per piece of
\* state: it holds whatever a crash loses. A name stands beside an inode number.
EntryOK(e) == e \in Entries /\ (e.name \in Names => e.ino \in Inos)

\* The inodes in memory.
InodesOK ==
  /\ incore \in [Inos -> BOOLEAN] /\ idirty \in [Inos -> BOOLEAN]
  /\ mode \in [Inos -> Modes] /\ size \in [Inos -> Sizes] /\ nlink \in [Inos -> Int]

\* The directory pages, in memory and on the device.
PagesOK ==
  /\ ents \in [Inos -> [Slots -> Entries]] /\ entsDisk \in [Inos -> [Slots -> Entries]]
  /\ \A d \in Inos, s \in Slots : EntryOK(ents[d][s]) /\ EntryOK(entsDisk[d][s])
  /\ pdirty \in [Inos -> SUBSET DirPages]

\* The buffer of the inode table, and the device's copy.
TableOK ==
  table \in [Inos -> Records] /\ tableDisk \in [Inos -> Records] /\ tableDirty \in BOOLEAN

\* The inode map likewise.
ImapOK == imap \subseteq Inos /\ imapDisk \subseteq Inos /\ imapDirty \in BOOLEAN

\* The calls.
ThreadsOK ==
  /\ pc \in [Threads -> States] /\ op \in [Threads -> CreateCalls \cup TmpCalls \cup {NoOp}]
  /\ \A t \in Threads : CallOK(t)

\* The readers.
ReadersOK ==
  reader \in [Readers -> [pos : Sizes, seen : [Names -> Nat], start : SUBSET Names]]

\* Only a crash loses inode map bits.
HistoryOK == lost \in BOOLEAN /\ crashes \in 0 .. MaxCrashes /\ (lost => crashes # 0)

\* The parts together.
TypeInv == InodesOK /\ PagesOK /\ TableOK /\ ImapOK /\ ThreadsOK /\ ReadersOK /\ HistoryOK

\* Entry s of directory d names inode i, in memory or on the device.
NamedBy(d, s, i) ==
  \E e \in {ents[d][s], entsDisk[d][s]} : e.ino = i /\ e.name \in Names

\* Thread t has inode i and has not named it, or failed to.
Holds(t, i) == pc[t] \in {"empty", "link", "open", "failed"} /\ op[t].ino = i

\* Who uses an inode number, as long as no crash lost inode map bits: it is marked,
\* the device's map is behind only where the buffer is dirty, and there is one
\* entry or one thread that has it.
UseInv ==
  /\ Root \in imap /\ (imapDirty \/ imapDisk = imap)
  /\ \A i \in Inos : incore[i] => i \in imap
  /\ \A i, d \in Inos, s \in Slots : NamedBy(d, s, i) => i \in imap
  /\ \A i \in Inos, t \in Threads : Holds(t, i) => i \in imap
  /\ \A i, d, e \in Inos, s, r \in Slots : NamedBy(d, s, i) /\ NamedBy(e, r, i) => d = e /\ s = r
  /\ \A i \in Inos, t, u \in Threads : Holds(t, i) /\ Holds(u, i) => t = u
  /\ \A i, d \in Inos, s \in Slots, t \in Threads : ~(Holds(t, i) /\ NamedBy(d, s, i))

\* The names of the workload before entry n of a directory's pages f.
NamesOf(f, n) == {f[s].name : s \in {r \in Slots : r < n /\ f[r].ino # 0}} \cap Names

\* The link that mkdir has counted for ".." and not taken back.
Link(t) == IF op[t].kind = "dir" /\ pc[t] # "failed" THEN 1 ELSE 0

\* The call's directory stays.
DirStays(t) == incore[op[t].d] /\ mode[op[t].d] = "dir"

\* No other call makes the call's directory, or holds its lock.
CallsApart(t, u) ==
  /\ op[u].ino # op[t].d
  /\ u # t /\ op[u].kind # "tmp" /\ op[t].kind # "tmp" => op[u].d # op[t].d

\* The directory is as the call found it, but for the link of "..".
DirAsFound(t) ==
  op[t].kind # "tmp" =>
    /\ size[op[t].d] = op[t].size /\ NamesOf(ents[op[t].d], size[op[t].d]) = op[t].names
    /\ op[t].name \notin op[t].names
    /\ op[t].links >= 0 /\ nlink[op[t].d] = op[t].links + Link(t)

\* The call's new inode is in memory until the call fails.
NewInodeOf(t) ==
  /\ pc[t] = "failed" /\ op[t].kind # "other" /\ op[t].ino # 0 => ~incore[op[t].ino]
  /\ pc[t] \in {"empty", "link", "open"} =>
       incore[op[t].ino] /\ mode[op[t].ino] = IF op[t].kind = "tmp" THEN "reg" ELSE op[t].kind

\* The calls in progress, as long as no crash lost inode map bits.
CallInv ==
  /\ \A i \in Inos : nlink[i] >= 0
  /\ \A t \in Threads : pc[t] # "idle" => DirStays(t) /\ DirAsFound(t) /\ NewInodeOf(t)
  /\ \A t, u \in Threads : pc[t] # "idle" /\ pc[u] # "idle" => CallsApart(t, u)

\* The record of a clean inode is up to date.
Recorded(i) == incore[i] /\ ~idirty[i] => table[i] = [mode |-> mode[i], size |-> size[i]]

\* The inode has a type, in memory or in its record.
Typed(i) == (IF incore[i] THEN mode[i] ELSE table[i].mode) \in {"reg", "dir"}

\* Before any crash: the inode table is behind only where an inode or the buffer is
\* dirty, and an inode with a name has a type.
NameInv ==
  /\ \A i \in Inos : Recorded(i)
  /\ tableDirty \/ tableDisk = table
  /\ \A i, d \in Inos, s \in Slots : NamedBy(d, s, i) => Typed(i)

\* Before any crash: the entries of the root directory are in use up to its size,
\* their names differ, and clean pages are those on the device.
RootInv ==
  /\ incore[Root] /\ \A t \in Threads : pc[t] # "idle" => op[t].ino # Root
  /\ \A s \in Slots : s < size[Root] => ents[Root][s].ino # 0
  /\ \A s, r \in Slots : s < size[Root] /\ r < size[Root] /\ ents[Root][s].name = ents[Root][r].name
       /\ ents[Root][s].name \in Names => s = r
  /\ \A s \in Slots : s < size[Root] /\ PageOf(s) \notin pdirty[Root] => entsDisk[Root][s] = ents[Root][s]

\* A reader of the root directory has seen the names before its position once, and
\* those it began with are still there.
ReaderInv(r) ==
  /\ reader[r].pos <= size[Root] /\ reader[r].start \subseteq NamesOf(ents[Root], size[Root])
  /\ \A name \in Names : reader[r].seen[name] =
       IF \E s \in Slots : s < reader[r].pos /\ ents[Root][s].name = name THEN 1 ELSE 0

\* The readers, before any crash.
ReadersInv == \A r \in Readers : ReaderInv(r)

\* The inductive invariant.
Inv ==
  /\ TypeInv
  /\ ~lost => UseInv /\ CallInv
  /\ crashes = 0 => NameInv /\ RootInv /\ ReadersInv

-----------------------------------------------------------------------------
(***************************************************************************)
(* Slots and pages                                                         *)
(***************************************************************************)
\* A non-empty set of naturals has a least member.
LEMMA LeastExists ==
  ASSUME NEW S \in SUBSET Nat, S # {}
  PROVE  \E s \in S : \A r \in S : s <= r
<1> DEFINE R == OpToRel(<, Nat)
<1>1. IsWellFoundedOn(R, Nat)
  BY NatLessThanWellFounded
<1>2. \A y, x \in Nat : y < x => <<y, x>> \in R
  BY DEF OpToRel
<1> HIDE DEF R
<1>3. PICK x \in S : \A y \in S : <<y, x>> \notin R
  BY <1>1, WFMin
<1>4. \A y \in S : x <= y
  <2> SUFFICES ASSUME NEW y \in S, ~(x <= y) PROVE FALSE
    OBVIOUS
  <2>1. x \in Nat /\ y \in Nat /\ y < x
    OBVIOUS
  <2>2. <<y, x>> \in R
    BY <1>2, <2>1, Zenon
  <2> QED
    BY <1>3, <2>2, Zenon
<1> QED
  BY <1>4

\* Pages hold at least two entries.
LEMMA Bounds ==
  /\ NInodes \in Nat \ {0} /\ MaxPages \in Nat \ {0} /\ PerPage \in Nat \ {0} /\ PerPage >= 2
  /\ MaxPages * PerPage \in Nat /\ MaxPages * PerPage >= PerPage
<1>1. NInodes \in Nat \ {0} /\ MaxPages \in Nat \ {0} /\ PerPage \in Nat \ {0} /\ PerPage >= 2
  BY DirAssumption
<1>2. 0 * PerPage + PerPage <= MaxPages * PerPage
  BY <1>1, MulMono
<1> QED
  BY <1>1, <1>2

\* The first slots, and the first inode.
LEMMA FirstOnes ==
  /\ Root \in Inos /\ Parents \subseteq Inos /\ 0 \notin Inos
  /\ 0 \in Slots /\ 1 \in Slots /\ 0 \in Sizes /\ 2 \in Sizes
  /\ Slots \subseteq Sizes /\ Slots \subseteq Nat /\ Inos \subseteq Nat
<1>1. Root \in Inos /\ 0 \notin Inos /\ Inos \subseteq Nat
  BY Bounds DEF Inos, Root
<1>2. Parents \subseteq Inos
  BY WorkloadAssumption, Zenon
<1>3. 0 \in Slots /\ 1 \in Slots /\ 0 \in Sizes /\ 2 \in Sizes
  BY Bounds DEF Slots, Sizes
<1>4. Slots \subseteq Sizes /\ Slots \subseteq Nat
  BY Bounds DEF Slots, Sizes
<1> QED
  BY <1>1, <1>2, <1>3, <1>4

\* The entries that mkfs and minix_make_empty write are no names of the workload.
LEMMA OwnNames == "" \notin Names /\ "." \notin Names /\ ".." \notin Names /\ ".badblocks" \notin Names
  BY WorkloadAssumption

\* Sizes by page: n lies in page n \div PerPage, and the last of its NPages(n) pages
\* is the one before n.
LEMMA PageArithmetic ==
  ASSUME NEW n \in Sizes
  PROVE  /\ n \in Nat /\ n <= MaxPages * PerPage
         /\ PageOf(n) \in Nat /\ n % PerPage \in 0 .. PerPage - 1
         /\ PageOf(n) * PerPage \in Nat /\ n = PageOf(n) * PerPage + (n % PerPage)
         /\ NPages(n) \in Nat /\ NPages(n) * PerPage \in Nat
         /\ n <= NPages(n) * PerPage /\ NPages(n) * PerPage < n + PerPage
<1>1. n \in Nat /\ n <= MaxPages * PerPage
  BY Bounds DEF Sizes
<1>2. /\ PageOf(n) \in Nat /\ n % PerPage \in 0 .. PerPage - 1
      /\ PageOf(n) * PerPage \in Nat /\ n = PageOf(n) * PerPage + (n % PerPage)
  BY <1>1, Bounds, Quotient DEF PageOf
<1> DEFINE m == n + PerPage - 1
<1>3. m \in Nat
  BY <1>1, Bounds
<1>4. /\ NPages(n) = m \div PerPage
  BY DEF NPages
<1> HIDE DEF m
<1>5. /\ NPages(n) \in Nat /\ NPages(n) * PerPage \in Nat
      /\ NPages(n) * PerPage <= m /\ m < NPages(n) * PerPage + PerPage
  BY <1>3, <1>4, Bounds, Quotient
<1>6. n <= NPages(n) * PerPage /\ NPages(n) * PerPage < n + PerPage
  BY <1>1, <1>5, Bounds DEF m
<1> QED
  BY <1>1, <1>2, <1>5, <1>6

\* A slot lies in one of the pages, and the size behind it is a size.
LEMMA SlotPage ==
  ASSUME NEW s \in Slots
  PROVE  s \in Nat /\ PageOf(s) \in DirPages /\ s + 1 \in Sizes /\ s \in Sizes
<1>1. s \in Nat /\ s < MaxPages * PerPage /\ s \in Sizes /\ s + 1 \in Sizes
  BY Bounds DEF Slots, Sizes
<1>2. PageOf(s) < MaxPages
  <2> SUFFICES ASSUME ~(PageOf(s) < MaxPages) PROVE FALSE
    OBVIOUS
  <2>1. PageOf(s) \in Nat /\ PageOf(s) * PerPage \in Nat /\ PageOf(s) * PerPage <= s
    BY <1>1, PageArithmetic, Bounds
  <2>2. PageOf(s) = MaxPages \/ MaxPages * PerPage + PerPage <= PageOf(s) * PerPage
    BY <2>1, Bounds, MulMono
  <2> QED
    BY <1>1, <2>1, <2>2, Bounds
<1>3. PageOf(s) \in Nat
  BY <1>1, PageArithmetic
<1> QED
  BY <1>1, <1>2, <1>3, Bounds DEF DirPages

\* minix_find_entry and minix_readdir look at exactly the entries before i_size.
LEMMA SearchedIs ==
  ASSUME NEW d, size[d] \in Sizes
  PROVE  Searched(d) = {s \in Slots : s < size[d]}
<1> DEFINE n == size[d]
           P == PerPage
           Q == PageOf(n)
           N == NPages(n)
<1>1. /\ n \in Nat /\ Q \in Nat /\ n % P \in 0 .. P - 1 /\ Q * P \in Nat /\ n = Q * P + (n % P)
      /\ N \in Nat /\ N * P \in Nat /\ n <= N * P /\ N * P < n + P /\ P \in Nat \ {0}
  BY PageArithmetic, Bounds
<1>2. ASSUME NEW s \in Slots
      PROVE  s \in Searched(d) <=> s < n
  <2> DEFINE q == PageOf(s)
  <2>1. /\ s \in Nat /\ q \in Nat /\ s % P \in 0 .. P - 1 /\ q * P \in Nat /\ s = q * P + (s % P)
    BY SlotPage, PageArithmetic
  <2>2. s \in Searched(d) <=> q < N /\ s % P <= (IF q = Q THEN n % P ELSE P) - 1
    BY DEF Searched, minix_last_byte
  <2> HIDE DEF q, n, P, Q, N
  <2>3. CASE q = Q
    <3>1. s < n <=> s % P < n % P
      BY <1>1, <2>1, <2>3
    <3>2. s < n => q < N
      <4> SUFFICES ASSUME s < n, ~(q < N) PROVE FALSE
        BY <1>1, <2>1
      <4>1. q = N \/ N * P + P <= q * P
        BY <1>1, <2>1, MulMono
      <4> QED
        BY <1>1, <2>1, <4>1
    <3> QED
      BY <1>1, <2>1, <2>2, <2>3, <3>1, <3>2
  <2>4. CASE q < Q
    <3>1. q * P + P <= Q * P
      BY <1>1, <2>1, <2>4, MulMono
    <3>2. s < n
      BY <1>1, <2>1, <3>1
    <3>3. q < N
      <4> SUFFICES ASSUME ~(q < N) PROVE FALSE
        OBVIOUS
      <4>1. q = N \/ N * P + P <= q * P
        BY <1>1, <2>1, MulMono
      <4> QED
        BY <1>1, <2>1, <3>1, <4>1
    <3> QED
      BY <1>1, <2>1, <2>2, <2>4, <3>2, <3>3
  <2>5. CASE Q < q
    <3>1. Q * P + P <= q * P
      BY <1>1, <2>1, <2>5, MulMono
    <3>2. ~(s < n)
      BY <1>1, <2>1, <3>1
    <3>3. ~(q < N)
      <4> SUFFICES ASSUME q < N PROVE FALSE
        OBVIOUS
      <4>1. q * P + P <= N * P
        BY <1>1, <2>1, MulMono
      <4> QED
        BY <1>1, <2>1, <3>1, <4>1
    <3> QED
      BY <2>2, <3>2, <3>3
  <2> QED
    BY <1>1, <2>1, <2>3, <2>4, <2>5 DEF n
<1>3. Searched(d) \subseteq Slots
  BY DEF Searched
<1> QED
  BY <1>2, <1>3

\* The search of minix_add_link stops at i_size at the latest, unless all pages are
\* full.
LEMMA StopsAtEnd ==
  ASSUME NEW d, size[d] \in Sizes, NEW name
  PROVE  /\ size[d] \in Slots => size[d] \in AddLinkStops(d, name)
         /\ size[d] \in Slots \/ NoPageLeft(d)
<1> DEFINE n == size[d]
           P == PerPage
           Q == PageOf(n)
           N == NPages(n)
           M == MaxPages
<1>1. /\ n \in Nat /\ Q \in Nat /\ n % P \in 0 .. P - 1 /\ Q * P \in Nat /\ n = Q * P + (n % P)
      /\ N \in Nat /\ N * P \in Nat /\ n <= N * P /\ N * P < n + P /\ P \in Nat \ {0}
      /\ n <= M * P /\ M * P \in Nat /\ M \in Nat
  BY PageArithmetic, Bounds
<1>2. n % P = minix_last_byte(d, Q)
  BY DEF minix_last_byte
<1>3. n \in Slots <=> n < M * P
  BY <1>1 DEF Slots
<1>4. n \in Slots /\ Q <= N => n \in AddLinkStops(d, name)
  BY <1>2 DEF AddLinkStops, StopsAt
<1>5. NoPageLeft(d) <=> N = M
  BY DEF NoPageLeft
<1> HIDE DEF n, P, Q, N, M
<1>6. Q <= N
  <2> SUFFICES ASSUME N < Q PROVE FALSE
    BY <1>1
  <2>1. N * P + P <= Q * P
    BY <1>1, MulMono
  <2> QED
    BY <1>1, <2>1
<1>7. n = M * P => N = M
  <2> SUFFICES ASSUME n = M * P, N # M PROVE FALSE
    OBVIOUS
  <2>1. N * P + P <= M * P \/ M * P + P <= N * P
    BY <1>1, MulMono
  <2> QED
    BY <1>1, <2>1
<1>8. n \in Slots => n \in AddLinkStops(d, name)
  BY <1>4, <1>6
<1>9. n \in Slots \/ NoPageLeft(d)
  BY <1>1, <1>3, <1>5, <1>7
<1> QED
  BY <1>8, <1>9 DEF n

\* The entry that minix_add_link fills is not in use, or the one at the size.
LEMMA RoomIsFree ==
  ASSUME NEW d, size[d] \in Sizes, NEW name, NEW s \in Room(d, name)
  PROVE  s \in Slots /\ s <= size[d] /\ (s < size[d] => ents[d][s].ino = 0)
<1> DEFINE n == size[d]
           P == PerPage
<1>1. /\ s \in Slots /\ s \in AddLinkStops(d, name) /\ \A r \in AddLinkStops(d, name) : s <= r
      /\ s = n \/ ~Matches(d, s, name)
  BY DEF Room
<1>2. /\ n \in Nat /\ n <= MaxPages * P /\ s \in Nat /\ s < MaxPages * P /\ P \in Nat \ {0}
      /\ n = PageOf(n) * P + (n % P) /\ n % P \in 0 .. P - 1 /\ PageOf(n) * P \in Nat
      /\ s = PageOf(s) * P + (s % P) /\ s % P \in 0 .. P - 1
      /\ MaxPages * P \in Nat
  BY <1>1, PageArithmetic, SlotPage, Bounds DEF Slots
<1>3. s <= n
  BY <1>1, <1>2, StopsAtEnd DEF Slots
<1>4. ~(s < n /\ ents[d][s].ino # 0)
  <2> SUFFICES ASSUME s < n, ents[d][s].ino # 0 PROVE FALSE
    OBVIOUS
  <2>0. StopsAt(d, s, name) /\ ~Matches(d, s, name)
    BY <1>1, <1>2 DEF AddLinkStops
  <2>1. s % P = minix_last_byte(d, PageOf(s))
    BY <2>0 DEF StopsAt
  <2>2. PageOf(s) = PageOf(n) /\ s % P = n % P
    BY <1>2, <2>1 DEF minix_last_byte
  <2> QED
    BY <1>2, <2>2
<1> QED
  BY <1>1, <1>3, <1>4

\* Where every entry before i_size is in use the new entry is the one at i_size.
LEMMA RoomIsEnd ==
  ASSUME NEW d, size[d] \in Sizes, NEW name, NEW s \in Room(d, name),
         \A r \in Slots : r < size[d] => ents[d][r].ino # 0
  PROVE  s = size[d]
<1>1. s \in Slots /\ s <= size[d] /\ (s < size[d] => ents[d][s].ino = 0)
  BY RoomIsFree
<1>2. s \in Nat /\ size[d] \in Nat
  BY <1>1, SlotPage, PageArithmetic
<1> QED
  BY <1>1, <1>2
-----------------------------------------------------------------------------
(***************************************************************************)
(* Types: TypeInv                                                          *)
(***************************************************************************)
\* What a call keeps.
LEMMA CallFields ==
  ASSUME NEW o \in CreateCalls \cup TmpCalls
  PROVE  /\ o.kind \in {"reg", "dir", "other", "tmp"} /\ o.d \in Parents /\ o.ino \in Inos \cup {0}
         /\ o.kind # "tmp" => /\ o \in CreateCalls
                              /\ o.name \in Names /\ o.size \in Sizes
                              /\ o.names \in SUBSET Names /\ o.links \in Int
<1>1. CASE o \in CreateCalls
  BY <1>1 DEF CreateCalls
<1>2. CASE o \in TmpCalls
  BY <1>2 DEF TmpCalls
<1> QED
  BY <1>1, <1>2

\* The directory of a call is an inode number.
LEMMA CallDir ==
  ASSUME ThreadsOK, NEW t \in Threads, pc[t] # "idle"
  PROVE  op[t] \in CreateCalls \cup TmpCalls /\ op[t].d \in Inos /\ op[t].d \in Parents
<1>1. op[t] \in CreateCalls \cup TmpCalls
  BY DEF ThreadsOK, CallOK
<1>2. op[t].d \in Parents
  BY <1>1, CallFields
<1> QED
  BY <1>1, <1>2, FirstOnes

\* A call that got its inode.
LEMMA CallWithInode ==
  ASSUME NEW o \in CreateCalls \cup TmpCalls, NEW i \in Inos
  PROVE  /\ [o EXCEPT !.ino = i] \in CreateCalls \cup TmpCalls
         /\ [o EXCEPT !.ino = i].ino = i /\ [o EXCEPT !.ino = i].kind = o.kind
         /\ [o EXCEPT !.ino = i].d = o.d
         /\ o.kind # "tmp" =>
              /\ [o EXCEPT !.ino = i].name = o.name /\ [o EXCEPT !.ino = i].links = o.links
              /\ [o EXCEPT !.ino = i].size = o.size /\ [o EXCEPT !.ino = i].names = o.names
<1>1. CASE o \in CreateCalls
  BY <1>1 DEF CreateCalls
<1>2. CASE o \in TmpCalls
  BY <1>2 DEF TmpCalls
<1> QED
  BY <1>1, <1>2

\* Entries as the code makes them.
LEMMA EntryTypes ==
  /\ EntryOK(NoEntry)
  /\ \A i \in Inos, name \in Names \cup {".", ".."} : EntryOK(Entry(i, name))
  /\ EntryOK(Entry(BigEndian(1), ".")) /\ EntryOK(Entry(BigEndian(1), ".."))
  /\ EntryOK(Entry(BigEndian(2), ".badblocks"))
  /\ \A i, name : Entry(i, name).ino = i /\ Entry(i, name).name = name
<1>1. \A i, name : Entry(i, name).ino = i /\ Entry(i, name).name = name
  BY DEF Entry
<1> DEFINE In == {BigEndian(1), BigEndian(2)} \cup {0} \cup Inos
           Na == Names \cup {".", "..", ".badblocks", ""}
<1>2. \A i \in In, name \in Na : Entry(i, name) \in Entries
  BY DEF Entry, Entries
<1>3. BigEndian(1) \in In /\ BigEndian(2) \in In /\ 0 \in In /\ \A i \in Inos : i \in In
  BY Zenon
<1>4. "." \in Na /\ ".." \in Na /\ ".badblocks" \in Na /\ "" \in Na
  BY Zenon
<1>5. \A name \in Names \cup {".", ".."} : name \in Na
  BY Zenon
<1> HIDE DEF In, Na
<1>6. EntryOK(NoEntry) 
  BY <1>1, <1>2, <1>3, <1>4, OwnNames, Zenon DEF EntryOK, NoEntry
<1>7. EntryOK(Entry(BigEndian(1), ".")) /\ EntryOK(Entry(BigEndian(1), ".."))
  BY <1>1, <1>2, <1>3, <1>4, OwnNames, Zenon DEF EntryOK
<1>8. EntryOK(Entry(BigEndian(2), ".badblocks"))
  BY <1>1, <1>2, <1>3, <1>4, OwnNames, Zenon DEF EntryOK
<1>9. \A i \in Inos, name \in Names \cup {".", ".."} : EntryOK(Entry(i, name))
  BY <1>1, <1>2, <1>3, <1>5, Zenon DEF EntryOK
<1> QED
  BY <1>1, <1>6, <1>7, <1>8, <1>9

\* A directory's entries, in memory or on the device.
DirEntries(f) == f \in [Slots -> Entries] /\ \A s \in Slots : EntryOK(f[s])

\* The pages of one directory.
LEMMA DirEntriesHold ==
  /\ DirEntries(NoEntries)
  /\ DirEntries(MkRootDir)
  /\ \A f, s, e : DirEntries(f) /\ EntryOK(e) => DirEntries([f EXCEPT ![s] = e])
<1>1. DirEntries(NoEntries)
  BY EntryTypes DEF DirEntries, NoEntries, EntryOK
<1>2. DirEntries(MkRootDir)
  <2> DEFINE e0 == Entry(BigEndian(1), ".")
             e1 == Entry(BigEndian(1), "..")
             e2 == Entry(BigEndian(2), ".badblocks")
  <2>1. EntryOK(e0) /\ EntryOK(e1) /\ EntryOK(e2) /\ EntryOK(NoEntry)
    BY EntryTypes
  <2>2. MkRootDir = [s \in Slots |-> IF s = 0 THEN e0 ELSE IF s = 1 THEN e1
                      ELSE IF s = 2 /\ PerPage > 2 THEN e2 ELSE NoEntry]
    BY FirstOnes DEF MkRootDir
  <2> HIDE DEF e0, e1, e2
  <2> QED
    BY <2>1, <2>2 DEF DirEntries, EntryOK
<1>3. \A f, s, e : DirEntries(f) /\ EntryOK(e) => DirEntries([f EXCEPT ![s] = e])
  BY DEF DirEntries, EntryOK
<1> QED
  BY <1>1, <1>2, <1>3

\* PagesOK by directories.
LEMMA PagesByDir ==
  PagesOK <=> /\ ents = [d \in Inos |-> ents[d]] /\ entsDisk = [d \in Inos |-> entsDisk[d]]
              /\ \A d \in Inos : DirEntries(ents[d]) /\ DirEntries(entsDisk[d])
              /\ pdirty \in [Inos -> SUBSET DirPages]
  BY DEF PagesOK, DirEntries

\* Reading a directory's pages from the device.
LEMMA LoadedHolds ==
  ASSUME PagesOK, NEW d \in Inos, NEW n
  PROVE  DirEntries(Loaded(d, n))
<1>1. DirEntries(entsDisk[d])
  BY PagesByDir
<1> QED
  BY <1>1, EntryTypes DEF DirEntries, Loaded, EntryOK

\* What a step leaves alone keeps its type.
LEMMA TypeFrame ==
  /\ InodesOK /\ UNCHANGED inodeVars => InodesOK'
  /\ PagesOK /\ UNCHANGED pageVars => PagesOK'
  /\ TableOK /\ UNCHANGED tableVars => TableOK'
  /\ ImapOK /\ UNCHANGED imapVars => ImapOK'
  /\ ThreadsOK /\ UNCHANGED <<pc, op>> => ThreadsOK'
  /\ ReadersOK /\ UNCHANGED reader => ReadersOK'
  /\ HistoryOK /\ UNCHANGED history => HistoryOK'
<1>1. InodesOK /\ UNCHANGED inodeVars => InodesOK'
  BY DEF InodesOK, inodeVars
<1>2. PagesOK /\ UNCHANGED pageVars => PagesOK'
  BY DEF PagesOK, pageVars
<1>3. TableOK /\ UNCHANGED tableVars => TableOK'
  BY DEF TableOK, tableVars
<1>4. ImapOK /\ UNCHANGED imapVars => ImapOK'
  BY DEF ImapOK, imapVars
<1>5. ThreadsOK /\ UNCHANGED <<pc, op>> => ThreadsOK'
  BY DEF ThreadsOK, CallOK
<1>6. ReadersOK /\ UNCHANGED reader => ReadersOK'
  BY DEF ReadersOK
<1>7. HistoryOK /\ UNCHANGED history => HistoryOK'
  BY DEF HistoryOK, history
<1> QED
  BY <1>1, <1>2, <1>3, <1>4, <1>5, <1>6, <1>7

\* A thread that returns, or goes on with its call.
LEMMA ThreadMoves ==
  ASSUME ThreadsOK, NEW t \in Threads, NEW p \in States, NEW o,
         pc' = [pc EXCEPT ![t] = p], op' = [op EXCEPT ![t] = o],
         o \in CreateCalls \cup TmpCalls \cup {NoOp},
         p # "idle" => o \in CreateCalls \cup TmpCalls,
         p = "new" => o.ino = 0,
         p = "empty" => o.kind = "dir",
         p = "link" => o.kind \in {"reg", "dir"},
         p = "open" => o.kind = "tmp",
         p \in {"failed", "oops"} => o.kind # "tmp",
         p \in {"empty", "link", "open"} => o.ino \in Inos
  PROVE  ThreadsOK'
<1> DEFINE C == CreateCalls \cup TmpCalls
           D == C \cup {NoOp}
<1>1. pc' \in [Threads -> States] /\ op' \in [Threads -> D]
  BY DEF ThreadsOK
<1>2. \A u \in Threads : CallOK(u)'
  <2> SUFFICES ASSUME NEW u \in Threads PROVE CallOK(u)'
    OBVIOUS
  <2>1. CASE u = t
    <3>1. pc'[u] = p /\ op'[u] = o
      BY <2>1 DEF ThreadsOK
    <3> QED
      BY <3>1, Zenon DEF CallOK
  <2>2. CASE u # t
    <3>1. pc'[u] = pc[u] /\ op'[u] = op[u]
      BY <2>2 DEF ThreadsOK
    <3>2. CallOK(u)
      BY DEF ThreadsOK
    <3> QED
      BY <3>1, <3>2, Zenon DEF CallOK
  <2> QED
    BY <2>1, <2>2
<1> QED
  BY <1>1, <1>2 DEF ThreadsOK

\* A formatted device.
LEMMA TypeInvInit == Init => TypeInv
<1> SUFFICES ASSUME Init PROVE TypeInv
  OBVIOUS
<1>1. InodesOK
  <2>1. Root \in Inos /\ 0 \in Sizes /\ 2 \in Sizes
    BY FirstOnes
  <2>2. incore \in [Inos -> BOOLEAN] /\ idirty \in [Inos -> BOOLEAN] /\ nlink \in [Inos -> Int]
    BY DEF Init
  <2>3. mode \in [Inos -> Modes]
    BY DEF Init, Modes
  <2>4. size \in [Inos -> Sizes]
    BY <2>1 DEF Init
  <2> QED
    BY <2>2, <2>3, <2>4 DEF InodesOK
<1>2. PagesOK
  <2>1. entsDisk = [d \in Inos |-> IF d = Root THEN MkRootDir ELSE NoEntries]
    BY DEF Init
  <2>2. \A d \in Inos : DirEntries(entsDisk[d])
    BY <2>1, DirEntriesHold
  <2>3. DirEntries(Loaded(Root, 2))
    BY <2>2, FirstOnes, EntryTypes DEF DirEntries, Loaded, EntryOK
  <2>4. ents = [d \in Inos |-> IF d = Root THEN Loaded(Root, 2) ELSE NoEntries]
    BY DEF Init
  <2>5. \A d \in Inos : DirEntries(ents[d])
    BY <2>3, <2>4, DirEntriesHold
  <2>6. pdirty \in [Inos -> SUBSET DirPages]
    BY DEF Init
  <2> QED
    BY <2>1, <2>2, <2>4, <2>5, <2>6, PagesByDir
<1>3. TableOK
  <2>1. Root \in Inos /\ 0 \in Sizes /\ 2 \in Sizes
    BY FirstOnes
  <2>2. NoRecord \in Records /\ [mode |-> "dir", size |-> 2] \in Records
    BY <2>1 DEF NoRecord, Records, Modes
  <2> QED
    BY <2>2 DEF TableOK, Init
<1>4. ImapOK
  BY FirstOnes DEF ImapOK, Init
<1>5. ThreadsOK
  BY DEF ThreadsOK, Init, States, CallOK
<1>6. ReadersOK
  <2>1. Rewound \in [pos : Sizes, seen : [Names -> Nat], start : SUBSET Names]
    BY FirstOnes DEF Rewound
  <2> QED
    BY <2>1 DEF ReadersOK, Init
<1>7. HistoryOK
  <2>1. crashes \in 0 .. MaxCrashes
    BY DirAssumption DEF Init
  <2>2. lost = FALSE /\ crashes = 0
    BY DEF Init
  <2> QED
    BY <2>1, <2>2, Zenon DEF HistoryOK
<1> QED
  BY <1>1, <1>2, <1>3, <1>4, <1>5, <1>6, <1>7 DEF TypeInv

\* Calls begin, get their inode or not, and return.
LEMMA TypeCalls ==
  ASSUME TypeInv, NEW t \in Threads,
         \/ \E d \in Parents, name \in Names, kind \in Kinds \ {"tmp"} : CallCreate(t, d, name, kind)
         \/ \E d \in Parents : CallTmpfile(t, d)
         \/ NewInode(t) \/ NewInodeFull(t) \/ CloseTmpfile(t) \/ ReturnError(t)
  PROVE  TypeInv'
<1>0. InodesOK /\ PagesOK /\ TableOK /\ ImapOK /\ ThreadsOK /\ ReadersOK /\ HistoryOK
  BY DEF TypeInv
<1>1. ASSUME NEW d \in Parents, NEW name \in Names, NEW kind \in Kinds \ {"tmp"},
             CallCreate(t, d, name, kind)
      PROVE  TypeInv'
  <2>1. d \in Inos
    BY FirstOnes
  <2>2. InodesOK'
    <3>0. nlink \in [Inos -> Int] /\ idirty \in [Inos -> BOOLEAN]
      BY <1>0 DEF InodesOK
    <3>1. CASE kind = "dir"
      <4>1. nlink' = [nlink EXCEPT ![d] = @ + 1] /\ idirty' = [idirty EXCEPT ![d] = TRUE]
        BY <1>1, <3>1 DEF CallCreate
      <4>2. nlink' \in [Inos -> Int] /\ idirty' \in [Inos -> BOOLEAN]
        BY <2>1, <3>0, <4>1
      <4> QED
        BY <1>0, <1>1, <4>2 DEF CallCreate, InodesOK
    <3>2. CASE kind # "dir"
      BY <1>0, <1>1, <3>2 DEF CallCreate, InodesOK
    <3> QED
      BY <3>1, <3>2
  <2>3. ThreadsOK'
    <3> DEFINE o == [kind |-> kind, d |-> d, name |-> name, ino |-> 0,
                     links |-> nlink[d], size |-> size[d], names |-> NamesIn(d)]
    <3>1. kind \in {"reg", "dir", "other"}
      BY WorkloadAssumption, Zenon
    <3>2. nlink[d] \in Int /\ size[d] \in Sizes /\ NamesIn(d) \in SUBSET Names
      BY <1>0, <2>1 DEF InodesOK, NamesIn
    <3>3. o \in CreateCalls /\ o.ino = 0
      BY <3>1, <3>2 DEF CreateCalls
    <3>4. pc' = [pc EXCEPT ![t] = "new"] /\ op' = [op EXCEPT ![t] = o] /\ "new" \in States
      BY <1>1 DEF CallCreate, States
    <3> HIDE DEF o
    <3> QED
      BY <1>0, <3>3, <3>4, ThreadMoves
  <2> QED
    BY <1>0, <1>1, <2>2, <2>3, TypeFrame DEF TypeInv, CallCreate
<1>2. ASSUME NEW d \in Parents, CallTmpfile(t, d)
      PROVE  TypeInv'
  <2>1. ThreadsOK'
    <3> DEFINE o == [kind |-> "tmp", d |-> d, ino |-> 0]
    <3>1. o \in TmpCalls /\ o.ino = 0
      BY DEF TmpCalls
    <3>2. pc' = [pc EXCEPT ![t] = "new"] /\ op' = [op EXCEPT ![t] = o] /\ "new" \in States
      BY <1>2 DEF CallTmpfile, States
    <3> HIDE DEF o
    <3> QED
      BY <1>0, <3>1, <3>2, ThreadMoves
  <2> QED
    BY <1>0, <1>2, <2>1, TypeFrame DEF TypeInv, CallTmpfile
<1>3. CASE NewInode(t)
  <2> DEFINE kind == op[t].kind
  <2>1. pc[t] = "new" /\ op[t] \in CreateCalls \cup TmpCalls /\ kind \in {"reg", "dir", "other", "tmp"}
    BY <1>0, <1>3, CallDir, CallFields DEF NewInode, TakeInode
  <2>2. PICK i \in Inos \ imap :
          /\ imap' = imap \cup {i} /\ imapDirty' = (imapDirty \/ TRUE)
          /\ incore' = [incore EXCEPT ![i] = TRUE]
          /\ mode' = [mode EXCEPT ![i] = IF kind = "tmp" THEN "reg" ELSE kind]
          /\ nlink' = [nlink EXCEPT ![i] = CASE kind = "dir" -> 2 [] kind = "tmp" -> 0 [] OTHER -> 1]
          /\ idirty' = [idirty EXCEPT ![i] = TRUE]
          /\ op' = [op EXCEPT ![t].ino = i]
    BY <1>3 DEF NewInode, TakeInode
  <2> DEFINE p == CASE kind = "dir" -> "empty" [] kind = "reg" -> "link"
                    [] kind = "tmp" -> "open" [] kind = "other" -> "failed"
             m == IF kind = "tmp" THEN "reg" ELSE kind
             l == CASE kind = "dir" -> 2 [] kind = "tmp" -> 0 [] OTHER -> 1
  <2>3. /\ pc' = [pc EXCEPT ![t] = p]
        /\ UNCHANGED <<size, pageVars, tableVars, imapDisk, reader, history>>
    BY <1>3 DEF NewInode, TakeInode
  <2>4. InodesOK'
    <3>1. m \in Modes
      BY <2>1 DEF Modes
    <3>2. l \in Int
      BY <2>1
    <3>3. mode' = [mode EXCEPT ![i] = m] /\ nlink' = [nlink EXCEPT ![i] = l]
      BY <2>2
    <3> HIDE DEF m, l
    <3> QED
      BY <1>0, <2>2, <2>3, <3>1, <3>2, <3>3 DEF InodesOK
  <2>5. ImapOK'
    <3>1. imapDirty' \in BOOLEAN
      BY <2>2, Zenon
    <3> QED
      BY <1>0, <2>2, <2>3, <3>1 DEF ImapOK
  <2>6. ThreadsOK'
    <3> DEFINE o == [op[t] EXCEPT !.ino = i]
    <3>1. o \in CreateCalls \cup TmpCalls /\ o.ino = i /\ o.kind = kind
      BY <2>1, CallWithInode
    <3>2. op' = [op EXCEPT ![t] = o]
      BY <2>2
    <3>3. /\ p \in States /\ p # "new" /\ p # "oops" /\ (p = "empty" => kind = "dir")
          /\ (p = "link" => kind \in {"reg", "dir"}) /\ (p = "open" => kind = "tmp")
          /\ (p = "failed" => kind # "tmp")
      BY <2>1 DEF States
    <3> HIDE DEF o, p, kind
    <3> QED
      BY <1>0, <2>2, <2>3, <3>1, <3>2, <3>3, ThreadMoves
  <2> QED
    BY <1>0, <2>3, <2>4, <2>5, <2>6, TypeFrame DEF TypeInv
<1>4. CASE NewInodeFull(t)
  <2> DEFINE kind == op[t].kind
             d == op[t].d
             p == CASE kind = "dir" -> "failed" [] kind = "tmp" -> "idle" [] OTHER -> "oops"
             o == IF kind = "tmp" THEN NoOp ELSE op[t]
             l == nlink[d] - LinkBack(t)
             z == idirty[d] \/ kind = "dir"
  <2>1. /\ op[t] \in CreateCalls \cup TmpCalls /\ kind \in {"reg", "dir", "other", "tmp"} /\ d \in Inos
    BY <1>0, <1>4, CallDir, CallFields DEF NewInodeFull
  <2>2. /\ pc' = [pc EXCEPT ![t] = p]
        /\ op' = IF kind = "tmp" THEN [op EXCEPT ![t] = NoOp] ELSE op
        /\ nlink' = [nlink EXCEPT ![d] = l] /\ idirty' = [idirty EXCEPT ![d] = z]
        /\ UNCHANGED <<incore, mode, size, pageVars, tableVars, imapVars, reader, history>>
    BY <1>4 DEF NewInodeFull
  <2>3. InodesOK'
    <3>1. nlink[d] \in Int /\ LinkBack(t) \in Int
      BY <1>0, <2>1 DEF InodesOK, LinkBack
    <3>2. l \in Int /\ z \in BOOLEAN
      BY <3>1
    <3> HIDE DEF l, z, d
    <3> QED
      BY <1>0, <2>1, <2>2, <3>2 DEF InodesOK
  <2>4. ThreadsOK'
    <3>1. op' = [op EXCEPT ![t] = o]
      BY <1>0, <2>2 DEF ThreadsOK
    <3>2. /\ p \in States /\ p \in {"failed", "idle", "oops"} /\ (p \in {"failed", "oops"} <=> kind # "tmp")
      BY <2>1 DEF States
    <3>3. /\ o \in CreateCalls \cup TmpCalls \cup {NoOp}
          /\ kind # "tmp" => o \in CreateCalls \cup TmpCalls /\ o.kind = kind
      BY <2>1
    <3>4. pc' = [pc EXCEPT ![t] = p]
      BY <2>2
    <3> HIDE DEF o, p, kind
    <3> QED
      BY <1>0, <3>1, <3>2, <3>3, <3>4, ThreadMoves
  <2> QED
    BY <1>0, <2>2, <2>3, <2>4, TypeFrame DEF TypeInv
<1>5. CASE CloseTmpfile(t)
  <2>1. InodesOK'
    BY <1>0, <1>5 DEF CloseTmpfile, InodesOK
  <2>2. ThreadsOK'
    BY <1>0, <1>5, ThreadMoves DEF CloseTmpfile, States
  <2> QED
    BY <1>0, <1>5, <2>1, <2>2, TypeFrame DEF TypeInv, CloseTmpfile
<1>6. CASE ReturnError(t)
  <2>1. ThreadsOK'
    BY <1>0, <1>6, ThreadMoves DEF ReturnError, States
  <2> QED
    BY <1>0, <1>6, <2>1, TypeFrame DEF TypeInv, ReturnError
<1> QED
  BY <1>1, <1>2, <1>3, <1>4, <1>5, <1>6

\* A directory's pages, size and inode change.
LEMMA TypeLinks ==
  ASSUME TypeInv, NEW t \in Threads,
         minix_make_empty(t) \/ minix_add_link(t) \/ AddLinkFails(t)
  PROVE  TypeInv'
<1>0. /\ InodesOK /\ PagesOK /\ TableOK /\ ImapOK /\ ThreadsOK /\ ReadersOK /\ HistoryOK
      /\ pc[t] \in {"empty", "link"}
  BY DEF TypeInv, minix_make_empty, minix_add_link, AddLinkFails
<1> DEFINE d == op[t].d
           i == op[t].ino
           kind == op[t].kind
           name == op[t].name
<1>1. /\ op[t] \in CreateCalls \cup TmpCalls /\ d \in Inos /\ i \in Inos /\ kind \in {"reg", "dir"}
      /\ pc[t] = "empty" => kind = "dir"
  BY <1>0, CallDir DEF ThreadsOK, CallOK
<1>2. name \in Names
  BY <1>1, CallFields
<1>a. \A e \in Inos : DirEntries(ents[e]) /\ DirEntries(entsDisk[e])
  BY <1>0, PagesByDir
<1>b. pdirty \in [Inos -> SUBSET DirPages] /\ ents \in [Inos -> [Slots -> Entries]]
  BY <1>0 DEF PagesOK
<1>3. CASE minix_make_empty(t)
  <2> DEFINE f == [NoEntries EXCEPT ![0] = Entry(i, "."), ![1] = Entry(d, "..")]
  <2>1. /\ pc[t] = "empty" /\ pc' = [pc EXCEPT ![t] = "link"] /\ ents' = [ents EXCEPT ![i] = f]
        /\ pdirty' = [pdirty EXCEPT ![i] = {0}]
        /\ size' = [size EXCEPT ![i] = 2] /\ idirty' = [idirty EXCEPT ![i] = TRUE]
        /\ UNCHANGED <<incore, mode, nlink, entsDisk, tableVars, imapVars, op, reader, history>>
    BY <1>3 DEF minix_make_empty
  <2>2. InodesOK'
    BY <1>0, <2>1, FirstOnes DEF InodesOK
  <2>3. PagesOK'
    <3>1. DirEntries(f)
      BY <1>1, DirEntriesHold, EntryTypes
    <3>2. {0} \in SUBSET DirPages
      BY Bounds DEF DirPages
    <3> HIDE DEF f
    <3>3. \A e \in Inos : DirEntries(ents'[e]) /\ DirEntries(entsDisk'[e])
      BY <1>a, <1>b, <2>1, <3>1
    <3>4. pdirty' \in [Inos -> SUBSET DirPages]
      BY <1>b, <2>1, <3>2
    <3> QED
      BY <1>0, <2>1, <3>3, <3>4 DEF PagesOK, DirEntries
  <2>4. ThreadsOK'
    <3>1. op' = [op EXCEPT ![t] = op[t]] /\ "link" \in States
      BY <1>0, <2>1 DEF ThreadsOK, States
    <3> QED
      BY <1>0, <1>1, <2>1, <3>1, ThreadMoves
  <2> QED
    BY <1>0, <2>1, <2>2, <2>3, <2>4, TypeFrame DEF TypeInv
<1>4. CASE minix_add_link(t)
  <2>1. PICK s \in Room(d, name) : StoreEntry(t, s)
    BY <1>4 DEF minix_add_link
  <2>2. s \in Slots
    BY DEF Room
  <2> DEFINE e == Entry(i, name)
             n == IF s + 1 > size[d] THEN s + 1 ELSE size[d]
             z == idirty[d] \/ TRUE
             q == pdirty[d] \cup {PageOf(s)}
             f == [ents[d] EXCEPT ![s] = e]
  <2>3. /\ pc' = [pc EXCEPT ![t] = "idle"] /\ op' = [op EXCEPT ![t] = NoOp]
        /\ ents' = [ents EXCEPT ![d] = f] /\ pdirty' = [pdirty EXCEPT ![d] = q]
        /\ size' = [size EXCEPT ![d] = n] /\ idirty' = [idirty EXCEPT ![d] = z]
        /\ UNCHANGED <<incore, mode, nlink, entsDisk, tableVars, imapVars, reader, history>>
    BY <1>4, <2>1 DEF minix_add_link, StoreEntry, StoreUpTo
  <2>4. n \in Sizes /\ z \in BOOLEAN /\ q \in SUBSET DirPages /\ DirEntries(f)
    <3>1. n \in Sizes
      BY <1>0, <1>1, <2>2, SlotPage DEF InodesOK
    <3>2. q \in SUBSET DirPages
      BY <1>b, <1>1, <2>2, SlotPage
    <3>3. DirEntries(f)
      BY <1>a, <1>1, <1>2, DirEntriesHold, EntryTypes
    <3> QED
      BY <3>1, <3>2, <3>3
  <2> HIDE DEF n, z, q, f, d
  <2>5. InodesOK'
    BY <1>0, <1>1, <2>3, <2>4 DEF InodesOK
  <2>6. PagesOK'
    <3>1. \A k \in Inos : DirEntries(ents'[k]) /\ DirEntries(entsDisk'[k])
      BY <1>a, <1>b, <2>3, <2>4
    <3>2. pdirty' \in [Inos -> SUBSET DirPages]
      BY <1>b, <2>3, <2>4
    <3> QED
      BY <1>0, <2>3, <3>1, <3>2 DEF PagesOK, DirEntries
  <2>7. ThreadsOK'
    BY <1>0, <2>3, ThreadMoves DEF States
  <2> QED
    BY <1>0, <2>3, <2>5, <2>6, <2>7, TypeFrame DEF TypeInv
<1>5. CASE AddLinkFails(t)
  <2> DEFINE l == [nlink EXCEPT ![i] = 0]
             z == [idirty EXCEPT ![i] = FALSE]
             b == LinkBack(t)
  <2>1. /\ pc' = [pc EXCEPT ![t] = "failed"]
        /\ nlink' = [l EXCEPT ![d] = l[d] - b]
        /\ idirty' = [z EXCEPT ![d] = z[d] \/ b = 1]
        /\ incore' = [incore EXCEPT ![i] = FALSE]
        /\ ents' = [ents EXCEPT ![i] = NoEntries]
        /\ pdirty' = [pdirty EXCEPT ![i] = {}]
        /\ UNCHANGED <<mode, size, entsDisk, tableVars, imapVars, op, reader, history>>
    BY <1>5 DEF AddLinkFails
  <2>2. InodesOK'
    <3>1. l \in [Inos -> Int] /\ z \in [Inos -> BOOLEAN] /\ b \in Int
      BY <1>0, <1>1 DEF InodesOK, LinkBack
    <3> HIDE DEF l, z, b, d, i
    <3>2. l[d] - b \in Int /\ (z[d] \/ b = 1) \in BOOLEAN
      BY <1>1, <3>1
    <3> QED
      BY <1>0, <1>1, <2>1, <3>1, <3>2 DEF InodesOK
  <2>3. PagesOK'
    <3>1. \A k \in Inos : DirEntries(ents'[k]) /\ DirEntries(entsDisk'[k])
      BY <1>a, <1>b, <2>1, DirEntriesHold
    <3>2. pdirty' \in [Inos -> SUBSET DirPages]
      BY <1>b, <2>1
    <3> QED
      BY <1>0, <2>1, <3>1, <3>2 DEF PagesOK, DirEntries
  <2>4. ThreadsOK'
    <3>1. op' = [op EXCEPT ![t] = op[t]] /\ "failed" \in States /\ kind # "tmp"
      BY <1>0, <1>1, <2>1 DEF ThreadsOK, States
    <3> QED
      BY <1>0, <1>1, <2>1, <3>1, ThreadMoves
  <2> QED
    BY <1>0, <2>1, <2>2, <2>3, <2>4, TypeFrame DEF TypeInv
<1> QED
  BY <1>3, <1>4, <1>5

\* A call of readdir counts every name it emits.
LEMMA EmitTypes ==
  ASSUME TypeInv, NEW r \in Readers, NEW n
  PROVE  Emit(r, n) \in [Names -> Nat]
<1> DEFINE new == {s \in Searched(Root) : reader[r].pos <= s /\ s < n /\ ents[Root][s].ino # 0}
           of(name) == {s \in new : ents[Root][s].name = name}
<1>1. IsFiniteSet(Slots)
  BY FS_Interval, Bounds DEF Slots
<1>2. \A name : of(name) \subseteq Slots
  BY DEF Searched
<1>3. \A name : Cardinality(of(name)) \in Nat
  BY <1>1, <1>2, FS_Subset, FS_CardinalityType
<1>4. Emit(r, n) = [name \in Names |-> reader[r].seen[name] + Cardinality(of(name))]
  BY DEF Emit
<1>5. \A name \in Names : reader[r].seen[name] \in Nat
  BY DEF TypeInv, ReadersOK
<1> HIDE DEF of, new
<1> QED
  BY <1>3, <1>4, <1>5

\* Lookups, readers, write back, eviction and mounts.
LEMMA TypeRest ==
  ASSUME TypeInv,
         \/ \E d \in Parents, name \in Names : minix_lookup(d, name)
         \/ \E r \in Readers : Rewind(r) \/ \E n \in Sizes : minix_readdir(r, n)
         \/ \E i \in Inos : WriteInode(i) \/ EvictInode(i)
         \/ \E d \in Inos, n \in DirPages : WriteDirPage(d, n)
         \/ FlushTable \/ FlushInodeMap \/ Remount \/ Crash
  PROVE  TypeInv'
<1>0. InodesOK /\ PagesOK /\ TableOK /\ ImapOK /\ ThreadsOK /\ ReadersOK /\ HistoryOK
  BY DEF TypeInv
<1>a. \A e \in Inos : DirEntries(ents[e]) /\ DirEntries(entsDisk[e])
  BY <1>0, PagesByDir
<1>b. /\ pdirty \in [Inos -> SUBSET DirPages]
      /\ ents \in [Inos -> [Slots -> Entries]] /\ entsDisk \in [Inos -> [Slots -> Entries]]
  BY <1>0 DEF PagesOK
<1>c. Rewound \in [pos : Sizes, seen : [Names -> Nat], start : SUBSET Names]
  BY FirstOnes DEF Rewound
<1>1. ASSUME NEW d \in Parents, NEW name \in Names, minix_lookup(d, name)
      PROVE  TypeInv'
  <2> DEFINE i == minix_inode_by_name(d, name)
             f == Loaded(i, table[i].size)
  <2>1. /\ i \in Inos
        /\ incore' = [incore EXCEPT ![i] = TRUE]
        /\ mode' = [mode EXCEPT ![i] = table[i].mode]
        /\ size' = [size EXCEPT ![i] = table[i].size]
        /\ nlink' = [nlink EXCEPT ![i] = 1]
        /\ ents' = [ents EXCEPT ![i] = f]
        /\ UNCHANGED <<idirty, pdirty, entsDisk, tableVars, imapVars, pc, op, reader, history>>
    BY <1>1 DEF minix_lookup
  <2> HIDE DEF i
  <2>2. table[i].mode \in Modes /\ table[i].size \in Sizes /\ DirEntries(f)
    BY <1>0, <2>1, LoadedHolds DEF TableOK, Records
  <2> HIDE DEF f
  <2>3. InodesOK'
    BY <1>0, <2>1, <2>2 DEF InodesOK
  <2>4. PagesOK'
    <3>1. \A k \in Inos : DirEntries(ents'[k]) /\ DirEntries(entsDisk'[k])
      BY <1>a, <1>b, <2>1, <2>2
    <3> QED
      BY <1>0, <2>1, <3>1 DEF PagesOK, DirEntries
  <2> QED
    BY <1>0, <2>1, <2>3, <2>4, TypeFrame DEF TypeInv
<1>2. ASSUME NEW r \in Readers, Rewind(r)
      PROVE  TypeInv'
  <2>1. ReadersOK'
    BY <1>0, <1>2, <1>c DEF Rewind, ReadersOK
  <2> QED
    BY <1>0, <1>2, <2>1, TypeFrame DEF TypeInv, Rewind
<1>3. ASSUME NEW r \in Readers, NEW n \in Sizes, minix_readdir(r, n)
      PROVE  TypeInv'
  <2> DEFINE b == IF reader[r].pos = 0 THEN NamesIn(Root) ELSE reader[r].start
             o == [pos |-> n, seen |-> Emit(r, n), start |-> b]
  <2>1. b \in SUBSET Names
    BY <1>0 DEF ReadersOK, NamesIn
  <2>2. reader' = [reader EXCEPT ![r] = o]
    BY <1>3 DEF minix_readdir
  <2>3. o \in [pos : Sizes, seen : [Names -> Nat], start : SUBSET Names]
    BY <2>1, EmitTypes
  <2> HIDE DEF b, o
  <2>4. ReadersOK'
    BY <1>0, <2>2, <2>3 DEF ReadersOK
  <2> QED
    BY <1>0, <1>3, <2>4, TypeFrame DEF TypeInv, minix_readdir
<1>4. ASSUME NEW i \in Inos, WriteInode(i)
      PROVE  TypeInv'
  <2>1. InodesOK'
    BY <1>0, <1>4 DEF WriteInode, InodesOK
  <2>2. TableOK'
    <3>1. [mode |-> mode[i], size |-> size[i]] \in Records
      BY <1>0 DEF InodesOK, Records
    <3> QED
      BY <1>0, <1>4, <3>1 DEF WriteInode, TableOK
  <2> QED
    BY <1>0, <1>4, <2>1, <2>2, TypeFrame DEF TypeInv, WriteInode
<1>5. ASSUME NEW i \in Inos, EvictInode(i)
      PROVE  TypeInv'
  <2>1. InodesOK'
    BY <1>0, <1>5 DEF EvictInode, InodesOK
  <2>2. PagesOK'
    <3>1. \A k \in Inos : DirEntries(ents'[k]) /\ DirEntries(entsDisk'[k])
      BY <1>a, <1>b, <1>5, DirEntriesHold DEF EvictInode
    <3> QED
      BY <1>0, <1>5, <3>1 DEF PagesOK, DirEntries, EvictInode
  <2> QED
    BY <1>0, <1>5, <2>1, <2>2, TypeFrame DEF TypeInv, EvictInode
<1>6. ASSUME NEW d \in Inos, NEW n \in DirPages, WriteDirPage(d, n)
      PROVE  TypeInv'
  <2> DEFINE f == [s \in Slots |-> IF PageOf(s) = n THEN ents[d][s] ELSE entsDisk[d][s]]
  <2>1. /\ entsDisk' = [entsDisk EXCEPT ![d] = f]
        /\ pdirty' = [pdirty EXCEPT ![d] = @ \ {n}] /\ ents' = ents
    BY <1>6 DEF WriteDirPage
  <2>2. DirEntries(f)
    BY <1>a DEF DirEntries, EntryOK
  <2> HIDE DEF f
  <2>3. PagesOK'
    <3>1. \A k \in Inos : DirEntries(ents'[k]) /\ DirEntries(entsDisk'[k])
      BY <1>a, <1>b, <2>1, <2>2
    <3>2. pdirty' \in [Inos -> SUBSET DirPages]
      BY <1>b, <2>1
    <3> QED
      BY <1>0, <2>1, <3>1, <3>2 DEF PagesOK, DirEntries
  <2> QED
    BY <1>0, <1>6, <2>3, TypeFrame DEF TypeInv, WriteDirPage
<1>7. CASE FlushTable
  <2>1. TableOK'
    BY <1>0, <1>7 DEF FlushTable, TableOK
  <2> QED
    BY <1>0, <1>7, <2>1, TypeFrame DEF TypeInv, FlushTable
<1>8. CASE FlushInodeMap
  <2>1. ImapOK'
    BY <1>0, <1>8 DEF FlushInodeMap, ImapOK
  <2> QED
    BY <1>0, <1>8, <2>1, TypeFrame DEF TypeInv, FlushInodeMap
<1>9. LoseMemory => InodesOK' /\ PagesOK' /\ TableOK' /\ ImapOK' /\ ReadersOK'
  <2> SUFFICES ASSUME LoseMemory PROVE InodesOK' /\ PagesOK' /\ TableOK' /\ ImapOK' /\ ReadersOK'
    OBVIOUS
  <2> DEFINE n == tableDisk[Root].size
  <2>1. n \in Sizes /\ tableDisk[Root].mode \in Modes /\ DirEntries(Loaded(Root, n))
    BY <1>0, FirstOnes, LoadedHolds DEF TableOK, Records
  <2>2. InodesOK'
    <3>1. incore' \in [Inos -> BOOLEAN] /\ idirty' \in [Inos -> BOOLEAN] /\ nlink' \in [Inos -> Int]
      BY DEF LoseMemory
    <3>2. size' \in [Inos -> Sizes]
      BY <2>1, FirstOnes DEF LoseMemory
    <3>3. mode' \in [Inos -> Modes]
      BY <2>1 DEF LoseMemory, Modes
    <3> QED
      BY <3>1, <3>2, <3>3 DEF InodesOK
  <2>3. PagesOK'
    <3>1. ents' = [d \in Inos |-> IF d = Root THEN Loaded(Root, n) ELSE NoEntries] /\ entsDisk' = entsDisk
      BY DEF LoseMemory
    <3> HIDE DEF n
    <3>2. \A k \in Inos : DirEntries(ents'[k]) /\ DirEntries(entsDisk'[k])
      BY <1>a, <2>1, <3>1, DirEntriesHold
    <3>3. pdirty' \in [Inos -> SUBSET DirPages]
      BY DEF LoseMemory
    <3> QED
      BY <1>0, <3>1, <3>2, <3>3 DEF PagesOK, DirEntries
  <2>4. TableOK' /\ ImapOK'
    BY <1>0 DEF LoseMemory, TableOK, ImapOK
  <2>5. ReadersOK'
    BY <1>c DEF LoseMemory, ReadersOK
  <2> QED
    BY <2>2, <2>3, <2>4, <2>5
<1>10. CASE Remount
  BY <1>0, <1>9, <1>10, TypeFrame DEF Remount, TypeInv
<1>11. CASE Crash
  <2>1. ThreadsOK'
    BY <1>11, Zenon DEF Crash, ThreadsOK, CallOK, States
  <2>2. HistoryOK'
    <3>1. crashes' \in 0 .. MaxCrashes /\ crashes' # 0
      BY <1>0, <1>11, DirAssumption DEF Crash, HistoryOK
    <3>2. lost' \in BOOLEAN
      BY <1>11 DEF Crash
    <3> QED
      BY <3>1, <3>2, Zenon DEF HistoryOK
  <2> QED
    BY <1>0, <1>9, <1>11, <2>1, <2>2 DEF Crash, TypeInv
<1> QED
  BY <1>1, <1>2, <1>3, <1>4, <1>5, <1>6, <1>7, <1>8, <1>10, <1>11

\* Nothing happens.
LEMMA TypeStutter == TypeInv /\ UNCHANGED vars => TypeInv'
  BY TypeFrame DEF TypeInv, vars

\* Every step keeps TypeInv.
LEMMA TypeInvNext == TypeInv /\ [Next]_vars => TypeInv'
<1> SUFFICES ASSUME TypeInv, [Next]_vars PROVE TypeInv'
  OBVIOUS
<1>1. CASE UNCHANGED vars
  BY <1>1, TypeStutter
<1>2. CASE Next
  BY <1>2, TypeCalls, TypeLinks, TypeRest DEF Next, ThreadStep
<1> QED
  BY <1>1, <1>2

\* The types hold always, whatever a crash loses.
LEMMA TypeInvHolds == Spec => []TypeInv
  BY TypeInvInit, TypeInvNext, PTL DEF Spec

\* minix_add_link never gets to its BUG(): in every reachable state, after any
\* crashes, the search of a thread that is about to store its entry stops at
\* i_size at the latest, or every page that can be mapped is full and
\* aufs_get_block fails.
THEOREM AddLinkReachesNoBug == Spec => []AddLinkNoBug
<1>1. TypeInv => AddLinkNoBug
  <2> SUFFICES ASSUME TypeInv, NEW t \in Threads, pc[t] = "link"
               PROVE  AddLinkStops(op[t].d, op[t].name) # {} \/ NoPageLeft(op[t].d)
    BY DEF AddLinkNoBug
  <2>1. op[t].d \in Inos
    BY CallDir DEF TypeInv
  <2>2. size[op[t].d] \in Sizes
    BY <2>1 DEF TypeInv, InodesOK
  <2> QED
    BY <2>2, StopsAtEnd
<1> QED
  BY <1>1, TypeInvHolds, PTL
-----------------------------------------------------------------------------
(***************************************************************************)
(* Who uses an inode number: UseInv                                        *)
(***************************************************************************)
\* A step after which no entry names an inode that it did not.
NoNewName == \A i, d \in Inos, s \in Slots : NamedBy(d, s, i)' => NamedBy(d, s, i)

\* A step after which no thread holds an inode that it did not.
NoNewHolder == \A i \in Inos, t \in Threads : Holds(t, i)' => Holds(t, i)

\* Such a step keeps UseInv, if it leaves the inode map alone and brings no unmarked
\* inode into memory.
LEMMA UseKept ==
  ASSUME UseInv, NoNewName, NoNewHolder,
         imap' = imap, imapDirty' \/ imapDisk' = imap',
         \A i \in Inos : incore'[i] => i \in imap
  PROVE  UseInv'
<1>1. /\ Root \in imap' /\ (imapDirty' \/ imapDisk' = imap')
      /\ \A i \in Inos : incore'[i] => i \in imap'
  BY DEF UseInv
<1>2. /\ \A i, d \in Inos, s \in Slots : NamedBy(d, s, i)' => i \in imap'
      /\ \A i \in Inos, t \in Threads : Holds(t, i)' => i \in imap'
  BY DEF UseInv, NoNewName, NoNewHolder
<1>3. \A i, d, e \in Inos, s, r \in Slots : NamedBy(d, s, i)' /\ NamedBy(e, r, i)' => d = e /\ s = r
  BY DEF UseInv, NoNewName
<1>4. \A i \in Inos, t, u \in Threads : Holds(t, i)' /\ Holds(u, i)' => t = u
  BY DEF UseInv, NoNewHolder
<1>5. \A i, d \in Inos, s \in Slots, t \in Threads : ~(Holds(t, i)' /\ NamedBy(d, s, i)')
  BY DEF UseInv, NoNewName, NoNewHolder
<1> QED
  BY <1>1, <1>2, <1>3, <1>4, <1>5 DEF UseInv

\* Entries that come from the device, or are no name of the workload, add no name.
LEMMA EntriesKept ==
  ASSUME \A d \in Inos, s \in Slots :
           /\ \/ ents'[d][s] = ents[d][s] \/ ents'[d][s] = entsDisk[d][s]
              \/ ents'[d][s].name \notin Names
           /\ entsDisk'[d][s] = ents[d][s] \/ entsDisk'[d][s] = entsDisk[d][s]
  PROVE  NoNewName
  BY DEF NoNewName, NamedBy

\* A thread that moves on in its call, or returns, holds nothing new.
LEMMA HoldersKept ==
  ASSUME ThreadsOK, NEW t \in Threads, NEW p, NEW o,
         pc' = [pc EXCEPT ![t] = p], op' = [op EXCEPT ![t] = o],
         \/ p \in {"idle", "new", "oops"}
         \/ o.ino = 0
         \/ pc[t] \in {"empty", "link", "open"} /\ o.ino = op[t].ino
  PROVE  NoNewHolder
<1> SUFFICES ASSUME NEW i \in Inos, NEW u \in Threads, Holds(u, i)' PROVE Holds(u, i)
  BY DEF NoNewHolder
<1>0. i # 0
  BY FirstOnes
<1>1. CASE u = t
  <2>1. pc'[u] = p /\ op'[u] = o
    BY <1>1 DEF ThreadsOK
  <2>2. p \in {"empty", "link", "open", "failed"} /\ o.ino = i
    BY <2>1 DEF Holds
  <2>3. pc[t] \in {"empty", "link", "open"} /\ op[t].ino = i
    BY <1>0, <2>2
  <2> QED
    BY <1>1, <2>3 DEF Holds
<1>2. CASE u # t
  <2>1. pc'[u] = pc[u] /\ op'[u] = op[u]
    BY <1>2 DEF ThreadsOK
  <2> QED
    BY <2>1 DEF Holds
<1> QED
  BY <1>1, <1>2

\* What leaves pages, or threads, alone adds no name, or no holder.
LEMMA UseFrame ==
  /\ UNCHANGED <<ents, entsDisk>> => NoNewName
  /\ UNCHANGED <<pc, op>> => NoNewHolder
  BY DEF NoNewName, NoNewHolder, NamedBy, Holds

\* minix_find_entry: the number of an entry before i_size that has the name, or 0
\* if there is none.
LEMMA FoundByName ==
  ASSUME TypeInv, NEW d \in Inos, NEW name \in Names
  PROVE  LET i == minix_inode_by_name(d, name)
         IN /\ i # 0 => \E s \in Searched(d) : Matches(d, s, name) /\ ents[d][s].ino = i
            /\ i = 0 => name \notin NamesIn(d)
<1> DEFINE found == {s \in Searched(d) : Matches(d, s, name)}
           i == minix_inode_by_name(d, name)
<1>1. CASE found = {}
  <2>1. i = 0
    BY <1>1 DEF minix_inode_by_name
  <2>2. name \notin NamesIn(d)
    BY <1>1 DEF NamesIn, Matches
  <2> QED
    BY <2>1, <2>2
<1>2. CASE found # {}
  <2>1. found \subseteq Nat
    BY FirstOnes DEF Searched
  <2>2. \E s \in found : \A r \in found : s <= r
    BY <1>2, <2>1, LeastExists
  <2>3. i = ents[d][Least(found)].ino
    BY <1>2 DEF minix_inode_by_name
  <2> HIDE DEF found
  <2>4. Least(found) \in found
    BY <2>2, Zenon DEF Least
  <2>5. Least(found) \in Searched(d) /\ Matches(d, Least(found), name)
    BY <2>4 DEF found
  <2> HIDE DEF i
  <2>6. i # 0
    BY <2>3, <2>5 DEF Matches
  <2> QED
    BY <2>3, <2>5, <2>6 DEF i
<1> QED
  BY <1>1, <1>2

\* The entries that a mount, or a lookup, reads.
LEMMA LoadedNames ==
  ASSUME NEW d, NEW n, NEW s \in Slots
  PROVE  Loaded(d, n)[s] = entsDisk[d][s] \/ Loaded(d, n)[s].name \notin Names
<1>1. NoEntry.name \notin Names
  BY EntryTypes, OwnNames DEF NoEntry
<1> QED
  BY <1>1 DEF Loaded

\* Memory is lost, and with it at most names that are not on the device.
LEMMA MountNames ==
  ASSUME LoseMemory
  PROVE  NoNewName
<1>1. \A s \in Slots : NoEntries[s].name \notin Names
  BY EntryTypes, OwnNames DEF NoEntry, NoEntries
<1>2. /\ ents' = [d \in Inos |-> IF d = Root THEN Loaded(Root, tableDisk[Root].size) ELSE NoEntries]
      /\ entsDisk' = entsDisk
  BY DEF LoseMemory
<1>3. \A d \in Inos, s \in Slots : ents'[d][s] = entsDisk[d][s] \/ ents'[d][s].name \notin Names
  BY <1>1, <1>2, LoadedNames
<1> QED
  BY <1>2, <1>3, EntriesKept

\* Only minix_add_link adds a name.
LEMMA NamesKept ==
  ASSUME TypeInv,
         \/ \E t \in Threads : minix_make_empty(t) \/ AddLinkFails(t)
         \/ \E d \in Parents, name \in Names : minix_lookup(d, name)
         \/ \E i \in Inos : EvictInode(i)
         \/ \E d \in Inos, n \in DirPages : WriteDirPage(d, n)
         \/ Remount \/ Crash
         \/ UNCHANGED <<ents, entsDisk>>
  PROVE  NoNewName
<1>0. PagesOK
  BY DEF TypeInv
<1>a. NoEntry.name \notin Names
  BY EntryTypes, OwnNames DEF NoEntry
<1>b. \A s \in Slots : NoEntries[s].name \notin Names
  BY <1>a DEF NoEntries
<1>1. ASSUME NEW t \in Threads, minix_make_empty(t)
      PROVE  NoNewName
  <2> DEFINE i == op[t].ino
             f == [NoEntries EXCEPT ![0] = Entry(i, "."), ![1] = Entry(op[t].d, "..")]
  <2>1. ents' = [ents EXCEPT ![i] = f] /\ entsDisk' = entsDisk
    BY <1>1 DEF minix_make_empty
  <2>2. \A s \in Slots : f[s].name \notin Names
    <3>1. Entry(i, ".").name \notin Names /\ Entry(op[t].d, "..").name \notin Names
      BY EntryTypes, OwnNames
    <3>2. \A s \in Slots : f[s] \in {NoEntry, Entry(i, "."), Entry(op[t].d, "..")}
      BY FirstOnes DEF NoEntries
    <3> HIDE DEF f
    <3> QED
      BY <1>a, <3>1, <3>2
  <2> HIDE DEF f, i
  <2>3. \A d \in Inos, s \in Slots : ents'[d][s] = ents[d][s] \/ ents'[d][s].name \notin Names
    BY <1>0, <2>1, <2>2 DEF PagesOK
  <2> QED
    BY <2>1, <2>3, EntriesKept
<1>2. ASSUME NEW t \in Threads, AddLinkFails(t)
      PROVE  NoNewName
  <2>1. ents' = [ents EXCEPT ![op[t].ino] = NoEntries] /\ entsDisk' = entsDisk
    BY <1>2 DEF AddLinkFails
  <2>2. \A d \in Inos, s \in Slots : ents'[d][s] = ents[d][s] \/ ents'[d][s].name \notin Names
    BY <1>0, <1>b, <2>1 DEF PagesOK
  <2> QED
    BY <2>1, <2>2, EntriesKept
<1>3. ASSUME NEW d \in Parents, NEW name \in Names, minix_lookup(d, name)
      PROVE  NoNewName
  <2> DEFINE i == minix_inode_by_name(d, name)
  <2>1. ents' = [ents EXCEPT ![i] = Loaded(i, table[i].size)] /\ entsDisk' = entsDisk
    BY <1>3 DEF minix_lookup
  <2> HIDE DEF i
  <2>2. \A k \in Inos, r \in Slots :
          \/ ents'[k][r] = ents[k][r] \/ ents'[k][r] = entsDisk[k][r] \/ ents'[k][r].name \notin Names
    BY <1>0, <2>1, LoadedNames DEF PagesOK
  <2> QED
    BY <2>1, <2>2, EntriesKept
<1>4. ASSUME NEW i \in Inos, EvictInode(i)
      PROVE  NoNewName
  <2>1. ents' = [ents EXCEPT ![i] = NoEntries] /\ entsDisk' = entsDisk
    BY <1>4 DEF EvictInode
  <2>2. \A d \in Inos, s \in Slots : ents'[d][s] = ents[d][s] \/ ents'[d][s].name \notin Names
    BY <1>0, <1>b, <2>1 DEF PagesOK
  <2> QED
    BY <2>1, <2>2, EntriesKept
<1>5. ASSUME NEW d \in Inos, NEW n \in DirPages, WriteDirPage(d, n)
      PROVE  NoNewName
  <2> DEFINE f == [s \in Slots |-> IF PageOf(s) = n THEN ents[d][s] ELSE entsDisk[d][s]]
  <2>1. entsDisk' = [entsDisk EXCEPT ![d] = f] /\ ents' = ents
    BY <1>5 DEF WriteDirPage
  <2>2. \A k \in Inos, s \in Slots : entsDisk'[k][s] = ents[k][s] \/ entsDisk'[k][s] = entsDisk[k][s]
    BY <1>0, <2>1 DEF PagesOK
  <2> QED
    BY <2>1, <2>2, EntriesKept
<1>6. CASE Remount \/ Crash
  BY <1>6, MountNames DEF Remount, Crash
<1>7. CASE UNCHANGED <<ents, entsDisk>>
  BY <1>7, UseFrame
<1> QED
  BY <1>1, <1>2, <1>3, <1>4, <1>5, <1>6, <1>7

\* minix_add_link adds one, that of the call's new inode.
LEMMA NamesAdded ==
  ASSUME TypeInv, NEW t \in Threads, minix_add_link(t)
  PROVE  \E s \in Slots : \A i, d \in Inos, r \in Slots :
           NamedBy(d, r, i)' => NamedBy(d, r, i) \/ (d = op[t].d /\ r = s /\ i = op[t].ino)
<1> DEFINE d == op[t].d
           i == op[t].ino
           e == Entry(i, op[t].name)
<1>1. PICK s \in Slots : ents' = [ents EXCEPT ![d][s] = e]
  BY DEF minix_add_link, StoreEntry, StoreUpTo, Room
<1>2. entsDisk' = entsDisk /\ pc[t] = "link" /\ PagesOK
  BY DEF minix_add_link, TypeInv
<1>3. d \in Inos /\ e.ino = i
  BY <1>2, CallDir, EntryTypes DEF TypeInv
<1> HIDE DEF d, e
<1>4. \A c \in Inos, r \in Slots : ents'[c][r] = IF c = d /\ r = s THEN e ELSE ents[c][r]
  BY <1>1, <1>2, <1>3 DEF PagesOK
<1>5. \A k, c \in Inos, r \in Slots : NamedBy(c, r, k)' => NamedBy(c, r, k) \/ (c = d /\ r = s /\ k = i)
  BY <1>2, <1>3, <1>4 DEF NamedBy
<1> QED
  BY <1>5 DEF d

\* A formatted device has no names.
LEMMA InitUnnamed ==
  ASSUME Init
  PROVE  \A d \in Inos, s \in Slots : ents[d][s].name \notin Names /\ entsDisk[d][s].name \notin Names
<1>1. /\ entsDisk = [d \in Inos |-> IF d = Root THEN MkRootDir ELSE NoEntries]
      /\ ents = [d \in Inos |-> IF d = Root THEN Loaded(Root, 2) ELSE NoEntries]
      /\ Root \in Inos
  BY FirstOnes DEF Init
<1>2. \A s \in Slots : NoEntries[s].name \notin Names /\ MkRootDir[s].name \notin Names
  <2>1. NoEntry.name \notin Names
    BY EntryTypes, OwnNames DEF NoEntry
  <2> DEFINE e0 == Entry(BigEndian(1), ".")
             e1 == Entry(BigEndian(1), "..")
             e2 == Entry(BigEndian(2), ".badblocks")
  <2>2. e0.name \notin Names /\ e1.name \notin Names /\ e2.name \notin Names
    BY EntryTypes, OwnNames
  <2>3. MkRootDir = [s \in Slots |-> IF s = 0 THEN e0 ELSE IF s = 1 THEN e1
                      ELSE IF s = 2 /\ PerPage > 2 THEN e2 ELSE NoEntry]
    BY FirstOnes DEF MkRootDir
  <2> HIDE DEF e0, e1, e2
  <2> QED
    BY <2>1, <2>2, <2>3 DEF NoEntries
<1>3. \A d \in Inos, s \in Slots : entsDisk[d][s].name \notin Names
  BY <1>1, <1>2
<1>4. NoEntry.name \notin Names
  BY EntryTypes, OwnNames DEF NoEntry
<1>5. \A s \in Slots : Loaded(Root, 2)[s].name \notin Names
  BY <1>1, <1>3, <1>4 DEF Loaded
<1>6. \A d \in Inos, s \in Slots : ents[d][s].name \notin Names
  BY <1>1, <1>2, <1>5
<1> QED
  BY <1>3, <1>6

\* A formatted device: no name of the workload, and one inode.
LEMMA UseInvInit == Init => UseInv
<1> SUFFICES ASSUME Init PROVE UseInv
  OBVIOUS
<1>1. /\ imap = {Root} /\ imapDisk = imap /\ Root \in Inos
      /\ incore = [i \in Inos |-> i = Root]
      /\ pc = [t \in Threads |-> "idle"]
  BY FirstOnes DEF Init
<1>2. \A i, d \in Inos, s \in Slots : ~NamedBy(d, s, i)
  BY InitUnnamed DEF NamedBy
<1>3. \A i \in Inos, t \in Threads : ~Holds(t, i)
  BY <1>1 DEF Holds
<1>4. Root \in imap /\ imapDisk = imap /\ \A i \in Inos : incore[i] => i \in imap
  BY <1>1
<1> QED
  BY <1>2, <1>3, <1>4 DEF UseInv

\* The steps of the calls.
LEMMA UseCalls ==
  ASSUME TypeInv, UseInv, NEW t \in Threads,
         \/ \E d \in Parents, name \in Names, kind \in Kinds \ {"tmp"} : CallCreate(t, d, name, kind)
         \/ \E d \in Parents : CallTmpfile(t, d)
         \/ ThreadStep(t)
  PROVE  UseInv'
<1>0. InodesOK /\ PagesOK /\ ThreadsOK /\ ImapOK
  BY DEF TypeInv
<1>a. imapDirty \/ imapDisk = imap
  BY DEF UseInv
<1>b. \A i \in Inos : incore[i] => i \in imap
  BY DEF UseInv
<1>1. ASSUME NEW d \in Parents, NEW name \in Names, NEW kind \in Kinds \ {"tmp"},
             CallCreate(t, d, name, kind)
      PROVE  UseInv'
  <2>1. /\ pc' = [pc EXCEPT ![t] = "new"]
        /\ op' = [op EXCEPT ![t] = [kind |-> kind, d |-> d, name |-> name, ino |-> 0,
                              links |-> nlink[d], size |-> size[d], names |-> NamesIn(d)]]
        /\ UNCHANGED <<incore, ents, entsDisk, imap, imapDirty, imapDisk>>
    BY <1>1 DEF CallCreate, pageVars, imapVars
  <2>2. NoNewHolder /\ NoNewName
    BY <1>0, <2>1, HoldersKept, UseFrame
  <2> QED
    BY <1>a, <1>b, <2>1, <2>2, UseKept
<1>2. ASSUME NEW d \in Parents, CallTmpfile(t, d)
      PROVE  UseInv'
  <2>1. /\ pc' = [pc EXCEPT ![t] = "new"]
        /\ op' = [op EXCEPT ![t] = [kind |-> "tmp", d |-> d, ino |-> 0]]
        /\ UNCHANGED <<incore, ents, entsDisk, imap, imapDirty, imapDisk>>
    BY <1>2 DEF CallTmpfile, pageVars, imapVars, inodeVars
  <2>2. NoNewHolder /\ NoNewName
    BY <1>0, <2>1, HoldersKept, UseFrame
  <2> QED
    BY <1>a, <1>b, <2>1, <2>2, UseKept
<1>3. CASE NewInode(t)
  <2>1. PICK i \in Inos \ imap :
          /\ imap' = imap \cup {i} /\ imapDirty' = (imapDirty \/ TRUE)
          /\ incore' = [incore EXCEPT ![i] = TRUE]
          /\ op' = [op EXCEPT ![t].ino = i]
    BY <1>3 DEF NewInode, TakeInode
  <2>2. /\ UNCHANGED <<ents, entsDisk>> /\ \E p : pc' = [pc EXCEPT ![t] = p]
    BY <1>3 DEF NewInode, TakeInode, pageVars
  <2>3. \A u \in Threads : u # t => pc'[u] = pc[u] /\ op'[u] = op[u]
    BY <1>0, <2>1, <2>2 DEF ThreadsOK
  <2>4. op[t] \in CreateCalls \cup TmpCalls
    BY <1>0, <1>3, CallDir DEF NewInode, TakeInode
  <2>5. op'[t].ino = i
    BY <1>0, <2>1, <2>4, CallWithInode DEF ThreadsOK
  <2>6. \A k \in Inos, u \in Threads : Holds(u, k)' => (Holds(u, k) /\ u # t) \/ (u = t /\ k = i)
    BY <2>3, <2>5 DEF Holds
  <2>7. \A k, d \in Inos, s \in Slots : NamedBy(d, s, k)' <=> NamedBy(d, s, k)
    BY <2>2 DEF NamedBy
  <2>8. /\ \A d \in Inos, s \in Slots : ~NamedBy(d, s, i)
        /\ \A u \in Threads : ~Holds(u, i)
    BY <2>1 DEF UseInv
  <2>9. /\ Root \in imap' /\ imapDirty'
        /\ \A k \in Inos : incore'[k] => k \in imap'
    BY <1>0, <1>b, <2>1 DEF UseInv, InodesOK
  <2>10. /\ \A k, d \in Inos, s \in Slots : NamedBy(d, s, k)' => k \in imap'
         /\ \A k \in Inos, u \in Threads : Holds(u, k)' => k \in imap'
    BY <2>1, <2>6, <2>7 DEF UseInv
  <2>11. \A k, d, e \in Inos, s, r \in Slots : NamedBy(d, s, k)' /\ NamedBy(e, r, k)' => d = e /\ s = r
    BY <2>7 DEF UseInv
  <2>12. \A k \in Inos, u, v \in Threads : Holds(u, k)' /\ Holds(v, k)' => u = v
    BY <2>6, <2>8 DEF UseInv
  <2>13. \A k, d \in Inos, s \in Slots, u \in Threads : ~(Holds(u, k)' /\ NamedBy(d, s, k)')
    BY <2>6, <2>7, <2>8 DEF UseInv
  <2> QED
    BY <2>9, <2>10, <2>11, <2>12, <2>13 DEF UseInv
<1>4. CASE NewInodeFull(t)
  <2>1. /\ UNCHANGED <<incore, ents, entsDisk, imap, imapDirty, imapDisk>> /\ pc[t] = "new"
        /\ \E p : pc' = [pc EXCEPT ![t] = p]
        /\ op' = op \/ (op' = [op EXCEPT ![t] = NoOp] /\ pc' = [pc EXCEPT ![t] = "idle"])
    BY <1>4 DEF NewInodeFull, pageVars, imapVars
  <2>2. op[t].ino = 0 /\ op = [op EXCEPT ![t] = op[t]]
    BY <1>0, <2>1 DEF ThreadsOK, CallOK
  <2>3. NoNewHolder
    BY <1>0, <2>1, <2>2, HoldersKept
  <2> QED
    BY <1>a, <1>b, <2>1, <2>3, UseFrame, UseKept
<1>5. CASE CloseTmpfile(t)
  <2>1. /\ UNCHANGED <<ents, entsDisk, imap, imapDirty, imapDisk>>
        /\ pc' = [pc EXCEPT ![t] = "idle"] /\ op' = [op EXCEPT ![t] = NoOp]
        /\ incore' = [incore EXCEPT ![op[t].ino] = FALSE]
    BY <1>5 DEF CloseTmpfile, pageVars, imapVars
  <2>2. NoNewHolder
    BY <1>0, <2>1, HoldersKept
  <2>3. \A i \in Inos : incore'[i] => i \in imap
    BY <1>0, <1>b, <2>1 DEF InodesOK
  <2> QED
    BY <1>a, <2>1, <2>2, <2>3, UseFrame, UseKept
<1>6. CASE minix_make_empty(t)
  <2>1. /\ UNCHANGED <<incore, imap, imapDirty, imapDisk, op>>
        /\ pc[t] = "empty" /\ pc' = [pc EXCEPT ![t] = "link"]
    BY <1>6 DEF minix_make_empty, imapVars
  <2>2. NoNewHolder
    <3>1. op' = [op EXCEPT ![t] = op[t]]
      BY <1>0, <2>1 DEF ThreadsOK
    <3> QED
      BY <1>0, <2>1, <3>1, HoldersKept
  <2> QED
    BY <1>a, <1>b, <1>6, <2>1, <2>2, NamesKept, UseKept
<1>7. CASE minix_add_link(t)
  <2> DEFINE d == op[t].d
             i == op[t].ino
  <2>1. /\ pc[t] = "link" /\ pc' = [pc EXCEPT ![t] = "idle"] /\ op' = [op EXCEPT ![t] = NoOp]
        /\ UNCHANGED <<incore, imap, imapDirty, imapDisk>>
    BY <1>7 DEF minix_add_link, imapVars
  <2>2. PICK s \in Slots : \A k, c \in Inos, r \in Slots :
          NamedBy(c, r, k)' => NamedBy(c, r, k) \/ (c = d /\ r = s /\ k = i)
    BY <1>7, NamesAdded
  <2>3. i \in Inos
    BY <1>0, <2>1 DEF ThreadsOK, CallOK
  <2>4. \A k \in Inos, u \in Threads : Holds(u, k)' => Holds(u, k) /\ u # t
    <3>1. pc'[t] = "idle"
      BY <1>0, <2>1 DEF ThreadsOK
    <3>2. \A u \in Threads : u # t => pc'[u] = pc[u] /\ op'[u] = op[u]
      BY <1>0, <2>1 DEF ThreadsOK
    <3> QED
      BY <3>1, <3>2 DEF Holds
  <2>5. Holds(t, i)
    BY <2>1 DEF Holds
  <2> HIDE DEF i, d
  <2>6. /\ \A c \in Inos, r \in Slots : ~NamedBy(c, r, i)
        /\ \A u \in Threads : u # t => ~Holds(u, i)
        /\ i \in imap
    BY <2>3, <2>5 DEF UseInv
  <2>7. /\ \A k, c \in Inos, r \in Slots : NamedBy(c, r, k)' => k \in imap'
        /\ \A k \in Inos, u \in Threads : Holds(u, k)' => k \in imap'
    BY <2>1, <2>2, <2>4, <2>6 DEF UseInv
  <2>8. \A k, c, x \in Inos, r, q \in Slots : NamedBy(c, r, k)' /\ NamedBy(x, q, k)' => c = x /\ r = q
    BY <2>2, <2>6 DEF UseInv
  <2>9. \A k \in Inos, u, v \in Threads : Holds(u, k)' /\ Holds(v, k)' => u = v
    BY <2>4 DEF UseInv
  <2>10. \A k, c \in Inos, r \in Slots, u \in Threads : ~(Holds(u, k)' /\ NamedBy(c, r, k)')
    BY <2>2, <2>4, <2>6 DEF UseInv
  <2>11. Root \in imap' /\ (imapDirty' \/ imapDisk' = imap') /\ \A k \in Inos : incore'[k] => k \in imap'
    BY <2>1 DEF UseInv
  <2> QED
    BY <2>7, <2>8, <2>9, <2>10, <2>11 DEF UseInv
<1>8. CASE AddLinkFails(t)
  <2>1. /\ UNCHANGED <<imap, imapDirty, imapDisk, op>>
        /\ pc[t] = "link" /\ pc' = [pc EXCEPT ![t] = "failed"]
        /\ incore' = [incore EXCEPT ![op[t].ino] = FALSE]
    BY <1>8 DEF AddLinkFails, imapVars
  <2>2. NoNewHolder
    <3>1. op' = [op EXCEPT ![t] = op[t]]
      BY <1>0, <2>1 DEF ThreadsOK
    <3> QED
      BY <1>0, <2>1, <3>1, HoldersKept
  <2>3. \A i \in Inos : incore'[i] => i \in imap
    BY <1>0, <1>b, <2>1 DEF InodesOK
  <2> QED
    BY <1>a, <1>8, <2>1, <2>2, <2>3, NamesKept, UseKept
<1>9. CASE ReturnError(t)
  <2>1. /\ UNCHANGED <<incore, ents, entsDisk, imap, imapDirty, imapDisk>>
        /\ pc' = [pc EXCEPT ![t] = "idle"] /\ op' = [op EXCEPT ![t] = NoOp]
    BY <1>9 DEF ReturnError, pageVars, imapVars, inodeVars
  <2>2. NoNewHolder
    BY <1>0, <2>1, HoldersKept
  <2> QED
    BY <1>a, <1>b, <2>1, <2>2, UseFrame, UseKept
<1> QED
  BY <1>1, <1>2, <1>3, <1>4, <1>5, <1>6, <1>7, <1>8, <1>9 DEF ThreadStep

\* Lookups, readers, write back, eviction and mounts.
LEMMA UseRest ==
  ASSUME TypeInv, UseInv, ~lost',
         \/ \E d \in Parents, name \in Names : minix_lookup(d, name)
         \/ \E r \in Readers : Rewind(r) \/ \E n \in Sizes : minix_readdir(r, n)
         \/ \E i \in Inos : WriteInode(i) \/ EvictInode(i)
         \/ \E d \in Inos, n \in DirPages : WriteDirPage(d, n)
         \/ FlushTable \/ FlushInodeMap \/ Remount \/ Crash
  PROVE  UseInv'
<1>0. InodesOK /\ PagesOK /\ ThreadsOK /\ ImapOK
  BY DEF TypeInv
<1>a. imapDirty \/ imapDisk = imap
  BY DEF UseInv
<1>b. \A i \in Inos : incore[i] => i \in imap
  BY DEF UseInv
<1>1. ASSUME NEW d \in Parents, NEW name \in Names, minix_lookup(d, name)
      PROVE  UseInv'
  <2> DEFINE i == minix_inode_by_name(d, name)
  <2>1. /\ i \in Inos
        /\ incore' = [incore EXCEPT ![i] = TRUE]
        /\ UNCHANGED <<imap, imapDirty, imapDisk, pc, op>>
    BY <1>1 DEF minix_lookup, imapVars
  <2>2. d \in Inos /\ i # 0
    BY <2>1, FirstOnes
  <2>3. PICK s \in Searched(d) : Matches(d, s, name) /\ ents[d][s].ino = i
    BY <2>2, FoundByName
  <2> HIDE DEF i
  <2>4. s \in Slots /\ NamedBy(d, s, i)
    BY <2>3 DEF Searched, Matches, NamedBy
  <2>5. i \in imap
    BY <2>1, <2>2, <2>4 DEF UseInv
  <2>6. \A k \in Inos : incore'[k] => k \in imap
    BY <1>0, <1>b, <2>1, <2>5 DEF InodesOK
  <2> QED
    BY <1>a, <1>1, <2>1, <2>6, NamesKept, UseFrame, UseKept
<1>2. ASSUME NEW r \in Readers, Rewind(r) \/ \E n \in Sizes : minix_readdir(r, n)
      PROVE  UseInv'
  <2>1. UNCHANGED <<incore, ents, entsDisk, imap, imapDirty, imapDisk, pc, op>>
    BY <1>2 DEF Rewind, minix_readdir, inodeVars, pageVars, imapVars
  <2> QED
    BY <1>a, <1>b, <2>1, UseFrame, UseKept
<1>3. ASSUME NEW i \in Inos, WriteInode(i)
      PROVE  UseInv'
  <2>1. UNCHANGED <<incore, ents, entsDisk, imap, imapDirty, imapDisk, pc, op>>
    BY <1>3 DEF WriteInode, pageVars, imapVars
  <2> QED
    BY <1>a, <1>b, <2>1, UseFrame, UseKept
<1>4. ASSUME NEW i \in Inos, EvictInode(i)
      PROVE  UseInv'
  <2>1. incore' = [incore EXCEPT ![i] = FALSE] /\ UNCHANGED <<imap, imapDirty, imapDisk, pc, op>>
    BY <1>4 DEF EvictInode, imapVars
  <2>2. \A k \in Inos : incore'[k] => k \in imap
    BY <1>0, <1>b, <2>1 DEF InodesOK
  <2> QED
    BY <1>a, <1>4, <2>1, <2>2, NamesKept, UseFrame, UseKept
<1>5. ASSUME NEW d \in Inos, NEW n \in DirPages, WriteDirPage(d, n)
      PROVE  UseInv'
  <2>1. UNCHANGED <<incore, imap, imapDirty, imapDisk, pc, op>>
    BY <1>5 DEF WriteDirPage, imapVars, inodeVars
  <2> QED
    BY <1>a, <1>b, <1>5, <2>1, NamesKept, UseFrame, UseKept
<1>6. CASE FlushTable
  <2>1. UNCHANGED <<incore, ents, entsDisk, imap, imapDirty, imapDisk, pc, op>>
    BY <1>6 DEF FlushTable, inodeVars, pageVars, imapVars
  <2> QED
    BY <1>a, <1>b, <2>1, UseFrame, UseKept
<1>7. CASE FlushInodeMap
  <2>1. UNCHANGED <<incore, ents, entsDisk, imap, pc, op>> /\ imapDisk' = imap
    BY <1>7 DEF FlushInodeMap, inodeVars, pageVars
  <2> QED
    BY <1>b, <2>1, UseFrame, UseKept
<1>8. ASSUME LoseMemory, imapDisk = imap, NoNewHolder
      PROVE  UseInv'
  <2>1. /\ imap' = imapDisk /\ imapDisk' = imapDisk
        /\ incore' = [i \in Inos |-> i = Root]
    BY <1>8 DEF LoseMemory
  <2>2. \A i \in Inos : incore'[i] => i \in imap
    BY <2>1 DEF UseInv
  <2>3. NoNewName
    BY <1>8, MountNames
  <2> QED
    BY <1>8, <2>1, <2>2, <2>3, UseKept
<1>9. CASE Remount
  <2>1. LoseMemory /\ ~imapDirty /\ UNCHANGED <<pc, op>>
    BY <1>9 DEF Remount
  <2> QED
    BY <1>a, <1>8, <2>1, UseFrame
<1>10. CASE Crash
  <2>1. LoseMemory /\ ~imapDirty /\ pc' = [u \in Threads |-> "idle"]
    BY <1>10 DEF Crash
  <2>2. NoNewHolder
    BY <2>1 DEF NoNewHolder, Holds
  <2> QED
    BY <1>a, <1>8, <2>1, <2>2
<1> QED
  BY <1>1, <1>2, <1>3, <1>4, <1>5, <1>6, <1>7, <1>9, <1>10

\* History is only ever made by a crash.
LEMMA HistoryKept ==
  ASSUME [Next]_vars
  PROVE  Crash \/ UNCHANGED history
<1>1. CASE UNCHANGED vars
  BY <1>1 DEF vars
<1>2. CASE Next
  BY <1>2 DEF Next, ThreadStep, CallCreate, CallTmpfile, NewInode, TakeInode, NewInodeFull,
     CloseTmpfile, minix_make_empty, minix_add_link, AddLinkFails, ReturnError, minix_lookup,
     Rewind, minix_readdir, WriteInode, EvictInode, WriteDirPage, FlushTable, FlushInodeMap, Remount
<1> QED
  BY <1>1, <1>2

\* The part of Inv about inode numbers.
NumberInv == TypeInv /\ (~lost => UseInv)

\* Every step keeps it.
LEMMA NumberInvNext == NumberInv /\ [Next]_vars => NumberInv'
<1> SUFFICES ASSUME NumberInv, [Next]_vars PROVE NumberInv'
  OBVIOUS
<1>1. TypeInv /\ TypeInv'
  BY TypeInvNext DEF NumberInv
<1> SUFFICES ASSUME ~lost' PROVE UseInv'
  BY <1>1 DEF NumberInv
<1>2. ~lost
  BY HistoryKept DEF Crash, history
<1>3. UseInv
  BY <1>2 DEF NumberInv
<1>4. CASE UNCHANGED vars
  <2>1. UNCHANGED <<incore, ents, entsDisk, imap, imapDirty, imapDisk, pc, op>>
    BY <1>4 DEF vars, inodeVars, pageVars, imapVars
  <2> QED
    BY <1>3, <2>1, UseFrame, UseKept DEF UseInv
<1>5. CASE Next
  BY <1>1, <1>3, <1>5, UseCalls, UseRest DEF Next
<1> QED
  BY <1>4, <1>5

\* The part of Inv about inode numbers holds always.
LEMMA NumberInvHolds == Spec => []NumberInv
<1>1. Init => NumberInv
  BY TypeInvInit, UseInvInit DEF NumberInv
<1> QED
  BY <1>1, NumberInvNext, PTL DEF Spec

\* A set whose members are all the same has at most one.
LEMMA AtMostOne ==
  ASSUME NEW S, \A x, y \in S : x = y
  PROVE  Cardinality(S) <= 1
<1>1. CASE S = {}
  BY <1>1, FS_EmptySet
<1>2. CASE S # {}
  <2>1. PICK x \in S : TRUE
    BY <1>2
  <2>2. S = {x}
    BY <2>1
  <2> QED
    BY <2>2, FS_Singleton
<1> QED
  BY <1>1, <1>2

\* No inode number ever gets a second name, and every number with a name, or about
\* to get one, is marked in the inode map: with any number of threads creating and
\* any order in which entries, inodes and map reach the device or are lost, as long
\* as no crash loses inode map bits.
THEOREM NumbersNamedOnce == Spec => []OneNameOneInode
<1>1. NumberInv => OneNameOneInode
  <2> SUFFICES ASSUME NumberInv, ~lost, NEW i \in Inos
               PROVE  LET users == EntriesOf(i) \cup HoldersOf(i)
                      IN Cardinality(users) <= 1 /\ (users # {} => i \in imap)
    BY DEF OneNameOneInode
  <2>0. UseInv
    BY DEF NumberInv
  <2>1. \A x \in EntriesOf(i) : x = <<x[1], x[2]>> /\ x[1] \in Inos /\ x[2] \in Slots /\ NamedBy(x[1], x[2], i)
    BY DEF EntriesOf, NamedBy
  <2>2. \A t \in HoldersOf(i) : t \in Threads /\ Holds(t, i)
    BY DEF HoldersOf, Holds
  <2>3. \A x, y \in EntriesOf(i) : x = y
    <3> SUFFICES ASSUME NEW x \in EntriesOf(i), NEW y \in EntriesOf(i) PROVE x = y
      OBVIOUS
    <3>1. x[1] = y[1] /\ x[2] = y[2]
      BY <2>0, <2>1 DEF UseInv
    <3> QED
      BY <2>1, <3>1
  <2>4. \A t, u \in HoldersOf(i) : t = u
    BY <2>0, <2>2 DEF UseInv
  <2>5. EntriesOf(i) = {} \/ HoldersOf(i) = {}
    BY <2>0, <2>1, <2>2 DEF UseInv
  <2>6. \A x \in EntriesOf(i) \cup HoldersOf(i) : i \in imap
    BY <2>0, <2>1, <2>2 DEF UseInv
  <2>7. \A x, y \in EntriesOf(i) \cup HoldersOf(i) : x = y
    BY <2>3, <2>4, <2>5
  <2> QED
    BY <2>6, <2>7, AtMostOne
<1> QED
  BY <1>1, NumberInvHolds, PTL
-----------------------------------------------------------------------------
(***************************************************************************)
(* The calls in progress: CallInv                                          *)
(***************************************************************************)
\* NamesIn by pages and size.
LEMMA NamesInIs ==
  ASSUME TypeInv, NEW d \in Inos
  PROVE  NamesIn(d) = NamesOf(ents[d], size[d])
<1>1. size[d] \in Sizes
  BY DEF TypeInv, InodesOK
<1>2. Searched(d) = {s \in Slots : s < size[d]}
  BY <1>1, SearchedIs
<1> QED
  BY <1>2 DEF NamesIn, NamesOf

\* A step that leaves the call of thread u, the state of its directory that the call
\* relies on and its new inode alone.
CallSame(u) ==
  /\ pc'[u] = pc[u] /\ op'[u] = op[u]
  /\ pc[u] # "idle" =>
       /\ incore'[op[u].d] = incore[op[u].d] /\ mode'[op[u].d] = mode[op[u].d]
       /\ op[u].kind # "tmp" =>
            /\ size'[op[u].d] = size[op[u].d] /\ ents'[op[u].d] = ents[op[u].d]
            /\ nlink'[op[u].d] = nlink[op[u].d]
       /\ pc[u] \in {"empty", "link", "open", "failed"} /\ op[u].ino # 0 =>
            incore'[op[u].ino] = incore[op[u].ino] /\ mode'[op[u].ino] = mode[op[u].ino]

\* It keeps the facts about u.
LEMMA CallSameKeeps ==
  ASSUME NEW u \in Threads, CallSame(u), pc[u] # "idle", CallOK(u), CallInv
  PROVE  DirStays(u)' /\ DirAsFound(u)' /\ NewInodeOf(u)'
<1>0. DirStays(u) /\ DirAsFound(u) /\ NewInodeOf(u)
  BY DEF CallInv
<1>1. pc'[u] = pc[u] /\ op'[u] = op[u]
  BY DEF CallSame
<1>2. DirStays(u)'
  BY <1>0, <1>1 DEF DirStays, CallSame
<1>3. DirAsFound(u)'
  <2>1. Link(u)' = Link(u)
    BY <1>1 DEF Link
  <2> QED
    BY <1>0, <1>1, <2>1 DEF DirAsFound, CallSame
<1>4. NewInodeOf(u)'
  <2>1. pc[u] \in {"empty", "link", "open"} => op[u].ino # 0
    BY FirstOnes DEF CallOK
  <2> QED
    BY <1>0, <1>1, <2>1 DEF NewInodeOf, CallSame
<1> QED
  BY <1>2, <1>3, <1>4

\* What has to be shown of the thread that takes a step.
OwnCall(t) ==
  pc[t] # "idle" =>
    /\ DirStays(t) /\ DirAsFound(t) /\ NewInodeOf(t)
    /\ \A u \in Threads : pc[u] # "idle" => CallsApart(t, u) /\ CallsApart(u, t)

\* The step of thread t keeps CallInv.
LEMMA CallStep ==
  ASSUME ThreadsOK, CallInv, NEW t \in Threads, \A u \in Threads : u # t => CallSame(u),
         \A i \in Inos : nlink'[i] >= 0, OwnCall(t)'
  PROVE  CallInv'
<1>1. ASSUME NEW u \in Threads, pc'[u] # "idle"
      PROVE  DirStays(u)' /\ DirAsFound(u)' /\ NewInodeOf(u)'
  <2>1. CASE u = t
    BY <1>1, <2>1 DEF OwnCall
  <2>2. CASE u # t
    <3>1. CallSame(u) /\ pc[u] # "idle" /\ CallOK(u)
      BY <1>1, <2>2 DEF CallSame, ThreadsOK
    <3> QED
      BY <3>1, CallSameKeeps
  <2> QED
    BY <2>1, <2>2
<1>2. ASSUME NEW u \in Threads, NEW v \in Threads, pc'[u] # "idle", pc'[v] # "idle"
      PROVE  CallsApart(u, v)'
  <2>1. CASE u = t
    BY <1>2, <2>1 DEF OwnCall
  <2>2. CASE v = t
    BY <1>2, <2>2 DEF OwnCall
  <2>3. CASE u # t /\ v # t
    <3>1. pc'[u] = pc[u] /\ op'[u] = op[u] /\ pc'[v] = pc[v] /\ op'[v] = op[v]
      BY <2>3 DEF CallSame
    <3>2. CallsApart(u, v)
      BY <1>2, <3>1 DEF CallInv
    <3> QED
      BY <3>1, <3>2 DEF CallsApart
  <2> QED
    BY <2>1, <2>2, <2>3
<1> QED
  BY <1>1, <1>2 DEF CallInv

\* A step of no thread keeps CallInv.
LEMMA CallFrame ==
  ASSUME ThreadsOK, CallInv, \A u \in Threads : CallSame(u), \A i \in Inos : nlink'[i] >= 0
  PROVE  CallInv'
<1>1. ASSUME NEW u \in Threads, pc'[u] # "idle"
      PROVE  DirStays(u)' /\ DirAsFound(u)' /\ NewInodeOf(u)'
  <2>1. CallSame(u) /\ pc[u] # "idle" /\ CallOK(u)
    BY <1>1 DEF CallSame, ThreadsOK
  <2> QED
    BY <2>1, CallSameKeeps
<1>2. ASSUME NEW u \in Threads, NEW v \in Threads, pc'[u] # "idle", pc'[v] # "idle"
      PROVE  CallsApart(u, v)'
  <2>1. pc'[u] = pc[u] /\ op'[u] = op[u] /\ pc'[v] = pc[v] /\ op'[v] = op[v]
    BY DEF CallSame
  <2>2. CallsApart(u, v)
    BY <1>2, <2>1 DEF CallInv
  <2> QED
    BY <2>1, <2>2 DEF CallsApart
<1> QED
  BY <1>1, <1>2 DEF CallInv

\* No call is in progress after a step.
LEMMA CallsDone ==
  ASSUME \A u \in Threads : pc'[u] = "idle", \A i \in Inos : nlink'[i] >= 0
  PROVE  CallInv'
  BY DEF CallInv

\* What a call in progress says of its directory and of its new inode.
LEMMA CallFacts ==
  ASSUME TypeInv, UseInv, CallInv, NEW u \in Threads, pc[u] # "idle"
  PROVE  /\ op[u] \in CreateCalls \cup TmpCalls /\ op[u].d \in Inos
         /\ incore[op[u].d] /\ op[u].d \in imap /\ op[u].ino \in Inos \cup {0}
         /\ DirStays(u) /\ DirAsFound(u) /\ NewInodeOf(u)
         /\ \A v \in Threads : pc[v] # "idle" => CallsApart(u, v) /\ CallsApart(v, u)
         /\ pc[u] \in {"empty", "link", "open", "failed"} /\ op[u].ino # 0 =>
              Holds(u, op[u].ino) /\ op[u].ino \in imap
<1>1. op[u] \in CreateCalls \cup TmpCalls /\ op[u].d \in Inos
  BY CallDir DEF TypeInv
<1>2. op[u].ino \in Inos \cup {0}
  BY <1>1, CallFields
<1>3. /\ DirStays(u) /\ DirAsFound(u) /\ NewInodeOf(u)
      /\ \A v \in Threads : pc[v] # "idle" => CallsApart(u, v) /\ CallsApart(v, u)
  BY DEF CallInv
<1>4. incore[op[u].d] /\ op[u].d \in imap
  BY <1>1, <1>3 DEF DirStays, UseInv
<1>5. pc[u] \in {"empty", "link", "open", "failed"} /\ op[u].ino # 0 =>
        Holds(u, op[u].ino) /\ op[u].ino \in imap
  BY <1>2 DEF Holds, UseInv
<1> QED
  BY <1>1, <1>2, <1>3, <1>4, <1>5

\* A call begins: its directory is reachable, and for create, mknod and mkdir locked.
LEMMA CallBegins ==
  ASSUME TypeInv, UseInv, CallInv, NEW t \in Threads, NEW d \in Parents,
         \/ \E name \in Names, kind \in Kinds \ {"tmp"} : CallCreate(t, d, name, kind)
         \/ CallTmpfile(t, d)
  PROVE  CallInv'
<1>0. InodesOK /\ PagesOK /\ ThreadsOK /\ d \in Inos /\ 0 \notin Inos
  BY FirstOnes DEF TypeInv
<1>1. Reachable(d) /\ pc[t] = "idle"
  BY DEF CallCreate, CallTmpfile
<1>2. ASSUME NEW name \in Names, NEW kind \in Kinds \ {"tmp"}, CallCreate(t, d, name, kind)
      PROVE  CallInv'
  <2> DEFINE o == [kind |-> kind, d |-> d, name |-> name, ino |-> 0,
                   links |-> nlink[d], size |-> size[d], names |-> NamesIn(d)]
  <2>1. /\ pc' = [pc EXCEPT ![t] = "new"] /\ op' = [op EXCEPT ![t] = o]
        /\ UNCHANGED <<incore, mode, size, ents>> /\ ~DirLocked(d)
        /\ minix_inode_by_name(d, name) = 0
    BY <1>2 DEF CallCreate, pageVars
  <2>2. nlink' = [nlink EXCEPT ![d] = @ + (IF kind = "dir" THEN 1 ELSE 0)]
    <3>0. nlink \in [Inos -> Int]
      BY <1>0 DEF InodesOK
    <3>1. CASE kind = "dir"
      BY <1>2, <3>1 DEF CallCreate
    <3>2. CASE kind # "dir"
      <4>1. nlink' = nlink
        BY <1>2, <3>2 DEF CallCreate
      <4> QED
        BY <1>0, <3>0, <3>2, <4>1
    <3> QED
      BY <3>1, <3>2
  <2>3. name \notin NamesIn(d) /\ NamesIn(d) = NamesOf(ents[d], size[d])
    BY <1>0, <2>1, FoundByName, NamesInIs
  <2>4. /\ o.kind = kind /\ o.d = d /\ o.name = name /\ o.ino = 0
        /\ o.links = nlink[d] /\ o.size = size[d] /\ o.names = NamesIn(d)
    OBVIOUS
  <2> HIDE DEF o
  <2>5. pc'[t] = "new" /\ op'[t] = o /\ \A u \in Threads : u # t => pc'[u] = pc[u] /\ op'[u] = op[u]
    BY <1>0, <2>1 DEF ThreadsOK
  <2>6. \A u \in Threads : u # t /\ pc[u] # "idle" /\ op[u].kind # "tmp" => op[u].d # d
    BY <2>1 DEF DirLocked
  <2>7. /\ nlink'[d] = nlink[d] + (IF kind = "dir" THEN 1 ELSE 0) /\ nlink[d] >= 0
        /\ \A k \in Inos : k # d => nlink'[k] = nlink[k]
        /\ \A k \in Inos : nlink'[k] >= 0
    BY <1>0, <2>2 DEF InodesOK, CallInv
  <2>8. ASSUME NEW u \in Threads, u # t PROVE CallSame(u)
    <3>1. pc[u] # "idle" => op[u].d \in Inos
      BY <1>0, CallDir
    <3> QED
      BY <2>1, <2>5, <2>6, <2>7, <2>8, <3>1 DEF CallSame
  <2>9. DirStays(t)'
    BY <1>1, <2>1, <2>4, <2>5 DEF DirStays, Reachable
  <2>10. DirAsFound(t)'
    <3>1. Link(t)' = IF kind = "dir" THEN 1 ELSE 0
      BY <2>4, <2>5 DEF Link
    <3>2. size'[d] = o.size /\ NamesOf(ents'[d], size'[d]) = o.names /\ o.name \notin o.names
      BY <2>1, <2>3, <2>4
    <3>3. o.links >= 0 /\ nlink'[d] = o.links + Link(t)'
      BY <2>4, <2>7, <3>1
    <3> QED
      BY <2>4, <2>5, <3>2, <3>3 DEF DirAsFound
  <2>11. NewInodeOf(t)'
    BY <2>5 DEF NewInodeOf
  <2>12. ASSUME NEW u \in Threads, pc'[u] # "idle"
         PROVE  CallsApart(t, u)' /\ CallsApart(u, t)'
    <3>1. CASE u = t
      BY <1>0, <2>4, <2>5, <3>1 DEF CallsApart
    <3>2. CASE u # t
      <4>1. pc[u] # "idle" /\ op'[u] = op[u] /\ op[u].d \in Inos /\ op[u].ino # d
        BY <1>0, <1>1, <2>5, <2>12, <3>2, CallDir DEF Reachable
      <4> QED
        BY <1>0, <2>4, <2>5, <2>6, <3>2, <4>1 DEF CallsApart
    <3> QED
      BY <3>1, <3>2
  <2>13. OwnCall(t)'
    BY <2>9, <2>10, <2>11, <2>12 DEF OwnCall
  <2> QED
    BY <1>0, <2>7, <2>8, <2>13, CallStep
<1>3. CASE CallTmpfile(t, d)
  <2> DEFINE o == [kind |-> "tmp", d |-> d, ino |-> 0]
  <2>1. /\ pc' = [pc EXCEPT ![t] = "new"] /\ op' = [op EXCEPT ![t] = o]
        /\ UNCHANGED <<incore, mode, size, nlink, ents>>
    BY <1>3 DEF CallTmpfile, pageVars, inodeVars
  <2>2. o.kind = "tmp" /\ o.d = d /\ o.ino = 0
    OBVIOUS
  <2> HIDE DEF o
  <2>3. pc'[t] = "new" /\ op'[t] = o /\ \A u \in Threads : u # t => pc'[u] = pc[u] /\ op'[u] = op[u]
    BY <1>0, <2>1 DEF ThreadsOK
  <2>4. \A u \in Threads : u # t => CallSame(u)
    BY <2>1, <2>3 DEF CallSame
  <2>5. DirStays(t)' /\ DirAsFound(t)' /\ NewInodeOf(t)'
    BY <1>1, <2>1, <2>2, <2>3 DEF DirStays, DirAsFound, NewInodeOf, Reachable
  <2>6. ASSUME NEW u \in Threads, pc'[u] # "idle"
        PROVE  CallsApart(t, u)' /\ CallsApart(u, t)'
    <3>1. CASE u = t
      BY <1>0, <2>2, <2>3, <3>1 DEF CallsApart
    <3>2. CASE u # t
      <4>1. pc[u] # "idle" /\ op'[u] = op[u] /\ op[u].d \in Inos /\ op[u].ino # d
        BY <1>0, <1>1, <2>3, <2>6, <3>2, CallDir DEF Reachable
      <4> QED
        BY <1>0, <2>2, <2>3, <3>2, <4>1 DEF CallsApart
    <3> QED
      BY <3>1, <3>2
  <2>7. OwnCall(t)' /\ \A i \in Inos : nlink'[i] >= 0
    BY <2>1, <2>5, <2>6 DEF OwnCall, CallInv
  <2> QED
    BY <1>0, <2>4, <2>7, CallStep
<1> QED
  BY <1>2, <1>3

\* A call gets its inode, which no call used.
LEMMA CallGetsInode ==
  ASSUME TypeInv, UseInv, CallInv, NEW t \in Threads, NewInode(t)
  PROVE  CallInv'
<1>0. InodesOK /\ PagesOK /\ ThreadsOK /\ 0 \notin Inos
  BY FirstOnes DEF TypeInv
<1> DEFINE kind == op[t].kind
           d == op[t].d
           p == CASE kind = "dir" -> "empty" [] kind = "reg" -> "link"
                  [] kind = "tmp" -> "open" [] kind = "other" -> "failed"
           m == IF kind = "tmp" THEN "reg" ELSE kind
           l == CASE kind = "dir" -> 2 [] kind = "tmp" -> 0 [] OTHER -> 1
<1>1. PICK i \in Inos \ imap :
        /\ incore' = [incore EXCEPT ![i] = TRUE]
        /\ mode' = [mode EXCEPT ![i] = m]
        /\ nlink' = [nlink EXCEPT ![i] = l]
        /\ op' = [op EXCEPT ![t].ino = i]
  BY DEF NewInode, TakeInode
<1>2. pc[t] = "new" /\ pc' = [pc EXCEPT ![t] = p] /\ UNCHANGED <<size, ents>>
  BY DEF NewInode, TakeInode, pageVars
<1>3. /\ op[t] \in CreateCalls \cup TmpCalls /\ d \in Inos /\ d \in imap
      /\ DirStays(t) /\ DirAsFound(t)
      /\ \A u \in Threads : pc[u] # "idle" => CallsApart(t, u) /\ CallsApart(u, t)
  BY <1>2, CallFacts
<1>4. kind \in {"reg", "dir", "other", "tmp"}
  BY <1>3, CallFields
<1> DEFINE o == [op[t] EXCEPT !.ino = i]
<1>5. /\ o.ino = i /\ o.kind = kind /\ o.d = d
      /\ kind # "tmp" => /\ o.name = op[t].name /\ o.links = op[t].links
                         /\ o.size = op[t].size /\ o.names = op[t].names
  BY <1>1, <1>3, CallWithInode
<1>6. /\ pc'[t] = p /\ op'[t] = o
      /\ \A u \in Threads : u # t => pc'[u] = pc[u] /\ op'[u] = op[u]
  BY <1>0, <1>1, <1>2 DEF ThreadsOK
<1>7. l \in Nat /\ p # "new" /\ p # "idle" /\ p # "oops"
      /\ (p = "failed" <=> kind = "other")
  BY <1>4
<1> HIDE DEF o, p, l
<1>8. /\ incore'[i] /\ mode'[i] = m
      /\ \A k \in Inos : k # i => incore'[k] = incore[k] /\ mode'[k] = mode[k] /\ nlink'[k] = nlink[k]
      /\ \A k \in Inos : nlink'[k] >= 0
  BY <1>0, <1>1, <1>7 DEF InodesOK, CallInv
<1>9. ASSUME NEW u \in Threads, u # t PROVE CallSame(u)
  <2>1. pc[u] # "idle" => op[u].d \in Inos /\ op[u].d # i
    BY <1>1, CallFacts
  <2>2. pc[u] \in {"empty", "link", "open", "failed"} /\ op[u].ino # 0 => op[u].ino \in Inos /\ op[u].ino # i
    BY <1>1, CallFacts
  <2> QED
    BY <1>2, <1>6, <1>8, <1>9, <2>1, <2>2 DEF CallSame
<1>10. d # i
  BY <1>1, <1>3
<1>11. DirStays(t)'
  BY <1>3, <1>5, <1>6, <1>8, <1>10 DEF DirStays
<1>12. DirAsFound(t)'
  <2>1. Link(t)' = Link(t)
    BY <1>2, <1>5, <1>6, <1>7 DEF Link
  <2> QED
    BY <1>2, <1>3, <1>5, <1>6, <1>8, <1>10, <2>1 DEF DirAsFound
<1>13. NewInodeOf(t)'
  BY <1>5, <1>6, <1>7, <1>8 DEF NewInodeOf
<1>14. ASSUME NEW u \in Threads, pc'[u] # "idle"
       PROVE  CallsApart(t, u)' /\ CallsApart(u, t)'
  <2>1. CASE u = t
    BY <1>5, <1>6, <1>10, <2>1 DEF CallsApart
  <2>2. CASE u # t
    <3>1. pc[u] # "idle" /\ op'[u] = op[u]
      BY <1>6, <1>14, <2>2
    <3>2. op[u].d # i /\ CallsApart(t, u) /\ CallsApart(u, t)
      BY <1>1, <1>3, <3>1, CallFacts
    <3> QED
      BY <1>5, <1>6, <3>1, <3>2 DEF CallsApart
  <2> QED
    BY <2>1, <2>2
<1>15. OwnCall(t)'
  BY <1>11, <1>12, <1>13, <1>14 DEF OwnCall
<1> QED
  BY <1>0, <1>8, <1>9, <1>15, CallStep

\* A call whose thread returns, or is lost.
LEMMA CallReturns ==
  ASSUME ThreadsOK, CallInv, NEW t \in Threads, pc'[t] = "idle",
         \A u \in Threads : u # t => CallSame(u), \A i \in Inos : nlink'[i] >= 0
  PROVE  CallInv'
<1>1. OwnCall(t)'
  BY DEF OwnCall
<1> QED
  BY <1>1, CallStep

\* No inode number is free.
LEMMA CallGetsNone ==
  ASSUME TypeInv, UseInv, CallInv, NEW t \in Threads, NewInodeFull(t)
  PROVE  CallInv'
<1>0. InodesOK /\ PagesOK /\ ThreadsOK /\ 0 \notin Inos
  BY FirstOnes DEF TypeInv
<1> DEFINE kind == op[t].kind
           d == op[t].d
           p == CASE kind = "dir" -> "failed" [] kind = "tmp" -> "idle" [] OTHER -> "oops"
<1>1. /\ pc[t] = "new" /\ pc' = [pc EXCEPT ![t] = p]
      /\ op' = IF kind = "tmp" THEN [op EXCEPT ![t] = NoOp] ELSE op
      /\ nlink' = [nlink EXCEPT ![d] = @ - LinkBack(t)]
      /\ UNCHANGED <<incore, mode, size, ents>>
  BY DEF NewInodeFull, pageVars
<1>2. /\ op[t] \in CreateCalls \cup TmpCalls /\ d \in Inos
      /\ DirStays(t) /\ DirAsFound(t)
      /\ \A u \in Threads : pc[u] # "idle" => CallsApart(t, u) /\ CallsApart(u, t)
  BY <1>1, CallFacts
<1>3. kind \in {"reg", "dir", "other", "tmp"} /\ op[t].ino = 0 /\ (kind # "tmp" => op[t].links \in Int)
  BY <1>0, <1>1, <1>2, CallFields DEF ThreadsOK, CallOK
<1>4. /\ pc'[t] = p /\ (kind # "tmp" => op'[t] = op[t])
      /\ \A u \in Threads : u # t => pc'[u] = pc[u] /\ op'[u] = op[u]
  BY <1>0, <1>1 DEF ThreadsOK
<1>5. p \in {"failed", "idle", "oops"} /\ (p = "failed" <=> kind = "dir") /\ (p = "idle" <=> kind = "tmp")
  BY <1>3
<1> HIDE DEF p
<1>6. /\ nlink'[d] = nlink[d] - LinkBack(t) /\ nlink[d] \in Int
      /\ \A k \in Inos : k # d => nlink'[k] = nlink[k]
  BY <1>0, <1>1, <1>2 DEF InodesOK
<1>7. LinkBack(t) = (IF kind = "dir" THEN 1 ELSE 0) /\ Link(t) = (IF kind = "dir" THEN 1 ELSE 0)
  BY <1>1 DEF LinkBack, Link
<1>8. nlink'[d] >= 0
  <2>1. CASE kind = "dir"
    <3>1. op[t].links >= 0 /\ nlink[d] = op[t].links + 1
      BY <1>2, <1>7, <2>1 DEF DirAsFound
    <3> QED
      BY <1>3, <1>6, <1>7, <2>1, <3>1
  <2>2. CASE kind # "dir"
    BY <1>2, <1>6, <1>7, <2>2 DEF CallInv
  <2> QED
    BY <2>1, <2>2
<1>9. \A k \in Inos : nlink'[k] >= 0
  BY <1>6, <1>8 DEF CallInv
<1>10. ASSUME NEW u \in Threads, u # t PROVE CallSame(u)
  <2>1. CASE kind = "tmp"
    <3>1. nlink'[d] = nlink[d]
      BY <1>6, <1>7, <2>1
    <3>2. pc[u] # "idle" => op[u].d \in Inos
      BY CallFacts
    <3> QED
      BY <1>1, <1>4, <1>6, <1>10, <3>1, <3>2 DEF CallSame
  <2>2. CASE kind # "tmp"
    <3>1. pc[u] # "idle" => op[u].d \in Inos
      BY CallFacts
    <3>2. pc[u] # "idle" /\ op[u].kind # "tmp" => op[u].d # d
      BY <1>2, <1>10, <2>2 DEF CallsApart
    <3> QED
      BY <1>1, <1>4, <1>6, <1>10, <3>1, <3>2 DEF CallSame
  <2> QED
    BY <2>1, <2>2
<1>11. CASE kind = "tmp"
  BY <1>0, <1>4, <1>5, <1>9, <1>10, <1>11, CallReturns
<1>12. CASE kind # "tmp"
  <2>1. op'[t] = op[t] /\ pc'[t] = p /\ p \in {"failed", "oops"} /\ (p = "failed" <=> kind = "dir")
    BY <1>4, <1>5, <1>12
  <2>2. DirStays(t)'
    BY <1>1, <1>2, <2>1 DEF DirStays
  <2>3. DirAsFound(t)'
    <3>1. Link(t)' = 0
      BY <2>1 DEF Link
    <3>2. nlink'[d] = op[t].links + 0 /\ op[t].links >= 0
      BY <1>2, <1>3, <1>6, <1>7, <1>12 DEF DirAsFound
    <3> QED
      BY <1>1, <1>2, <1>12, <2>1, <3>1, <3>2 DEF DirAsFound
  <2>4. NewInodeOf(t)'
    BY <1>3, <2>1 DEF NewInodeOf
  <2>5. ASSUME NEW u \in Threads, pc'[u] # "idle"
        PROVE  CallsApart(t, u)' /\ CallsApart(u, t)'
    <3>1. pc[u] # "idle" /\ op'[u] = op[u]
      BY <1>1, <1>4, <2>1, <2>5
    <3> QED
      BY <1>2, <2>1, <3>1 DEF CallsApart
  <2>6. OwnCall(t)'
    BY <2>2, <2>3, <2>4, <2>5 DEF OwnCall
  <2> QED
    BY <1>0, <1>9, <1>10, <2>6, CallStep
<1> QED
  BY <1>11, <1>12

\* A temporary file is closed, mkdir makes the new directory's page, minix_add_link
\* stores the entry, and a failed call returns.
LEMMA CallGoesOn ==
  ASSUME TypeInv, UseInv, CallInv, NEW t \in Threads,
         CloseTmpfile(t) \/ minix_make_empty(t) \/ minix_add_link(t) \/ ReturnError(t)
  PROVE  CallInv'
<1>0. InodesOK /\ PagesOK /\ ThreadsOK /\ 0 \notin Inos
  BY FirstOnes DEF TypeInv
<1>a. pc[t] \in {"open", "empty", "link", "failed"}
  BY DEF CloseTmpfile, minix_make_empty, minix_add_link, ReturnError
<1> DEFINE d == op[t].d
           i == op[t].ino
<1>b. /\ op[t] \in CreateCalls \cup TmpCalls /\ d \in Inos /\ i \in Inos \cup {0}
      /\ DirStays(t) /\ DirAsFound(t) /\ NewInodeOf(t)
      /\ \A u \in Threads : pc[u] # "idle" => CallsApart(t, u) /\ CallsApart(u, t)
      /\ i # 0 => Holds(t, i)
  BY <1>a, CallFacts
<1>c. \A u \in Threads :
        u # t /\ pc[u] \in {"empty", "link", "open", "failed"} /\ op[u].ino # 0
          => op[u].ino # i /\ op[u].ino \in Inos
  BY <1>b, CallFacts DEF UseInv
<1>d. \A u \in Threads : pc[u] # "idle" => op[u].d # i /\ op[u].d \in Inos
  BY <1>a, <1>b, CallFacts DEF CallsApart
<1>e. pc[t] \in {"open", "empty", "link"} => i \in Inos
  BY <1>0 DEF ThreadsOK, CallOK
<1>f. \A k \in Inos : nlink[k] >= 0
  BY DEF CallInv
<1>1. CASE CloseTmpfile(t)
  <2>1. /\ pc' = [pc EXCEPT ![t] = "idle"] /\ op' = [op EXCEPT ![t] = NoOp]
        /\ incore' = [incore EXCEPT ![i] = FALSE]
        /\ UNCHANGED <<mode, size, nlink, ents>>
    BY <1>1 DEF CloseTmpfile, pageVars
  <2>2. /\ pc'[t] = "idle" /\ \A u \in Threads : u # t => pc'[u] = pc[u] /\ op'[u] = op[u]
        /\ \A k \in Inos : k # i => incore'[k] = incore[k]
    BY <1>0, <2>1 DEF ThreadsOK, InodesOK
  <2> HIDE DEF i
  <2>3. \A u \in Threads : u # t => CallSame(u)
    BY <1>c, <1>d, <2>1, <2>2 DEF CallSame
  <2> QED
    BY <1>0, <1>f, <2>1, <2>2, <2>3, CallReturns
<1>2. CASE ReturnError(t)
  <2>1. /\ pc' = [pc EXCEPT ![t] = "idle"] /\ op' = [op EXCEPT ![t] = NoOp]
        /\ UNCHANGED <<incore, mode, size, nlink, ents>>
    BY <1>2 DEF ReturnError, pageVars, inodeVars
  <2>2. /\ pc'[t] = "idle" /\ \A u \in Threads : u # t => pc'[u] = pc[u] /\ op'[u] = op[u]
    BY <1>0, <2>1 DEF ThreadsOK
  <2>3. \A u \in Threads : u # t => CallSame(u)
    BY <2>1, <2>2 DEF CallSame
  <2> QED
    BY <1>0, <1>f, <2>1, <2>2, <2>3, CallReturns
<1>3. CASE minix_add_link(t)
  <2>0. PICK s \in Slots : StoreEntry(t, s)
    BY <1>3 DEF minix_add_link, Room
  <2> DEFINE f == [ents[d] EXCEPT ![s] = Entry(i, op[t].name)]
             n == IF s + 1 > size[d] THEN s + 1 ELSE size[d]
  <2>1. /\ pc[t] = "link" /\ pc' = [pc EXCEPT ![t] = "idle"] /\ op' = [op EXCEPT ![t] = NoOp]
        /\ ents' = [ents EXCEPT ![d] = f] /\ size' = [size EXCEPT ![d] = n]
        /\ UNCHANGED <<incore, mode, nlink>>
    BY <1>3, <2>0 DEF minix_add_link, StoreEntry, StoreUpTo
  <2>2. op[t].kind # "tmp"
    BY <1>0, <2>1 DEF ThreadsOK, CallOK
  <2> HIDE DEF f, n
  <2>3. /\ pc'[t] = "idle" /\ \A u \in Threads : u # t => pc'[u] = pc[u] /\ op'[u] = op[u]
        /\ \A k \in Inos : k # d => ents'[k] = ents[k] /\ size'[k] = size[k]
    BY <1>0, <2>1 DEF ThreadsOK, InodesOK, PagesOK
  <2>4. \A u \in Threads : u # t /\ pc[u] # "idle" /\ op[u].kind # "tmp" => op[u].d # d
    BY <1>b, <2>2 DEF CallsApart
  <2> HIDE DEF d
  <2>5. \A u \in Threads : u # t => CallSame(u)
    BY <1>d, <2>1, <2>3, <2>4 DEF CallSame
  <2> QED
    BY <1>0, <1>f, <2>1, <2>3, <2>5, CallReturns
<1>4. CASE minix_make_empty(t)
  <2> DEFINE f == [NoEntries EXCEPT ![0] = Entry(i, "."), ![1] = Entry(d, "..")]
  <2>1. /\ pc[t] = "empty" /\ pc' = [pc EXCEPT ![t] = "link"] /\ op' = op
        /\ ents' = [ents EXCEPT ![i] = f] /\ size' = [size EXCEPT ![i] = 2]
        /\ UNCHANGED <<incore, mode, nlink>>
    BY <1>4 DEF minix_make_empty
  <2> HIDE DEF f
  <2>2. /\ pc'[t] = "link" /\ \A u \in Threads : u # t => pc'[u] = pc[u] /\ op'[u] = op[u]
        /\ \A k \in Inos : k # i => ents'[k] = ents[k] /\ size'[k] = size[k]
    BY <1>0, <2>1 DEF ThreadsOK, InodesOK, PagesOK
  <2>3. d # i /\ i \in Inos
    BY <1>a, <1>d, <1>e, <2>1
  <2>4. DirStays(t)' /\ NewInodeOf(t)'
    BY <1>b, <2>1, <2>2 DEF DirStays, NewInodeOf
  <2>5. DirAsFound(t)'
    <3>1. Link(t)' = Link(t)
      BY <2>1, <2>2 DEF Link
    <3> QED
      BY <1>b, <2>1, <2>2, <2>3, <3>1 DEF DirAsFound
  <2>6. ASSUME NEW u \in Threads, pc'[u] # "idle"
        PROVE  CallsApart(t, u)' /\ CallsApart(u, t)'
    <3>1. pc[u] # "idle"
      BY <2>1, <2>2, <2>6
    <3> QED
      BY <1>b, <2>1, <3>1 DEF CallsApart
  <2>7. OwnCall(t)'
    BY <2>4, <2>5, <2>6 DEF OwnCall
  <2> HIDE DEF i, d
  <2>8. \A u \in Threads : u # t => CallSame(u)
    BY <1>d, <2>1, <2>2 DEF CallSame
  <2> QED
    BY <1>0, <1>f, <2>1, <2>7, <2>8, CallStep
<1> QED
  BY <1>1, <1>2, <1>3, <1>4

\* minix_add_link fails: the links are taken back and the new inode is gone.
LEMMA CallFails ==
  ASSUME TypeInv, UseInv, CallInv, NEW t \in Threads, AddLinkFails(t)
  PROVE  CallInv'
<1>0. InodesOK /\ PagesOK /\ ThreadsOK /\ 0 \notin Inos
  BY FirstOnes DEF TypeInv
<1> DEFINE d == op[t].d
           i == op[t].ino
           b == LinkBack(t)
           l == [nlink EXCEPT ![i] = 0]
<1>1. /\ pc[t] = "link" /\ pc' = [pc EXCEPT ![t] = "failed"] /\ op' = op
      /\ nlink' = [l EXCEPT ![d] = l[d] - b]
      /\ incore' = [incore EXCEPT ![i] = FALSE]
      /\ ents' = [ents EXCEPT ![i] = NoEntries]
      /\ UNCHANGED <<mode, size>>
  BY DEF AddLinkFails
<1>2. /\ op[t] \in CreateCalls \cup TmpCalls /\ d \in Inos
      /\ DirStays(t) /\ DirAsFound(t) /\ NewInodeOf(t)
      /\ \A u \in Threads : pc[u] # "idle" => CallsApart(t, u) /\ CallsApart(u, t)
      /\ i # 0 => Holds(t, i)
  BY <1>1, CallFacts
<1>3. i \in Inos /\ op[t].kind \in {"reg", "dir"}
  BY <1>0, <1>1 DEF ThreadsOK, CallOK
<1>4. \A u \in Threads :
        u # t /\ pc[u] \in {"empty", "link", "open", "failed"} /\ op[u].ino # 0
          => op[u].ino # i /\ op[u].ino \in Inos
  BY <1>0, <1>2, <1>3, CallFacts DEF UseInv
<1>5. \A u \in Threads : pc[u] # "idle" => op[u].d # i /\ op[u].d \in Inos
  BY <1>1, <1>2, CallFacts DEF CallsApart
<1>6. \A u \in Threads : u # t /\ pc[u] # "idle" /\ op[u].kind # "tmp" => op[u].d # d
  BY <1>2, <1>3 DEF CallsApart
<1>7. d # i /\ op[t].links \in Int /\ op[t].kind # "tmp"
  BY <1>1, <1>2, <1>3, <1>5, CallFields
<1>8. /\ pc'[t] = "failed" /\ \A u \in Threads : u # t => pc'[u] = pc[u]
      /\ ~incore'[i] /\ \A k \in Inos : k # i => incore'[k] = incore[k] /\ ents'[k] = ents[k]
  BY <1>0, <1>1, <1>3 DEF ThreadsOK, InodesOK, PagesOK
<1>9. /\ nlink'[i] = 0 /\ nlink'[d] = nlink[d] - b /\ nlink[d] \in Int
      /\ \A k \in Inos : k # i /\ k # d => nlink'[k] = nlink[k]
  BY <1>0, <1>1, <1>2, <1>3, <1>7 DEF InodesOK
<1>10. b = Link(t) /\ Link(t) \in {0, 1} /\ Link(t)' = 0
  BY <1>1, <1>8 DEF LinkBack, Link
<1>11. nlink'[d] = op[t].links /\ op[t].links >= 0
  BY <1>2, <1>7, <1>9, <1>10 DEF DirAsFound
<1>12. \A k \in Inos : nlink'[k] >= 0
  BY <1>9, <1>11 DEF CallInv
<1>13. DirStays(t)' /\ NewInodeOf(t)'
  BY <1>1, <1>2, <1>7, <1>8 DEF DirStays, NewInodeOf
<1>14. DirAsFound(t)'
  <2>1. nlink'[d] = op[t].links + Link(t)'
    BY <1>7, <1>10, <1>11
  <2> QED
    BY <1>1, <1>2, <1>7, <1>8, <1>11, <2>1 DEF DirAsFound
<1>15. ASSUME NEW u \in Threads, pc'[u] # "idle"
       PROVE  CallsApart(t, u)' /\ CallsApart(u, t)'
  <2>1. pc[u] # "idle"
    BY <1>1, <1>8, <1>15
  <2> QED
    BY <1>1, <1>2, <2>1 DEF CallsApart
<1>16. OwnCall(t)'
  BY <1>13, <1>14, <1>15 DEF OwnCall
<1> HIDE DEF i, d, b, l
<1>17. ASSUME NEW u \in Threads, u # t PROVE CallSame(u)
  <2>1. pc[u] # "idle" => op[u].d \in Inos /\ op[u].d # i /\ (op[u].kind # "tmp" => op[u].d # d)
    BY <1>5, <1>6, <1>17
  <2> QED
    BY <1>1, <1>4, <1>8, <1>9, <1>17, <2>1 DEF CallSame
<1> QED
  BY <1>0, <1>12, <1>16, <1>17, CallStep

\* Lookups, readers, write back, eviction and mounts.
LEMMA CallRest ==
  ASSUME TypeInv, UseInv, CallInv,
         \/ \E d \in Parents, name \in Names : minix_lookup(d, name)
         \/ \E r \in Readers : Rewind(r) \/ \E n \in Sizes : minix_readdir(r, n)
         \/ \E i \in Inos : WriteInode(i) \/ EvictInode(i)
         \/ \E d \in Inos, n \in DirPages : WriteDirPage(d, n)
         \/ FlushTable \/ FlushInodeMap \/ Remount \/ Crash
         \/ UNCHANGED vars
  PROVE  CallInv'
<1>0. InodesOK /\ PagesOK /\ ThreadsOK /\ 0 \notin Inos
  BY FirstOnes DEF TypeInv
<1>f. \A k \in Inos : nlink[k] >= 0
  BY DEF CallInv
<1>1. ASSUME NEW d \in Parents, NEW name \in Names, minix_lookup(d, name)
      PROVE  CallInv'
  <2> DEFINE i == minix_inode_by_name(d, name)
             m == table[i].mode
             n == table[i].size
             f == Loaded(i, table[i].size)
  <2>1. /\ i \in Inos /\ ~incore[i]
        /\ incore' = [incore EXCEPT ![i] = TRUE] /\ mode' = [mode EXCEPT ![i] = m]
        /\ size' = [size EXCEPT ![i] = n]
        /\ nlink' = [nlink EXCEPT ![i] = 1] /\ ents' = [ents EXCEPT ![i] = f]
        /\ UNCHANGED <<pc, op>>
    BY <1>1 DEF minix_lookup
  <2>2. d \in Inos /\ i # 0
    BY <2>1, FirstOnes
  <2>3. PICK s \in Searched(d) : Matches(d, s, name) /\ ents[d][s].ino = i
    BY <2>2, FoundByName
  <2>4. s \in Slots /\ NamedBy(d, s, i)
    BY <2>3 DEF Searched, Matches, NamedBy
  <2> HIDE DEF i, m, n, f
  <2>5. /\ \A k \in Inos : k # i => /\ incore'[k] = incore[k] /\ mode'[k] = mode[k] /\ size'[k] = size[k]
                                    /\ nlink'[k] = nlink[k] /\ ents'[k] = ents[k]
        /\ nlink'[i] = 1
    BY <1>0, <2>1 DEF InodesOK, PagesOK
  <2>6. \A u \in Threads : pc[u] # "idle" => op[u].d \in Inos /\ op[u].d # i
    BY <2>1, CallFacts
  <2>7. \A u \in Threads : pc[u] \in {"empty", "link", "open", "failed"} /\ op[u].ino # 0 =>
          op[u].ino \in Inos /\ op[u].ino # i
    <3> SUFFICES ASSUME NEW u \in Threads, pc[u] \in {"empty", "link", "open", "failed"}, op[u].ino # 0
                 PROVE  op[u].ino \in Inos /\ op[u].ino # i
      OBVIOUS
    <3>1. op[u].ino \in Inos /\ Holds(u, op[u].ino)
      BY CallFacts
    <3> QED
      BY <2>1, <2>2, <2>4, <3>1 DEF UseInv
  <2>8. \A u \in Threads : CallSame(u)
    BY <2>1, <2>5, <2>6, <2>7 DEF CallSame
  <2>9. \A k \in Inos : nlink'[k] >= 0
    BY <1>f, <2>1, <2>5
  <2> QED
    BY <1>0, <2>8, <2>9, CallFrame
<1>2. ASSUME NEW i \in Inos, EvictInode(i)
      PROVE  CallInv'
  <2>1. /\ incore' = [incore EXCEPT ![i] = FALSE] /\ ents' = [ents EXCEPT ![i] = NoEntries]
        /\ UNCHANGED <<mode, size, nlink, pc, op>> /\ ~InUse(i)
    BY <1>2 DEF EvictInode
  <2>2. \A k \in Inos : k # i => incore'[k] = incore[k] /\ ents'[k] = ents[k]
    BY <1>0, <2>1 DEF InodesOK, PagesOK
  <2>3. \A u \in Threads : pc[u] # "idle" =>
          op[u].d # i /\ op[u].ino # i /\ op[u].d \in Inos /\ op[u].ino \in Inos \cup {0}
    BY <2>1, CallFacts DEF InUse
  <2>4. \A u \in Threads : CallSame(u)
    <3> SUFFICES ASSUME NEW u \in Threads PROVE CallSame(u)
      OBVIOUS
    <3>1. pc[u] \in {"empty", "link", "open", "failed"} => pc[u] # "idle"
      OBVIOUS
    <3> QED
      BY <2>1, <2>2, <2>3, <3>1 DEF CallSame
  <2> QED
    BY <1>0, <1>f, <2>1, <2>4, CallFrame
<1>3. CASE UNCHANGED <<incore, mode, size, nlink, ents, pc, op>>
  <2>1. \A u \in Threads : CallSame(u)
    BY <1>3 DEF CallSame
  <2> QED
    BY <1>0, <1>f, <1>3, <2>1, CallFrame
<1>4. ASSUME LoseMemory, \A u \in Threads : pc'[u] = "idle"
      PROVE  CallInv'
  <2>1. \A k \in Inos : nlink'[k] >= 0
    BY <1>4 DEF LoseMemory
  <2> QED
    BY <1>4, <2>1, CallsDone
<1>5. CASE Remount
  BY <1>4, <1>5 DEF Remount
<1>6. CASE Crash
  BY <1>4, <1>6 DEF Crash
<1>7. CASE \/ \E r \in Readers : Rewind(r) \/ \E n \in Sizes : minix_readdir(r, n)
           \/ \E i \in Inos : WriteInode(i)
           \/ \E d \in Inos, n \in DirPages : WriteDirPage(d, n)
           \/ FlushTable \/ FlushInodeMap \/ UNCHANGED vars
  <2>1. UNCHANGED <<incore, mode, size, nlink, ents, pc, op>>
    BY <1>7 DEF Rewind, minix_readdir, WriteInode, WriteDirPage, FlushTable, FlushInodeMap,
       vars, inodeVars, pageVars
  <2> QED
    BY <1>3, <2>1
<1> QED
  BY <1>1, <1>2, <1>5, <1>6, <1>7

\* The part of Inv that holds as long as no crash lost inode map bits.
CallsInv == NumberInv /\ (~lost => CallInv)

\* A formatted device: no call is in progress.
LEMMA CallInvInit == Init => CallInv
  BY DEF Init, CallInv

\* Every step keeps it.
LEMMA CallsInvNext == CallsInv /\ [Next]_vars => CallsInv'
<1> SUFFICES ASSUME CallsInv, [Next]_vars PROVE CallsInv'
  OBVIOUS
<1>1. NumberInv /\ NumberInv' /\ TypeInv
  BY NumberInvNext DEF CallsInv, NumberInv
<1> SUFFICES ASSUME ~lost' PROVE CallInv'
  BY <1>1 DEF CallsInv
<1>2. ~lost
  BY HistoryKept DEF Crash, history
<1>3. UseInv /\ CallInv
  BY <1>2 DEF CallsInv, NumberInv
<1>4. CASE UNCHANGED vars
  BY <1>1, <1>3, <1>4, CallRest
<1>5. CASE Next
  BY <1>1, <1>3, <1>5, CallBegins, CallGetsInode, CallGetsNone, CallGoesOn, CallFails, CallRest
     DEF Next, ThreadStep
<1> QED
  BY <1>4, <1>5

\* The part of Inv about calls holds always.
LEMMA CallsInvHolds == Spec => []CallsInv
<1>1. Init => CallsInv
  BY TypeInvInit, UseInvInit, CallInvInit DEF CallsInv, NumberInv
<1> QED
  BY <1>1, CallsInvNext, PTL DEF Spec

\* A call of create, mknod or mkdir that fails leaves its directory as it found it
\* (names, size and link count) and, but for a type that is refused, no inode in
\* memory, whatever other threads, readers, write back and eviction do meanwhile,
\* as long as no crash lost inode map bits.
THEOREM FailedCallsUndone == Spec => [](~lost => FailedCallUndone)
<1>1. CallsInv => (~lost => FailedCallUndone)
  <2> SUFFICES ASSUME CallsInv, ~lost, NEW t \in Threads, pc[t] = "failed"
               PROVE  LET o == op[t]
                      IN /\ nlink[o.d] = o.links /\ size[o.d] = o.size /\ NamesIn(o.d) = o.names
                         /\ o.kind # "other" /\ o.ino # 0 => ~incore[o.ino]
    BY DEF FailedCallUndone
  <2>1. TypeInv /\ UseInv /\ CallInv
    BY DEF CallsInv, NumberInv
  <2>2. op[t] \in CreateCalls \cup TmpCalls /\ op[t].d \in Inos /\ DirAsFound(t) /\ NewInodeOf(t)
    BY <2>1, CallFacts
  <2>3. op[t].kind # "tmp"
    BY <2>1 DEF TypeInv, ThreadsOK, CallOK
  <2>4. Link(t) = 0 /\ op[t].links \in Int
    BY <2>2, <2>3, CallFields DEF Link
  <2>5. NamesIn(op[t].d) = op[t].names /\ size[op[t].d] = op[t].size
    BY <2>1, <2>2, <2>3, NamesInIs DEF DirAsFound
  <2>6. nlink[op[t].d] = op[t].links
    BY <2>2, <2>3, <2>4 DEF DirAsFound
  <2> QED
    BY <2>2, <2>5, <2>6 DEF NewInodeOf
<1> QED
  BY <1>1, CallsInvHolds, PTL

\* Every variable keeps its type, and no link count falls below zero, as long as no
\* crash lost inode map bits.
THEOREM TypesKept == Spec => [](~lost => TypeOK)
<1>1. CallsInv => (~lost => TypeOK)
  <2> SUFFICES ASSUME CallsInv, ~lost PROVE TypeOK
    OBVIOUS
  <2>1. TypeInv /\ CallInv
    BY DEF CallsInv, NumberInv
  <2>2. /\ incore \in [Inos -> BOOLEAN] /\ idirty \in [Inos -> BOOLEAN]
        /\ mode \in [Inos -> Modes] /\ size \in [Inos -> Sizes] /\ nlink \in [Inos -> Int]
    BY <2>1 DEF TypeInv, InodesOK
  <2>3. nlink \in [Inos -> Nat]
    BY <2>1, <2>2 DEF CallInv
  <2>4. /\ ents \in [Inos -> [Slots -> Entries]] /\ entsDisk \in [Inos -> [Slots -> Entries]]
        /\ pdirty \in [Inos -> SUBSET DirPages]
    BY <2>1 DEF TypeInv, PagesOK
  <2>5. /\ table \in [Inos -> Records] /\ tableDisk \in [Inos -> Records]
        /\ imap \subseteq Inos /\ imapDisk \subseteq Inos
        /\ tableDirty \in BOOLEAN /\ imapDirty \in BOOLEAN
    BY <2>1 DEF TypeInv, TableOK, ImapOK
  <2>6. lost \in BOOLEAN /\ crashes \in 0 .. MaxCrashes
    BY <2>1, Zenon DEF TypeInv, HistoryOK
  <2>7. pc \in [Threads -> {"idle", "new", "empty", "link", "open", "failed", "oops"}]
    BY <2>1 DEF TypeInv, ThreadsOK, States
  <2>8. \A r \in Readers : reader[r].pos \in Sizes /\ reader[r].start \subseteq Names
    BY <2>1 DEF TypeInv, ReadersOK
  <2>9. {tableDirty, imapDirty, lost} \subseteq BOOLEAN
    BY <2>5, <2>6, Zenon
  <2> QED
    BY <2>2, <2>3, <2>4, <2>5, <2>6, <2>7, <2>8, <2>9, Zenon DEF TypeOK
<1> QED
  BY <1>1, CallsInvHolds, PTL
-----------------------------------------------------------------------------
(***************************************************************************)
(* Names before any crash: NameInv                                         *)
(***************************************************************************)
\* A formatted device: the inode table is what memory says.
LEMMA NameInvInit == Init => NameInv
<1> SUFFICES ASSUME Init PROVE NameInv
  OBVIOUS
<1>1. \A i \in Inos : Recorded(i)
  BY DEF Init, Recorded
<1>2. \A i, d \in Inos, s \in Slots : NamedBy(d, s, i) => i = Root
  BY UseInvInit DEF UseInv, Init
<1>3. Typed(Root)
  BY FirstOnes DEF Typed, Init
<1>4. tableDisk = table
  BY DEF Init
<1> QED
  BY <1>1, <1>2, <1>3, <1>4 DEF NameInv

\* A step that adds no name and does not touch what NameInv says of an inode, but
\* that the inode may become dirty.
InodeSame(k) ==
  /\ incore'[k] = incore[k] /\ mode'[k] = mode[k] /\ table'[k] = table[k]
  /\ idirty'[k] \/ (size'[k] = size[k] /\ ~idirty[k])

\* Such an inode keeps its record and its type.
LEMMA InodeSameKeeps ==
  ASSUME NEW k, InodeSame(k)
  PROVE  (Recorded(k) => Recorded(k)') /\ (Typed(k) => Typed(k)')
  BY DEF InodeSame, Recorded, Typed

\* A step that touches at most inode i, of which only the record and, if an entry
\* names it, the type have to be shown.
LEMMA NameStep ==
  ASSUME NameInv, NoNewName, NEW i,
         \A k \in Inos : k # i => InodeSame(k),
         i \in Inos => Recorded(i)',
         \A d \in Inos, s \in Slots : i \in Inos /\ NamedBy(d, s, i) => Typed(i)',
         tableDirty' \/ tableDisk' = table'
  PROVE  NameInv'
<1>1. \A k \in Inos : Recorded(k)'
  <2> SUFFICES ASSUME NEW k \in Inos PROVE Recorded(k)'
    OBVIOUS
  <2>1. CASE k = i
    BY <2>1
  <2>2. CASE k # i
    BY <2>2, InodeSameKeeps DEF NameInv
  <2> QED
    BY <2>1, <2>2
<1>2. \A k, d \in Inos, s \in Slots : NamedBy(d, s, k)' => Typed(k)'
  <2> SUFFICES ASSUME NEW k \in Inos, NEW d \in Inos, NEW s \in Slots, NamedBy(d, s, k)'
               PROVE  Typed(k)'
    OBVIOUS
  <2>0. NamedBy(d, s, k)
    BY DEF NoNewName
  <2>1. CASE k = i
    BY <2>0, <2>1
  <2>2. CASE k # i
    BY <2>0, <2>2, InodeSameKeeps DEF NameInv
  <2> QED
    BY <2>1, <2>2
<1> QED
  BY <1>1, <1>2 DEF NameInv

\* The steps of the calls.
LEMMA NameCalls ==
  ASSUME TypeInv, UseInv, CallInv, NameInv, NEW t \in Threads,
         \/ \E d \in Parents, name \in Names, kind \in Kinds \ {"tmp"} : CallCreate(t, d, name, kind)
         \/ \E d \in Parents : CallTmpfile(t, d)
         \/ ThreadStep(t)
  PROVE  NameInv'
<1>0. InodesOK /\ PagesOK /\ ThreadsOK /\ 0 \notin Inos
  BY FirstOnes DEF TypeInv
<1>a. tableDirty \/ tableDisk = table
  BY DEF NameInv
<1>b. \A k \in Inos : idirty[k] \in BOOLEAN
  BY <1>0 DEF InodesOK
<1>1. ASSUME NEW d \in Parents, NEW name \in Names, NEW kind \in Kinds \ {"tmp"},
             CallCreate(t, d, name, kind)
      PROVE  NameInv'
  <2>1. /\ UNCHANGED <<incore, mode, size, ents, entsDisk, table, tableDirty, tableDisk>>
        /\ idirty' = [idirty EXCEPT ![d] = TRUE] \/ idirty' = idirty
    BY <1>1 DEF CallCreate, pageVars, tableVars
  <2>2. \A k \in Inos : InodeSame(k)
    BY <1>0, <2>1 DEF InodeSame, InodesOK
  <2>3. NoNewName
    BY <2>1, NamesKept
  <2> QED
    BY <1>0, <1>a, <2>1, <2>2, <2>3, NameStep
<1>2. ASSUME NEW d \in Parents, CallTmpfile(t, d)
      PROVE  NameInv'
  <2>1. UNCHANGED <<incore, mode, size, idirty, ents, entsDisk, table, tableDirty, tableDisk>>
    BY <1>2 DEF CallTmpfile, pageVars, tableVars, inodeVars
  <2>2. \A k \in Inos : InodeSame(k)
    BY <2>1 DEF InodeSame
  <2>3. NoNewName
    BY <2>1, NamesKept
  <2> QED
    BY <1>0, <1>a, <2>1, <2>2, <2>3, NameStep
<1>3. CASE NewInode(t)
  <2>1. PICK i \in Inos \ imap :
          /\ incore' = [incore EXCEPT ![i] = TRUE] /\ idirty' = [idirty EXCEPT ![i] = TRUE]
          /\ \E m : mode' = [mode EXCEPT ![i] = m]
    BY <1>3 DEF NewInode, TakeInode
  <2>2. UNCHANGED <<size, ents, entsDisk, table, tableDirty, tableDisk>>
    BY <1>3 DEF NewInode, TakeInode, pageVars, tableVars
  <2>3. \A k \in Inos : k # i => InodeSame(k)
    BY <1>0, <2>1, <2>2 DEF InodeSame, InodesOK
  <2>4. Recorded(i)'
    BY <1>0, <2>1 DEF Recorded, InodesOK
  <2>5. \A d \in Inos, s \in Slots : ~NamedBy(d, s, i)
    BY <2>1 DEF UseInv
  <2>6. NoNewName
    BY <2>2, NamesKept
  <2> QED
    BY <1>a, <2>2, <2>3, <2>4, <2>5, <2>6, NameStep
<1>4. CASE NewInodeFull(t)
  <2> DEFINE d == op[t].d
             z == idirty[d] \/ op[t].kind = "dir"
  <2>1. /\ UNCHANGED <<incore, mode, size, ents, entsDisk, table, tableDirty, tableDisk>>
        /\ idirty' = [idirty EXCEPT ![d] = z] /\ pc[t] = "new"
    BY <1>4 DEF NewInodeFull, pageVars, tableVars
  <2>2. d \in Inos
    BY <1>0, <2>1, CallDir
  <2>3. (idirty[d] => z) /\ z \in BOOLEAN
    BY <1>b, <2>2
  <2> HIDE DEF z, d
  <2>4. \A k \in Inos : InodeSame(k)
    BY <1>0, <2>1, <2>2, <2>3 DEF InodeSame, InodesOK
  <2>5. NoNewName
    BY <2>1, NamesKept
  <2> QED
    BY <1>0, <1>a, <2>1, <2>4, <2>5, NameStep
<1>5. CASE CloseTmpfile(t)
  <2>0. pc[t] = "open"
    BY <1>5 DEF CloseTmpfile
  <2>i. PICK i \in Inos : i = op[t].ino
    BY <1>0, <2>0 DEF ThreadsOK, CallOK
  <2>1. /\ UNCHANGED <<mode, size, ents, entsDisk, table, tableDirty, tableDisk>>
        /\ incore' = [incore EXCEPT ![i] = FALSE] /\ idirty' = [idirty EXCEPT ![i] = FALSE]
    BY <1>5, <2>i DEF CloseTmpfile, pageVars, tableVars
  <2>2. i \in Inos /\ Holds(t, i)
    BY <2>0, <2>i DEF Holds
  <2>3. \A k \in Inos : k # i => InodeSame(k)
    BY <1>0, <2>1 DEF InodeSame, InodesOK
  <2>4. Recorded(i)'
    BY <1>0, <2>1, <2>2 DEF Recorded, InodesOK
  <2>5. \A d \in Inos, s \in Slots : ~NamedBy(d, s, i)
    BY <2>2 DEF UseInv
  <2>6. NoNewName
    BY <2>1, NamesKept
  <2> QED
    BY <1>a, <2>1, <2>3, <2>4, <2>5, <2>6, NameStep
<1>6. CASE minix_make_empty(t)
  <2> DEFINE i == op[t].ino
  <2>1. /\ UNCHANGED <<incore, mode, table, tableDirty, tableDisk>>
        /\ size' = [size EXCEPT ![i] = 2] /\ idirty' = [idirty EXCEPT ![i] = TRUE]
    BY <1>6 DEF minix_make_empty, tableVars
  <2> HIDE DEF i
  <2>2. \A k \in Inos : InodeSame(k)
    BY <1>0, <2>1 DEF InodeSame, InodesOK
  <2>3. NoNewName
    BY <1>6, NamesKept
  <2> QED
    BY <1>0, <1>a, <2>1, <2>2, <2>3, NameStep
<1>7. CASE minix_add_link(t)
  <2> DEFINE d == op[t].d
             i == op[t].ino
  <2>1. /\ UNCHANGED <<incore, mode, table, tableDirty, tableDisk>> /\ pc[t] = "link"
        /\ \E n : size' = [size EXCEPT ![d] = n]
        /\ idirty' = [idirty EXCEPT ![d] = @ \/ TRUE]
    BY <1>7 DEF minix_add_link, StoreEntry, StoreUpTo, tableVars
  <2>2. /\ op[t].kind \in {"reg", "dir"} /\ i \in Inos /\ incore[i]
        /\ mode[i] = IF op[t].kind = "tmp" THEN "reg" ELSE op[t].kind
    BY <1>0, <2>1, CallFacts DEF NewInodeOf, ThreadsOK, CallOK
  <2>3. Typed(i)
    BY <2>2 DEF Typed
  <2>4. PICK s \in Slots : \A k, c \in Inos, r \in Slots :
          NamedBy(c, r, k)' => NamedBy(c, r, k) \/ (c = d /\ r = s /\ k = i)
    BY <1>7, NamesAdded
  <2> HIDE DEF d, i
  <2>5. \A k \in Inos : InodeSame(k)
    BY <1>0, <2>1 DEF InodeSame, InodesOK
  <2>6. \A k, c \in Inos, r \in Slots : NamedBy(c, r, k)' => Typed(k)
    BY <2>2, <2>3, <2>4 DEF NameInv
  <2>7. \A k, c \in Inos, r \in Slots : NamedBy(c, r, k)' => Typed(k)'
    BY <2>5, <2>6, InodeSameKeeps
  <2>8. \A k \in Inos : Recorded(k)'
    BY <2>5, InodeSameKeeps DEF NameInv
  <2> QED
    BY <1>a, <2>1, <2>7, <2>8 DEF NameInv
<1>8. CASE AddLinkFails(t)
  <2>0. pc[t] = "link"
    BY <1>8 DEF AddLinkFails
  <2>i. PICK i \in Inos : i = op[t].ino
    BY <1>0, <2>0 DEF ThreadsOK, CallOK
  <2> DEFINE d == op[t].d
             y == [idirty EXCEPT ![i] = FALSE]
             z == y[d] \/ LinkBack(t) = 1
  <2>1. /\ UNCHANGED <<mode, size, table, tableDirty, tableDisk>>
        /\ incore' = [incore EXCEPT ![i] = FALSE] /\ idirty' = [y EXCEPT ![d] = z]
    BY <1>8, <2>i DEF AddLinkFails, tableVars
  <2>2. i \in Inos /\ Holds(t, i) /\ d \in Inos /\ d # i
    BY <2>0, <2>i, CallFacts DEF Holds, CallsApart
  <2>3. y[d] = idirty[d] /\ \A k \in Inos : k # i => y[k] = idirty[k]
    BY <1>0, <2>2 DEF InodesOK
  <2>4. y \in [Inos -> BOOLEAN]
    BY <1>0 DEF InodesOK
  <2>5. (idirty[d] => z) /\ z \in BOOLEAN
    BY <1>b, <2>2, <2>3
  <2> HIDE DEF y, z, d
  <2>6. \A k \in Inos : k # i => InodeSame(k)
    BY <1>0, <2>1, <2>2, <2>3, <2>4, <2>5 DEF InodeSame, InodesOK
  <2>7. Recorded(i)'
    BY <1>0, <2>1, <2>2 DEF Recorded, InodesOK
  <2>8. \A c \in Inos, s \in Slots : ~NamedBy(c, s, i)
    BY <2>2 DEF UseInv
  <2>9. NoNewName
    BY <1>8, NamesKept
  <2> QED
    BY <1>a, <2>1, <2>6, <2>7, <2>8, <2>9, NameStep
<1>9. CASE ReturnError(t)
  <2>1. UNCHANGED <<incore, mode, size, idirty, ents, entsDisk, table, tableDirty, tableDisk>>
    BY <1>9 DEF ReturnError, pageVars, tableVars, inodeVars
  <2>2. \A k \in Inos : InodeSame(k)
    BY <2>1 DEF InodeSame
  <2>3. NoNewName
    BY <2>1, NamesKept
  <2> QED
    BY <1>0, <1>a, <2>1, <2>2, <2>3, NameStep
<1> QED
  BY <1>1, <1>2, <1>3, <1>4, <1>5, <1>6, <1>7, <1>8, <1>9 DEF ThreadStep

\* Lookups, readers, write back, eviction and remounts.
LEMMA NameRest ==
  ASSUME TypeInv, NameInv,
         \/ \E d \in Parents, name \in Names : minix_lookup(d, name)
         \/ \E r \in Readers : Rewind(r) \/ \E n \in Sizes : minix_readdir(r, n)
         \/ \E i \in Inos : WriteInode(i) \/ EvictInode(i)
         \/ \E d \in Inos, n \in DirPages : WriteDirPage(d, n)
         \/ FlushTable \/ FlushInodeMap \/ Remount
         \/ UNCHANGED vars
  PROVE  NameInv'
<1>0. InodesOK /\ PagesOK /\ TableOK /\ 0 \notin Inos
  BY FirstOnes DEF TypeInv
<1>a. tableDirty \/ tableDisk = table
  BY DEF NameInv
<1>b. \A k \in Inos : idirty[k] \in BOOLEAN
  BY <1>0 DEF InodesOK
<1>1. ASSUME NEW d \in Parents, NEW name \in Names, minix_lookup(d, name)
      PROVE  NameInv'
  <2>i. PICK i \in Inos : i = minix_inode_by_name(d, name)
    BY <1>1 DEF minix_lookup
  <2>1. /\ incore' = [incore EXCEPT ![i] = TRUE] /\ mode' = [mode EXCEPT ![i] = table[i].mode]
        /\ size' = [size EXCEPT ![i] = table[i].size] /\ table[i].mode \in {"reg", "dir"}
        /\ UNCHANGED <<idirty, table, tableDirty, tableDisk>>
    BY <1>1, <2>i DEF minix_lookup, tableVars
  <2>2. \A k \in Inos : k # i => InodeSame(k)
    BY <1>0, <2>1 DEF InodeSame, InodesOK
  <2>3. table[i] = [mode |-> table[i].mode, size |-> table[i].size]
    BY <1>0 DEF TableOK, Records
  <2>4. incore'[i] /\ mode'[i] = table[i].mode /\ size'[i] = table[i].size
    BY <1>0, <2>1 DEF InodesOK
  <2>5. Recorded(i)' /\ Typed(i)'
    BY <2>1, <2>3, <2>4 DEF Recorded, Typed
  <2>6. NoNewName
    BY <1>1, NamesKept
  <2> QED
    BY <1>a, <2>1, <2>2, <2>5, <2>6, NameStep
<1>2. ASSUME NEW i \in Inos, WriteInode(i)
      PROVE  NameInv'
  <2>1. /\ UNCHANGED <<incore, mode, size, ents, entsDisk>> /\ incore[i]
        /\ idirty' = [idirty EXCEPT ![i] = FALSE] /\ tableDirty' = TRUE
        /\ table' = [table EXCEPT ![i] = [mode |-> mode[i], size |-> size[i]]]
    BY <1>2 DEF WriteInode, pageVars
  <2>2. \A k \in Inos : k # i => InodeSame(k)
    BY <1>0, <2>1 DEF InodeSame, InodesOK, TableOK
  <2>3. table'[i] = [mode |-> mode'[i], size |-> size'[i]]
    BY <1>0, <2>1 DEF TableOK
  <2>4. Recorded(i)'
    BY <2>3 DEF Recorded
  <2>5. Typed(i) => Typed(i)'
    BY <2>1 DEF Typed
  <2>6. NoNewName
    BY <2>1, NamesKept
  <2>7. \A d \in Inos, s \in Slots : NamedBy(d, s, i) => Typed(i)'
    BY <2>5 DEF NameInv
  <2> QED
    BY <2>1, <2>2, <2>4, <2>6, <2>7, NameStep
<1>3. ASSUME NEW i \in Inos, EvictInode(i)
      PROVE  NameInv'
  <2>1. /\ UNCHANGED <<mode, size, idirty, table, tableDirty, tableDisk>>
        /\ incore[i] /\ ~idirty[i] /\ incore' = [incore EXCEPT ![i] = FALSE]
    BY <1>3 DEF EvictInode, tableVars
  <2>2. \A k \in Inos : k # i => InodeSame(k)
    BY <1>0, <2>1 DEF InodeSame, InodesOK
  <2>3. ~incore'[i]
    BY <1>0, <2>1 DEF InodesOK
  <2>4. Recorded(i)'
    BY <2>3 DEF Recorded
  <2>5. table[i] = [mode |-> mode[i], size |-> size[i]]
    BY <2>1 DEF NameInv, Recorded
  <2>6. Typed(i) => Typed(i)'
    BY <2>1, <2>3, <2>5 DEF Typed
  <2>7. NoNewName
    BY <1>3, NamesKept
  <2>8. \A d \in Inos, s \in Slots : NamedBy(d, s, i) => Typed(i)'
    BY <2>6 DEF NameInv
  <2> QED
    BY <1>a, <2>1, <2>2, <2>4, <2>7, <2>8, NameStep
<1>4. ASSUME UNCHANGED <<incore, mode, size, idirty, table>>, NoNewName, tableDirty' \/ tableDisk' = table'
      PROVE  NameInv'
  <2>1. \A k \in Inos : InodeSame(k)
    BY <1>4 DEF InodeSame
  <2> QED
    BY <1>0, <1>4, <2>1, NameStep
<1>5. ASSUME NEW d \in Inos, NEW n \in DirPages, WriteDirPage(d, n)
      PROVE  NameInv'
  <2>1. UNCHANGED <<incore, mode, size, idirty, table, tableDirty, tableDisk>>
    BY <1>5 DEF WriteDirPage, inodeVars, tableVars
  <2>2. NoNewName
    BY <1>5, NamesKept
  <2> QED
    BY <1>a, <1>4, <2>1, <2>2
<1>6. CASE FlushTable
  <2>1. UNCHANGED <<incore, mode, size, idirty, table, ents, entsDisk>> /\ tableDisk' = table
    BY <1>6 DEF FlushTable, inodeVars, pageVars
  <2>2. NoNewName
    BY <2>1, NamesKept
  <2> QED
    BY <1>4, <2>1, <2>2
<1>7. CASE \/ \E r \in Readers : Rewind(r) \/ \E n \in Sizes : minix_readdir(r, n)
           \/ FlushInodeMap \/ UNCHANGED vars
  <2>1. UNCHANGED <<incore, mode, size, idirty, table, tableDirty, tableDisk, ents, entsDisk>>
    BY <1>7 DEF Rewind, minix_readdir, FlushInodeMap, vars, inodeVars, pageVars, tableVars
  <2>2. NoNewName
    BY <2>1, NamesKept
  <2> QED
    BY <1>a, <1>4, <2>1, <2>2
<1>8. CASE Remount
  <2>1. /\ ~tableDirty /\ \A i \in Inos : ~idirty[i]
        /\ incore' = [i \in Inos |-> i = Root]
        /\ mode' = [i \in Inos |-> IF i = Root THEN tableDisk[i].mode ELSE "none"]
        /\ size' = [i \in Inos |-> IF i = Root THEN tableDisk[Root].size ELSE 0]
        /\ table' = tableDisk /\ tableDisk' = tableDisk
    BY <1>8 DEF Remount, LoseMemory
  <2>2. table' = table
    BY <1>a, <2>1
  <2>3. \A i \in Inos : table[i] = [mode |-> table[i].mode, size |-> table[i].size]
    BY <1>0 DEF TableOK, Records
  <2>4. \A i \in Inos : Recorded(i)'
    BY <2>1, <2>2, <2>3 DEF Recorded
  <2>5. ASSUME NEW i \in Inos, Typed(i) PROVE Typed(i)'
    <3>0. Recorded(i) /\ ~idirty[i]
      BY <2>1 DEF NameInv
    <3>a. incore[i] => table[i].mode = mode[i]
      BY <3>0 DEF Recorded
    <3>1. table[i].mode \in {"reg", "dir"}
      BY <2>5, <3>a DEF Typed
    <3>2. CASE i = Root
      <4>1. mode'[i] = table[i].mode /\ incore'[i]
        BY <2>1, <2>2, <3>2
      <4> QED
        BY <3>1, <4>1 DEF Typed
    <3>3. CASE i # Root
      <4>1. ~incore'[i]
        BY <2>1, <3>3
      <4> QED
        BY <2>2, <3>1, <4>1 DEF Typed
    <3> QED
      BY <3>2, <3>3
  <2>6. NoNewName
    BY <1>8, NamesKept
  <2>7. \A i, d \in Inos, s \in Slots : NamedBy(d, s, i)' => Typed(i)'
    BY <2>5, <2>6 DEF NoNewName, NameInv
  <2> QED
    BY <2>1, <2>4, <2>7 DEF NameInv
<1> QED
  BY <1>1, <1>2, <1>3, <1>5, <1>6, <1>7, <1>8
-----------------------------------------------------------------------------
(***************************************************************************)
(* The root directory before any crash: RootInv and ReadersInv             *)
(***************************************************************************)
\* A formatted device: two entries.
LEMMA RootInvInit == Init => RootInv /\ ReadersInv
<1> SUFFICES ASSUME Init PROVE RootInv /\ ReadersInv
  OBVIOUS
<1> DEFINE e0 == Entry(BigEndian(1), ".")
           e1 == Entry(BigEndian(1), "..")
           f == Loaded(Root, 2)
<1>0. Root \in Inos /\ 0 \in Slots /\ 1 \in Slots /\ Slots \subseteq Nat
  BY FirstOnes
<1>1. /\ incore[Root] /\ size[Root] = 2 /\ ents[Root] = f /\ entsDisk[Root] = MkRootDir
      /\ \A t \in Threads : pc[t] = "idle"
      /\ \A r \in Readers : reader[r] = Rewound
  BY <1>0 DEF Init
<1>2. \A s \in Slots : s < 2 => f[s] = MkRootDir[s]
  <2>1. size[Root] \in Sizes
    BY <1>1, FirstOnes
  <2>2. \A s \in Slots : s < 2 => PageOf(s) < NPages(2)
    BY <1>1, <2>1, SearchedIs DEF Searched
  <2> QED
    BY <1>1, <2>2 DEF Loaded
<1>3. MkRootDir[0] = e0 /\ MkRootDir[1] = e1
  BY <1>0 DEF MkRootDir
<1>4. e0.ino # 0 /\ e1.ino # 0 /\ e0.name \notin Names /\ e1.name \notin Names
  <2>1. BigEndian(1) # 0
    BY DEF BigEndian
  <2>2. e0.ino = BigEndian(1) /\ e1.ino = BigEndian(1) /\ e0.name = "." /\ e1.name = ".."
    BY EntryTypes
  <2> QED
    BY <2>1, <2>2, OwnNames
<1>5. \A s \in Slots : s < 2 => s = 0 \/ s = 1
  BY <1>0
<1> HIDE DEF e0, e1, f
<1>6. \A s \in Slots : s < 2 => f[s].ino # 0 /\ f[s].name \notin Names
  BY <1>2, <1>3, <1>4, <1>5
<1>7. RootInv
  BY <1>1, <1>2, <1>6 DEF RootInv
<1>8. ReadersInv
  <2> SUFFICES ASSUME NEW r \in Readers PROVE ReaderInv(r)
    BY DEF ReadersInv
  <2>1. /\ reader[r].pos = 0 /\ reader[r].start = {} /\ \A name \in Names : reader[r].seen[name] = 0
    BY <1>1 DEF Rewound
  <2>2. \A s \in Slots : ~(s < reader[r].pos)
    BY <1>0, <2>1
  <2> QED
    BY <1>1, <2>1, <2>2 DEF ReaderInv
<1> QED
  BY <1>7, <1>8

\* A step that leaves the root directory alone.
RootSame ==
  /\ incore'[Root] = incore[Root] /\ size'[Root] = size[Root] /\ ents'[Root] = ents[Root]
  /\ pdirty'[Root] = pdirty[Root] /\ entsDisk'[Root] = entsDisk[Root]

\* It keeps RootInv, if no call makes the root directory, and ReadersInv.
LEMMA RootKept ==
  ASSUME RootInv, ReadersInv, RootSame
  PROVE  /\ (\A t \in Threads : pc'[t] # "idle" => op'[t].ino # Root) => RootInv'
         /\ reader' = reader => ReadersInv'
<1>1. (\A t \in Threads : pc'[t] # "idle" => op'[t].ino # Root) => RootInv'
  BY DEF RootInv, RootSame
<1>2. reader' = reader => ReadersInv'
  BY DEF ReadersInv, ReaderInv, RootSame
<1> QED
  BY <1>1, <1>2

\* A reader that starts again.
LEMMA RewoundReader ==
  ASSUME NEW r, reader'[r] = Rewound, size'[Root] \in Sizes
  PROVE  ReaderInv(r)'
<1>1. /\ Rewound.pos = 0 /\ Rewound.start = {} /\ \A name \in Names : Rewound.seen[name] = 0
  BY DEF Rewound
<1>2. \A s \in Slots : ~(s < Rewound.pos)
  BY <1>1, FirstOnes
<1>3. Rewound.pos <= size'[Root]
  BY <1>1, PageArithmetic
<1> QED
  BY <1>1, <1>2, <1>3 DEF ReaderInv

\* The steps of the calls, but for minix_add_link.
LEMMA RootCalls ==
  ASSUME TypeInv, UseInv, CallInv, RootInv, ReadersInv, NEW t \in Threads,
         \/ \E d \in Parents, name \in Names, kind \in Kinds \ {"tmp"} : CallCreate(t, d, name, kind)
         \/ \E d \in Parents : CallTmpfile(t, d)
         \/ NewInode(t) \/ NewInodeFull(t) \/ CloseTmpfile(t) \/ minix_make_empty(t)
         \/ AddLinkFails(t) \/ ReturnError(t)
  PROVE  RootInv' /\ ReadersInv'
<1>0. InodesOK /\ PagesOK /\ ThreadsOK /\ Root \in Inos /\ 0 \notin Inos
  BY FirstOnes DEF TypeInv
<1>a. \A u \in Threads : pc[u] # "idle" => op[u].ino # Root
  BY DEF RootInv
<1>b. Root # 0
  BY DEF Root
<1>1. ASSUME NEW p, NEW o, pc' = [pc EXCEPT ![t] = p], op' = [op EXCEPT ![t] = o],
             p # "idle" => o.ino # Root, RootSame, reader' = reader
      PROVE  RootInv' /\ ReadersInv'
  <2>1. \A u \in Threads : pc'[u] # "idle" => op'[u].ino # Root
    <3> SUFFICES ASSUME NEW u \in Threads, pc'[u] # "idle" PROVE op'[u].ino # Root
      OBVIOUS
    <3>1. CASE u = t
      BY <1>0, <1>1, <3>1 DEF ThreadsOK
    <3>2. CASE u # t
      BY <1>0, <1>a, <1>1, <3>2 DEF ThreadsOK
    <3> QED
      BY <3>1, <3>2
  <2> QED
    BY <1>1, <2>1, RootKept
<1>2. ASSUME NEW d \in Parents, NEW name \in Names, NEW kind \in Kinds \ {"tmp"},
             CallCreate(t, d, name, kind)
      PROVE  RootInv' /\ ReadersInv'
  <2> DEFINE o == [kind |-> kind, d |-> d, name |-> name, ino |-> 0,
                   links |-> nlink[d], size |-> size[d], names |-> NamesIn(d)]
  <2>1. /\ pc' = [pc EXCEPT ![t] = "new"] /\ op' = [op EXCEPT ![t] = o]
        /\ UNCHANGED <<incore, size, ents, pdirty, entsDisk, reader>>
    BY <1>2 DEF CallCreate, pageVars
  <2>2. o.ino # Root
    BY <1>b
  <2> HIDE DEF o
  <2>3. RootSame
    BY <2>1 DEF RootSame
  <2> QED
    BY <1>1, <2>1, <2>2, <2>3
<1>3. ASSUME NEW d \in Parents, CallTmpfile(t, d)
      PROVE  RootInv' /\ ReadersInv'
  <2> DEFINE o == [kind |-> "tmp", d |-> d, ino |-> 0]
  <2>1. /\ pc' = [pc EXCEPT ![t] = "new"] /\ op' = [op EXCEPT ![t] = o]
        /\ UNCHANGED <<incore, size, ents, pdirty, entsDisk, reader>>
    BY <1>3 DEF CallTmpfile, pageVars, inodeVars
  <2>2. o.ino # Root
    BY <1>b
  <2> HIDE DEF o
  <2>3. RootSame
    BY <2>1 DEF RootSame
  <2> QED
    BY <1>1, <2>1, <2>2, <2>3
<1>4. CASE NewInode(t)
  <2>1. PICK i \in Inos \ imap :
          incore' = [incore EXCEPT ![i] = TRUE] /\ op' = [op EXCEPT ![t].ino = i]
    BY <1>4 DEF NewInode, TakeInode
  <2>2. /\ UNCHANGED <<size, ents, pdirty, entsDisk, reader>> /\ pc[t] = "new"
        /\ \E p : pc' = [pc EXCEPT ![t] = p]
    BY <1>4 DEF NewInode, TakeInode, pageVars
  <2>3. i # Root /\ op[t] \in CreateCalls \cup TmpCalls
    BY <1>0, <2>1, <2>2, CallDir DEF UseInv
  <2> DEFINE o == [op[t] EXCEPT !.ino = i]
  <2>4. op' = [op EXCEPT ![t] = o] /\ o.ino # Root
    BY <2>1, <2>3, CallWithInode
  <2> HIDE DEF o
  <2>5. RootSame
    BY <1>0, <2>1, <2>2, <2>3 DEF RootSame, InodesOK
  <2> QED
    BY <1>1, <2>2, <2>4, <2>5
<1>5. CASE NewInodeFull(t)
  <2>1. /\ UNCHANGED <<incore, size, ents, pdirty, entsDisk, reader>> /\ pc[t] = "new"
        /\ \E p : pc' = [pc EXCEPT ![t] = p]
        /\ op' = op \/ (op' = [op EXCEPT ![t] = NoOp] /\ pc' = [pc EXCEPT ![t] = "idle"])
    BY <1>5 DEF NewInodeFull, pageVars
  <2>2. RootSame /\ op = [op EXCEPT ![t] = op[t]] /\ op[t].ino # Root
    BY <1>0, <1>a, <2>1 DEF RootSame, ThreadsOK
  <2>3. CASE op' = op
    BY <1>1, <2>1, <2>2, <2>3
  <2>4. CASE op' = [op EXCEPT ![t] = NoOp] /\ pc' = [pc EXCEPT ![t] = "idle"]
    BY <1>1, <2>1, <2>2, <2>4
  <2> QED
    BY <2>1, <2>3, <2>4
<1>6. CASE CloseTmpfile(t)
  <2>1. /\ pc' = [pc EXCEPT ![t] = "idle"] /\ op' = [op EXCEPT ![t] = NoOp]
        /\ incore' = [incore EXCEPT ![op[t].ino] = FALSE] /\ pc[t] = "open"
        /\ UNCHANGED <<size, ents, pdirty, entsDisk, reader>>
    BY <1>6 DEF CloseTmpfile, pageVars
  <2>2. op[t].ino # Root
    BY <1>a, <2>1
  <2>3. RootSame
    BY <1>0, <2>1, <2>2 DEF RootSame, InodesOK
  <2> QED
    BY <1>1, <2>1, <2>3
<1>7. CASE minix_make_empty(t)
  <2> DEFINE f == [NoEntries EXCEPT ![0] = Entry(op[t].ino, "."), ![1] = Entry(op[t].d, "..")]
  <2>1. /\ pc' = [pc EXCEPT ![t] = "link"] /\ op' = op /\ pc[t] = "empty"
        /\ ents' = [ents EXCEPT ![op[t].ino] = f] /\ pdirty' = [pdirty EXCEPT ![op[t].ino] = {0}]
        /\ size' = [size EXCEPT ![op[t].ino] = 2] /\ UNCHANGED <<incore, entsDisk, reader>>
    BY <1>7 DEF minix_make_empty
  <2> HIDE DEF f
  <2>2. op[t].ino # Root /\ op' = [op EXCEPT ![t] = op[t]]
    BY <1>0, <1>a, <2>1 DEF ThreadsOK
  <2>3. RootSame
    BY <1>0, <2>1, <2>2 DEF RootSame, InodesOK, PagesOK
  <2> QED
    BY <1>1, <2>1, <2>2, <2>3
<1>8. CASE AddLinkFails(t)
  <2>1. /\ pc' = [pc EXCEPT ![t] = "failed"] /\ op' = op /\ pc[t] = "link"
        /\ incore' = [incore EXCEPT ![op[t].ino] = FALSE]
        /\ ents' = [ents EXCEPT ![op[t].ino] = NoEntries] /\ pdirty' = [pdirty EXCEPT ![op[t].ino] = {}]
        /\ UNCHANGED <<size, entsDisk, reader>>
    BY <1>8 DEF AddLinkFails
  <2>2. op[t].ino # Root /\ op' = [op EXCEPT ![t] = op[t]]
    BY <1>0, <1>a, <2>1 DEF ThreadsOK
  <2>3. RootSame
    BY <1>0, <2>1, <2>2 DEF RootSame, InodesOK, PagesOK
  <2> QED
    BY <1>1, <2>1, <2>2, <2>3
<1>9. CASE ReturnError(t)
  <2>1. /\ pc' = [pc EXCEPT ![t] = "idle"] /\ op' = [op EXCEPT ![t] = NoOp]
        /\ UNCHANGED <<incore, size, ents, pdirty, entsDisk, reader>>
    BY <1>9 DEF ReturnError, pageVars, inodeVars
  <2>2. RootSame
    BY <2>1 DEF RootSame
  <2> QED
    BY <1>1, <2>1, <2>2
<1> QED
  BY <1>2, <1>3, <1>4, <1>5, <1>6, <1>7, <1>8, <1>9

\* minix_add_link appends to the root directory.
LEMMA RootGrows ==
  ASSUME TypeInv, UseInv, CallInv, RootInv, ReadersInv, NEW t \in Threads, minix_add_link(t)
  PROVE  RootInv' /\ ReadersInv'
<1>0. InodesOK /\ PagesOK /\ ThreadsOK /\ Root \in Inos /\ 0 \notin Inos
  BY FirstOnes DEF TypeInv
<1>1. pc[t] = "link" /\ pc' = [pc EXCEPT ![t] = "idle"] /\ op' = [op EXCEPT ![t] = NoOp]
      /\ UNCHANGED <<incore, entsDisk, reader>>
  BY DEF minix_add_link
<1>2. /\ op[t] \in CreateCalls \cup TmpCalls /\ op[t].d \in Inos /\ op[t].ino \in Inos
      /\ op[t].kind # "tmp" /\ DirAsFound(t)
  BY <1>0, <1>1, CallFacts DEF ThreadsOK, CallOK
<1>3. op[t].name \in Names
  BY <1>2, CallFields
<1>4. \A u \in Threads : pc'[u] # "idle" => op'[u].ino # Root
  <2> SUFFICES ASSUME NEW u \in Threads, pc'[u] # "idle" PROVE op'[u].ino # Root
    OBVIOUS
  <2>1. u # t
    BY <1>0, <1>1 DEF ThreadsOK
  <2> QED
    BY <1>0, <1>1, <2>1 DEF ThreadsOK, RootInv
<1>5. PICK s \in Room(op[t].d, op[t].name) : StoreEntry(t, s)
  BY DEF minix_add_link
<1> DEFINE d == op[t].d
           e == Entry(op[t].ino, op[t].name)
           n == IF s + 1 > size[d] THEN s + 1 ELSE size[d]
           f == [ents[d] EXCEPT ![s] = e]
           q == pdirty[d] \cup {PageOf(s)}
<1>6. /\ ents' = [ents EXCEPT ![d] = f] /\ pdirty' = [pdirty EXCEPT ![d] = q]
      /\ size' = [size EXCEPT ![d] = n]
  BY <1>5 DEF StoreEntry, StoreUpTo
<1>7. e.ino = op[t].ino /\ e.name = op[t].name
  BY EntryTypes
<1>8. CASE d # Root
  <2> HIDE DEF n, f, q
  <2>1. RootSame
    BY <1>0, <1>1, <1>6, <1>8 DEF RootSame, InodesOK, PagesOK
  <2> QED
    BY <1>1, <1>4, <2>1, RootKept
<1>9. CASE d = Root
  <2> DEFINE z == size[Root]
             g == ents[Root]
  <2>1. z \in Sizes /\ z \in Nat /\ s \in Slots /\ s \in Nat /\ Slots \subseteq Nat
    BY <1>0, <1>5, PageArithmetic, SlotPage, FirstOnes DEF InodesOK, Room
  <2>2. \A r \in Slots : r < z => g[r].ino # 0
    BY DEF RootInv
  <2>3. s = z
    BY <1>5, <1>9, <2>1, <2>2, RoomIsEnd
  <2>4. n = s + 1
    BY <1>9, <2>1, <2>3
  <2>5. g \in [Slots -> Entries]
    BY <1>0 DEF PagesOK
  <2> HIDE DEF n, e, q
  <2>6. /\ size'[Root] = s + 1 /\ ents'[Root] = [g EXCEPT ![s] = e] /\ pdirty'[Root] = pdirty[Root] \cup {PageOf(s)}
    <3>1. size'[Root] = n /\ ents'[Root] = f /\ pdirty'[Root] = q
      BY <1>0, <1>6, <1>9 DEF InodesOK, PagesOK
    <3> QED
      BY <1>9, <2>4, <3>1 DEF q
  <2>7. ents'[Root][s] = e /\ \A r \in Slots : r # s => ents'[Root][r] = g[r]
    BY <2>1, <2>5, <2>6
  <2>8. \A r \in Slots : r < s + 1 => r = s \/ r < z
    BY <2>1, <2>3
  <2>9. \A r \in Slots : r < z => g[r].name # op[t].name
    <3>1. op[t].name \notin NamesOf(g, z)
      BY <1>2, <1>9 DEF DirAsFound
    <3> QED
      BY <1>3, <2>2, <3>1 DEF NamesOf
  <2>10. op[t].ino # 0
    BY <1>0, <1>2
  <2>11. \A r \in Slots : r < z => r # s
    BY <2>1, <2>3
  <2>12. RootInv'
    <3>1. \A r \in Slots : r < size'[Root] => ents'[Root][r].ino # 0
      BY <1>7, <2>2, <2>6, <2>7, <2>8, <2>10, <2>11
    <3>2. \A r, k \in Slots : r < size'[Root] /\ k < size'[Root] /\ ents'[Root][r].name = ents'[Root][k].name
            /\ ents'[Root][r].name \in Names => r = k
      <4> SUFFICES ASSUME NEW r \in Slots, NEW k \in Slots, r < size'[Root], k < size'[Root],
                          ents'[Root][r].name = ents'[Root][k].name, ents'[Root][r].name \in Names
                   PROVE  r = k
        OBVIOUS
      <4>1. (r = s \/ r < z) /\ (k = s \/ k < z)
        BY <2>6, <2>8
      <4>2. CASE r < z /\ k < z
        BY <2>7, <2>11, <4>2 DEF RootInv
      <4>3. CASE r = s /\ k < z
        BY <1>7, <2>7, <2>9, <2>11, <4>3
      <4>4. CASE r < z /\ k = s
        BY <1>7, <2>7, <2>9, <2>11, <4>4
      <4> QED
        BY <4>1, <4>2, <4>3, <4>4
    <3>3. \A r \in Slots : r < size'[Root] /\ PageOf(r) \notin pdirty'[Root] => entsDisk'[Root][r] = ents'[Root][r]
      <4> SUFFICES ASSUME NEW r \in Slots, r < size'[Root], PageOf(r) \notin pdirty'[Root]
                   PROVE  entsDisk'[Root][r] = ents'[Root][r]
        OBVIOUS
      <4>1. r # s /\ PageOf(r) \notin pdirty[Root]
        BY <2>6
      <4>2. r < z
        BY <2>6, <2>8, <4>1
      <4> QED
        BY <1>1, <2>7, <4>1, <4>2 DEF RootInv
    <3>4. incore'[Root]
      BY <1>1 DEF RootInv
    <3> QED
      BY <1>4, <3>1, <3>2, <3>3, <3>4 DEF RootInv
  <2>13. ReadersInv'
    <3> SUFFICES ASSUME NEW r \in Readers PROVE ReaderInv(r)'
      BY DEF ReadersInv
    <3>0. reader'[r] = reader[r] /\ reader[r].pos \in Sizes /\ ReaderInv(r)
      BY <1>1 DEF TypeInv, ReadersOK, ReadersInv
    <3>1. reader[r].pos \in Nat /\ reader[r].pos <= z
      BY <3>0, PageArithmetic DEF ReaderInv
    <3>2. \A k \in Slots : k < reader[r].pos => k < z
      BY <2>1, <3>1
    <3>3. \A k \in Slots : k < reader[r].pos => ents'[Root][k] = g[k]
      BY <2>7, <2>11, <3>2
    <3>4. reader[r].start \subseteq NamesOf(ents'[Root], size'[Root])
      <4>1. \A k \in Slots : k < z => k < size'[Root] /\ ents'[Root][k] = g[k]
        BY <2>1, <2>3, <2>6, <2>7, <2>11
      <4>2. NamesOf(g, z) \subseteq NamesOf(ents'[Root], size'[Root])
        BY <4>1 DEF NamesOf
      <4> QED
        BY <3>0, <4>2 DEF ReaderInv
    <3>5. reader[r].pos <= size'[Root]
      BY <2>1, <2>3, <2>6, <3>1
    <3>6. \A name \in Names : (\E k \in Slots : k < reader[r].pos /\ ents'[Root][k].name = name)
                          <=> (\E k \in Slots : k < reader[r].pos /\ ents[Root][k].name = name)
      BY <3>3
    <3> QED
      BY <3>0, <3>4, <3>5, <3>6 DEF ReaderInv
  <2> QED
    BY <2>12, <2>13
<1> QED
  BY <1>8, <1>9

\* A call of readdir emits every name between its positions once.
LEMMA ReaderReads ==
  ASSUME TypeInv, RootInv, ReadersInv, NEW r \in Readers, NEW n \in Sizes, minix_readdir(r, n)
  PROVE  ReaderInv(r)'
<1> DEFINE p == reader[r].pos
           g == ents[Root]
           new == {s \in Searched(Root) : p <= s /\ s < n /\ g[s].ino # 0}
           of(name) == {s \in new : g[s].name = name}
           b == IF p = 0 THEN NamesIn(Root) ELSE reader[r].start
           o == [pos |-> n, seen |-> Emit(r, n), start |-> b]
<1>0. Root \in Inos /\ size[Root] \in Sizes /\ p \in Sizes /\ Slots \subseteq Nat
  BY FirstOnes DEF TypeInv, InodesOK, ReadersOK
<1>1. /\ p < n /\ n <= size[Root] /\ reader' = [reader EXCEPT ![r] = o]
      /\ size' = size /\ ents' = ents
  BY DEF minix_readdir, inodeVars, pageVars
<1>2. n \in Nat /\ p \in Nat /\ size[Root] \in Nat
  BY <1>0, PageArithmetic
<1>3. Searched(Root) = {s \in Slots : s < size[Root]}
  BY <1>0, SearchedIs
<1>4. Emit(r, n) = [name \in Names |-> reader[r].seen[name] + Cardinality(of(name))]
  BY DEF Emit
<1>5. ReaderInv(r)
  BY DEF ReadersInv
<1>6. \A name : of(name) = {s \in Slots : p <= s /\ s < n /\ g[s].name = name}
  <2> SUFFICES ASSUME NEW s \in Slots, p <= s, s < n PROVE s < size[Root] /\ g[s].ino # 0
    BY <1>3
  <2>1. s < size[Root]
    BY <1>0, <1>1, <1>2
  <2> QED
    BY <2>1 DEF RootInv
<1>7. reader'[r].pos = n /\ reader'[r].seen = Emit(r, n) /\ reader'[r].start = b
  <2>1. reader'[r] = o
    BY <1>1 DEF TypeInv, ReadersOK
  <2> QED
    BY <2>1
<1> HIDE DEF of, new, o
<1>8. ASSUME NEW name \in Names
      PROVE  Emit(r, n)[name] = IF \E s \in Slots : s < n /\ g[s].name = name THEN 1 ELSE 0
  <2> DEFINE before == \E s \in Slots : s < p /\ g[s].name = name
  <2>0. reader[r].seen[name] = IF before THEN 1 ELSE 0
    BY <1>5 DEF ReaderInv
  <2>1. CASE before
    <3>1. PICK k \in Slots : k < p /\ g[k].name = name
      BY <2>1
    <3>2. of(name) = {}
      <4> SUFFICES ASSUME NEW s \in of(name) PROVE FALSE
        OBVIOUS
      <4>1. s \in Slots /\ p <= s /\ s < n /\ g[s].name = name
        BY <1>6
      <4>2. s < size[Root] /\ k < size[Root] /\ s # k
        BY <1>0, <1>1, <1>2, <3>1, <4>1
      <4> QED
        BY <3>1, <4>1, <4>2 DEF RootInv
    <3>3. Cardinality(of(name)) = 0
      BY <3>2, FS_EmptySet
    <3>4. k < n
      BY <1>0, <1>1, <1>2, <3>1
    <3> QED
      BY <1>4, <2>0, <2>1, <3>1, <3>3, <3>4
  <2>2. CASE ~before /\ \E s \in Slots : p <= s /\ s < n /\ g[s].name = name
    <3>1. PICK k \in Slots : p <= k /\ k < n /\ g[k].name = name
      BY <2>2
    <3>2. of(name) = {k}
      <4>1. k \in of(name)
        BY <1>6, <3>1
      <4>2. ASSUME NEW s \in of(name) PROVE s = k
        <5>1. s \in Slots /\ s < n /\ g[s].name = name
          BY <1>6, <4>2
        <5>2. s < size[Root] /\ k < size[Root]
          BY <1>0, <1>1, <1>2, <3>1, <5>1
        <5> QED
          BY <3>1, <5>1, <5>2 DEF RootInv
      <4> QED
        BY <4>1, <4>2
    <3>3. Cardinality(of(name)) = 1
      BY <3>2, FS_Singleton
    <3> QED
      BY <1>4, <2>0, <2>2, <3>1, <3>3
  <2>3. CASE ~before /\ ~\E s \in Slots : p <= s /\ s < n /\ g[s].name = name
    <3>1. of(name) = {}
      BY <1>6, <2>3
    <3>2. Cardinality(of(name)) = 0
      BY <3>1, FS_EmptySet
    <3>3. ~\E s \in Slots : s < n /\ g[s].name = name
      BY <1>0, <1>2, <2>3
    <3> QED
      BY <1>4, <2>0, <2>3, <3>2, <3>3
  <2> QED
    BY <2>1, <2>2, <2>3
<1>9. b \subseteq NamesOf(g, size[Root])
  BY <1>0, <1>5, NamesInIs DEF ReaderInv
<1> HIDE DEF b
<1> QED
  BY <1>1, <1>7, <1>8, <1>9 DEF ReaderInv

\* Lookups, readers, write back, eviction and remounts.
LEMMA RootRest ==
  ASSUME TypeInv, NameInv, RootInv, ReadersInv,
         \/ \E d \in Parents, name \in Names : minix_lookup(d, name)
         \/ \E r \in Readers : Rewind(r) \/ \E n \in Sizes : minix_readdir(r, n)
         \/ \E i \in Inos : WriteInode(i) \/ EvictInode(i)
         \/ \E d \in Inos, n \in DirPages : WriteDirPage(d, n)
         \/ FlushTable \/ FlushInodeMap \/ Remount
         \/ UNCHANGED vars
  PROVE  RootInv' /\ ReadersInv'
<1>0. InodesOK /\ PagesOK /\ TableOK /\ ReadersOK /\ Root \in Inos
  BY FirstOnes DEF TypeInv
<1>a. incore[Root] /\ \A u \in Threads : pc[u] # "idle" => op[u].ino # Root
  BY DEF RootInv
<1>b. size[Root] \in Sizes
  BY <1>0 DEF InodesOK
<1>1. ASSUME NEW d \in Parents, NEW name \in Names, minix_lookup(d, name)
      PROVE  RootInv' /\ ReadersInv'
  <2>i. PICK i \in Inos : i = minix_inode_by_name(d, name)
    BY <1>1 DEF minix_lookup
  <2>1. /\ incore' = [incore EXCEPT ![i] = TRUE] /\ size' = [size EXCEPT ![i] = table[i].size]
        /\ ents' = [ents EXCEPT ![i] = Loaded(i, table[i].size)] /\ ~incore[i]
        /\ UNCHANGED <<pdirty, entsDisk, pc, op, reader>>
    BY <1>1, <2>i DEF minix_lookup
  <2>2. RootSame
    BY <1>0, <1>a, <2>1 DEF RootSame, InodesOK, PagesOK
  <2> QED
    BY <1>a, <2>1, <2>2, RootKept
<1>2. ASSUME NEW i \in Inos, EvictInode(i)
      PROVE  RootInv' /\ ReadersInv'
  <2>1. /\ incore' = [incore EXCEPT ![i] = FALSE] /\ ents' = [ents EXCEPT ![i] = NoEntries]
        /\ UNCHANGED <<size, pdirty, entsDisk, pc, op, reader>> /\ i # Root
    BY <1>2 DEF EvictInode, InUse
  <2>2. RootSame
    BY <1>0, <2>1 DEF RootSame, InodesOK, PagesOK
  <2> QED
    BY <1>a, <2>1, <2>2, RootKept
<1>3. ASSUME NEW d \in Inos, NEW n \in DirPages, WriteDirPage(d, n)
      PROVE  RootInv' /\ ReadersInv'
  <2> DEFINE f == [s \in Slots |-> IF PageOf(s) = n THEN ents[d][s] ELSE entsDisk[d][s]]
             q == pdirty[d] \ {n}
  <2>1. /\ entsDisk' = [entsDisk EXCEPT ![d] = f] /\ pdirty' = [pdirty EXCEPT ![d] = q]
        /\ UNCHANGED <<incore, size, ents, pc, op, reader>>
    BY <1>3 DEF WriteDirPage, inodeVars
  <2>2. CASE d # Root
    <3> HIDE DEF f, q
    <3>1. RootSame
      BY <1>0, <2>1, <2>2 DEF RootSame, PagesOK
    <3> QED
      BY <1>a, <2>1, <3>1, RootKept
  <2>3. CASE d = Root
    <3>1. entsDisk'[Root] = f /\ pdirty'[Root] = q
      BY <1>0, <2>1, <2>3 DEF PagesOK
    <3>2. \A s \in Slots : entsDisk'[Root][s] = IF PageOf(s) = n THEN ents[Root][s] ELSE entsDisk[Root][s]
      BY <2>3, <3>1
    <3>3. \A s \in Slots : s < size[Root] /\ PageOf(s) \notin pdirty'[Root] => entsDisk'[Root][s] = ents[Root][s]
      BY <2>3, <3>1, <3>2 DEF RootInv
    <3>4. RootInv'
      BY <2>1, <3>3 DEF RootInv
    <3>5. ReadersInv'
      BY <2>1 DEF ReadersInv, ReaderInv
    <3> QED
      BY <3>4, <3>5
  <2> QED
    BY <2>2, <2>3
<1>4. CASE \/ \E i \in Inos : WriteInode(i)
           \/ FlushTable \/ FlushInodeMap \/ UNCHANGED vars
  <2>1. UNCHANGED <<incore, size, ents, pdirty, entsDisk, pc, op, reader>>
    BY <1>4 DEF WriteInode, FlushTable, FlushInodeMap, vars, inodeVars, pageVars
  <2>2. RootSame
    BY <2>1 DEF RootSame
  <2> QED
    BY <1>a, <2>1, <2>2, RootKept
<1>5. ASSUME NEW r \in Readers, Rewind(r) \/ \E n \in Sizes : minix_readdir(r, n)
      PROVE  RootInv' /\ ReadersInv'
  <2>1. /\ UNCHANGED <<incore, size, ents, pdirty, entsDisk, pc, op>>
        /\ \E o : reader' = [reader EXCEPT ![r] = o]
    BY <1>5 DEF Rewind, minix_readdir, inodeVars, pageVars
  <2>2. RootSame
    BY <2>1 DEF RootSame
  <2>3. RootInv'
    BY <1>a, <2>1, <2>2, RootKept
  <2>4. ReaderInv(r)'
    <3>1. CASE Rewind(r)
      <4>1. reader'[r] = Rewound
        BY <1>0, <3>1 DEF Rewind, ReadersOK
      <4> QED
        BY <1>b, <2>1, <4>1, RewoundReader
    <3>2. CASE \E n \in Sizes : minix_readdir(r, n)
      BY <3>2, ReaderReads
    <3> QED
      BY <1>5, <3>1, <3>2
  <2>5. ASSUME NEW k \in Readers PROVE ReaderInv(k)'
    <3>1. CASE k = r
      BY <2>4, <3>1
    <3>2. CASE k # r
      <4>1. reader'[k] = reader[k] /\ ReaderInv(k)
        BY <1>0, <2>1, <3>2 DEF ReadersOK, ReadersInv
      <4> QED
        BY <2>1, <4>1 DEF ReaderInv
    <3> QED
      BY <3>1, <3>2
  <2> QED
    BY <2>3, <2>5 DEF ReadersInv
<1>6. CASE Remount
  <2> DEFINE n == tableDisk[Root].size
  <2>1. /\ ~tableDirty /\ ~idirty[Root] /\ pdirty[Root] = {} /\ \A u \in Threads : pc[u] = "idle"
        /\ incore' = [i \in Inos |-> i = Root]
        /\ size' = [i \in Inos |-> IF i = Root THEN n ELSE 0]
        /\ ents' = [d \in Inos |-> IF d = Root THEN Loaded(Root, n) ELSE NoEntries]
        /\ pdirty' = [d \in Inos |-> {}]
        /\ reader' = [r \in Readers |-> Rewound]
        /\ UNCHANGED <<entsDisk, pc, op>>
    BY <1>0, <1>6 DEF Remount, LoseMemory
  <2>2. table[Root] = [mode |-> mode[Root], size |-> size[Root]] /\ tableDisk = table
    BY <1>0, <1>a, <2>1 DEF NameInv, Recorded
  <2>3. n = size[Root]
    BY <2>2
  <2> HIDE DEF n
  <2>4. incore'[Root] /\ size'[Root] = size[Root] /\ ents'[Root] = Loaded(Root, n) /\ pdirty'[Root] = {}
    BY <1>0, <2>1, <2>3
  <2>5. \A s \in Slots : s < size[Root] => PageOf(s) < NPages(n)
    BY <1>b, <2>3, SearchedIs DEF Searched
  <2>6. \A s \in Slots : s < size[Root] => ents'[Root][s] = entsDisk[Root][s]
    BY <2>4, <2>5 DEF Loaded
  <2>7. \A s \in Slots : s < size[Root] => entsDisk[Root][s] = ents[Root][s]
    BY <2>1 DEF RootInv
  <2>8. \A s \in Slots : s < size[Root] => ents'[Root][s] = ents[Root][s]
    BY <2>6, <2>7
  <2>9. RootInv'
    <3>1. \A s \in Slots : s < size'[Root] => ents'[Root][s].ino # 0
      BY <2>4, <2>8 DEF RootInv
    <3>2. \A s, r \in Slots : s < size'[Root] /\ r < size'[Root] /\ ents'[Root][s].name = ents'[Root][r].name
            /\ ents'[Root][s].name \in Names => s = r
      BY <2>4, <2>8 DEF RootInv
    <3>3. \A s \in Slots : s < size'[Root] => entsDisk'[Root][s] = ents'[Root][s]
      BY <2>1, <2>4, <2>6
    <3>4. \A u \in Threads : pc'[u] = "idle"
      BY <2>1
    <3> QED
      BY <2>4, <3>1, <3>2, <3>3, <3>4 DEF RootInv
  <2>10. ReadersInv'
    <3> SUFFICES ASSUME NEW r \in Readers PROVE ReaderInv(r)'
      BY DEF ReadersInv
    <3>1. reader'[r] = Rewound /\ size'[Root] \in Sizes
      BY <1>b, <2>1, <2>4
    <3> QED
      BY <3>1, RewoundReader
  <2> QED
    BY <2>9, <2>10
<1> QED
  BY <1>1, <1>2, <1>3, <1>4, <1>5, <1>6

\* The inductive invariant is one.
LEMMA InvNext == Inv /\ [Next]_vars => Inv'
<1> SUFFICES ASSUME Inv, [Next]_vars PROVE Inv'
  OBVIOUS
<1>1. CallsInv /\ CallsInv'
  BY CallsInvNext DEF Inv, CallsInv, NumberInv
<1> SUFFICES ASSUME crashes' = 0 PROVE NameInv' /\ RootInv' /\ ReadersInv'
  BY <1>1 DEF Inv, CallsInv, NumberInv
<1>2. TypeInv
  BY DEF Inv
<1>3. crashes \in Nat /\ (lost => crashes # 0)
  <2>1. crashes \in 0 .. MaxCrashes /\ (lost => crashes # 0)
    BY <1>2, Zenon DEF TypeInv, HistoryOK
  <2> QED
    BY <2>1
<1>4. ~Crash
  BY <1>3 DEF Crash
<1>5. crashes = 0 /\ ~lost
  BY <1>3, <1>4, HistoryKept DEF history
<1>6. UseInv /\ CallInv /\ NameInv /\ RootInv /\ ReadersInv
  BY <1>5 DEF Inv
<1>7. CASE UNCHANGED vars
  BY <1>2, <1>6, <1>7, NameRest, RootRest
<1>8. CASE Next
  <2>1. NameInv'
    BY <1>2, <1>4, <1>6, <1>8, NameCalls, NameRest DEF Next
  <2>2. RootInv' /\ ReadersInv'
    BY <1>2, <1>4, <1>6, <1>8, RootCalls, RootGrows, RootRest DEF Next, ThreadStep
  <2> QED
    BY <2>1, <2>2
<1> QED
  BY <1>7, <1>8

\* It holds always.
LEMMA InvHolds == Spec => []Inv
<1>1. Init => Inv
  BY TypeInvInit, UseInvInit, CallInvInit, NameInvInit, RootInvInit DEF Inv
<1> QED
  BY <1>1, InvNext, PTL DEF Spec

\* Until the machine crashes, every name in a directory leads to an inode that is in
\* memory or whose record has a type, whatever the order in which pages, inodes and
\* table are written, inodes leave memory and the device is mounted again.
THEOREM NamesNeverDangle == Spec => []NoDanglingName
<1>1. Inv => NoDanglingName
  <2> SUFFICES ASSUME Inv, crashes = 0, NEW d \in Inos, NEW s \in Searched(d),
                      ents[d][s].name \in Names, ents[d][s].ino # 0
               PROVE  incore[ents[d][s].ino] \/ table[ents[d][s].ino].mode \in {"reg", "dir"}
    BY DEF NoDanglingName
  <2>1. s \in Slots
    BY DEF Searched
  <2>2. ents[d][s].ino \in Inos
    BY <2>1 DEF Inv, TypeInv, PagesOK, EntryOK
  <2>3. NamedBy(d, s, ents[d][s].ino)
    BY DEF NamedBy
  <2>4. Typed(ents[d][s].ino)
    BY <2>1, <2>2, <2>3 DEF Inv, NameInv
  <2> QED
    BY <2>4 DEF Typed
<1> QED
  BY <1>1, InvHolds, PTL

\* Until the machine crashes, a reader of the root directory sees no name twice and,
\* at the end, every name it began with once, with any buffer sizes, although
\* entries are added between its calls and the directory is mounted again.
THEOREM ReadersSeeNamesOnce == Spec => [](crashes = 0 => ReaddirOnce)
<1>1. Inv => (crashes = 0 => ReaddirOnce)
  <2> SUFFICES ASSUME Inv, crashes = 0, NEW r \in Readers, NEW name \in Names
               PROVE  /\ reader[r].seen[name] <= 1
                      /\ reader[r].pos = size[Root] /\ name \in reader[r].start => reader[r].seen[name] = 1
    BY DEF ReaddirOnce
  <2>1. ReaderInv(r)
    BY DEF Inv, ReadersInv
  <2>2. reader[r].seen[name] = IF \E s \in Slots : s < reader[r].pos /\ ents[Root][s].name = name THEN 1 ELSE 0
    BY <2>1 DEF ReaderInv
  <2>3. ASSUME name \in reader[r].start
        PROVE  \E s \in Slots : s < size[Root] /\ ents[Root][s].name = name
    BY <2>1, <2>3 DEF ReaderInv, NamesOf
  <2> QED
    BY <2>2, <2>3
<1> QED
  BY <1>1, InvHolds, PTL
-----------------------------------------------------------------------------
(***************************************************************************)
(* Directories implement Directory.tla: RefInv                             *)
(***************************************************************************)
\* The size and the entries of a directory as its next reader finds them.
CurSize(d) == IF incore[d] THEN size[d] ELSE table[d].size

\* Those of a directory that is not in memory come from the device.
CurEnts(d) == IF incore[d] THEN ents[d] ELSE entsDisk[d]

\* No entry of the directory has a name of the workload.
Unnamed(d) == \A s \in Slots : ents[d][s].name \notin Names /\ entsDisk[d][s].name \notin Names

\* One inode, as long as no crash lost inode map bits: its record and its clean pages
\* are up to date, only a directory in memory has dirty pages, a number that is free
\* has no entries, and a new inode has no names.
DirOK(d) ==
  /\ Recorded(d)
  /\ incore[d] => \A s \in Slots : s < size[d] /\ PageOf(s) \notin pdirty[d] => entsDisk[d][s] = ents[d][s]
  /\ pdirty[d] # {} => incore[d] /\ mode[d] = "dir"
  /\ d \notin imap => ents[d] = NoEntries /\ entsDisk[d] = NoEntries
  /\ \A t \in Threads : Holds(t, d) => Unnamed(d)

\* Before any crash no name lies behind the size, and every name on the device is
\* there for the next reader.
NoneBehind(d) ==
  /\ incore[d] => \A s \in Slots : ents[d][s].name \in Names => s < size[d]
  /\ \A s \in Slots : entsDisk[d][s].name \in Names => s < CurSize(d) /\ CurEnts(d)[s] = entsDisk[d][s]

\* The inductive invariant for the refinement.
RefInv ==
  /\ ~lost => (tableDirty \/ tableDisk = table) /\ \A d \in Inos : DirOK(d)
  /\ crashes = 0 => \A d \in Inos : NoneBehind(d)

\* A step that leaves an inode alone, but that it may become dirty.
DirSame(k) ==
  /\ incore'[k] = incore[k] /\ mode'[k] = mode[k] /\ size'[k] = size[k] /\ table'[k] = table[k]
  /\ ents'[k] = ents[k] /\ pdirty'[k] = pdirty[k] /\ entsDisk'[k] = entsDisk[k]
  /\ idirty'[k] \/ ~idirty[k]

\* A step that keeps what RefInv says of an inode, and its names.
Kept(k) ==
  /\ DirOK(k)' /\ (NoneBehind(k) => NoneBehind(k)')
  /\ LinksOf(k)' = LinksOf(k)

\* An entry without an inode has no name.
LEMMA NoEntryUnnamed == NoEntry.name \notin Names /\ \A s \in Slots : NoEntries[s] = NoEntry
  BY EntryTypes, OwnNames DEF NoEntry, NoEntries

\* The names of a directory, one by one.
LEMMA LinksOfIs ==
  ASSUME TypeInv, NEW d \in Inos, NEW l
  PROVE  l \in LinksOf(d) <=>
           \E s \in Slots : /\ s < CurSize(d) /\ CurEnts(d)[s].name \in Names
                            /\ l = [dir |-> d, name |-> CurEnts(d)[s].name, ino |-> CurEnts(d)[s].ino]
<1>0. InodesOK /\ PagesOK /\ TableOK
  BY DEF TypeInv
<1>1. size[d] \in Sizes /\ table[d].size \in Sizes
  BY <1>0 DEF InodesOK, TableOK, Records
<1>2. Searched(d) = {s \in Slots : s < size[d]}
  BY <1>1, SearchedIs
<1>3. 0 .. table[d].size - 1 = {s \in Slots : s < table[d].size}
  BY <1>1, Bounds DEF Slots, Sizes
<1>4. (IF incore[d] THEN Searched(d) ELSE 0 .. table[d].size - 1) = {s \in Slots : s < CurSize(d)}
  BY <1>2, <1>3 DEF CurSize
<1>5. \A s \in Slots : CurEnts(d)[s].name \in Names => CurEnts(d)[s].ino # 0
  <2>1. \A s \in Slots : EntryOK(CurEnts(d)[s])
    BY <1>0 DEF PagesOK, CurEnts
  <2> QED
    BY <2>1, FirstOnes DEF EntryOK
<1>6. LinksOf(d) = {[dir |-> d, name |-> CurEnts(d)[s].name, ino |-> CurEnts(d)[s].ino] :
                      s \in {r \in {q \in Slots : q < CurSize(d)} :
                               CurEnts(d)[r].ino # 0 /\ CurEnts(d)[r].name \in Names}}
  BY <1>4 DEF LinksOf, CurEnts
<1> QED
  BY <1>5, <1>6

\* The same for all directories.
NamesAreLinks ==
  \A d \in Inos : \A l :
    l \in LinksOf(d) <=>
      \E s \in Slots : /\ s < CurSize(d) /\ CurEnts(d)[s].name \in Names
                       /\ l = [dir |-> d, name |-> CurEnts(d)[s].name, ino |-> CurEnts(d)[s].ino]

\* It holds before and after a step.
LEMMA LinksAre == (TypeInv => NamesAreLinks) /\ (TypeInv' => NamesAreLinks')
<1>1. TypeInv => NamesAreLinks
  BY LinksOfIs DEF NamesAreLinks
<1>2. TypeInv' => NamesAreLinks'
  BY <1>1, PTL
<1> QED
  BY <1>1, <1>2

\* The same entries with names before the size make the same names.
LEMMA LinksSame ==
  ASSUME TypeInv, TypeInv', NEW d \in Inos,
         \A s \in Slots : s < CurSize(d) /\ CurEnts(d)[s].name \in Names
                            => s < CurSize(d)' /\ CurEnts(d)'[s] = CurEnts(d)[s],
         \A s \in Slots : s < CurSize(d)' /\ CurEnts(d)'[s].name \in Names
                            => s < CurSize(d) /\ CurEnts(d)'[s] = CurEnts(d)[s]
  PROVE  LinksOf(d)' = LinksOf(d)
<1> DEFINE L(f, s) == [dir |-> d, name |-> f[s].name, ino |-> f[s].ino]
<1>1. /\ \A l : l \in LinksOf(d) <=>
                  \E s \in Slots : s < CurSize(d) /\ CurEnts(d)[s].name \in Names /\ l = L(CurEnts(d), s)
      /\ \A l : l \in LinksOf(d)' <=>
                  \E s \in Slots : s < CurSize(d)' /\ CurEnts(d)'[s].name \in Names /\ l = L(CurEnts(d)', s)
  BY LinksAre DEF NamesAreLinks
<1>2. \A s \in Slots : CurEnts(d)'[s] = CurEnts(d)[s] => L(CurEnts(d)', s) = L(CurEnts(d), s)
  OBVIOUS
<1> HIDE DEF L
<1>3. \A l : l \in LinksOf(d)' <=> l \in LinksOf(d)
  BY <1>1, <1>2
<1> QED
  BY <1>3

\* A step that leaves an inode alone and gives it to no thread.
LEMMA DirSameKeeps ==
  ASSUME TypeInv, TypeInv', NEW k \in Inos, DirSame(k), DirOK(k), k \in imap => k \in imap',
         \A u \in Threads : Holds(u, k)' => Holds(u, k)
  PROVE  Kept(k)
<1>1. DirOK(k)'
  <2>1. Recorded(k)'
    BY DEF DirOK, DirSame, Recorded
  <2>2. incore'[k] => \A s \in Slots : s < size'[k] /\ PageOf(s) \notin pdirty'[k] => entsDisk'[k][s] = ents'[k][s]
    BY DEF DirOK, DirSame
  <2>3. pdirty'[k] # {} => incore'[k] /\ mode'[k] = "dir"
    BY DEF DirOK, DirSame
  <2>4. k \notin imap' => ents'[k] = NoEntries /\ entsDisk'[k] = NoEntries
    BY DEF DirOK, DirSame
  <2>5. \A t \in Threads : Holds(t, k)' => Unnamed(k)'
    BY DEF DirOK, DirSame, Unnamed
  <2> QED
    BY <2>1, <2>2, <2>3, <2>4, <2>5 DEF DirOK
<1>2. CurSize(k)' = CurSize(k) /\ CurEnts(k)' = CurEnts(k)
  BY DEF DirSame, CurSize, CurEnts
<1>3. NoneBehind(k) => NoneBehind(k)'
  BY <1>2 DEF NoneBehind, DirSame
<1>4. LinksOf(k)' = LinksOf(k)
  BY <1>2, LinksSame
<1> QED
  BY <1>1, <1>3, <1>4 DEF Kept

\* An inode without names before and after a step.
LEMMA UnnamedKeeps ==
  ASSUME TypeInv, TypeInv', NEW k \in Inos, Unnamed(k), Unnamed(k)', DirOK(k)'
  PROVE  Kept(k)
<1>1. \A s \in Slots : CurEnts(k)[s].name \notin Names
  BY DEF CurEnts, Unnamed
<1>2. \A s \in Slots : CurEnts(k)'[s].name \notin Names
  BY DEF CurEnts, Unnamed
<1>3. NoneBehind(k)'
  BY DEF NoneBehind, Unnamed
<1>4. LinksOf(k)' = LinksOf(k)
  BY <1>1, <1>2, LinksSame
<1> QED
  BY <1>3, <1>4 DEF Kept

\* Slots before the size are in pages that are read.
LEMMA ReadBeforeSize ==
  ASSUME NEW n \in Sizes, NEW s \in Slots, s < n
  PROVE  PageOf(s) < NPages(n)
<1>1. /\ n \in Nat /\ NPages(n) \in Nat /\ NPages(n) * PerPage \in Nat /\ n <= NPages(n) * PerPage
      /\ s \in Nat /\ PageOf(s) \in Nat /\ PageOf(s) * PerPage \in Nat
      /\ s = PageOf(s) * PerPage + (s % PerPage) /\ s % PerPage \in 0 .. PerPage - 1
      /\ PerPage \in Nat
  BY PageArithmetic, SlotPage, Bounds
<1> SUFFICES ASSUME PageOf(s) >= NPages(n) PROVE FALSE
  BY <1>1
<1>2. NPages(n) * PerPage <= PageOf(s) * PerPage
  BY <1>1, MulMono
<1> QED
  BY <1>1, <1>2

\* An inode whose record and entries are read from the device, or that is not in
\* memory, and that no thread has.
FromDevice(k) ==
  /\ pdirty'[k] = {} /\ \A u \in Threads : ~Holds(u, k)'
  /\ incore'[k] => /\ mode'[k] = table'[k].mode /\ size'[k] = table'[k].size
                   /\ ents'[k] = Loaded(k, table'[k].size)
  /\ ~incore'[k] => ents'[k] = NoEntries

\* What RefInv says of it, and its names.
LEMMA FromDeviceHolds ==
  ASSUME TypeInv, TypeInv', NEW k \in Inos, FromDevice(k), entsDisk'[k] = entsDisk[k],
         DirOK(k), k \in imap => k \in imap'
  PROVE  /\ DirOK(k)' /\ CurSize(k)' = table'[k].size
         /\ \A s \in Slots : s < table'[k].size => CurEnts(k)'[s] = entsDisk[k][s]
         /\ incore'[k] => \A s \in Slots : ents'[k][s].name \in Names => ents'[k][s] = entsDisk[k][s]
<1>0. TableOK' /\ InodesOK'
  BY DEF TypeInv
<1>1. table'[k] \in Records /\ table'[k].size \in Sizes
  BY <1>0 DEF TableOK, Records
<1>2. table'[k] = [mode |-> table'[k].mode, size |-> table'[k].size]
  BY <1>1 DEF Records
<1>3. \A s \in Slots : s < table'[k].size => Loaded(k, table'[k].size)[s] = entsDisk[k][s]
  BY <1>1, ReadBeforeSize DEF Loaded
<1>4. CurSize(k)' = table'[k].size
  BY DEF FromDevice, CurSize
<1>5. \A s \in Slots : s < table'[k].size => CurEnts(k)'[s] = entsDisk[k][s]
  BY <1>3 DEF FromDevice, CurEnts
<1>6. incore'[k] => \A s \in Slots : ents'[k][s].name \in Names => ents'[k][s] = entsDisk[k][s]
  BY LoadedNames DEF FromDevice
<1>7. DirOK(k)'
  <2>1. Recorded(k)'
    BY <1>2 DEF FromDevice, Recorded
  <2>2. incore'[k] => \A s \in Slots : s < size'[k] => entsDisk'[k][s] = ents'[k][s]
    BY <1>3 DEF FromDevice
  <2>3. k \notin imap' => ents'[k] = NoEntries /\ entsDisk'[k] = NoEntries
    <3> SUFFICES ASSUME k \notin imap' PROVE ents'[k] = NoEntries /\ entsDisk'[k] = NoEntries
      OBVIOUS
    <3>1. entsDisk[k] = NoEntries
      BY DEF DirOK
    <3>2. Loaded(k, table'[k].size) = NoEntries
      BY <3>1 DEF Loaded, NoEntries
    <3> QED
      BY <3>1, <3>2 DEF FromDevice
  <2> QED
    BY <2>1, <2>2, <2>3 DEF DirOK, FromDevice
<1> QED
  BY <1>4, <1>5, <1>6, <1>7

\* A clean inode comes into memory or leaves it.
LEMMA CleanKeeps ==
  ASSUME TypeInv, TypeInv', NEW k \in Inos, FromDevice(k), entsDisk'[k] = entsDisk[k],
         DirOK(k), k \in imap => k \in imap', table'[k] = table[k],
         incore[k] => ~idirty[k] /\ pdirty[k] = {}
  PROVE  Kept(k)
<1>1. /\ DirOK(k)' /\ CurSize(k)' = table[k].size
      /\ \A s \in Slots : s < table[k].size => CurEnts(k)'[s] = entsDisk[k][s]
      /\ incore'[k] => \A s \in Slots : ents'[k][s].name \in Names => ents'[k][s] = entsDisk[k][s]
  BY FromDeviceHolds
<1>2. CurSize(k) = table[k].size
  BY DEF CurSize, DirOK, Recorded
<1>3. \A s \in Slots : s < table[k].size => CurEnts(k)[s] = entsDisk[k][s]
  BY <1>2 DEF CurEnts, CurSize, DirOK
<1>4. LinksOf(k)' = LinksOf(k)
  BY <1>1, <1>2, <1>3, LinksSame
<1>5. ASSUME NoneBehind(k) PROVE NoneBehind(k)'
  <2>1. \A s \in Slots : entsDisk[k][s].name \in Names => s < table[k].size
    BY <1>2, <1>5 DEF NoneBehind
  <2>2. incore'[k] => size'[k] = table[k].size
    BY DEF FromDevice
  <2>3. incore'[k] => \A s \in Slots : ents'[k][s].name \in Names => s < size'[k]
    BY <1>1, <2>1, <2>2
  <2>4. \A s \in Slots : entsDisk'[k][s].name \in Names => s < CurSize(k)' /\ CurEnts(k)'[s] = entsDisk'[k][s]
    BY <1>1, <2>1
  <2> QED
    BY <2>3, <2>4 DEF NoneBehind
<1> QED
  BY <1>1, <1>4, <1>5 DEF Kept

\* A step that leaves all inodes alone.
LEMMA QuietKeeps ==
  ASSUME TypeInv, TypeInv', \A k \in Inos : DirOK(k), NoNewHolder,
         UNCHANGED <<incore, mode, size, table, ents, pdirty, entsDisk, imap>>,
         \A k \in Inos : idirty'[k] \/ ~idirty[k]
  PROVE  \A k \in Inos : Kept(k)
<1> SUFFICES ASSUME NEW k \in Inos PROVE Kept(k)
  OBVIOUS
<1>1. DirSame(k)
  BY DEF DirSame
<1>2. \A u \in Threads : Holds(u, k)' => Holds(u, k)
  BY DEF NoNewHolder
<1> QED
  BY <1>1, <1>2, DirSameKeeps

\* Calls that begin or return, find no number free, and temporary files that are
\* closed.
LEMMA KeptByCalls ==
  ASSUME TypeInv, TypeInv', UseInv, CallInv, \A k \in Inos : DirOK(k), NEW t \in Threads,
         \/ \E d \in Parents, name \in Names, kind \in Kinds \ {"tmp"} : CallCreate(t, d, name, kind)
         \/ \E d \in Parents : CallTmpfile(t, d)
         \/ NewInodeFull(t) \/ ReturnError(t) \/ CloseTmpfile(t)
  PROVE  \A k \in Inos : Kept(k)
<1>0. InodesOK /\ PagesOK /\ ThreadsOK /\ 0 \notin Inos
  BY FirstOnes DEF TypeInv
<1>1. ASSUME NEW d \in Parents, NEW name \in Names, NEW kind \in Kinds \ {"tmp"},
             CallCreate(t, d, name, kind)
      PROVE  \A k \in Inos : Kept(k)
  <2>1. /\ pc' = [pc EXCEPT ![t] = "new"]
        /\ op' = [op EXCEPT ![t] = [kind |-> kind, d |-> d, name |-> name, ino |-> 0,
                              links |-> nlink[d], size |-> size[d], names |-> NamesIn(d)]]
        /\ UNCHANGED <<incore, mode, size, table, ents, pdirty, entsDisk, imap>>
        /\ idirty' = [idirty EXCEPT ![d] = TRUE] \/ idirty' = idirty
    BY <1>1 DEF CallCreate, pageVars, imapVars, tableVars
  <2>2. NoNewHolder
    BY <1>0, <2>1, HoldersKept
  <2>3. \A k \in Inos : idirty'[k] \/ ~idirty[k]
    BY <1>0, <2>1 DEF InodesOK
  <2> QED
    BY <2>1, <2>2, <2>3, QuietKeeps
<1>2. ASSUME NEW d \in Parents, CallTmpfile(t, d)
      PROVE  \A k \in Inos : Kept(k)
  <2>1. /\ pc' = [pc EXCEPT ![t] = "new"]
        /\ op' = [op EXCEPT ![t] = [kind |-> "tmp", d |-> d, ino |-> 0]]
        /\ UNCHANGED <<incore, mode, size, idirty, table, ents, pdirty, entsDisk, imap>>
    BY <1>2 DEF CallTmpfile, inodeVars, pageVars, imapVars, tableVars
  <2>2. NoNewHolder
    BY <1>0, <2>1, HoldersKept
  <2> QED
    BY <2>1, <2>2, QuietKeeps
<1>3. CASE NewInodeFull(t)
  <2>1. /\ UNCHANGED <<incore, mode, size, table, ents, pdirty, entsDisk, imap>> /\ pc[t] = "new"
        /\ \E p : pc' = [pc EXCEPT ![t] = p]
        /\ op' = op \/ (op' = [op EXCEPT ![t] = NoOp] /\ pc' = [pc EXCEPT ![t] = "idle"])
        /\ idirty' = [idirty EXCEPT ![op[t].d] = @ \/ op[t].kind = "dir"]
    BY <1>3 DEF NewInodeFull, pageVars, imapVars, tableVars
  <2>2. op[t].ino = 0 /\ op = [op EXCEPT ![t] = op[t]]
    BY <1>0, <2>1 DEF ThreadsOK, CallOK
  <2>3. NoNewHolder
    BY <1>0, <2>1, <2>2, HoldersKept
  <2>4. \A k \in Inos : idirty'[k] \/ ~idirty[k]
    BY <1>0, <2>1 DEF InodesOK
  <2> QED
    BY <2>1, <2>3, <2>4, QuietKeeps
<1>4. CASE ReturnError(t)
  <2>1. /\ UNCHANGED <<incore, mode, size, idirty, table, ents, pdirty, entsDisk, imap>>
        /\ pc' = [pc EXCEPT ![t] = "idle"] /\ op' = [op EXCEPT ![t] = NoOp]
    BY <1>4 DEF ReturnError, inodeVars, pageVars, imapVars, tableVars
  <2>2. NoNewHolder
    BY <1>0, <2>1, HoldersKept
  <2> QED
    BY <2>1, <2>2, QuietKeeps
<1>5. CASE CloseTmpfile(t)
  <2>0. PICK i \in Inos : i = op[t].ino
    BY <1>0, <1>5 DEF CloseTmpfile, ThreadsOK, CallOK
  <2>1. /\ pc[t] = "open" /\ pc' = [pc EXCEPT ![t] = "idle"] /\ op' = [op EXCEPT ![t] = NoOp]
        /\ incore' = [incore EXCEPT ![i] = FALSE] /\ idirty' = [idirty EXCEPT ![i] = FALSE]
        /\ UNCHANGED <<mode, size, table, ents, pdirty, entsDisk, imap>>
    BY <1>5, <2>0 DEF CloseTmpfile, pageVars, imapVars, tableVars
  <2>2. NoNewHolder
    BY <1>0, <2>1, HoldersKept
  <2>3. Holds(t, i) /\ i \in imap /\ op[t].kind = "tmp" /\ mode[i] = "reg"
    BY <1>0, <2>0, <2>1, CallFacts DEF ThreadsOK, CallOK, NewInodeOf
  <2>4. Unnamed(i) /\ pdirty[i] = {}
    BY <2>3 DEF DirOK
  <2>5. Unnamed(i)' /\ ~incore'[i]
    BY <1>0, <2>1, <2>3, <2>4 DEF Unnamed, InodesOK
  <2>6. DirOK(i)'
    BY <2>1, <2>3, <2>4, <2>5 DEF DirOK, Recorded
  <2>7. Kept(i)
    BY <2>3, <2>4, <2>5, <2>6, UnnamedKeeps
  <2>8. ASSUME NEW k \in Inos, k # i PROVE Kept(k)
    <3>1. DirSame(k)
      BY <1>0, <2>1, <2>8 DEF DirSame, InodesOK
    <3>2. \A u \in Threads : Holds(u, k)' => Holds(u, k)
      BY <2>2 DEF NoNewHolder
    <3> QED
      BY <2>1, <3>1, <3>2, DirSameKeeps
  <2> QED
    BY <2>7, <2>8
<1> QED
  BY <1>1, <1>2, <1>3, <1>4, <1>5

\* A call gets its inode, whose number was free.
LEMMA KeptByNewInode ==
  ASSUME TypeInv, TypeInv', UseInv, CallInv, \A k \in Inos : DirOK(k), NEW t \in Threads, NewInode(t)
  PROVE  \A k \in Inos : Kept(k)
<1>0. InodesOK /\ PagesOK /\ ThreadsOK /\ 0 \notin Inos
  BY FirstOnes DEF TypeInv
<1>1. PICK i \in Inos \ imap :
        /\ imap' = imap \cup {i} /\ incore' = [incore EXCEPT ![i] = TRUE]
        /\ \E m : mode' = [mode EXCEPT ![i] = m]
        /\ idirty' = [idirty EXCEPT ![i] = TRUE] /\ op' = [op EXCEPT ![t].ino = i]
  BY DEF NewInode, TakeInode
<1>2. /\ pc[t] = "new" /\ \E p : pc' = [pc EXCEPT ![t] = p]
      /\ UNCHANGED <<size, table, ents, pdirty, entsDisk>>
  BY DEF NewInode, TakeInode, pageVars, tableVars
<1>3. op[t] \in CreateCalls \cup TmpCalls
  BY <1>0, <1>2, CallDir
<1>4. op'[t].ino = i
  BY <1>0, <1>1, <1>3, CallWithInode DEF ThreadsOK
<1>5. \A u \in Threads, k \in Inos : k # i /\ Holds(u, k)' => Holds(u, k)
  BY <1>0, <1>1, <1>2, <1>4 DEF Holds, ThreadsOK
<1>6. ~incore[i] /\ ents[i] = NoEntries /\ entsDisk[i] = NoEntries /\ pdirty[i] = {}
  BY <1>1 DEF UseInv, DirOK
<1>7. Unnamed(i) /\ Unnamed(i)'
  BY <1>2, <1>6, NoEntryUnnamed DEF Unnamed
<1>8. incore'[i] /\ idirty'[i] /\ i \in imap'
  BY <1>0, <1>1 DEF InodesOK
<1>9. DirOK(i)'
  BY <1>2, <1>6, <1>7, <1>8 DEF DirOK, Recorded
<1>10. Kept(i)
  BY <1>7, <1>9, UnnamedKeeps
<1>11. ASSUME NEW k \in Inos, k # i PROVE Kept(k)
  <2>1. DirSame(k)
    BY <1>0, <1>1, <1>2, <1>11 DEF DirSame, InodesOK
  <2> QED
    BY <1>1, <1>5, <1>11, <2>1, DirSameKeeps
<1> QED
  BY <1>10, <1>11

\* mkdir writes "." and "..", or a link fails and the new inode is dropped.
LEMMA KeptByMkdir ==
  ASSUME TypeInv, TypeInv', UseInv, CallInv, \A k \in Inos : DirOK(k), NEW t \in Threads,
         minix_make_empty(t) \/ AddLinkFails(t)
  PROVE  \A k \in Inos : Kept(k)
<1>0. InodesOK /\ PagesOK /\ ThreadsOK /\ 0 \notin Inos
  BY FirstOnes DEF TypeInv
<1>p. PICK i \in Inos : i = op[t].ino
  BY <1>0 DEF minix_make_empty, AddLinkFails, ThreadsOK, CallOK
<1>1. /\ pc[t] \in {"empty", "link"} /\ \E p : pc' = [pc EXCEPT ![t] = p]
      /\ op' = op /\ UNCHANGED <<mode, entsDisk, table, imap>>
  BY DEF minix_make_empty, AddLinkFails, tableVars, imapVars
<1>2. NoNewHolder
  <2>1. op' = [op EXCEPT ![t] = op[t]]
    BY <1>0, <1>1 DEF ThreadsOK
  <2> QED
    BY <1>0, <1>1, <2>1, HoldersKept
<1>3. Holds(t, i) /\ i \in imap /\ incore[i] /\ op[t].d # i /\ op[t].d \in Inos
  BY <1>0, <1>p, <1>1, CallFacts DEF ThreadsOK, CallOK, NewInodeOf, CallsApart
<1>4. Unnamed(i)
  BY <1>3 DEF DirOK
<1>5. CASE minix_make_empty(t)
  <2> DEFINE e == Entry(i, ".")
             g == Entry(op[t].d, "..")
             f == [NoEntries EXCEPT ![0] = e, ![1] = g]
  <2>1. /\ pc[t] = "empty" /\ ents' = [ents EXCEPT ![i] = f] /\ pdirty' = [pdirty EXCEPT ![i] = {0}]
        /\ size' = [size EXCEPT ![i] = 2] /\ idirty' = [idirty EXCEPT ![i] = TRUE]
        /\ incore' = incore
    BY <1>5, <1>p DEF minix_make_empty
  <2>2. mode[i] = "dir"
    BY <1>0, <1>p, <2>1, CallFacts DEF NewInodeOf, ThreadsOK, CallOK
  <2>3. \A s \in Slots : f[s].name \notin Names
    <3>1. e.name = "." /\ g.name = ".." /\ NoEntry.name \notin Names
      BY EntryTypes, NoEntryUnnamed
    <3> HIDE DEF e, g
    <3>2. \A s \in Slots : f[s] = IF s = 1 THEN g ELSE IF s = 0 THEN e ELSE NoEntry
      BY DEF NoEntries
    <3> QED
      BY <3>1, <3>2, OwnNames
  <2> HIDE DEF f
  <2>4. ents'[i] = f /\ pdirty'[i] = {0} /\ size'[i] = 2 /\ idirty'[i]
    BY <1>0, <1>3, <2>1 DEF InodesOK, PagesOK
  <2>5. Unnamed(i)'
    BY <1>1, <1>4, <2>3, <2>4 DEF Unnamed
  <2>6. \A s \in Slots : s < 2 => PageOf(s) = 0
    BY Bounds, FirstOnes DEF PageOf
  <2>7. DirOK(i)'
    BY <1>1, <1>3, <2>1, <2>2, <2>4, <2>5, <2>6 DEF DirOK, Recorded
  <2>8. Kept(i)
    BY <1>3, <1>4, <2>5, <2>7, UnnamedKeeps
  <2>9. ASSUME NEW k \in Inos, k # i PROVE Kept(k)
    <3>1. DirSame(k)
      BY <1>0, <1>1, <2>1, <2>9 DEF DirSame, InodesOK, PagesOK
    <3>2. \A u \in Threads : Holds(u, k)' => Holds(u, k)
      BY <1>2 DEF NoNewHolder
    <3> QED
      BY <1>1, <3>1, <3>2, DirSameKeeps
  <2> QED
    BY <2>8, <2>9
<1>6. CASE AddLinkFails(t)
  <2> DEFINE back == LinkBack(t)
  <2>1. /\ idirty' = [[idirty EXCEPT ![i] = FALSE] EXCEPT ![op[t].d] = @ \/ back = 1]
        /\ incore' = [incore EXCEPT ![i] = FALSE] /\ ents' = [ents EXCEPT ![i] = NoEntries]
        /\ pdirty' = [pdirty EXCEPT ![i] = {}] /\ size' = size
    BY <1>6, <1>p DEF AddLinkFails
  <2> HIDE DEF back
  <2>2. ents'[i] = NoEntries /\ pdirty'[i] = {} /\ ~incore'[i]
    BY <1>0, <1>3, <2>1 DEF InodesOK, PagesOK
  <2>3. Unnamed(i)'
    BY <1>1, <1>4, <2>2, NoEntryUnnamed DEF Unnamed
  <2>4. DirOK(i)'
    BY <1>1, <1>3, <2>2, <2>3 DEF DirOK, Recorded
  <2>5. Kept(i)
    BY <1>3, <1>4, <2>3, <2>4, UnnamedKeeps
  <2>6. ASSUME NEW k \in Inos, k # i PROVE Kept(k)
    <3>1. idirty'[k] \/ ~idirty[k]
      BY <1>0, <1>3, <2>1, <2>6 DEF InodesOK
    <3>2. DirSame(k)
      BY <1>0, <1>1, <2>1, <2>6, <3>1 DEF DirSame, InodesOK, PagesOK
    <3>3. \A u \in Threads : Holds(u, k)' => Holds(u, k)
      BY <1>2 DEF NoNewHolder
    <3> QED
      BY <1>1, <3>2, <3>3, DirSameKeeps
  <2> QED
    BY <2>5, <2>6
<1> QED
  BY <1>5, <1>6

\* Lookups, readers, write back, eviction and unmount.
LEMMA KeptByRest ==
  ASSUME TypeInv, TypeInv', UseInv, CallInv, \A k \in Inos : DirOK(k), tableDirty \/ tableDisk = table,
         \/ \E d \in Parents, name \in Names : minix_lookup(d, name)
         \/ \E r \in Readers : Rewind(r) \/ \E n \in Sizes : minix_readdir(r, n)
         \/ \E i \in Inos : WriteInode(i) \/ EvictInode(i)
         \/ \E d \in Inos, n \in DirPages : WriteDirPage(d, n)
         \/ FlushTable \/ FlushInodeMap \/ Remount \/ UNCHANGED vars
  PROVE  \A k \in Inos : Kept(k)
<1>0. InodesOK /\ PagesOK /\ TableOK /\ ThreadsOK /\ 0 \notin Inos
  BY FirstOnes DEF TypeInv
<1>1. ASSUME NEW d \in Parents, NEW name \in Names, minix_lookup(d, name)
      PROVE  \A k \in Inos : Kept(k)
  <2>1. PICK i \in Inos : i = minix_inode_by_name(d, name)
    BY <1>1 DEF minix_lookup
  <2>2. /\ ~incore[i]
        /\ incore' = [incore EXCEPT ![i] = TRUE] /\ mode' = [mode EXCEPT ![i] = table[i].mode]
        /\ size' = [size EXCEPT ![i] = table[i].size]
        /\ ents' = [ents EXCEPT ![i] = Loaded(i, table[i].size)]
        /\ UNCHANGED <<idirty, pdirty, entsDisk, table, imap, pc, op>>
    BY <1>1, <2>1 DEF minix_lookup, tableVars, imapVars
  <2>3. d \in Inos /\ i # 0
    BY <2>1, FirstOnes
  <2>4. PICK s \in Searched(d) : Matches(d, s, name) /\ ents[d][s].ino = i
    BY <2>1, <2>3, FoundByName
  <2>5. s \in Slots /\ NamedBy(d, s, i)
    BY <2>4 DEF Searched, Matches, NamedBy
  <2>6. \A u \in Threads : ~Holds(u, i)
    BY <2>3, <2>5 DEF UseInv
  <2>7. NoNewHolder
    BY <2>2, UseFrame
  <2>8. FromDevice(i)
    <3>1. pdirty[i] = {}
      BY <2>2 DEF DirOK
    <3>2. \A u \in Threads : ~Holds(u, i)'
      BY <2>6, <2>7 DEF NoNewHolder
    <3>3. incore'[i] /\ mode'[i] = table[i].mode /\ size'[i] = table[i].size /\ ents'[i] = Loaded(i, table[i].size)
      BY <1>0, <2>2 DEF InodesOK, PagesOK
    <3> QED
      BY <2>2, <3>1, <3>2, <3>3 DEF FromDevice
  <2>9. Kept(i)
    BY <2>2, <2>8, CleanKeeps
  <2>10. ASSUME NEW k \in Inos, k # i PROVE Kept(k)
    <3>1. DirSame(k)
      BY <1>0, <2>2, <2>10 DEF DirSame, InodesOK, PagesOK
    <3>2. \A u \in Threads : Holds(u, k)' => Holds(u, k)
      BY <2>7 DEF NoNewHolder
    <3> QED
      BY <2>2, <3>1, <3>2, DirSameKeeps
  <2> QED
    BY <2>9, <2>10
<1>2. CASE \/ \E r \in Readers : Rewind(r) \/ \E n \in Sizes : minix_readdir(r, n)
           \/ FlushTable \/ FlushInodeMap \/ UNCHANGED vars
  <2>1. UNCHANGED <<incore, mode, size, idirty, table, ents, pdirty, entsDisk, imap, pc, op>>
    BY <1>2 DEF Rewind, minix_readdir, FlushTable, FlushInodeMap, vars, inodeVars, pageVars,
       tableVars, imapVars
  <2> QED
    BY <2>1, UseFrame, QuietKeeps
<1>3. ASSUME NEW i \in Inos, WriteInode(i)
      PROVE  \A k \in Inos : Kept(k)
  <2>1. /\ incore[i] /\ idirty' = [idirty EXCEPT ![i] = FALSE]
        /\ table' = [table EXCEPT ![i] = [mode |-> mode[i], size |-> size[i]]]
        /\ UNCHANGED <<incore, mode, size, ents, pdirty, entsDisk, imap, pc, op>>
    BY <1>3 DEF WriteInode, pageVars, imapVars
  <2>2. NoNewHolder
    BY <2>1, UseFrame
  <2>3. \A u \in Threads, k \in Inos : Holds(u, k)' => Holds(u, k)
    BY <2>2 DEF NoNewHolder
  <2>4. Kept(i)
    <3>1. table'[i] = [mode |-> mode[i], size |-> size[i]]
      BY <1>0, <2>1 DEF TableOK
    <3>2. Recorded(i)'
      BY <2>1, <3>1 DEF Recorded
    <3>3. \A t \in Threads : Holds(t, i)' => Unnamed(i)'
      BY <2>1, <2>3 DEF DirOK, Unnamed
    <3>4. DirOK(i)'
      BY <2>1, <3>2, <3>3 DEF DirOK
    <3>5. CurSize(i)' = CurSize(i) /\ CurEnts(i)' = CurEnts(i)
      BY <2>1 DEF CurSize, CurEnts
    <3>6. NoneBehind(i) => NoneBehind(i)'
      BY <2>1, <3>5 DEF NoneBehind
    <3>7. LinksOf(i)' = LinksOf(i)
      BY <3>5, LinksSame
    <3> QED
      BY <3>4, <3>6, <3>7 DEF Kept
  <2>5. ASSUME NEW k \in Inos, k # i PROVE Kept(k)
    <3>1. DirSame(k)
      BY <1>0, <2>1, <2>5 DEF DirSame, InodesOK, TableOK
    <3> QED
      BY <2>1, <2>3, <3>1, DirSameKeeps
  <2> QED
    BY <2>4, <2>5
<1>4. ASSUME NEW i \in Inos, EvictInode(i)
      PROVE  \A k \in Inos : Kept(k)
  <2>1. /\ ~idirty[i] /\ pdirty[i] = {} /\ ~InUse(i)
        /\ incore' = [incore EXCEPT ![i] = FALSE] /\ ents' = [ents EXCEPT ![i] = NoEntries]
        /\ UNCHANGED <<mode, size, idirty, pdirty, entsDisk, table, imap, pc, op>>
    BY <1>4 DEF EvictInode, tableVars, imapVars
  <2>2. NoNewHolder
    BY <2>1, UseFrame
  <2>3. \A u \in Threads : ~Holds(u, i)'
    BY <2>1, <2>2 DEF NoNewHolder, Holds, InUse
  <2>4. ~incore'[i] /\ ents'[i] = NoEntries
    BY <1>0, <2>1 DEF InodesOK, PagesOK
  <2>5. FromDevice(i)
    BY <2>1, <2>3, <2>4 DEF FromDevice
  <2>6. Kept(i)
    BY <2>1, <2>5, CleanKeeps
  <2>7. ASSUME NEW k \in Inos, k # i PROVE Kept(k)
    <3>1. DirSame(k)
      BY <1>0, <2>1, <2>7 DEF DirSame, InodesOK, PagesOK
    <3>2. \A u \in Threads : Holds(u, k)' => Holds(u, k)
      BY <2>2 DEF NoNewHolder
    <3> QED
      BY <2>1, <3>1, <3>2, DirSameKeeps
  <2> QED
    BY <2>6, <2>7
<1>5. ASSUME NEW d \in Inos, NEW n \in DirPages, WriteDirPage(d, n)
      PROVE  \A k \in Inos : Kept(k)
  <2>1. /\ n \in pdirty[d] /\ pdirty' = [pdirty EXCEPT ![d] = @ \ {n}]
        /\ entsDisk' = [entsDisk EXCEPT ![d] = [s \in Slots |-> IF PageOf(s) = n THEN ents[d][s] ELSE @[s]]]
        /\ UNCHANGED <<incore, mode, size, idirty, ents, table, imap, pc, op>>
    BY <1>5 DEF WriteDirPage, inodeVars, tableVars, imapVars
  <2>2. NoNewHolder
    BY <2>1, UseFrame
  <2>3. \A u \in Threads, k \in Inos : Holds(u, k)' => Holds(u, k)
    BY <2>2 DEF NoNewHolder
  <2>4. incore[d] /\ mode[d] = "dir" /\ d \in imap
    BY <2>1 DEF DirOK, UseInv
  <2>5. /\ pdirty'[d] = pdirty[d] \ {n}
        /\ \A s \in Slots : entsDisk'[d][s] = IF PageOf(s) = n THEN ents[d][s] ELSE entsDisk[d][s]
    BY <1>0, <2>1 DEF PagesOK
  <2>6. Kept(d)
    <3>1. \A t \in Threads : Holds(t, d)' => Unnamed(d)'
      <4> SUFFICES ASSUME NEW t \in Threads, Holds(t, d)' PROVE Unnamed(d)'
        OBVIOUS
      <4>1. Unnamed(d)
        BY <2>3 DEF DirOK
      <4> QED
        BY <2>1, <2>5, <4>1 DEF Unnamed
    <3>2. \A s \in Slots : s < size'[d] /\ PageOf(s) \notin pdirty'[d] => entsDisk'[d][s] = ents'[d][s]
      BY <2>1, <2>4, <2>5 DEF DirOK
    <3>3. Recorded(d)'
      BY <2>1 DEF DirOK, Recorded
    <3>4. DirOK(d)'
      BY <2>1, <2>4, <3>1, <3>2, <3>3 DEF DirOK
    <3>5. /\ CurSize(d)' = size[d] /\ CurEnts(d)' = ents[d]
          /\ CurSize(d) = size[d] /\ CurEnts(d) = ents[d]
      BY <2>1, <2>4 DEF CurSize, CurEnts
    <3>6. NoneBehind(d) => NoneBehind(d)'
      BY <2>1, <2>4, <2>5, <3>5 DEF NoneBehind
    <3>7. LinksOf(d)' = LinksOf(d)
      BY <3>5, LinksSame
    <3> QED
      BY <3>4, <3>6, <3>7 DEF Kept
  <2>7. ASSUME NEW k \in Inos, k # d PROVE Kept(k)
    <3>1. DirSame(k)
      BY <1>0, <2>1, <2>7 DEF DirSame, PagesOK
    <3> QED
      BY <2>1, <2>3, <3>1, DirSameKeeps
  <2> QED
    BY <2>6, <2>7
<1>6. CASE Remount
  <2>1. LoseMemory /\ UNCHANGED <<pc, op>> /\ ~tableDirty /\ ~imapDirty
    BY <1>6 DEF Remount
  <2>2. /\ \A i \in Inos : ~idirty[i] /\ pdirty[i] = {}
        /\ \A u \in Threads : pc[u] = "idle"
    BY <1>6 DEF Remount
  <2> SUFFICES ASSUME NEW k \in Inos PROVE Kept(k)
    OBVIOUS
  <2>3. table' = table /\ imap' = imap /\ entsDisk' = entsDisk
    BY <2>1 DEF LoseMemory, UseInv
  <2>4. /\ incore'[k] <=> k = Root
        /\ k = Root => /\ mode'[k] = table[k].mode /\ size'[k] = table[k].size
                       /\ ents'[k] = Loaded(k, table[k].size)
        /\ k # Root => ents'[k] = NoEntries
        /\ pdirty'[k] = {}
    BY <2>1 DEF LoseMemory
  <2>5. \A u \in Threads : ~Holds(u, k)'
    BY <2>1, <2>2 DEF Holds
  <2>6. FromDevice(k)
    BY <2>3, <2>4, <2>5 DEF FromDevice
  <2> QED
    BY <2>2, <2>3, <2>6, CleanKeeps
<1> QED
  BY <1>1, <1>2, <1>3, <1>4, <1>5, <1>6

\* minix_add_link adds one name, which its directory has not, for a number that has
\* no name.
LEMMA LinkAdded ==
  ASSUME TypeInv, TypeInv', UseInv, CallInv, \A k \in Inos : DirOK(k), NEW t \in Threads, minix_add_link(t)
  PROVE  /\ \A k \in Inos : DirOK(k)' /\ (NoneBehind(k) => NoneBehind(k)')
         /\ \E d \in Inos : \E l :
              /\ LinksOf(d)' = LinksOf(d) \cup {l}
              /\ \A k \in Inos : k # d => LinksOf(k)' = LinksOf(k)
              /\ \A k \in Inos : \A m \in LinksOf(k) : m.ino # l.ino /\ (m.dir = l.dir => m.name # l.name)
<1>0. InodesOK /\ PagesOK /\ ThreadsOK /\ 0 \notin Inos
  BY FirstOnes DEF TypeInv
<1>1. /\ pc[t] = "link" /\ pc' = [pc EXCEPT ![t] = "idle"] /\ op' = [op EXCEPT ![t] = NoOp]
      /\ UNCHANGED <<incore, mode, table, entsDisk, imap>>
  BY DEF minix_add_link, tableVars, imapVars
<1>2. /\ op[t] \in CreateCalls \cup TmpCalls /\ op[t].d \in Inos /\ op[t].ino \in Inos
      /\ op[t].kind # "tmp" /\ DirAsFound(t) /\ DirStays(t) /\ op[t].d \in imap /\ Holds(t, op[t].ino)
  BY <1>0, <1>1, CallFacts DEF ThreadsOK, CallOK
<1>3. PICK d \in Inos, i \in Inos, name \in Names : d = op[t].d /\ i = op[t].ino /\ name = op[t].name
  BY <1>2, CallFields
<1>4. PICK s \in Room(d, name) : StoreEntry(t, s)
  BY <1>3 DEF minix_add_link
<1>5. PICK e : e = Entry(i, name)
  OBVIOUS
<1>6. e.ino = i /\ e.name = name
  BY <1>5, EntryTypes
<1>7. /\ ents' = [ents EXCEPT ![d][s] = e] /\ pdirty' = [pdirty EXCEPT ![d] = @ \cup {PageOf(s)}]
      /\ size' = [size EXCEPT ![d] = IF s + 1 > @ THEN s + 1 ELSE @]
      /\ idirty' = [idirty EXCEPT ![d] = @ \/ TRUE]
  BY <1>3, <1>4, <1>5 DEF StoreEntry, StoreUpTo
<1>8. size[d] \in Sizes /\ size[d] \in Nat /\ Slots \subseteq Nat
  BY <1>0, PageArithmetic, FirstOnes DEF InodesOK
<1>9. s \in Slots /\ s <= size[d] /\ (s < size[d] => ents[d][s].ino = 0)
  BY <1>4, <1>8, RoomIsFree
<1>10. s < size[d] => ents[d][s].name \notin Names
  BY <1>0, <1>9 DEF PagesOK, EntryOK
<1>11. /\ ents'[d][s] = e /\ \A r \in Slots : r # s => ents'[d][r] = ents[d][r]
       /\ pdirty'[d] = pdirty[d] \cup {PageOf(s)} /\ idirty'[d]
       /\ size'[d] = IF s + 1 > size[d] THEN s + 1 ELSE size[d]
  BY <1>0, <1>7, <1>9 DEF InodesOK, PagesOK
<1>12. \A r \in Slots : r < size'[d] <=> r = s \/ r < size[d]
  BY <1>8, <1>9, <1>11
<1>13. incore[d] /\ mode[d] = "dir" /\ d \in imap
  BY <1>2, <1>3 DEF DirStays
<1>14. NoNewHolder /\ \A u \in Threads : ~Holds(u, d)'
  <2>1. NoNewHolder
    BY <1>0, <1>1, HoldersKept
  <2>2. \A u \in Threads : ~Holds(u, d)
    <3> SUFFICES ASSUME NEW u \in Threads, Holds(u, d) PROVE FALSE
      OBVIOUS
    <3>1. pc[u] # "idle" /\ op[u].ino = d
      BY DEF Holds
    <3>2. CallsApart(t, u)
      BY <1>1, <3>1 DEF CallInv
    <3> QED
      BY <1>3, <3>1, <3>2 DEF CallsApart
  <2> QED
    BY <2>1, <2>2 DEF NoNewHolder
<1>15. ASSUME NEW k \in Inos, k # d PROVE Kept(k)
  <2>1. DirSame(k)
    BY <1>0, <1>1, <1>7, <1>15 DEF DirSame, InodesOK, PagesOK
  <2>2. \A u \in Threads : Holds(u, k)' => Holds(u, k)
    BY <1>14 DEF NoNewHolder
  <2> QED
    BY <1>1, <2>1, <2>2, DirSameKeeps
<1>16. DirOK(d)'
  <2>1. Recorded(d)'
    BY <1>11 DEF Recorded
  <2>2. \A r \in Slots : r < size'[d] /\ PageOf(r) \notin pdirty'[d] => entsDisk'[d][r] = ents'[d][r]
    <3> SUFFICES ASSUME NEW r \in Slots, r < size'[d], PageOf(r) \notin pdirty'[d]
                 PROVE  entsDisk'[d][r] = ents'[d][r]
      OBVIOUS
    <3>1. r # s /\ PageOf(r) \notin pdirty[d]
      BY <1>11
    <3>2. r < size[d]
      BY <1>12, <3>1
    <3> QED
      BY <1>1, <1>11, <1>13, <3>1, <3>2 DEF DirOK
  <2> QED
    BY <1>1, <1>13, <1>14, <2>1, <2>2 DEF DirOK
<1>17. /\ CurSize(d)' = size'[d] /\ CurEnts(d)' = ents'[d]
       /\ CurSize(d) = size[d] /\ CurEnts(d) = ents[d]
  BY <1>1, <1>13 DEF CurSize, CurEnts
<1>18. ASSUME NoneBehind(d) PROVE NoneBehind(d)'
  <2>1. \A r \in Slots : ents'[d][r].name \in Names => r < size'[d]
    BY <1>11, <1>12, <1>13, <1>18 DEF NoneBehind
  <2>2. ASSUME NEW r \in Slots, entsDisk[d][r].name \in Names
        PROVE  r < size'[d] /\ ents'[d][r] = entsDisk[d][r]
    <3>1. r < size[d] /\ ents[d][r] = entsDisk[d][r]
      BY <1>17, <1>18, <2>2 DEF NoneBehind
    <3>2. r # s
      BY <1>8, <1>10, <2>2, <3>1
    <3> QED
      BY <1>11, <1>12, <3>1, <3>2
  <2> QED
    BY <1>1, <1>17, <2>1, <2>2 DEF NoneBehind
<1>19. PICK l : l = [dir |-> d, name |-> name, ino |-> i]
  OBVIOUS
<1>20. LinksOf(d)' = LinksOf(d) \cup {l}
  <2> DEFINE L(f, r) == [dir |-> d, name |-> f[r].name, ino |-> f[r].ino]
  <2>1. /\ \A m : m \in LinksOf(d) <=>
                    \E r \in Slots : r < size[d] /\ ents[d][r].name \in Names /\ m = L(ents[d], r)
        /\ \A m : m \in LinksOf(d)' <=>
                    \E r \in Slots : r < size'[d] /\ ents'[d][r].name \in Names /\ m = L(ents'[d], r)
    <3>1. NamesAreLinks /\ NamesAreLinks'
      BY LinksAre
    <3> QED
      BY <1>17, <3>1 DEF NamesAreLinks
  <2>2. L(ents'[d], s) = l /\ ents'[d][s].name \in Names
    BY <1>6, <1>11, <1>19
  <2>3. \A r \in Slots : r # s => L(ents'[d], r) = L(ents[d], r) /\ ents'[d][r].name = ents[d][r].name
    BY <1>11
  <2> HIDE DEF L
  <2>4. \A r \in Slots : r < size[d] /\ ents[d][r].name \in Names => r # s
    BY <1>10
  <2>5. \A m : m \in LinksOf(d)' <=> m \in LinksOf(d) \/ m = l
    BY <1>9, <1>12, <2>1, <2>2, <2>3, <2>4
  <2> QED
    BY <2>5
<1>21. ASSUME NEW k \in Inos, NEW m \in LinksOf(k)
       PROVE  m.ino # l.ino /\ (m.dir = l.dir => m.name # l.name)
  <2>1. PICK r \in Slots : /\ r < CurSize(k) /\ CurEnts(k)[r].name \in Names
                           /\ m = [dir |-> k, name |-> CurEnts(k)[r].name, ino |-> CurEnts(k)[r].ino]
    BY <1>21, LinksOfIs
  <2>2. l.dir = d /\ l.name = name /\ l.ino = i
    BY <1>19
  <2>3. m.dir = k /\ m.name = CurEnts(k)[r].name /\ m.ino = CurEnts(k)[r].ino
    BY <2>1
  <2>4. m.ino # i
    <3>1. NamedBy(k, r, CurEnts(k)[r].ino)
      BY <2>1 DEF NamedBy, CurEnts
    <3> QED
      BY <1>2, <1>3, <2>3, <3>1 DEF UseInv
  <2>5. ASSUME k = d PROVE m.name # name
    <3>1. op[t].name \notin NamesOf(ents[d], size[d])
      BY <1>2, <1>3 DEF DirAsFound
    <3>2. r < size[d] /\ ents[d][r].name \in Names
      BY <1>17, <2>1, <2>5
    <3>3. ents[d][r].ino # 0
      BY <1>0, <3>2 DEF PagesOK, EntryOK
    <3>4. ents[d][r].name \in NamesOf(ents[d], size[d])
      BY <3>2, <3>3 DEF NamesOf
    <3> QED
      BY <1>3, <1>17, <2>3, <2>5, <3>1, <3>4
  <2> QED
    BY <2>2, <2>3, <2>4, <2>5
<1>22. \A k \in Inos : DirOK(k)' /\ (NoneBehind(k) => NoneBehind(k)')
  BY <1>15, <1>16, <1>18 DEF Kept
<1>23. \A k \in Inos : k # d => LinksOf(k)' = LinksOf(k)
  BY <1>15 DEF Kept
<1> QED
  BY <1>20, <1>21, <1>22, <1>23

\* A crash leaves what the device has: before any other crash, those are names that
\* were there.
LEMMA CrashLoses ==
  ASSUME TypeInv, TypeInv', Crash, \A k \in Inos : DirOK(k)
  PROVE  /\ \A k \in Inos : NoneBehind(k) => LinksOf(k)' \subseteq LinksOf(k)
         /\ UseInv /\ ~lost' => \A k \in Inos : DirOK(k)'
<1>1. LoseMemory /\ \A u \in Threads : pc'[u] = "idle"
  BY DEF Crash
<1>2. UseInv /\ ~lost' => imap' = imap
  BY <1>1 DEF Crash, LoseMemory, UseInv
<1>3. ASSUME NEW k \in Inos PROVE FromDevice(k) /\ entsDisk'[k] = entsDisk[k]
  <2>1. \A u \in Threads : ~Holds(u, k)'
    BY <1>1 DEF Holds
  <2>2. /\ incore'[k] <=> k = Root
        /\ k = Root => /\ mode'[k] = tableDisk[k].mode /\ size'[k] = tableDisk[k].size
                       /\ ents'[k] = Loaded(k, tableDisk[k].size)
        /\ k # Root => ents'[k] = NoEntries
        /\ pdirty'[k] = {} /\ table' = tableDisk /\ entsDisk' = entsDisk
    BY <1>1 DEF LoseMemory
  <2> QED
    BY <2>1, <2>2 DEF FromDevice
<1>4. ASSUME UseInv, ~lost', NEW k \in Inos PROVE DirOK(k)'
  BY <1>2, <1>3, <1>4, FromDeviceHolds
<1>5. ASSUME NEW k \in Inos, NoneBehind(k) PROVE LinksOf(k)' \subseteq LinksOf(k)
  <2> SUFFICES ASSUME NEW m \in LinksOf(k)' PROVE m \in LinksOf(k)
    OBVIOUS
  <2>1. PICK r \in Slots : /\ r < CurSize(k)' /\ CurEnts(k)'[r].name \in Names
                           /\ m = [dir |-> k, name |-> CurEnts(k)'[r].name, ino |-> CurEnts(k)'[r].ino]
    BY LinksAre DEF NamesAreLinks
  <2>2. CurEnts(k)'[r] = entsDisk[k][r]
    <3>1. FromDevice(k) /\ entsDisk'[k] = entsDisk[k]
      BY <1>3
    <3>2. CASE incore'[k]
      BY <2>1, <3>1, <3>2, LoadedNames DEF CurEnts, FromDevice
    <3>3. CASE ~incore'[k]
      BY <3>1, <3>3 DEF CurEnts
    <3> QED
      BY <3>2, <3>3
  <2>3. r < CurSize(k) /\ CurEnts(k)[r] = entsDisk[k][r]
    BY <1>5, <2>1, <2>2 DEF NoneBehind
  <2> QED
    BY <2>1, <2>2, <2>3, LinksOfIs
<1> QED
  BY <1>4, <1>5

\* A formatted device.
LEMMA RefInvInit == Init => RefInv /\ \A d \in Inos : LinksOf(d) = {}
<1> SUFFICES ASSUME Init PROVE RefInv /\ \A d \in Inos : LinksOf(d) = {}
  OBVIOUS
<1>0. TypeInv /\ NameInv /\ RootInv /\ Root \in imap
  BY TypeInvInit, NameInvInit, RootInvInit, UseInvInit DEF UseInv
<1>1. /\ incore = [i \in Inos |-> i = Root] /\ pdirty = [d \in Inos |-> {}]
      /\ imap = {Root} /\ pc = [t \in Threads |-> "idle"]
      /\ entsDisk = [d \in Inos |-> IF d = Root THEN MkRootDir ELSE NoEntries]
      /\ ents = [d \in Inos |-> IF d = Root THEN Loaded(Root, 2) ELSE NoEntries]
  BY DEF Init
<1>2. \A d \in Inos : Unnamed(d)
  BY InitUnnamed DEF Unnamed
<1>3. ASSUME NEW d \in Inos PROVE DirOK(d)
  <2>1. Recorded(d) /\ pdirty[d] = {} /\ \A t \in Threads : ~Holds(t, d)
    BY <1>0, <1>1 DEF NameInv, Holds
  <2>2. incore[d] => \A s \in Slots : s < size[d] /\ PageOf(s) \notin pdirty[d] => entsDisk[d][s] = ents[d][s]
    BY <1>0, <1>1 DEF RootInv
  <2>3. d \notin imap => ents[d] = NoEntries /\ entsDisk[d] = NoEntries
    BY <1>1
  <2> QED
    BY <2>1, <2>2, <2>3 DEF DirOK
<1>4. ASSUME NEW d \in Inos PROVE NoneBehind(d)
  BY <1>2 DEF NoneBehind, Unnamed
<1>5. ASSUME NEW d \in Inos PROVE LinksOf(d) = {}
  <2>1. \A s \in Slots : CurEnts(d)[s].name \notin Names
    BY <1>2 DEF CurEnts, Unnamed
  <2>2. \A l : l \notin LinksOf(d)
    BY <1>0, <2>1, LinksOfIs
  <2> QED
    BY <2>2
<1>6. tableDirty \/ tableDisk = table
  BY <1>0 DEF NameInv
<1> QED
  BY <1>3, <1>4, <1>5, <1>6 DEF RefInv

\* The device's copy of the inode table is behind only where the buffer is dirty.
LEMMA TableKept ==
  ASSUME tableDirty \/ tableDisk = table, [Next]_vars
  PROVE  tableDirty' \/ tableDisk' = table'
<1>1. CASE UNCHANGED vars
  BY <1>1 DEF vars, tableVars
<1>2. ASSUME NEW t \in Threads,
             \/ \E d \in Parents, name \in Names, kind \in Kinds \ {"tmp"} : CallCreate(t, d, name, kind)
             \/ \E d \in Parents : CallTmpfile(t, d)
             \/ ThreadStep(t)
      PROVE  UNCHANGED tableVars
  BY <1>2 DEF ThreadStep, CallCreate, CallTmpfile, NewInode, TakeInode, NewInodeFull, CloseTmpfile,
     minix_make_empty, minix_add_link, AddLinkFails, ReturnError
<1>3. CASE \/ \E d \in Parents, name \in Names : minix_lookup(d, name)
           \/ \E r \in Readers : Rewind(r) \/ \E n \in Sizes : minix_readdir(r, n)
           \/ \E i \in Inos : EvictInode(i)
           \/ \E d \in Inos, n \in DirPages : WriteDirPage(d, n)
           \/ FlushInodeMap
  <2>1. UNCHANGED tableVars
    BY <1>3 DEF minix_lookup, Rewind, minix_readdir, EvictInode, WriteDirPage, FlushInodeMap
  <2> QED
    BY <2>1 DEF tableVars
<1>4. CASE (\E i \in Inos : WriteInode(i)) \/ FlushTable \/ Remount \/ Crash
  BY <1>4 DEF WriteInode, FlushTable, Remount, Crash, LoseMemory
<1> QED
  BY <1>1, <1>2, <1>3, <1>4 DEF Next, tableVars

\* What a step is to the names: a crash, minix_add_link, or a step that keeps them.
LEMMA StepKinds ==
  ASSUME TypeInv, TypeInv', UseInv, CallInv, tableDirty \/ tableDisk = table,
         \A k \in Inos : DirOK(k), [Next]_vars
  PROVE  Crash \/ (\E t \in Threads : minix_add_link(t)) \/ \A k \in Inos : Kept(k)
<1>1. CASE UNCHANGED vars
  BY <1>1, KeptByRest
<1>2. CASE Next
  BY <1>2, KeptByCalls, KeptByNewInode, KeptByMkdir, KeptByRest DEF Next, ThreadStep
<1> QED
  BY <1>1, <1>2

\* Every step keeps RefInv.
LEMMA RefInvNext == Inv /\ RefInv /\ [Next]_vars => RefInv'
<1> SUFFICES ASSUME Inv, RefInv, [Next]_vars PROVE RefInv'
  OBVIOUS
<1>1. TypeInv /\ TypeInv'
  BY InvNext DEF Inv
<1>2. crashes \in Nat /\ (lost => crashes # 0) /\ (lost' => crashes' # 0)
  <2>1. crashes \in 0 .. MaxCrashes /\ (lost => crashes # 0) /\ (lost' => crashes' # 0)
    BY <1>1, Zenon DEF TypeInv, HistoryOK
  <2> QED
    BY <2>1
<1> SUFFICES ASSUME ~lost' PROVE RefInv'
  BY <1>2 DEF RefInv
<1>3. ~lost
  BY HistoryKept DEF Crash, history
<1>4. UseInv /\ CallInv /\ (tableDirty \/ tableDisk = table) /\ \A d \in Inos : DirOK(d)
  BY <1>3 DEF Inv, RefInv
<1>5. tableDirty' \/ tableDisk' = table'
  BY <1>4, TableKept
<1>6. CASE Crash
  <2>1. crashes' # 0
    BY <1>2, <1>6 DEF Crash
  <2>2. \A d \in Inos : DirOK(d)'
    BY <1>1, <1>4, <1>6, CrashLoses
  <2> QED
    BY <1>5, <2>1, <2>2 DEF RefInv
<1>7. CASE ~Crash
  <2>1. \A d \in Inos : DirOK(d)' /\ (NoneBehind(d) => NoneBehind(d)')
    BY <1>1, <1>4, <1>7, StepKinds, LinkAdded DEF Kept
  <2>2. crashes' = crashes
    BY <1>7, HistoryKept DEF history
  <2> QED
    BY <1>5, <2>1, <2>2 DEF RefInv
<1> QED
  BY <1>6, <1>7

\* It holds always.
LEMMA RefInvHolds == Spec => []RefInv
<1>1. Init => RefInv
  BY RefInvInit
<1> QED
  BY <1>1, RefInvNext, InvHolds, PTL DEF Spec

\* All names.
AllLinks == UNION {LinksOf(d) : d \in Inos}

\* They are those of the directories.
LEMMA AllLinksAre ==
  /\ \A l : l \in AllLinks <=> \E d \in Inos : l \in LinksOf(d)
  /\ \A l : l \in AllLinks' <=> \E d \in Inos : l \in LinksOf(d)'
  BY DEF AllLinks

\* Every step is a step of Directory.tla, or changes nothing there.
LEMMA StepRefines ==
  ASSUME MaxCrashes <= 1, Inv, RefInv, ~lost, [Next]_vars
  PROVE  Abstract!Next \/ UNCHANGED <<AllLinks, crashes>>
<1>1. TypeInv /\ TypeInv' /\ UseInv /\ CallInv /\ (tableDirty \/ tableDisk = table)
      /\ \A d \in Inos : DirOK(d)
  BY InvNext DEF Inv, RefInv
<1>2. crashes \in 0 .. MaxCrashes /\ MaxCrashes \in Nat
  BY <1>1, Zenon, DirAssumption DEF TypeInv, HistoryOK
<1>3. CASE Crash
  <2>1. crashes = 0
    BY <1>2, <1>3 DEF Crash
  <2>2. \A d \in Inos : LinksOf(d)' \subseteq LinksOf(d)
    BY <1>1, <1>3, <2>1, CrashLoses DEF RefInv
  <2>3. AllLinks' \subseteq AllLinks
    BY <2>2, AllLinksAre
  <2>4. Abstract!Crash
    BY <1>3, <2>3 DEF Abstract!Crash, AllLinks, Crash
  <2> QED
    BY <2>4 DEF Abstract!Next
<1>4. ASSUME NEW t \in Threads, minix_add_link(t)
      PROVE  Abstract!Next
  <2>0. PICK d \in Inos : \E l :
          /\ LinksOf(d)' = LinksOf(d) \cup {l}
          /\ \A k \in Inos : k # d => LinksOf(k)' = LinksOf(k)
          /\ \A k \in Inos : \A m \in LinksOf(k) : m.ino # l.ino /\ (m.dir = l.dir => m.name # l.name)
    BY <1>1, <1>4, LinkAdded
  <2>1. PICK l :
          /\ LinksOf(d)' = LinksOf(d) \cup {l}
          /\ \A k \in Inos : k # d => LinksOf(k)' = LinksOf(k)
          /\ \A k \in Inos : \A m \in LinksOf(k) : m.ino # l.ino /\ (m.dir = l.dir => m.name # l.name)
    BY <2>0
  <2>2. \A m : m \in AllLinks' <=> m \in AllLinks \/ m = l
    BY <2>1, AllLinksAre
  <2>3. \A m \in AllLinks : m.ino # l.ino /\ (m.dir = l.dir => m.name # l.name)
    BY <2>1, AllLinksAre
  <2>4. l \in AllLinks' \ AllLinks /\ AllLinks' = AllLinks \cup {l}
    BY <2>2, <2>3
  <2>5. crashes' = crashes
    BY <1>4 DEF minix_add_link, history
  <2>6. Abstract!Link
    BY <2>3, <2>4, <2>5 DEF Abstract!Link, AllLinks
  <2> QED
    BY <2>6 DEF Abstract!Next
<1>5. CASE ~Crash /\ \A k \in Inos : Kept(k)
  <2>1. crashes' = crashes
    BY <1>5, HistoryKept DEF history
  <2>2. \A k \in Inos : LinksOf(k)' = LinksOf(k)
    BY <1>5 DEF Kept
  <2>3. AllLinks' = AllLinks
    BY <2>2, AllLinksAre
  <2> QED
    BY <2>1, <2>3
<1> QED
  BY <1>1, <1>3, <1>4, <1>5, StepKinds

\* Directories implement the map from names to numbers of Directory.tla, for any
\* number of threads, names, directories, inodes and pages, with at most one crash
\* that does not lose inode map bits: no order of write back, lookup, eviction and
\* remount loses or changes a name, every new name is free and gets a number without
\* a name, and the crash brings back no name.
THEOREM DirectoriesImplemented ==
  ASSUME MaxCrashes <= 1
  PROVE  Spec /\ []~lost => DirectorySpec
<1>1. Init => Abstract!Init
  <2> SUFFICES ASSUME Init PROVE Abstract!Init
    OBVIOUS
  <2>1. \A d \in Inos : LinksOf(d) = {}
    BY RefInvInit
  <2>2. AllLinks = {}
    BY <2>1, AllLinksAre
  <2> QED
    BY <2>2 DEF Abstract!Init, AllLinks, Init
<1>2. Inv /\ RefInv /\ ~lost /\ [Next]_vars => [Abstract!Next]_<<UNION {LinksOf(d) : d \in Inos}, crashes>>
  BY StepRefines DEF AllLinks
<1> QED
  BY <1>1, <1>2, InvHolds, RefInvHolds, PTL DEF Spec, DirectorySpec, Abstract!Spec
=============================================================================
