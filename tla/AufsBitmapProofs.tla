-------------------------- MODULE AufsBitmapProofs --------------------------
(***************************************************************************)
(* Proofs about AufsBitmap for any number of threads, map blocks and bits. *)
(***************************************************************************)
EXTENDS AufsBitmap, AufsGeometryProofs

-----------------------------------------------------------------------------
(***************************************************************************)
(* Numbers                                                                 *)
(***************************************************************************)
\* The number of a bit is a natural number and belongs to the map.
LEMMA BitNoType ==
  ASSUME NEW b \in Nat, NEW x \in Bits
  PROVE  BitNo(b, x) \in Nat
<1>1. b * BitsPerBlock \in Nat
  BY BitmapAssumption
<1> QED
  BY <1>1, BitmapAssumption DEF BitNo, BitNumber, Bits

\* The first block of a zone is never 0, the answer of a failed aufs_new_zone.
LEMMA ZoneBlockType ==
  ASSUME NEW n \in Nat
  PROVE  ZoneBlock(n) \in Nat \ {0}
<1>1. 1 + InodeMapBlocks + ZoneMapBlocks + InodeBlocks \in Nat
  BY BitmapAssumption
<1> QED
  BY <1>1, ZoneBlockPositive, BitmapAssumption DEF ZoneBlock

\* No two bits of the zone map stand for zones with the same first block.
LEMMA ZoneBlockOfBitInjective ==
  ASSUME NEW b \in ZBlocks, NEW c \in ZBlocks, NEW x \in Bits, NEW y \in Bits,
         ZoneBlock(BitNo(b, x)) = ZoneBlock(BitNo(c, y))
  PROVE  b = c /\ x = y
<1>1. b \in Nat /\ c \in Nat
  BY BitmapAssumption DEF ZBlocks
<1>2. BitNo(b, x) \in Nat /\ BitNo(c, y) \in Nat
  BY <1>1, BitNoType
<1>3. 1 + InodeMapBlocks + ZoneMapBlocks + InodeBlocks \in Nat
  BY BitmapAssumption
<1>4. BitNo(b, x) = BitNo(c, y)
  BY <1>2, <1>3, ZoneBlockInjective, BitmapAssumption DEF ZoneBlock
<1> QED
  BY <1>1, <1>4, BitNumberInjective, BitmapAssumption DEF BitNo, Bits

-----------------------------------------------------------------------------
(***************************************************************************)
(* Types                                                                   *)
(***************************************************************************)
\* The initial maps and variables have their types.
LEMMA InitTypeOK == Init => TypeOK
  BY BitmapAssumption DEF Init, TypeOK, BitsOf, Bits

\* minix_find_first_zero_bit answers with a zero bit or the number of bits.
LEMMA FindFirstZeroType ==
  ASSUME NEW t \in Threads, NEW set \in SUBSET Bits, FindFirstZero(t, set),
         j \in [Threads -> 0 .. BitsPerBlock]
  PROVE  /\ j' \in [Threads -> 0 .. BitsPerBlock]
         /\ j' = [j EXCEPT ![t] = j'[t]]
         /\ j'[t] \in Bits => j'[t] \notin set
  BY BitmapAssumption DEF FindFirstZero, Bits

\* Every step of aufs_new_zone keeps the types.
LEMMA ZoneStepTypeOK ==
  ASSUME NEW t \in Threads, TypeOK, ControlOK, ZoneCall(t) \/ NewZone(t)
  PROVE  TypeOK'
<1> USE BitmapAssumption
<1>1. CASE ZoneCall(t)
  BY <1>1 DEF TypeOK, ZoneCall, Goto, ZonePcs, InodePcs, mapVars, diskVars, outVars
<1>2. CASE ZoneLock(t)
  BY <1>2 DEF TypeOK, ZoneLock, Goto, SpinLock, ZonePcs, InodePcs, mapVars, diskVars, outVars
<1>3. CASE ZoneFail(t)
  BY <1>3 DEF TypeOK, ZoneFail, Goto, ZonePcs, InodePcs, mapVars, diskVars, outVars
<1>4. CASE ZoneFind(t)
  <2>1. zmap[i[t]] \in SUBSET Bits
    BY <1>4 DEF TypeOK, ControlOK, ZoneFind, Goto
  <2>2. j' \in [Threads -> 0 .. BitsPerBlock]
    BY <1>4, <2>1, FindFirstZeroType DEF ZoneFind, TypeOK
  <2> QED
    BY <1>4, <2>2 DEF TypeOK, ZoneFind, Goto, ZonePcs, InodePcs, mapVars, diskVars, outVars
<1>5. CASE ZoneSet(t)
  <2>1. i[t] \in ZBlocks /\ j[t] \in Bits
    BY <1>5 DEF TypeOK, ControlOK, ZoneSet, Goto, Bits
  <2>2. zmap' \in [ZBlocks -> SUBSET Bits]
    BY <1>5, <2>1 DEF TypeOK, ZoneSet
  <2> QED
    BY <1>5, <2>2 DEF TypeOK, ZoneSet, Goto, ZonePcs, InodePcs, mapVars, diskVars, outVars
<1>6. CASE ZoneNext(t)
  BY <1>6 DEF TypeOK, ZoneNext, Goto, SpinUnlock, ZonePcs, InodePcs, mapVars, diskVars, outVars
<1>7. CASE ZoneUnlock(t)
  BY <1>7 DEF TypeOK, ZoneUnlock, Goto, SpinUnlock, ZonePcs, InodePcs, mapVars, diskVars, outVars
<1>8. CASE ZoneDirty(t)
  <2>1. i[t] \in ZBlocks /\ j[t] \in Bits
    BY <1>8 DEF TypeOK, ControlOK, ZoneDirty, Goto
  <2>2. ZoneBlock(BitNo(i[t], j[t])) \in Nat
    BY <2>1, BitNoType, ZoneBlockType DEF ZBlocks
  <2> QED
    BY <1>8, <2>1, <2>2 DEF TypeOK, ZoneDirty, Goto, ZonePcs, InodePcs, mapVars, diskVars, outVars
<1>9. CASE ZoneReturn(t)
  BY <1>9 DEF TypeOK, ZoneReturn, Goto, ZonePcs, InodePcs, mapVars, diskVars, outVars
<1> QED
  BY <1>1, <1>2, <1>3, <1>4, <1>5, <1>6, <1>7, <1>8, <1>9 DEF NewZone

\* Every step of aufs_new_inode keeps the types.
LEMMA InodeStepTypeOK ==
  ASSUME NEW t \in Threads, TypeOK, ControlOK,
         InodeCall(t) \/ InodeNoMemory(t) \/ NewInode(t)
  PROVE  TypeOK'
<1> USE BitmapAssumption
<1> USE DEF Goto, ZonePcs, InodePcs, mapVars, diskVars, outVars
<1>1. CASE InodeCall(t)
  BY <1>1 DEF TypeOK, InodeCall
<1>2. CASE InodeNoMemory(t)
  BY <1>2 DEF TypeOK, InodeNoMemory
<1>3. CASE InodeLock(t)
  BY <1>3 DEF TypeOK, InodeLock, SpinLock
<1>4. CASE InodeFind(t)
  <2>1. imap[i[t]] \in SUBSET Bits
    BY <1>4 DEF TypeOK, ControlOK, InodeFind, IBlocks
  <2>2. j' \in [Threads -> 0 .. BitsPerBlock]
    BY <1>4, <2>1, FindFirstZeroType DEF InodeFind, TypeOK
  <2> QED
    BY <1>4, <2>2 DEF TypeOK, InodeFind
<1>5. CASE InodeBreak(t)
  BY <1>5 DEF TypeOK, InodeBreak
<1>6. CASE InodeNext(t)
  BY <1>6 DEF TypeOK, InodeNext
<1>7. CASE InodeNoSpace(t)
  BY <1>7 DEF TypeOK, InodeNoSpace, InodeGiveUp, SpinUnlock
<1>8. CASE InodeSet(t)
  <2>1. i[t] \in IBlocks /\ j[t] \in Bits
    BY <1>8 DEF TypeOK, ControlOK, InodeSet
  <2>2. imap' \in [IBlocks -> SUBSET Bits]
    BY <1>8, <2>1 DEF TypeOK, InodeSet
  <2>3. ~AlreadySet(t)
    BY <1>8, <2>1 DEF TypeOK, ControlOK, InodeSet, AlreadySet
  <2> QED
    BY <1>8, <2>2, <2>3 DEF TypeOK, InodeSet
<1>9. CASE InodeUnlock(t)
  BY <1>9 DEF TypeOK, InodeUnlock, SpinUnlock
<1>10. CASE InodeDirty(t)
  <2>1. i[t] \in IBlocks /\ j[t] \in Bits
    BY <1>10 DEF TypeOK, ControlOK, InodeDirty
  <2>2. BitNo(i[t], j[t]) \in Nat
    BY <2>1, BitNoType DEF IBlocks
  <2> QED
    BY <1>10, <2>1, <2>2 DEF TypeOK, InodeDirty
<1>11. CASE InodeReturn(t)
  BY <1>11 DEF TypeOK, InodeReturn
<1> QED
  BY <1>1, <1>2, <1>3, <1>4, <1>5, <1>6, <1>7, <1>8, <1>9, <1>10, <1>11 DEF NewInode

\* Write back keeps the types.
LEMMA FlushTypeOK ==
  ASSUME TypeOK,
         \/ \E b \in ZBlocks : FlushZoneMap(b)
         \/ \E b \in IBlocks : FlushInodeMap(b)
  PROVE  TypeOK'
<1>1. CASE \E b \in ZBlocks : FlushZoneMap(b)
  BY <1>1 DEF TypeOK, FlushZoneMap, outVars
<1>2. CASE \E b \in IBlocks : FlushInodeMap(b)
  BY <1>2 DEF TypeOK, FlushInodeMap, outVars
<1> QED
  BY <1>1, <1>2

-----------------------------------------------------------------------------
(***************************************************************************)
(* Control                                                                 *)
(***************************************************************************)
\* The maps are read and no call is running: nobody holds bitmap_lock.
LEMMA InitControlOK == Init => ControlOK
  BY BitmapAssumption DEF Init, ControlOK, Locked, InodePcs

\* A step of aufs_new_zone keeps ControlOK: only the holder of bitmap_lock
\* changes a map, so what another thread found under the lock stays true.
LEMMA ZoneStepControlOK ==
  ASSUME NEW t \in Threads, TypeOK, ControlOK, ZoneCall(t) \/ NewZone(t)
  PROVE  ControlOK'
<1> USE BitmapAssumption
<1> USE DEF Goto, Locked, InodePcs, ZonePcs, mapVars, outVars
<1>1. CASE ZoneCall(t)
  BY <1>1 DEF TypeOK, ControlOK, ZoneCall
<1>2. CASE ZoneLock(t)
  BY <1>2 DEF TypeOK, ControlOK, ZoneLock, SpinLock, ZBlocks
<1>3. CASE ZoneFail(t)
  BY <1>3 DEF TypeOK, ControlOK, ZoneFail
<1>4. CASE ZoneFind(t)
  <2>1. zmap[i[t]] \in SUBSET Bits
    BY <1>4 DEF TypeOK, ControlOK, ZoneFind
  <2>2. j' = [j EXCEPT ![t] = j'[t]] /\ (j'[t] \in Bits => j'[t] \notin zmap[i[t]])
    BY <1>4, <2>1, FindFirstZeroType DEF ZoneFind, TypeOK
  <2>3. \A u \in Threads \ {t} : j'[u] = j[u]
    BY <2>2 DEF TypeOK
  <2> HIDE DEF Bits
  <2> QED
    BY <1>4, <2>2, <2>3 DEF TypeOK, ControlOK, ZoneFind
<1>5. CASE ZoneSet(t)
  <2>1. i[t] \in ZBlocks /\ j[t] \in Bits
    BY <1>5 DEF TypeOK, ControlOK, ZoneSet, Bits
  <2>2. \A u \in Threads \ {t} : pc[u] # "z_test"
    BY <1>5 DEF ControlOK, ZoneSet
  <2> QED
    BY <1>5, <2>1, <2>2 DEF TypeOK, ControlOK, ZoneSet
<1>6. CASE ZoneNext(t)
  BY <1>6 DEF TypeOK, ControlOK, ZoneNext, SpinUnlock
<1>7. CASE ZoneUnlock(t)
  BY <1>7 DEF TypeOK, ControlOK, ZoneUnlock, SpinUnlock
<1>8. CASE ZoneDirty(t)
  BY <1>8 DEF TypeOK, ControlOK, ZoneDirty
<1>9. CASE ZoneReturn(t)
  BY <1>9 DEF TypeOK, ControlOK, ZoneReturn
<1> QED
  BY <1>1, <1>2, <1>3, <1>4, <1>5, <1>6, <1>7, <1>8, <1>9 DEF NewZone

\* A step of aufs_new_inode keeps ControlOK.
LEMMA InodeStepControlOK ==
  ASSUME NEW t \in Threads, TypeOK, ControlOK,
         InodeCall(t) \/ InodeNoMemory(t) \/ NewInode(t)
  PROVE  ControlOK'
<1> USE BitmapAssumption
<1> USE DEF Goto, Locked, InodePcs, ZonePcs, mapVars, outVars
<1>1. CASE InodeCall(t)
  BY <1>1 DEF TypeOK, ControlOK, InodeCall, Bits
<1>2. CASE InodeNoMemory(t)
  BY <1>2 DEF TypeOK, ControlOK, InodeNoMemory
<1>3. CASE InodeLock(t)
  BY <1>3 DEF TypeOK, ControlOK, InodeLock, SpinLock
<1>4. CASE InodeFind(t)
  <2>1. imap[i[t]] \in SUBSET Bits /\ i[t] \in IBlocks
    BY <1>4 DEF TypeOK, ControlOK, InodeFind, IBlocks
  <2>2. j' = [j EXCEPT ![t] = j'[t]] /\ (j'[t] \in Bits => j'[t] \notin imap[i[t]])
    BY <1>4, <2>1, FindFirstZeroType DEF InodeFind, TypeOK
  <2>3. \A u \in Threads \ {t} : j'[u] = j[u]
    BY <2>2 DEF TypeOK
  <2> QED
    BY <1>4, <2>1, <2>2, <2>3 DEF TypeOK, ControlOK, InodeFind
<1>5. CASE InodeBreak(t)
  BY <1>5 DEF TypeOK, ControlOK, InodeBreak, Bits
<1>6. CASE InodeNext(t)
  BY <1>6 DEF TypeOK, ControlOK, InodeNext
<1>7. CASE InodeNoSpace(t)
  BY <1>7 DEF TypeOK, ControlOK, InodeNoSpace, InodeGiveUp, SpinUnlock
<1>8. CASE InodeSet(t)
  <2>1. i[t] \in IBlocks /\ j[t] \in Bits /\ ~AlreadySet(t)
    BY <1>8 DEF TypeOK, ControlOK, InodeSet, AlreadySet
  <2>2. \A u \in Threads \ {t} : pc[u] \notin {"i_test", "i_set"}
    BY <1>8 DEF ControlOK, InodeSet
  <2> QED
    BY <1>8, <2>1, <2>2 DEF TypeOK, ControlOK, InodeSet
<1>9. CASE InodeUnlock(t)
  BY <1>9 DEF TypeOK, ControlOK, InodeUnlock, SpinUnlock
<1>10. CASE InodeDirty(t)
  <2>1. i[t] \in IBlocks /\ j[t] \in Bits
    BY <1>10 DEF TypeOK, ControlOK, InodeDirty
  <2>2. BitNo(i[t], j[t]) \in InodeNumbers
    BY <2>1 DEF InodeNumbers, Numbers
  <2> QED
    BY <1>10, <2>1, <2>2 DEF TypeOK, ControlOK, InodeDirty
<1>11. CASE InodeReturn(t)
  BY <1>11 DEF TypeOK, ControlOK, InodeReturn
<1> QED
  BY <1>1, <1>2, <1>3, <1>4, <1>5, <1>6, <1>7, <1>8, <1>9, <1>10, <1>11 DEF NewInode

\* Write back of the maps leaves lock, loop variables and maps in memory alone.
LEMMA FlushControlOK ==
  ASSUME ControlOK,
         \/ \E b \in ZBlocks : FlushZoneMap(b)
         \/ \E b \in IBlocks : FlushInodeMap(b)
  PROVE  ControlOK'
  BY DEF ControlOK, FlushZoneMap, FlushInodeMap

\* Both hold of every step together: each needs the other.
LEMMA StepOK ==
  ASSUME TypeOK, ControlOK, [Next]_vars
  PROVE  TypeOK' /\ ControlOK'
<1>1. CASE UNCHANGED vars
  BY <1>1 DEF vars, mapVars, diskVars, outVars, TypeOK, ControlOK
<1>2. CASE Next
  BY <1>2, ZoneStepTypeOK, InodeStepTypeOK, FlushTypeOK, ZoneStepControlOK,
     InodeStepControlOK, FlushControlOK DEF Next
<1> QED
  BY <1>1, <1>2

\* Every variable of the allocators keeps its type: map bits stay in their
\* blocks, loop variables in their ranges.
THEOREM TypeCorrect == Spec => []TypeOK
<1>1. Init => TypeOK /\ ControlOK
  BY InitTypeOK, InitControlOK
<1>2. TypeOK /\ ControlOK /\ [Next]_vars => (TypeOK /\ ControlOK)'
  BY StepOK
<1> QED
  BY <1>1, <1>2, PTL DEF Spec

\* The control invariant holds: bitmap_lock is held by exactly the threads that
\* are between spin_lock and spin_unlock.
THEOREM ControlCorrect == Spec => [](TypeOK /\ ControlOK)
<1>1. Init => TypeOK /\ ControlOK
  BY InitTypeOK, InitControlOK
<1>2. TypeOK /\ ControlOK /\ [Next]_vars => (TypeOK /\ ControlOK)'
  BY StepOK
<1> QED
  BY <1>1, <1>2, PTL DEF Spec

\* The exit of aufs_new_inode commented "shouldn't happen" is dead code, for
\* any number of threads and any maps.
THEOREM ShouldntHappen == Spec => []AlreadySetShouldntHappen
<1>1. TypeOK /\ ControlOK => AlreadySetShouldntHappen
  BY DEF TypeOK, ControlOK, AlreadySetShouldntHappen, AlreadySet
<1> QED
  BY <1>1, ControlCorrect, PTL

-----------------------------------------------------------------------------
(***************************************************************************)
(* Zones are accounted for                                                 *)
(***************************************************************************)
\* A zone is marked iff its bit is set.
LEMMA ZonesInMember ==
  ASSUME NEW map
  PROVE  \A z : z \in ZonesIn(map) <=>
                 \E b \in ZBlocks : \E x \in map[b] : z = ZoneBlock(BitNo(b, x))
  BY DEF ZonesIn

\* ZoneInFlight case by case.
LEMMA ZoneInFlightCases ==
  ASSUME NEW t \in Threads
  PROVE  /\ pc[t] \in {"z_unlock", "z_dirty"} =>
              ZoneInFlight(t) = {ZoneBlock(BitNo(i[t], j[t]))}
         /\ pc[t] = "z_ret" => ZoneInFlight(t) = {ret[t]} \ {0}
         /\ pc[t] \notin {"z_unlock", "z_dirty", "z_ret"} => ZoneInFlight(t) = {}
  BY DEF ZoneInFlight

\* The same in the next state.
LEMMA ZoneInFlightCasesNext ==
  ASSUME NEW t \in Threads
  PROVE  /\ pc'[t] \in {"z_unlock", "z_dirty"} =>
              ZoneInFlight(t)' = {ZoneBlock(BitNo(i'[t], j'[t]))}
         /\ pc'[t] = "z_ret" => ZoneInFlight(t)' = {ret'[t]} \ {0}
         /\ pc'[t] \notin {"z_unlock", "z_dirty", "z_ret"} => ZoneInFlight(t)' = {}
  BY DEF ZoneInFlight

\* Steps that touch neither the zone map nor any zone in flight.
LEMMA ZonesUnmoved ==
  ASSUME ZonesAccounted, UNCHANGED <<zmap, zonesOut>>,
         \A u \in Threads : ZoneInFlight(u)' = ZoneInFlight(u)
  PROVE  ZonesAccounted'
<1>1. ZonesMarked' = ZonesMarked
  BY DEF ZonesMarked, ZonesIn
<1>2. (UNION {ZoneInFlight(u) : u \in Threads})' = UNION {ZoneInFlight(u) : u \in Threads}
  OBVIOUS
<1> QED
  BY <1>1, <1>2 DEF ZonesAccounted

\* A step of thread t leaves what other threads have in flight alone.
LEMMA OthersZoneInFlight ==
  ASSUME NEW t \in Threads, NEW u \in Threads, u # t,
         pc'[u] = pc[u], i'[u] = i[u], j'[u] = j[u], ret'[u] = ret[u]
  PROVE  ZoneInFlight(u)' = ZoneInFlight(u)
  BY DEF ZoneInFlight

\* minix_set_bit on a zero bit takes a zone nobody had.
LEMMA ZoneSetMarks ==
  ASSUME NEW t \in Threads, TypeOK, ControlOK, ZoneSet(t)
  PROVE  /\ i[t] \in ZBlocks /\ j[t] \in Bits
         /\ ZoneBlock(BitNo(i[t], j[t])) \notin ZonesMarked
         /\ ZonesMarked' = ZonesMarked \cup {ZoneBlock(BitNo(i[t], j[t]))}
<1> DEFINE z == ZoneBlock(BitNo(i[t], j[t]))
<1>1. i[t] \in ZBlocks /\ j[t] \in Bits /\ j[t] \notin zmap[i[t]]
  BY BitmapAssumption DEF TypeOK, ControlOK, ZoneSet, Goto, Bits
<1>2. \A b \in ZBlocks : zmap[b] \subseteq Bits
  BY DEF TypeOK
<1>3. z \notin ZonesMarked
  <2> SUFFICES ASSUME NEW b \in ZBlocks, NEW x \in zmap[b], z = ZoneBlock(BitNo(b, x))
               PROVE  FALSE
    BY DEF ZonesMarked, ZonesIn
  <2>1. x \in Bits
    BY <1>2
  <2>2. b = i[t] /\ x = j[t]
    BY <1>1, <2>1, ZoneBlockOfBitInjective
  <2> QED
    BY <1>1, <2>2
<1>4. zmap' = [zmap EXCEPT ![i[t]] = zmap[i[t]] \cup {j[t]}]
  BY DEF ZoneSet
<1>5. ZonesMarked' = ZonesMarked \cup {z}
  <2>1. \A b \in ZBlocks : zmap'[b] = IF b = i[t] THEN zmap[b] \cup {j[t]} ELSE zmap[b]
    BY <1>4 DEF TypeOK
  <2>2. \A y : y \in ZonesMarked <=>
                 \E b \in ZBlocks : \E x \in zmap[b] : y = ZoneBlock(BitNo(b, x))
    BY ZonesInMember DEF ZonesMarked
  <2>3. \A y : y \in ZonesMarked' <=>
                 \E b \in ZBlocks : \E x \in zmap'[b] : y = ZoneBlock(BitNo(b, x))
    BY ZonesInMember DEF ZonesMarked
  <2>4. ASSUME NEW y \in ZonesMarked' PROVE y \in ZonesMarked \cup {z}
    <3>1. PICK b \in ZBlocks : \E x \in zmap'[b] : y = ZoneBlock(BitNo(b, x))
      BY <2>3
    <3>2. PICK x \in zmap'[b] : y = ZoneBlock(BitNo(b, x))
      BY <3>1
    <3>3. CASE x \in zmap[b]
      BY <3>2, <3>3, <2>2
    <3>4. CASE b = i[t] /\ x = j[t]
      BY <3>2, <3>4
    <3> QED
      BY <3>2, <3>3, <3>4, <2>1
  <2>5. ASSUME NEW y \in ZonesMarked PROVE y \in ZonesMarked'
    <3>1. PICK b \in ZBlocks : \E x \in zmap[b] : y = ZoneBlock(BitNo(b, x))
      BY <2>2
    <3>2. PICK x \in zmap[b] : y = ZoneBlock(BitNo(b, x))
      BY <3>1
    <3>3. x \in zmap'[b]
      BY <2>1
    <3> QED
      BY <3>2, <3>3, <2>3
  <2>6. z \in ZonesMarked'
    <3>1. j[t] \in zmap'[i[t]]
      BY <1>1, <2>1
    <3> QED
      BY <1>1, <3>1, <2>3
  <2> QED
    BY <2>4, <2>5, <2>6
<1> QED
  BY <1>1, <1>3, <1>5

\* The zone is in flight from then on.
LEMMA ZoneSetAccounted ==
  ASSUME NEW t \in Threads, TypeOK, ControlOK, ZonesAccounted, ZoneSet(t)
  PROVE  ZonesAccounted'
<1> DEFINE z == ZoneBlock(BitNo(i[t], j[t]))
<1>3. z \notin ZonesMarked
  BY ZoneSetMarks
<1>5. ZonesMarked' = ZonesMarked \cup {z}
  BY ZoneSetMarks
<1>6. ZoneInFlight(t) = {} /\ ZoneInFlight(t)' = {z}
  BY ZoneInFlightCases, ZoneInFlightCasesNext DEF ZoneSet, Goto, TypeOK
<1>7. \A u \in Threads \ {t} : ZoneInFlight(u)' = ZoneInFlight(u)
  BY OthersZoneInFlight DEF ZoneSet, Goto, TypeOK
<1>8. zonesOut' = zonesOut
  BY DEF ZoneSet, outVars
<1>9. \A u \in Threads : ZoneInFlight(u) \subseteq ZonesMarked
  BY DEF ZonesAccounted
<1>10. ZonesBefore \cup zonesOut \subseteq ZonesMarked
  BY DEF ZonesAccounted
<1>11. (UNION {ZoneInFlight(u) : u \in Threads})' =
         (UNION {ZoneInFlight(u) : u \in Threads}) \cup {z}
  BY <1>6, <1>7
<1>12. ZonesMarked' = ZonesBefore \cup zonesOut' \cup (UNION {ZoneInFlight(u) : u \in Threads})'
  BY <1>5, <1>8, <1>11 DEF ZonesAccounted
<1>13. \A u \in Threads : ZoneInFlight(u)' \cap (ZonesBefore \cup zonesOut') = {}
  BY <1>3, <1>6, <1>7, <1>8, <1>10 DEF ZonesAccounted
<1>14. \A u, v \in Threads : u # v => ZoneInFlight(u)' \cap ZoneInFlight(v)' = {}
  BY <1>3, <1>6, <1>7, <1>9 DEF ZonesAccounted
<1> QED
  BY <1>12, <1>13, <1>14 DEF ZonesAccounted, ZonesBefore

\* The return moves the zone from the call to the caller.
LEMMA ZoneReturnAccounted ==
  ASSUME NEW t \in Threads, TypeOK, ControlOK, ZonesAccounted, ZoneReturn(t)
  PROVE  ZonesAccounted'
<1>1. ZonesMarked' = ZonesMarked
  BY DEF ZonesMarked, ZonesIn, ZoneReturn, mapVars
<1>2. ZoneInFlight(t)' = {} /\ zonesOut' = zonesOut \cup ZoneInFlight(t)
  BY ZoneInFlightCases, ZoneInFlightCasesNext DEF ZoneReturn, Goto, TypeOK
<1>3. \A u \in Threads \ {t} : ZoneInFlight(u)' = ZoneInFlight(u)
  BY OthersZoneInFlight DEF ZoneReturn, Goto, TypeOK
<1>4. zonesOut' \cup (UNION {ZoneInFlight(u) : u \in Threads})' =
        zonesOut \cup UNION {ZoneInFlight(u) : u \in Threads}
  BY <1>2, <1>3
<1>5. ZonesMarked' = ZonesBefore \cup zonesOut' \cup (UNION {ZoneInFlight(u) : u \in Threads})'
  BY <1>1, <1>4 DEF ZonesAccounted
<1>6. \A u \in Threads : ZoneInFlight(u)' \cap (ZonesBefore \cup zonesOut') = {}
  BY <1>2, <1>3 DEF ZonesAccounted
<1>7. \A u, v \in Threads : u # v => ZoneInFlight(u)' \cap ZoneInFlight(v)' = {}
  BY <1>2, <1>3 DEF ZonesAccounted
<1> QED
  BY <1>5, <1>6, <1>7 DEF ZonesAccounted, ZonesBefore

\* The other steps of aufs_new_zone move no zone.
LEMMA ZoneStepAccounted ==
  ASSUME NEW t \in Threads, TypeOK, ControlOK, ZonesAccounted, ZoneCall(t) \/ NewZone(t)
  PROVE  ZonesAccounted'
<1> USE DEF Goto, mapVars, outVars
<1>1. CASE ZoneSet(t)
  BY <1>1, ZoneSetAccounted
<1>2. CASE ZoneReturn(t)
  BY <1>2, ZoneReturnAccounted
<1>3. CASE ZoneDirty(t)
  <2>1. i[t] \in ZBlocks /\ j[t] \in Bits
    BY <1>3 DEF ZoneDirty, ControlOK
  <2>2. ZoneBlock(BitNo(i[t], j[t])) \in Nat \ {0}
    BY <2>1, BitNoType, ZoneBlockType, BitmapAssumption DEF ZBlocks
  <2>3. pc[t] = "z_dirty" /\ pc'[t] = "z_ret" /\ ret'[t] = ZoneBlock(BitNo(i[t], j[t]))
    BY <1>3 DEF ZoneDirty, TypeOK
  <2>4. ZoneInFlight(t)' = ZoneInFlight(t)
    BY <2>2, <2>3, ZoneInFlightCases, ZoneInFlightCasesNext
  <2>5. \A u \in Threads \ {t} : ZoneInFlight(u)' = ZoneInFlight(u)
    BY <1>3, OthersZoneInFlight DEF ZoneDirty, TypeOK
  <2> QED
    BY <1>3, <2>4, <2>5, ZonesUnmoved DEF ZoneDirty
<1>4. CASE ZoneUnlock(t)
  <2>1. ZoneInFlight(t)' = ZoneInFlight(t)
    BY <1>4, ZoneInFlightCases, ZoneInFlightCasesNext DEF ZoneUnlock, TypeOK
  <2>2. \A u \in Threads \ {t} : ZoneInFlight(u)' = ZoneInFlight(u)
    BY <1>4, OthersZoneInFlight DEF ZoneUnlock, TypeOK
  <2> QED
    BY <1>4, <2>1, <2>2, ZonesUnmoved DEF ZoneUnlock
<1>5. CASE ZoneCall(t) \/ ZoneLock(t) \/ ZoneFail(t) \/ ZoneNext(t)
  <2> USE DEF ZoneCall, ZoneLock, ZoneFail, ZoneNext
  <2>1. ZoneInFlight(t)' = ZoneInFlight(t)
    BY <1>5, ZoneInFlightCases, ZoneInFlightCasesNext DEF TypeOK
  <2>2. \A u \in Threads \ {t} : ZoneInFlight(u)' = ZoneInFlight(u)
    BY <1>5, OthersZoneInFlight DEF TypeOK
  <2> QED
    BY <1>5, <2>1, <2>2, ZonesUnmoved
<1>6. CASE ZoneFind(t)
  <2>1. zmap[i[t]] \in SUBSET Bits
    BY <1>6 DEF TypeOK, ControlOK, ZoneFind
  <2>2. \A u \in Threads \ {t} : j'[u] = j[u]
    BY <1>6, <2>1, FindFirstZeroType DEF ZoneFind, TypeOK
  <2>3. ZoneInFlight(t)' = ZoneInFlight(t)
    BY <1>6, ZoneInFlightCases, ZoneInFlightCasesNext DEF ZoneFind, TypeOK
  <2>4. \A u \in Threads \ {t} : ZoneInFlight(u)' = ZoneInFlight(u)
    BY <1>6, <2>2, OthersZoneInFlight DEF ZoneFind, TypeOK
  <2> QED
    BY <1>6, <2>3, <2>4, ZonesUnmoved DEF ZoneFind
<1> QED
  BY <1>1, <1>2, <1>3, <1>4, <1>5, <1>6 DEF NewZone

\* aufs_new_inode and write back move no zone.
LEMMA OtherStepZonesAccounted ==
  ASSUME TypeOK, ControlOK, ZonesAccounted,
         \/ \E t \in Threads : InodeCall(t) \/ InodeNoMemory(t) \/ NewInode(t)
         \/ \E b \in ZBlocks : FlushZoneMap(b)
         \/ \E b \in IBlocks : FlushInodeMap(b)
  PROVE  ZonesAccounted'
<1> USE DEF Goto, mapVars, outVars
<1>1. ASSUME NEW t \in Threads, InodeCall(t) \/ InodeNoMemory(t) \/ NewInode(t)
      PROVE  ZonesAccounted'
  <2>1. pc[t] \notin ZonePcs /\ pc'[t] \notin ZonePcs /\ UNCHANGED <<zmap, zonesOut>>
    BY <1>1 DEF InodeCall, InodeNoMemory, NewInode, InodeLock, InodeFind, InodeBreak,
         InodeNext, InodeNoSpace, InodeSet, InodeUnlock, InodeDirty, InodeReturn, ZonePcs, TypeOK
  <2>2. \A u \in Threads \ {t} :
          pc'[u] = pc[u] /\ i'[u] = i[u] /\ ret'[u] = ret[u]
    BY <1>1 DEF InodeCall, InodeNoMemory, NewInode, InodeLock, InodeFind, InodeBreak,
         InodeNext, InodeNoSpace, InodeSet, InodeUnlock, InodeDirty, InodeReturn,
         InodeGiveUp, TypeOK
  <2>3. \A u \in Threads \ {t} : j'[u] = j[u]
    <3>1. CASE InodeFind(t)
      <4>1. imap[i[t]] \in SUBSET Bits
        BY <3>1, BitmapAssumption DEF TypeOK, InodeFind, IBlocks
      <4> QED
        BY <3>1, <4>1, FindFirstZeroType DEF InodeFind, TypeOK
    <3>2. CASE ~InodeFind(t)
      BY <1>1, <3>2 DEF InodeCall, InodeNoMemory, NewInode, InodeLock, InodeBreak,
           InodeNext, InodeNoSpace, InodeSet, InodeUnlock, InodeDirty, InodeReturn, TypeOK
    <3> QED
      BY <3>1, <3>2
  <2>4. ZoneInFlight(t)' = ZoneInFlight(t)
    BY <2>1, ZoneInFlightCases, ZoneInFlightCasesNext DEF ZonePcs
  <2>5. \A u \in Threads \ {t} : ZoneInFlight(u)' = ZoneInFlight(u)
    BY <2>2, <2>3, OthersZoneInFlight
  <2> QED
    BY <2>1, <2>4, <2>5, ZonesUnmoved
<1>2. ASSUME \/ \E b \in ZBlocks : FlushZoneMap(b)
             \/ \E b \in IBlocks : FlushInodeMap(b)
      PROVE  ZonesAccounted'
  <2>1. UNCHANGED <<zmap, zonesOut, pc, i, j, ret>>
    BY <1>2 DEF FlushZoneMap, FlushInodeMap
  <2>2. \A u \in Threads : ZoneInFlight(u)' = ZoneInFlight(u)
    BY <2>1 DEF ZoneInFlight
  <2> QED
    BY <2>1, <2>2, ZonesUnmoved
<1> QED
  BY <1>1, <1>2

\* At mount the marked zones are those in use.
LEMMA InitZonesAccounted == Init => ZonesAccounted
<1> SUFFICES ASSUME Init PROVE ZonesAccounted
  OBVIOUS
<1>1. \A u \in Threads : ZoneInFlight(u) = {}
  BY ZoneInFlightCases DEF Init
<1>2. ZonesMarked \subseteq ZonesBefore
  <2> SUFFICES ASSUME NEW b \in ZBlocks, NEW x \in zmap[b]
               PROVE  ZoneBlock(BitNo(b, x)) \in ZonesBefore
    BY ZonesInMember DEF ZonesMarked
  <2>1. x \in Bits /\ BitNo(b, x) \in ZoneBits0
    BY DEF Init, BitsOf
  <2>2. BitNo(b, x) \in ZoneNumbers
    BY <2>1 DEF ZoneNumbers, Numbers
  <2> QED
    BY <2>1, <2>2 DEF ZonesBefore
<1>3. ZonesBefore \subseteq ZonesMarked
  <2> SUFFICES ASSUME NEW n \in ZoneBits0 \cap ZoneNumbers
               PROVE  ZoneBlock(n) \in ZonesMarked
    BY DEF ZonesBefore
  <2>1. PICK b \in ZBlocks, x \in Bits : n = BitNo(b, x)
    BY DEF ZoneNumbers, Numbers
  <2>2. x \in zmap[b]
    BY <2>1 DEF Init, BitsOf
  <2> QED
    BY <2>1, <2>2, ZonesInMember DEF ZonesMarked
<1> QED
  BY <1>1, <1>2, <1>3 DEF ZonesAccounted, Init

\* No zone is given out twice, or given out although it was in use, or lost, for
\* any number of threads and any size of the zone map.
THEOREM ZonesCorrect == Spec => []ZonesAccounted
<1>1. TypeOK /\ ControlOK /\ ZonesAccounted /\ [Next]_vars => ZonesAccounted'
  <2> SUFFICES ASSUME TypeOK, ControlOK, ZonesAccounted, [Next]_vars
               PROVE  ZonesAccounted'
    OBVIOUS
  <2>1. CASE UNCHANGED vars
    <3>1. UNCHANGED <<zmap, zonesOut, pc, i, j, ret>>
      BY <2>1 DEF vars, mapVars, outVars
    <3>2. \A u \in Threads : ZoneInFlight(u)' = ZoneInFlight(u)
      BY <3>1 DEF ZoneInFlight
    <3> QED
      BY <3>1, <3>2, ZonesUnmoved
  <2>2. CASE Next
    BY <2>2, ZoneStepAccounted, OtherStepZonesAccounted DEF Next
  <2> QED
    BY <2>1, <2>2
<1> QED
  BY <1>1, InitZonesAccounted, ControlCorrect, PTL DEF Spec

-----------------------------------------------------------------------------
(***************************************************************************)
(* What a step leaves alone                                                *)
(***************************************************************************)
\* The steps of one thread, calls included.
ThreadStep(t) ==
  ZoneCall(t) \/ NewZone(t) \/ InodeCall(t) \/ InodeNoMemory(t) \/ NewInode(t)

\* A step is one of a thread, one of the flusher, or none.
LEMMA StepCases ==
  ASSUME [Next]_vars
  PROVE  \/ \E t \in Threads : ThreadStep(t)
         \/ \E b \in ZBlocks : FlushZoneMap(b)
         \/ \E b \in IBlocks : FlushInodeMap(b)
         \/ UNCHANGED vars
  BY DEF Next, ThreadStep

\* A thread's step changes no other thread's position and local variables.
LEMMA OtherThreads ==
  ASSUME NEW t \in Threads, TypeOK, ControlOK, ThreadStep(t), NEW u \in Threads, u # t
  PROVE  /\ pc'[u] = pc[u] /\ i'[u] = i[u] /\ j'[u] = j[u]
         /\ ret'[u] = ret[u] /\ held'[u] = held[u]
<1> USE DEF TypeOK, Goto, InodeGiveUp
<1>1. CASE ZoneFind(t)
  <2>1. zmap[i[t]] \in SUBSET Bits
    BY <1>1 DEF ControlOK, ZoneFind
  <2>2. j'[u] = j[u]
    BY <1>1, <2>1, FindFirstZeroType DEF ZoneFind
  <2> QED
    BY <1>1, <2>2 DEF ZoneFind
<1>2. CASE InodeFind(t)
  <2>1. imap[i[t]] \in SUBSET Bits
    BY <1>2, BitmapAssumption DEF InodeFind, IBlocks
  <2>2. j'[u] = j[u]
    BY <1>2, <2>1, FindFirstZeroType DEF InodeFind
  <2> QED
    BY <1>2, <2>2 DEF InodeFind
<1>3. CASE ZoneCall(t) \/ (NewZone(t) /\ ~ZoneFind(t))
  BY <1>3 DEF ZoneCall, NewZone, ZoneLock, ZoneFail, ZoneSet, ZoneNext, ZoneUnlock, ZoneDirty,
              ZoneReturn
<1>4. CASE InodeCall(t) \/ InodeNoMemory(t) \/ (NewInode(t) /\ ~InodeFind(t))
  BY <1>4 DEF InodeCall, InodeNoMemory, NewInode, InodeLock, InodeBreak, InodeNext,
              InodeNoSpace, InodeSet, InodeUnlock, InodeDirty, InodeReturn
<1> QED
  BY <1>1, <1>2, <1>3, <1>4 DEF ThreadStep

\* Steps of aufs_new_zone leave everything of the inode map alone, and what they
\* have of the thread stays among the positions of aufs_new_zone.
LEMMA ZoneStepFrame ==
  ASSUME NEW t \in Threads, TypeOK, ZoneCall(t) \/ NewZone(t)
  PROVE  /\ UNCHANGED <<imap, imapDirty, imapDisk, inodesOut, held, zmapDisk>>
         /\ pc[t] \in ZonePcs \cup {"idle"} /\ pc'[t] \in ZonePcs \cup {"idle"}
  BY DEF TypeOK, ZoneCall, NewZone, ZoneLock, ZoneFail, ZoneFind, ZoneSet, ZoneNext, ZoneUnlock,
         ZoneDirty, ZoneReturn, Goto, ZonePcs, mapVars, diskVars, outVars

\* Steps of aufs_new_inode leave everything of the zone map alone.
LEMMA InodeStepFrame ==
  ASSUME NEW t \in Threads, TypeOK, InodeCall(t) \/ InodeNoMemory(t) \/ NewInode(t)
  PROVE  /\ UNCHANGED <<zmap, zmapDirty, zmapDisk, zonesOut, imapDisk>>
         /\ pc[t] \in InodePcs \cup {"idle"} /\ pc'[t] \in InodePcs \cup {"idle"}
  BY DEF TypeOK, InodeCall, InodeNoMemory, NewInode, InodeLock, InodeFind, InodeBreak, InodeNext,
         InodeNoSpace, InodeSet, InodeUnlock, InodeDirty, InodeReturn, Goto, InodePcs, mapVars,
         diskVars, outVars

\* No step clears a bit: aufs never frees a zone or an inode number.
LEMMA MapsGrow ==
  ASSUME TypeOK, [Next]_vars
  PROVE  /\ \A b \in ZBlocks : zmap[b] \subseteq zmap'[b]
         /\ \A b \in IBlocks : imap[b] \subseteq imap'[b]
<1>1. ASSUME NEW t \in Threads, ZoneCall(t) \/ NewZone(t)
      PROVE  \A b \in ZBlocks : zmap[b] \subseteq zmap'[b]
  BY <1>1 DEF TypeOK, ZoneCall, NewZone, ZoneLock, ZoneFail, ZoneFind, ZoneSet, ZoneNext,
       ZoneUnlock, ZoneDirty, ZoneReturn, mapVars
<1>2. ASSUME NEW t \in Threads, InodeCall(t) \/ InodeNoMemory(t) \/ NewInode(t)
      PROVE  \A b \in IBlocks : imap[b] \subseteq imap'[b]
  BY <1>2 DEF TypeOK, InodeCall, InodeNoMemory, NewInode, InodeLock, InodeFind, InodeBreak,
       InodeNext, InodeNoSpace, InodeSet, InodeUnlock, InodeDirty, InodeReturn, mapVars
<1> QED
  BY <1>1, <1>2, StepCases, ZoneStepFrame, InodeStepFrame
     DEF ThreadStep, FlushZoneMap, FlushInodeMap, vars, mapVars

-----------------------------------------------------------------------------
(***************************************************************************)
(* The in-core inode                                                       *)
(***************************************************************************)
\* Every step of aufs_new_inode keeps NoOrphanInode: ControlOK says that the inode
\* is held at every exit.
LEMMA InodeStepNoOrphan ==
  ASSUME NEW t \in Threads, TypeOK, ControlOK, NoOrphanInode,
         InodeCall(t) \/ InodeNoMemory(t) \/ NewInode(t)
  PROVE  NoOrphanInode'
<1>1. \A u \in Threads : u # t => pc'[u] = pc[u] /\ ret'[u] = ret[u] /\ held'[u] = held[u]
  BY OtherThreads DEF ThreadStep
<1>2. /\ pc'[t] = "i_ret" => (held'[t] <=> ret'[t] # 0)
      /\ pc'[t] \notin InodePcs => ~held'[t]
  <2> USE DEF TypeOK, Goto, InodePcs, NoOrphanInode
  <2>1. CASE InodeCall(t)
    BY <2>1 DEF InodeCall
  <2>2. CASE InodeNoMemory(t)
    BY <2>2 DEF InodeNoMemory
  <2>3. CASE InodeLock(t) \/ InodeFind(t) \/ InodeBreak(t) \/ InodeNext(t) \/ InodeUnlock(t)
    BY <2>3 DEF InodeLock, InodeFind, InodeBreak, InodeNext, InodeUnlock
  <2>4. CASE InodeNoSpace(t)
    BY <2>4 DEF InodeNoSpace, InodeGiveUp
  <2>5. CASE InodeSet(t)
    BY <2>5 DEF InodeSet, InodeGiveUp
  <2>6. CASE InodeDirty(t)
    BY <2>6 DEF InodeDirty
  <2>7. CASE InodeReturn(t)
    BY <2>7 DEF InodeReturn
  <2> QED
    BY <2>1, <2>2, <2>3, <2>4, <2>5, <2>6, <2>7 DEF NewInode
<1> QED
  BY <1>1, <1>2 DEF NoOrphanInode

\* No exit of aufs_new_inode leaks the inode of new_inode() or returns one it has
\* put, for any number of threads and any maps.
THEOREM InodeNeverLeaks == Spec => []NoOrphanInode
<1>1. Init => NoOrphanInode
  BY DEF Init, NoOrphanInode
<1>2. TypeOK /\ ControlOK /\ NoOrphanInode /\ [Next]_vars => NoOrphanInode'
  <2> SUFFICES ASSUME TypeOK, ControlOK, NoOrphanInode, [Next]_vars
               PROVE  NoOrphanInode'
    OBVIOUS
  <2>1. ASSUME NEW t \in Threads, ZoneCall(t) \/ NewZone(t) PROVE NoOrphanInode'
    <3>1. \A u \in Threads : u # t => pc'[u] = pc[u] /\ ret'[u] = ret[u] /\ held'[u] = held[u]
      BY <2>1, OtherThreads DEF ThreadStep
    <3>2. pc[t] \notin InodePcs /\ pc'[t] \notin InodePcs /\ held' = held
      BY <2>1, ZoneStepFrame DEF ZonePcs, InodePcs
    <3> QED
      BY <3>1, <3>2 DEF NoOrphanInode, InodePcs
  <2>2. CASE \/ \E b \in ZBlocks : FlushZoneMap(b)
             \/ \E b \in IBlocks : FlushInodeMap(b)
             \/ UNCHANGED vars
    BY <2>2 DEF FlushZoneMap, FlushInodeMap, vars, NoOrphanInode
  <2> QED
    BY <2>1, <2>2, StepCases, InodeStepNoOrphan DEF ThreadStep
<1> QED
  BY <1>1, <1>2, ControlCorrect, PTL DEF Spec
-----------------------------------------------------------------------------
(***************************************************************************)
(* Write back of the maps                                                  *)
(***************************************************************************)
\* The two halves of WritebackCannotMiss.
ZoneMapCovered ==
  \A b \in ZBlocks :
    /\ zmapDisk[b] \subseteq zmap[b]
    /\ b \notin zmapDirty =>
         \A x \in zmap[b] \ zmapDisk[b] :
           \E t \in Threads : pc[t] \in {"z_unlock", "z_dirty"} /\ i[t] = b /\ j[t] = x

InodeMapCovered ==
  \A b \in IBlocks :
    /\ imapDisk[b] \subseteq imap[b]
    /\ b \notin imapDirty =>
         \A x \in imap[b] \ imapDisk[b] :
           \E t \in Threads : pc[t] \in {"i_unlock", "i_dirty"} /\ i[t] = b /\ j[t] = x

\* A step that neither sets a bit nor marks or writes a buffer, and takes no thread
\* out of the window between the bit and mark_buffer_dirty.
LEMMA ZoneMapStaysCovered ==
  ASSUME ZoneMapCovered, UNCHANGED <<zmap, zmapDisk, zmapDirty>>,
         \A u \in Threads : pc[u] \in {"z_unlock", "z_dirty"} =>
           pc'[u] \in {"z_unlock", "z_dirty"} /\ i'[u] = i[u] /\ j'[u] = j[u]
  PROVE  ZoneMapCovered'
  BY DEF ZoneMapCovered

\* The same of the inode map.
LEMMA InodeMapStaysCovered ==
  ASSUME InodeMapCovered, UNCHANGED <<imap, imapDisk, imapDirty>>,
         \A u \in Threads : pc[u] \in {"i_unlock", "i_dirty"} =>
           pc'[u] \in {"i_unlock", "i_dirty"} /\ i'[u] = i[u] /\ j'[u] = j[u]
  PROVE  InodeMapCovered'
  BY DEF InodeMapCovered

\* The bit that aufs_new_zone sets opens the window, mark_buffer_dirty closes it.
LEMMA ZoneStepCovered ==
  ASSUME NEW t \in Threads, TypeOK, ControlOK, ZoneMapCovered, ZoneCall(t) \/ NewZone(t)
  PROVE  ZoneMapCovered'
<1> USE DEF Goto, mapVars, diskVars
<1>1. \A u \in Threads : u # t => pc'[u] = pc[u] /\ i'[u] = i[u] /\ j'[u] = j[u]
  BY OtherThreads DEF ThreadStep
<1>2. CASE ZoneSet(t)
  <2>1. i[t] \in ZBlocks /\ pc[t] = "z_test" /\ pc'[t] = "z_unlock" /\ i' = i /\ j' = j
    BY <1>2 DEF TypeOK, ControlOK, ZoneSet
  <2>2. UNCHANGED <<zmapDirty, zmapDisk>>
    BY <1>2 DEF ZoneSet
  <2>3. \A b \in ZBlocks : zmap'[b] = IF b = i[t] THEN zmap[b] \cup {j[t]} ELSE zmap[b]
    BY <1>2 DEF ZoneSet, TypeOK
  <2>4. \A b \in ZBlocks, x \in Bits :
          (\E u \in Threads : pc[u] \in {"z_unlock", "z_dirty"} /\ i[u] = b /\ j[u] = x) =>
          (\E u \in Threads : pc'[u] \in {"z_unlock", "z_dirty"} /\ i'[u] = b /\ j'[u] = x)
    BY <1>1, <2>1
  <2>5. \A b \in ZBlocks : zmap[b] \subseteq Bits
    BY DEF TypeOK
  <2>6. ASSUME NEW b \in ZBlocks, b \notin zmapDirty, NEW x \in zmap'[b] \ zmapDisk[b]
        PROVE  \E u \in Threads : pc'[u] \in {"z_unlock", "z_dirty"} /\ i'[u] = b /\ j'[u] = x
    <3>1. CASE x \in zmap[b]
      BY <2>4, <2>5, <2>6, <3>1 DEF ZoneMapCovered
    <3>2. CASE b = i[t] /\ x = j[t]
      BY <2>1, <3>2
    <3> QED
      BY <2>3, <2>6, <3>1, <3>2
  <2>7. \A b \in ZBlocks : zmapDisk'[b] \subseteq zmap'[b]
    BY <2>2, <2>3 DEF ZoneMapCovered
  <2> QED
    BY <2>2, <2>6, <2>7 DEF ZoneMapCovered
<1>3. CASE ZoneDirty(t)
  <2>1. UNCHANGED <<zmap, zmapDisk, i, j>> /\ zmapDirty' = zmapDirty \cup {i[t]}
    BY <1>3 DEF ZoneDirty
  <2>2. ASSUME NEW b \in ZBlocks, b \notin zmapDirty', NEW x \in zmap'[b] \ zmapDisk'[b]
        PROVE  \E u \in Threads : pc'[u] \in {"z_unlock", "z_dirty"} /\ i'[u] = b /\ j'[u] = x
    <3>1. PICK u \in Threads : pc[u] \in {"z_unlock", "z_dirty"} /\ i[u] = b /\ j[u] = x
      BY <2>1, <2>2 DEF ZoneMapCovered
    <3>2. u # t
      BY <2>1, <2>2, <3>1
    <3> QED
      BY <1>1, <3>1, <3>2
  <2> QED
    BY <2>1, <2>2 DEF ZoneMapCovered
<1>4. CASE ~ZoneSet(t) /\ ~ZoneDirty(t)
  <2>1. UNCHANGED <<zmap, zmapDisk, zmapDirty>>
    BY <1>4 DEF ZoneCall, NewZone, ZoneLock, ZoneFail, ZoneFind, ZoneNext, ZoneUnlock, ZoneReturn
  <2>2. pc[t] \in {"z_unlock", "z_dirty"} => pc'[t] = "z_dirty" /\ i' = i /\ j' = j
    BY <1>4 DEF TypeOK, ZoneCall, NewZone, ZoneLock, ZoneFail, ZoneFind, ZoneNext, ZoneUnlock,
                ZoneReturn
  <2> QED
    BY <1>1, <2>1, <2>2, ZoneMapStaysCovered
<1> QED
  BY <1>2, <1>3, <1>4

\* The same of aufs_new_inode.
LEMMA InodeStepCovered ==
  ASSUME NEW t \in Threads, TypeOK, ControlOK, InodeMapCovered,
         InodeCall(t) \/ InodeNoMemory(t) \/ NewInode(t)
  PROVE  InodeMapCovered'
<1> USE DEF Goto, mapVars, diskVars
<1>1. \A u \in Threads : u # t => pc'[u] = pc[u] /\ i'[u] = i[u] /\ j'[u] = j[u]
  BY OtherThreads DEF ThreadStep
<1>2. CASE InodeSet(t)
  <2>0. i[t] \in IBlocks /\ j[t] \in Bits /\ ~AlreadySet(t)
    BY <1>2 DEF TypeOK, ControlOK, InodeSet, AlreadySet
  <2>1. pc[t] = "i_set" /\ pc'[t] = "i_unlock" /\ i' = i /\ j' = j
    BY <1>2, <2>0 DEF TypeOK, InodeSet
  <2>2. UNCHANGED <<imapDirty, imapDisk>>
    BY <1>2 DEF InodeSet
  <2>3. \A b \in IBlocks : imap'[b] = IF b = i[t] THEN imap[b] \cup {j[t]} ELSE imap[b]
    BY <1>2 DEF InodeSet, TypeOK
  <2>4. \A b \in IBlocks, x \in Bits :
          (\E u \in Threads : pc[u] \in {"i_unlock", "i_dirty"} /\ i[u] = b /\ j[u] = x) =>
          (\E u \in Threads : pc'[u] \in {"i_unlock", "i_dirty"} /\ i'[u] = b /\ j'[u] = x)
    BY <1>1, <2>1
  <2>5. \A b \in IBlocks : imap[b] \subseteq Bits
    BY DEF TypeOK
  <2>6. ASSUME NEW b \in IBlocks, b \notin imapDirty, NEW x \in imap'[b] \ imapDisk[b]
        PROVE  \E u \in Threads : pc'[u] \in {"i_unlock", "i_dirty"} /\ i'[u] = b /\ j'[u] = x
    <3>1. CASE x \in imap[b]
      BY <2>4, <2>5, <2>6, <3>1 DEF InodeMapCovered
    <3>2. CASE b = i[t] /\ x = j[t]
      BY <2>1, <3>2
    <3> QED
      BY <2>3, <2>6, <3>1, <3>2
  <2>7. \A b \in IBlocks : imapDisk'[b] \subseteq imap'[b]
    BY <2>2, <2>3 DEF InodeMapCovered
  <2> QED
    BY <2>2, <2>6, <2>7 DEF InodeMapCovered
<1>3. CASE InodeDirty(t)
  <2>1. UNCHANGED <<imap, imapDisk, i, j>> /\ imapDirty' = imapDirty \cup {i[t]}
    BY <1>3 DEF InodeDirty
  <2>2. ASSUME NEW b \in IBlocks, b \notin imapDirty', NEW x \in imap'[b] \ imapDisk'[b]
        PROVE  \E u \in Threads : pc'[u] \in {"i_unlock", "i_dirty"} /\ i'[u] = b /\ j'[u] = x
    <3>1. PICK u \in Threads : pc[u] \in {"i_unlock", "i_dirty"} /\ i[u] = b /\ j[u] = x
      BY <2>1, <2>2 DEF InodeMapCovered
    <3>2. u # t
      BY <2>1, <2>2, <3>1
    <3> QED
      BY <1>1, <3>1, <3>2
  <2> QED
    BY <2>1, <2>2 DEF InodeMapCovered
<1>4. CASE ~InodeSet(t) /\ ~InodeDirty(t)
  <2>1. UNCHANGED <<imap, imapDisk, imapDirty>>
    BY <1>4 DEF InodeCall, InodeNoMemory, NewInode, InodeLock, InodeFind, InodeBreak, InodeNext,
                InodeNoSpace, InodeUnlock, InodeReturn
  <2>2. pc[t] \in {"i_unlock", "i_dirty"} => pc'[t] = "i_dirty" /\ i' = i /\ j' = j
    BY <1>4 DEF TypeOK, InodeCall, InodeNoMemory, NewInode, InodeLock, InodeFind, InodeBreak,
                InodeNext, InodeNoSpace, InodeUnlock, InodeReturn
  <2> QED
    BY <1>1, <2>1, <2>2, InodeMapStaysCovered
<1> QED
  BY <1>2, <1>3, <1>4

\* The flusher clears the dirty bit and copies the buffer in one step.
LEMMA FlushCovered ==
  ASSUME TypeOK, ZoneMapCovered, InodeMapCovered,
         \/ \E b \in ZBlocks : FlushZoneMap(b)
         \/ \E b \in IBlocks : FlushInodeMap(b)
  PROVE  ZoneMapCovered' /\ InodeMapCovered'
<1>1. ASSUME NEW b \in ZBlocks, FlushZoneMap(b) PROVE ZoneMapCovered' /\ InodeMapCovered'
  <2>1. \A c \in ZBlocks : zmapDisk'[c] = IF c = b THEN zmap[b] ELSE zmapDisk[c]
    BY <1>1 DEF FlushZoneMap, TypeOK
  <2>2. UNCHANGED <<zmap, imap, imapDirty, imapDisk, pc, i, j>> /\ zmapDirty' = zmapDirty \ {b}
    BY <1>1 DEF FlushZoneMap
  <2>3. ZoneMapCovered'
    BY <2>1, <2>2 DEF ZoneMapCovered
  <2> QED
    BY <2>2, <2>3, InodeMapStaysCovered
<1>2. ASSUME NEW b \in IBlocks, FlushInodeMap(b) PROVE ZoneMapCovered' /\ InodeMapCovered'
  <2>1. \A c \in IBlocks : imapDisk'[c] = IF c = b THEN imap[b] ELSE imapDisk[c]
    BY <1>2 DEF FlushInodeMap, TypeOK
  <2>2. UNCHANGED <<zmap, zmapDirty, zmapDisk, imap, pc, i, j>> /\ imapDirty' = imapDirty \ {b}
    BY <1>2 DEF FlushInodeMap
  <2>3. InodeMapCovered'
    BY <2>1, <2>2 DEF InodeMapCovered
  <2> QED
    BY <2>2, <2>3, ZoneMapStaysCovered
<1> QED
  BY <1>1, <1>2

\* Although mark_buffer_dirty runs after the lock is dropped and races with the
\* flusher, no bit is left in a clean buffer without being on the device, unless
\* the call that set it is still going to mark the buffer.
THEOREM WritebackCorrect == Spec => []WritebackCannotMiss
<1> DEFINE Covered == ZoneMapCovered /\ InodeMapCovered
<1>1. Init => Covered
  BY DEF Init, ZoneMapCovered, InodeMapCovered
<1>2. TypeOK /\ ControlOK /\ Covered /\ [Next]_vars => Covered'
  <2> SUFFICES ASSUME TypeOK, ControlOK, ZoneMapCovered, InodeMapCovered, [Next]_vars
               PROVE  ZoneMapCovered' /\ InodeMapCovered'
    OBVIOUS
  <2>1. ASSUME NEW t \in Threads, ZoneCall(t) \/ NewZone(t)
        PROVE  ZoneMapCovered' /\ InodeMapCovered'
    <3>1. \A u \in Threads : u # t => pc'[u] = pc[u] /\ i'[u] = i[u] /\ j'[u] = j[u]
      BY <2>1, OtherThreads DEF ThreadStep
    <3>2. UNCHANGED <<imap, imapDirty, imapDisk>> /\ pc[t] \notin {"i_unlock", "i_dirty"}
      BY <2>1, ZoneStepFrame DEF ZonePcs
    <3>3. InodeMapCovered'
      BY <3>1, <3>2, InodeMapStaysCovered
    <3> QED
      BY <2>1, <3>3, ZoneStepCovered
  <2>2. ASSUME NEW t \in Threads, InodeCall(t) \/ InodeNoMemory(t) \/ NewInode(t)
        PROVE  ZoneMapCovered' /\ InodeMapCovered'
    <3>1. \A u \in Threads : u # t => pc'[u] = pc[u] /\ i'[u] = i[u] /\ j'[u] = j[u]
      BY <2>2, OtherThreads DEF ThreadStep
    <3>2. UNCHANGED <<zmap, zmapDirty, zmapDisk>> /\ pc[t] \notin {"z_unlock", "z_dirty"}
      BY <2>2, InodeStepFrame DEF InodePcs
    <3>3. ZoneMapCovered'
      BY <3>1, <3>2, ZoneMapStaysCovered
    <3> QED
      BY <2>2, <3>3, InodeStepCovered
  <2>3. CASE UNCHANGED vars
    BY <2>3, ZoneMapStaysCovered, InodeMapStaysCovered DEF vars, mapVars, diskVars
  <2> QED
    BY <2>1, <2>2, <2>3, StepCases, FlushCovered DEF ThreadStep
<1>3. Covered => WritebackCannotMiss
  BY DEF ZoneMapCovered, InodeMapCovered, WritebackCannotMiss
<1> QED
  BY <1>1, <1>2, <1>3, ControlCorrect, PTL DEF Spec
-----------------------------------------------------------------------------
(***************************************************************************)
(* Inode numbers are accounted for                                         *)
(***************************************************************************)
\* No two bits of the inode map have the same number.
LEMMA InodeNumberInjective ==
  ASSUME NEW b \in IBlocks, NEW c \in IBlocks, NEW x \in Bits, NEW y \in Bits,
         BitNo(b, x) = BitNo(c, y)
  PROVE  b = c /\ x = y
<1>1. b \in Nat /\ c \in Nat
  BY BitmapAssumption DEF IBlocks
<1> QED
  BY <1>1, BitNumberInjective, BitmapAssumption DEF BitNo, Bits

\* An inode number is marked iff its bit is set, before and after a step.
LEMMA InodesMarkedMember ==
  /\ \A n : n \in InodesMarked <=> \E b \in IBlocks : \E x \in imap[b] : n = BitNo(b, x)
  /\ \A n : n \in InodesMarked' <=> \E b \in IBlocks : \E x \in imap'[b] : n = BitNo(b, x)
  BY DEF InodesMarked

\* InodeInFlight case by case, before and after a step.
LEMMA InodeInFlightCases ==
  ASSUME NEW t \in Threads
  PROVE  /\ pc[t] \in {"i_unlock", "i_dirty"} => InodeInFlight(t) = {BitNo(i[t], j[t])}
         /\ pc[t] = "i_ret" => InodeInFlight(t) = {ret[t]} \ {0}
         /\ pc[t] \notin {"i_unlock", "i_dirty", "i_ret"} => InodeInFlight(t) = {}
         /\ pc'[t] \in {"i_unlock", "i_dirty"} => InodeInFlight(t)' = {BitNo(i'[t], j'[t])}
         /\ pc'[t] = "i_ret" => InodeInFlight(t)' = {ret'[t]} \ {0}
         /\ pc'[t] \notin {"i_unlock", "i_dirty", "i_ret"} => InodeInFlight(t)' = {}
  BY DEF InodeInFlight

\* A thread that does not move has the same number in flight.
LEMMA InodeInFlightUnmoved ==
  ASSUME NEW u \in Threads,
         pc'[u] = pc[u], i'[u] = i[u], j'[u] = j[u], ret'[u] = ret[u]
  PROVE  InodeInFlight(u)' = InodeInFlight(u)
  BY DEF InodeInFlight

\* Steps that touch neither the inode map nor any number in flight.
LEMMA InodesUnmoved ==
  ASSUME InodesAccounted, UNCHANGED <<imap, inodesOut>>,
         \A u \in Threads : InodeInFlight(u)' = InodeInFlight(u)
  PROVE  InodesAccounted'
<1>1. InodesMarked' = InodesMarked
  BY DEF InodesMarked
<1>2. (UNION {InodeInFlight(u) : u \in Threads})' = UNION {InodeInFlight(u) : u \in Threads}
  OBVIOUS
<1> QED
  BY <1>1, <1>2 DEF InodesAccounted, InodesBefore

\* minix_test_and_set_bit, which finds a zero bit, takes a number nobody had.
LEMMA InodeSetMarks ==
  ASSUME NEW t \in Threads, TypeOK, ControlOK, InodeSet(t)
  PROVE  /\ i[t] \in IBlocks /\ j[t] \in Bits /\ ~AlreadySet(t)
         /\ BitNo(i[t], j[t]) \in InodeNumbers
         /\ BitNo(i[t], j[t]) \notin InodesMarked
         /\ InodesMarked' = InodesMarked \cup {BitNo(i[t], j[t])}
<1> DEFINE n == BitNo(i[t], j[t])
<1>1. i[t] \in IBlocks /\ j[t] \in Bits /\ ~AlreadySet(t)
  BY DEF TypeOK, ControlOK, InodeSet, AlreadySet
<1>2. \A b \in IBlocks : imap[b] \subseteq Bits
  BY DEF TypeOK
<1>3. n \notin InodesMarked
  <2> SUFFICES ASSUME NEW b \in IBlocks, NEW x \in imap[b], n = BitNo(b, x)
               PROVE  FALSE
    BY DEF InodesMarked
  <2>1. x \in Bits
    BY <1>2
  <2>2. b = i[t] /\ x = j[t]
    BY <1>1, <2>1, InodeNumberInjective
  <2> QED
    BY <1>1, <2>2 DEF AlreadySet
<1>4. \A b \in IBlocks : imap'[b] = IF b = i[t] THEN imap[b] \cup {j[t]} ELSE imap[b]
  BY DEF InodeSet, TypeOK
<1>5. ASSUME NEW m \in InodesMarked' PROVE m \in InodesMarked \cup {n}
  <2>1. PICK b \in IBlocks : \E x \in imap'[b] : m = BitNo(b, x)
    BY InodesMarkedMember
  <2>2. PICK x \in imap'[b] : m = BitNo(b, x)
    BY <2>1
  <2>3. CASE x \in imap[b]
    BY <2>2, <2>3, InodesMarkedMember
  <2>4. CASE b = i[t] /\ x = j[t]
    BY <2>2, <2>4
  <2> QED
    BY <2>2, <2>3, <2>4, <1>4
<1>6. ASSUME NEW m \in InodesMarked PROVE m \in InodesMarked'
  <2>1. PICK b \in IBlocks : \E x \in imap[b] : m = BitNo(b, x)
    BY InodesMarkedMember
  <2>2. PICK x \in imap[b] : m = BitNo(b, x)
    BY <2>1
  <2>3. x \in imap'[b]
    BY <1>4
  <2> QED
    BY <2>2, <2>3, InodesMarkedMember
<1>7. n \in InodesMarked'
  <2>1. j[t] \in imap'[i[t]]
    BY <1>1, <1>4
  <2> QED
    BY <1>1, <2>1, InodesMarkedMember
<1>8. n \in InodeNumbers
  BY <1>1 DEF InodeNumbers, Numbers
<1> QED
  BY <1>1, <1>3, <1>5, <1>6, <1>7, <1>8

\* The number is in flight from then on.
LEMMA InodeSetAccounted ==
  ASSUME NEW t \in Threads, TypeOK, ControlOK, InodesAccounted, InodeSet(t)
  PROVE  InodesAccounted'
<1> DEFINE n == BitNo(i[t], j[t])
<1>1. n \notin InodesMarked /\ InodesMarked' = InodesMarked \cup {n} /\ ~AlreadySet(t)
  BY InodeSetMarks
<1>2. InodeInFlight(t) = {} /\ InodeInFlight(t)' = {n}
  BY <1>1, InodeInFlightCases DEF InodeSet, TypeOK
<1>3. \A u \in Threads \ {t} : InodeInFlight(u)' = InodeInFlight(u)
  BY OtherThreads, InodeInFlightUnmoved DEF ThreadStep, NewInode
<1>4. inodesOut' = inodesOut
  BY DEF InodeSet, outVars
<1>5. /\ InodesBefore \cup inodesOut \subseteq InodesMarked
      /\ \A u \in Threads : InodeInFlight(u) \subseteq InodesMarked
  BY DEF InodesAccounted
<1>6. (UNION {InodeInFlight(u) : u \in Threads})' =
        (UNION {InodeInFlight(u) : u \in Threads}) \cup {n}
  BY <1>2, <1>3
<1>7. InodesMarked' =
        InodesBefore \cup inodesOut' \cup (UNION {InodeInFlight(u) : u \in Threads})'
  BY <1>1, <1>4, <1>6 DEF InodesAccounted
<1>8. \A u \in Threads : InodeInFlight(u)' \cap (InodesBefore \cup inodesOut') = {}
  BY <1>1, <1>2, <1>3, <1>4, <1>5 DEF InodesAccounted
<1>9. \A u, v \in Threads : u # v => InodeInFlight(u)' \cap InodeInFlight(v)' = {}
  BY <1>1, <1>2, <1>3, <1>5 DEF InodesAccounted
<1> QED
  BY <1>7, <1>8, <1>9 DEF InodesAccounted, InodesBefore

\* The return moves the number from the call to the caller.
LEMMA InodeReturnAccounted ==
  ASSUME NEW t \in Threads, TypeOK, ControlOK, InodesAccounted, InodeReturn(t)
  PROVE  InodesAccounted'
<1>1. InodesMarked' = InodesMarked
  BY DEF InodesMarked, InodeReturn, mapVars
<1>2. InodeInFlight(t)' = {} /\ inodesOut' = inodesOut \cup InodeInFlight(t)
  BY InodeInFlightCases DEF InodeReturn, Goto, TypeOK
<1>3. \A u \in Threads \ {t} : InodeInFlight(u)' = InodeInFlight(u)
  BY OtherThreads, InodeInFlightUnmoved DEF ThreadStep, NewInode
<1>4. inodesOut' \cup (UNION {InodeInFlight(u) : u \in Threads})' =
        inodesOut \cup UNION {InodeInFlight(u) : u \in Threads}
  BY <1>2, <1>3
<1>5. InodesMarked' =
        InodesBefore \cup inodesOut' \cup (UNION {InodeInFlight(u) : u \in Threads})'
  BY <1>1, <1>4 DEF InodesAccounted
<1>6. \A u \in Threads : InodeInFlight(u)' \cap (InodesBefore \cup inodesOut') = {}
  BY <1>2, <1>3 DEF InodesAccounted
<1>7. \A u, v \in Threads : u # v => InodeInFlight(u)' \cap InodeInFlight(v)' = {}
  BY <1>2, <1>3 DEF InodesAccounted
<1> QED
  BY <1>5, <1>6, <1>7 DEF InodesAccounted, InodesBefore

\* The number about to be returned is not 0, which is marked from the start: the
\* test of j after the addition never gives a number up.
LEMMA InodeDirtyNotZero ==
  ASSUME NEW t \in Threads, TypeOK, ControlOK, InodesAccounted, pc[t] \in {"i_unlock", "i_dirty"}
  PROVE  BitNo(i[t], j[t]) \in Nat \ {0}
<1>1. i[t] \in IBlocks /\ j[t] \in Bits
  BY DEF ControlOK
<1>2. BitNo(i[t], j[t]) \in Nat
  BY <1>1, BitNoType DEF IBlocks
<1>3. InodeInFlight(t) = {BitNo(i[t], j[t])} /\ InodeInFlight(t) \cap InodesBefore = {}
  BY InodeInFlightCases DEF InodesAccounted
<1>4. 0 \in InodesBefore
  <2>1. BitNo(0, 0) = 0 /\ 0 \in IBlocks /\ 0 \in Bits
    BY BitmapAssumption DEF BitNo, BitNumber, IBlocks, Bits
  <2> QED
    BY <2>1, BitmapAssumption DEF InodesBefore, InodeNumbers, Numbers
<1> QED
  BY <1>2, <1>3, <1>4

\* The steps of aufs_new_inode that mark no bit and do not return.
LEMMA InodeStepAccounted ==
  ASSUME NEW t \in Threads, TypeOK, ControlOK, InodesAccounted,
         InodeCall(t) \/ InodeNoMemory(t) \/ NewInode(t)
  PROVE  InodesAccounted'
<1>1. CASE InodeSet(t)
  BY <1>1, InodeSetAccounted
<1>2. CASE InodeReturn(t)
  BY <1>2, InodeReturnAccounted
<1>3. CASE ~InodeSet(t) /\ ~InodeReturn(t)
  <2> USE DEF Goto, TypeOK
  <2>1. UNCHANGED <<imap, inodesOut>>
    BY <1>3 DEF InodeCall, InodeNoMemory, NewInode, InodeLock, InodeFind, InodeBreak, InodeNext,
                InodeNoSpace, InodeUnlock, InodeDirty, mapVars, outVars
  <2>2. InodeInFlight(t)' = InodeInFlight(t)
    <3>1. CASE InodeDirty(t)
      <4>1. pc[t] = "i_dirty" /\ pc'[t] = "i_ret" /\ ret'[t] = BitNo(i[t], j[t])
        BY <3>1 DEF InodeDirty
      <4> QED
        BY <4>1, InodeDirtyNotZero, InodeInFlightCases
    <3>2. CASE InodeUnlock(t)
      BY <3>2, InodeInFlightCases DEF InodeUnlock
    <3>3. CASE InodeNoMemory(t) \/ InodeNoSpace(t)
      BY <3>3, InodeInFlightCases DEF InodeNoMemory, InodeNoSpace, InodeGiveUp
    <3>4. CASE InodeCall(t) \/ InodeLock(t) \/ InodeFind(t) \/ InodeBreak(t) \/ InodeNext(t)
      BY <3>4, InodeInFlightCases DEF InodeCall, InodeLock, InodeFind, InodeBreak, InodeNext
    <3> QED
      BY <1>3, <3>1, <3>2, <3>3, <3>4 DEF NewInode
  <2>3. \A u \in Threads \ {t} : InodeInFlight(u)' = InodeInFlight(u)
    BY OtherThreads, InodeInFlightUnmoved DEF ThreadStep
  <2> QED
    BY <2>1, <2>2, <2>3, InodesUnmoved
<1> QED
  BY <1>1, <1>2, <1>3

\* At mount the marked numbers are those in use.
LEMMA InitInodesAccounted == Init => InodesAccounted
<1> SUFFICES ASSUME Init PROVE InodesAccounted
  OBVIOUS
<1>1. \A u \in Threads : InodeInFlight(u) = {}
  BY InodeInFlightCases DEF Init
<1>2. InodesMarked \subseteq InodesBefore
  <2> SUFFICES ASSUME NEW b \in IBlocks, NEW x \in imap[b]
               PROVE  BitNo(b, x) \in InodesBefore
    BY DEF InodesMarked
  <2>1. x \in Bits /\ BitNo(b, x) \in InodeBits0
    BY DEF Init, BitsOf
  <2> QED
    BY <2>1 DEF InodesBefore, InodeNumbers, Numbers
<1>3. InodesBefore \subseteq InodesMarked
  <2> SUFFICES ASSUME NEW n \in InodeBits0 \cap InodeNumbers
               PROVE  n \in InodesMarked
    BY DEF InodesBefore
  <2>1. PICK b \in IBlocks, x \in Bits : n = BitNo(b, x)
    BY DEF InodeNumbers, Numbers
  <2>2. x \in imap[b]
    BY <2>1 DEF Init, BitsOf
  <2> QED
    BY <2>1, <2>2 DEF InodesMarked
<1> QED
  BY <1>1, <1>2, <1>3 DEF InodesAccounted, Init

\* No inode number is given out twice, or given out although it was in use, or lost
\* in one of the error exits, for any number of threads and any size of the map.
THEOREM InodesCorrect == Spec => []InodesAccounted
<1>1. TypeOK /\ ControlOK /\ InodesAccounted /\ [Next]_vars => InodesAccounted'
  <2> SUFFICES ASSUME TypeOK, ControlOK, InodesAccounted, [Next]_vars
               PROVE  InodesAccounted'
    OBVIOUS
  <2>1. ASSUME NEW t \in Threads, ZoneCall(t) \/ NewZone(t) PROVE InodesAccounted'
    <3>1. \A u \in Threads \ {t} : InodeInFlight(u)' = InodeInFlight(u)
      BY <2>1, OtherThreads, InodeInFlightUnmoved DEF ThreadStep
    <3>2. UNCHANGED <<imap, inodesOut>> /\ pc[t] \notin InodePcs /\ pc'[t] \notin InodePcs
      BY <2>1, ZoneStepFrame DEF ZonePcs, InodePcs
    <3>3. InodeInFlight(t)' = InodeInFlight(t)
      BY <3>2, InodeInFlightCases DEF InodePcs
    <3> QED
      BY <3>1, <3>2, <3>3, InodesUnmoved
  <2>2. CASE \/ \E b \in ZBlocks : FlushZoneMap(b)
             \/ \E b \in IBlocks : FlushInodeMap(b)
             \/ UNCHANGED vars
    <3>1. UNCHANGED <<imap, inodesOut, pc, i, j, ret>>
      BY <2>2 DEF FlushZoneMap, FlushInodeMap, vars, mapVars, outVars
    <3> QED
      BY <3>1, InodeInFlightUnmoved, InodesUnmoved
  <2> QED
    BY <2>1, <2>2, StepCases, InodeStepAccounted DEF ThreadStep
<1> QED
  BY <1>1, InitInodesAccounted, ControlCorrect, PTL DEF Spec
-----------------------------------------------------------------------------
(***************************************************************************)
(* Refusals.  aufs_new_zone drops the lock between two map blocks, so that *)
(* no single moment of it sees the whole map; since bits are never cleared *)
(* the blocks it has passed are still full when it gives up.               *)
(***************************************************************************)
SearchOK ==
  \A t \in Threads :
    /\ pc[t] \in {"z_loop", "z_find", "z_test"} =>
         \A b \in ZBlocks : b < i[t] => Bits \subseteq zmap[b]
    /\ pc[t] = "z_test" /\ j[t] = BitsPerBlock => Bits \subseteq zmap[i[t]]
    /\ pc[t] \in {"i_lock", "i_loop", "i_test"} =>
         \A b \in IBlocks : b < i[t] => Bits \subseteq imap[b]
    /\ pc[t] = "i_test" /\ j[t] = BitsPerBlock => Bits \subseteq imap[i[t]]

\* minix_find_first_zero_bit answers the number of bits only for a full block.
LEMMA FindFirstZeroFull ==
  ASSUME NEW t \in Threads, NEW set, FindFirstZero(t, set),
         j \in [Threads -> 0 .. BitsPerBlock], j'[t] = BitsPerBlock
  PROVE  Bits \subseteq set
  BY BitmapAssumption DEF FindFirstZero, Bits

\* Threads that do not move keep what they know, because the maps only grow.
LEMMA SearchStays ==
  ASSUME TypeOK, ControlOK, SearchOK, [Next]_vars, NEW u \in Threads,
         pc'[u] = pc[u], i'[u] = i[u], j'[u] = j[u]
  PROVE  /\ pc'[u] \in {"z_loop", "z_find", "z_test"} =>
              \A b \in ZBlocks : b < i'[u] => Bits \subseteq zmap'[b]
         /\ pc'[u] = "z_test" /\ j'[u] = BitsPerBlock => Bits \subseteq zmap'[i'[u]]
         /\ pc'[u] \in {"i_lock", "i_loop", "i_test"} =>
              \A b \in IBlocks : b < i'[u] => Bits \subseteq imap'[b]
         /\ pc'[u] = "i_test" /\ j'[u] = BitsPerBlock => Bits \subseteq imap'[i'[u]]
<1>1. /\ pc[u] = "z_test" => i[u] \in ZBlocks
      /\ pc[u] = "i_test" => i[u] \in IBlocks
  BY DEF ControlOK
<1>2. /\ \A b \in ZBlocks : zmap[b] \subseteq zmap'[b]
      /\ \A b \in IBlocks : imap[b] \subseteq imap'[b]
  BY MapsGrow
<1> QED
  BY <1>1, <1>2 DEF SearchOK

\* The thread that moves: it passes a block only when it has found it full.
LEMMA ZoneStepSearch ==
  ASSUME NEW t \in Threads, TypeOK, ControlOK, SearchOK, ZoneCall(t) \/ NewZone(t)
  PROVE  /\ pc'[t] \in {"z_loop", "z_find", "z_test"} =>
              \A b \in ZBlocks : b < i'[t] => Bits \subseteq zmap'[b]
         /\ pc'[t] = "z_test" /\ j'[t] = BitsPerBlock => Bits \subseteq zmap'[i'[t]]
<1> USE BitmapAssumption DEF TypeOK, Goto, mapVars
<1>1. CASE ZoneCall(t)
  BY <1>1 DEF ZoneCall, ZBlocks
<1>2. CASE ZoneLock(t)
  BY <1>2 DEF ZoneLock, SearchOK
<1>3. CASE ZoneFind(t)
  <2>1. pc[t] = "z_find" /\ zmap' = zmap /\ i' = i /\ FindFirstZero(t, zmap[i[t]])
    BY <1>3 DEF ZoneFind
  <2>2. j'[t] = BitsPerBlock => Bits \subseteq zmap[i[t]]
    BY <2>1, FindFirstZeroFull
  <2> QED
    BY <2>1, <2>2 DEF SearchOK
<1>4. CASE ZoneNext(t)
  <2>1. i[t] \in ZBlocks /\ j[t] = BitsPerBlock /\ pc[t] = "z_test" /\ pc'[t] = "z_loop"
    BY <1>4 DEF ZoneNext, ControlOK
  <2>2. zmap' = zmap /\ i'[t] = i[t] + 1
    BY <1>4 DEF ZoneNext
  <2>3. \A b \in ZBlocks : b < i[t] + 1 => b < i[t] \/ b = i[t]
    BY <2>1 DEF ZBlocks
  <2> QED
    BY <2>1, <2>2, <2>3 DEF SearchOK
<1>5. CASE ZoneFail(t) \/ ZoneSet(t) \/ ZoneUnlock(t) \/ ZoneDirty(t) \/ ZoneReturn(t)
  BY <1>5 DEF ZoneFail, ZoneSet, ZoneUnlock, ZoneDirty, ZoneReturn
<1> QED
  BY <1>1, <1>2, <1>3, <1>4, <1>5 DEF NewZone

\* The same of aufs_new_inode, which keeps the lock from block to block.
LEMMA InodeStepSearch ==
  ASSUME NEW t \in Threads, TypeOK, ControlOK, SearchOK,
         InodeCall(t) \/ InodeNoMemory(t) \/ NewInode(t)
  PROVE  /\ pc'[t] \in {"i_lock", "i_loop", "i_test"} =>
              \A b \in IBlocks : b < i'[t] => Bits \subseteq imap'[b]
         /\ pc'[t] = "i_test" /\ j'[t] = BitsPerBlock => Bits \subseteq imap'[i'[t]]
<1> USE BitmapAssumption DEF TypeOK, Goto, mapVars
<1>1. CASE InodeCall(t)
  BY <1>1 DEF InodeCall, IBlocks
<1>2. CASE InodeLock(t)
  BY <1>2 DEF InodeLock, SearchOK
<1>3. CASE InodeFind(t)
  <2>1. pc[t] = "i_loop" /\ imap' = imap /\ i' = i /\ FindFirstZero(t, imap[i[t]])
    BY <1>3 DEF InodeFind
  <2>2. j'[t] = BitsPerBlock => Bits \subseteq imap[i[t]]
    BY <2>1, FindFirstZeroFull
  <2> QED
    BY <2>1, <2>2 DEF SearchOK
<1>4. CASE InodeNext(t)
  <2>1. i[t] \in IBlocks /\ j[t] = BitsPerBlock /\ pc[t] = "i_test" /\ pc'[t] = "i_loop"
    BY <1>4 DEF InodeNext, ControlOK
  <2>2. imap' = imap /\ i'[t] = i[t] + 1
    BY <1>4 DEF InodeNext
  <2>3. \A b \in IBlocks : b < i[t] + 1 => b < i[t] \/ b = i[t]
    BY <2>1 DEF IBlocks
  <2> QED
    BY <2>1, <2>2, <2>3 DEF SearchOK
<1>5. CASE \/ InodeNoMemory(t) \/ InodeBreak(t) \/ InodeNoSpace(t) \/ InodeSet(t)
           \/ InodeUnlock(t) \/ InodeDirty(t) \/ InodeReturn(t)
  BY <1>5 DEF InodeNoMemory, InodeBreak, InodeNoSpace, InodeSet, InodeUnlock, InodeDirty,
              InodeReturn
<1> QED
  BY <1>1, <1>2, <1>3, <1>4, <1>5 DEF NewInode

\* Every step keeps SearchOK.
LEMMA StepSearchOK ==
  ASSUME TypeOK, ControlOK, SearchOK, [Next]_vars
  PROVE  SearchOK'
<1>1. ASSUME NEW t \in Threads, ZoneCall(t) \/ NewZone(t) PROVE SearchOK'
  <2>1. \A u \in Threads : u # t => pc'[u] = pc[u] /\ i'[u] = i[u] /\ j'[u] = j[u]
    BY <1>1, OtherThreads DEF ThreadStep
  <2>2. pc'[t] \notin {"i_lock", "i_loop", "i_test"}
    BY <1>1, ZoneStepFrame DEF ZonePcs
  <2>3. ASSUME NEW u \in Threads
        PROVE  /\ pc'[u] \in {"z_loop", "z_find", "z_test"} =>
                    \A b \in ZBlocks : b < i'[u] => Bits \subseteq zmap'[b]
               /\ pc'[u] = "z_test" /\ j'[u] = BitsPerBlock => Bits \subseteq zmap'[i'[u]]
               /\ pc'[u] \in {"i_lock", "i_loop", "i_test"} =>
                    \A b \in IBlocks : b < i'[u] => Bits \subseteq imap'[b]
               /\ pc'[u] = "i_test" /\ j'[u] = BitsPerBlock => Bits \subseteq imap'[i'[u]]
    <3>1. CASE u = t
      BY <1>1, <2>2, <3>1, ZoneStepSearch
    <3>2. CASE u # t
      BY <2>1, <3>2, SearchStays
    <3> QED
      BY <3>1, <3>2
  <2> QED
    BY <2>3 DEF SearchOK
<1>2. ASSUME NEW t \in Threads, InodeCall(t) \/ InodeNoMemory(t) \/ NewInode(t) PROVE SearchOK'
  <2>1. \A u \in Threads : u # t => pc'[u] = pc[u] /\ i'[u] = i[u] /\ j'[u] = j[u]
    BY <1>2, OtherThreads DEF ThreadStep
  <2>2. pc'[t] \notin {"z_loop", "z_find", "z_test"}
    BY <1>2, InodeStepFrame DEF InodePcs
  <2>3. ASSUME NEW u \in Threads
        PROVE  /\ pc'[u] \in {"z_loop", "z_find", "z_test"} =>
                    \A b \in ZBlocks : b < i'[u] => Bits \subseteq zmap'[b]
               /\ pc'[u] = "z_test" /\ j'[u] = BitsPerBlock => Bits \subseteq zmap'[i'[u]]
               /\ pc'[u] \in {"i_lock", "i_loop", "i_test"} =>
                    \A b \in IBlocks : b < i'[u] => Bits \subseteq imap'[b]
               /\ pc'[u] = "i_test" /\ j'[u] = BitsPerBlock => Bits \subseteq imap'[i'[u]]
    <3>1. CASE u = t
      BY <1>2, <2>2, <3>1, InodeStepSearch
    <3>2. CASE u # t
      BY <2>1, <3>2, SearchStays
    <3> QED
      BY <3>1, <3>2
  <2> QED
    BY <2>3 DEF SearchOK
<1>3. CASE \/ \E b \in ZBlocks : FlushZoneMap(b)
           \/ \E b \in IBlocks : FlushInodeMap(b)
           \/ UNCHANGED vars
  <2>1. UNCHANGED <<pc, i, j, zmap, imap>>
    BY <1>3 DEF FlushZoneMap, FlushInodeMap, vars, mapVars
  <2> QED
    BY <2>1 DEF SearchOK
<1> QED
  BY <1>1, <1>2, <1>3, StepCases DEF ThreadStep

\* The invariant that the refinements need.
AllocInv == TypeOK /\ ControlOK /\ SearchOK

\* It is an invariant of the specification.
LEMMA AllocInvHolds == Spec => []AllocInv
<1>1. Init => AllocInv
  BY InitTypeOK, InitControlOK DEF AllocInv, SearchOK, Init
<1>2. AllocInv /\ [Next]_vars => AllocInv'
  BY StepOK, StepSearchOK DEF AllocInv
<1> QED
  BY <1>1, <1>2, PTL DEF Spec

-----------------------------------------------------------------------------
(***************************************************************************)
(* Both calls implement the allocator of Allocator.tla                     *)
(***************************************************************************)
\* A function that differs from another one at one place only.
LEMMA FunctionUpdate ==
  ASSUME NEW S, NEW f, NEW g, f = [x \in S |-> f[x]], g = [x \in S |-> g[x]],
         NEW t \in S, \A u \in S : u # t => g[u] = f[u]
  PROVE  g = [f EXCEPT ![t] = g[t]]
<1>1. \A u \in S : g[u] = [f EXCEPT ![t] = g[t]][u]
  OBVIOUS
<1>2. [f EXCEPT ![t] = g[t]] = [u \in S |-> [f EXCEPT ![t] = g[t]][u]]
  OBVIOUS
<1> QED
  BY <1>1, <1>2

\* A function that differs from another one nowhere.
LEMMA FunctionSame ==
  ASSUME NEW S, NEW f, NEW g, f = [x \in S |-> f[x]], g = [x \in S |-> g[x]],
         \A u \in S : g[u] = f[u]
  PROVE  g = f
  OBVIOUS

\* The abstract state of a thread's call of aufs_new_inode, before and after a step.
LEMMA InodeCallState ==
  /\ inodePhase = [t \in Threads |-> inodePhase[t]]
  /\ inodeAnswer = [t \in Threads |-> inodeAnswer[t]]
  /\ inodePhase' = [t \in Threads |-> inodePhase'[t]]
  /\ inodeAnswer' = [t \in Threads |-> inodeAnswer'[t]]
  BY DEF inodePhase, inodeAnswer

\* What the call of a thread is to the allocator, by where the thread is.
LEMMA InodeCallOf ==
  ASSUME NEW t \in Threads
  PROVE  /\ pc[t] \in {"i_lock", "i_loop", "i_test", "i_set"} =>
              inodePhase[t] = "busy" /\ inodeAnswer[t] = 0
         /\ pc[t] \in {"i_unlock", "i_dirty"} =>
              inodePhase[t] = "done" /\ inodeAnswer[t] = BitNo(i[t], j[t])
         /\ pc[t] = "i_ret" => inodePhase[t] = "done" /\ inodeAnswer[t] = ret[t]
         /\ pc[t] \in {"idle"} \cup ZonePcs => inodePhase[t] = "idle" /\ inodeAnswer[t] = 0
  BY DEF inodePhase, inodeAnswer, ZonePcs

\* The same after a step.
LEMMA InodeCallOfNext ==
  ASSUME NEW t \in Threads
  PROVE  /\ pc'[t] \in {"i_lock", "i_loop", "i_test", "i_set"} =>
              inodePhase'[t] = "busy" /\ inodeAnswer'[t] = 0
         /\ pc'[t] \in {"i_unlock", "i_dirty"} =>
              inodePhase'[t] = "done" /\ inodeAnswer'[t] = BitNo(i'[t], j'[t])
         /\ pc'[t] = "i_ret" => inodePhase'[t] = "done" /\ inodeAnswer'[t] = ret'[t]
         /\ pc'[t] \in {"idle"} \cup ZonePcs => inodePhase'[t] = "idle" /\ inodeAnswer'[t] = 0
  BY DEF inodePhase, inodeAnswer, ZonePcs

\* A thread that does not move is in the same abstract state.
LEMMA InodeCallUnmoved ==
  ASSUME NEW u \in Threads,
         pc'[u] = pc[u], i'[u] = i[u], j'[u] = j[u], ret'[u] = ret[u]
  PROVE  inodePhase'[u] = inodePhase[u] /\ inodeAnswer'[u] = inodeAnswer[u]
  BY DEF inodePhase, inodeAnswer

\* What a step of thread t does to the abstract state of all threads.
LEMMA InodeCallMoves ==
  ASSUME TypeOK, ControlOK, NEW t \in Threads, ThreadStep(t)
  PROVE  /\ inodePhase' = [inodePhase EXCEPT ![t] = inodePhase'[t]]
         /\ inodeAnswer' = [inodeAnswer EXCEPT ![t] = inodeAnswer'[t]]
         /\ inodePhase'[t] = inodePhase[t] => inodePhase' = inodePhase
         /\ inodeAnswer'[t] = inodeAnswer[t] => inodeAnswer' = inodeAnswer
<1>1. \A u \in Threads : u # t =>
        inodePhase'[u] = inodePhase[u] /\ inodeAnswer'[u] = inodeAnswer[u]
  BY OtherThreads, InodeCallUnmoved
<1>2. /\ inodePhase' = [inodePhase EXCEPT ![t] = inodePhase'[t]]
      /\ inodeAnswer' = [inodeAnswer EXCEPT ![t] = inodeAnswer'[t]]
  BY <1>1, FunctionUpdate, InodeCallState
<1>3. ASSUME inodePhase'[t] = inodePhase[t] PROVE inodePhase' = inodePhase
  <2>1. \A u \in Threads : inodePhase'[u] = inodePhase[u]
    BY <1>1, <1>3
  <2> QED
    BY <2>1, FunctionSame, InodeCallState
<1>4. ASSUME inodeAnswer'[t] = inodeAnswer[t] PROVE inodeAnswer' = inodeAnswer
  <2>1. \A u \in Threads : inodeAnswer'[u] = inodeAnswer[u]
    BY <1>1, <1>4
  <2> QED
    BY <2>1, FunctionSame, InodeCallState
<1> QED
  BY <1>2, <1>3, <1>4

\* The inode numbers marked change only when aufs_new_inode sets a bit.
LEMMA InodesMarkedSame ==
  ASSUME imap' = imap
  PROVE  InodesMarked' = InodesMarked
  BY DEF InodesMarked

\* Every step of aufs_new_inode is a step of the allocator, or none.
LEMMA InodeStepRefines ==
  ASSUME AllocInv, NEW t \in Threads, InodeCall(t) \/ InodeNoMemory(t) \/ NewInode(t)
  PROVE  InodeAllocator!Next \/ UNCHANGED InodeAllocator!vars
<1> USE DEF AllocInv
<1>0. ThreadStep(t) /\ pc \in [Threads -> {"idle"} \cup ZonePcs \cup InodePcs]
  BY DEF ThreadStep, TypeOK
<1>1. CASE InodeCall(t)
  <2>1. pc[t] = "idle" /\ pc'[t] = "i_lock" /\ imap' = imap
    BY <1>0, <1>1 DEF InodeCall, Goto, mapVars
  <2>2. InodeAllocator!Request(t)
    BY <1>0, <2>1, InodeCallOf, InodeCallOfNext, InodeCallMoves, InodesMarkedSame
       DEF InodeAllocator!Request
  <2> QED
    BY <2>2 DEF InodeAllocator!Next
<1>2. CASE InodeNoMemory(t)
  <2>1. pc[t] = "idle" /\ pc'[t] = "i_ret" /\ ret'[t] = 0 /\ imap' = imap
    BY <1>0, <1>2 DEF InodeNoMemory, Goto, mapVars, TypeOK
  <2>2. InodeAllocator!NoMemory(t)
    BY <1>0, <2>1, InodeCallOf, InodeCallOfNext, InodeCallMoves, InodesMarkedSame
       DEF InodeAllocator!NoMemory
  <2> QED
    BY <2>2 DEF InodeAllocator!Next
<1>3. CASE InodeSet(t)
  <2>1. /\ ~AlreadySet(t)
        /\ BitNo(i[t], j[t]) \in InodeNumbers \ InodesMarked
        /\ InodesMarked' = InodesMarked \cup {BitNo(i[t], j[t])}
    BY <1>3, InodeSetMarks
  <2>2. pc[t] = "i_set" /\ pc'[t] = "i_unlock" /\ i' = i /\ j' = j
    BY <1>0, <1>3, <2>1 DEF InodeSet
  <2>3. InodeAllocator!Grant(t)
    BY <1>0, <2>1, <2>2, InodeCallOf, InodeCallOfNext, InodeCallMoves
       DEF InodeAllocator!Grant
  <2> QED
    BY <2>3 DEF InodeAllocator!Next
<1>4. CASE InodeNoSpace(t)
  <2>1. pc[t] = "i_loop" /\ pc'[t] = "i_ret" /\ ret'[t] = 0 /\ imap' = imap
    BY <1>0, <1>4 DEF InodeNoSpace, InodeGiveUp, Goto, mapVars, TypeOK
  <2>2. \A b \in IBlocks : Bits \subseteq imap[b]
    <3>1. \A b \in IBlocks : b < i[t]
      BY <1>4, BitmapAssumption DEF InodeNoSpace, IBlocks, TypeOK
    <3> QED
      BY <2>1, <3>1 DEF SearchOK
  <2>3. InodeNumbers \subseteq InodesMarked
    BY <2>2 DEF InodeNumbers, Numbers, InodesMarked
  <2>4. InodeAllocator!Refuse(t)
    BY <1>0, <2>1, <2>3, InodeCallOf, InodeCallOfNext, InodeCallMoves, InodesMarkedSame
       DEF InodeAllocator!Refuse
  <2> QED
    BY <2>4 DEF InodeAllocator!Next
<1>5. CASE InodeReturn(t)
  <2>1. pc[t] = "i_ret" /\ pc'[t] = "idle" /\ imap' = imap
    BY <1>0, <1>5 DEF InodeReturn, Goto, mapVars
  <2>2. InodeAllocator!Reply(t)
    BY <1>0, <2>1, InodeCallOf, InodeCallOfNext, InodeCallMoves, InodesMarkedSame
       DEF InodeAllocator!Reply
  <2> QED
    BY <2>2 DEF InodeAllocator!Next
<1>6. CASE InodeLock(t) \/ InodeFind(t) \/ InodeBreak(t) \/ InodeNext(t)
  <2>1. /\ pc[t] \in {"i_lock", "i_loop", "i_test", "i_set"}
        /\ pc'[t] \in {"i_lock", "i_loop", "i_test", "i_set"} /\ imap' = imap
    BY <1>0, <1>6 DEF InodeLock, InodeFind, InodeBreak, InodeNext, Goto, mapVars
  <2> QED
    BY <1>0, <2>1, InodeCallOf, InodeCallOfNext, InodeCallMoves, InodesMarkedSame
       DEF InodeAllocator!vars
<1>7. CASE InodeUnlock(t) \/ InodeDirty(t)
  <2>1. /\ pc[t] \in {"i_unlock", "i_dirty"} /\ pc'[t] \in {"i_dirty", "i_ret"}
        /\ pc'[t] = "i_ret" => ret'[t] = BitNo(i[t], j[t])
        /\ UNCHANGED <<imap, i, j>>
    BY <1>0, <1>7 DEF InodeUnlock, InodeDirty, Goto, mapVars, TypeOK
  <2> QED
    BY <1>0, <2>1, InodeCallOf, InodeCallOfNext, InodeCallMoves, InodesMarkedSame
       DEF InodeAllocator!vars
<1> QED
  BY <1>1, <1>2, <1>3, <1>4, <1>5, <1>6, <1>7 DEF NewInode

\* aufs_new_inode implements the allocator for any number of threads and any maps:
\* it never gives out a number twice, and it fails only for lack of memory or when
\* every bit of the map is set.
THEOREM InodeAllocatorImplemented == Spec => InodeSpec
<1>1. Init => InodeAllocator!Init
  <2> SUFFICES ASSUME Init PROVE InodeAllocator!Init
    OBVIOUS
  <2>1. InodesMarked \subseteq InodeNumbers
    <3>1. \A b \in IBlocks : imap[b] \subseteq Bits
      BY DEF Init, BitsOf
    <3> QED
      BY <3>1 DEF InodesMarked, InodeNumbers, Numbers
  <2>2. \A t \in Threads : inodePhase[t] = "idle" /\ inodeAnswer[t] = 0
    BY InodeCallOf DEF Init
  <2>3. /\ inodePhase = [t \in Threads |-> "idle"]
        /\ inodeAnswer = [t \in Threads |-> 0]
    BY <2>2, InodeCallState
  <2> QED
    BY <2>1, <2>3 DEF InodeAllocator!Init
<1>2. AllocInv /\ [Next]_vars => [InodeAllocator!Next]_(InodeAllocator!vars)
  <2> SUFFICES ASSUME AllocInv, [Next]_vars
               PROVE  InodeAllocator!Next \/ UNCHANGED InodeAllocator!vars
    OBVIOUS
  <2>1. ASSUME NEW t \in Threads, ZoneCall(t) \/ NewZone(t)
        PROVE  UNCHANGED InodeAllocator!vars
    <3>1. ThreadStep(t)
      BY <2>1 DEF ThreadStep
    <3>2. imap' = imap /\ pc[t] \in ZonePcs \cup {"idle"} /\ pc'[t] \in ZonePcs \cup {"idle"}
      BY <2>1, ZoneStepFrame DEF AllocInv
    <3>3. inodePhase'[t] = inodePhase[t] /\ inodeAnswer'[t] = inodeAnswer[t]
      BY <3>2, InodeCallOf, InodeCallOfNext
    <3> QED
      BY <3>1, <3>2, <3>3, InodeCallMoves, InodesMarkedSame DEF InodeAllocator!vars, AllocInv
  <2>2. CASE \/ \E b \in ZBlocks : FlushZoneMap(b)
             \/ \E b \in IBlocks : FlushInodeMap(b)
             \/ UNCHANGED vars
    <3>1. UNCHANGED <<imap, pc, i, j, ret>>
      BY <2>2 DEF FlushZoneMap, FlushInodeMap, vars, mapVars
    <3> QED
      BY <3>1, InodesMarkedSame DEF InodeAllocator!vars, inodePhase, inodeAnswer
  <2> QED
    BY <2>1, <2>2, StepCases, InodeStepRefines DEF ThreadStep
<1> QED
  BY <1>1, <1>2, AllocInvHolds, PTL DEF Spec, InodeSpec, InodeAllocator!Spec

\* The abstract state of a thread's call of aufs_new_zone, before and after a step.
LEMMA ZoneCallState ==
  /\ zonePhase = [t \in Threads |-> zonePhase[t]]
  /\ zoneAnswer = [t \in Threads |-> zoneAnswer[t]]
  /\ zonePhase' = [t \in Threads |-> zonePhase'[t]]
  /\ zoneAnswer' = [t \in Threads |-> zoneAnswer'[t]]
  BY DEF zonePhase, zoneAnswer

\* What the call of a thread is to the allocator, by where the thread is.
LEMMA ZoneCallOf ==
  ASSUME NEW t \in Threads
  PROVE  /\ pc[t] \in {"z_loop", "z_find", "z_test"} =>
              zonePhase[t] = "busy" /\ zoneAnswer[t] = 0
         /\ pc[t] \in {"z_unlock", "z_dirty"} =>
              zonePhase[t] = "done" /\ zoneAnswer[t] = ZoneBlock(BitNo(i[t], j[t]))
         /\ pc[t] = "z_ret" => zonePhase[t] = "done" /\ zoneAnswer[t] = ret[t]
         /\ pc[t] \in {"idle"} \cup InodePcs => zonePhase[t] = "idle" /\ zoneAnswer[t] = 0
  BY DEF zonePhase, zoneAnswer, InodePcs

\* The same after a step.
LEMMA ZoneCallOfNext ==
  ASSUME NEW t \in Threads
  PROVE  /\ pc'[t] \in {"z_loop", "z_find", "z_test"} =>
              zonePhase'[t] = "busy" /\ zoneAnswer'[t] = 0
         /\ pc'[t] \in {"z_unlock", "z_dirty"} =>
              zonePhase'[t] = "done" /\ zoneAnswer'[t] = ZoneBlock(BitNo(i'[t], j'[t]))
         /\ pc'[t] = "z_ret" => zonePhase'[t] = "done" /\ zoneAnswer'[t] = ret'[t]
         /\ pc'[t] \in {"idle"} \cup InodePcs => zonePhase'[t] = "idle" /\ zoneAnswer'[t] = 0
  BY DEF zonePhase, zoneAnswer, InodePcs

\* A thread that does not move is in the same abstract state.
LEMMA ZoneCallUnmoved ==
  ASSUME NEW u \in Threads,
         pc'[u] = pc[u], i'[u] = i[u], j'[u] = j[u], ret'[u] = ret[u]
  PROVE  zonePhase'[u] = zonePhase[u] /\ zoneAnswer'[u] = zoneAnswer[u]
  BY DEF zonePhase, zoneAnswer

\* What a step of thread t does to the abstract state of all threads.
LEMMA ZoneCallMoves ==
  ASSUME TypeOK, ControlOK, NEW t \in Threads, ThreadStep(t)
  PROVE  /\ zonePhase' = [zonePhase EXCEPT ![t] = zonePhase'[t]]
         /\ zoneAnswer' = [zoneAnswer EXCEPT ![t] = zoneAnswer'[t]]
         /\ zonePhase'[t] = zonePhase[t] => zonePhase' = zonePhase
         /\ zoneAnswer'[t] = zoneAnswer[t] => zoneAnswer' = zoneAnswer
<1>1. \A u \in Threads : u # t =>
        zonePhase'[u] = zonePhase[u] /\ zoneAnswer'[u] = zoneAnswer[u]
  BY OtherThreads, ZoneCallUnmoved
<1>2. /\ zonePhase' = [zonePhase EXCEPT ![t] = zonePhase'[t]]
      /\ zoneAnswer' = [zoneAnswer EXCEPT ![t] = zoneAnswer'[t]]
  BY <1>1, FunctionUpdate, ZoneCallState
<1>3. ASSUME zonePhase'[t] = zonePhase[t] PROVE zonePhase' = zonePhase
  <2>1. \A u \in Threads : zonePhase'[u] = zonePhase[u]
    BY <1>1, <1>3
  <2> QED
    BY <2>1, FunctionSame, ZoneCallState
<1>4. ASSUME zoneAnswer'[t] = zoneAnswer[t] PROVE zoneAnswer' = zoneAnswer
  <2>1. \A u \in Threads : zoneAnswer'[u] = zoneAnswer[u]
    BY <1>1, <1>4
  <2> QED
    BY <2>1, FunctionSame, ZoneCallState
<1> QED
  BY <1>2, <1>3, <1>4

\* The zones marked change only when aufs_new_zone sets a bit.
LEMMA ZonesMarkedSame ==
  ASSUME zmap' = zmap
  PROVE  ZonesMarked' = ZonesMarked
  BY DEF ZonesMarked, ZonesIn

\* Every step of aufs_new_zone is a step of the allocator, or none.
LEMMA ZoneStepRefines ==
  ASSUME AllocInv, NEW t \in Threads, ZoneCall(t) \/ NewZone(t)
  PROVE  ZoneAllocator!Next \/ UNCHANGED ZoneAllocator!vars
<1> USE DEF AllocInv
<1>0. ThreadStep(t) /\ pc \in [Threads -> {"idle"} \cup ZonePcs \cup InodePcs]
  BY DEF ThreadStep, TypeOK
<1>1. CASE ZoneCall(t)
  <2>1. pc[t] = "idle" /\ pc'[t] = "z_loop" /\ zmap' = zmap
    BY <1>0, <1>1 DEF ZoneCall, Goto, mapVars
  <2>2. ZoneAllocator!Request(t)
    BY <1>0, <2>1, ZoneCallOf, ZoneCallOfNext, ZoneCallMoves, ZonesMarkedSame
       DEF ZoneAllocator!Request
  <2> QED
    BY <2>2 DEF ZoneAllocator!Next
<1>2. CASE ZoneSet(t)
  <2>1. /\ ZoneBlock(BitNo(i[t], j[t])) \notin ZonesMarked
        /\ ZonesMarked' = ZonesMarked \cup {ZoneBlock(BitNo(i[t], j[t]))}
    BY <1>2, ZoneSetMarks
  <2>2. ZoneBlock(BitNo(i[t], j[t])) \in {ZoneBlock(n) : n \in ZoneNumbers}
    BY <1>2, ZoneSetMarks DEF ZoneNumbers, Numbers
  <2>3. pc[t] = "z_test" /\ pc'[t] = "z_unlock" /\ i' = i /\ j' = j
    BY <1>0, <1>2 DEF ZoneSet, Goto
  <2>4. ZoneAllocator!Grant(t)
    BY <1>0, <2>1, <2>2, <2>3, ZoneCallOf, ZoneCallOfNext, ZoneCallMoves
       DEF ZoneAllocator!Grant
  <2> QED
    BY <2>4 DEF ZoneAllocator!Next
<1>3. CASE ZoneFail(t)
  <2>1. pc[t] = "z_loop" /\ pc'[t] = "z_ret" /\ ret'[t] = 0 /\ zmap' = zmap
    BY <1>0, <1>3 DEF ZoneFail, Goto, mapVars, TypeOK
  <2>2. \A b \in ZBlocks : Bits \subseteq zmap[b]
    <3>1. \A b \in ZBlocks : b < i[t]
      BY <1>3, BitmapAssumption DEF ZoneFail, ZBlocks, TypeOK
    <3> QED
      BY <2>1, <3>1 DEF SearchOK
  <2>3. {ZoneBlock(n) : n \in ZoneNumbers} \subseteq ZonesMarked
    BY <2>2 DEF ZoneNumbers, Numbers, ZonesMarked, ZonesIn
  <2>4. ZoneAllocator!Refuse(t)
    BY <1>0, <2>1, <2>3, ZoneCallOf, ZoneCallOfNext, ZoneCallMoves, ZonesMarkedSame
       DEF ZoneAllocator!Refuse
  <2> QED
    BY <2>4 DEF ZoneAllocator!Next
<1>4. CASE ZoneReturn(t)
  <2>1. pc[t] = "z_ret" /\ pc'[t] = "idle" /\ zmap' = zmap
    BY <1>0, <1>4 DEF ZoneReturn, Goto, mapVars
  <2>2. ZoneAllocator!Reply(t)
    BY <1>0, <2>1, ZoneCallOf, ZoneCallOfNext, ZoneCallMoves, ZonesMarkedSame
       DEF ZoneAllocator!Reply
  <2> QED
    BY <2>2 DEF ZoneAllocator!Next
<1>5. CASE ZoneLock(t) \/ ZoneFind(t) \/ ZoneNext(t)
  <2>1. /\ pc[t] \in {"z_loop", "z_find", "z_test"}
        /\ pc'[t] \in {"z_loop", "z_find", "z_test"} /\ zmap' = zmap
    BY <1>0, <1>5 DEF ZoneLock, ZoneFind, ZoneNext, Goto, mapVars
  <2> QED
    BY <1>0, <2>1, ZoneCallOf, ZoneCallOfNext, ZoneCallMoves, ZonesMarkedSame
       DEF ZoneAllocator!vars
<1>6. CASE ZoneUnlock(t) \/ ZoneDirty(t)
  <2>1. /\ pc[t] \in {"z_unlock", "z_dirty"} /\ pc'[t] \in {"z_dirty", "z_ret"}
        /\ pc'[t] = "z_ret" => ret'[t] = ZoneBlock(BitNo(i[t], j[t]))
        /\ UNCHANGED <<zmap, i, j>>
    BY <1>0, <1>6 DEF ZoneUnlock, ZoneDirty, Goto, mapVars, TypeOK
  <2> QED
    BY <1>0, <2>1, ZoneCallOf, ZoneCallOfNext, ZoneCallMoves, ZonesMarkedSame
       DEF ZoneAllocator!vars
<1> QED
  BY <1>1, <1>2, <1>3, <1>4, <1>5, <1>6 DEF NewZone

\* aufs_new_zone implements the allocator for any number of threads and any maps,
\* although it drops bitmap_lock between two map blocks: when it fails, every bit
\* of the map is set.
THEOREM ZoneAllocatorImplemented == Spec => ZoneSpec
<1>1. Init => ZoneAllocator!Init
  <2> SUFFICES ASSUME Init PROVE ZoneAllocator!Init
    OBVIOUS
  <2>1. ZonesMarked \subseteq {ZoneBlock(n) : n \in ZoneNumbers}
    <3>1. \A b \in ZBlocks : zmap[b] \subseteq Bits
      BY DEF Init, BitsOf
    <3> QED
      BY <3>1 DEF ZonesMarked, ZonesIn, ZoneNumbers, Numbers
  <2>2. \A t \in Threads : zonePhase[t] = "idle" /\ zoneAnswer[t] = 0
    BY ZoneCallOf DEF Init
  <2>3. /\ zonePhase = [t \in Threads |-> "idle"]
        /\ zoneAnswer = [t \in Threads |-> 0]
    BY <2>2, ZoneCallState
  <2> QED
    BY <2>1, <2>3 DEF ZoneAllocator!Init
<1>2. AllocInv /\ [Next]_vars => [ZoneAllocator!Next]_(ZoneAllocator!vars)
  <2> SUFFICES ASSUME AllocInv, [Next]_vars
               PROVE  ZoneAllocator!Next \/ UNCHANGED ZoneAllocator!vars
    OBVIOUS
  <2>1. ASSUME NEW t \in Threads, InodeCall(t) \/ InodeNoMemory(t) \/ NewInode(t)
        PROVE  UNCHANGED ZoneAllocator!vars
    <3>1. ThreadStep(t)
      BY <2>1 DEF ThreadStep
    <3>2. zmap' = zmap /\ pc[t] \in InodePcs \cup {"idle"} /\ pc'[t] \in InodePcs \cup {"idle"}
      BY <2>1, InodeStepFrame DEF AllocInv
    <3>3. zonePhase'[t] = zonePhase[t] /\ zoneAnswer'[t] = zoneAnswer[t]
      BY <3>2, ZoneCallOf, ZoneCallOfNext
    <3> QED
      BY <3>1, <3>2, <3>3, ZoneCallMoves, ZonesMarkedSame DEF ZoneAllocator!vars, AllocInv
  <2>2. CASE \/ \E b \in ZBlocks : FlushZoneMap(b)
             \/ \E b \in IBlocks : FlushInodeMap(b)
             \/ UNCHANGED vars
    <3>1. UNCHANGED <<zmap, pc, i, j, ret>>
      BY <2>2 DEF FlushZoneMap, FlushInodeMap, vars, mapVars
    <3> QED
      BY <3>1, ZonesMarkedSame DEF ZoneAllocator!vars, zonePhase, zoneAnswer
  <2> QED
    BY <2>1, <2>2, StepCases, ZoneStepRefines DEF ThreadStep
<1> QED
  BY <1>1, <1>2, AllocInvHolds, PTL DEF Spec, ZoneSpec, ZoneAllocator!Spec
=============================================================================
