-------------------------- MODULE AufsFormatProofs --------------------------
(***************************************************************************)
(* mkfs.aufs writes what AufsLayout says, for every accepted configuration *)
(* and for every size of the block cache: whatever the cache writes early, *)
(* and whatever was on the device.                                         *)
(***************************************************************************)
EXTENDS AufsFormat, AufsLayoutProofs, AufsBitsProofs, SequenceTheorems

\* A byte has eight bits, and a size_t can count those of a block.
ByteSizes == Bits = 8 /\ 8 * MaxBlockSize < Words

-----------------------------------------------------------------------------
(***************************************************************************)
(* Block numbers and sequences                                             *)
(***************************************************************************)
\* The block that each BlockPtr is for.
BlockOf(c, v) ==
  CASE v = "m_super_block" -> 0
    [] v = "m_zone_map" -> 1
    [] v = "m_inode_map" -> 2
    [] v = "m_block" -> InodeBlock(c, 1)
    [] v = "rootContent" -> RootBlock(c)

\* The inode of the root directory lies behind the maps, and its entries behind that.
LEMMA BlockOrder ==
  ASSUME NEW c, Accepted(c)
  PROVE  /\ InodeBlock(c, 1) \in Nat /\ InodeBlock(c, 1) >= 3
         /\ RootBlock(c) \in Nat /\ RootBlock(c) > InodeBlock(c, 1)
<1> DEFINE k == InBlock(c)
           n == NumInodeEntryBlocks(c)
           z == c.zoneSize
           B == BlockSize(c)
<1>1. k \in Nat \ {0} /\ n \in Nat /\ n * k \in Nat /\ n * k >= 4
  BY BlockSizes, MapSizes
<1>2. B \in Nat \ {0} /\ z \in Nat /\ z >= B
  BY BlockSizes
<1>3. InodeBlock(c, 1) = 1 \div k + 3
  BY <1>1 DEF InodeBlock, NumInodeMapBlocks, NumZoneMapBlocks
<1>4. RootBlock(c) = z \div B + AlignUp(n + 3, Alignment)
  <2>1. NumInodeMapBlocks + n + NumZoneMapBlocks + 1 = n + 3
    BY <1>1 DEF NumInodeMapBlocks, NumZoneMapBlocks
  <2> QED
    BY <2>1 DEF RootBlock
<1> HIDE DEF k, n, z, B
<1>5. z \div B \in Nat /\ AlignUp(n + 3, Alignment) \in Nat /\ AlignUp(n + 3, Alignment) >= n + 3
  <2>1. n + 3 \in Nat /\ Alignment \in Nat \ {0}
    BY <1>1, ConstantTypes
  <2>2. z \div B \in Nat
    BY <1>2, Quotient
  <2> QED
    BY <2>1, <2>2, AlignUpBound
<1>6. z \div B # 0
  <2>1. z < (z \div B) * B + B
    BY <1>2, Quotient
  <2> QED
    BY <1>2, <1>5, <2>1
<1>7. 1 \div k \in Nat /\ (1 \div k) * k \in Nat /\ (1 \div k) * k <= 1
  BY <1>1, Quotient
<1>8. 1 \div k <= n
  <2> SUFFICES ASSUME n < 1 \div k PROVE FALSE
    BY <1>1, <1>7
  <2>1. n * k + k <= (1 \div k) * k
    BY <1>1, <1>7, MulMono
  <2> QED
    BY <1>1, <1>7, <2>1
<1> QED
  BY <1>1, <1>3, <1>4, <1>5, <1>6, <1>7, <1>8

\* Five pointers, five blocks.
LEMMA BlocksDiffer ==
  ASSUME NEW c, Accepted(c)
  PROVE  /\ \A v \in Pointers : /\ BlockOf(c, v) \in UsedBlocks(c) /\ BlockOf(c, v) \in Nat
                                /\ BlockOf(c, v) <= RootBlock(c)
         /\ \A v, w \in Pointers : BlockOf(c, v) = BlockOf(c, w) => v = w
<1> DEFINE i == InodeBlock(c, 1)
           r == RootBlock(c)
<1>1. i \in Nat /\ i >= 3 /\ r \in Nat /\ r > i
  BY BlockOrder
<1>2. UsedBlocks(c) = {0, 1, 2, i, r}
  BY DEF UsedBlocks, NumZoneMapBlocks
<1>3. /\ BlockOf(c, "m_super_block") = 0 /\ BlockOf(c, "m_zone_map") = 1
      /\ BlockOf(c, "m_inode_map") = 2 /\ BlockOf(c, "m_block") = i
      /\ BlockOf(c, "rootContent") = r
  BY DEF BlockOf
<1> HIDE DEF i, r
<1>4. \A v \in Pointers : BlockOf(c, v) \in UsedBlocks(c) /\ BlockOf(c, v) \in Nat /\ BlockOf(c, v) <= r
  BY <1>1, <1>2, <1>3 DEF Pointers
<1>5. \A v, w \in Pointers : BlockOf(c, v) = BlockOf(c, w) => v = w
  BY <1>1, <1>3 DEF Pointers
<1> QED
  BY <1>4, <1>5 DEF r

\* A sequence is the function on its indices, and Append adds one.
LEMMA AppendOne ==
  ASSUME NEW s, Len(s) \in Nat, s = [k \in 1 .. Len(s) |-> s[k]], NEW e
  PROVE  /\ Len(Append(s, e)) = Len(s) + 1
         /\ Append(s, e) = [k \in 1 .. Len(Append(s, e)) |-> Append(s, e)[k]]
         /\ \A k \in 1 .. Len(s) : Append(s, e)[k] = s[k]
         /\ Append(s, e)[Len(s) + 1] = e
<1> DEFINE S == {s[k] : k \in 1 .. Len(s)} \cup {e}
<1>1. s \in Seq(S)
  <2>1. s \in [1 .. Len(s) -> S]
    OBVIOUS
  <2> QED
    BY <2>1, SeqDef
<1>2. e \in S
  OBVIOUS
<1> HIDE DEF S
<1>3. /\ Append(s, e) \in Seq(S) /\ Len(Append(s, e)) = Len(s) + 1
      /\ \A k \in 1 .. Len(s) : Append(s, e)[k] = s[k]
      /\ Append(s, e)[Len(s) + 1] = e
  BY <1>1, <1>2, AppendProperties
<1>4. Append(s, e) = [k \in 1 .. Len(Append(s, e)) |-> Append(s, e)[k]]
  BY <1>3, LenProperties
<1> QED
  BY <1>3, <1>4

-----------------------------------------------------------------------------
(***************************************************************************)
(* The cache.  H are the BlockPtr's that point to something, O those that  *)
(* have been given a block so far.                                         *)
(***************************************************************************)
\* The objects are records in a sequence, and the cache holds some of them.
ObjectsOK ==
  /\ Len(blocks) \in Nat /\ blocks = [k \in 1 .. Len(blocks) |-> blocks[k]]
  /\ \A k \in 1 .. Len(blocks) : blocks[k] = [no |-> blocks[k].no, data |-> blocks[k].data]
  /\ m_cache \subseteq 1 .. Len(blocks)

\* One object for a block, and only for blocks that were asked for.
CacheOK(O) ==
  /\ \A k, l \in m_cache : blocks[k].no = blocks[l].no => k = l
  /\ \A k \in m_cache : \E v \in O : blocks[k].no = BlockOf(config, v)

\* What is held is in the cache.
PointersOK(H) ==
  /\ ptr \in [Pointers -> Nat]
  /\ \A v \in H : ptr[v] \in m_cache /\ blocks[ptr[v]].no = BlockOf(config, v)
  /\ \A v \in Pointers \ H : ptr[v] = 0

\* The map blocks contain bits of the map.
MapRange == 0 .. ZoneMapBits(config) - 1

\* Of the device, and of the objects in the cache.
MapsOK ==
  /\ device = [no \in UsedBlocks(config) |-> device[no]]
  /\ \A no \in {1, 2} :
       /\ device[no] \subseteq MapRange
       /\ \A k \in m_cache : blocks[k].no = no => blocks[k].data \subseteq MapRange

\* All of it.
Struct(H, O) == ObjectsOK /\ CacheOK(O) /\ PointersOK(H) /\ MapsOK

\* Sync leaves each block as it was, or as some object of the cache has it.
LEMMA SyncedBlock ==
  ASSUME NEW bad, NEW no \in DOMAIN device
  PROVE  \/ Synced(bad)[no] = device[no]
         \/ \E k \in m_cache : blocks[k].no = no /\ Synced(bad)[no] = blocks[k].data
<1>1. CASE no < bad /\ \E id \in m_cache : blocks[id].no = no
  <2> DEFINE k == CHOOSE id \in m_cache : blocks[id].no = no
  <2>1. k \in m_cache /\ blocks[k].no = no
    BY <1>1
  <2>2. Synced(bad)[no] = blocks[k].data
    BY <1>1 DEF Synced
  <2> QED
    BY <2>1, <2>2
<1>2. CASE ~(no < bad /\ \E id \in m_cache : blocks[id].no = no)
  BY <1>2 DEF Synced
<1> QED
  BY <1>1, <1>2

\* GetBlock for a block that was never asked for makes a new object, and keeps the
\* ones that are held, whether it syncs or not.
LEMMA GetBlockEffect ==
  ASSUME NEW H \in SUBSET Pointers, NEW O \in SUBSET Pointers, Accepted(config),
         Struct(H, O), NEW v \in Pointers \ O, GetBlock(v, BlockOf(config, v))
  PROVE  /\ blocks' = Append(blocks, [no |-> BlockOf(config, v), data |-> device'[BlockOf(config, v)]])
         /\ ptr' = [ptr EXCEPT ![v] = Len(blocks) + 1]
         /\ m_cache' \subseteq m_cache \cup {Len(blocks) + 1}
         /\ Len(blocks) + 1 \in m_cache'
         /\ \A w \in H : ptr[w] \in m_cache'
         /\ DOMAIN device' = DOMAIN device /\ device' = [no \in DOMAIN device |-> device'[no]]
         /\ \A no \in DOMAIN device :
              \/ device'[no] = device[no]
              \/ \E k \in m_cache : blocks[k].no = no /\ device'[no] = blocks[k].data
<1> DEFINE no == BlockOf(config, v)
           hits == {k \in m_cache : blocks[k].no = no}
           full == hits = {} /\ BlockSize(config) * Cardinality(m_cache) > ThresholdSize
<1>1. hits = {}
  BY BlocksDiffer DEF Struct, CacheOK
<1>2. PICK bad :
        device' = IF full THEN Synced(bad) ELSE device
  BY DEF GetBlock
<1>3. /\ m_cache' = (IF full THEN Kept(ptr) ELSE m_cache) \cup {Len(blocks) + 1}
      /\ blocks' = Append(blocks, [no |-> no, data |-> device'[no]])
      /\ ptr' = [ptr EXCEPT ![v] = Len(blocks) + 1]
  BY <1>1 DEF GetBlock
<1>4. Kept(ptr) \subseteq m_cache /\ \A w \in H : ptr[w] \in Kept(ptr) /\ ptr[w] \in m_cache
  BY DEF Kept, Struct, PointersOK
<1> HIDE DEF full
<1>5. DOMAIN device' = DOMAIN device /\ device' = [n \in DOMAIN device |-> device'[n]]
  BY <1>2 DEF Synced, Struct, MapsOK
<1>6. \A n \in DOMAIN device :
        \/ device'[n] = device[n]
        \/ \E k \in m_cache : blocks[k].no = n /\ device'[n] = blocks[k].data
  BY <1>2, SyncedBlock
<1> QED
  BY <1>3, <1>4, <1>5, <1>6

\* The structure after GetBlock.
LEMMA GetBlockStruct ==
  ASSUME NEW H \in SUBSET Pointers, NEW O \in SUBSET Pointers, H \subseteq O, Accepted(config),
         Struct(H, O), NEW v \in Pointers \ O, GetBlock(v, BlockOf(config, v)), config' = config
  PROVE  Struct(H \cup {v}, O \cup {v})'
<1> DEFINE n == Len(blocks)
           b == BlockOf(config, v)
           e == [no |-> b, data |-> device'[b]]
<1>1. n \in Nat /\ m_cache \subseteq 1 .. n
  BY DEF Struct, ObjectsOK
<1>2. /\ Len(blocks') = n + 1 /\ blocks' = [k \in 1 .. Len(blocks') |-> blocks'[k]]
      /\ \A k \in 1 .. n : blocks'[k] = blocks[k]
      /\ blocks'[n + 1] = e
  BY GetBlockEffect, AppendOne DEF Struct, ObjectsOK
<1>3. /\ m_cache' \subseteq m_cache \cup {n + 1} /\ n + 1 \in m_cache'
      /\ \A w \in H : ptr[w] \in m_cache'
      /\ ptr' = [ptr EXCEPT ![v] = n + 1]
  BY GetBlockEffect
<1>4. b \in UsedBlocks(config) /\ e.no = b /\ e.data = device'[b]
  BY BlocksDiffer
<1> HIDE DEF e
<1>5. ObjectsOK'
  <2>1. ASSUME NEW k \in 1 .. Len(blocks')
        PROVE  blocks'[k] = [no |-> blocks'[k].no, data |-> blocks'[k].data]
    <3>1. CASE k = n + 1
      BY <1>2, <3>1 DEF e
    <3>2. CASE k # n + 1
      <4>1. k \in 1 .. n
        BY <1>1, <1>2, <3>2
      <4> QED
        BY <1>2, <4>1 DEF Struct, ObjectsOK
    <3> QED
      BY <3>1, <3>2
  <2>2. m_cache' \subseteq 1 .. Len(blocks')
    BY <1>1, <1>2, <1>3
  <2>3. Len(blocks') \in Nat
    BY <1>1, <1>2
  <2> QED
    BY <1>2, <2>1, <2>2, <2>3 DEF ObjectsOK
<1>6. \A k \in m_cache' : k = n + 1 \/ (k \in m_cache /\ k # n + 1 /\ blocks'[k] = blocks[k])
  BY <1>1, <1>2, <1>3
<1>7. \A k \in m_cache : blocks[k].no # b
  BY BlocksDiffer DEF Struct, CacheOK
<1>8. CacheOK(O \cup {v})'
  <2>1. \A k, l \in m_cache' : blocks'[k].no = blocks'[l].no => k = l
    BY <1>2, <1>4, <1>6, <1>7 DEF Struct, CacheOK
  <2>2. \A k \in m_cache' : \E w \in O \cup {v} : blocks'[k].no = BlockOf(config, w)
    BY <1>2, <1>4, <1>6 DEF Struct, CacheOK
  <2> QED
    BY <2>1, <2>2 DEF CacheOK
<1>9. PointersOK(H \cup {v})'
  <2>1. ptr' \in [Pointers -> Nat]
    BY <1>1, <1>3 DEF Struct, PointersOK
  <2>2. ASSUME NEW w \in H \cup {v} PROVE ptr'[w] \in m_cache' /\ blocks'[ptr'[w]].no = BlockOf(config, w)
    <3>1. CASE w = v
      BY <1>2, <1>3, <1>4, <3>1 DEF Struct, PointersOK
    <3>2. CASE w # v
      <4>1. w \in H /\ ptr'[w] = ptr[w] /\ ptr[w] \in m_cache /\ blocks[ptr[w]].no = BlockOf(config, w)
        BY <1>3, <3>2 DEF Struct, PointersOK
      <4> QED
        BY <1>1, <1>2, <1>3, <4>1
    <3> QED
      BY <3>1, <3>2
  <2>3. \A w \in Pointers \ (H \cup {v}) : ptr'[w] = 0
    BY <1>3 DEF Struct, PointersOK
  <2> QED
    BY <2>1, <2>2, <2>3 DEF PointersOK
<1>10. MapsOK'
  <2>1. /\ DOMAIN device = UsedBlocks(config)
        /\ device' = [no \in UsedBlocks(config) |-> device'[no]]
    BY GetBlockEffect DEF Struct, MapsOK
  <2>2. 1 \in UsedBlocks(config) /\ 2 \in UsedBlocks(config)
    BY DEF UsedBlocks, NumZoneMapBlocks
  <2>3. \A no \in {1, 2} : device'[no] \subseteq MapRange
    BY <2>1, <2>2, GetBlockEffect DEF Struct, MapsOK
  <2>4. \A no \in {1, 2} : \A k \in m_cache' : blocks'[k].no = no => blocks'[k].data \subseteq MapRange
    BY <1>2, <1>4, <1>6, <2>3 DEF Struct, MapsOK
  <2> QED
    BY <2>1, <2>3, <2>4 DEF MapsOK, MapRange
<1> QED
  BY <1>5, <1>8, <1>9, <1>10 DEF Struct

\* Equal index sets have equal lengths.
LEMMA SameLength ==
  ASSUME NEW a \in Nat, NEW b \in Nat, 1 .. a = 1 .. b
  PROVE  a = b
<1>1. b \in 1 .. b => b <= a
  OBVIOUS
<1>2. a \in 1 .. a => a <= b
  OBVIOUS
<1> QED
  BY <1>1, <1>2

\* A store changes the data of the object that the pointer holds, and nothing else.
LEMMA StoreEffect ==
  ASSUME NEW H \in SUBSET Pointers, NEW O \in SUBSET Pointers, Struct(H, O),
         NEW v \in H, NEW data, Store(v, data)
  PROVE  /\ Len(blocks') = Len(blocks) /\ blocks' = [k \in 1 .. Len(blocks) |-> blocks'[k]]
         /\ blocks'[ptr[v]] = [no |-> blocks[ptr[v]].no, data |-> data]
         /\ \A k \in 1 .. Len(blocks) : k # ptr[v] => blocks'[k] = blocks[k]
         /\ UNCHANGED <<device, m_cache, ptr, failed>>
         /\ ptr[v] \in m_cache /\ m_cache \subseteq 1 .. Len(blocks)
<1> DEFINE n == Len(blocks)
           p == ptr[v]
<1>1. /\ n \in Nat /\ blocks = [k \in 1 .. n |-> blocks[k]] /\ p \in m_cache /\ m_cache \subseteq 1 .. n
      /\ blocks[p] = [no |-> blocks[p].no, data |-> blocks[p].data]
  BY DEF Struct, ObjectsOK, PointersOK
<1>2. blocks' = [blocks EXCEPT ![p] = [blocks[p] EXCEPT !.data = data]]
  BY DEF Store
<1>3. [blocks[p] EXCEPT !.data = data] = [no |-> blocks[p].no, data |-> data]
  BY <1>1
<1>4. /\ blocks' = [k \in 1 .. n |-> blocks'[k]] /\ blocks'[p] = [no |-> blocks[p].no, data |-> data]
      /\ \A k \in 1 .. n : k # p => blocks'[k] = blocks[k]
  BY <1>1, <1>2, <1>3
<1>5. Len(blocks') = n
  <2> DEFINE S == {blocks'[k] : k \in 1 .. n}
  <2>1. blocks' \in [1 .. n -> S]
    BY <1>4
  <2> HIDE DEF S
  <2>2. blocks' \in Seq(S)
    BY <1>1, <2>1, SeqDef
  <2>3. Len(blocks') \in Nat /\ DOMAIN blocks' = 1 .. Len(blocks')
    BY <2>2, LenProperties
  <2>4. 1 .. Len(blocks') = 1 .. n
    BY <2>1, <2>3
  <2> QED
    BY <1>1, <2>3, <2>4, SameLength
<1> QED
  BY <1>1, <1>4, <1>5 DEF Store

\* The structure after a store.
LEMMA StoreStruct ==
  ASSUME NEW H \in SUBSET Pointers, NEW O \in SUBSET Pointers, Struct(H, O),
         NEW v \in H, NEW data, Store(v, data), config' = config,
         BlockOf(config, v) \in {1, 2} => data \subseteq MapRange
  PROVE  Struct(H, O)'
<1> DEFINE n == Len(blocks)
           p == ptr[v]
<1>1. /\ Len(blocks') = n /\ blocks' = [k \in 1 .. n |-> blocks'[k]]
      /\ blocks'[p] = [no |-> blocks[p].no, data |-> data]
      /\ \A k \in 1 .. n : k # p => blocks'[k] = blocks[k]
      /\ UNCHANGED <<device, m_cache, ptr>> /\ p \in m_cache /\ m_cache \subseteq 1 .. n
  BY StoreEffect
<1>2. \A k \in 1 .. n : blocks'[k].no = blocks[k].no
  BY <1>1
<1>3. ObjectsOK'
  <2>1. \A k \in 1 .. n : blocks'[k] = [no |-> blocks'[k].no, data |-> blocks'[k].data]
    BY <1>1 DEF Struct, ObjectsOK
  <2> QED
    BY <1>1, <2>1 DEF Struct, ObjectsOK
<1>4. CacheOK(O)'
  BY <1>1, <1>2 DEF Struct, CacheOK
<1>5. PointersOK(H)'
  BY <1>1, <1>2 DEF Struct, PointersOK
<1>6. MapsOK'
  <2>1. blocks[p].no = BlockOf(config, v) /\ blocks'[p].data = data
    BY <1>1 DEF Struct, PointersOK
  <2>2. \A no \in {1, 2} : \A k \in m_cache : blocks'[k].no = no => blocks'[k].data \subseteq MapRange
    <3> SUFFICES ASSUME NEW no \in {1, 2}, NEW k \in m_cache, blocks'[k].no = no
                 PROVE  blocks'[k].data \subseteq MapRange
      OBVIOUS
    <3>1. CASE k = p
      BY <1>2, <2>1, <3>1, <1>1
    <3>2. CASE k # p
      BY <1>1, <1>2, <3>2 DEF Struct, MapsOK
    <3> QED
      BY <3>1, <3>2
  <2> QED
    BY <1>1, <2>2 DEF Struct, MapsOK, MapRange
<1> QED
  BY <1>3, <1>4, <1>5, <1>6 DEF Struct

-----------------------------------------------------------------------------
(***************************************************************************)
(* The maps, bit by bit                                                    *)
(***************************************************************************)
\* Begin is bit 0, and advancing it counts bits.
LEMMA BitAt ==
  ASSUME ByteSizes, NEW d \in Nat, d <= 8 * MaxBlockSize
  PROVE  /\ BitOf(Begin) = 0
         /\ advance(Begin, d) \in Iterators /\ BitOf(advance(Begin, d)) = d
<1>1. Begin \in Iterators /\ Begin.m_offset = 0 /\ BitOf(Begin) = 0
  BY BitsAssumption DEF Begin, Iterator, Iterators, BitOf
<1>2. MaxBlockSize \in Nat /\ Words \in Nat
  BY ConstantTypes, BitsAssumption
<1>3. Begin.m_offset + d >= 0 /\ Begin.m_offset + d < Words
  BY <1>1, <1>2 DEF ByteSizes
<1>4. advance(Begin, d) \in Iterators /\ MovesBy(Begin, d)
  BY <1>1, <1>3, AdvanceMoves
<1> QED
  BY <1>1, <1>4 DEF MovesBy

\* The three std::fill make the map of AufsLayout, whatever was there before.
LEMMA FillBitsIs ==
  ASSUME ByteSizes, NEW bits \in Nat, bits <= 8 * MaxBlockSize, NEW objects \in 1 .. bits,
         NEW memory \in SUBSET (0 .. bits - 1)
  PROVE  FillBits(memory, objects, bits) = FillMap(objects, bits)
<1> DEFINE first == advance(Begin, 1)
           rest == advance(Begin, objects)
           end == advance(Begin, bits)
<1>1. MaxBlockSize \in Nat /\ 1 <= 8 * MaxBlockSize /\ objects \in Nat /\ objects <= 8 * MaxBlockSize
  BY ConstantTypes
<1>2. BitOf(Begin) = 0 /\ BitOf(first) = 1 /\ BitOf(rest) = objects /\ BitOf(end) = bits
  BY <1>1, BitAt
<1> HIDE DEF first, rest, end
<1>3. /\ Walk(Begin, first) = 0 .. 0 /\ Walk(first, rest) = 1 .. objects - 1
      /\ Walk(rest, end) = objects .. bits - 1
  BY <1>2 DEF Walk
<1>4. FillBits(memory, objects, bits) =
        ((memory \cup (0 .. 0)) \ (1 .. objects - 1)) \cup (objects .. bits - 1)
  BY <1>3 DEF FillBits, Fill, first, rest, end
<1>5. ((memory \cup (0 .. 0)) \ (1 .. objects - 1)) \cup (objects .. bits - 1) =
        {0} \cup (objects .. bits - 1)
  <2>1. \A b \in memory : b = 0 \/ b \in 1 .. objects - 1 \/ b \in objects .. bits - 1
    OBVIOUS
  <2>2. 0 \in 0 .. 0 /\ 0 \notin 1 .. objects - 1 /\ \A b \in 0 .. 0 : b = 0
    OBVIOUS
  <2>3. \A b \in objects .. bits - 1 : b \notin 1 .. objects - 1
    OBVIOUS
  <2> QED
    BY <2>1, <2>2, <2>3, Zenon
<1> QED
  BY <1>4, <1>5 DEF FillMap

\* std::find stops at bit 1 of such a map, before the end of the buffer.
LEMMA FirstFreeIsOne ==
  ASSUME ByteSizes, Accepted(config), NEW objects \in 2 .. ZoneMapBits(config), NEW last
  PROVE  Find(FillMap(objects, ZoneMapBits(config)), Begin, MapEnd(1), last, FALSE) = {1}
<1> DEFINE bits == ZoneMapBits(config)
           M == FillMap(objects, bits)
           hits == {b \in Walk(Begin, MapEnd(1)) : (b \in M) = FALSE}
<1>1. bits = 8 * BlockSize(config) /\ BlockSize(config) \in Nat /\ bits \in Nat
  BY MapSizes, BlockSizes
<1>2. BitOf(Begin) = 0 /\ BitOf(MapEnd(1)) = bits
  BY <1>1 DEF Begin, MapEnd, Iterator, BitOf, ByteSizes
<1>3. Walk(Begin, MapEnd(1)) = 0 .. bits - 1
  BY <1>2 DEF Walk
<1>4. 1 \in hits /\ \A b \in hits : b \in Nat /\ 1 <= b
  BY <1>1, <1>3 DEF FillMap
<1> HIDE DEF hits
<1>5. {b \in hits : \A a \in hits : b <= a} = {1}
  BY <1>4
<1>6. Find(M, Begin, MapEnd(1), last, FALSE) =
        IF hits # {} THEN {b \in hits : \A a \in hits : b <= a} ELSE BitOf(MapEnd(1)) .. BitOf(last)
  BY DEF Find, hits
<1> QED
  BY <1>4, <1>5, <1>6

\* The std::fill of AllocateZones takes zone 1.
LEMMA TakesOne ==
  ASSUME ByteSizes, NEW memory
  PROVE  Fill(memory, advance(Begin, 1), advance(advance(Begin, 1), 1), TRUE) = memory \cup {1}
<1> DEFINE it == advance(Begin, 1)
<1>1. 1 <= 8 * MaxBlockSize
  BY ConstantTypes
<1>2. it \in Iterators /\ BitOf(it) = 1
  BY <1>1, BitAt
<1>3. it = Iterator(0, 1)
  <2>1. Begin.m_offset = 0 /\ Begin.m_data = 0 /\ Bits = 8 /\ Words > 8 /\ Words \in Nat
    BY ConstantTypes, BitsAssumption DEF Begin, Iterator, ByteSizes
  <2>2. (0 + 1) % Words = 1 /\ 1 \div Bits = 0 /\ 1 % Bits = 1
    BY <2>1
  <2> QED
    BY <2>1, <2>2 DEF advance
<1>4. it.m_offset + 1 >= 0 /\ it.m_offset + 1 < Words
  BY <1>3, ConstantTypes, BitsAssumption DEF Iterator, ByteSizes
<1> HIDE DEF it
<1>5. BitOf(advance(it, 1)) = 2
  <2>1. MovesBy(it, 1)
    BY <1>2, <1>4, AdvanceMoves
  <2> QED
    BY <1>2, <2>1 DEF MovesBy
<1>6. Walk(it, advance(it, 1)) = {1}
  BY <1>2, <1>5 DEF Walk
<1> QED
  BY <1>6 DEF Fill, it

-----------------------------------------------------------------------------
(***************************************************************************)
(* The formatter, step by step                                             *)
(***************************************************************************)
Opening == {"m_super_block", "m_zone_map", "m_inode_map"}

\* The pointers that hold a block, and those whose block was asked for.
Held(s) ==
  CASE s = "super" -> {}
    [] s = "zone_map" -> {"m_super_block"}
    [] s = "inode_map" -> {"m_super_block", "m_zone_map"}
    [] s \in {"FillZoneMap", "FillInodeMap", "FillSuper", "AllocateInode", "Inode"} -> Opening
    [] s \in {"AllocateZones", "Set", "rootContent", "SetRootInode", "destroy"} ->
         Opening \cup {"m_block"}
    [] s \in {"entries", "return"} -> Pointers

\* The block of the entries of the root directory was asked for, and is let go.
Opened(s) == IF s \in {"SetRootInode", "destroy"} THEN Pointers ELSE Held(s)

\* The pointers to whose block something was written, and what.
Known(s) ==
  CASE s = "FillInodeMap" -> {"m_zone_map"}
    [] s = "FillSuper" -> {"m_zone_map", "m_inode_map"}
    [] s \in {"AllocateInode", "Inode", "AllocateZones", "Set"} -> Opening
    [] s \in {"rootContent", "entries"} -> Opening \cup {"m_block"}
    [] s \in {"return", "SetRootInode", "destroy"} -> Pointers
    [] OTHER -> {}

\* The steps before AllocateInode has taken its bit.
NoInode == {"FillSuper", "AllocateInode"}

\* Before AllocateZones.
NoZone == {"FillInodeMap", "FillSuper", "AllocateInode", "Inode", "AllocateZones"}

\* What the known blocks hold before step s.
Content(c, s) ==
  [v \in Pointers |->
     CASE v = "m_super_block" ->
            IF s = "destroy" THEN FillSuper(c) ELSE [FillSuper(c) EXCEPT !.root_inode = -1]
       [] v = "m_zone_map" -> IF s \in NoZone THEN FillZoneMap(c) ELSE FillZoneMap(c) \cup {1}
       [] v = "m_inode_map" -> IF s \in NoInode THEN FillInodeMap(c) ELSE FillInodeMap(c) \cup {1}
       [] v = "m_block" -> [offset |-> InodeOffset(c, 1), zone_ptr |-> RootBlock(c)]
       [] v = "rootContent" -> RootEntries]

\* The cache has the block of each pointer of K, with what f says.
DataIs(K, f) ==
  \A v \in K : \E k \in m_cache : blocks[k].no = BlockOf(config, v) /\ blocks[k].data = f[v]

\* The steps of the formatter.
Steps == {"super", "zone_map", "inode_map", "FillZoneMap", "FillInodeMap", "FillSuper",
          "AllocateInode", "Inode", "AllocateZones", "Set", "rootContent", "entries",
          "return", "SetRootInode", "destroy"}

\* Nothing is in the cache, and nothing is held.
Idle == m_cache = {} /\ blocks = <<>> /\ ptr = [v \in Pointers |-> 0]

\* What is held and known at each step; the phase follows the formatter.
FormatInv ==
  /\ LayoutInv
  /\ step \in Steps \cup {"start", "ended"}
  /\ step = "start" => phase \in {"start", "parsed", "rejected", "verified"} /\ Idle
  /\ step \in Steps => /\ phase = "verified"
                       /\ Struct(Held(step), Opened(step))
                       /\ DataIs(Known(step), Content(config, step))
  /\ step = "ended" => /\ phase \in {"formatted", "mounted", "unwritten"}
                       /\ m_cache = {} /\ ptr = [v \in Pointers |-> 0]

\* Sets of pointers.
LEMMA HeldSets ==
  ASSUME NEW s \in Steps
  PROVE  /\ Held(s) \in SUBSET Pointers /\ Opened(s) \in SUBSET Pointers
         /\ Held(s) \subseteq Opened(s)
         /\ Known(s) \in SUBSET Pointers
         /\ s \notin {"SetRootInode", "destroy"} => Known(s) \subseteq Held(s)
  BY DEF Steps, Held, Opened, Known, Opening, Pointers

\* What is held and known is what Data reads.
LEMMA HeldData ==
  ASSUME NEW H \in SUBSET Pointers, NEW O, Struct(H, O), NEW K, NEW f, DataIs(K, f), NEW v \in H \cap K
  PROVE  Data(v) = f[v]
<1>1. ptr[v] \in m_cache /\ blocks[ptr[v]].no = BlockOf(config, v)
  BY DEF Struct, PointersOK
<1>2. PICK k \in m_cache : blocks[k].no = BlockOf(config, v) /\ blocks[k].data = f[v]
  BY DEF DataIs
<1>3. k = ptr[v]
  BY <1>1, <1>2 DEF Struct, CacheOK
<1> QED
  BY <1>2, <1>3 DEF Data

\* GetBlock changes nothing that is held.
LEMMA GetBlockData ==
  ASSUME NEW H \in SUBSET Pointers, NEW O \in SUBSET Pointers, H \subseteq O, Accepted(config),
         Struct(H, O), NEW v \in Pointers \ O, GetBlock(v, BlockOf(config, v)), config' = config,
         NEW K \in SUBSET H, NEW f, DataIs(K, f)
  PROVE  DataIs(K, f)'
<1> SUFFICES ASSUME NEW w \in K
             PROVE  \E k \in m_cache' : blocks'[k].no = BlockOf(config, w) /\ blocks'[k].data = f[w]
  BY DEF DataIs
<1>1. ptr[w] \in m_cache /\ blocks[ptr[w]].no = BlockOf(config, w) /\ blocks[ptr[w]].data = f[w]
  BY HeldData DEF Struct, PointersOK, Data
<1>2. ptr[w] \in m_cache' /\ ptr[w] \in 1 .. Len(blocks)
  BY <1>1, GetBlockEffect DEF Struct, ObjectsOK
<1>3. PICK e : blocks' = Append(blocks, e)
  BY GetBlockEffect
<1>4. blocks'[ptr[w]] = blocks[ptr[w]]
  BY <1>2, <1>3, AppendOne DEF Struct, ObjectsOK
<1> QED
  BY <1>1, <1>2, <1>4

\* A store changes the block of its pointer.
LEMMA StoreData ==
  ASSUME NEW H \in SUBSET Pointers, NEW O \in SUBSET Pointers, Accepted(config), Struct(H, O),
         NEW v \in H, NEW data, Store(v, data), config' = config,
         NEW K \in SUBSET Pointers, NEW f, DataIs(K, f), NEW g,
         \A w \in K : w # v => g[w] = f[w], g[v] = data
  PROVE  DataIs(K \cup {v}, g)'
<1> DEFINE p == ptr[v]
<1>0. /\ Len(blocks') = Len(blocks) /\ blocks' = [k \in 1 .. Len(blocks) |-> blocks'[k]]
      /\ blocks'[ptr[v]] = [no |-> blocks[ptr[v]].no, data |-> data]
      /\ \A k \in 1 .. Len(blocks) : k # ptr[v] => blocks'[k] = blocks[k]
      /\ UNCHANGED <<device, m_cache, ptr, failed>>
      /\ ptr[v] \in m_cache /\ m_cache \subseteq 1 .. Len(blocks)
  <2> HIDE DEF p
  <2> QED
    BY ONLY StoreEffect, H \in SUBSET Pointers, O \in SUBSET Pointers, Struct(H, O), v \in H, Store(v, data)
<1>1. /\ blocks'[p].no = blocks[p].no /\ blocks'[p].data = g[v]
      /\ \A k \in 1 .. Len(blocks) : k # p => blocks'[k] = blocks[k]
      /\ m_cache' = m_cache /\ p \in m_cache /\ m_cache \subseteq 1 .. Len(blocks)
  BY <1>0
<1>2. blocks[p].no = BlockOf(config, v)
  BY DEF Struct, PointersOK
<1> SUFFICES ASSUME NEW w \in K \cup {v}
             PROVE  \E k \in m_cache : blocks'[k].no = BlockOf(config, w) /\ blocks'[k].data = g[w]
  BY <1>1 DEF DataIs
<1>3. CASE w = v
  BY <1>1, <1>2, <1>3
<1>4. CASE w # v
  <2>1. PICK k \in m_cache : blocks[k].no = BlockOf(config, w) /\ blocks[k].data = f[w]
    BY <1>4 DEF DataIs
  <2>2. k # p
    BY <1>2, <1>4, <2>1, BlocksDiffer
  <2> QED
    BY <1>1, <1>4, <2>1, <2>2
<1> QED
  BY <1>3, <1>4

\* f and g agree on the pointers of K.
Agree(K, f, g) == \A w \in K : f[w] = g[w]

\* A step that asks for a block.
LEMMA OpenStep ==
  ASSUME FormatInv, NEW s \in Steps, NEW t \in Steps, Goes(s, t), NEW v \in Pointers \ Opened(s),
         GetBlock(v, BlockOf(config, v)),
         Held(t) = Held(s) \cup {v}, Opened(t) = Opened(s) \cup {v},
         Known(t) = Known(s), Known(s) \subseteq Held(s),
         Agree(Known(s), Content(config, t), Content(config, s))
  PROVE  FormatInv'
<1>1. /\ step = s /\ step' = t /\ UNCHANGED vars /\ phase = "verified" /\ phase' = phase
      /\ config' = config
  BY DEF FormatInv, Goes, vars, Steps
<1>2. Struct(Held(s), Opened(s)) /\ DataIs(Known(s), Content(config, s)) /\ Accepted(config)
  BY <1>1 DEF FormatInv, LayoutInv
<1>3. Held(s) \in SUBSET Pointers /\ Opened(s) \in SUBSET Pointers /\ Held(s) \subseteq Opened(s)
  BY HeldSets
<1>4. Struct(Held(t), Opened(t))'
  BY <1>1, <1>2, <1>3, GetBlockStruct
<1>5. DataIs(Known(s), Content(config, s))'
  BY <1>1, <1>2, <1>3, GetBlockData
<1>6. DataIs(Known(t), Content(config, t))'
  BY <1>1, <1>5 DEF DataIs, Agree
<1>7. LayoutInv'
  BY <1>1, LayoutInvNext DEF FormatInv
<1>8. t \notin {"start", "ended"}
  BY DEF Steps
<1> QED
  BY <1>1, <1>4, <1>6, <1>7, <1>8 DEF FormatInv

\* A step that stores; the asserted answers of the allocators are among them.
LEMMA StoreStep ==
  ASSUME FormatInv, NEW s \in Steps, NEW t \in Steps, step = s, step' = t, UNCHANGED vars,
         NEW v \in Held(s), NEW data, Store(v, data),
         BlockOf(config, v) \in {1, 2} => data \subseteq MapRange,
         Held(t) = Held(s), Opened(t) = Opened(s), Known(t) = Known(s) \cup {v},
         Agree(Known(s) \ {v}, Content(config, t), Content(config, s)),
         Content(config, t)[v] = data
  PROVE  FormatInv'
<1>1. phase = "verified" /\ phase' = phase /\ config' = config
  BY DEF FormatInv, vars, Steps
<1>2. Struct(Held(s), Opened(s)) /\ DataIs(Known(s), Content(config, s)) /\ Accepted(config)
  BY <1>1 DEF FormatInv, LayoutInv
<1>3. /\ Held(s) \in SUBSET Pointers /\ Opened(s) \in SUBSET Pointers
      /\ Known(s) \in SUBSET Pointers
  BY HeldSets
<1>4. Struct(Held(t), Opened(t))'
  BY <1>1, <1>2, <1>3, StoreStruct
<1>9. \A w \in Known(s) : w # v => Content(config, t)[w] = Content(config, s)[w]
  BY DEF Agree
<1>5. DataIs(Known(s) \cup {v}, Content(config, t))'
  BY <1>1, <1>2, <1>3, <1>9, StoreData
<1>6. DataIs(Known(t), Content(config, t))'
  BY <1>1, <1>5 DEF DataIs
<1>7. LayoutInv'
  BY LayoutInvNext DEF FormatInv
<1>8. t \notin {"start", "ended"}
  BY DEF Steps
<1> QED
  BY <1>1, <1>4, <1>6, <1>7, <1>8 DEF FormatInv

\* What is held, known and written at each step.
LEMMA ContentAt ==
  ASSUME NEW c, NEW s
  PROVE  /\ Content(c, s)["m_super_block"] =
              IF s = "destroy" THEN FillSuper(c) ELSE [FillSuper(c) EXCEPT !.root_inode = -1]
         /\ Content(c, s)["m_zone_map"] =
              IF s \in NoZone THEN FillZoneMap(c) ELSE FillZoneMap(c) \cup {1}
         /\ Content(c, s)["m_inode_map"] =
              IF s \in NoInode THEN FillInodeMap(c) ELSE FillInodeMap(c) \cup {1}
         /\ Content(c, s)["m_block"] = [offset |-> InodeOffset(c, 1), zone_ptr |-> RootBlock(c)]
         /\ Content(c, s)["rootContent"] = RootEntries
  BY DEF Content, Pointers

\* Two steps between which nobody writes to a block that is known.
LEMMA ContentKeeps ==
  ASSUME NEW c, NEW s, NEW t, NEW K \in SUBSET Pointers,
         "m_super_block" \in K => s # "destroy" /\ t # "destroy",
         "m_zone_map" \in K => (s \in NoZone <=> t \in NoZone),
         "m_inode_map" \in K => (s \in NoInode <=> t \in NoInode)
  PROVE  Agree(K, Content(c, t), Content(c, s))
<1> SUFFICES ASSUME NEW w \in K PROVE Content(c, t)[w] = Content(c, s)[w]
  BY DEF Agree
<1>1. CASE w = "m_super_block"
  <2> DEFINE f == FillSuper(c)
             e == [FillSuper(c) EXCEPT !.root_inode = -1]
  <2>1. \A u : Content(c, u)["m_super_block"] = IF u = "destroy" THEN f ELSE e
    BY ContentAt
  <2> HIDE DEF f, e
  <2> QED
    BY <1>1, <2>1
<1>2. CASE w = "m_zone_map"
  <2> DEFINE f == FillZoneMap(c)
             e == FillZoneMap(c) \cup {1}
  <2>1. \A u : Content(c, u)["m_zone_map"] = IF u \in NoZone THEN f ELSE e
    BY ContentAt
  <2> HIDE DEF f, e
  <2> QED
    BY <1>2, <2>1
<1>3. CASE w = "m_inode_map"
  <2> DEFINE f == FillInodeMap(c)
             e == FillInodeMap(c) \cup {1}
  <2>1. \A u : Content(c, u)["m_inode_map"] = IF u \in NoInode THEN f ELSE e
    BY ContentAt
  <2> HIDE DEF f, e
  <2> QED
    BY <1>3, <2>1
<1>4. CASE w = "m_block" \/ w = "rootContent"
  <2> DEFINE f == [offset |-> InodeOffset(c, 1), zone_ptr |-> RootBlock(c)]
  <2>1. \A u : Content(c, u)["m_block"] = f /\ Content(c, u)["rootContent"] = RootEntries
    BY ContentAt
  <2> HIDE DEF f
  <2> QED
    BY <1>4, <2>1
<1> QED
  BY <1>1, <1>2, <1>3, <1>4 DEF Pointers

\* The blocks of the pointers, one by one.
LEMMA BlockOfEach ==
  ASSUME NEW c
  PROVE  /\ BlockOf(c, "m_super_block") = 0 /\ BlockOf(c, "m_zone_map") = 1
         /\ BlockOf(c, "m_inode_map") = 2 /\ BlockOf(c, "m_block") = InodeBlock(c, 1)
         /\ BlockOf(c, "rootContent") = RootBlock(c)
  BY DEF BlockOf

\* The steps that ask for blocks.
LEMMA OpenSteps ==
  ASSUME FormatInv, SuperBlock \/ OpenInode \/ OpenRootContent
  PROVE  FormatInv'
<1> USE DEF Held, Opened, Known, Opening, Pointers, Steps
<1>0. \A f, g : Agree({}, f, g)
  BY DEF Agree
<1>1. CASE Goes("super", "zone_map") /\ GetBlock("m_super_block", 0)
  BY <1>0, <1>1, OpenStep, BlockOfEach
<1>2. CASE Goes("zone_map", "inode_map") /\ GetBlock("m_zone_map", 1)
  BY <1>0, <1>2, OpenStep, BlockOfEach
<1>3. CASE Goes("inode_map", "FillZoneMap") /\ GetBlock("m_inode_map", 1 + NumZoneMapBlocks)
  <2>1. 1 + NumZoneMapBlocks = 2
    BY DEF NumZoneMapBlocks
  <2> QED
    BY <1>0, <1>3, <2>1, OpenStep, BlockOfEach
<1>4. CASE OpenInode
  <2>1. Agree(Opening, Content(config, "AllocateZones"), Content(config, "Inode"))
    BY ContentKeeps DEF NoZone, NoInode
  <2>2. /\ Held("AllocateZones") = Held("Inode") \cup {"m_block"}
        /\ Opened("AllocateZones") = Opened("Inode") \cup {"m_block"}
        /\ Known("AllocateZones") = Known("Inode") /\ Known("Inode") = Opening
        /\ Known("Inode") \subseteq Held("Inode")
        /\ "m_block" \in Pointers \ Opened("Inode")
        /\ "Inode" \in Steps /\ "AllocateZones" \in Steps
    OBVIOUS
  <2>3. Goes("Inode", "AllocateZones") /\ GetBlock("m_block", BlockOf(config, "m_block"))
    BY <1>4, BlockOfEach DEF OpenInode
  <2> HIDE DEF Held, Opened, Known, Opening, Pointers, Steps
  <2> QED
    BY <2>1, <2>2, <2>3, OpenStep
<1>5. CASE OpenRootContent
  <2>1. Agree(Opening \cup {"m_block"}, Content(config, "entries"), Content(config, "rootContent"))
    BY ContentKeeps DEF NoZone, NoInode
  <2>2. /\ Held("entries") = Held("rootContent") \cup {"rootContent"}
        /\ Opened("entries") = Opened("rootContent") \cup {"rootContent"}
        /\ Known("entries") = Known("rootContent")
        /\ Known("rootContent") = Opening \cup {"m_block"}
        /\ Known("rootContent") \subseteq Held("rootContent")
        /\ "rootContent" \in Pointers \ Opened("rootContent")
        /\ "rootContent" \in Steps /\ "entries" \in Steps
    OBVIOUS
  <2>3. Goes("rootContent", "entries") /\ GetBlock("rootContent", BlockOf(config, "rootContent"))
    BY <1>5, BlockOfEach DEF OpenRootContent
  <2> HIDE DEF Held, Opened, Known, Opening, Pointers, Steps
  <2> QED
    BY <2>1, <2>2, <2>3, OpenStep
<1> QED
  BY <1>1, <1>2, <1>3, <1>4, <1>5 DEF SuperBlock

\* The maps of AufsLayout lie inside the map blocks.
LEMMA MapsInRange ==
  ASSUME Accepted(config)
  PROVE  /\ FillZoneMap(config) \cup {1} \subseteq MapRange
         /\ FillInodeMap(config) \cup {1} \subseteq MapRange
         /\ FillZoneMap(config) = FillMap(MappedZones(config), ZoneMapBits(config))
         /\ FillInodeMap(config) = FillMap(num_inodes(config), ZoneMapBits(config))
         /\ MappedZones(config) \in 2 .. ZoneMapBits(config)
         /\ num_inodes(config) \in 2 .. ZoneMapBits(config)
  BY MapSizes DEF FillZoneMap, FillInodeMap, FillMap, MapRange

\* The steps that fill the maps and the super block.
LEMMA FillSteps ==
  ASSUME ByteSizes, FormatInv, WriteZoneMap \/ WriteInodeMap \/ WriteSuper
  PROVE  FormatInv'
<1> USE DEF Held, Opened, Known, Opening, Steps
<1>1. ASSUME NEW s \in {"FillZoneMap", "FillInodeMap", "FillSuper"}, Goes(s, step')
      PROVE  /\ step = s /\ UNCHANGED vars /\ Accepted(config) /\ Struct(Opening, Opening)
             /\ ZoneMapBits(config) \in Nat /\ ZoneMapBits(config) <= 8 * MaxBlockSize
             /\ InodeMapBits(config) = ZoneMapBits(config)
  <2>1. step = s /\ UNCHANGED vars /\ phase = "verified" /\ Accepted(config) /\ Struct(Opening, Opening)
    BY <1>1 DEF Goes, FormatInv, LayoutInv
  <2>2. BlockSize(config) \in Nat /\ BlockSize(config) <= MaxBlockSize
    BY <2>1, BlockSizes
  <2> QED
    BY <2>1, <2>2, MapSizes, ConstantTypes
<1>2. ASSUME Struct(Opening, Opening), NEW v \in {"m_zone_map", "m_inode_map"}
      PROVE  Data(v) \in SUBSET MapRange
  <2>1. ptr[v] \in m_cache /\ blocks[ptr[v]].no \in {1, 2}
    BY <1>2, BlockOfEach DEF Struct, PointersOK
  <2> QED
    BY <1>2, <2>1 DEF Struct, MapsOK, Data
<1>3. CASE WriteZoneMap
  <2>1. Goes("FillZoneMap", "FillInodeMap") /\ step' = "FillInodeMap"
    BY <1>3 DEF WriteZoneMap, Goes
  <2>2. Data("m_zone_map") \in SUBSET (0 .. ZoneMapBits(config) - 1)
    BY <1>1, <1>2, <2>1 DEF MapRange
  <2>3. MappedZones(config) \in 1 .. ZoneMapBits(config)
    BY <1>1, <2>1, MapsInRange, MapSizes
  <2>4. FillBits(Data("m_zone_map"), MappedZones(config), ZoneMapBits(config)) = FillZoneMap(config)
    BY <1>1, <2>1, <2>2, <2>3, FillBitsIs, MapsInRange
  <2>5. Store("m_zone_map", FillZoneMap(config))
    BY <1>3, <2>4 DEF WriteZoneMap
  <2>6. /\ Content(config, "FillInodeMap")["m_zone_map"] = FillZoneMap(config)
        /\ Agree(Known("FillZoneMap") \ {"m_zone_map"}, Content(config, "FillInodeMap"),
                 Content(config, "FillZoneMap"))
    BY ContentAt DEF Agree, NoZone
  <2>7. FillZoneMap(config) \subseteq MapRange
    BY <1>1, <2>1, MapsInRange
  <2> QED
    BY <1>1, <2>1, <2>5, <2>6, <2>7, StoreStep
<1>4. CASE WriteInodeMap
  <2>1. Goes("FillInodeMap", "FillSuper") /\ step' = "FillSuper"
    BY <1>4 DEF WriteInodeMap, Goes
  <2>2. Data("m_inode_map") \in SUBSET (0 .. ZoneMapBits(config) - 1)
    BY <1>1, <1>2, <2>1 DEF MapRange
  <2>3. num_inodes(config) \in 1 .. ZoneMapBits(config)
    BY <1>1, <2>1, MapsInRange, MapSizes
  <2>4. FillBits(Data("m_inode_map"), num_inodes(config), InodeMapBits(config)) = FillInodeMap(config)
    BY <1>1, <2>1, <2>2, <2>3, FillBitsIs, MapsInRange
  <2>5. Store("m_inode_map", FillInodeMap(config))
    BY <1>4, <2>4 DEF WriteInodeMap
  <2>6. /\ Content(config, "FillSuper")["m_inode_map"] = FillInodeMap(config)
        /\ Agree(Known("FillInodeMap") \ {"m_inode_map"}, Content(config, "FillSuper"),
                 Content(config, "FillInodeMap"))
    BY ContentAt, ContentKeeps DEF NoInode, NoZone, Pointers
  <2>7. FillInodeMap(config) \subseteq MapRange
    BY <1>1, <2>1, MapsInRange
  <2>8. /\ Held("FillSuper") = Held("FillInodeMap") /\ Opened("FillSuper") = Opened("FillInodeMap")
        /\ Known("FillSuper") = Known("FillInodeMap") \cup {"m_inode_map"}
        /\ "m_inode_map" \in Held("FillInodeMap")
        /\ "FillInodeMap" \in Steps /\ "FillSuper" \in Steps
    OBVIOUS
  <2>9. step = "FillInodeMap" /\ UNCHANGED vars
    BY <1>1, <2>1
  <2> HIDE DEF Held, Opened, Known, Opening, Steps
  <2> QED
    BY <2>1, <2>5, <2>6, <2>7, <2>8, <2>9, StoreStep
<1>5. CASE WriteSuper
  <2>1. Goes("FillSuper", "AllocateInode") /\ step' = "AllocateInode"
    BY <1>5 DEF WriteSuper, Goes
  <2>2. /\ Agree(Known("FillSuper") \ {"m_super_block"}, Content(config, "AllocateInode"),
                 Content(config, "FillSuper"))
        /\ Content(config, "AllocateInode")["m_super_block"] = [FillSuper(config) EXCEPT !.root_inode = -1]
    BY ContentAt, ContentKeeps DEF NoInode, NoZone, Pointers
  <2>3. BlockOf(config, "m_super_block") \notin {1, 2}
    BY BlockOfEach
  <2>4. /\ Held("AllocateInode") = Held("FillSuper") /\ Opened("AllocateInode") = Opened("FillSuper")
        /\ Known("AllocateInode") = Known("FillSuper") \cup {"m_super_block"}
        /\ "m_super_block" \in Held("FillSuper")
        /\ "FillSuper" \in Steps /\ "AllocateInode" \in Steps
    OBVIOUS
  <2>5. step = "FillSuper" /\ UNCHANGED vars
    BY <1>1, <2>1
  <2>6. Store("m_super_block", [FillSuper(config) EXCEPT !.root_inode = -1])
    BY <1>5 DEF WriteSuper
  <2> HIDE DEF Held, Opened, Known, Opening, Steps
  <2> QED
    BY <2>1, <2>2, <2>3, <2>4, <2>5, <2>6, StoreStep
<1> QED
  BY <1>3, <1>4, <1>5

\* While the formatter runs.
LEMMA Running ==
  ASSUME FormatInv, step \in Steps
  PROVE  /\ phase = "verified" /\ Accepted(config)
         /\ Struct(Held(step), Opened(step)) /\ DataIs(Known(step), Content(config, step))
         /\ \A v \in Held(step) \cap Known(step) : Data(v) = Content(config, step)[v]
<1>1. /\ phase = "verified" /\ Accepted(config)
      /\ Struct(Held(step), Opened(step)) /\ DataIs(Known(step), Content(config, step))
  BY DEF FormatInv, LayoutInv
<1>2. Held(step) \in SUBSET Pointers
  BY HeldSets
<1> QED
  BY <1>1, <1>2, HeldData

\* AllocateInode answers 1, and takes it.
LEMMA InodeStep ==
  ASSUME ByteSizes, FormatInv, TakeInode
  PROVE  FormatInv' /\ phase' = phase
<1> USE DEF Held, Opened, Known, Opening, Steps
<1>1. step = "AllocateInode" /\ UNCHANGED <<config, deviceVars, kernelVars>>
  BY DEF TakeInode
<1>2. Accepted(config) /\ Data("m_inode_map") = FillInodeMap(config)
  <2>1. Data("m_inode_map") = Content(config, "AllocateInode")["m_inode_map"]
    BY <1>1, Running
  <2> QED
    BY <1>1, <2>1, Running, ContentAt DEF NoInode
<1>3. /\ FillInodeMap(config) = FillMap(num_inodes(config), ZoneMapBits(config))
      /\ num_inodes(config) \in 2 .. ZoneMapBits(config)
      /\ FillInodeMap(config) \cup {1} \subseteq MapRange
  BY <1>2, MapsInRange
<1>4. Find(Data("m_inode_map"), Begin, MapEnd(NumInodeMapBlocks), SearchEnd(NumInodeMapBlocks), FALSE) = {1}
  BY <1>2, <1>3, FirstFreeIsOne DEF NumInodeMapBlocks
<1>5. Asserted(1, "Inode") /\ Store("m_inode_map", FillInodeMap(config) \cup {1})
  BY <1>2, <1>4 DEF TakeInode
<1>6. step' = "Inode" /\ phase' = phase /\ UNCHANGED vars
  BY <1>1, <1>5 DEF Asserted, vars
<1>7. /\ Held("Inode") = Held("AllocateInode") /\ Opened("Inode") = Opened("AllocateInode")
      /\ Known("Inode") = Known("AllocateInode") \cup {"m_inode_map"}
      /\ "m_inode_map" \in Held("AllocateInode")
      /\ "AllocateInode" \in Steps /\ "Inode" \in Steps
      /\ Known("AllocateInode") \ {"m_inode_map"} \in SUBSET Pointers
  BY DEF Pointers
<1>8. Content(config, "Inode")["m_inode_map"] = FillInodeMap(config) \cup {1}
  BY ContentAt DEF NoInode
<1>9. Agree(Known("AllocateInode") \ {"m_inode_map"}, Content(config, "Inode"),
            Content(config, "AllocateInode"))
  BY <1>7, ContentKeeps DEF NoZone
<1> HIDE DEF Held, Opened, Known, Opening, Steps
<1> QED
  BY <1>1, <1>3, <1>5, <1>6, <1>7, <1>8, <1>9, StoreStep

\* AllocateZones answers 1, and takes that zone alone.
LEMMA ZonesStep ==
  ASSUME ByteSizes, FormatInv, TakeZones
  PROVE  FormatInv' /\ phase' = phase
<1> USE DEF Held, Opened, Known, Opening, Steps
<1>1. step = "AllocateZones" /\ UNCHANGED <<config, deviceVars, kernelVars>>
  BY DEF TakeZones
<1>2. Accepted(config) /\ Data("m_zone_map") = FillZoneMap(config)
  <2>1. Data("m_zone_map") = Content(config, "AllocateZones")["m_zone_map"]
    BY <1>1, Running
  <2> QED
    BY <1>1, <2>1, Running, ContentAt DEF NoZone
<1>3. /\ FillZoneMap(config) = FillMap(MappedZones(config), ZoneMapBits(config))
      /\ MappedZones(config) \in 2 .. ZoneMapBits(config)
      /\ FillZoneMap(config) \cup {1} \subseteq MapRange
  BY <1>2, MapsInRange
<1>4. FreeFrom(Begin) = {1}
  BY <1>2, <1>3, FirstFreeIsOne DEF FreeFrom, FindZone, NumZoneMapBlocks
<1>5. RootZones(config) = 1
  BY <1>2, OneRootZone
<1>6. /\ Asserted(1, "Set")
      /\ Store("m_zone_map", Fill(Data("m_zone_map"), advance(Begin, 1),
                                  advance(advance(Begin, 1), RootZones(config)), TRUE))
  BY <1>4 DEF TakeZones
<1>7. Store("m_zone_map", FillZoneMap(config) \cup {1})
  BY <1>2, <1>5, <1>6, TakesOne
<1>8. step' = "Set" /\ phase' = phase /\ UNCHANGED vars
  BY <1>1, <1>6 DEF Asserted, vars
<1>9. /\ Held("Set") = Held("AllocateZones") /\ Opened("Set") = Opened("AllocateZones")
      /\ Known("Set") = Known("AllocateZones") \cup {"m_zone_map"}
      /\ "m_zone_map" \in Held("AllocateZones")
      /\ "AllocateZones" \in Steps /\ "Set" \in Steps
      /\ Known("AllocateZones") \ {"m_zone_map"} \in SUBSET Pointers
  BY DEF Pointers
<1>10. Content(config, "Set")["m_zone_map"] = FillZoneMap(config) \cup {1}
  BY ContentAt DEF NoZone
<1>11. Agree(Known("AllocateZones") \ {"m_zone_map"}, Content(config, "Set"),
             Content(config, "AllocateZones"))
  BY <1>9, ContentKeeps DEF NoInode
<1> HIDE DEF Held, Opened, Known, Opening, Steps
<1> QED
  BY <1>1, <1>3, <1>7, <1>8, <1>9, <1>10, <1>11, StoreStep

\* The inode of the root directory, its entries, and its number in the super block.
LEMMA RootSteps ==
  ASSUME FormatInv, SetInode \/ WriteEntries \/ SetRootInode
  PROVE  FormatInv'
<1> USE DEF Held, Opened, Known, Opening, Steps, Pointers
<1>1. CASE SetInode
  <2> DEFINE data == [offset |-> InodeOffset(config, 1), zone_ptr |-> RootBlock(config)]
  <2>1. step = "Set" /\ step' = "rootContent" /\ UNCHANGED vars /\ Store("m_block", data)
    BY <1>1 DEF SetInode, Goes
  <2>2. Accepted(config)
    BY <2>1, Running
  <2>3. BlockOf(config, "m_block") \notin {1, 2}
    BY <2>2, BlockOrder, BlockOfEach
  <2>4. Content(config, "rootContent")["m_block"] = data
    BY ContentAt
  <2>5. /\ Held("rootContent") = Held("Set") /\ Opened("rootContent") = Opened("Set")
        /\ Known("rootContent") = Known("Set") \cup {"m_block"} /\ "m_block" \in Held("Set")
        /\ "Set" \in Steps /\ "rootContent" \in Steps /\ Known("Set") \ {"m_block"} \in SUBSET Pointers
    OBVIOUS
  <2>6. Agree(Known("Set") \ {"m_block"}, Content(config, "rootContent"), Content(config, "Set"))
    BY ContentKeeps DEF NoZone, NoInode
  <2> HIDE DEF Held, Opened, Known, Opening, Steps, Pointers, data
  <2> QED
    BY <2>1, <2>3, <2>4, <2>5, <2>6, StoreStep
<1>2. CASE WriteEntries
  <2>1. step = "entries" /\ step' = "return" /\ UNCHANGED vars /\ Store("rootContent", RootEntries)
    BY <1>2 DEF WriteEntries, Goes
  <2>2. Accepted(config)
    BY <2>1, Running
  <2>3. BlockOf(config, "rootContent") \notin {1, 2}
    BY <2>2, BlockOrder, BlockOfEach
  <2>4. Content(config, "return")["rootContent"] = RootEntries
    BY ContentAt
  <2>5. /\ Held("return") = Held("entries") /\ Opened("return") = Opened("entries")
        /\ Known("return") = Known("entries") \cup {"rootContent"} /\ "rootContent" \in Held("entries")
        /\ "entries" \in Steps /\ "return" \in Steps
        /\ Known("entries") \ {"rootContent"} \in SUBSET Pointers
    OBVIOUS
  <2>6. Agree(Known("entries") \ {"rootContent"}, Content(config, "return"), Content(config, "entries"))
    BY ContentKeeps DEF NoZone, NoInode
  <2> HIDE DEF Held, Opened, Known, Opening, Steps, Pointers
  <2> QED
    BY <2>1, <2>3, <2>4, <2>5, <2>6, StoreStep
<1>3. CASE SetRootInode
  <2>1. /\ step = "SetRootInode" /\ step' = "destroy" /\ UNCHANGED vars
        /\ Store("m_super_block", [Data("m_super_block") EXCEPT !.root_inode = 1])
    BY <1>3 DEF SetRootInode, Goes
  <2>2. Data("m_super_block") = [FillSuper(config) EXCEPT !.root_inode = -1]
    <3>1. Data("m_super_block") = Content(config, "SetRootInode")["m_super_block"]
      BY <2>1, Running
    <3> QED
      BY <3>1, ContentAt
  <2>3. [Data("m_super_block") EXCEPT !.root_inode = 1] = FillSuper(config)
    BY <2>2 DEF FillSuper
  <2>4. Content(config, "destroy")["m_super_block"] = FillSuper(config)
    BY ContentAt
  <2>5. BlockOf(config, "m_super_block") \notin {1, 2}
    BY BlockOfEach
  <2>6. /\ Held("destroy") = Held("SetRootInode") /\ Opened("destroy") = Opened("SetRootInode")
        /\ Known("destroy") = Known("SetRootInode") \cup {"m_super_block"}
        /\ "m_super_block" \in Held("SetRootInode")
        /\ "SetRootInode" \in Steps /\ "destroy" \in Steps
        /\ Known("SetRootInode") \ {"m_super_block"} \in SUBSET Pointers
    OBVIOUS
  <2>7. Agree(Known("SetRootInode") \ {"m_super_block"}, Content(config, "destroy"),
              Content(config, "SetRootInode"))
    BY ContentKeeps DEF NoZone, NoInode
  <2> HIDE DEF Held, Opened, Known, Opening, Steps, Pointers
  <2> QED
    BY <2>1, <2>3, <2>4, <2>5, <2>6, <2>7, StoreStep
<1> QED
  BY <1>1, <1>2, <1>3

\* MkRootDir lets go of a block that stays in the cache.
LEMMA ReturnStep ==
  ASSUME FormatInv, ReturnInode
  PROVE  FormatInv'
<1> USE DEF Held, Opened, Known, Opening, Steps, Pointers
<1>1. /\ step = "return" /\ step' = "SetRootInode" /\ UNCHANGED vars
      /\ ptr' = [ptr EXCEPT !["rootContent"] = 0] /\ UNCHANGED <<device, blocks, m_cache, failed>>
      /\ config' = config /\ phase' = phase
  BY DEF ReturnInode, Goes, vars
<1>2. /\ phase = "verified" /\ Struct(Pointers, Pointers)
      /\ DataIs(Pointers, Content(config, "return"))
  BY <1>1, Running
<1>3. Struct(Opening \cup {"m_block"}, Pointers)'
  <2>1. ObjectsOK' /\ CacheOK(Pointers)' /\ MapsOK'
    BY <1>1, <1>2 DEF Struct, ObjectsOK, CacheOK, MapsOK, MapRange
  <2>2. PointersOK(Opening \cup {"m_block"})'
    BY <1>1, <1>2 DEF Struct, PointersOK
  <2> QED
    BY <2>1, <2>2 DEF Struct
<1>4. DataIs(Pointers, Content(config, "SetRootInode"))'
  <2>1. Agree(Pointers, Content(config, "SetRootInode"), Content(config, "return"))
    BY ContentKeeps DEF NoZone, NoInode
  <2> QED
    BY <1>1, <1>2, <2>1 DEF DataIs, Agree
<1>5. LayoutInv'
  BY <1>1, LayoutInvNext DEF FormatInv
<1>6. /\ Held("SetRootInode") = Opening \cup {"m_block"} /\ Opened("SetRootInode") = Pointers
      /\ Known("SetRootInode") = Pointers /\ "SetRootInode" \in Steps
  OBVIOUS
<1>7. "SetRootInode" # "start" /\ "SetRootInode" # "ended"
  OBVIOUS
<1> HIDE DEF Held, Opened, Known, Opening, Steps, Pointers
<1> QED
  BY <1>1, <1>2, <1>3, <1>4, <1>5, <1>6, <1>7 DEF FormatInv

\* The formatter starts with an empty cache and any device.
LEMMA StartStep ==
  ASSUME FormatInv, Formatter
  PROVE  FormatInv'
<1> USE DEF Held, Opened, Known, Steps
<1>1. /\ phase = "verified" /\ step = "start" /\ step' = "super" /\ UNCHANGED vars
      /\ UNCHANGED <<blocks, m_cache, ptr, failed>> /\ config' = config /\ phase' = phase
  BY DEF Formatter, Goes, vars
<1>2. Idle /\ LayoutInv
  BY <1>1 DEF FormatInv
<1>3. PICK bits \in {{}, 0 .. ZoneMapBits(config) - 1} :
        device' = [no \in UsedBlocks(config) |->
                     IF no \in {1, 1 + NumZoneMapBlocks} THEN bits ELSE Nothing]
  BY DEF Formatter
<1>4. bits \subseteq MapRange
  BY DEF MapRange
<1>5. ObjectsOK'
  <2>1. blocks' = <<>> /\ m_cache' = {}
    BY <1>1, <1>2 DEF Idle
  <2>2. Len(blocks') = 0 /\ 1 .. Len(blocks') = {}
    BY <2>1
  <2>3. blocks' = [k \in 1 .. Len(blocks') |-> blocks'[k]]
    BY <2>1, <2>2
  <2> QED
    BY <2>1, <2>2, <2>3 DEF ObjectsOK
<1>6. CacheOK({})' /\ PointersOK({})'
  BY <1>1, <1>2 DEF Idle, CacheOK, PointersOK
<1>7. MapsOK'
  <2>1. /\ device' = [no \in UsedBlocks(config) |-> device'[no]]
        /\ \A no \in {1, 2} : device'[no] \subseteq MapRange
    BY <1>3, <1>4 DEF UsedBlocks, NumZoneMapBlocks
  <2> QED
    BY <1>1, <1>2, <2>1 DEF Idle, MapsOK, MapRange
<1>8. LayoutInv'
  BY <1>1, <1>2, LayoutInvNext
<1>9. DataIs({}, Content(config, "super"))'
  BY DEF DataIs
<1>10. Held("super") = {} /\ Opened("super") = {} /\ Known("super") = {} /\ "super" \in Steps
  OBVIOUS
<1> HIDE DEF Held, Opened, Known, Steps
<1> QED
  BY <1>1, <1>5, <1>6, <1>7, <1>8, <1>9, <1>10 DEF FormatInv, Struct

\* The destructor of the cache writes every block that the formatter wrote to.
LEMMA AllSynced ==
  ASSUME FormatInv, step = "destroy", NEW v \in Pointers
  PROVE  Synced(NoFailure)[BlockOf(config, v)] = Content(config, "destroy")[v]
<1> DEFINE no == BlockOf(config, v)
           id == CHOOSE k \in m_cache : blocks[k].no = no
<1>1. /\ Accepted(config) /\ Struct(Held("destroy"), Opened("destroy"))
      /\ DataIs(Known("destroy"), Content(config, "destroy"))
  BY Running DEF Steps
<1>2. Known("destroy") = Pointers
  BY DEF Known
<1>3. PICK k \in m_cache : blocks[k].no = no /\ blocks[k].data = Content(config, "destroy")[v]
  BY <1>1, <1>2 DEF DataIs
<1>4. id \in m_cache /\ blocks[id].no = no
  BY <1>3
<1>5. id = k
  BY <1>1, <1>3, <1>4 DEF Struct, CacheOK
<1>6. no \in DOMAIN device
  BY <1>1, BlocksDiffer DEF Struct, MapsOK
<1>7. no < NoFailure
  BY <1>1, BlocksDiffer, BlockOrder DEF NoFailure
<1>8. Synced(NoFailure)[no] = blocks[id].data
  BY <1>4, <1>6, <1>7 DEF Synced
<1> QED
  BY <1>3, <1>5, <1>8

\* If no write failed, the device is what Format of AufsLayout says.
LEMMA DestroyFormats ==
  ASSUME FormatInv, Destroy, ~failed'
  PROVE  Format
<1> DEFINE i == InodeBlock(config, 1)
           inode == device'[i]
           D == Content(config, "destroy")
<1>1. step = "destroy" /\ UNCHANGED <<config, kernelVars, blocks>>
  BY DEF Destroy
<1>2. Accepted(config) /\ phase = "verified"
  BY <1>1, Running DEF Steps
<1>3. PICK bad : device' = Synced(bad) /\ failed' = (failed \/ bad # NoFailure)
  BY DEF Destroy
<1>4. device' = Synced(NoFailure)
  BY <1>3
<1>5. /\ phase' = "formatted" /\ dsb' = device'[0]
      /\ zoneMap' = device'[1] /\ inodeMap' = device'[1 + NumZoneMapBlocks]
      /\ root' = [block |-> i, offset |-> inode.offset, zone_ptr |-> inode.zone_ptr,
                  entries |-> device'[inode.zone_ptr]]
  BY DEF Destroy
<1>6. /\ device'[0] = D["m_super_block"] /\ device'[1] = D["m_zone_map"]
      /\ device'[2] = D["m_inode_map"] /\ device'[i] = D["m_block"]
      /\ device'[RootBlock(config)] = D["rootContent"]
  BY <1>1, <1>4, AllSynced, BlockOfEach DEF Pointers
<1>7. /\ device'[0] = FillSuper(config)
      /\ device'[1] = FillZoneMap(config) \cup {1}
      /\ device'[2] = FillInodeMap(config) \cup {1}
      /\ inode = [offset |-> InodeOffset(config, 1), zone_ptr |-> RootBlock(config)]
      /\ device'[RootBlock(config)] = RootEntries
  BY <1>6, ContentAt DEF NoZone, NoInode
<1>8. MkRootDirAsserts(config) /\ RootZones(config) = 1
  BY <1>2, RootAnswers, OneRootZone
<1>9. AllocateInode(config) = 1 /\ AllocateZones(config, RootZones(config)) = 1
  BY <1>8 DEF MkRootDirAsserts
<1>10. {AllocateZones(config, RootZones(config)) + k : k \in 0 .. RootZones(config) - 1} = {1}
  BY <1>8, <1>9
<1>11. zoneMap' = FillZoneMap(config) \cup
         {AllocateZones(config, RootZones(config)) + k : k \in 0 .. RootZones(config) - 1}
  BY <1>5, <1>7, <1>10
<1>12. inodeMap' = FillInodeMap(config) \cup {AllocateInode(config)}
  BY <1>5, <1>7, <1>9 DEF NumZoneMapBlocks
<1>13. root' = [block |-> InodeBlock(config, 1), offset |-> InodeOffset(config, 1),
                zone_ptr |-> RootBlock(config), entries |-> RootEntries]
  BY <1>5, <1>7
<1>14. dsb' = FillSuper(config) /\ phase' = "formatted"
  BY <1>5, <1>7
<1> HIDE DEF D, i, inode
<1> QED
  BY <1>1, <1>2, <1>8, <1>11, <1>12, <1>13, <1>14 DEF Format

\* The end of mkfs.
LEMMA DestroyStep ==
  ASSUME FormatInv, Destroy
  PROVE  FormatInv'
<1>1. step = "destroy" /\ step' = "ended" /\ ptr' = [v \in Pointers |-> 0] /\ m_cache' = Kept(ptr')
  BY DEF Destroy
<1>2. m_cache' = {}
  <2>1. Struct(Held("destroy"), Opened("destroy"))
    BY <1>1, Running DEF Steps
  <2>2. \A k \in m_cache : k # 0
    BY <2>1 DEF Struct, ObjectsOK
  <2> QED
    BY <1>1, <2>2 DEF Kept
<1>3. LayoutInv' /\ phase' \in {"formatted", "unwritten"}
  <2>1. CASE failed'
    <3>1. phase' = "unwritten"
      BY <2>1 DEF Destroy
    <3> QED
      BY <3>1 DEF LayoutInv
  <2>2. CASE ~failed'
    <3>1. Format
      BY <2>2, DestroyFormats
    <3>2. LayoutInv'
      BY <3>1, FormatLayoutInv DEF FormatInv
    <3>3. phase' = "formatted"
      BY <3>1 DEF Format
    <3> QED
      BY <3>2, <3>3
  <2> QED
    BY <2>1, <2>2
<1>4. "ended" \notin Steps /\ "ended" # "start"
  BY DEF Steps
<1> QED
  BY <1>1, <1>2, <1>3, <1>4 DEF FormatInv

\* The arguments, and the mount, leave the formatter alone.
LEMMA OtherSteps ==
  ASSUME FormatInv, ArgumentStep \/ (aufs_fill_sb /\ UNCHANGED <<step, cacheVars>>)
  PROVE  FormatInv'
<1>1. UNCHANGED <<step, cacheVars>>
  BY DEF ArgumentStep
<1>2. /\ step' = step /\ m_cache' = m_cache /\ blocks' = blocks /\ ptr' = ptr
  BY <1>1 DEF cacheVars
<1>3. LayoutInv'
  BY ArgumentsLayoutInv, MountLayoutInv DEF FormatInv, ArgumentStep
<1>4. CASE ArgumentStep
  <2>1. phase \in {"start", "parsed"} /\ phase' \in {"parsed", "verified", "rejected"}
    BY <1>4 DEF ArgumentStep, ParseArgs, VerifyConfiguration
  <2>2. step = "start"
    BY <2>1 DEF FormatInv
  <2>3. "start" \notin Steps /\ "start" # "ended" /\ Idle
    BY <2>2 DEF FormatInv, Steps
  <2>4. Idle'
    BY <1>2, <2>3 DEF Idle
  <2> QED
    BY <1>2, <1>3, <2>1, <2>2, <2>3, <2>4 DEF FormatInv
<1>5. CASE aufs_fill_sb
  <2>1. phase = "formatted" /\ phase' = "mounted"
    BY <1>5 DEF aufs_fill_sb
  <2>2. step = "ended"
    BY <2>1 DEF FormatInv
  <2>3. "ended" \notin Steps /\ "start" # "ended"
    BY DEF Steps
  <2> QED
    BY <1>2, <1>3, <2>1, <2>2, <2>3 DEF FormatInv
<1> QED
  BY <1>4, <1>5

\* Every step of mkfs.aufs and of the mount.
LEMMA FormatInvStep ==
  ASSUME ByteSizes, FormatInv, [FormatNext]_formatVars
  PROVE  FormatInv'
<1>1. CASE FormatStep
  <2>1. CASE Formatter
    BY <2>1, StartStep
  <2>2. CASE SuperBlock \/ OpenInode \/ OpenRootContent
    BY <2>2, OpenSteps
  <2>3. CASE WriteZoneMap \/ WriteInodeMap \/ WriteSuper
    BY <2>3, FillSteps
  <2>4. CASE TakeInode \/ TakeZones
    BY <2>4, InodeStep, ZonesStep
  <2>5. CASE SetInode \/ WriteEntries \/ SetRootInode
    BY <2>5, RootSteps
  <2>6. CASE ReturnInode
    BY <2>6, ReturnStep
  <2>7. CASE Destroy
    BY <2>7, DestroyStep
  <2> QED
    BY <1>1, <2>1, <2>2, <2>3, <2>4, <2>5, <2>6, <2>7 DEF FormatStep
<1>2. CASE ArgumentStep \/ (aufs_fill_sb /\ UNCHANGED <<step, cacheVars>>)
  BY <1>2, OtherSteps
<1>3. CASE UNCHANGED formatVars
  <2>1. UNCHANGED vars /\ step' = step /\ UNCHANGED <<device, blocks, m_cache, ptr, failed>>
    BY <1>3 DEF formatVars, cacheVars
  <2>2. LayoutInv'
    BY <2>1, LayoutInvNext DEF FormatInv
  <2>3. phase' = phase /\ config' = config
    BY <2>1 DEF vars
  <2>4. step \in Steps => /\ Struct(Held(step), Opened(step))'
                          /\ DataIs(Known(step), Content(config, step))'
    <3>1. ASSUME step \in Steps
          PROVE  Struct(Held(step), Opened(step))' /\ DataIs(Known(step), Content(config, step))'
      <4>1. Struct(Held(step), Opened(step)) /\ DataIs(Known(step), Content(config, step))
        BY <3>1, Running
      <4>2. Struct(Held(step), Opened(step))'
        BY <2>1, <2>3, <4>1 DEF Struct, ObjectsOK, CacheOK, PointersOK, MapsOK, MapRange
      <4>3. DataIs(Known(step), Content(config, step))'
        BY <2>1, <2>3, <4>1 DEF DataIs
      <4> QED
        BY <4>2, <4>3
    <3> QED
      BY <3>1
  <2> QED
    BY <2>1, <2>2, <2>3, <2>4 DEF FormatInv, Idle
<1> QED
  BY <1>1, <1>2, <1>3 DEF FormatNext

\* At the start nothing is in the cache.
LEMMA FormatInvInit == FormatInit => FormatInv
<1> SUFFICES ASSUME FormatInit PROVE FormatInv
  OBVIOUS
<1>1. LayoutInv /\ phase = "start"
  BY InitLayoutInv DEF FormatInit, Init
<1>2. "start" \notin Steps
  BY DEF Steps
<1> QED
  BY <1>1, <1>2 DEF FormatInit, FormatInv, Idle

\* The inductive invariant.
LEMMA FormatInvHolds ==
  ASSUME ByteSizes
  PROVE  FormatSpec => []FormatInv
<1>1. FormatInit => FormatInv
  BY FormatInvInit
<1>2. FormatInv /\ [FormatNext]_formatVars => FormatInv'
  BY FormatInvStep
<1> QED
  BY <1>1, <1>2, PTL DEF FormatSpec

\* What the invariant says of the cache, at every step.
LEMMA OneCopyInv == FormatInv => OneCopy
<1> SUFFICES ASSUME FormatInv PROVE OneCopy
  OBVIOUS
<1>1. CASE step \in Steps
  <2>1. Struct(Held(step), Opened(step))
    BY <1>1, Running
  <2> QED
    BY <2>1 DEF Struct, CacheOK, PointersOK, OneCopy
<1>2. CASE step \in {"start", "ended"}
  BY <1>2 DEF FormatInv, Idle, OneCopy
<1> QED
  BY <1>1, <1>2 DEF FormatInv

\* The cache never has two objects for one block and never drops one that a
\* BlockPtr of SuperBlock, Inode or MkRootDir still points to, for any size of the
\* cache: GetBlock syncs before it adds, and Sync keeps what is shared.
THEOREM CacheKeepsOneCopy ==
  ASSUME ByteSizes
  PROVE  FormatSpec => []OneCopy
<1>1. FormatSpec => []FormatInv
  BY FormatInvHolds
<1> QED
  BY <1>1, OneCopyInv, PTL

-----------------------------------------------------------------------------
(***************************************************************************)
(* Refinement                                                              *)
(***************************************************************************)
\* What mkfs shows: nothing, or a step of AufsLayout, or that a write failed.
LEMMA VisibleSteps ==
  ASSUME ByteSizes, FormatInv, [FormatNext]_formatVars
  PROVE  \/ UNCHANGED vars
         \/ \E d \in DeviceSizes, zones \in ZoneCounts, zoneSize \in ZoneSizes :
              ParseArgs(d, zones, zoneSize)
         \/ VerifyConfiguration \/ Format \/ aufs_fill_sb
         \/ /\ phase = "verified" /\ phase' = "unwritten"
            /\ UNCHANGED <<config, deviceVars, kernelVars>>
<1>1. CASE Destroy
  <2>1. CASE failed'
    <3>1. phase = "verified"
      BY <1>1, Running DEF Destroy, Steps
    <3> QED
      BY <1>1, <2>1, <3>1 DEF Destroy
  <2>2. CASE ~failed'
    BY <1>1, <2>2, DestroyFormats
  <2> QED
    BY <2>1, <2>2
<1>2. CASE TakeInode \/ TakeZones
  <2>1. phase' = phase
    BY <1>2, InodeStep, ZonesStep
  <2> QED
    BY <1>2, <2>1 DEF TakeInode, TakeZones, vars
<1>3. CASE \/ Formatter \/ SuperBlock \/ WriteZoneMap \/ WriteInodeMap \/ WriteSuper \/ OpenInode
           \/ SetInode \/ OpenRootContent \/ WriteEntries \/ ReturnInode \/ SetRootInode
  BY <1>3 DEF Formatter, SuperBlock, WriteZoneMap, WriteInodeMap, WriteSuper, OpenInode,
       SetInode, OpenRootContent, WriteEntries, ReturnInode, SetRootInode, Goes
<1>4. CASE UNCHANGED formatVars
  BY <1>4 DEF formatVars
<1> QED
  BY <1>1, <1>2, <1>3, <1>4 DEF FormatNext, FormatStep, ArgumentStep

\* The operators of the instance are those of AufsLayout: the phase, which is the
\* only thing substituted, does not occur in them.
LEMMA SameOperators ==
  ASSUME NEW c
  PROVE  /\ Layout!FillSuper(c) = FillSuper(c)
         /\ Layout!FillZoneMap(c) = FillZoneMap(c) /\ Layout!FillInodeMap(c) = FillInodeMap(c)
         /\ Layout!AllocateInode(c) = AllocateInode(c)
         /\ \A n : Layout!AllocateZones(c, n) = AllocateZones(c, n)
         /\ Layout!RootZones(c) = RootZones(c) /\ Layout!RootBlock(c) = RootBlock(c)
         /\ Layout!InodeBlock(c, 1) = InodeBlock(c, 1)
         /\ Layout!InodeOffset(c, 1) = InodeOffset(c, 1)
         /\ Layout!RootEntries = RootEntries
<1>1. Layout!BlockSize(c) = BlockSize(c) /\ Layout!InBlock(c) = InBlock(c)
  BY DEF Layout!BlockSize, BlockSize, Layout!InBlock, InBlock, Layout!Lesser, Lesser
<1>2. Layout!NumInodeMapBlocks = NumInodeMapBlocks /\ Layout!NumZoneMapBlocks = NumZoneMapBlocks
  BY DEF Layout!NumInodeMapBlocks, NumInodeMapBlocks, Layout!NumZoneMapBlocks, NumZoneMapBlocks
<1>3. Layout!NumInodeEntryBlocks(c) = NumInodeEntryBlocks(c)
  BY <1>1, <1>2 DEF Layout!NumInodeEntryBlocks, NumInodeEntryBlocks, Layout!Lesser, Lesser,
       Layout!integer_round_up_division, integer_round_up_division
<1>4. /\ Layout!ZoneMapBits(c) = ZoneMapBits(c) /\ Layout!InodeMapBits(c) = InodeMapBits(c)
      /\ Layout!MappedZones(c) = MappedZones(c) /\ Layout!num_inodes(c) = num_inodes(c)
  BY <1>1, <1>2, <1>3 DEF Layout!ZoneMapBits, ZoneMapBits, Layout!InodeMapBits, InodeMapBits,
       Layout!MappedZones, MappedZones, Layout!num_inodes, num_inodes, Layout!Lesser, Lesser
<1>5. Layout!FillZoneMap(c) = FillZoneMap(c) /\ Layout!FillInodeMap(c) = FillInodeMap(c)
  BY <1>4 DEF Layout!FillZoneMap, FillZoneMap, Layout!FillInodeMap, FillInodeMap,
       Layout!FillMap, FillMap
<1>6. Layout!AllocateInode(c) = AllocateInode(c)
  BY <1>4, <1>5 DEF Layout!AllocateInode, AllocateInode, Layout!Least, Least
<1>7. ASSUME NEW n PROVE Layout!AllocateZones(c, n) = AllocateZones(c, n)
  BY <1>4, <1>5 DEF Layout!AllocateZones, AllocateZones, Layout!Least, Least
<1>8. Layout!FillSuper(c) = FillSuper(c)
  BY <1>2, <1>3 DEF Layout!FillSuper, FillSuper
<1>9. Layout!RootZones(c) = RootZones(c)
  BY DEF Layout!RootZones, RootZones, Layout!integer_round_up_division, integer_round_up_division
<1>10. Layout!RootBlock(c) = RootBlock(c)
  BY <1>1, <1>2, <1>3 DEF Layout!RootBlock, RootBlock, Layout!AlignUp, AlignUp,
       Layout!integer_round_up_division, integer_round_up_division
<1>11. Layout!InodeBlock(c, 1) = InodeBlock(c, 1) /\ Layout!InodeOffset(c, 1) = InodeOffset(c, 1)
  BY <1>1, <1>2 DEF Layout!InodeBlock, InodeBlock, Layout!InodeOffset, InodeOffset
<1>12. Layout!RootEntries = RootEntries
  BY DEF Layout!RootEntries, RootEntries
<1> QED
  BY <1>5, <1>6, <1>7, <1>8, <1>9, <1>10, <1>11, <1>12

\* Writing the device.
LEMMA FormatMaps ==
  ASSUME Format
  PROVE  Layout!Format
<1>1. phase = "verified" /\ phase' = "formatted" /\ UNCHANGED <<config, kernelVars>>
  BY DEF Format
<1>2. Layout!MkRootDirAsserts(config)
  BY SameOperators DEF Format, MkRootDirAsserts, Layout!MkRootDirAsserts
<1>3. dsb' = Layout!FillSuper(config)
  BY SameOperators DEF Format
<1>4. inodeMap' = Layout!FillInodeMap(config) \cup {Layout!AllocateInode(config)}
  BY SameOperators DEF Format
<1>5. zoneMap' = Layout!FillZoneMap(config) \cup
        {Layout!AllocateZones(config, Layout!RootZones(config)) + k :
           k \in 0 .. Layout!RootZones(config) - 1}
  BY SameOperators DEF Format
<1>6. root' = [block |-> Layout!InodeBlock(config, 1), offset |-> Layout!InodeOffset(config, 1),
               zone_ptr |-> Layout!RootBlock(config), entries |-> Layout!RootEntries]
  BY SameOperators DEF Format
<1> QED
  BY <1>1, <1>2, <1>3, <1>4, <1>5, <1>6 DEF Layout!Format, Layout!kernelVars, kernelVars

\* The arguments.
LEMMA ParseMaps ==
  ASSUME NEW d, NEW zones, NEW zoneSize, ParseArgs(d, zones, zoneSize)
  PROVE  Layout!ParseArgs(d, zones, zoneSize)
  BY DEF ParseArgs, Layout!ParseArgs, Configuration, Layout!Configuration, Lesser,
       Layout!Lesser, NumZoneMapBlocks, Layout!NumZoneMapBlocks, deviceVars, kernelVars,
       Layout!deviceVars, Layout!kernelVars

\* The checks of the configuration.
LEMMA VerifyMaps ==
  ASSUME VerifyConfiguration
  PROVE  Layout!VerifyConfiguration
<1>1. /\ Layout!VerifyZoneSize(config) <=> VerifyZoneSize(config)
      /\ Layout!VerifyZones(config) <=> VerifyZones(config)
      /\ Layout!VerifyDevice(config) <=> VerifyDevice(config)
  BY DEF VerifyZoneSize, Layout!VerifyZoneSize, VerifyZones, Layout!VerifyZones,
       VerifyDevice, Layout!VerifyDevice, IsPowerOfTwo, Layout!IsPowerOfTwo
<1> QED
  BY <1>1 DEF VerifyConfiguration, Layout!VerifyConfiguration, deviceVars, kernelVars,
       Layout!deviceVars, Layout!kernelVars

\* The mount.
LEMMA MountMaps ==
  ASSUME aufs_fill_sb
  PROVE  Layout!aufs_fill_sb
<1>1. Layout!BdevBlockSize(config.device) = BdevBlockSize(config.device)
  BY DEF Layout!BdevBlockSize, BdevBlockSize, Layout!IsPowerOfTwo, IsPowerOfTwo
<1>2. Layout!BlockSize(config) = BlockSize(config)
  BY DEF Layout!BlockSize, BlockSize, Layout!Lesser, Lesser
<1>3. Layout!aufs_super_block_read
  BY <1>1, <1>2 DEF aufs_fill_sb, aufs_super_block_read, Layout!aufs_super_block_read,
       aufs_super_block_fill, Layout!aufs_super_block_fill
<1>4. phase = "formatted" /\ phase' = "mounted" /\ sbsize' = Layout!sb_blocksize(asb')
  BY DEF aufs_fill_sb, sb_blocksize, Layout!sb_blocksize
<1> QED
  BY <1>3, <1>4 DEF aufs_fill_sb, Layout!aufs_fill_sb, deviceVars, Layout!deviceVars

\* mkfs.aufs implements AufsLayout, whatever the device held before, whenever the
\* cache writes and whichever write fails: the super block, the maps, the inode and
\* the entries of the root directory reach the device as Format says, or mkfs has
\* not finished as far as anybody relies on.
THEOREM FormatterImplementsLayout ==
  ASSUME ByteSizes
  PROVE  FormatSpec => LayoutSpec
<1>1. FormatInit => Layout!Init
  BY DEF FormatInit, Init, Layout!Init, Nothing, Layout!Nothing
<1>2. FormatInv /\ [FormatNext]_formatVars => [Layout!Next]_(Layout!vars)
  <2> SUFFICES ASSUME FormatInv, [FormatNext]_formatVars PROVE [Layout!Next]_(Layout!vars)
    OBVIOUS
  <2>1. CASE UNCHANGED vars \/ (/\ phase = "verified" /\ phase' = "unwritten"
                                /\ UNCHANGED <<config, deviceVars, kernelVars>>)
    BY <2>1 DEF vars, deviceVars, kernelVars, Layout!vars, Layout!deviceVars, Layout!kernelVars
  <2>2. CASE \E d \in DeviceSizes, zones \in ZoneCounts, zoneSize \in ZoneSizes :
               ParseArgs(d, zones, zoneSize)
    BY <2>2, ParseMaps DEF Layout!Next
  <2>3. CASE VerifyConfiguration \/ Format \/ aufs_fill_sb
    BY <2>3, VerifyMaps, FormatMaps, MountMaps DEF Layout!Next
  <2> QED
    BY <2>1, <2>2, <2>3, VisibleSteps
<1>3. FormatSpec => []FormatInv
  BY FormatInvHolds
<1> QED
  BY <1>1, <1>2, <1>3, PTL DEF FormatSpec, LayoutSpec, Layout!Spec
=============================================================================
