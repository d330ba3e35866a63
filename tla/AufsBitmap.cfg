SPECIFICATION FairSpec
CONSTANTS
  NoThread = NoThread
  Threads = {t1, t2}
  ZoneMapBlocks = 2
  InodeMapBlocks = 2
  BitsPerBlock = 2
  InodeBlocks = 1
  BlocksPerZone = 2
  Alignment = 3
  ZoneBits0 <- MCZoneBits0
  InodeBits0 <- MCInodeBits0
INVARIANTS
  TypeOK
  ZonesAccounted
  InodesAccounted
  AlreadySetShouldntHappen
  NoOrphanInode
  WritebackCannotMiss
PROPERTIES
  ZoneSpec
  InodeSpec
  CallsReturn
  GrantReachesDisk
