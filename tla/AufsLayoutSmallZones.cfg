SPECIFICATION Spec
CONSTANTS
  DeviceSizes <- MCDevices
  ZoneSizes = {8, 16, 32}
  ZoneCounts = {0, 9}
  MaxBlockSize = 64
  MinZoneSize = 8
  InodeSize = 1
  DirSize = 1
  Alignment = 4
  SectorSize = 8
  Word = 1048576
CHECK_DEADLOCK FALSE
INVARIANTS
  InodesInTable
