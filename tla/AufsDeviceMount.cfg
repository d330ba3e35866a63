SPECIFICATION DeviceSpec
CONSTANTS
  DeviceSizes <- MCDevices
  ZoneSizes = {16}
  ZoneCounts = {0, 2}
  MaxBlockSize = 16
  MinZoneSize = 2
  InodeSize = 1
  DirSize = 1
  Alignment = 4
  SectorSize = 2
  Word = 1048576
  Bits = 8
  Words = 1048576
  ThresholdSize = 32
  MaxMounts = 2
  MaxInodes = 2
CHECK_DEADLOCK FALSE
INVARIANTS
  MountFailureReported
