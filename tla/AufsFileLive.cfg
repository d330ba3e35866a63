SPECIFICATION FairSpec
CONSTANTS
  Threads = {t1, t2}
  Inodes = {f}
  ZonePtrNum = 1
  BlocksPerZone = 2
  NZones = 1
  MaxPage = 1
  Versions = {1}
  AllowHoles = FALSE
  AllowCrash = FALSE
PROPERTIES
  WriteReachesDevice
