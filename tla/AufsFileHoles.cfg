SPECIFICATION Spec
CONSTANTS
  Threads = {t1, t2}
  Inodes = {f}
  ZonePtrNum = 1
  BlocksPerZone = 2
  NZones = 2
  MaxPage = 1
  Versions = {1, 2}
  AllowHoles = TRUE
  AllowCrash = FALSE
INVARIANTS
  ReadBack
