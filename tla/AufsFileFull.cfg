SPECIFICATION Spec
CONSTANTS
  Threads = {t1, t2}
  Inodes = {f, g}
  ZonePtrNum = 1
  BlocksPerZone = 1
  NZones = 1
  MaxPage = 0
  Versions = {1}
  AllowHoles = FALSE
  AllowCrash = FALSE
INVARIANTS
  PagesMapped
