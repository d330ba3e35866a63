SPECIFICATION Spec
CONSTANTS
  Threads = {t1, t2}
  Inodes = {f}
  ZonePtrNum = 2
  BlocksPerZone = 2
  NZones = 2
  MaxPage = 2
  Versions = {1, 2}
  AllowHoles = FALSE
  AllowCrash = FALSE
SYMMETRY Symmetry
CONSTRAINT OnePageVaries
INVARIANTS
  PagesMapped
  ReadBack
  NoZoneLeaks
PROPERTIES
  PtrStable
