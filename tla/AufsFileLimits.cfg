SPECIFICATION Spec
CONSTANTS
  Threads = {t1, t2}
  Inodes = {f}
  ZonePtrNum = 2
  BlocksPerZone = 1
  NZones = 1
  MaxPage = 2
  Versions = {1}
  AllowHoles = TRUE
  AllowCrash = TRUE
INVARIANTS
  TypeOK
  
  
VIEW ZonesView
SYMMETRY Symmetry
CONSTRAINT NotLost
