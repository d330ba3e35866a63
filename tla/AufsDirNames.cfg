SPECIFICATION Spec
CONSTANTS
  Threads = {t1}
  Readers = {r}
  Names = {a, b}
  Parents = {1}
  Kinds = {"reg", "dir", "other", "tmp"}
  NInodes = 3
  PerPage = 3
  MaxPages = 1
  MaxCrashes = 0
CHECK_DEADLOCK FALSE
SYMMETRY Symmetry
INVARIANTS
  TypeOK
  NoDanglingName
  
  
