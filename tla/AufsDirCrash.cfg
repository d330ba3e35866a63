SPECIFICATION Spec
CONSTANTS
  Threads = {t1, t2}
  Readers = {}
  Names = {a, b}
  Parents = {1}
  Kinds = {"reg", "tmp"}
  NInodes = 4
  PerPage = 3
  MaxPages = 2
  MaxCrashes = 1
INVARIANTS
  AddLinkNoBug
  OneNameOneInode
SYMMETRY Symmetry
CONSTRAINT NotLost
PROPERTIES
  DirectorySpec
