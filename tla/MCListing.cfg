SPECIFICATION Spec
CONSTANTS
  Names = {"a", "b"}
  Inodes = {1, 2}
  Contents = {"", "x"}
  Threads = {t1, t2}
  Handles = {h1}
  Dirs = {d1}
  Fds = {1, 2}
  LogErrors = {}
  Habits <- MCListers
SYMMETRY Symmetry
CHECK_DEADLOCK FALSE
INVARIANT DescriptorsOwned
PROPERTIES ListingComplete ImplementsPassThrough
