SPECIFICATION Spec
CONSTANTS
  Names = {"a", "b"}
  Inodes = {1, 2}
  Contents = {"", "x"}
  Threads = {t1, t2}
  Handles = {h1, h2}
  Dirs = {d1}
  Fds = {1, 2}
  LogErrors = {"ENOSPC"}
  Habits <- MCHabits
SYMMETRY Symmetry
CHECK_DEADLOCK FALSE
INVARIANTS TypeOK DescriptorsOwned
PROPERTY ImplementsPassThrough
