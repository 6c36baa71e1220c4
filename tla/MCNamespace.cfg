SPECIFICATION Spec
CONSTANTS
  Names = {"a", "b"}
  Subnames = {"a"}
  Hidden = {"h"}
  Handles = {h1, h2}
  Inodes = {1, 2, 3}
  Habits <- MCHabits
SYMMETRY HandleSymmetry
CHECK_DEADLOCK FALSE
INVARIANTS TypeOK OwnCopy NothingLeftBehind ListedIsFound SessionKept StartupFrees
PROPERTIES NamesKept ViewStable KindsKept
