SPECIFICATION Spec
CONSTANTS
  pa = pa  pb = pb  a1 = a1
  None = None  Stdin = Stdin  Zero = Zero
  Block = {Zero}
  Paths = {pa}
  Handles = {h1, h2}
  Inodes = {i1, i2}
  Fds = {0, 1, 2}
  MaxLen = 1
  Workers = 2
  Sharing = "shared"
  Faults = {"localOpen", "localWrite", "limits", "errno0", "race", "crash"}
  BlocksOf <- MCZeroBlocks
  RemoteInit <- MCMaybeRemote
SYMMETRY HandleSymmetry
PROPERTIES PresenceKept
