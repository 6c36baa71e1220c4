SPECIFICATION Spec
CONSTANTS
  pa = pa  pb = pb  a1 = a1
  None = None  Stdin = Stdin  Zero = Zero
  Block = {a1, Zero}
  Paths = {pa, pb}
  Handles = {h1, h2}
  Inodes = {i1, i2}
  Fds = {0, 1, 2, 3, 4}
  MaxLen = 2
  Workers = 2
  Sharing = "patient"
  Faults = {}
  BlocksOf <- MCBlocksOf
  RemoteInit <- MCRemoteInit
PROPERTIES ImplementsCloseToOpen
