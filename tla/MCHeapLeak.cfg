CONSTANTS
  RtLevels = 2
  Count <- MCCount
  BlockSize <- MCBlockSize
  SysSize = 4
  BufSize = 9
  Bytes = {1, 2, 3, 4, 9}
  Clients = {c1, c2, c3, c4}
  NULL = NULL
SYMMETRY ClientSymmetry
SPECIFICATION Spec
INVARIANTS NoLeak
CHECK_DEADLOCK FALSE
