SPECIFICATION Spec
CONSTANTS
  Writer = {"w1", "w2"}
  Payload = {"short", "long"}
  Size <- MCSize
  Hole = "hole"
  Inode = {i1, i2, i3, i4}
  NoInode = NoInode
  Target = "target"
  TmpOf <- MCOwnTmp
  MaxCalls = 2
SYMMETRY InodeSymmetry
INVARIANTS
  FileSurvives
PROPERTIES
  Implements
CHECK_DEADLOCK FALSE
