SPECIFICATION Spec
CONSTANTS
  Dirs <- MCDirs
  Root = 1
  Up <- MCUp
  Names <- MCNames
  DirOf <- MCDirOf
  NameOf <- MCNameOf
  FileOf <- MCFileOf
  Size <- MCSize
  Shapes <- MCShapes
  Sealable = {5, 8}
  Closed = {8}
  Tops = {0, 1, 2}
  SortedInsertCap = 1
  DepthLimits = {1, 3}
  UnreadKept = 1
  MinSize = 0
  MayStop = TRUE
  Movable = {3,4,6,7,9,10,11}
  Late = {3}
  MaxChanges = 1
INVARIANTS Agrees CountsOnce
