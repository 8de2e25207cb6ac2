SPECIFICATION Spec
CONSTANTS
  w1 = w1
  w2 = w2
  i1 = i1
  i2 = i2
  None = None
  Unused = Unused
  Deleted = Deleted
  Workers = {w1, w2}
  Images = {i1, i2}
  Names = {n1}
  MaxId = 2
SYMMETRY Alike
INVARIANTS
  TypeOK
  DeadlocksOverImages
PROPERTY RemovalIsWhole
