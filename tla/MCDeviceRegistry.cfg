SPECIFICATION Spec
CONSTANTS
  w1 = w1
  w2 = w2
  u1 = u1
  u2 = u2
  t1 = t1
  t2 = t2
  t3 = t3
  t4 = t4
  None = None
  Workers = {w1, w2}
  Users = {u1, u2}
  Tokens = {t1, t2, t3, t4}
  Orders = {o1}
  MaxDevices = 2
SYMMETRY Alike
INVARIANTS
  TypeOK
  DevicesBounded
PROPERTY RemovesOwnOldest
