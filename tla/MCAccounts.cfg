SPECIFICATION Spec
CONSTANTS
  w1 = w1
  w2 = w2
  p1 = p1
  p2 = p2
  s1 = s1
  s2 = s2
  d1 = d1
  d2 = d2
  None = None
  Workers = {w1, w2}
  Phones = {p1, p2}
  Passwords = {s1, s2}
  Places = {d1, d2}
  MaxAddresses = 2
  MaxUser = 2
  MaxAddress = 3
SYMMETRY Alike
INVARIANTS
  TypeOK
  AddressLimit
PROPERTY ResetReachesPhone
