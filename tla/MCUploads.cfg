SPECIFICATION Spec
CONSTANTS
  r1 = r1
  r2 = r2
  small = small
  big = big
  Requests = {r1, r2}
  Files = {small, big}
  Images = {small, big}
  Size <- MCSize
INVARIANTS
  CreatedIsPublic
  NothingForgotten
CHECK_DEADLOCK FALSE
