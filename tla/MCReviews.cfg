SPECIFICATION Spec
CONSTANTS
  w1 = w1
  w2 = w2
  d1 = d1
  d2 = d2
  d3 = d3
  d4 = d4
  Workers = {w1, w2}
  Details = {d1, d2, d3, d4}
  Technicians = {t1}
  Stars = {1, 5}
SYMMETRY Alike
INVARIANTS
  RatingInRange
  CountNeverExceeds
  ExactWithoutOverlap
CHECK_DEADLOCK FALSE
