SPECIFICATION Spec
CONSTANTS
  p1 = p1
  p2 = p2
  w1 = w1
  w2 = w2
  i1 = i1
  i2 = i2
  i3 = i3
  Paths = {p1, p2}
  Workers = {w1, w2}
  Inodes = {i1, i2, i3}
  Entries = 2
  Sizes = {1}
  MaxGeneration = 2
SYMMETRY Symmetry
INVARIANTS TypeOK SolvesTheSnapshot
