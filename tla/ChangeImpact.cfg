SPECIFICATION Spec
CONSTANTS
  Absent = Absent
  a = a
  b = b
  h = h
  g = g
  x = x
  k = k
  plain = plain
  deep = deep
  wide = wide
  O1 = O1
  O2 = O2
  Paths = {a, b, h, g, x, k}
  Extension <- MCExtension
  Texts = {plain, deep, wide}
  Arguments = {O1, O2}
  Includes <- MCIncludes
  Configuration = {k}
  Checkouts <- MCCheckouts
  MaxEdits = 3
INVARIANTS
  SafeImpactIsComplete
