CONSTANTS
  a = a
  b = b
  c = c
  Keys = {a, b, c}
  Values = {1, 2}
  Hash <- HashOf
  InitialCapacity = 2
SPECIFICATION Spec
INVARIANTS TableWellFormed FindsAreRight
PROPERTIES ImplementsOrderedMap CallsReturn
