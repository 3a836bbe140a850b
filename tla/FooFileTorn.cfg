SPECIFICATION Spec
CONSTANTS
  Writer = {w1, w2}
  Reader = {r}
  Value = {a, b}
  NUL = NUL
  PAGE_SIZE = 2
  MaxCount = 2
SYMMETRY Symmetry
PROPERTIES ReadReturnsStoredData
