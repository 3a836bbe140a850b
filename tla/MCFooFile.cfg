SPECIFICATION Spec
CONSTANTS
  Writer = {w1, w2}
  Reader = {r}
  Value = {a, b}
  NUL = NUL
  PAGE_SIZE = 2
  MaxCount = 3
SYMMETRY Symmetry
INVARIANTS TypeOK SettledOnPage SessionReadsOneWrite
PROPERTIES ImplementsSafePage
