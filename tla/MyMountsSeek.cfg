SPECIFICATION Spec
CONSTANTS
  Mount = {1, 2, 3, 4}
  Root = 1
  Covering = {2}
  LineLen <- MCLineLen
  BufSize = 2
  MaxRead = 2
INVARIANTS SeekListing
