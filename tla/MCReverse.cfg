SPECIFICATION Spec
CONSTANTS
  File = {f1, f2}
  Value = {a}
  NUL = NUL
  Junk = Junk
  PAGE_SIZE = 4
  Heap = 2
  ReadBuffer <- MCReadBuffer
  WriteBuffer <- MCWriteBuffer
  MaxWrites = 2
INVARIANTS TypeOK OnlyLongWritesLeave NoWrongByte AloneReversed OneStaleByte OopsOnlyWhenOut
