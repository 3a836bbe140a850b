SPECIFICATION Spec
CONSTANTS
  IntMax = 65544
  Buffer = 7
  Alloc = 2
  Request <- MCRequest
  Length <- MCLength
  PacketLength <- MCPacketLength
INVARIANTS TypeOK SetupIsPortable DescriptorFits LookupsAgree PacketsInBuffer
PROPERTIES LengthMatchesSetup AllPacketsSet
