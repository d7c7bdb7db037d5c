SPECIFICATION FairSpec
CONSTANTS
  Sizes = {1, 3, 5}
  MaxPackets = 3
  SndBuf = 4
INVARIANTS
  TypeOK
  PrefixesInOrder
  ReportedIffCut
  OnlyBehindCut
PROPERTIES
  NeverWaits
