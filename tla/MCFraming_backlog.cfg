SPECIFICATION FairSpec
CONSTANTS
  SegmentBits = 2
  WordBits = 6
  Payloads <- MCPayloads
  MaxSent = 4
  MaxRead = 6
  Pipelined = TRUE
  ReadsPast = TRUE
INVARIANTS
  InOrder
