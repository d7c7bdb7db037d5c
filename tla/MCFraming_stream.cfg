SPECIFICATION FairSpec
CONSTANTS
  SegmentBits = 2
  WordBits = 6
  Payloads <- MCPayloads
  MaxSent = 4
  MaxRead = 6
  Pipelined = TRUE
  ReadsPast = FALSE
INVARIANTS
  TypeOK
  BacklogIsHead
  OnlyTornGivenUp
PROPERTIES
  StreamSpec
