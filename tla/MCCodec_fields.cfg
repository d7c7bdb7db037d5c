SPECIFICATION Spec
CONSTANTS
  SegmentBits = 2
  WordBits = 7
  LongBits = 9
  XZBits = 10
  Packets <- MCPackets
  Tails <- MCTails
INVARIANTS TypeOK SentIsPrefix ReadsBack RefusesLastByte CutNoticed
