SPECIFICATION ContainerSpec
CONSTANTS
  SegmentBits = 2
  WordBits = 6
  number_of_entries = 7
  LongBits = 7
  min_bpe_indirect = 1
  max_bpe_indirect = 2
  bits_per_entry_direct = 3
  Sections <- MCSections
  BufferSize = 19
INVARIANTS
  ContainerTypeOK
  ExactIffWide
  ReadToTheEnd
