SPECIFICATION Spec
CONSTANTS
  ChunkWidth = 4
  view_distance = 1
  WORLD_GEN_LIMIT = 3
  Spawn = 5
  Reach <- Positive
  Steps <- Diagonal
INVARIANTS
  TypeOK
  WindowSent
  CenterFollows
PROPERTIES
  SentAroundCenter
