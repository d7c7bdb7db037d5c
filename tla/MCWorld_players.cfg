SPECIFICATION Spec
CONSTANTS
  MAX_PLAYERS = 3
  Packets <- MCPackets
  Parts = 2
  ShortMax = 1
  IntMax = 3
  SpawnAt <- MCSpawnAt
  Positions <- MCPositions
  MaxMoves = 2
  MaxMovers = 1
  Unknown = Unknown
INVARIANTS
  TypeOK
  SeenWhereTheyAre
  ListedByName
  PlayersSeeEachOther
  OnlyTabListEarly
