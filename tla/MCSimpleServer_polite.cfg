SPECIFICATION FairSpec
CONSTANTS
  MaxPlayers = 2
  MaxFd = 3
  Listener = 1
  Conns = {c1, c2, c3}
  Packets <- MCPackets
  MaxInFlight = 2
  MaxLive = 2
  Polite = TRUE
  OptFails = FALSE
  NoConn = NoConn
  NoPlayer = NoPlayer
INVARIANTS
  TypeOK
  NoOrphan
  HandlerOwnsPlayer
  StateEarned
  NoneForgotten
  ExitsForACause
PROPERTIES
  JustDrop
  QueuedServed
  HangUpReleased
  SlotStable
