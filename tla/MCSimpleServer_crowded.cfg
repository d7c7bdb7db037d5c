SPECIFICATION Spec
CONSTANTS
  MaxPlayers = 2
  MaxFd = 3
  Listener = 1
  Conns = {c1, c2, c3, c4}
  Packets <- MCLoginPackets
  MaxInFlight = 1
  MaxLive = 3
  Polite = FALSE
  OptFails = TRUE
  NoConn = NoConn
  NoPlayer = NoPlayer
SYMMETRY ConnSymmetry
INVARIANTS
  OneSlotPerFd
  SnapshotFresh
