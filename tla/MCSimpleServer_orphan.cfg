SPECIFICATION Spec
CONSTANTS
  MaxPlayers = 2
  MaxFd = 3
  Listener = 1
  Conns = {c1, c2, c3}
  Packets <- MCLoginPackets
  MaxInFlight = 2
  MaxLive = 2
  Polite = FALSE
  OptFails = FALSE
  NoConn = NoConn
  NoPlayer = NoPlayer
SYMMETRY ConnSymmetry
INVARIANTS
  NoOrphan
