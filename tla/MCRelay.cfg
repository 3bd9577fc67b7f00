CONSTANTS
  Conns = {k1, k2}
  NoConn = NoConn
  Posts = {r1, r2}
  MaxSwitches = 1
  Beats = {b1, b2}
  Convs = {c1, c2}
  NoConv = NoConv
  MaxTurns = 2
  MaxMirrors = 2
  MaxHandoffs = 2
SPECIFICATION RelaySpec
INVARIANTS SingleChannel ShownOnce
PROPERTIES ChannelReturns AnnouncedWhileRunning EveryTurnIsRead
CHECK_DEADLOCK FALSE
