SPECIFICATION SystemFairSpec
CONSTANTS
  m1 = m1
  m2 = m2
  m3 = m3
  chA = chA
  chB = chB
  Msg = {m1, m2}
  Channel = {chA, chB}
  ChannelOf <- MCChannelOf
  QueueSize = 1
  NoMsg = NoMsg
  Allowed = {m1, m2}
  Heartbeat = heartbeat
  Main = main
  Nobody = nobody
  Caller <- MCCaller
  Untimed <- MCUntimed
  MaxFaults = 1
  MaxBeats = 1
  MaxTurns <- MCMaxTurns
  TurnNames = {"own"}
PROPERTIES QueuedGetsItsTurn ShutdownCompletes
