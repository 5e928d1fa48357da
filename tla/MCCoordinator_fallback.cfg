SPECIFICATION Spec
CONSTANTS
  Channel = {chA, chB}
  Heartbeat = heartbeat
  Main = main
  Nobody = nobody
  Caller <- MCCaller
  Untimed <- MCUntimed
  MaxFaults = 1
  MaxTurns = 2
  TurnNames = {"own"}
INVARIANT FallbackThreadAlive
