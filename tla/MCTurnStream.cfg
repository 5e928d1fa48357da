SPECIFICATION StreamFairSpec
CONSTANTS
  Channel = {chA}
  Heartbeat = heartbeat
  Main = main
  Nobody = nobody
  Caller <- MCCaller
  Untimed <- MCUntimed
  TurnNames = {"own", "other"}
  MaxFaults = 1
  MaxTurns = 2
  MaxSaid = 1
  MaxExtra = 1
INVARIANTS StreamTypeOK AskIsUnderway ExecutedAgainAfterFault LagBounded
PROPERTIES ResultsAreOwn TurnsEnd CloseReturns
