SPECIFICATION Spec
CONSTANTS
  Channel = {chA, chB}
  Heartbeat = heartbeat
  Main = main
  Nobody = nobody
  Caller <- MCCaller
  Untimed <- MCUntimed
  MaxFaults = 2
  MaxTurns = 3
  TurnNames = {"own"}
INVARIANTS TypeOK NoOrphan NothingAfterClose StoredPairMatches
  TakenUpAtMostTwice ThreadsNotShared
