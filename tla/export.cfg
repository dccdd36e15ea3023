CONSTANTS
  LastClock = 4
  NoTime = NoTime
  OddDates <- MCOddDates
  OddClocks <- MCOddClocks
  Machines = {1, 2}
  Days = {1, 2}
  Runs <- MCRuns
  Live <- MCLive
  Closed <- MCClosed
  Cuts <- MCCuts
  Lookback = 1
  PageLimit = 3
  MaxLimit = 2
  LastDay = 3
  MaxRedos = 1
  MaxFailures = 1
SPECIFICATION FairSpec
INVARIANTS TypeOK FetchComplete NoRowTwice NoTornRow TargetTrue
PROPERTY BacklogClears
