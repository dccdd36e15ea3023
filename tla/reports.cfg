CONSTANTS
  LastClock = 7
  NoTime = NoTime
  OddDates <- MCOddDates
  OddClocks <- MCOddClocks
  Blank = Blank
  Garbled = Garbled
  Machines <- MCMachines
  Days = {2, 3}
  Slots = {1, 2}
  Logs <- MCLogs
  Layouts <- MCLayouts
  Captured <- MCCaptured
  MonthLength = 2
  Filters <- MCFilters
  Configured = {"p1", "p2"}
SPECIFICATION Spec
INVARIANTS
  TablesTypeOK MediaOfARun ImportedAsLogged
  FilterOnlyDemotes OneRowPerRun PaperAgreesWithRuns LastRunDecides
  ClicksPartition KeylessLinks MonthLinksAgree ListAgreesWithDetail
 
