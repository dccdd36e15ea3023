CONSTANTS
  p1 = p1
  Machines = {p1}
  Config <- OnePress
  Days = {d1}
  MaxRows = 1
  Tick = tick
  Manual = {}
  Cli = {}
  LineCuts = FALSE
  Undated = {}
  Down = {}
  Absent = Absent
  Broken = Broken
  NoFile = NoFile
  Free = Free
SPECIFICATION RecoverySpec
INVARIANT RecoveryTypeOK
INVARIANT ArchiveCoversDatabase
INVARIANT ReimportRestores
