CONSTANTS
  p1 = p1
  p2 = p2
  Machines = {p1}
  Config <- OnePress
  Days = {d1}
  MaxRows = 2
  Tick = tick
  Manual = {m1}
  Cli = {}
  LineCuts = TRUE
  Undated = {weekly}
  Down = {}
  Absent = Absent
  Broken = Broken
  NoFile = NoFile
  Free = Free
SPECIFICATION Spec
INVARIANT TypeInv
INVARIANT ArchiveCoversDatabase
INVARIANT CleanRunImportedAll
PROPERTY LedgerSpec
