CONSTANTS
  p1 = p1
  p2 = p2
  Machines = {p1}
  Config <- OnePress
  Days = {d1}
  MaxRows = 2
  Tick = tick
  Manual = {m1}
  Cli = {}
  LineCuts = FALSE
  Undated = {}
  Down = {}
  Absent = Absent
  Broken = Broken
  NoFile = NoFile
  Free = Free
SPECIFICATION FairSpec
PROPERTY EventuallyRecorded
PROPERTY EventuallyFinal
PROPERTY EventuallyClean
INVARIANT RebuildKeepsFinality
PROPERTY ArchiveNeverShrinks
