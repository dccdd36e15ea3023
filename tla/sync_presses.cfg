CONSTANTS
  p1 = p1
  p2 = p2
  Machines = {p1, p2}
  Config <- TwoPresses
  Days = {d1}
  MaxRows = 0
  Tick = tick
  Manual = {}
  Cli = {}
  LineCuts = FALSE
  Undated = {}
  Down = {p1}
  Absent = Absent
  Broken = Broken
  NoFile = NoFile
  Free = Free
SPECIFICATION FairSpec
PROPERTY EventuallyFinal
PROPERTY EventuallyClean
