CONSTANTS
  p1 = p1
  p2 = p2
  Machines = {p1}
  Config <- OnePress
  Days = {d1}
  MaxRows = 1
  Tick = tick
  Manual = {}
  Cli = {c1}
  LineCuts = FALSE
  Undated = {}
  Down = {}
  Absent = Absent
  Broken = Broken
  NoFile = NoFile
  Free = Free
SPECIFICATION Spec
PROPERTY FinalStaysFinal
