CONSTANTS
  Writers = {w1}
  Sizes = {2, 3, 5}
  Inodes = {i1, i2, i3}
  None = None
SPECIFICATION Spec
INVARIANT TypeOK
PROPERTY AtomicReplace
