SPECIFICATION Spec
CONSTANTS
  Blocks = {1, 2, 3, 4}
  BlockUnits = 1
  FileNames = {a, b}
  DirectoryName = d
  Handles = {h1, h2, h3}
  Values = {v1}
  MaxLength = 3
SYMMETRY FileSymmetry
INVARIANTS BlocksOwned ReadsBack PlaceKept
CHECK_DEADLOCK FALSE
VIEW FileView
