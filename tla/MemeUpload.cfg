SPECIFICATION Spec
CONSTANTS
  Name = {a, b}
  Image = {x, y}
  Request = {r1, r2, r3}
  MaxUploads = 3
  MaxTrouble = 1
  None = None
SYMMETRY Symmetry
INVARIANT MemesHaveFiles
INVARIANT OrphansHaveCauses
INVARIANT NamesAreUnique
CHECK_DEADLOCK FALSE
