SPECIFICATION Spec
CONSTANTS
  NumPlayers = 3
  Request = {r1, r2}
  CommandId = {c1, c2}
  Command <- Commands
  ValidCaps = {2}
  OtherCaps = {1}
  None = None
SYMMETRY Symmetry
INVARIANT TypeOK
INVARIANT OneInside
INVARIANT CommandsCountOnce
INVARIANT LeavingIsFinal
PROPERTY ActsOnWhatItSaw
PROPERTY OnlyOvertakenPatches
PROPERTY ImplementsRoom
CHECK_DEADLOCK FALSE
