SPECIFICATION FairSpec
CONSTANTS
  Room = {r1, r2}
  None = None
  MaxCrashes = 1
  MaxTrouble = 1
PROPERTY TimeoutsAreDue
PROPERTY OverdueEnds
PROPERTY ServerComesUp
CHECK_DEADLOCK FALSE
