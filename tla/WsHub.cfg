SPECIFICATION FairSpec
CONSTANTS
  Capacity = 2
  ProbeAfter = 2
  MaxConns = 2
  MaxFetches = 2
  MaxVersion = 1
  MaxTrouble = 1
INVARIANT NoSendOnClosed
INVARIANT ClientsCatchUp
INVARIANT StaleClicksAreRefused
PROPERTY KickedClientGivesUp
CHECK_DEADLOCK FALSE
