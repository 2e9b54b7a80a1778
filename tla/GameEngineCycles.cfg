SPECIFICATION Spec
CONSTANTS
  NumPlayers = 3
  Admins = {admin}
  Meme = {m1, m2, m3, m4, m5}
  NoMeme = NoMeme
  HandSize = 1
  MinPlayers = 2
  InfiniteGame = TRUE
  TimedPhases = {}
  ScoreConfig <- SparseScoreConfig
  MaxCycles = 2
  MaxEdits = 0
SYMMETRY Symmetry
INVARIANT BallotIsFair
INVARIANT NoIdleWait
INVARIANT CyclesAreComplete
INVARIANT ChainsNeverFail
PROPERTY ScoresSettleOnce
PROPERTY OnlyResultsForgetLeavers
PROPERTY StoredExactly
CHECK_DEADLOCK FALSE
