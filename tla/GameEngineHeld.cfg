SPECIFICATION Spec
CONSTANTS
  NumPlayers = 2
  Admins = {admin}
  Meme = {m1, m2, m3}
  NoMeme = NoMeme
  HandSize = 1
  MinPlayers = 2
  InfiniteGame = FALSE
  TimedPhases = {"PREPARATION", "ROUND_SELECTION", "ROUND_VOTING"}
  ScoreConfig <- DefaultScoreConfig
  MaxCycles = 1
  MaxEdits = 0
SYMMETRY Symmetry
INVARIANT LeaveIsAccepted
CHECK_DEADLOCK FALSE
