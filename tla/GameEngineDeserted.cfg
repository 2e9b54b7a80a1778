SPECIFICATION Spec
CONSTANTS
  NumPlayers = 2
  Admins = {admin}
  Meme = {m1, m2, m3}
  NoMeme = NoMeme
  HandSize = 1
  MinPlayers = 2
  InfiniteGame = TRUE
  TimedPhases = {"PREPARATION", "ROUND_SELECTION", "ROUND_VOTING"}
  ScoreConfig <- DefaultScoreConfig
  MaxCycles = 2
  MaxEdits = 0
SYMMETRY Symmetry
INVARIANT PhaseCanEnd
CHECK_DEADLOCK FALSE
