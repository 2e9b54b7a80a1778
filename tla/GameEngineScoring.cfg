SPECIFICATION Spec
CONSTANTS
  NumPlayers = 3
  Admins = {admin}
  Meme = {m1, m2, m3, m4, m5}
  NoMeme = NoMeme
  HandSize = 1
  MinPlayers = 2
  InfiniteGame = FALSE
  TimedPhases = {"PREPARATION", "ROUND_SELECTION", "ROUND_VOTING"}
  ScoreConfig <- DefaultScoreConfig
  MaxCycles = 1
  MaxEdits = 0
SYMMETRY Symmetry
PROPERTY ScoresAsDocumented
CHECK_DEADLOCK FALSE
