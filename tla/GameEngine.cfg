SPECIFICATION Spec
CONSTANTS
  NumPlayers = 3
  Admins = {admin}
  Meme = {m1, m2, m3, m4, m5}
  NoMeme = NoMeme
  HandSize = 1
  MinPlayers = 2
  InfiniteGame = FALSE
  TimedPhases = {"PREPARATION", "ROUND_SELECTION", "ROUND_VOTING"}
  ScoreConfig <- CustomScoreConfig
  MaxCycles = 1
  MaxEdits = 1
SYMMETRY Symmetry
INVARIANT TypeOK
INVARIANT TurnsArePrepared
INVARIANT HostIsOldest
INVARIANT SkippedForOneRound
INVARIANT PhaseCanEnd
INVARIANT ChainsNeverFail
INVARIANT SnapshotsAreBlind
INVARIANT OriginalUnseen
PROPERTY BallotFrozen
PROPERTY ImplementsFlow
PROPERTY OutcomeIsPaid
PROPERTY ImplementsRoom
CHECK_DEADLOCK FALSE
