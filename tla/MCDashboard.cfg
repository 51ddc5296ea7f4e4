SPECIFICATION DashSpec
CONSTANTS
  Sockets = {s1, s2}
  Timers = {t1, t2}
  None = none
  OfflineAfter = 2
  MaxRetries = 1
  a = a
  b = b
  Runs = {a, b}
  NoRun = none
  StepsOf <- MCStepsOf
  BlamedIn <- MCBlamedIn
  TreatedOf <- MCTreatedOf
  BandChunks = 2
  PageStep = 2
  Texts = {x}
  Blank = none
  Choices = {c}
  NoChoice = none
  PagesOf <- MCPagesOf
  Matching <- MCMatching
  AutoPages = 2
  Journeys = {{"live", "run"}, {"run"}, {"list"}}
  Still = {{"run"}}
  Shaky = {{"run"}}
INVARIANTS
  RowsAreTheFilters
  ExactlyOneListens
  LiveIsEarned
  SettlesAsReduced
  NeverGuessed
PROPERTIES
  FillsUp
  Recovers
  TapeMovesForward
  RewindSettles
