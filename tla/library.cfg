SPECIFICATION LSpec
CONSTANTS
  ann = ann  bob = bob  m1 = m1  p1 = p1  n1 = n1
  Worker = {f1, w1}
  Script = {f1}
  File = p1
  Beats = 1
  NumTasks = 2
  Path = {p1}
  Slot = {s1, s2}
  MaxAttempts = 1
  Title <- MCTitle
  Name <- MCName
  Elsewhere = {other}
  Watched <- MCWatched
  Report <- MCReport
  None = None
  Orderly = FALSE
CHECK_DEADLOCK FALSE
SYMMETRY Symmetry
INVARIANT LTypeOK
INVARIANT PlayableFiles
INVARIANT HistoryHonest
PROPERTY SettledKeys
