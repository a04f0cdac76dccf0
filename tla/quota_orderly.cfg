SPECIFICATION QSpec
CONSTANTS
  w1 = w1  w2 = w2  u1 = u1  m1 = m1  m2 = m2
  Worker = {w1, w2}
  NumTasks = 2
  Path = {p1}
  Slot = {s1, s2}
  MaxAttempts = 1
  Title <- MCTitle
  None = None
  Orderly = TRUE
  Creator = {c1, c2}
  Size <- MCSize
  FileSize = {3}
  Limit = 5
CHECK_DEADLOCK FALSE
SYMMETRY Symmetry
INVARIANT QTypeOK
INVARIANT ReservedAtMostSize
INVARIANT LibraryFollowsTasks
PROPERTY FootprintShrinks
