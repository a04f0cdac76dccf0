SPECIFICATION Spec
CONSTANTS
  w1 = w1  w2 = w2  u1 = u1  m1 = m1
  Worker = {w1, w2}
  NumTasks = 1
  Path = {p1}
  Slot = {s1, s2}
  MaxAttempts = 2
  Title <- MCTitle
  None = None
  Orderly = FALSE
CHECK_DEADLOCK FALSE
SYMMETRY Symmetry
INVARIANT TypeOK
INVARIANT OwnershipConsistent
INVARIANT ClaimAtomic
INVARIANT FailedExhausted
INVARIANT AttemptsNearlyBounded
PROPERTY NoStealing
PROPERTY OwnershipRefined
