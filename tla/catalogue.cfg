SPECIFICATION Spec
CONSTANTS
  k1 = k1  t1 = t1
  Item = {k1, k2}
  TmdbId = {t1, t2}
  Known <- MCKnown
  Hash = {h1, h2}
  Slot = {s1, s2}
  Window = 1
  External = TRUE
  MaxTime = 2
  None = None
CHECK_DEADLOCK FALSE
SYMMETRY Symmetry
INVARIANT TypeOK
INVARIANT KnownKept
INVARIANT FreshWithinWindow
PROPERTY ResolvedStays
