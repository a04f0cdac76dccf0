SPECIFICATION Spec
CONSTANTS
  i1 = i1
  Call = {c1, c2}
  Id = {i1}
  Asked <- MCAsked
  Configured = {"sonarr"}
  ListTTL = 1
  EpisodeTTL = 2
  MaxTime = 4
  None = None
CHECK_DEADLOCK FALSE
SYMMETRY Symmetry
INVARIANT TypeOK
INVARIANT FreshWithinTTL
