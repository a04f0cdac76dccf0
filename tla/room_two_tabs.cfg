SPECIFICATION Spec
CONSTANTS
  ann = ann  bob = bob  cyd = cyd
  ann1 = ann1  ann2 = ann2  bob1 = bob1  bob2 = bob2  cyd1 = cyd1
  User = {ann, bob, cyd}
  Conn = {ann1, ann2, bob1}
  UserOf <- MCUserOf
  Owner = ann
  None = None
  OneTab = FALSE
CHECK_DEADLOCK FALSE
PROPERTY HostKeepsRoom
