SPECIFICATION Spec
CONSTANTS
  plus = plus
  Email = {ann, bob}
  Key = {k1, k2}
  Slot = {s1, s2}
  Plan = {free, plus}
  Free = free
  PlanQuota <- MCPlanQuota
  Body <- MCBody
  None = None
CHECK_DEADLOCK FALSE
SYMMETRY Symmetry
INVARIANT TypeOK
INVARIANT KeysTellUsers
INVARIANT PlanQuotaAgree
PROPERTY AdminFromOthers
