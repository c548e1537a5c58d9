SPECIFICATION FairSpec
CONSTANTS
  s1 = s1
  s2 = s2
  u = u
  None = None
  Ing = {a, b}
  Service = {s1, s2}
  Index = {1, 2}
  Proto = {"http"}
  Shape <- OneProto
  RuleName = {u, x, y, z, w, v}
  UserRules <- OneUserRule
  FullSync = TRUE
  Faulty = {"crash", "error", "earlyResync"}
  MaxEdit = 4
  MaxFault = 2
  MaxLag = 1
INVARIANTS OneRulePerPath
PROPERTIES RuleKept
CHECK_DEADLOCK FALSE
