SPECIFICATION FairSpec
CONSTANTS
  s1 = s1
  s2 = s2
  u = u
  None = None
  Ing = {a, b}
  Service = {s1}
  Index = {1}
  Proto = {"http", "https"}
  Shape <- TwoProtos
  RuleName = {u, n1, n2, n3, n4, n5, n6, n7, n8, n9}
  UserRules <- OneUserRule
  FullSync = TRUE
  Faulty = {"lag", "crash", "service"}
  MaxEdit = 3
  MaxFault = 1
  MaxLag = 1
INVARIANTS RulesHaveFrontend
PROPERTIES OnlyOwnRules 
CHECK_DEADLOCK FALSE
