SPECIFICATION FairSpec
CONSTANTS
  m = m
  n = n
  i = i
  x = x
  y = y
  z = z
  None = None
  Alb = {m, n}
  Ing = {i}
  Address = {x, y, z}
  Port = {80, 443}
  Shape <- OpenOrM
  Scope <- TwoScopes
  Start <- InTheProject
  PromptWatch = TRUE
  Faulty = {"fill", "remove", "release"}
  MaxEdit = 1
INVARIANTS TypeOK
PROPERTIES KeepsLife NoLostUpdate 
CHECK_DEADLOCK FALSE
