SPECIFICATION Spec
CONSTANTS
  Conf = {c1, c2, bad}
  BadConf = {bad}
  InitConf = c0
  Policy = {p1, p2}
  NoFile = NoFile
  Partial = Partial
  Faulty = {"generate", "writeConf", "writePolicy", "rename", "status", "crash", "emptyPid"}
  MaxChange = 1
  MaxFault = 2
  MaxRestart = 1
INVARIANTS  SuccessMeansLoaded
PROPERTIES TakesEffect
