SPECIFICATION Spec
CONSTANTS
  Worker = {w0, w1}
  Worker0 = w0
  Entry <- RuleAndConfig
  Kind <- RuleAndConfigKind
  Key <- RuleAndConfig
  Reads <- RuleAndConfigReads
  NoKey = NoKey
  Backends = Backends
  Faulty = {}
  MaxPublish = 2
  MaxFault = 0
INVARIANTS DictMatchesRaw 
CHECK_DEADLOCK FALSE
