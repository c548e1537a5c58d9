SPECIFICATION FairSpec
CONSTANTS
  Pod = {a, b, c}
  Ft = {f}
  First = {a, b}
  Faulty = {"patchReport", "patchCleanup", "updateAlb"}
  MaxFlip = 2
  MaxChurn = 2
  MaxFault = 1
  MaxLag = 1
PROPERTIES SummaryOfKnownPods ReportsConverge
CHECK_DEADLOCK FALSE
