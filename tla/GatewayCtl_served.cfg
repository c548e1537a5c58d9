SPECIFICATION FairSpec
CONSTANTS
  g = g
  h = h
  r1 = r1
  Gw <- TheGws
  NAlb = 2
  Faulty = {"flap", "albdel", "opfail", "fail"}
  R = {r1}
  GatewayNs = "gw"
  ReservedPorts = {1936}
  GwSpecs <- TheSpecs
  RtSpecs <- TheRoutes
  Start <- AllOpen
  StartRt <- BothRefs
  MaxTurn = 2
INVARIANTS TypeOK NoTwin ServedRight
PROPERTIES KeepsOthers AlbFollowsGateway StatusSettles
CHECK_DEADLOCK FALSE
