SPECIFICATION FairSpec
CONSTANTS
  hostConf = hostConf
  sharedConf = sharedConf
  ownConf = ownConf
  None = None
  Conf = {hostConf, sharedConf, ownConf}
  SpecOf <- MCSpecOf
  Migrated = {hostConf}
  Version = {1, 2}
  LbName = {lb1}
  OverData = {"d1", "d2"}
  LongName = FALSE
  Drifting = {"deploy"}
  Lagging = {"monitor"}
  Stubborn = {"deploy"}
  Faulty = {"fail", "crash", "upgrade", "drift", "dropFail", "lag", "unready"}
  MaxEdit = 1
  MaxFault = 1
INVARIANTS TypeOK  SettledRight
PROPERTIES LivesByTheBook PortReportKept Converges
CHECK_DEADLOCK FALSE
