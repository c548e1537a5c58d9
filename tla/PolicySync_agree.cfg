SPECIFICATION FairSpec
CONSTANTS
  Worker = {w0, w1}
  Worker0 = w0
  Entry <- CertAndStream
  Kind <- CertAndStreamKind
  Key <- CertAndStreamKey
  Reads <- CertAndStreamReads
  NoKey = NoKey
  Backends = Backends
  Faulty = {"slowFill", "lostEvent", "crash"}
  MaxPublish = 2
  MaxFault = 1
PROPERTIES WorkersAgree
CHECK_DEADLOCK FALSE
