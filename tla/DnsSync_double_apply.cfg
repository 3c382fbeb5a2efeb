SPECIFICATION Spec
CONSTANTS
  a1 = a1
  a2 = a2
  w1 = w1
  w2 = w2
  ip1 = ip1
  n1 = n1
  n2 = n2
  bare = bare
  NoName = NoName
  Gone = Gone
  NoAddr = NoAddr
  NoItem = NoItem
  NoWorker = NoWorker
  Home <- ServedByOne
  Short <- ShortNames
  Forward <- PointsBack
  BareName <- BareNames
  Admin <- TwoAdmins
  Worker <- NoActor
  Creators <- TwoAdmins
  Addr <- OneAddr
  DnsName <- OneName
  Zoned <- OneName
  MaxRun = 1
  MaxSlot = 1
  MaxEdit = 0
  MaxFault = 0
  MaxCrash = 0
INVARIANTS ResultsStayOnRun
