SPECIFICATION Spec
CONSTANTS
  a1 = a1
  a2 = a2
  w1 = w1
  w2 = w2
  ip1 = ip1
  n1 = n1
  n2 = n2
  bare = bare
  NoName = NoName
  Gone = Gone
  NoAddr = NoAddr
  NoItem = NoItem
  NoWorker = NoWorker
  Home <- ServedByOne
  Short <- ShortNames
  Forward <- PointsBack
  BareName <- BareNames
  Admin <- TwoAdmins
  Worker <- NoActor
  Creators <- TwoAdmins
  Addr <- OneAddr
  DnsName <- TwoNames
  Zoned <- OneName
  MaxRun = 1
  MaxSlot = 1
  MaxEdit = 2
  MaxFault = 1
  MaxCrash = 0
SYMMETRY AdminsAlike
INVARIANTS OkMeansWritten MismatchSelectedByAdmin
PROPERTIES OverwriteOnlyInWindow
