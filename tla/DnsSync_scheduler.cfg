SPECIFICATION FairSpec
CONSTANTS
  a1 = a1
  a2 = a2
  w1 = w1
  w2 = w2
  ip1 = ip1
  n1 = n1
  n2 = n2
  bare = bare
  NoName = NoName
  Gone = Gone
  NoAddr = NoAddr
  NoItem = NoItem
  NoWorker = NoWorker
  Home <- ServedByOne
  Short <- ShortNames
  Forward <- PointsBack
  BareName <- BareNames
  Admin <- OneAdmin
  Worker <- OneWorker
  Creators <- NoActor
  Addr <- OneAddr
  DnsName <- OneName
  Zoned <- OneName
  MaxRun = 3
  MaxSlot = 2
  MaxEdit = 0
  MaxFault = 1
  MaxCrash = 1
INVARIANTS WrittenRowsRecorded ScheduledOnce
PROPERTIES SlotServed
CHECK_DEADLOCK FALSE
