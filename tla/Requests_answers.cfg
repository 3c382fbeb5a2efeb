SPECIFICATION RequestsSpec
CONSTANTS
    p1 = p1
    p2 = p2
    StaleAfter = 6
    BucketLen = 2
    AccessMax = 8
    VlanMin = 1
    VlanMax = 4
    MaxPortLookups = 1
    fw1 = fw1
    sw1 = sw1
    sw2 = sw2
    sw3 = sw3
    host1 = host1
    host2 = host2
    mac1 = mac1
    mac2 = mac2
    mac3 = mac3
    vm1 = vm1
    vm2 = vm2
    NoMac = NoMac
    NoDevice = NoDevice
    Monitored <- Devices
    MaxHops = 1
    MaxSwitches = 2
    AccessMaxMacs = 8
    MaxHosts = 2
    DnsMax = 2
    NoSite = NoSite
    NoFamily = NoFamily
    NoVdom = NoVdom
    HostsPerRow = 2
    HostMax = 4
    RowsMax = 3
    BlockRows = 2
    VmMax = 2
    NetCols = 2
    FwsPerRow = 2
    SitesPerRow = 2
    MaxDrawn = 3
    MaxScan = 6
    MaxBlocks = 3
    MaxProbe = 3
    Concurrency = 2
    ActiveDays = 1
    StaleDays = 3
    MaxPort = 5
    Paths <- SomePaths
    AddrNet <- Addresses
    AddrGroup <- AddressGroups
    SvcPorts <- Services
    SvcGroup <- ServiceGroups
    DefaultMap <- Defaults
INVARIANTS
    HighIsProven
    FreeIsFree
    HostsAtHome
    TreeHangsTogether
    
    CisAccounted
    DrawnApart
    GapsAreNamed
    MarksAreTrue
    SearchIsComplete
    UnderTheSmallest
    SilenceAndLifeReported
    PortsTrue
PROPERTIES
    RefinesFirstMatch
CHECK_DEADLOCK FALSE
