SPECIFICATION Spec
CONSTANTS
    Bits = 5
    OverlayName <- TunnelNames
    LinkName <- LinkNames
    RouterName <- RouterNames
    Twin <- Twins
    Rank <- Ranks
    NoIntf = NoIntf
    NoAddr = NoAddr
    NoEntry = NoEntry
    NoDev = NoDev
    NoVdom = NoVdom
    InternalMin = 8
    MaxHops = 3
    Worlds <- AllWorlds
INVARIANTS Walked VerdictConfirmed RightDoor RightNext
CHECK_DEADLOCK FALSE
