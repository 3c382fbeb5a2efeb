SPECIFICATION ScenesSpec
CONSTANTS
    task = task
    reload = reload
    narrow = narrow
    wide = wide
    line = line
    ann = ann
    ta = ta
    oa = oa
    Never = Never
    NoUser = NoUser
    NoToken = NoToken
    NoOpaque = NoOpaque
    Task <- OneTask
    Reload <- OneReload
    Msg <- OneLine
    Setting <- TwoSettings
    Queries <- Regrouped
    Since <- NewerParser
    User <- Users
    Token <- Tokens
    Opaque <- Ids
    Login <- PlainLogin
    Issued <- PlainToken
    Fetch <- PlainToken
    Session <- PlainSession
    Follows <- None
    SameIp <- None
    Near <- None
    Overlap = 1
    Slice = 1
    MaxCatchup = 2
    Retention = 2
    Lateness = 1
    MaxTime = 3
    MaxVersion = 2
    MaxSetting = 1
    MaxFault = 1
    MaxCrash = 1
    MaxMishaps = 2
INVARIANTS
    NothingMissed
PROPERTIES
    EventStored
CHECK_DEADLOCK FALSE
