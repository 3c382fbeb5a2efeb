SPECIFICATION FairSpec
CONSTANTS
    Mode = "session"
    Name <- SomeNames
    Adoms <- TwoAdoms
    ObjKind <- OneObj
    Keys <- SomeKeys
    Vdoms <- SomeVdoms
    MaxChange = 1
    MaxRequest = 1
    MaxFault = 1
PROPERTIES
    NeverOlder
    DoneIsWhatWasRead
    Refreshed
CHECK_DEADLOCK FALSE
