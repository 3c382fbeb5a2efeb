SPECIFICATION Spec
CONSTANTS
    Mode = "session"
    Name <- SomeNames
    Adoms <- TwoAdoms
    ObjKind <- OneObj
    Keys <- SomeKeys
    Vdoms <- SomeVdoms
    MaxChange = 1
    MaxRequest = 1
    MaxFault = 1
INVARIANTS
    PeriodicSurvives
CHECK_DEADLOCK FALSE
