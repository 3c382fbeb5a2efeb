SPECIFICATION ScenesSpec
CONSTANTS
    w1 = w1
    w2 = w2
    NoWorker = NoWorker
    Never = Never
    Worker <- TwoWorkers
    Phase <- TwoDays
    Slot <- SummerAndTwoDays
    AdHoc <- Holidays
    Week = 4
    MaxCatchup = 4
    Retention = 6
    MaxTime = 14
    MaxManual = 1
    MaxDelete = 1
    MaxSetting = 2
    MaxFault = 1
    MaxCrash = 1
INVARIANTS
    NoOverlap
    NoGap
PROPERTIES
    Settles
CHECK_DEADLOCK FALSE
