SPECIFICATION Spec
CONSTANTS
    Registers <- FastAndSlow
    InfoNums <- SlowUnmappedFast
    ZeroBytes <- SomeZeros
    DayLength = 5
    Retention = 1
    MaxTimer = 2
    DefaultWindow = 1
    Stamps = {2, 6}
    MaxClock = 5
    MaxReadings = 2
    MaxQueries = 1
    MaxTroubles = 1
INVARIANTS FileSound HistoryTrue
PROPERTIES NewestKept 
CHECK_DEADLOCK FALSE
