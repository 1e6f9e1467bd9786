SPECIFICATION FairSpec
CONSTANTS
    DaysBefore <- ThreeMonths
    WeekDays = 2
    Hours = 2
    Minutes = 2
    LastDay = 2
    Offered <- OneOfEach
    Start = 66
    End = 75
    Keep = 1
    MaxActive = 2
    MaxCrashes = 1
    MaxOutages = 1
INVARIANTS
    TypeOK
    OccurrencesRight
PROPERTIES
    OncePerOccurrence
    RunsSettle
