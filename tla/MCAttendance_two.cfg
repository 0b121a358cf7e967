SPECIFICATION FairSpec
CONSTANTS
    Sessions <- TwoSessions
    Tabs = {t1, t2}
    Disputes <- OneDispute
    Dates <- FirstDay
    Trips <- FirstDay
    Amended <- OneAmended
    Swipes <- InAndOut
    HR = HR
    Worker = Worker
    Hours = 2
    OfficeEnd = 1
    LastDay = 1
INVARIANTS
    HoursCountedOnce
PROPERTIES
    LockedDayStands
    NoClockLeftRunning
