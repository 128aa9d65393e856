SPECIFICATION FairSpec
CONSTANTS
    NoTask = NoTask
    Tasks = {t1, t2, t3}
    Extended = {t3}
    NumDescs = 2
    MaxNest = 2
    Delays <- HalfSecondDelays
    ClockStep <- HalfSecond
    MaxClock <- HalfSecond
    Horizon <- HalfSecond
INVARIANT Scheduled
PROPERTIES OncePerPass TaskRuns AlarmClock
