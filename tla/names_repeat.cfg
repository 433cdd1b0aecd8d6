SPECIFICATION Spec
CONSTANTS
    Events = {r1, r2, r3}
    r3 = r3
    r1 = r1
    r2 = r2
    NoEvent = NoEvent
    Start = 2
    MaxTime = 10
    Hour = 2
    Retention = 1
    IntervalLoops = {"interval"}
    CronLoops = {"cron"}
    Interval = 3
    Jitter = 4
    Setups <- Repeating
    Inputs <- SomeInputs
SYMMETRY Sym
INVARIANTS
    NamesAreUnique
CHECK_DEADLOCK FALSE
