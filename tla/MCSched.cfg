\* Two slots, two harts, one period of hart 0's timer.
CONSTANTS
    NPROC = 2
    CPU = {c0, c1}
    cpu0 = c0
    None = None
    Wrap = 8
    MaxSleep = 2
    MaxExpiries = 1
SPECIFICATION Spec
INVARIANTS
    TypeOK
    
    NoOversleep
    RunTimeBound
    TicksPerPeriod
