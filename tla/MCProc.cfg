\* Three slots on two CPUs, with three pids after init's.
CONSTANTS
    Proc = {init, s1, s2}
    CPU = {c0, c1}
    initproc = init
    None = None
    MaxPid = 4
SPECIFICATION Spec
SYMMETRY Symmetry
INVARIANTS
    TypeOK
    StackExclusive
    SchedAsserts
    NoMissedExit
    ParentAlive
PROPERTIES
    ReapAfterSwitch
