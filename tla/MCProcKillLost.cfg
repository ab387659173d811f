\* Two slots beside init, two CPUs.
CONSTANTS
    Proc = {init, s1, s2}
    CPU = {c0, c1}
    initproc = init
    None = None
    MaxPid = 3
SPECIFICATION Spec
INVARIANT KilledNotAsleep
