\* One slot beside init on one CPU.
CONSTANTS
    Proc = {init, s1}
    CPU = {c0}
    initproc = init
    None = None
    MaxPid = 2
SPECIFICATION Spec
INVARIANT UnusedNotKilled
