\* Three slots with a CPU each; no symmetry, because the properties are
\* liveness properties.
CONSTANTS
    Proc = {init, s1, s2}
    CPU = {init, s1, s2}
    initproc = init
    None = None
    MaxPid = 3
SPECIFICATION PinnedSpec
PROPERTIES
    OrphansReaped
    WaitReturns
