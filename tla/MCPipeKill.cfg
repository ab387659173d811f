\* A writer may be killed in the middle of a write.
CONSTANTS
    Writer = {w1, w2}
    Reader = {r1}
    Byte = {x}
    PIPESIZE = 2
    Wrap = 4
    MaxN = 2
    Killable = {w1}
    None = None
SPECIFICATION Spec
INVARIANTS
    NoLostWakeup
