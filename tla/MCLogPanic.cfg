\* Two processes that write one block per call, and a log with room for both.
CONSTANTS
    Proc = {p1, p2}
    Block = {b1, b2}
    Val = {0}
    NoBuf = NoBuf
    LOGSIZE = 2
    NLOG = 3
    MAXOPBLOCKS = 1
SPECIFICATION Spec
INVARIANTS
    NoPanic
