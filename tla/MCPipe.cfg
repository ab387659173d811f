\* A writer and two readers; calls longer than the ring; counters that wrap
\* after two rounds of the ring.  A reader may be killed.
CONSTANTS
    Writer = {w1}
    Reader = {r1, r2}
    Byte = {x, y}
    PIPESIZE = 2
    Wrap = 4
    MaxN = 3
    Killable = {r1}
    None = None
SPECIFICATION Spec
SYMMETRY Symmetry
INVARIANTS
    TypeOK
    NoLostWakeup
    FreedUnused
    FreedAtLast
PROPERTIES
    Fifo
