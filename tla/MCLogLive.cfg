\* Three processes, a log for two calls of one block each, three home blocks;
\* contents do not matter to these properties.
CONSTANTS
    Proc = {p1, p2, p3}
    Block = {b1, b2, b3}
    Val = {0}
    NoBuf = NoBuf
    LOGSIZE = 2
    NLOG = 3
    MAXOPBLOCKS = 1
SPECIFICATION FairSpec
INVARIANTS
    RoomForNewBlocks
    NoLostWakeup
PROPERTIES
    BeginAdmitted
