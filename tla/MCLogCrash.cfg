\* Two processes whose calls write two blocks each, in any overlap.  The disk
\* has one log block less than the header has room for, so a call that writes
\* the third block panics in a full log.
CONSTANTS
    Proc = {p1, p2}
    Block = {b1, b2, b3}
    Val = {0, 1}
    NoBuf = NoBuf
    LOGSIZE = 4
    NLOG = 4
    MAXOPBLOCKS = 2
SPECIFICATION Spec
SYMMETRY Symmetry
INVARIANTS
    TypeOK
    CommitDurable
PROPERTIES
    CrashAtomic
