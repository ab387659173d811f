\* Four slots and three harts, from a later state on; hart 0's timer does not
\* expire again.
CONSTANTS
    NPROC = 4
    CPU = {c0, c1, c2}
    cpu0 = c0
    None = None
    Wrap = 16
    MaxSleep = 0
    MaxExpiries = 3
SPECIFICATION LaterSpec
SYMMETRY Symmetry
INVARIANTS
    NewestFirst
