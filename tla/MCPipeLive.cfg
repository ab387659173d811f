\* One process at each end, calls longer than the ring.
CONSTANTS
    Writer = {w1}
    Reader = {r1}
    Byte = {x}
    PIPESIZE = 2
    Wrap = 4
    MaxN = 3
    Killable = {}
    None = None
SPECIFICATION FairSpec
PROPERTIES
    CallsReturn
