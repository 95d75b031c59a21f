\* A write that fails while the process dies.
CONSTANTS
    r1 = r1
    r2 = r2
    r3 = r3
    s1 = s1
    s2 = s2
    Sessions = {s1, s2}
    Requests = {r1, r2}
    MaxLive = 1
    MaxSpawns = 2
    Restless = {1}
    None = None
    Spont = Spont
SPECIFICATION Spec
INVARIANT UndoFindsItsRequest
CHECK_DEADLOCK FALSE
