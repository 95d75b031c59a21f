\* Two turns and two processes over a pool of one: what ends a process.
CONSTANTS
    MaxLive = 1
    MaxTurns = 2
    MaxKids = 2
    OutCap = 1
    UpdateCap = 1
SPECIFICATION Spec
INVARIANT LongLived
CHECK_DEADLOCK FALSE
