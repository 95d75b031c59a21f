\* A new pi session and a send of it or of another one over a pool of one; two turns over
\* an ACP agent; three writes of two files; a log of four lines; a start with three
\* events; four units of time.
CONSTANTS
    Sessions = {s1, s2}
    Sends = {q1, q2}
    Fresh = {q1}
    MaxLive = 1
    MaxSpawns = 3
    EventCap = 1
    None = None
    MaxAgents = 1
    MaxTurns = 2
    MaxKids = 2
    OutCap = 1
    UpdateCap = 1
    MaxClock = 3
    MaxQueue = 2
    MaxLog = 4
    MaxSends = 1
    MaxParts = 3
    AutoAfter = 1
    MaxTime = 4
SPECIFICATION SessionsSpec
INVARIANTS   EndIsTold CacheIsTheDisk  StartIsServed DecisionHolds
 
CHECK_DEADLOCK FALSE
