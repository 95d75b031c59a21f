\* Three sends and a stop of one session; a relayed send, a plain one and a stop, with a
\* subscriber channel of one.
CONSTANTS
    t1 = t1
    t2 = t2
    t3 = t3
    s1 = s1
    o1 = o1
    Sends = {t1, t2, t3}
    Sessions = {s1}
    SessionOf <- OneSession
    ReadOnly = {}
    Ops = {o1}
    MaxQueued = 1
    None = None
    Relayed = {t1}
    ChanCap = 1
SPECIFICATION LaneSpec
INVARIANTS TurnsSerialized NoStrandedQueue StartedInOrder StopReachesEverySend ReplyIsOwn
PROPERTIES ImplementsLane 
CHECK_DEADLOCK FALSE
