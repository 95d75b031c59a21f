\* CancelSend against the promotion of the send it wants to drop.
CONSTANTS
    t1 = t1
    t2 = t2
    t3 = t3
    s1 = s1
    o1 = o1
    Sends = {t1, t2, t3}
    Sessions = {s1}
    SessionOf <- OneSession
    ReadOnly = {}
    Ops = {o1}
    MaxQueued = 1
    None = None
SPECIFICATION Spec
INVARIANT CancelReachesEverySend
