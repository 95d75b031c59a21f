\* Two answers to one interaction.
CONSTANTS
    r1 = r1
    r2 = r2
    r3 = r3
    c1 = c1
    s1 = s1
    p1 = p1
    p2 = p2
    Requests = {r1}
    Calls = {c1}
    CallOf <- OneCall
    Sessions = {s1}
    SessionOf <- OneSession
    Questions = {}
    AllowAlways = {r1}
    Responders = {p1, p2}
    MaxToggles = 0
    None = None
SPECIFICATION Spec
INVARIANT OneAnswerAccepted
CHECK_DEADLOCK FALSE
