\* Two requests of a tool call and a question, two answers, a flip of auto-approve, restarts;
\* two sends of one session or of two over a pool of one, with two processes ever started.
CONSTANTS
    r1 = r1
    r2 = r2
    r3 = r3
    c1 = c1
    s1 = s1
    p1 = p1
    p2 = p2
    Requests = {r1, r2, r3}
    Calls = {c1}
    CallOf <- OneCall
    Sessions = {s1}
    SessionOf <- OneSession
    Questions = {r3}
    AllowAlways = {r1}
    Responders = {p1, p2}
    MaxToggles = 1
    None = None
    Logs = {"x", "y"}
    Prompts = {"r1", "r2"}
    MaxLive = 1
    MaxSpawns = 2
    Restless = {1}
    Spont = "spont"
SPECIFICATION ClaudeSpec
INVARIANTS GrantsAreBacked  OnePromptPerCall AutoApproveKept PoolExact ResultsReach
PROPERTY AnswersCome
CHECK_DEADLOCK FALSE
