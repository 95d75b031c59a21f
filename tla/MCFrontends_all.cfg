\* Two posts and a foreign turn; two pages and two writers; a question, two messages and a
\* restart in Telegram; a question, a message and a lost connection in Lark; three
\* messages of a guest thread; two events and their posts.
CONSTANTS
    MaxPosts = 2
    MaxQueued = 1
    Budget = 3
    HardCap = 4
    Keep = 1
    Follow = 3
    MaxForeign = 1
    PageWriters = {1, 2}
    Pages = {1, 2}
    MaxMessages = 3
    SubBuffer = 1
    TgQuestions = 1
    TgTexts = 2
    MaxQueue = 1
    MaxTopics = 2
    MaxRestarts = 1
    Questions = 1
    Texts = 1
    MaxPushes = 2
    MaxDrops = 1
    Types = {"part", "error"}
    MaxMsgs = 3
    MaxTime = 2
SPECIFICATION Spec
INVARIANTS ChatInOrder HistoryStands PageIsWhole  PromptsReach TypedOnce  ThreadIsTheSession
 
CHECK_DEADLOCK FALSE
