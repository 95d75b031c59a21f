\* The stream of a turn that is first or behind another one, new or resumed; logs of up
\* to four lines of each format; transcripts of two turns.
CONSTANTS
    Aheads = {TRUE, FALSE}
    Resumes = {TRUE, FALSE}
    Aborts = TRUE
    MaxParts = 1
    TailCap = 1
    Tools = {1, 2}
    MaxLines = 4
    Calls = {1}
    MaxRollout = 4
    CallIds = {1, 2}
    MaxEntries = 3
    Letters = {"a", "b"}
    MaxText = 4
    MaxTotal = 2
SPECIFICATION LogsSpec
INVARIANTS StreamIsTheTurn TranscriptsAreTheLogs  ForksReadTheSame PagesHold
PROPERTY StreamEnds
CHECK_DEADLOCK FALSE
