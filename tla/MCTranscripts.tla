---------------------------- MODULE MCTranscripts ----------------------------
(***************************************************************************)
(* Small instances of what reads a session's log: the stream of a turn     *)
(* (TurnStream), the transcripts of the formats and the pages of one. A    *)
(* behaviour is one of the part it starts with; the others stand still.    *)
(***************************************************************************)
EXTENDS TurnStream, FiniteSets

CONSTANTS Tools, MaxLines,       \* ClaudeLog
          Calls, MaxRollout,     \* CodexLog
          CallIds, MaxEntries,   \* RoleLog
          Letters, MaxText, MaxTotal    \* Pages

\* Ids are finitely many, and no letter is a newline, a tool or an ellipsis.
ASSUME LogsAssumption == IsFiniteSet(Tools) /\ Letters \cap {"newline", "tool", "..."} = {}

VARIABLES part,
          clog, asm, cturns, live,         \* ClaudeLog
          rollout, basm, bturns, blive,    \* CodexLog
          flavour, entries,                \* RoleLog
          dlog,                            \* DshLog
          transcript, query                \* Pages

Claude == INSTANCE ClaudeLog WITH log <- clog, turns <- cturns
Codex  == INSTANCE CodexLog
Role   == INSTANCE RoleLog
Dsh    == INSTANCE DshLog WITH CallIds <- {1}, TurnNos <- {1, 2}, MaxEvents <- 3
Paged  == INSTANCE Pages WITH turns <- transcript

claudeVars == <<clog, asm, cturns, live>>
codexVars  == <<rollout, basm, bturns, blive>>
roleVars   == <<flavour, entries>>
pageVars   == <<transcript, query>>
logsVars   == <<part, vars, claudeVars, codexVars, roleVars, dlog, pageVars>>

LogsInit ==
    /\ part \in {"stream", "claude", "codex", "role", "dsh", "pages"}
    /\ Init /\ (part # "stream" => ~ahead /\ ~resume)
    /\ Claude!Init /\ Codex!Init /\ Dsh!Init /\ Paged!Init
    /\ Role!Init /\ (part # "role" => flavour = "pi")

StreamStep == part = "stream" /\ Next /\ UNCHANGED <<part, claudeVars, codexVars, roleVars, dlog, pageVars>>
ClaudeStep == part = "claude" /\ Claude!Next /\ UNCHANGED <<part, vars, codexVars, roleVars, dlog, pageVars>>
CodexStep  == part = "codex" /\ Codex!Next /\ UNCHANGED <<part, vars, claudeVars, roleVars, dlog, pageVars>>
RoleStep   == part = "role" /\ Role!Next /\ UNCHANGED <<part, vars, claudeVars, codexVars, dlog, pageVars>>
DshStep    == part = "dsh" /\ Dsh!Next /\ UNCHANGED <<part, vars, claudeVars, codexVars, roleVars, pageVars>>
PageStep   == part = "pages" /\ Paged!Next /\ UNCHANGED <<part, vars, claudeVars, codexVars, roleVars, dlog>>

LogsNext == StreamStep \/ ClaudeStep \/ CodexStep \/ RoleStep \/ DshStep \/ PageStep

\* The fairness of TurnStream, for its behaviours.
LogsFairness ==
    /\ WF_vars(part = "stream" /\ Reader)
    /\ WF_vars(part = "stream" /\ Merge)
    /\ WF_vars(part = "stream" /\ TailStep)

LogsSpec == LogsInit /\ [][LogsNext]_logsVars /\ LogsFairness

(* ---------------- properties ---------------- *)
\* A turn's stream is the turn's log: whole, in order, with an end that is the turn's
\* own and is said before the stream closes.
StreamIsTheTurn == part = "stream" => TypeOK /\ SpokenClose /\ LogInOrder /\ ExitEndsContent /\ ExitIsOwn

\* Every backend's transcript is its log: what was said, called and answered is in
\* the turn it belongs to, once (jsonl, codexrollout, pi, kiro, dsh).
TranscriptsAreTheLogs ==
    /\ (part = "claude" => Claude!TurnsAreTheLog)
    /\ (part = "codex" => Codex!TurnsAreTheRollout)
    /\ (part = "role" => Role!BranchIsRead)
    /\ (part = "dsh" => Dsh!TurnsAreTheEvents)

\* A reader without the whole file sees what a reader of the file does: one who
\* follows the live parts, and one who reads the tail of a longer log.
ViewsAgree == (part = "claude" => Claude!LiveIsStored) /\ (part = "claude" => Claude!TailRefreshes)

\* A fork through a turn holds that turn and what led to it, and reads the same.
ForksReadTheSame == (part = "claude" => Claude!ForkKeepsTurn) /\ (part = "codex" => Codex!ForkReadsTheSame) /\ (part = "role" => Role!ForkIsThePrefix)

\* Pages of a transcript cover it, whatever is asked for, and a search finds what a
\* plain scan finds (router.go's pages and search).
PagesHold == (part = "pages" => Paged!PagesTile) /\ (part = "pages" => Paged!SearchFinds)
=============================================================================
