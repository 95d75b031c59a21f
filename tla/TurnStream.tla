----------------------------- MODULE TurnStream -----------------------------
(***************************************************************************)
(* One Claude or Codex turn as internal/sender sees it: the agent process  *)
(* writes its session log and answers on its protocol; tailTurn follows    *)
(* the log; mergeLoggedTurn merges the tail with the protocol's result     *)
(* into the channel runSend ranges over.  The log and the protocol are two *)
(* clocks: the end-of-turn line and the result arrive in either order.     *)
(*                                                                         *)
(* An earlier turn of the same process (one the agent started by itself,   *)
(* or one finalized without its result) may be ahead of this one: the      *)
(* sender measures the log, then counts the turns ahead.                   *)
(*                                                                         *)
(* The consumer of the merged channel reads until it is closed, so that    *)
(* channel is the sequence of what it has read; the tail's channel is      *)
(* bounded, since its reader may walk away.                                *)
(***************************************************************************)
EXTENDS Naturals, Sequences, SequencesExt

CONSTANTS
    Aheads,     \* SUBSET BOOLEAN: may a turn of the process be running already
    Resumes,    \* SUBSET BOOLEAN: may the session have a log file already
    Aborts,     \* BOOLEAN: the log has an aborted marker (Codex)
    MaxParts,   \* bound: content lines of a turn
    TailCap     \* capacity of the tail's channel (64)

ASSUME StreamAssumption ==
    /\ Aheads \subseteq BOOLEAN
    /\ Resumes \subseteq BOOLEAN
    /\ Aborts \in BOOLEAN
    /\ MaxParts \in Nat
    /\ TailCap \in Nat \ {0}

VARIABLES
    ahead,      \* a turn of the process is running when this one begins
    resume,     \* the turn resumes a session: its log is where it was
    log,        \* the session log: records [turn, kind]
    file,       \* BOOLEAN: the log file exists under its path
    agent,      \* the turn the agent executes and what it has said of its end
    pipe,       \* results written by the agent and not read by readLoop
    turns,      \* process.turns: the turns whose result is awaited
    done,       \* the result channel of the own turn: "none", "ok", "failed"
    offset,     \* size of the log when the prompt was sent
    skip,       \* skipCompletions
    cancelled,  \* the turn's context
    mpc,        \* the merge goroutine
    out,        \* what the consumer has read
    tailGone,   \* tailCtx was cancelled by the merge goroutine
    tpc,        \* the tail goroutine
    tpos,       \* lines of the log it has read
    tsend,      \* events it has to send before it goes on
    tailCh,     \* its channel
    excuse      \* history: drain timeout, I/O error, a lost race with the turn ahead

agentVars == <<log, file, agent, pipe, turns, done>>
mergeVars == <<mpc, out, tailGone>>
tailVars == <<tpc, tpos, tsend, tailCh, skip>>
given == <<ahead, resume>>
vars == <<given, agentVars, offset, cancelled, mergeVars, tailVars, excuse>>

Own == 1
Other == 0
Event(type) == [type |-> type, line |-> 0]
Line(i) == [type |-> "line", line |-> i]

Init ==
    /\ log = <<>>
    /\ resume \in Resumes
    /\ file = resume
    /\ ahead \in Aheads
    /\ ahead => resume      \* a process that has run a turn has written its log
    /\ agent = [turn |-> IF ahead THEN Other ELSE Own, parts |-> 0, said |-> {}]
    /\ turns = IF ahead THEN <<Other>> ELSE <<>>
    /\ pipe = <<>>
    /\ done = "none"
    /\ offset = 0
    /\ skip = 0
    /\ cancelled = FALSE
    /\ mpc = "stat"
    /\ out = <<>>
    /\ tailGone = FALSE
    /\ tpc = "none"
    /\ tpos = 0
    /\ tsend = <<>>
    /\ tailCh = <<>>
    /\ excuse = {}

-----------------------------------------------------------------------------
(* The agent process                                                       *)

Working == agent.turn = Other \/ (agent.turn = Own /\ Own \in Range(turns))

\* It may write its end-of-turn line before its result, after it, or (when it
\* is interrupted) never.
WriteLine(kind) ==
    /\ Working
    /\ CASE kind = "part" -> /\ agent.said = {}
                             /\ agent.parts < MaxParts
                             /\ agent' = [agent EXCEPT !.parts = @ + 1]
         [] OTHER -> /\ "end" \notin agent.said
                     /\ kind = "abort" => Aborts /\ agent.turn = Own
                     /\ agent' = [agent EXCEPT !.said = @ \cup {"end"}]
    /\ log' = Append(log, [turn |-> agent.turn, kind |-> kind])
    /\ file' = (file \/ log = <<>>)
    /\ UNCHANGED <<given, pipe, turns, done, offset, cancelled, mergeVars, tailVars, excuse>>

WriteResult ==
    /\ Working
    /\ "result" \notin agent.said
    /\ agent' = [agent EXCEPT !.said = @ \cup {"result"}]
    /\ pipe' = Append(pipe, agent.turn)
    /\ UNCHANGED <<given, log, file, turns, done, offset, cancelled, mergeVars, tailVars, excuse>>

\* The earlier turn is over for the agent; the next prompt is taken up.
NextTurn ==
    /\ agent.turn = Other
    /\ "result" \in agent.said
    /\ agent' = [turn |-> Own, parts |-> 0, said |-> {}]
    /\ UNCHANGED <<given, log, file, pipe, turns, done, offset, cancelled, mergeVars, tailVars, excuse>>

\* handleLine on a result: the oldest awaited turn is answered with it.
HandleResult(status) ==
    /\ pipe # <<>>
    /\ pipe' = Tail(pipe)
    /\ turns' = Tail(turns)
    /\ done' = IF Head(turns) = Own THEN status ELSE done
    /\ UNCHANGED <<given, log, file, agent, offset, cancelled, mergeVars, tailVars, excuse>>

\* Somebody removes the file; an open descriptor goes on reading.
RemoveFile ==
    /\ file
    /\ file' = FALSE
    /\ UNCHANGED <<given, log, agent, pipe, turns, done, offset, cancelled, mergeVars, tailVars, excuse>>

Cancel ==
    /\ mpc # "stat" /\ mpc # "send"
    /\ ~cancelled
    /\ cancelled' = TRUE
    /\ UNCHANGED <<given, agentVars, offset, mergeVars, tailVars, excuse>>

-----------------------------------------------------------------------------
(* claudeTurn: the log is measured, then the request is appended to the    *)
(* process's turns and the turns ahead of it counted.                      *)

Stat ==
    /\ mpc = "stat"
    /\ offset' = Len(log)
    /\ mpc' = "send"
    /\ UNCHANGED <<given, agentVars, cancelled, out, tailGone, tailVars, excuse>>

\* The earlier turn is not counted, its result having been handled, though
\* the log up to the offset does not hold its end.
Raced == ahead /\ turns = <<>> /\ \A i \in 1..offset : log[i].kind # "end"

\* A slip of Send: the turns ahead are not counted.
SendUncounted ==
    /\ mpc = "send"
    /\ skip' = 0
    /\ turns' = Append(turns, Own)
    /\ mpc' = "start"
    /\ UNCHANGED <<given, log, file, agent, pipe, done, offset, cancelled, out, tailGone,
                   tpc, tpos, tsend, tailCh, excuse>>

Send ==
    /\ mpc = "send"
    /\ skip' = Len(turns)
    /\ turns' = Append(turns, Own)
    /\ mpc' = "start"
    /\ excuse' = IF Raced THEN excuse \cup {"raced"} ELSE excuse
    /\ UNCHANGED <<given, log, file, agent, pipe, done, offset, cancelled, out, tailGone,
                   tpc, tpos, tsend, tailCh>>

-----------------------------------------------------------------------------
(* mergeLoggedTurn                                                         *)

\* sendEvent: delivered, unless the context is cancelled, when either side of
\* the select may be taken.
Deliver(e) == out' = Append(out, e)
SendEvent(e, next) ==
    \/ Deliver(e) /\ mpc' = next /\ UNCHANGED tailGone
    \/ cancelled /\ mpc' = "closed" /\ tailGone' = TRUE /\ UNCHANGED out

Close == mpc' = "closed" /\ tailGone' = TRUE /\ UNCHANGED out

Started ==
    /\ mpc = "start"
    /\ SendEvent(Event("started"), "locate")
    /\ UNCHANGED <<given, agentVars, offset, cancelled, tailVars, excuse>>

Locate ==
    /\ mpc = "locate"
    /\ resume \/ file
    /\ mpc' = "select"
    /\ tpc' = "opening"
    /\ UNCHANGED <<given, agentVars, offset, cancelled, out, tailGone, tpos, tsend, tailCh, skip, excuse>>

\* locateWait gave up.
NotLocated ==
    /\ mpc = "locate"
    /\ ~resume
    /\ ~file \/ cancelled
    /\ SendEvent(Event("error"), "closed")
    /\ UNCHANGED <<given, agentVars, offset, cancelled, tailVars, excuse>>

\* A live preview; one stands for all.
Delta ==
    /\ mpc = "select"
    /\ agent.turn = Own
    /\ Event("delta") \notin Range(out)
    /\ SendEvent(Event("delta"), "select")
    /\ UNCHANGED <<given, agentVars, offset, cancelled, tailVars, excuse>>

TailEvent ==
    /\ mpc \in {"select", "drain", "flush"}
    /\ tailCh # <<>>
    /\ tailCh' = Tail(tailCh)
    /\ SendEvent(Head(tailCh), mpc)
    /\ UNCHANGED <<given, agentVars, offset, cancelled, tpc, tpos, tsend, skip, excuse>>

TailOver == tpc = "closed" /\ tailCh = <<>>

\* The log ended first: the result is awaited for drainWait.
LogBackstop ==
    /\ mpc = "select"
    /\ TailOver
    /\ Close
    /\ UNCHANGED <<given, agentVars, offset, cancelled, tailVars, excuse>>

\* The protocol ended: cfg.result reports a failure, then the log is drained.
Report == IF done = "failed"
          THEN Deliver(Event("error")) \/ (cancelled /\ UNCHANGED out)
          ELSE UNCHANGED out

Result ==
    /\ mpc = "select"
    /\ done # "none"
    /\ Report
    /\ mpc' = "drain"
    /\ UNCHANGED <<given, agentVars, offset, cancelled, tailGone, tailVars, excuse>>

\* Two slips of DrainTimeout: it writes the exit itself, or forgets to cancel
\* the tail it then waits for.
DrainTimeoutExits ==
    /\ mpc = "drain"
    /\ mpc' = "flush"
    /\ tailGone' = TRUE
    /\ Deliver(Event("exit"))
    /\ excuse' = excuse \cup {"timeout"}
    /\ UNCHANGED <<given, agentVars, offset, cancelled, tailVars>>

DrainTimeoutNoCancel ==
    /\ mpc = "drain"
    /\ mpc' = "flush"
    /\ excuse' = excuse \cup {"timeout"}
    /\ UNCHANGED <<given, agentVars, offset, cancelled, out, tailGone, tailVars>>

DrainTimeout ==
    /\ mpc = "drain"
    /\ mpc' = "flush"
    /\ tailGone' = TRUE
    /\ excuse' = excuse \cup {"timeout"}
    /\ UNCHANGED <<given, agentVars, offset, cancelled, out, tailVars>>

Drained ==
    /\ mpc \in {"drain", "flush"}
    /\ TailOver
    /\ Close
    /\ UNCHANGED <<given, agentVars, offset, cancelled, tailVars, excuse>>

MergeCancelled ==
    /\ mpc \in {"select", "drain"}
    /\ cancelled
    /\ Close
    /\ UNCHANGED <<given, agentVars, offset, cancelled, tailVars, excuse>>

-----------------------------------------------------------------------------
(* tailTurn                                                                *)

TailCtxDone == cancelled \/ tailGone

\* Sends that no context interrupts, and where the tail goes after them.
Then(events, next) == tsend' = events /\ tpc' = next

Open ==
    /\ tpc = "opening"
    /\ \/ file /\ tpc' = "reading" /\ UNCHANGED tsend
       \/ TailCtxDone /\ ~file /\ Then(<<Event("exit")>>, "closing")
       \/ ~file /\ Then(<<Event("error")>>, "closing")
    /\ tpos' = offset
    /\ UNCHANGED <<given, agentVars, offset, cancelled, mergeVars, tailCh, skip, excuse>>

\* One line of the log.  A content line's send watches the context.
ReadLine ==
    /\ tpc = "reading"
    /\ tpos < Len(log)
    /\ tpos' = tpos + 1
    /\ LET kind == log[tpos + 1].kind IN
         CASE kind = "part" -> Then(<<Line(tpos + 1)>>, "sending") /\ UNCHANGED skip
           [] kind = "end" /\ skip > 0 ->
                Then(<<Line(tpos + 1)>>, "background") /\ skip' = skip - 1
           [] kind = "end" /\ skip = 0 ->
                Then(<<Event("exit")>>, "closing") /\ UNCHANGED skip
           [] kind = "abort" ->
                /\ Then(<<Line(tpos + 1), Event("error"), Event("exit")>>, "closing")
                /\ UNCHANGED skip
    /\ UNCHANGED <<given, agentVars, offset, cancelled, mergeVars, tailCh, excuse>>

\* A slip of TailCancelled: a cancelled tail closes without an exit.
TailCancelledSilently ==
    /\ tpc = "sending" \/ (tpc = "reading" /\ tpos = Len(log))
    /\ TailCtxDone
    /\ Then(<<>>, "closing")
    /\ UNCHANGED <<given, agentVars, offset, cancelled, mergeVars, tpos, tailCh, skip, excuse>>

\* At the end of the file the tail polls, and looks at its context.  So does
\* the send of a content line; which of the two is taken then is open.
TailCancelled ==
    /\ tpc = "sending" \/ (tpc = "reading" /\ tpos = Len(log))
    /\ TailCtxDone
    /\ Then(<<Event("exit")>>, "closing")
    /\ UNCHANGED <<given, agentVars, offset, cancelled, mergeVars, tpos, tailCh, skip, excuse>>

ReadError ==
    /\ tpc = "reading"
    /\ Then(<<Event("error"), Event("exit")>>, "closing")
    /\ excuse' = excuse \cup {"io"}
    /\ UNCHANGED <<given, agentVars, offset, cancelled, mergeVars, tpos, tailCh, skip>>

\* Two slips of TailSend: the channel has no bound, or drops what it has no
\* room for.
TailSendUnbounded ==
    /\ tsend # <<>>
    /\ tailCh' = Append(tailCh, Head(tsend))
    /\ tsend' = Tail(tsend)
    /\ tpc' = IF tpc \in {"sending", "background"} THEN "reading" ELSE tpc
    /\ UNCHANGED <<given, agentVars, offset, cancelled, mergeVars, tpos, skip, excuse>>

TailSendDrops ==
    /\ tsend # <<>>
    /\ tailCh' = IF Len(tailCh) < TailCap THEN Append(tailCh, Head(tsend)) ELSE tailCh
    /\ tsend' = Tail(tsend)
    /\ tpc' = IF tpc \in {"sending", "background"} THEN "reading" ELSE tpc
    /\ UNCHANGED <<given, agentVars, offset, cancelled, mergeVars, tpos, skip, excuse>>

TailSend ==
    /\ tsend # <<>>
    /\ Len(tailCh) < TailCap
    /\ tailCh' = Append(tailCh, Head(tsend))
    /\ tsend' = Tail(tsend)
    /\ tpc' = IF tpc \in {"sending", "background"} THEN "reading" ELSE tpc
    /\ UNCHANGED <<given, agentVars, offset, cancelled, mergeVars, tpos, skip, excuse>>

TailClose ==
    /\ tpc = "closing"
    /\ tsend = <<>>
    /\ tpc' = "closed"
    /\ UNCHANGED <<given, agentVars, offset, cancelled, mergeVars, tpos, tsend, tailCh, skip, excuse>>

-----------------------------------------------------------------------------
Agent ==
    \/ \E kind \in {"part", "end", "abort"} : WriteLine(kind)
    \/ WriteResult \/ NextTurn

Reader == \E status \in {"ok", "failed"} : HandleResult(status)

Merge == \/ Stat \/ Send \/ Started \/ Locate \/ NotLocated \/ Delta \/ TailEvent
         \/ LogBackstop \/ Result \/ DrainTimeout \/ Drained \/ MergeCancelled

TailStep == Open \/ ReadLine \/ TailCancelled \/ TailSend \/ TailClose

Next == Agent \/ Reader \/ RemoveFile \/ Cancel \/ Merge \/ TailStep \/ ReadError

Spec == Init /\ [][Next]_vars

\* The goroutines run and their timers fire.  Nothing is assumed
\* of the agent, nor that a read ever fails.
Fairness == WF_vars(Reader) /\ WF_vars(Merge) /\ WF_vars(TailStep)

FairSpec == Spec /\ Fairness

-----------------------------------------------------------------------------
(* Properties                                                              *)

EventType == [type : {"started", "line", "delta", "error", "exit"}, line : Nat]

\* The turn's state has the shape its Go declarations give it.
TypeOK ==
    /\ log \in Seq([turn : {Other, Own}, kind : {"part", "end", "abort"}])
    /\ agent \in [turn : {Other, Own}, parts : 0..MaxParts, said : SUBSET {"end", "result"}]
    /\ {pipe, turns} \subseteq Seq({Other, Own})
    /\ done \in {"none", "ok", "failed"}
    /\ {offset, tpos} \subseteq 0..Len(log)
    /\ skip \in 0..1
    /\ mpc \in {"stat", "send", "start", "locate", "select", "drain", "flush", "closed"}
    /\ tpc \in {"none", "opening", "reading", "sending", "background", "closing", "closed"}
    /\ {out, tsend, tailCh} \subseteq Seq(EventType)
    /\ Len(tailCh) <= TailCap
    /\ {ahead, resume, file, cancelled, tailGone} \subseteq BOOLEAN

Types(s) == {s[i].type : i \in DOMAIN s}
LinesOf(s) == {s[i].line : i \in {j \in DOMAIN s : s[j].type = "line"}}

\* A turn nobody cancelled says how it ended: runSend's loop sees an exit or
\* an error before the channel closes.  Relay.RClosed rests on it.
SpokenClose ==
    mpc = "closed" /\ ~cancelled => Types(out) \cap {"exit", "error"} # {}

\* The session log reaches the consumer as it is: no line of it is lost,
\* repeated or reordered on the way through the two goroutines.
LogInOrder ==
    \A j \in DOMAIN out : out[j].type = "line" =>
      /\ offset < out[j].line
      /\ \A i \in 1..(j - 1) : out[i].type = "line" => out[i].line < out[j].line
      /\ (offset + 1)..out[j].line \subseteq LinesOf(out)

\* The exit ends the content of the turn: no line follows it, nor does a
\* second exit (a late preview or the protocol's own error may).
ExitEndsContent ==
    \A i, j \in DOMAIN out :
        i < j /\ out[i].type = "exit" => out[j].type \in {"delta", "error"}

\* The own turn's end is in the log, and every line of the log before it was
\* delivered first.
EndReached == \E e \in DOMAIN log : /\ log[e].turn = Own
                                   /\ log[e].kind \in {"end", "abort"}
                                   /\ (offset + 1)..(e - 1) \subseteq LinesOf(out)

\* An exit that neither a cancellation, a drain timeout, an I/O error nor the
\* race of Raced explains is the own turn's, whatever ran ahead of it (tail.go:
\* the marker "is written once, after the final assistant message, only when
\* the turn has truly finished"; the markers of the turns ahead are skipped).
ExitIsOwn == "exit" \in Types(out) /\ ~cancelled /\ excuse = {} => EndReached

-----------------------------------------------------------------------------
(* The inductive invariant behind these (TranscriptsProofs.tla).           *)

Sent == mpc \notin {"stat", "send"}

\* Results are handled in the order of the turns, and the own one last: how far the
\* agent is with its answers, what of them is unread, which turns are awaited.
OwnAwaited == IF Sent THEN <<Own>> ELSE <<>>
BothAwaited == IF Sent THEN <<Other, Own>> ELSE <<Other>>
TurnsInv ==
    LET answered == "result" \in agent.said IN
    /\ ~ahead => agent.turn = Own
    /\ \/ /\ done = "none" /\ turns = BothAwaited
          /\ \/ agent.turn = Other /\ ~answered /\ pipe = <<>>
             \/ (agent.turn = Other <=> answered) /\ pipe = <<Other>>
       \/ /\ done = "none" /\ turns = OwnAwaited
          /\ (agent.turn = Other <=> answered) /\ pipe = <<>>
       \/ /\ done = "none" /\ Sent /\ agent.turn = Own /\ answered
          /\ pipe = turns /\ turns \in {<<Other, Own>>, <<Own>>}
       \/ done # "none" /\ Sent /\ agent.turn = Own /\ answered /\ pipe = <<>> /\ turns = <<>>

\* The turn ahead writes its lines before the own one, one end among them.
OtherEnds == {i \in DOMAIN log : log[i] = [turn |-> Other, kind |-> "end"]}
LogInv ==
    /\ \A i \in DOMAIN log : log[i].turn = Own => agent.turn = Own /\ Sent
    /\ \A i, j \in DOMAIN log : i < j /\ log[i].turn = Own => log[j].turn = Own
    /\ \A i \in DOMAIN log : log[i].kind = "abort" => log[i].turn = Own
    /\ OtherEnds # {} /\ agent.turn = Other => "end" \in agent.said
    /\ \A i, j \in OtherEnds : i = j
    /\ OtherEnds # {} => ahead

\* Where the tail is in the log: what it has passed it does not read again.
Passed == IF tpc \in {"none", "opening"} THEN offset ELSE tpos

\* Nothing to skip: the end of the turn ahead is passed.
SkipInv ==
    Sent /\ skip = 0 /\ "raced" \notin excuse =>
      /\ agent.turn = Other => "end" \in agent.said
      /\ \A i \in OtherEnds : i <= Passed

\* What the goroutines hold at each point.
PlaceInv ==
    /\ mpc \in {"stat", "send", "start", "locate"} => tpc = "none"
    /\ mpc \in {"stat", "send"} => out = <<>>
    /\ tpc \in {"none", "opening"} => tailCh = <<>>
    /\ tpc \in {"none", "opening", "reading", "closed"} => tsend = <<>>
    /\ tpc \in {"sending", "background"} => tsend = <<Line(tpos)>>
    /\ tpc \notin {"none", "opening"} => offset <= tpos

Clean == ~cancelled /\ excuse = {}
Speaks == Types(out) \cup Types(tailCh) \cup Types(tsend)

ExitLast(s) == \A i \in DOMAIN s : s[i].type = "exit" => i = Len(s)

\* The exit is the last the tail says, and it ends with an exit or an error.
ExitInv ==
    /\ Clean /\ tailGone => mpc = "closed"
    /\ "exit" \in Types(out) => tailCh = <<>>
    /\ "exit" \in Types(out) \cup Types(tailCh) => tsend = <<>>
    /\ "exit" \in Speaks => tpc \in {"closing", "closed"}
    /\ ExitLast(tailCh) /\ ExitLast(tsend)
    /\ tpc \in {"closing", "closed"} /\ ~cancelled => Speaks \cap {"exit", "error"} # {}

\* The lines of s are those after a and up to b, in order.
Chain(s, a, b) ==
    /\ a <= b
    /\ LinesOf(s) = (a + 1)..b
    /\ \A i, j \in DOMAIN s : i < j /\ s[i].type = "line" /\ s[j].type = "line" => s[i].line < s[j].line

\* The lines on their way follow on the delivered ones, and reach to the tail's
\* position; an exit on its way is behind all lines before the own turn's end.
Reached(m, n, k) ==
    /\ Chain(out, offset, m)
    /\ mpc # "closed" =>
         /\ Chain(tailCh, m, n) /\ Chain(tsend, n, k)
         /\ tpc \in {"none", "opening"} => k = offset
         /\ tpc \in {"reading", "sending", "background"} => k = tpos
         /\ Clean /\ "exit" \in Speaks =>
              /\ tpos \in DOMAIN log /\ tpos <= k + 1
              /\ log[tpos].turn = Own /\ log[tpos].kind \in {"end", "abort"}
OrderInv == \E m, n, k \in 0..Len(log) : Reached(m, n, k)

StreamInv ==
    /\ TypeOK /\ TurnsInv /\ LogInv /\ SkipInv /\ PlaceInv /\ ExitInv /\ OrderInv
    /\ SpokenClose /\ ExitEndsContent /\ ExitIsOwn

\* Once the protocol has answered, or the turn is cancelled, the stream ends:
\* the session is released.
StreamEnds == done # "none" \/ (cancelled /\ mpc # "stat") ~> mpc = "closed"
=============================================================================
