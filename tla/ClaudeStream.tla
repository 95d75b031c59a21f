---------------------------- MODULE ClaudeStream ----------------------------
(***************************************************************************)
(* The pool of long-running Claude processes: internal/claudestream.       *)
(*                                                                         *)
(* A send takes the session's process from the pool, or spawns one, then   *)
(* appends its request to the process's turns, then writes the prompt, and *)
(* takes the request back when the write fails: four steps under two       *)
(* locks.  Between any two of them the process may be evicted for another  *)
(* session, killed, or die, and its read loop may answer the oldest turn.  *)
(*                                                                         *)
(* The delay of the output pipe is folded into the process: a line is      *)
(* written when the read loop handles it, which may be after the exit.     *)
(***************************************************************************)
EXTENDS Naturals, FiniteSets, Sequences, SequencesExt

CONSTANTS
    Sessions,
    Requests,   \* calls of Send
    MaxLive,    \* --max-live-sessions
    MaxSpawns,  \* bound: processes ever started
    Restless,   \* bound: the processes that take turns of their own, and that
                \* ask for a permission (once each)
    None, Spont \* no value; the nil entry of turns, a spontaneous turn

\* What is assumed of the constants.
PoolAssumption ==
    /\ IsFiniteSet(Sessions)   \* what is counted has to be finite
    /\ MaxLive \in Nat \ {0}
    /\ MaxSpawns \in Nat \ {0}
    /\ Restless \subseteq Nat
    /\ {None, Spont} \cap Requests = {}
    /\ None # Spont

Procs == 1..MaxSpawns

VARIABLES
    sess,       \* the session each Send is for
    pc,         \* where each Send stands
    proc,       \* the process ensure gave it (0: none)
    got,        \* what was sent on its done channel: "own", "other", "exited"
    pool,       \* Manager.processes: [Sessions -> Procs \cup {0}]
    spawned,    \* processes started so far
    sid,        \* process.id: the session of each process
    turns,      \* process.turns
    stopping,   \* process.stopping
    stops,      \* processes a stop() was started for, by ensure or Kill
    died,       \* what died() has done: "no", "removed", "settled"
    exited,     \* the operating system's view of the process
    stdin,      \* prompts written and not taken up
    agent,      \* the turn the process executes
    marked,     \* it has written a line that shows a turn has begun
    prompt,     \* its permission prompt: "none", "open", "over"
    raced       \* history: a Send landed before a spontaneous turn showed

sendVars == <<pc, proc, got>>
poolVars == <<pool, spawned, sid, stops>>
turnVars == <<turns, stopping>>
agentVars == <<exited, stdin, agent, marked>>
vars == <<sess, sendVars, poolVars, turnVars, died, agentVars, prompt, raced>>

Init ==
    /\ sess \in [Requests -> Sessions]
    /\ pc = [r \in Requests |-> "new"]
    /\ proc = [r \in Requests |-> 0]
    /\ got = [r \in Requests |-> <<>>]
    /\ pool = [s \in Sessions |-> 0]
    /\ spawned = 0
    /\ sid = [p \in Procs |-> None]
    /\ turns = [p \in Procs |-> <<>>]
    /\ stopping = [p \in Procs |-> FALSE]
    /\ stops = {}
    /\ died = [p \in Procs |-> "no"]
    /\ exited = [p \in Procs |-> FALSE]
    /\ stdin = [p \in Procs |-> <<>>]
    /\ agent = [p \in Procs |-> None]
    /\ marked = [p \in Procs |-> FALSE]
    /\ prompt = [p \in Procs |-> "none"]
    /\ raced = {}

-----------------------------------------------------------------------------
(* ensure, under Manager.mu.                                                *)

Go(r, where) == pc' = [pc EXCEPT ![r] = where]

Pooled == {s \in Sessions : pool[s] # 0}
Idle(s) == turns[pool[s]] = <<>>

\* The router runs one send of a session at a time (Router.TurnsSerialized).
\* It may start the next while an earlier turn, cancelled, is still awaited.
Sending == {"ensured", "appended", "undo"}
MaySend(r) == \A q \in Requests : sess[q] = sess[r] => pc[q] \notin Sending

EnsureFound(r) ==
    /\ pc[r] = "new"
    /\ MaySend(r)
    /\ pool[sess[r]] # 0
    /\ proc' = [proc EXCEPT ![r] = pool[sess[r]]]
    /\ Go(r, "ensured")
    /\ UNCHANGED <<sess, got, poolVars, turnVars, died, agentVars, prompt, raced>>

Absent(r) == pc[r] = "new" /\ MaySend(r) /\ pool[sess[r]] = 0

\* A slip of Full: one process too many.
FullOneTooMany == Cardinality(Pooled) > MaxLive
Full == Cardinality(Pooled) >= MaxLive

\* A pool that is full gives up an idle process; which of several is the least
\* recently used stays open, since lastUsed is written under process.mu and
\* under Manager.mu.  The victim leaves the pool at once and is stopped later.
Evict(S) ==
    /\ S \in IF Full THEN {{s} : s \in {x \in Pooled : Idle(x)}} ELSE {{}}
    /\ stops' = stops \cup {pool[s] : s \in S}

Spawn(r, S) ==
    /\ Absent(r)
    /\ Evict(S)
    /\ spawned < MaxSpawns
    /\ spawned' = spawned + 1
    /\ sid' = [sid EXCEPT ![spawned'] = sess[r]]
    /\ pool' = [s \in Sessions |-> CASE s = sess[r] -> spawned'
                                     [] s \in S -> 0
                                     [] OTHER -> pool[s]]
    /\ proc' = [proc EXCEPT ![r] = spawned']
    /\ Go(r, "ensured")
    /\ UNCHANGED <<sess, got, turnVars, died, agentVars, prompt, raced>>

\* The command does not start: the victim is gone all the same.
SpawnFails(r, S) ==
    /\ Absent(r)
    /\ Evict(S)
    /\ pool' = [s \in Sessions |-> IF s \in S THEN 0 ELSE pool[s]]
    /\ Go(r, "failed")
    /\ UNCHANGED <<sess, proc, got, spawned, sid, turnVars, died, agentVars,
                   prompt, raced>>

AllBusy(r) ==
    /\ Absent(r)
    /\ Full
    /\ \A s \in Pooled : ~Idle(s)
    /\ Go(r, "failed")
    /\ UNCHANGED <<sess, proc, got, poolVars, turnVars, died, agentVars,
                   prompt, raced>>

-----------------------------------------------------------------------------
(* Send, after ensure: append and write each take process.mu.               *)

AppendTurn(r) ==
    LET p == proc[r] IN
    /\ pc[r] = "ensured"
    /\ turns' = [turns EXCEPT ![p] = Append(@, r)]
    /\ Go(r, "appended")
    /\ UNCHANGED <<sess, proc, got, poolVars, stopping, died, agentVars,
                   prompt, raced>>

Write(r) ==
    LET p == proc[r] IN
    /\ pc[r] = "appended"
    /\ ~stopping[p]
    /\ ~exited[p]
    /\ stdin' = [stdin EXCEPT ![p] = Append(@, r)]
    /\ Go(r, "sent")
    /\ UNCHANGED <<sess, proc, got, poolVars, turnVars, died, exited, agent,
                   marked, prompt, raced>>

\* "claude process is stopping", or a broken pipe.
WriteFails(r) ==
    /\ pc[r] = "appended"
    /\ stopping[proc[r]] \/ exited[proc[r]]
    /\ Go(r, "undo")
    /\ UNCHANGED <<sess, proc, got, poolVars, turnVars, died, agentVars,
                   prompt, raced>>

\* p.turns = p.turns[:len(p.turns)-1].  With no turn left the bound is -1 and
\* the goroutine panics; that the others go on here only adds behaviours.
Undo(r) ==
    LET p == proc[r] IN
    /\ pc[r] = "undo"
    /\ turns' = [turns EXCEPT ![p] = IF @ = <<>> THEN @ ELSE Front(@)]
    /\ Go(r, IF turns[p] = <<>> THEN "panicked" ELSE "failed")
    /\ UNCHANGED <<sess, proc, got, poolVars, stopping, died, agentVars,
                   prompt, raced>>

-----------------------------------------------------------------------------
(* handleLine                                                               *)

Answer(S, a) == got' = [r \in Requests |-> IF r \in S THEN Append(got[r], a) ELSE got[r]]
AnswerOldest(p) ==
    LET r == Head(turns[p]) IN Answer({r}, IF r = agent[p] THEN "own" ELSE "other")

\* A slip of ShowTurn: no line marks a spontaneous turn.
ShowTurnUnmarked(p) ==
    /\ agent[p] # None
    /\ ~marked[p]
    /\ marked' = [marked EXCEPT ![p] = TRUE]
    /\ UNCHANGED <<sess, sendVars, poolVars, turnVars, died, exited, stdin,
                   agent, prompt, raced>>

\* marksSpontaneousTurn: the first line of a turn nobody is known to wait for.
ShowTurn(p) ==
    /\ agent[p] # None
    /\ ~marked[p]
    /\ marked' = [marked EXCEPT ![p] = TRUE]
    /\ turns' = IF turns[p] = <<>> THEN [turns EXCEPT ![p] = <<Spont>>] ELSE turns
    /\ raced' = IF agent[p] = Spont /\ turns[p] # <<>> THEN raced \cup {p} ELSE raced
    /\ UNCHANGED <<sess, sendVars, poolVars, stopping, died, exited, stdin,
                   agent, prompt>>

\* A result answers the oldest turn.
HandleResult(p) ==
    /\ agent[p] # None
    /\ marked[p]
    /\ IF turns[p] = <<>>
       THEN UNCHANGED <<turns, got>>
       ELSE /\ turns' = [turns EXCEPT ![p] = Tail(@)]
            /\ AnswerOldest(p)
    /\ agent' = [agent EXCEPT ![p] = None]
    /\ marked' = [marked EXCEPT ![p] = FALSE]
    /\ UNCHANGED <<sess, pc, proc, poolVars, stopping, died, exited, stdin,
                   prompt, raced>>

\* A permission request of the process, put to hook.Submit; it ends by an
\* answer, by the process withdrawing it, or with the process.
AskPermission(p) ==
    /\ p \in Restless
    /\ agent[p] # None
    /\ prompt[p] = "none"
    /\ prompt' = [prompt EXCEPT ![p] = "open"]
    /\ UNCHANGED <<sess, sendVars, poolVars, turnVars, died, agentVars, raced>>

EndPermission(p) ==
    /\ prompt[p] = "open"
    /\ prompt' = [prompt EXCEPT ![p] = "over"]
    /\ UNCHANGED <<sess, sendVars, poolVars, turnVars, died, agentVars, raced>>

\* p.done is closed: the goroutine beside Submit cancels its context.
CancelPermission(p) ==
    /\ prompt[p] = "open"
    /\ died[p] # "no"
    /\ prompt' = [prompt EXCEPT ![p] = "over"]
    /\ UNCHANGED <<sess, sendVars, poolVars, turnVars, died, agentVars, raced>>

-----------------------------------------------------------------------------
(* died(), in the goroutine that waits for the process.                     *)

\* A slip of DiedRemove: whatever process the session has by now is removed.
DiedRemoveAny(p) ==
    /\ exited[p]
    /\ died[p] = "no"
    /\ pool' = [pool EXCEPT ![sid[p]] = 0]
    /\ died' = [died EXCEPT ![p] = "removed"]
    /\ UNCHANGED <<sess, sendVars, spawned, sid, stops, turnVars, agentVars,
                   prompt, raced>>

DiedRemove(p) ==
    /\ exited[p]
    /\ died[p] = "no"
    /\ pool' = [pool EXCEPT ![sid[p]] = IF @ = p THEN 0 ELSE @]
    /\ died' = [died EXCEPT ![p] = "removed"]
    /\ UNCHANGED <<sess, sendVars, spawned, sid, stops, turnVars, agentVars,
                   prompt, raced>>

\* Two slips of DiedSettle: only the oldest turn is answered, or none when the
\* process was being stopped.
DiedSettleHead(p) ==
    /\ died[p] = "removed"
    /\ Answer(IF turns[p] = <<>> THEN {} ELSE {Head(turns[p])}, "exited")
    /\ turns' = [turns EXCEPT ![p] = <<>>]
    /\ stopping' = [stopping EXCEPT ![p] = TRUE]
    /\ prompt' = [prompt EXCEPT ![p] = IF @ = "open" THEN "over" ELSE @]
    /\ died' = [died EXCEPT ![p] = "settled"]
    /\ UNCHANGED <<sess, pc, proc, poolVars, agentVars, raced>>

DiedSettleUnlessStopping(p) ==
    /\ died[p] = "removed"
    /\ ~stopping[p]
    /\ Answer(Range(turns[p]), "exited")
    /\ turns' = [turns EXCEPT ![p] = <<>>]
    /\ stopping' = [stopping EXCEPT ![p] = TRUE]
    /\ prompt' = [prompt EXCEPT ![p] = IF @ = "open" THEN "over" ELSE @]
    /\ died' = [died EXCEPT ![p] = "settled"]
    /\ UNCHANGED <<sess, pc, proc, poolVars, agentVars, raced>>

\* The turns are taken under the lock and finished outside of it; nothing else
\* touches a request that was taken.
DiedSettle(p) ==
    /\ died[p] = "removed"
    /\ Answer(Range(turns[p]), "exited")
    /\ turns' = [turns EXCEPT ![p] = <<>>]
    /\ stopping' = [stopping EXCEPT ![p] = TRUE]
    /\ prompt' = [prompt EXCEPT ![p] = IF @ = "open" THEN "over" ELSE @]
    /\ died' = [died EXCEPT ![p] = "settled"]
    /\ UNCHANGED <<sess, pc, proc, poolVars, agentVars, raced>>

-----------------------------------------------------------------------------
(* Kill, Shutdown and stop                                                  *)

\* A slip of Kill: a session without a process is stopped too.
KillUnchecked(S) ==
    /\ S # {}
    /\ pool' = [s \in Sessions |-> IF s \in S THEN 0 ELSE pool[s]]
    /\ stops' = stops \cup {pool[s] : s \in Sessions}
    /\ UNCHANGED <<sess, sendVars, spawned, sid, turnVars, died, agentVars, prompt, raced>>

\* Kill of one session, or Shutdown of all.
Kill(S) ==
    /\ S # {}
    /\ pool' = [s \in Sessions |-> IF s \in S THEN 0 ELSE pool[s]]
    /\ stops' = stops \cup {pool[s] : s \in S}
    /\ UNCHANGED <<sess, sendVars, spawned, sid, turnVars, died, agentVars,
                   prompt, raced>>

Stop(p) ==
    /\ p \in stops
    /\ ~stopping[p]
    /\ stopping' = [stopping EXCEPT ![p] = TRUE]
    /\ UNCHANGED <<sess, sendVars, poolVars, turns, died, agentVars, prompt, raced>>

-----------------------------------------------------------------------------
(* The Claude process                                                       *)

Live(p) == p <= spawned /\ ~exited[p]

TakePrompt(p) ==
    /\ Live(p)
    /\ agent[p] = None
    /\ stdin[p] # <<>>
    /\ agent' = [agent EXCEPT ![p] = Head(stdin[p])]
    /\ stdin' = [stdin EXCEPT ![p] = Tail(@)]
    /\ UNCHANGED <<sess, sendVars, poolVars, turnVars, died, exited, marked,
                   prompt, raced>>

\* A background task of the agent finishes, and it takes a turn of its own.
TakeTurn(p) ==
    /\ p \in Restless
    /\ Live(p)
    /\ agent[p] = None
    /\ agent' = [agent EXCEPT ![p] = Spont]
    /\ UNCHANGED <<sess, sendVars, poolVars, turnVars, died, exited, stdin,
                   marked, prompt, raced>>

\* By itself, because its input was closed, or because it was killed.
Exit(p) ==
    /\ Live(p)
    /\ exited' = [exited EXCEPT ![p] = TRUE]
    /\ stdin' = [stdin EXCEPT ![p] = <<>>]
    /\ UNCHANGED <<sess, sendVars, poolVars, turnVars, died, agent, marked,
                   prompt, raced>>

-----------------------------------------------------------------------------
SendStep(r) == AppendTurn(r) \/ Write(r) \/ WriteFails(r) \/ Undo(r)

Next ==
    \/ \E r \in Requests :
         \/ EnsureFound(r) \/ AllBusy(r) \/ SendStep(r)
         \/ \E S \in SUBSET Pooled : Spawn(r, S) \/ SpawnFails(r, S)
    \/ \E p \in Procs :
         \/ ShowTurn(p) \/ HandleResult(p)
         \/ AskPermission(p) \/ EndPermission(p) \/ CancelPermission(p)
         \/ DiedRemove(p) \/ DiedSettle(p) \/ Stop(p)
         \/ TakePrompt(p) \/ TakeTurn(p) \/ Exit(p)
    \/ \E S \in {{s} : s \in Pooled} \cup {Pooled} : Kill(S)

Spec == Init /\ [][Next]_vars

\* usher's goroutines run; stop() kills a process that does not go by itself.
\* Nothing else is assumed of a process.
Fairness ==
    /\ \A r \in Requests : WF_vars(SendStep(r))
    /\ \A p \in Procs : /\ WF_vars((DiedRemove(p) \/ DiedSettle(p)))
                        /\ WF_vars(CancelPermission(p))
                        /\ WF_vars(Stop(p))
                        /\ WF_vars(stopping[p] /\ Exit(p))

FairSpec == Spec /\ Fairness

-----------------------------------------------------------------------------
(* Properties                                                              *)

PCs == {"new", "ensured", "appended", "undo", "sent", "failed", "panicked"}

\* The pool's state has the shape its Go declarations give it.
TypeOK ==
    /\ sess \in [Requests -> Sessions]
    /\ pc \in [Requests -> PCs]
    /\ proc \in [Requests -> 0..spawned]
    /\ \A r \in Requests : Range(got[r]) \subseteq {"own", "other", "exited"}
    /\ pool \in [Sessions -> 0..spawned]
    /\ spawned \in 0..MaxSpawns
    /\ sid \in [Procs -> Sessions \cup {None}]
    /\ \A p \in Procs : Range(turns[p]) \subseteq Requests \cup {Spont}
    /\ stopping \in [Procs -> BOOLEAN]
    /\ stops \subseteq 1..spawned
    /\ died \in [Procs -> {"no", "removed", "settled"}]
    /\ exited \in [Procs -> BOOLEAN]
    /\ \A p \in Procs : Range(stdin[p]) \subseteq Requests
    /\ agent \in [Procs -> Requests \cup {None, Spont}]
    /\ marked \in [Procs -> BOOLEAN]
    /\ prompt \in [Procs -> {"none", "open", "over"}]
    /\ raced \subseteq Procs

\* --max-live-sessions is a hard cap on the pool, and every process that runs
\* beyond it is on its way out: none is forgotten outside the pool.
PoolBounded == Cardinality(Pooled) <= MaxLive
NoneForgotten ==
    \A p \in 1..spawned :
        \/ pool[sid[p]] = p
        \/ p \in stops
        \/ exited[p]

PoolExact == TypeOK /\ PoolBounded /\ NoneForgotten

\* A prompt that was written is awaited until it is answered, and answered
\* once although a result and the death of the process race for it: finish()
\* closes channels, so a second one would panic.
AcceptedIsAwaited ==
    \A r \in Requests :
        /\ Len(got[r]) <= 1
        /\ pc[r] = "sent" /\ got[r] = <<>> => r \in Range(turns[proc[r]])

\* Spontaneous turns do not steal results: a turn gets its own, except for the
\* race the comment of marksSpontaneousTurn admits and what follows from it.
OwnResult ==
    \A r \in Requests : pc[r] = "sent" /\ "other" \in Range(got[r]) => proc[r] \in raced

ResultsReach == AcceptedIsAwaited /\ OwnResult

\* The turns of a process that is stopped or dies are answered, and a
\* permission prompt does not outlive it.  Each is owed once, so all come if
\* ever again none is owed.
OwedAnswer(r) ==
    /\ pc[r] = "sent"
    /\ got[r] = <<>>
    /\ proc[r] \in stops \/ exited[proc[r]]
OwedEnd(p) == prompt[p] = "open" /\ (p \in stops \/ exited[p])
NoneOwed == (\A r \in Requests : ~OwedAnswer(r)) /\ (\A p \in Procs : ~OwedEnd(p))
DeathSettles == []<>NoneOwed

\* The write that failed takes back the request that was appended for it.
UndoFindsItsRequest ==
    \A r \in Requests : pc[r] = "undo" => turns[proc[r]] # <<>> /\ Last(turns[proc[r]]) = r
=============================================================================
