------------------------------ MODULE MCClaude ------------------------------
(***************************************************************************)
(* Small instances of Claude's two sides: the pool of its processes, and   *)
(* the manager of what their hooks and permission prompts ask. A behaviour *)
(* is one of the part it starts with; the other stands still.              *)
(***************************************************************************)
EXTENDS Hook

CONSTANTS r1, r2, r3, c1, s1, p1, p2,
          Logs, Prompts, MaxLive, MaxSpawns, Restless, Spont            \* ClaudeStream

VARIABLES part,
          sess, at, proc, got, pool, spawned, sid, turns, stopping, stops, died, exited,
          stdin, agent, marked, prompt, raced                           \* ClaudeStream

\* Two requests of one tool call; the third has no tool use id.
OneCall == [r \in Requests |-> IF r = r3 THEN None ELSE c1]
OneSession == [r \in Requests |-> s1]

Pool == INSTANCE ClaudeStream WITH Sessions <- Logs, Requests <- Prompts, pc <- at

ASSUME ClaudeAssumption == Pool!PoolAssumption

poolVars == <<sess, at, proc, got, pool, spawned, sid, turns, stopping, stops, died, exited,
              stdin, agent, marked, prompt, raced>>
claudeVars == <<part, vars, poolVars>>

PoolStep == part = "pool" /\ Pool!Next /\ UNCHANGED <<part, vars>>

\* Every behaviour of either part.
EitherInit == part \in {"hook", "pool"} /\ Init /\ Pool!Init
EitherNext == (part = "hook" /\ Next /\ UNCHANGED <<part, poolVars>>) \/ PoolStep
Either     == EitherInit /\ [][EitherNext]_claudeVars

\* Those the run looks at. The logs of the pool are interchangeable; of the two answers
\* to a request one is any, the other a denial.
ClaudeInit == EitherInit /\ sess["r1"] = "x" /\ (part # "pool" => sess["r2"] = "x")
HookStep   == part = "hook" /\ Next /\ call'[p2].says = "deny" /\ UNCHANGED <<part, poolVars>>

ClaudeNext == HookStep \/ PoolStep

\* The fairness of each part, for its behaviours.
ClaudeFairness ==
    /\ \A r \in Requests : WF_vars(part = "hook" /\ Step(r))
    /\ \A p \in Responders : WF_vars(part = "hook" /\ Offer(p))
    /\ \A r \in Prompts : WF_poolVars(part = "pool" /\ Pool!SendStep(r))
    /\ \A p \in Pool!Procs :
         /\ WF_poolVars(part = "pool" /\ (Pool!DiedRemove(p) \/ Pool!DiedSettle(p)))
         /\ WF_poolVars(part = "pool" /\ Pool!CancelPermission(p))
         /\ WF_poolVars(part = "pool" /\ Pool!Stop(p))
         /\ WF_poolVars(part = "pool" /\ stopping[p] /\ Pool!Exit(p))

ClaudeSpec == ClaudeInit /\ [][ClaudeNext]_claudeVars /\ ClaudeFairness

(* ---------------- properties ---------------- *)
\* The pool is within its cap, what runs beyond it is being stopped, and nothing is
\* forgotten outside it (ensure, stop, died).
PoolExact == part = "pool" => Pool!PoolExact

\* A prompt that was written is awaited until it is answered, once, and by the result
\* of its own turn (handleLine, died).
ResultsReach == part = "pool" => Pool!ResultsReach

\* DeathSettles of the pool and SubmitReturns of the manager: the turns and the permission
\* prompt of a process that goes are told, and a request that is answered or withdrawn
\* returns.
AnswersCome ==
    []<>(IF part = "hook" THEN \A r \in Requests : ~Owed(r) ELSE Pool!NoneOwed)
=============================================================================
