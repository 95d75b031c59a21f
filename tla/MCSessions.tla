------------------------------ MODULE MCSessions ------------------------------
(***************************************************************************)
(* Small instances of the session side: the pi runtime, the ACP runtimes,  *)
(* the discovery of sessions, their start, their metadata and the watcher  *)
(* of turns usher did not start. A behaviour is one of the part it starts  *)
(* with; the others stand still.                                           *)
(***************************************************************************)
EXTENDS PiRuntime, Functions

CONSTANTS MaxAgents, MaxTurns, MaxKids, OutCap, UpdateCap,    \* Acp; MaxAgents is its MaxLive
          MaxClock, MaxQueue,                                 \* Discovery
          MaxLog, MaxSends,                                   \* ForeignWatch
          MaxParts,                                           \* SessionStart
          AutoAfter, MaxTime                                  \* SessionMeta

ASSUME SessionsAssumption == AutoAfter \in Nat /\ MaxKids \in Nat

VARIABLES part,
          runtime, turn, kids, acpWorker, other, older, ask, misled,           \* Acp
          layout, clock, file, queue, timers, listed, bound, call, toScan, blind, \* Discovery
          slog, send, since, sub, sends, base, watch, collected, accounted,
          relayed, stray,                                                       \* ForeignWatch
          form, start, backend, open, token, creating, ondisk, known, expired,
          buf, seen, answer,                                                    \* SessionStart
          now, lastInput, mem, disk, wish, lost                                 \* SessionMeta

Agent    == INSTANCE Acp WITH MaxLive <- MaxAgents, worker <- acpWorker
Cache    == INSTANCE Discovery WITH sess <- listed
Watcher  == INSTANCE ForeignWatch WITH turn <- send
Starting == INSTANCE SessionStart WITH pc <- start
Meta     == INSTANCE SessionMeta

agentVars == <<runtime, turn, kids, acpWorker, other, older, ask, misled>>
cacheVars == <<layout, clock, file, queue, timers, listed, bound, call, toScan, blind>>
watchVars == <<slog, send, since, sub, sends, base, watch, collected, accounted, relayed, stray>>
startVars == <<form, start, backend, open, token, creating, ondisk, known, expired, buf, seen, answer>>
metaVars  == <<now, lastInput, mem, disk, wish, lost>>
sessionsVars == <<part, vars, agentVars, cacheVars, watchVars, startVars, metaVars>>

SessionsInit ==
    /\ part \in {"pi", "acp", "discovery", "watcher", "start", "meta"}
    /\ Init /\ (part # "pi" => sess = CHOOSE f \in [Sends -> Sessions] : IsInjective(f))
    /\ Agent!Init /\ (part # "acp" => runtime = "kiro")
    /\ Cache!Init /\ (part # "discovery" => layout = "mirrors")
    /\ Watcher!Init /\ Meta!Init
    /\ Starting!Init /\ (part # "start" => form = CHOOSE f \in Starting!Forms : TRUE)
    /\ (part # "start" => backend = <<>>)

PiStep    == part = "pi" /\ Next /\ UNCHANGED <<part, agentVars, cacheVars, watchVars, startVars, metaVars>>
AgentStep == part = "acp" /\ Agent!Next /\ UNCHANGED <<part, vars, cacheVars, watchVars, startVars, metaVars>>
CacheStep == part = "discovery" /\ Cache!Next /\ UNCHANGED <<part, vars, agentVars, watchVars, startVars, metaVars>>
WatchStep == part = "watcher" /\ Watcher!Next /\ UNCHANGED <<part, vars, agentVars, cacheVars, startVars, metaVars>>
StartStep == part = "start" /\ Starting!Next /\ UNCHANGED <<part, vars, agentVars, cacheVars, watchVars, metaVars>>
MetaStep  == part = "meta" /\ Meta!Next /\ UNCHANGED <<part, vars, agentVars, cacheVars, watchVars, startVars>>

SessionsNext == PiStep \/ AgentStep \/ CacheStep \/ WatchStep \/ StartStep \/ MetaStep

\* The fairness of each part, for its behaviours.
SessionsFairness ==
    /\ WF_vars(part = "pi" /\ \E q \in Sends : Step(q))
    /\ WF_vars(part = "pi" /\ \E p \in Procs : CloseEvents(p))
    /\ WF_vars(part = "pi" /\ \E p \in stops : Exit(p))
    /\ WF_agentVars(part = "acp" /\ Agent!Turn)
    /\ WF_agentVars(part = "acp" /\ Agent!Take)
    /\ WF_agentVars(part = "acp" /\ Agent!releaseSend)
    /\ \A k \in 1..MaxKids : WF_agentVars(part = "acp" /\ Agent!Reap(k))
    /\ WF_watchVars(part = "watcher" /\ Watcher!Watcher)
    /\ WF_watchVars(part = "watcher" /\ (Watcher!Subscribe \/ Watcher!Release \/ Watcher!Exit(TRUE)))
    /\ WF_startVars(part = "start" /\ (Starting!Stream \/ Starting!Close))

SessionsSpec == SessionsInit /\ [][SessionsNext]_sessionsVars /\ SessionsFairness

(* ---------------- properties ---------------- *)
\* pi: what worker.busy says is true of one turn, and a turn that ends by
\* agent_settled has read its own (pi/runtime.go).
PiTurnsAreOwn == part = "pi" => TypeOK /\ BusyIsOwned /\ OwnSettled

\* kiro, dsh: no child process is left behind, and the cap on live ones spares the turn
\* that has its prompt (acp.go, kiro.go).
ChildrenAccounted == part = "acp" => Agent!NoneLeft /\ Agent!EvictionSpares

\* kiro, dsh: a turn that was not cancelled is told its end, and the user's decision
\* reaches the agent as the option it offered for it.
EndIsTold == part = "acp" => Agent!EndIsTold /\ Agent!DecisionStands

\* The list at rest is the disk, whatever order files, mirrors and upserts came in
\* (discovery.go).
CacheIsTheDisk == part = "discovery" => Cache!CacheIsTheDisk

\* A reply of a turn usher did not start is relayed once, and none is lost
\* (foreignwatch.go).
RelayedOnce == part = "watcher" => Watcher!RelayedOnce

\* A new session is served from the answer to its caller on (router.go).
StartIsServed == part = "start" => Starting!StartIsServed

\* What the user decided on archiving stands across restarts (sessionmeta).
DecisionHolds == part = "meta" => Meta!DecisionHolds

\* Nobody waits forever: turns of pi and of ACP agents that are owed an end get it, a
\* foreign turn that has ended is told, a caller who starts a session hears of it.
SessionsSettle ==
    /\ part = "pi" => TurnsEnd
    /\ part = "acp" => Agent!TurnsEnd
    /\ part = "watcher" => Watcher!EndedIsTold
    /\ part = "start" => Starting!CallersAreTold
=============================================================================
