--------------------------------- MODULE Acp ---------------------------------
(***************************************************************************)
(* The runtimes that drive an agent over ACP (internal/acp, kiro, dsh):    *)
(* the turns the router runs on a session one after the other, each in a   *)
(* context of its own, the child processes that serve them, and kiro's cap *)
(* on live workers, for which a second session has a worker now and then.  *)
(***************************************************************************)
EXTENDS Integers, Sequences, FiniteSets

CONSTANTS MaxLive,     \* Runtime.maxLive
          MaxTurns,    \* bound: turns of the session
          MaxKids,     \* bound: processes started for it, 1..n
          OutCap,      \* capacity of a turn's stream
          UpdateCap    \* capacity of its updates

VARIABLES runtime,   \* "kiro" or "dsh"
          turn,      \* the turn
          kids,      \* the processes
          worker,    \* the session's entry in Runtime.workers; 0: none
          other,     \* the worker of the other session: "none", "idle", "busy"
          older,     \* Worker.lastUsed: <<v, w>> when v was used before w; 0 is the other's
          ask,       \* the process with a permission request under way; 0: none
          misled     \* history: the agent offered a decision's option and got another

acpVars == <<runtime, turn, kids, worker, other, older, ask, misled>>

Kids == 1..MaxKids
NoKid == [state |-> "none", ctx |-> 0, in |-> FALSE, busy |-> FALSE, end |-> "none"]
NoTurn == [pc |-> "idle", n |-> 0, kid |-> 0, cancelled |-> FALSE, result |-> "none",
           updates |-> <<>>, out |-> <<>>, told |-> FALSE, dropped |-> FALSE]

Init ==
    /\ runtime \in {"kiro", "dsh"}
    /\ turn = NoTurn /\ kids = [k \in Kids |-> NoKid] /\ worker = 0
    /\ other = "none" /\ older = {}
    /\ ask = 0 /\ misled = FALSE

Gone(k) == kids[k].state = "gone"
\* A pipe whose reader is alive, or killed and not yet dead, takes a write.
Writable(k) == kids[k].in /\ kids[k].state \in {"alive", "killed"}
Used(w) == older' = {p \in older : p[1] # w} \cup {<<v, w>> : v \in (Kids \cup {0}) \ {w}}

(* ---------------- the child (acp.Start) ---------------- *)
\* exec.CommandContext kills a process when the context it was started with ends.
CtxEnds(why) ==
    kids' = [k \in Kids |-> IF kids[k].ctx = turn.n /\ kids[k].state = "alive"
                            THEN [kids[k] EXCEPT !.state = "killed", !.end = IF @ = "none" THEN why ELSE @]
                            ELSE kids[k]]

\* Close closes the pipe; the agent ends at the end of its input.
Close(k, why) == kids' = [kids EXCEPT ![k].in = FALSE, ![k].end = why]

\* cmd.Wait returns: Done is closed.
Reap(k) ==
    /\ kids[k].state = "killed" \/ (kids[k].state = "alive" /\ ~kids[k].in)
    /\ kids' = [kids EXCEPT ![k].state = "gone", ![k].in = FALSE]
    /\ UNCHANGED <<runtime, turn, worker, other, older, ask, misled>>

Crash(k) ==
    /\ kids[k].state = "alive"
    /\ kids' = [kids EXCEPT ![k].state = "gone", ![k].in = FALSE, ![k].end = "crash"]
    /\ UNCHANGED <<runtime, turn, worker, other, older, ask, misled>>

(* ---------------- workerFor and Start ---------------- *)
\* The router runs the turns of a session one at a time.
Begin ==
    /\ turn.pc = "idle" /\ turn.n < MaxTurns
    /\ turn' = [NoTurn EXCEPT !.pc = "look", !.n = turn.n + 1]
    /\ UNCHANGED <<runtime, kids, worker, other, older, ask, misled>>

\* A worker whose process is known to be gone is dropped (Start, which has no session
\* to look for, goes the way of a session without one).
workerFor ==
    /\ turn.pc = "look"
    /\ IF worker = 0 \/ Gone(worker)
       THEN worker' = 0 /\ turn' = [turn EXCEPT !.pc = "spawn"]
       ELSE UNCHANGED worker /\ turn' = [turn EXCEPT !.pc = "found", !.kid = worker]
    /\ UNCHANGED <<runtime, kids, other, older, ask, misled>>

\* The process runs in the context of the turn that needs it.
spawnWorker(k) ==
    /\ turn.pc = "spawn" /\ kids[k] = NoKid /\ \A j \in 1..(k - 1) : kids[j] # NoKid
    /\ kids' = [kids EXCEPT ![k] = [NoKid EXCEPT !.state = IF turn.cancelled THEN "killed" ELSE "alive",
                                                 !.ctx = turn.n, !.in = TRUE]]
    /\ Used(k)
    /\ turn' = [turn EXCEPT !.pc = "attach", !.kid = k]
    /\ UNCHANGED <<runtime, worker, other, ask, misled>>

\* The router publishes the error of a turn that was not started.
SpawnFails ==
    /\ turn.pc = "spawn"
    /\ turn' = [turn EXCEPT !.pc = "closed", !.told = TRUE]
    /\ UNCHANGED <<runtime, kids, worker, other, older, ask, misled>>

Older(w, v) == <<w, v>> \in older

\* The workers when self and others are registered: the session's own and the other's.
Live(self, others) == (IF self = 0 THEN {} ELSE {self}) \cup (IF others = "none" THEN {} ELSE {0})
Busy(w) == IF w = 0 THEN other = "busy" ELSE kids[w].busy

\* A slip of evictIdle: a worker in a turn can be the least recently used.
evictIdleAny(live) ==
    IF runtime = "dsh" \/ Cardinality(live) <= MaxLive THEN {}
    ELSE {CHOOSE w \in live : \A v \in live : ~Older(v, w)}

\* evictIdleLocked: the least recently used of those that are in no turn, when there is
\* one; dsh has no cap.
evictIdle(live) ==
    LET idle == {w \in live : ~Busy(w)} IN
    IF runtime = "dsh" \/ Cardinality(live) <= MaxLive \/ idle = {} THEN {}
    ELSE {CHOOSE w \in idle : \A v \in idle : ~Older(v, w)}

\* initialize and session/new, load or resume have been answered: the worker is kept,
\* and is in no turn yet when the cap is looked at.
Attach ==
    LET evicted == evictIdle(Live(turn.kid, other)) IN
    /\ turn.pc = "attach" /\ ~turn.cancelled /\ kids[turn.kid].state = "alive"
    /\ turn' = [turn EXCEPT !.pc = "found"]
    /\ worker' = IF turn.kid \in evicted THEN 0 ELSE turn.kid
    /\ IF turn.kid \in evicted THEN Close(turn.kid, "evicted") ELSE UNCHANGED kids
    /\ other' = IF 0 \in evicted THEN "none" ELSE other
    /\ UNCHANGED <<runtime, older, ask, misled>>

\* A slip of AttachFails: the process is left to itself.
AttachFailsOpen ==
    /\ turn.pc = "attach"
    /\ turn' = [turn EXCEPT !.pc = "closed", !.told = TRUE]
    /\ UNCHANGED <<runtime, kids, worker, other, older, ask, misled>>

\* One of the calls failed: the agent's error, the context, or the process's end.
AttachFails ==
    /\ turn.pc = "attach"
    /\ Close(turn.kid, "failed")
    /\ turn' = [turn EXCEPT !.pc = "closed", !.told = TRUE]
    /\ UNCHANGED <<runtime, worker, other, older, ask, misled>>

\* The other session's turns: the cap may take this session's worker for them.
OtherTurn ==
    /\ other # "busy"
    /\ LET evicted == IF other = "none" THEN evictIdle(Live(worker, "idle")) ELSE {} IN
       /\ 0 \notin evicted /\ other' = "busy"
       /\ IF evicted = {} THEN UNCHANGED <<worker, kids>>
          ELSE worker' = 0 /\ Close(worker, "evicted")
    /\ Used(0)
    /\ UNCHANGED <<runtime, turn, ask, misled>>

OtherDone ==
    /\ other = "busy"
    /\ other' \in {"idle", "none"}
    /\ Used(0)
    /\ UNCHANGED <<runtime, turn, kids, worker, ask, misled>>

(* ---------------- runTurn ---------------- *)
\* The handler is set, and the prompt written; a write on a closed pipe fails.  (The
\* opening events of the stream always have room.)
runTurn(fails) ==
    /\ turn.pc = "found"
    /\ fails \in (IF ~Writable(turn.kid) THEN {TRUE} ELSE {FALSE, kids[turn.kid].state = "killed"})
    /\ kids' = [kids EXCEPT ![turn.kid].busy = TRUE]
    /\ turn' = [turn EXCEPT !.pc = "turn", !.result = IF fails THEN "error" ELSE "none"]
    /\ UNCHANGED <<runtime, worker, other, older, ask, misled>>

\* The agent works on the prompt.
Prompted == turn.pc = "turn" /\ turn.result = "none"

\* readLoop hands an update to the turn's handler, which drops it when it is behind.
ReadUpdate(kind) ==
    /\ Prompted /\ kids[turn.kid].state = "alive" /\ Len(turn.updates) < UpdateCap
    /\ turn' = [turn EXCEPT !.updates = Append(@, kind)]
    /\ UNCHANGED <<runtime, kids, worker, other, older, ask, misled>>

\* readLoop hands the response to the call's channel, which has room for it.
ReadResponse(result) ==
    /\ Prompted /\ kids[turn.kid].state = "alive"
    /\ turn' = [turn EXCEPT !.result = result]
    /\ UNCHANGED <<runtime, kids, worker, other, older, ask, misled>>

\* The call returns as well when the process or the context has ended.
CallEnds ==
    /\ Prompted /\ (Gone(turn.kid) \/ turn.cancelled)
    /\ turn' = [turn EXCEPT !.result = "error"]
    /\ UNCHANGED <<runtime, kids, worker, other, older, ask, misled>>

\* What an update shows: dsh streams text alone, kiro the tools and their ends as well.
dshShows(kind) == kind = "text"
kiroShows(kind) == kind # "progress"
translateUpdate(kind) ==
    IF (runtime = "kiro" /\ kiroShows(kind)) \/ (runtime = "dsh" /\ dshShows(kind)) THEN <<"shown">> ELSE <<>>

Room == Len(turn.out) < OutCap

Show ==
    LET ev == translateUpdate(Head(turn.updates)) IN
    /\ turn.pc = "turn" /\ turn.updates # <<>> /\ (ev = <<>> \/ Room)
    /\ turn' = [turn EXCEPT !.updates = Tail(@), !.out = @ \o ev]
    /\ UNCHANGED <<runtime, kids, worker, other, older, ask, misled>>

\* emitErr does not wait: a full stream loses the error.
emitErr == IF Room THEN [turn EXCEPT !.out = Append(@, "error")] ELSE [turn EXCEPT !.dropped = TRUE]

\* The deferred steps of a turn: the worker is free and the stream closed.
Leave(t) ==
    /\ kids' = [kids EXCEPT ![turn.kid].busy = FALSE]
    /\ Used(turn.kid)
    /\ turn' = [t EXCEPT !.pc = "closed", !.updates = <<>>]
    /\ UNCHANGED <<runtime, worker, other, ask, misled>>

\* The call has returned.  The select of the loop may take it before updates that came
\* first; a turn that failed is told so, and then ended.
promptDone ==
    /\ turn.pc = "turn" /\ turn.result # "none"
    /\ turn' = [(IF turn.result = "error" /\ ~turn.cancelled THEN emitErr ELSE turn) EXCEPT !.pc = "exit"]
    /\ UNCHANGED <<runtime, kids, worker, other, older, ask, misled>>

EmitExit ==
    /\ turn.pc = "exit"
    /\ \/ Room /\ Leave([turn EXCEPT !.out = Append(@, "exit")])
       \/ turn.cancelled /\ Leave(turn)

\* The context has ended: the stream closes as it is.
CtxDone == turn.pc = "turn" /\ turn.cancelled /\ Leave(turn)

\* A slip of ChildDone: the end of the process is not told.
ChildDoneSilent == turn.pc = "turn" /\ Gone(turn.kid) /\ Leave(turn)

\* The process has ended.
ChildDone == turn.pc = "turn" /\ Gone(turn.kid) /\ Leave(emitErr)

(* ---------------- handleServerRequest ---------------- *)
Offers == {<<"allow_once", "reject_once">>, <<"allow_once", "allow_always", "reject_once">>,
           <<"allow_always", "reject_always">>}
Decisions == {"allow_once", "allow_always", "reject_once"}
Offered(options, kind) == \E i \in DOMAIN options : options[i] = kind

\* Bound: one at a time.
Request(k) ==
    /\ kids[k].state = "alive" /\ Prompted /\ turn.kid = k /\ ask = 0
    /\ ask' = k
    /\ UNCHANGED <<runtime, turn, kids, worker, other, older, misled>>

\* A slip of chosenOption: the scope of the decision is lost.
chosenOptionOnce(options, decision) == IF decision = "allow_always" THEN "allow_once" ELSE decision

\* The option of the decision's kind, or the first one the agent offers.
chosenOption(options, decision) == IF Offered(options, decision) THEN decision ELSE options[1]

\* Somebody decides, in a context that no turn ends.
Decide(options, decision) ==
    /\ ask # 0
    /\ decision = "allow_always" => Offered(options, decision)
    /\ ask' = 0
    /\ misled' = (misled \/ (Writable(ask) /\ Offered(options, decision) /\ chosenOption(options, decision) # decision))
    /\ UNCHANGED <<runtime, turn, kids, worker, other, older>>

(* ---------------- the router ---------------- *)
\* runSend reads the stream.
Take ==
    /\ turn.out # <<>>
    /\ turn' = [turn EXCEPT !.out = Tail(@), !.told = @ \/ Head(turn.out) # "shown"]
    /\ UNCHANGED <<runtime, kids, worker, other, older, ask, misled>>

\* A slip of releaseSend: it waits for the end of the turn to be told.
releaseSendTold ==
    /\ turn.pc = "closed" /\ turn.out = <<>> /\ turn.told
    /\ CtxEnds("released")
    /\ turn' = [NoTurn EXCEPT !.n = turn.n]
    /\ UNCHANGED <<runtime, worker, other, older, ask, misled>>

\* releaseSend ends the context of a turn, whose process is killed with it.
releaseSend ==
    /\ turn.pc = "closed" /\ turn.out = <<>>
    /\ CtxEnds("released")
    /\ turn' = [NoTurn EXCEPT !.n = turn.n]
    /\ UNCHANGED <<runtime, worker, other, older, ask, misled>>

\* CancelSend: session/cancel, which the agent may answer with the end of the turn, and
\* the end of the context.
CancelSend ==
    /\ turn.pc \notin {"idle", "closed"} /\ ~turn.cancelled
    /\ CtxEnds("cancelled")
    /\ turn' = [turn EXCEPT !.cancelled = TRUE]
    /\ UNCHANGED <<runtime, worker, other, older, ask, misled>>

\* DeleteSession.
Kill ==
    /\ worker # 0
    /\ worker' = 0 /\ Close(worker, "killed")
    /\ UNCHANGED <<runtime, turn, other, older, ask, misled>>

\* Whether the session shows as running.
Has == worker # 0 /\ kids[worker].busy

Turn == promptDone \/ EmitExit \/ CtxDone \/ ChildDone

Next ==
    \/ \E k \in Kids : Reap(k) \/ Crash(k) \/ spawnWorker(k) \/ Request(k)
    \/ Begin \/ workerFor \/ SpawnFails \/ Attach \/ AttachFails
    \/ OtherTurn \/ OtherDone
    \/ \E fails \in BOOLEAN : runTurn(fails)
    \/ \E kind \in {"text", "tool", "progress"} : ReadUpdate(kind)
    \/ \E result \in {"ok", "error"} : ReadResponse(result)
    \/ CallEnds \/ Show \/ Turn \/ Take \/ releaseSend \/ CancelSend \/ Kill
    \/ \E options \in Offers, decision \in Decisions : Decide(options, decision)

\* Goroutines run, and a process that is killed or has no input ends.
Fairness ==
    /\ WF_acpVars(Turn) /\ WF_acpVars(Take) /\ WF_acpVars(releaseSend)
    /\ \A k \in Kids : WF_acpVars(Reap(k))

Spec == Init /\ [][Next]_acpVars /\ Fairness

(* ---------------- properties ---------------- *)
\* No process is left behind: one that lives is the registered worker, is being
\* attached, or has had its input closed or its context ended.
NoneLeft ==
    \A k \in Kids : kids[k].state = "alive" /\ kids[k].in =>
      worker = k \/ (turn.pc = "attach" /\ turn.kid = k)

\* The cap never costs a turn that has its prompt its process, and a session shows as
\* running only while it has a turn.
EvictionSpares ==
    /\ Prompted => kids[turn.kid].end # "evicted"
    /\ Has => turn.pc \in {"turn", "exit"}

\* A turn whose stream is closed and read has been told to have ended or failed, except
\* one that was cancelled or whose error met a full stream.
EndIsTold ==
    turn.pc = "closed" /\ turn.out = <<>> => turn.told \/ turn.cancelled \/ turn.dropped

\* A decision reaches the agent as the option of its kind where the agent offers one.
DecisionStands == ~misled

\* A turn that was cancelled, or whose process has ended, is over for the router.
TurnsEnd ==
    turn.pc = "turn" /\ (turn.cancelled \/ Gone(turn.kid)) ~> turn.pc = "idle"

\* "One long-lived `kiro-cli acp` child per active session" (kiro.go:3): the process
\* outlives the turn it was started for.
LongLived == \A k \in Kids : kids[k].end # "released"
=============================================================================
