------------------------------- MODULE Router -------------------------------
(***************************************************************************)
(* The send lifecycle of internal/router/router.go: how a prompt that a    *)
(* frontend, the agent or a plugin hands to enqueueSend claims its         *)
(* session, waits in the session's queue, runs as a turn (runSend), and    *)
(* hands the session to the next one (releaseSend); and the operations     *)
(* that cut across it: CancelSend, PauseSession, DeleteSession.            *)
(*                                                                         *)
(* A send IS its token: sendToken has pointer identity and one is made for *)
(* every send that runs.  Each goroutine is modelled at the granularity of *)
(* its sendMu critical sections, its broker publications and its calls     *)
(* into the backend; everything in between is local to the goroutine.      *)
(* The backend is free: it may refuse the prompt, end the stream with an   *)
(* exit or without one, and keep it open after the exit.                   *)
(***************************************************************************)
EXTENDS Naturals, Sequences, FiniteSets

CONSTANTS
    Sends,      \* calls of enqueueSend
    Sessions,
    SessionOf,  \* the session each send is addressed to
    ReadOnly,   \* subagent transcripts and transcript-only backends
    Ops,        \* calls of CancelSend, PauseSession and DeleteSession
    MaxQueued,  \* maxQueuedSends
    None

ASSUME SendsAssumption ==
    /\ SessionOf \in [Sends -> Sessions]
    /\ ReadOnly \subseteq Sessions
    /\ MaxQueued \in Nat \ {0}
    /\ None \notin Sends
    /\ IsFiniteSet(Sends)

VARIABLES
    discovered, \* sessions discovery.Get resolves
    active,     \* activeSend: the token of the session's in-flight turn
    queue,      \* sendQueue
    pc,         \* where the goroutine that carries the send stands
    cancelled,  \* tokens whose context is cancelled
    op,         \* the cancel, pause and delete calls
    ticket,     \* history: the order in which sendMu accepted the sends
    tickets     \* history: the last ticket given

vars == <<discovered, active, queue, pc, cancelled, op, ticket, tickets>>

-----------------------------------------------------------------------------
(* Where a send stands.                                                    *)

\* Owns activeSend: claimed, not yet past its own exit and markSendIdle.
Owning == {"promoted", "claimed", "sending", "streaming", "exited"}
\* Runs in the backend, as far as the router knows.
Running == {"sending", "streaming", "exited"}
\* Still owes the session a releaseSend.
Unreleased == Owning \cup {"draining", "failing", "releasing"}
\* Nothing is left of the send that a stop could still stop.
Over == {"draining", "failing", "releasing", "done", "dropped", "rejected"}
PCs == {"new", "locking", "queued"} \cup Unreleased \cup Over

OpKinds == {"cancel", "pause", "delete"}
NoOp == [at |-> "idle", kind |-> "cancel", session |-> None, tok |-> None,
         before |-> {}]

At(t, where) == pc[t] = where
Go(t, where) == pc' = [pc EXCEPT ![t] = where]

Init ==
    /\ discovered \in SUBSET Sessions
    /\ active = [s \in Sessions |-> None]
    /\ queue = [s \in Sessions |-> <<>>]
    /\ pc = [t \in Sends |-> "new"]
    /\ cancelled = {}
    /\ op = [o \in Ops |-> NoOp]
    /\ ticket = [t \in Sends |-> 0]
    /\ tickets = 0

-----------------------------------------------------------------------------
(* enqueueSend                                                             *)

\* The checks made before sendMu is taken.  MarkInput only moves the session
\* in the sidebar.
Check(t) ==
    /\ At(t, "new")
    /\ IF SessionOf[t] \in discovered \ ReadOnly
       THEN Go(t, "locking")
       ELSE Go(t, "rejected")
    /\ UNCHANGED <<discovered, active, queue, cancelled, op, ticket, tickets>>

\* Two slips of Busy: it forgets the queue, or the turn.
BusyTurnOnly(s) == active[s] # None
BusyQueueOnly(s) == queue[s] # <<>>

Busy(s) == active[s] # None \/ queue[s] # <<>>

Stamp(t) ==
    /\ tickets' = tickets + 1
    /\ ticket' = [ticket EXCEPT ![t] = tickets + 1]

Claim(t) ==
    LET s == SessionOf[t] IN
    /\ At(t, "locking")
    /\ ~Busy(s)
    /\ active' = [active EXCEPT ![s] = t]
    /\ Go(t, "claimed")
    /\ Stamp(t)
    /\ UNCHANGED <<discovered, queue, cancelled, op>>

\* A slip of Queue: one too many.
QueueOneTooMany(t) ==
    LET s == SessionOf[t] IN
    /\ At(t, "locking")
    /\ Busy(s)
    /\ Len(queue[s]) <= MaxQueued
    /\ queue' = [queue EXCEPT ![s] = Append(@, t)]
    /\ Go(t, "queued")
    /\ Stamp(t)
    /\ UNCHANGED <<discovered, active, cancelled, op>>

Queue(t) ==
    LET s == SessionOf[t] IN
    /\ At(t, "locking")
    /\ Busy(s)
    /\ Len(queue[s]) < MaxQueued
    /\ queue' = [queue EXCEPT ![s] = Append(@, t)]
    /\ Go(t, "queued")
    /\ Stamp(t)
    /\ UNCHANGED <<discovered, active, cancelled, op>>

QueueFull(t) ==
    /\ At(t, "locking")
    /\ Busy(SessionOf[t])
    /\ Len(queue[SessionOf[t]]) >= MaxQueued
    /\ Go(t, "rejected")
    /\ UNCHANGED <<discovered, active, queue, cancelled, op, ticket, tickets>>

\* pre(), then startTurn's goroutine.  pre is where a relay subscribes.
Start(t) ==
    /\ At(t, "claimed")
    /\ Go(t, "sending")
    /\ UNCHANGED <<discovered, active, queue, cancelled, op, ticket, tickets>>

-----------------------------------------------------------------------------
(* runSend                                                                 *)

\* markSendIdle: only the owner clears activeSend, and nobody is promoted.
MarkSendIdle(t) ==
    LET s == SessionOf[t] IN
    active' = [active EXCEPT ![s] = IF @ = t THEN None ELSE @]

\* The backend took the prompt and returned its event channel.
SendOk(t) ==
    /\ At(t, "sending")
    /\ Go(t, "streaming")
    /\ UNCHANGED <<discovered, active, queue, cancelled, op, ticket, tickets>>

\* No transcript format, no runtime, or Send failed: the running bit is
\* cleared first, the error published after.
SendFail(t) ==
    /\ At(t, "sending")
    /\ MarkSendIdle(t)
    /\ Go(t, "failing")
    /\ UNCHANGED <<discovered, queue, cancelled, op, ticket, tickets>>

PublishFailure(t) ==
    /\ At(t, "failing")
    /\ Go(t, "releasing")
    /\ UNCHANGED <<discovered, active, queue, cancelled, op, ticket, tickets>>

\* The exit is published first and the running bit cleared after.
PublishExit(t) ==
    /\ At(t, "streaming")
    /\ Go(t, "exited")
    /\ UNCHANGED <<discovered, active, queue, cancelled, op, ticket, tickets>>

Idle(t) ==
    /\ At(t, "exited")
    /\ MarkSendIdle(t)
    /\ Go(t, "draining")
    /\ UNCHANGED <<discovered, queue, cancelled, op, ticket, tickets>>

\* The range over the channel ends, with or without an exit before: some
\* backends end a turn on an error, and a cancelled one often silently.
StreamClosed(t) ==
    /\ pc[t] \in {"streaming", "draining"}
    /\ Go(t, "releasing")
    /\ UNCHANGED <<discovered, active, queue, cancelled, op, ticket, tickets>>

-----------------------------------------------------------------------------
(* releaseSend: one critical section clears the session if this token still *)
(* owns it and promotes the head of the queue if nobody else does; the      *)
(* token is cancelled behind it.                                            *)

\* A slip of Freed: whoever releases clears the session.
FreedByAnyone(t) == None

Freed(t) ==
    LET s == SessionOf[t] IN IF active[s] = t THEN None ELSE active[s]

\* A slip of Promotes: only an owner promotes.
PromotesAsOwner(t) == active[SessionOf[t]] = t /\ queue[SessionOf[t]] # <<>>

Promotes(t) == Freed(t) = None /\ queue[SessionOf[t]] # <<>>

ReleaseAndPromote(t) ==
    LET s == SessionOf[t]
        n == Head(queue[s]) IN
    /\ At(t, "releasing")
    /\ Promotes(t)
    /\ active' = [active EXCEPT ![s] = n]
    /\ queue' = [queue EXCEPT ![s] = Tail(@)]
    /\ pc' = [pc EXCEPT ![t] = "done", ![n] = "promoted"]
    /\ cancelled' = cancelled \cup {t}
    /\ UNCHANGED <<discovered, op, ticket, tickets>>

ReleaseOnly(t) ==
    /\ At(t, "releasing")
    /\ ~Promotes(t)
    /\ active' = [active EXCEPT ![SessionOf[t]] = Freed(t)]
    /\ Go(t, "done")
    /\ cancelled' = cancelled \cup {t}
    /\ UNCHANGED <<discovered, queue, op, ticket, tickets>>

\* The promoted send looks its session up again, outside the lock.
PromotedFound(t) ==
    /\ At(t, "promoted")
    /\ SessionOf[t] \in discovered
    /\ Go(t, "claimed")
    /\ UNCHANGED <<discovered, active, queue, cancelled, op, ticket, tickets>>

\* A slip of PromotedVanished: the abort without the release.
PromotedVanishedUnreleased(t) ==
    /\ At(t, "promoted")
    /\ SessionOf[t] \notin discovered
    /\ Go(t, "dropped")
    /\ UNCHANGED <<discovered, active, queue, cancelled, op, ticket, tickets>>

\* The session is gone: abort, and release the new token to drain the queue.
PromotedVanished(t) ==
    /\ At(t, "promoted")
    /\ SessionOf[t] \notin discovered
    /\ Go(t, "releasing")
    /\ UNCHANGED <<discovered, active, queue, cancelled, op, ticket, tickets>>

-----------------------------------------------------------------------------
(* CancelSend, PauseSession, DeleteSession                                 *)

\* The sends of s that a stop called now is meant to reach.
Accepted(s) == {t \in Sends : SessionOf[t] = s /\ pc[t] \in {"queued"} \cup Owning}

Becomes(o, r) == op' = [op EXCEPT ![o] = r]

\* CancelSend reads the token before it flushes the queue.
CancelSend(o, s) ==
    /\ op[o].at = "idle"
    /\ active[s] # None
    /\ Becomes(o, [at |-> "flush", kind |-> "cancel", session |-> s,
                   tok |-> active[s], before |-> Accepted(s)])
    /\ UNCHANGED <<discovered, active, queue, pc, cancelled, ticket, tickets>>

\* A slip of StopLive: the queue is not flushed.
StopLiveNoFlush(o, s, kind) ==
    /\ op[o].at = "idle"
    /\ kind \in {"pause", "delete"}
    /\ s \in discovered
    /\ kind = "delete" => s \notin ReadOnly
    /\ Becomes(o, [at |-> "read", kind |-> kind, session |-> s,
                   tok |-> None, before |-> Accepted(s)])
    /\ UNCHANGED <<discovered, active, queue, pc, cancelled, ticket, tickets>>

\* PauseSession and DeleteSession flush first (stopLive).
StopLive(o, s, kind) ==
    /\ op[o].at = "idle"
    /\ kind \in {"pause", "delete"}
    /\ s \in discovered
    /\ kind = "delete" => s \notin ReadOnly
    /\ Becomes(o, [at |-> "flush", kind |-> kind, session |-> s,
                   tok |-> None, before |-> Accepted(s)])
    /\ UNCHANGED <<discovered, active, queue, pc, cancelled, ticket, tickets>>

\* flushSendQueue: take the whole queue under the lock, abort each send.
FlushSendQueue(o) ==
    LET s == op[o].session IN
    /\ op[o].at = "flush"
    /\ queue' = [queue EXCEPT ![s] = <<>>]
    /\ pc' = [t \in Sends |->
                IF \E i \in DOMAIN queue[s] : queue[s][i] = t
                THEN "dropped" ELSE pc[t]]
    /\ Becomes(o, [op[o] EXCEPT !.at =
                     IF op[o].kind = "cancel" THEN "cancel" ELSE "read"])
    /\ UNCHANGED <<discovered, active, cancelled, ticket, tickets>>

ReadToken(o) ==
    /\ op[o].at = "read"
    /\ Becomes(o, [op[o] EXCEPT !.tok = active[op[o].session], !.at = "cancel"])
    /\ UNCHANGED <<discovered, active, queue, pc, cancelled, ticket, tickets>>

\* tok.cancel(), with the Interrupt before it (CancelSend) or the Kill after
\* it (stopLive): the backend may end the turn's stream at any later point.
CancelToken(o) ==
    /\ op[o].at = "cancel"
    /\ cancelled' = cancelled \cup ({op[o].tok} \ {None})
    /\ Becomes(o, [op[o] EXCEPT !.at =
                     IF op[o].kind = "delete" THEN "remove" ELSE "returned"])
    /\ UNCHANGED <<discovered, active, queue, pc, ticket, tickets>>

\* The file, the native state and the discovery entry go.
RemoveSession(o) ==
    /\ op[o].at = "remove"
    /\ discovered' = discovered \ {op[o].session}
    /\ Becomes(o, [op[o] EXCEPT !.at = "returned"])
    /\ UNCHANGED <<active, queue, pc, cancelled, ticket, tickets>>

\* A session log appears or disappears on disk by itself.
Appear(s) ==
    /\ s \notin discovered
    /\ discovered' = discovered \cup {s}
    /\ UNCHANGED <<active, queue, pc, cancelled, op, ticket, tickets>>

Vanish(s) ==
    /\ s \in discovered
    /\ discovered' = discovered \ {s}
    /\ UNCHANGED <<active, queue, pc, cancelled, op, ticket, tickets>>

-----------------------------------------------------------------------------
\* What a send's goroutine does on its own once the send was accepted.  The
\* last two are the backend ending its turn.
Advance(t) ==
    \/ Claim(t) \/ Queue(t) \/ QueueFull(t)
    \/ Start(t) \/ SendOk(t) \/ SendFail(t) \/ PublishFailure(t)
    \/ Idle(t) \/ ReleaseAndPromote(t) \/ ReleaseOnly(t)
    \/ PromotedFound(t) \/ PromotedVanished(t)
    \/ PublishExit(t) \/ StreamClosed(t)

Operate(o) ==
    FlushSendQueue(o) \/ ReadToken(o) \/ CancelToken(o) \/ RemoveSession(o)

Next ==
    \/ \E t \in Sends : Check(t) \/ Advance(t)
    \/ \E o \in Ops : \/ Operate(o)
                      \/ \E s \in Sessions : \/ CancelSend(o, s)
                                             \/ \E k \in OpKinds : StopLive(o, s, k)
    \/ \E s \in Sessions : Appear(s) \/ Vanish(s)

Spec == Init /\ [][Next]_vars

\* Goroutines are scheduled, and every backend stream ends (StreamClosed and
\* PublishExit are part of Advance).
Fairness == \A t \in Sends : WF_vars(Advance(t))

FairSpec == Spec /\ Fairness
-----------------------------------------------------------------------------
(* Properties                                                              *)

OpType == [at : {"idle", "flush", "read", "cancel", "remove", "returned"},
           kind : OpKinds, session : Sessions \cup {None},
           tok : Sends \cup {None}, before : SUBSET Sends]

\* The state of the router is what its Go declarations say.
TypeOK ==
    /\ discovered \subseteq Sessions
    /\ active \in [Sessions -> Sends \cup {None}]
    /\ queue \in [Sessions -> Seq(Sends)]
    /\ pc \in [Sends -> PCs]
    /\ cancelled \subseteq Sends
    /\ op \in [Ops -> OpType]
    /\ \A o \in Ops : op[o].at # "idle" => op[o].session \in Sessions
    /\ ticket \in [Sends -> Nat]
    /\ tickets \in Nat

Same(t, u) == t # u /\ SessionOf[t] = SessionOf[u]

\* Two turns of one session never overlap: from the claim of the session
\* until its exit is published, a turn is the only one (enqueueSend's
\* "Serializing usher-injected turns per session").
TurnsSerialized ==
    \A t, u \in Sends : Same(t, u) /\ pc[t] \in Owning => pc[u] \notin Owning

\* The queue of a session is never left without a goroutine that will promote
\* its head: whoever empties activeSend early (markSendIdle) still owes a
\* releaseSend.
NoStrandedQueue ==
    \A s \in Sessions : queue[s] # <<>> =>
        \E t \in Sends : SessionOf[t] = s /\ pc[t] \in Unreleased

\* Sends of a session start in the order sendMu accepted them: no send has
\* started while one accepted before it still waits.
StartedInOrder ==
    \A t, u \in Sends :
        /\ Same(t, u)
        /\ ticket[t] # 0
        /\ ticket[t] < ticket[u]
        /\ pc[u] \in Running \cup {"draining"}
        => pc[t] \notin {"queued", "promoted", "claimed"}

\* stopLive "drops a session to idle": when PauseSession or DeleteSession
\* returns, every send the session had accepted before the call is over or
\* its context is cancelled - wherever it was promoted to in between.
StopReachesEverySend ==
    \A o \in Ops :
        op[o].kind \in {"pause", "delete"} /\ op[o].at \in {"remove", "returned"} =>
            \A t \in op[o].before : pc[t] \in Over \/ t \in cancelled

\* The same for CancelSend, which its comment promises: it drops the queued
\* follow-ups "before cancelling the turn, so releaseSend finds nothing to
\* promote".
CancelReachesEverySend ==
    \A o \in Ops :
        op[o].kind = "cancel" /\ op[o].at = "returned" =>
            \A t \in op[o].before : pc[t] \in Over \/ t \in cancelled

\* Every send whose caller got past the checks is eventually settled, and its
\* session handed on: nothing waits forever behind a turn that has ended.  A
\* send goes this way once and there are finitely many, so each is settled if
\* again and again all are.
Settled(t) == pc[t] \in {"new", "done", "dropped", "rejected"}
EverySendSettles == []<>(\A t \in Sends : Settled(t))

-----------------------------------------------------------------------------
(* The inductive invariant behind them (RouterProofs.tla).                 *)

Submitted(t) == pc[t] \notin {"new", "locking", "rejected"}

\* The token in activeSend belongs to a turn that will clear it, and every
\* turn between its claim and its exit holds it.
ActiveOwned ==
    /\ \A s \in Sessions : active[s] # None =>
         /\ SessionOf[active[s]] = s
         /\ pc[active[s]] \in Owning \cup {"releasing"}
    /\ \A t \in Sends : pc[t] \in Owning => active[SessionOf[t]] = t

\* The queue holds exactly the queued sends, oldest first.
QueueExact ==
    /\ \A s \in Sessions : \A i \in 1..Len(queue[s]) :
         /\ pc[queue[s][i]] = "queued"
         /\ SessionOf[queue[s][i]] = s
    /\ \A t \in Sends : pc[t] = "queued" =>
         \E i \in 1..Len(queue[SessionOf[t]]) : queue[SessionOf[t]][i] = t
    /\ \A s \in Sessions : \A i, j \in 1..Len(queue[s]) :
         i < j => ticket[queue[s][i]] < ticket[queue[s][j]]

\* Tickets grow; whoever has left the queue is older than whoever is in it;
\* whoever is about to start is younger than whatever has started.
TicketOrder ==
    /\ \A t \in Sends : ticket[t] <= tickets /\ (Submitted(t) => ticket[t] # 0)
    /\ \A t, u \in Sends :
         /\ Same(t, u)
         /\ pc[t] = "queued"
         /\ Submitted(u)
         /\ pc[u] # "queued"
         => ticket[u] < ticket[t]
    /\ \A t, u \in Sends :
         /\ Same(t, u)
         /\ pc[t] \in {"promoted", "claimed"}
         /\ pc[u] \in Running \cup {"draining"}
         => ticket[u] < ticket[t]

\* What a stop has achieved at each of its steps.
StopProgress ==
    \A o \in Ops : op[o].at # "idle" =>
        \A t \in op[o].before :
            /\ SessionOf[t] = op[o].session
            /\ op[o].kind \in {"pause", "delete"} =>
                 CASE op[o].at = "flush" -> pc[t] \in Over \cup Owning \cup {"queued"}
                   [] op[o].at = "read" -> pc[t] \in Over \cup Owning
                   [] op[o].at = "cancel" -> pc[t] \in Over \/ t = op[o].tok
                   [] OTHER -> pc[t] \in Over \/ t \in cancelled

RouterInv ==
    /\ TypeOK
    /\ ActiveOwned
    /\ NoStrandedQueue
    /\ QueueExact
    /\ TicketOrder
    /\ StopProgress

-----------------------------------------------------------------------------
\* The promise Router implements: the lane of a session serves its owner.
Lane == INSTANCE SendLane WITH
            serving <- active,
            waiting <- queue,
            fresh <- {t \in Sends : pc[t] \in {"new", "locking"}}

\* Every step of the router is a step of SendLane or changes nothing there.
ImplementsLane == Lane!Spec
=============================================================================
