----------------------------- MODULE PiRuntime ------------------------------
(***************************************************************************)
(* The pool of warm pi workers: internal/pi/runtime.go.                    *)
(*                                                                         *)
(* A worker is one pi process with one goroutine (readLoop) that hands     *)
(* responses to the request that waits and events to a bounded channel.    *)
(* A turn's goroutine reads that channel until the agent settles, the      *)
(* process exits or the turn is cancelled; between two turns nobody does.  *)
(*                                                                         *)
(* Deltas, retries, the JSONL tail and the quiet period of settle() only   *)
(* shape the stream and are left out.  The delay of the output pipe is     *)
(* folded into the process: a line is written when readLoop handles it.    *)
(***************************************************************************)
EXTENDS Naturals, FiniteSets, Sequences

CONSTANTS
    Sessions,
    Sends,      \* calls of Start and Send
    Fresh,      \* those of Start: the first turn of a new session
    MaxLive,    \* Runtime.max
    MaxSpawns,  \* bound: processes ever started
    EventCap,   \* capacity of client.events (128)
    None        \* no value

ASSUME PiAssumption ==
    /\ Fresh \subseteq Sends
    /\ MaxLive \in Nat \ {0}
    /\ MaxSpawns \in Nat \ {0}
    /\ EventCap \in Nat \ {0}
    /\ None \notin Sends \cup Sessions \cup {"exit", "cancelled"}
    /\ Sends \cap {"exit", "cancelled"} = {}

Procs == 1..MaxSpawns

VARIABLES
    sess,       \* the session of each send
    pc,         \* where it stands
    worker,     \* its worker (0: none yet)
    dialog,     \* the prompt whose dialog its goroutine handles
    endedBy,    \* how its turn ended: the prompt whose agent_settled it read,
                \* "exit", "cancelled"
    cancelled,  \* the sends whose context is over
    pool,       \* Runtime.workers: [Sessions -> Procs \cup {0}]
    spawned,    \* processes started so far
    busy,       \* worker.busy
    stops,      \* the workers stop() is called for
    events,     \* client.events
    held,       \* the event readLoop waits to put there
    closed,     \* readLoop has closed the channel and the open requests
    exited,     \* the process has
    stdin,      \* prompts written and not taken up
    agent,      \* the prompt pi works on
    ui          \* its extension dialog: none yet, open, over (bound: one a prompt)

sendVars == <<pc, worker, dialog, endedBy>>
poolVars == <<pool, spawned, busy, stops>>
readVars == <<events, held, closed>>
piVars == <<exited, stdin, agent, ui>>
vars == <<sess, sendVars, cancelled, poolVars, readVars, piVars>>

\* A session that Start creates has one Start.
Init ==
    /\ sess \in {f \in [Sends -> Sessions] :
                   \A q, t \in Fresh : f[q] = f[t] => q = t}
    /\ pc = [q \in Sends |-> "new"]
    /\ worker = [q \in Sends |-> 0]
    /\ dialog = [q \in Sends |-> None]
    /\ endedBy = [q \in Sends |-> None]
    /\ cancelled = {}
    /\ pool = [s \in Sessions |-> 0]
    /\ spawned = 0
    /\ busy = [p \in Procs |-> FALSE]
    /\ stops = {}
    /\ events = [p \in Procs |-> <<>>]
    /\ held = [p \in Procs |-> <<>>]
    /\ closed = [p \in Procs |-> FALSE]
    /\ exited = [p \in Procs |-> FALSE]
    /\ stdin = [p \in Procs |-> <<>>]
    /\ agent = [p \in Procs |-> None]
    /\ ui = [p \in Procs |-> "none"]

-----------------------------------------------------------------------------
(* Start and Send up to the prompt.                                         *)

Go(q, where) == pc' = [pc EXCEPT ![q] = where]
Owner(p) == {s \in Sessions : pool[s] = p}
Remove(S) == pool' = [s \in Sessions |-> IF s \in S THEN 0 ELSE pool[s]]

Turn == {"claimed", "asked", "reading", "asking"}
Running == {"adding", "found"} \cup Turn

\* The router runs one send of a session at a time (Router.TurnsSerialized),
\* and a session that Start creates is known once Start has returned.
MaySend(q) ==
    /\ pc[q] = "new"
    /\ \A t \in Sends : sess[t] = sess[q] /\ t # q =>
         /\ pc[t] \notin Running
         /\ t \in Fresh => pc[t] # "new"

Lookup(q) ==
    /\ q \notin Fresh
    /\ MaySend(q)
    /\ pool[sess[q]] # 0
    /\ worker' = [worker EXCEPT ![q] = pool[sess[q]]]
    /\ Go(q, "found")
    /\ UNCHANGED <<sess, dialog, endedBy, cancelled, poolVars, readVars, piVars>>

Spawn(q) ==
    /\ MaySend(q)
    /\ pool[sess[q]] = 0
    /\ spawned < MaxSpawns
    /\ spawned' = spawned + 1
    /\ worker' = [worker EXCEPT ![q] = spawned']
    /\ Go(q, "adding")
    /\ UNCHANGED <<sess, dialog, endedBy, cancelled, pool, busy, stops,
                   readVars, piVars>>

\* No session file, or the command does not start.
SpawnFails(q) ==
    /\ MaySend(q)
    /\ pool[sess[q]] = 0
    /\ Go(q, "failed")
    /\ UNCHANGED <<sess, worker, dialog, endedBy, cancelled, poolVars, readVars,
                   piVars>>

Pooled == {s \in Sessions : pool[s] # 0}

\* A slip of Full: one worker too many.
FullOneTooMany == Cardinality(Pooled) > MaxLive
Full == Cardinality(Pooled) >= MaxLive

\* A worker that a Send has looked up and not claimed yet counts as idle.
Evictable == {s \in Pooled : ~busy[pool[s]]}
Victims == IF Full THEN {{s} : s \in Evictable} ELSE {{}}

Add(q, V) ==
    /\ pc[q] = "adding"
    /\ pool[sess[q]] = 0
    /\ V \in Victims
    /\ pool' = [s \in Sessions |-> CASE s = sess[q] -> worker[q]
                                     [] s \in V -> 0
                                     [] OTHER -> pool[s]]
    /\ stops' = stops \cup {pool[s] : s \in V}
    /\ Go(q, "found")
    /\ UNCHANGED <<sess, worker, dialog, endedBy, cancelled, spawned, busy,
                   readVars, piVars>>

\* add refuses, or Start's get_state fails: the new process is stopped.
AddFails(q) ==
    /\ pc[q] = "adding"
    /\ q \in Fresh \/ pool[sess[q]] # 0 \/ Victims = {}
    /\ stops' = stops \cup {worker[q]}
    /\ Go(q, "failed")
    /\ UNCHANGED <<sess, worker, dialog, endedBy, cancelled, pool, spawned,
                   busy, readVars, piVars>>

-----------------------------------------------------------------------------
(* prompt: the claim, the request and its answer.                           *)

Claim(q) ==
    /\ pc[q] = "found"
    /\ ~busy[worker[q]]
    /\ busy' = [busy EXCEPT ![worker[q]] = TRUE]
    /\ Go(q, "claimed")
    /\ UNCHANGED <<sess, worker, dialog, endedBy, cancelled, pool, spawned,
                   stops, readVars, piVars>>

\* The request has failed.  Start gives its worker up as well.
\* A slip of Unclaim: the worker stays busy.
UnclaimNot(q) ==
    /\ UNCHANGED busy
    /\ UNCHANGED <<spawned, pool, stops>>
    /\ Go(q, "failed")
Unclaim(q) ==
    /\ busy' = [busy EXCEPT ![worker[q]] = FALSE]
    /\ IF q \in Fresh
         THEN /\ Remove(Owner(worker[q]))
              /\ stops' = stops \cup {worker[q]}
         ELSE UNCHANGED <<pool, stops>>
    /\ Go(q, "failed")
    /\ UNCHANGED spawned

\* The write succeeds as long as the process runs and stop() has not closed
\* its input.
Request(q) ==
    /\ pc[q] = "claimed"
    /\ ~exited[worker[q]]
    /\ stdin' = [stdin EXCEPT ![worker[q]] = Append(@, q)]
    /\ Go(q, "asked")
    /\ UNCHANGED <<sess, worker, dialog, endedBy, cancelled, poolVars, readVars,
                   exited, agent, ui>>

WriteFails(q) ==
    /\ pc[q] = "claimed"
    /\ exited[worker[q]] \/ worker[q] \in stops
    /\ Unclaim(q)
    /\ UNCHANGED <<sess, worker, dialog, endedBy, cancelled, readVars, piVars>>

\* The context ends while the request waits: pi may take the prompt up later.
RequestCancelled(q) ==
    /\ pc[q] = "asked"
    /\ q \in cancelled
    /\ endedBy' = [endedBy EXCEPT ![q] = "cancelled"]
    /\ Unclaim(q)
    /\ UNCHANGED <<sess, worker, dialog, cancelled, readVars, piVars>>

\* readLoop hands pi's response to the request, if it still waits.
TakePrompt(p) ==
    /\ ~exited[p]
    /\ held[p] = <<>>
    /\ stdin[p] # <<>>
    /\ agent[p] = None
    /\ agent' = [agent EXCEPT ![p] = Head(stdin[p])]
    /\ stdin' = [stdin EXCEPT ![p] = Tail(@)]
    /\ pc' = IF pc[Head(stdin[p])] = "asked"
               THEN [pc EXCEPT ![Head(stdin[p])] = "reading"] ELSE pc
    /\ ui' = [ui EXCEPT ![p] = "none"]
    /\ UNCHANGED <<sess, worker, dialog, endedBy, cancelled, poolVars, readVars,
                   exited>>

Refuse(p) ==
    /\ ~exited[p]
    /\ held[p] = <<>>
    /\ stdin[p] # <<>>
    /\ stdin' = [stdin EXCEPT ![p] = Tail(@)]
    /\ IF pc[Head(stdin[p])] = "asked"
         THEN Unclaim(Head(stdin[p]))
         ELSE UNCHANGED <<pc, poolVars>>
    /\ UNCHANGED <<sess, worker, dialog, endedBy, cancelled, readVars, exited,
                   agent, ui>>

-----------------------------------------------------------------------------
(* Events: written by pi, put on the channel by readLoop.                   *)

Event == [type : {"settled", "ask"}, of : Sends]

\* c.events <- raw: readLoop waits while the channel is full.
Emit(p, e) ==
    /\ ~exited[p]
    /\ held[p] = <<>>
    /\ IF Len(events[p]) < EventCap
         THEN events' = [events EXCEPT ![p] = Append(@, e)] /\ UNCHANGED held
         ELSE held' = [held EXCEPT ![p] = <<e>>] /\ UNCHANGED events
    /\ UNCHANGED <<sess, sendVars, cancelled, poolVars, closed, exited, stdin>>

Ask(p) ==
    /\ agent[p] # None
    /\ ui[p] = "none"
    /\ Emit(p, [type |-> "ask", of |-> agent[p]])
    /\ ui' = [ui EXCEPT ![p] = "open"]
    /\ UNCHANGED agent

Settle(p) ==
    /\ agent[p] # None
    /\ ui[p] # "open"
    /\ Emit(p, [type |-> "settled", of |-> agent[p]])
    /\ agent' = [agent EXCEPT ![p] = None]
    /\ UNCHANGED ui

\* Interrupt's abort request: pi drops its dialog and winds down to Settle.
Abort(p) ==
    /\ ~exited[p]
    /\ ui[p] = "open"
    /\ ui' = [ui EXCEPT ![p] = "over"]
    /\ UNCHANGED <<sess, sendVars, cancelled, poolVars, readVars, exited, stdin,
                   agent>>

Exit(p) ==
    /\ p <= spawned
    /\ ~exited[p]
    /\ exited' = [exited EXCEPT ![p] = TRUE]
    /\ stdin' = [stdin EXCEPT ![p] = <<>>]
    /\ agent' = [agent EXCEPT ![p] = None]
    /\ ui' = [ui EXCEPT ![p] = "none"]
    /\ UNCHANGED <<sess, sendVars, cancelled, poolVars, readVars>>

\* The end of readLoop: the requests that wait fail.
\* A slip of FailRequests: the channel closes and the requests wait on.
FailNoRequest(p) == UNCHANGED <<pc, poolVars>>
FailRequests(p) ==
    \/ \E q \in Sends : worker[q] = p /\ pc[q] = "asked" /\ Unclaim(q)
    \/ /\ \A q \in Sends : ~(worker[q] = p /\ pc[q] = "asked")
       /\ UNCHANGED <<pc, poolVars>>

CloseEvents(p) ==
    /\ exited[p]
    /\ held[p] = <<>>
    /\ ~closed[p]
    /\ closed' = [closed EXCEPT ![p] = TRUE]
    /\ FailRequests(p)
    /\ UNCHANGED <<sess, worker, dialog, endedBy, cancelled, events, held, piVars>>

-----------------------------------------------------------------------------
(* The goroutine of a turn.                                                 *)

\* The exit event, the deferred release of the worker (unless it has left the
\* pool) and the close of the stream.
EndTurn(q, how) ==
    /\ endedBy' = [endedBy EXCEPT ![q] = how]
    /\ Go(q, "over")
    /\ busy' = IF pool[sess[q]] = worker[q]
                 THEN [busy EXCEPT ![worker[q]] = FALSE] ELSE busy
    /\ UNCHANGED <<sess, worker, dialog, cancelled, pool, spawned, stops, piVars>>

FrontEvent(q) == events[worker[q]][1]
HasEvent(q, type) ==
    /\ pc[q] = "reading"
    /\ events[worker[q]] # <<>>
    /\ FrontEvent(q).type = type

\* What readLoop held moves up into the room a receive makes.
Receive(p) ==
    /\ events' = [events EXCEPT ![p] = Tail(@) \o held[p]]
    /\ held' = [held EXCEPT ![p] = <<>>]
    /\ UNCHANGED closed

ReadSettled(q) ==
    /\ HasEvent(q, "settled")
    /\ EndTurn(q, FrontEvent(q).of)
    /\ Receive(worker[q])

\* A slip of ReadAsk: the turn ends at the dialog.
ReadAskEnds(q) ==
    /\ HasEvent(q, "ask")
    /\ EndTurn(q, FrontEvent(q).of)
    /\ Receive(worker[q])
ReadAsk(q) ==
    /\ HasEvent(q, "ask")
    /\ dialog' = [dialog EXCEPT ![q] = FrontEvent(q).of]
    /\ Go(q, "asking")
    /\ Receive(worker[q])
    /\ UNCHANGED <<sess, worker, endedBy, cancelled, poolVars, piVars>>

\* hook.Submit returns, with a decision or because the turn is cancelled, and
\* the answer is written.  pi takes it if it is for the dialog it shows.
Answer(q) ==
    /\ pc[q] = "asking"
    /\ Go(q, "reading")
    /\ dialog' = [dialog EXCEPT ![q] = None]
    /\ ui' = IF agent[worker[q]] = dialog[q]
               THEN [ui EXCEPT ![worker[q]] = "over"] ELSE ui
    /\ UNCHANGED <<sess, worker, endedBy, cancelled, poolVars, readVars, exited,
                   stdin, agent>>

ReadClosed(q) ==
    /\ pc[q] = "reading"
    /\ closed[worker[q]]
    /\ events[worker[q]] = <<>>
    /\ EndTurn(q, "exit")
    /\ UNCHANGED readVars

ReadCancelled(q) ==
    /\ pc[q] = "reading"
    /\ q \in cancelled
    /\ EndTurn(q, "cancelled")
    /\ UNCHANGED readVars

-----------------------------------------------------------------------------
(* Cancel and stop.                                                         *)

Cancel(q) ==
    /\ pc[q] \in Running
    /\ q \notin cancelled
    /\ cancelled' = cancelled \cup {q}
    /\ UNCHANGED <<sess, sendVars, poolVars, readVars, piVars>>

Kill(s) ==
    /\ pool[s] # 0
    /\ Remove({s})
    /\ stops' = stops \cup {pool[s]}
    /\ UNCHANGED <<sess, sendVars, cancelled, spawned, busy, readVars, piVars>>

-----------------------------------------------------------------------------
\* What usher does by itself; a dialog of a turn that is cancelled is given up.
Step(q) ==
    \/ \E V \in SUBSET Sessions : Add(q, V)
    \/ AddFails(q) \/ Claim(q) \/ Request(q) \/ WriteFails(q)
    \/ RequestCancelled(q)
    \/ ReadSettled(q) \/ ReadAsk(q) \/ ReadClosed(q) \/ ReadCancelled(q)
    \/ q \in cancelled /\ Answer(q)

Next ==
    \/ \E q \in Sends : \/ Lookup(q) \/ Spawn(q) \/ SpawnFails(q)
                        \/ Step(q) \/ Answer(q) \/ Cancel(q)
    \/ \E p \in Procs : \/ TakePrompt(p) \/ Refuse(p) \/ Ask(p) \/ Settle(p)
                        \/ Abort(p) \/ Exit(p) \/ CloseEvents(p)
    \/ \E s \in Sessions : Kill(s)

\* Goroutines run, and stop() kills after a second.  Nothing is assumed of pi,
\* of the user or of those who stop sessions.
Fairness ==
    /\ WF_vars(\E q \in Sends : Step(q))
    /\ WF_vars(\E p \in Procs : CloseEvents(p))
    /\ WF_vars(\E p \in stops : Exit(p))

Spec == Init /\ [][Next]_vars /\ Fairness

-----------------------------------------------------------------------------
(* Properties                                                              *)

TypeOK ==
    /\ pc \in [Sends -> {"new", "over", "failed"} \cup Running]
    /\ worker \in [Sends -> 0..spawned]
    /\ dialog \in [Sends -> Sends \cup {None}]
    /\ endedBy \in [Sends -> Sends \cup {None, "exit", "cancelled"}]
    /\ cancelled \subseteq Sends
    /\ pool \in [Sessions -> 0..spawned] /\ Cardinality(Pooled) <= MaxLive
    /\ spawned \in 0..MaxSpawns
    /\ busy \in [Procs -> BOOLEAN]
    /\ stops \subseteq 1..spawned
    /\ \A p \in Procs : /\ Len(events[p]) <= EventCap
                        /\ Len(held[p]) <= 1
                        /\ \A e \in {events[p][i] : i \in DOMAIN events[p]} : e \in Event
    /\ closed \in [Procs -> BOOLEAN]
    /\ exited \in [Procs -> BOOLEAN]
    /\ agent \in [Procs -> Sends \cup {None}]
    /\ ui \in [Procs -> {"none", "open", "over"}]

\* worker.busy is what add and prompt decide by: a worker of the pool is busy
\* exactly while one turn owns it.  Busy without a turn, it could neither be
\* used nor evicted again; with two, they would share its events.
BusyIsOwned ==
    \A s \in Pooled :
        Cardinality({q \in Sends : worker[q] = pool[s] /\ pc[q] \in Turn})
            = IF busy[pool[s]] THEN 1 ELSE 0

\* agent_settled is "the definitive settled signal": a turn that ends by it
\* has read its own, unless an earlier turn of the process was given up before
\* its signal came and left it on the channel.
OwnSettled ==
    \A q, t \in Sends :
        endedBy[q] = t /\ t # q => endedBy[t] \in {"cancelled"} \cup (Sends \ {t})

\* A send whose turn is cancelled, whose process has exited or for whom there
\* is an event goes on, and each is owed finitely often.  The exception is a
\* request that waits behind an event nobody reads (held).
Owed(q) ==
    LET p == worker[q] IN
    \/ pc[q] \in {"adding", "found", "claimed"}
    \/ pc[q] = "asked" /\ (q \in cancelled \/ (exited[p] /\ held[p] = <<>>))
    \/ pc[q] = "reading" /\ (q \in cancelled \/ exited[p] \/ events[p] # <<>>)
    \/ pc[q] = "asking" /\ q \in cancelled
TurnsEnd == []<>(\A q \in Sends : ~Owed(q))

=============================================================================
