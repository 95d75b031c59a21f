------------------------------ MODULE AppServer ------------------------------
(***************************************************************************)
(* The pool of Codex workers: internal/appserver, Manager and the turn     *)
(* life cycle of Client.                                                   *)
(*                                                                         *)
(* Manager keeps one worker per thread, at most max of them together       *)
(* with the slots reserved for those being started.  A worker's client     *)
(* owns one app-server process, which it starts again whenever a call      *)
(* finds none.  What is done under one lock is one step; between two of    *)
(* them a worker may be evicted, replaced, killed, or its process may die. *)
(* A remote call of the client is taken to return, in its last step, what  *)
(* the server, its death or the caller's context decides.                  *)
(***************************************************************************)
EXTENDS Naturals, FiniteSets

CONSTANTS
    Threads,
    Turners,    \* calls of StartTurnWithModel
    Creators,   \* calls of StartThread
    Killers,    \* calls of Kill
    Scenarios,  \* the threads the calls are about, and which turns name a model
    MaxWorkers, \* bound: workers ever made
    None

Calls == Turners \cup Creators \cup Killers

ASSUME PoolAssumption ==
    /\ Scenarios \subseteq [thread : [Calls -> Threads], naming : SUBSET Turners,
                            max : Nat \ {0}]
    /\ Turners \cap Creators = {}
    /\ Turners \cap Killers = {}
    /\ Creators \cap Killers = {}
    /\ None \notin Calls \cup Threads
    /\ IsFiniteSet(Calls) /\ IsFiniteSet(Threads)
    /\ MaxWorkers \in Nat \ {0}

Ids == 1..MaxWorkers

VARIABLES
    pc,         \* where each call stands
    thread,     \* the thread it is about
    naming,     \* the turns that name a model, each its own
    max,        \* Manager.max (--max-live-sessions)
    hand,       \* the worker it holds (0: none)
    workers,    \* Manager.workers: [Threads -> Ids \cup {0}]
    starting,   \* Manager.starting
    made,       \* workers made so far
    resuming,   \* worker.ready is an open channel
    busy,       \* worker.busy
    model,      \* worker.model: the call that named it
    running,    \* Client.cmd: the client has a process
    stream,     \* Client.turns: the call whose turn is registered
    active,     \* Client.active
    request,    \* calls whose turn/start the server has not taken up
    server,     \* the turn the server executes
    result,     \* what came on each turn's done channel
    finishes,   \* how often it was finished
    excused     \* history: turns let in behind an abandoned turn/start

inputs == <<thread, naming, max>>
callVars == <<inputs, pc, hand>>
slotVars == <<workers, starting, made>>
workerVars == <<resuming, busy, model>>
clientVars == <<running, stream, active, request, server, result, finishes>>
vars == <<callVars, slotVars, workerVars, clientVars, excused>>

Init ==
    /\ pc = [c \in Calls |-> "new"]
    /\ \E s \in Scenarios :
           thread = s.thread /\ naming = s.naming /\ max = s.max
    /\ hand = [c \in Calls |-> 0]
    /\ workers = [t \in Threads |-> 0]
    /\ starting = 0
    /\ made = 0
    /\ resuming = [w \in Ids |-> FALSE]
    /\ busy = [w \in Ids |-> FALSE]
    /\ model = [w \in Ids |-> None]
    /\ running = [w \in Ids |-> FALSE]
    /\ stream = [w \in Ids |-> None]
    /\ active = [w \in Ids |-> FALSE]
    /\ request = {}
    /\ server = [w \in Ids |-> None]
    /\ result = [c \in Turners |-> "none"]
    /\ finishes = [c \in Turners |-> 0]
    /\ excused = {}

Go(c, where) == pc' = [pc EXCEPT ![c] = where]
Take(c, w) == hand' = [hand EXCEPT ![c] = w]

Live == {t \in Threads : workers[t] # 0}

-----------------------------------------------------------------------------
(* The client: streams and processes                                        *)

Finish(S, r) ==
    /\ result' = [c \in Turners |-> IF c \in S THEN r ELSE result[c]]
    /\ finishes' = [c \in Turners |-> IF c \in S THEN finishes[c] + 1 ELSE finishes[c]]

Stream(w) == {stream[w]} \ {None}

\* failProcess: the client forgets its process and fails its turns, finishing
\* them outside of the lock, where no one else can reach them any more.
FailProcess(w) ==
    /\ running' = [running EXCEPT ![w] = FALSE]
    /\ stream' = [stream EXCEPT ![w] = None]
    /\ active' = [active EXCEPT ![w] = FALSE]
    /\ server' = [server EXCEPT ![w] = None]
    /\ request' = {c \in request : hand[c] # w}
    /\ Finish(Stream(w), "failed")

Shutdown(w) == IF running[w] THEN FailProcess(w) ELSE UNCHANGED clientVars

Crash(w) ==
    /\ running[w]
    /\ FailProcess(w)
    /\ UNCHANGED <<callVars, slotVars, workerVars, excused>>

\* The server takes up a turn/start, announces the turn, and completes it.
ServerTake(c) ==
    LET w == hand[c] IN
    /\ c \in request
    /\ server[w] = None
    /\ server' = [server EXCEPT ![w] = c]
    /\ request' = request \ {c}
    /\ UNCHANGED <<callVars, slotVars, workerVars, running, stream, active, result,
                   finishes, excused>>

TurnStarted(w) ==
    /\ server[w] # None
    /\ ~active[w]
    /\ active' = [active EXCEPT ![w] = TRUE]
    /\ UNCHANGED <<callVars, slotVars, workerVars, running, stream, request, server,
                   result, finishes, excused>>

\* A slip of TurnCompleted: the stream stays registered.
TurnCompletedKeep(w) ==
    /\ server[w] # None
    /\ active[w]
    /\ server' = [server EXCEPT ![w] = None]
    /\ active' = [active EXCEPT ![w] = FALSE]
    /\ Finish(Stream(w), IF stream[w] = server[w] THEN "own" ELSE "other")
    /\ UNCHANGED <<callVars, slotVars, workerVars, running, stream, request, excused>>

TurnCompleted(w) ==
    /\ server[w] # None
    /\ active[w]
    /\ server' = [server EXCEPT ![w] = None]
    /\ active' = [active EXCEPT ![w] = FALSE]
    /\ stream' = [stream EXCEPT ![w] = None]
    /\ Finish(Stream(w), IF stream[w] = server[w] THEN "own" ELSE "other")
    /\ UNCHANGED <<callVars, slotVars, workerVars, running, request, excused>>

-----------------------------------------------------------------------------
(* reserve                                                                  *)

\* A slip of ClientBusy: only the stream counts.
ClientBusyStream(w) == stream[w] # None
ClientBusy(w) == stream[w] # None \/ active[w]

Evictable == {t \in Live : LET w == workers[t] IN
                             ~resuming[w] /\ ~busy[w] /\ ~ClientBusy(w)}

\* Workers without a process go first; among equals lastUsed decides, which is
\* left open here.
Victims == LET dead == {t \in Evictable : ~running[workers[t]]} IN
           IF dead = {} THEN Evictable ELSE dead

\* A slip of HasSlot: the workers being started do not count.
HasSlotLiveOnly == Cardinality(Live) < max
HasSlot == Cardinality(Live) + starting < max

\* A slip of Reserve: an evicted worker's place is not counted as reserved.
ReserveUncounted(c) ==
    /\ pc[c] = "reserve"
    /\ \/ /\ HasSlot
          /\ Go(c, "reserved")
          /\ UNCHANGED <<hand, workers>>
       \/ /\ ~HasSlot
          /\ \E t \in Victims :
               /\ Take(c, workers[t])
               /\ workers' = [workers EXCEPT ![t] = 0]
          /\ Go(c, "evicting")
    /\ starting' = IF HasSlot THEN starting + 1 ELSE starting
    /\ UNCHANGED <<inputs, made, workerVars, clientVars, excused>>

Reserve(c) ==
    /\ pc[c] = "reserve"
    /\ \/ /\ HasSlot
          /\ Go(c, "reserved")
          /\ UNCHANGED <<hand, workers>>
       \/ /\ ~HasSlot
          /\ \E t \in Victims :
               /\ Take(c, workers[t])
               /\ workers' = [workers EXCEPT ![t] = 0]
          /\ Go(c, "evicting")
    /\ starting' = starting + 1
    /\ UNCHANGED <<inputs, made, workerVars, clientVars, excused>>

AllBusy(c) ==
    /\ pc[c] = "reserve"
    /\ ~HasSlot
    /\ Victims = {}
    /\ Go(c, "failed")
    /\ UNCHANGED <<inputs, hand, slotVars, workerVars, clientVars, excused>>

StopVictim(c) ==
    /\ pc[c] = "evicting"
    /\ Shutdown(hand[c])
    /\ Take(c, 0)
    /\ Go(c, "reserved")
    /\ UNCHANGED <<inputs, slotVars, workerVars, excused>>

-----------------------------------------------------------------------------
(* StartThread: the worker enters the pool when its thread has an id.       *)

NewThread(c) ==
    /\ c \in Creators
    /\ pc[c] = "new"
    /\ Go(c, "reserve")
    /\ UNCHANGED <<inputs, hand, slotVars, workerVars, clientVars, excused>>

Launch(c) ==
    /\ c \in Creators
    /\ pc[c] = "reserved"
    /\ made < MaxWorkers
    /\ made' = made + 1
    /\ Take(c, made')
    /\ running' = [running EXCEPT ![made'] = TRUE]
    /\ Go(c, "launched")
    /\ UNCHANGED <<inputs, workers, starting, workerVars, stream, active, request,
                   server, result, finishes, excused>>

\* A new thread has an id no other has.
Launched(c) ==
    /\ pc[c] = "launched"
    /\ running[hand[c]]
    /\ \A d \in Calls \ {c} : thread[d] = thread[c] => pc[d] = "new"
    /\ starting' = starting - 1
    /\ workers' = [workers EXCEPT ![thread[c]] = hand[c]]
    /\ Take(c, 0)
    /\ Go(c, "done")
    /\ UNCHANGED <<inputs, made, workerVars, clientVars, excused>>

\* A slip of LaunchFails: the slot is not given back.
LaunchFailsKeep(c) ==
    /\ pc[c] = "launched"
    /\ Go(c, "drop")
    /\ UNCHANGED <<inputs, hand, slotVars, workerVars, clientVars, excused>>

LaunchFails(c) ==
    /\ pc[c] = "launched"
    /\ starting' = starting - 1
    /\ Go(c, "drop")
    /\ UNCHANGED <<inputs, hand, workers, made, workerVars, clientVars, excused>>

-----------------------------------------------------------------------------
(* getOrResume                                                              *)

Begin(c) ==
    /\ c \in Turners
    /\ pc[c] = "new"
    /\ Go(c, "lookup")
    /\ UNCHANGED <<inputs, hand, slotVars, workerVars, clientVars, excused>>

OtherModel(c, w) == c \in naming /\ model[w] \notin {None, c}

Lookup(c) ==
    LET t == thread[c]
        w == workers[t]
    IN
    /\ pc[c] = "lookup"
    /\ CASE w = 0 -> /\ Go(c, "reserve")
                     /\ UNCHANGED <<hand, workers, model>>
         [] w # 0 /\ OtherModel(c, w) ->
                     /\ workers' = [workers EXCEPT ![t] = 0]
                     /\ Take(c, w)
                     /\ Go(c, "override")
                     /\ UNCHANGED model
         [] OTHER -> /\ Take(c, w)
                     /\ model' = IF c \in naming THEN [model EXCEPT ![w] = c] ELSE model
                     /\ Go(c, IF resuming[w] THEN "waiting" ELSE "ready")
                     /\ UNCHANGED workers
    /\ UNCHANGED <<inputs, starting, made, resuming, busy, clientVars, excused>>

StopOverridden(c) ==
    /\ pc[c] = "override"
    /\ Shutdown(hand[c])
    /\ Take(c, 0)
    /\ Go(c, "lookup")
    /\ UNCHANGED <<inputs, slotVars, workerVars, excused>>

\* <-ready, then the worker is looked up again; or the context ends.
Woken(c) ==
    /\ pc[c] = "waiting"
    /\ ~resuming[hand[c]]
    /\ Take(c, 0)
    /\ Go(c, "lookup")
    /\ UNCHANGED <<inputs, slotVars, workerVars, clientVars, excused>>

WaitCancelled(c) ==
    /\ pc[c] = "waiting"
    /\ Take(c, 0)
    /\ Go(c, "failed")
    /\ UNCHANGED <<inputs, slotVars, workerVars, clientVars, excused>>

\* Another call has installed a worker for the thread: it is used.
InstallLate(c) ==
    /\ c \in Turners
    /\ pc[c] = "reserved"
    /\ workers[thread[c]] # 0
    /\ starting' = starting - 1
    /\ Go(c, "lookup")
    /\ UNCHANGED <<inputs, hand, workers, made, workerVars, clientVars, excused>>

Install(c) ==
    /\ c \in Turners
    /\ pc[c] = "reserved"
    /\ workers[thread[c]] = 0
    /\ made < MaxWorkers
    /\ made' = made + 1
    /\ starting' = starting - 1
    /\ workers' = [workers EXCEPT ![thread[c]] = made']
    /\ resuming' = [resuming EXCEPT ![made'] = TRUE]
    /\ model' = [model EXCEPT ![made'] = IF c \in naming THEN c ELSE None]
    /\ Take(c, made')
    /\ Go(c, "resuming")
    /\ UNCHANGED <<inputs, busy, clientVars, excused>>

\* ResumeThreadWithModel starts the process, and calls thread/resume.
ResumeStart(c) ==
    /\ pc[c] = "resuming"
    /\ running' = [running EXCEPT ![hand[c]] = TRUE]
    /\ Go(c, "resumed")
    /\ UNCHANGED <<inputs, hand, slotVars, workerVars, stream, active, request,
                   server, result, finishes, excused>>

\* A slip of ResumeDone: the channel is not closed on failure.
ResumeDoneSilent(c, ok) ==
    LET w == hand[c]
        owned == workers[thread[c]] = w
        good == ok /\ owned
    IN
    /\ pc[c] \in {"resuming", "resumed"}
    /\ ok => pc[c] = "resumed" /\ running[w]
    /\ resuming' = IF good THEN [resuming EXCEPT ![w] = FALSE] ELSE resuming
    /\ workers' = IF owned /\ ~ok THEN [workers EXCEPT ![thread[c]] = 0] ELSE workers
    /\ Go(c, IF good THEN "ready" ELSE "drop")
    /\ UNCHANGED <<inputs, hand, starting, made, busy, model, clientVars, excused>>

\* It is over, well or not: whoever waits is woken.
ResumeDone(c, ok) ==
    LET w == hand[c]
        owned == workers[thread[c]] = w
    IN
    /\ pc[c] \in {"resuming", "resumed"}
    /\ ok => pc[c] = "resumed" /\ running[w]
    /\ resuming' = [resuming EXCEPT ![w] = FALSE]
    /\ workers' = IF owned /\ ~ok THEN [workers EXCEPT ![thread[c]] = 0] ELSE workers
    /\ Go(c, IF ok /\ owned THEN "ready" ELSE "drop")
    /\ UNCHANGED <<inputs, hand, starting, made, busy, model, clientVars, excused>>

Drop(c) ==
    /\ pc[c] = "drop"
    /\ Shutdown(hand[c])
    /\ Take(c, 0)
    /\ Go(c, "failed")
    /\ UNCHANGED <<inputs, slotVars, workerVars, excused>>

-----------------------------------------------------------------------------
(* StartTurnWithModel, once it has a worker                                 *)

Claim(c) ==
    LET w == hand[c] IN
    /\ pc[c] = "ready"
    /\ IF busy[w] \/ ClientBusy(w)
       THEN Go(c, "failed") /\ Take(c, 0) /\ UNCHANGED busy
       ELSE Go(c, "claimed") /\ busy' = [busy EXCEPT ![w] = TRUE] /\ UNCHANGED hand
    /\ excused' = IF ~active[w] /\ (server[w] # None \/ \E d \in request : hand[d] = w)
                  THEN excused \cup {c} ELSE excused
    /\ UNCHANGED <<inputs, slotVars, resuming, model, clientVars>>

\* Client.ensure: a client without a process starts one.
Ensure(c) ==
    /\ pc[c] = "claimed"
    /\ running' = [running EXCEPT ![hand[c]] = TRUE]
    /\ Go(c, "ensured")
    /\ UNCHANGED <<inputs, hand, slotVars, workerVars, stream, active, request,
                   server, result, finishes, excused>>

\* The stream is registered, and turn/start is sent.
Register(c) ==
    LET w == hand[c] IN
    /\ pc[c] = "ensured"
    /\ stream' = [stream EXCEPT ![w] = c]
    /\ request' = IF running[w] THEN request \cup {c} ELSE request
    /\ Go(c, "registered")
    /\ UNCHANGED <<inputs, hand, slotVars, workerVars, running, active, server, result,
                   finishes, excused>>

\* The server takes the turn up before it answers turn/start.
Accepted(c) ==
    /\ pc[c] = "registered"
    /\ server[hand[c]] = c \/ result[c] # "none"
    /\ Go(c, "accepted")
    /\ UNCHANGED <<inputs, hand, slotVars, workerVars, clientVars, excused>>

\* An error, the end of the process, or of the context: the server may have
\* the request, or execute it.
Refused(c) ==
    LET w == hand[c] IN
    /\ pc[c] \in {"claimed", "ensured", "registered"}
    /\ busy' = [busy EXCEPT ![w] = FALSE]
    /\ stream' = IF pc[c] = "registered" THEN [stream EXCEPT ![w] = None] ELSE stream
    /\ Go(c, "failed")
    /\ UNCHANGED <<inputs, hand, slotVars, resuming, model, running, active, request, server,
                   result, finishes, excused>>

\* The goroutine behind the turn.
Done(c) ==
    LET w == hand[c] IN
    /\ pc[c] = "accepted"
    /\ result[c] # "none"
    /\ busy' = IF workers[thread[c]] = w THEN [busy EXCEPT ![w] = FALSE] ELSE busy
    /\ Go(c, "done")
    /\ UNCHANGED <<inputs, hand, slotVars, resuming, model, clientVars, excused>>

-----------------------------------------------------------------------------
(* Kill.  It reads worker.ready twice, and without the lock.                *)

Unlist(c) ==
    /\ c \in Killers
    /\ pc[c] = "new"
    /\ workers' = [workers EXCEPT ![thread[c]] = 0]
    /\ Take(c, workers[thread[c]])
    /\ Go(c, IF workers[thread[c]] = 0 THEN "done" ELSE "unlisted")
    /\ UNCHANGED <<inputs, starting, made, workerVars, clientVars, excused>>

KillReads(c) ==
    /\ pc[c] = "unlisted"
    /\ Go(c, IF resuming[hand[c]] THEN "again" ELSE "killing")
    /\ UNCHANGED <<inputs, hand, slotVars, workerVars, clientVars, excused>>

\* A receive from a nil channel blocks for ever.
KillReadsAgain(c) ==
    /\ pc[c] = "again"
    /\ Go(c, IF resuming[hand[c]] THEN "killwait" ELSE "stuck")
    /\ UNCHANGED <<inputs, hand, slotVars, workerVars, clientVars, excused>>

KillWoken(c) ==
    /\ pc[c] = "killwait"
    /\ ~resuming[hand[c]]
    /\ Go(c, "killing")
    /\ UNCHANGED <<inputs, hand, slotVars, workerVars, clientVars, excused>>

\* A slip of KillTurn: the stream is dropped, not closed.
KillTurnUnfinished(c) ==
    LET w == hand[c] IN
    /\ pc[c] = "killing"
    /\ stream' = [stream EXCEPT ![w] = None]
    /\ Go(c, "drop")
    /\ UNCHANGED <<inputs, hand, slotVars, workerVars, running, active, request, server,
                   result, finishes, excused>>

\* Client.Kill interrupts the turn and closes its stream; Shutdown follows.
KillTurn(c) ==
    LET w == hand[c] IN
    /\ pc[c] = "killing"
    /\ Finish(Stream(w), "interrupted")
    /\ stream' = [stream EXCEPT ![w] = None]
    /\ Go(c, "drop")
    /\ UNCHANGED <<inputs, hand, slotVars, workerVars, running, active, request,
                   server, excused>>

-----------------------------------------------------------------------------
Step(c) ==
    \/ Reserve(c) \/ AllBusy(c) \/ StopVictim(c)
    \/ Launch(c) \/ Launched(c) \/ LaunchFails(c)
    \/ Lookup(c) \/ StopOverridden(c) \/ Woken(c)
    \/ InstallLate(c) \/ Install(c) \/ ResumeStart(c) \/ Drop(c)
    \/ \E ok \in BOOLEAN : ResumeDone(c, ok)
    \/ Claim(c) \/ Ensure(c) \/ Register(c) \/ Accepted(c) \/ Done(c)
    \/ KillReads(c) \/ KillReadsAgain(c) \/ KillWoken(c) \/ KillTurn(c)

Next ==
    \/ \E c \in Calls : NewThread(c) \/ Begin(c) \/ Unlist(c) \/ Step(c)
    \/ \E c \in Turners : WaitCancelled(c) \/ Refused(c) \/ ServerTake(c)
    \/ \E w \in Ids : Crash(w) \/ TurnStarted(w) \/ TurnCompleted(w)

Spec == Init /\ [][Next]_vars

\* While goroutines of usher can run some of them do, and the calls they make of
\* the server return.  No turn has to be taken up or completed.
Fairness == WF_vars(\E c \in Calls : Step(c))

FairSpec == Spec /\ Fairness

-----------------------------------------------------------------------------
(* Properties                                                              *)

Reserving == {"evicting", "reserved", "launched"}
Ended == {"failed", "done", "stuck"}
PCs == {"new", "reserve", "drop", "lookup", "override", "waiting", "resuming", "resumed",
        "ready", "claimed", "ensured", "registered", "accepted", "unlisted", "again",
        "killwait", "killing"} \cup Reserving \cup Ended

\* The pool's state has the shape its Go declarations give it.
TypeOK ==
    /\ pc \in [Calls -> PCs]
    /\ [thread |-> thread, naming |-> naming, max |-> max] \in Scenarios
    /\ hand \in [Calls -> 0..made]
    /\ workers \in [Threads -> 0..made]
    /\ starting \in 0..Cardinality(Calls)
    /\ made \in 0..MaxWorkers
    /\ {resuming, busy, running, active} \subseteq [Ids -> BOOLEAN]
    /\ {model, stream, server} \subseteq [Ids -> Turners \cup {None}]
    /\ request \subseteq Turners
    /\ result \in [Turners -> {"none", "own", "other", "failed", "interrupted"}]
    /\ finishes \in [Turners -> Nat]
    /\ excused \subseteq Turners

\* The workers and those being started never exceed the cap, on any path
\* (TestManagerConcurrentResumeNeverExceedsLimit and its like).
PoolBounded == Cardinality(Live) + starting <= max

\* A slot is given back on every path: whoever holds one is still at it.
SlotsExact == starting = Cardinality({c \in Calls : pc[c] \in Reserving})

\* finish() closes channels, so a second one would panic.
FinishedOnce == \A c \in Turners : finishes[c] <= 1

\* An accepted turn is registered with its client until it has a result.
AcceptedIsAwaited ==
    \A c \in Turners : pc[c] = "accepted" /\ result[c] = "none" => stream[hand[c]] = c

\* A turn ends with its own completion, unless it was let in behind a
\* turn/start whose caller gave up before the server announced that turn.
OwnResult ==
    \A c \in Turners : pc[c] = "accepted" /\ result[c] = "other" => c \in excused

\* The cap holds on every path and every slot reserved is given back (reserve,
\* finishStart).
PoolExact == TypeOK /\ PoolBounded /\ SlotsExact

\* An accepted turn is registered until it has its result, once, and it is its own
\* (StartTurn, finish, dispatch).
ResultsReach == FinishedOnce /\ AcceptedIsAwaited /\ OwnResult

\* No caller waits for ever: only a registered turn may take its time, and a
\* Kill that lost the race for worker.ready.  Each call ends once, so all end if
\* ever again none is under way.
CallsSettle ==
    []<>(\A c \in Calls : pc[c] \in Ended \cup {"new", "registered", "accepted"})

\* "Manager owns one app-server worker per live root Codex session": a process
\* that runs belongs to a worker of the pool, or to a call that will stop it.
Stopping == {"evicting", "override", "drop", "unlisted", "again", "killwait", "killing",
             "launched", "resuming", "resumed"}
PoolOwnsProcesses ==
    \A w \in 1..made : running[w] =>
        \/ \E t \in Live : workers[t] = w
        \/ \E c \in Calls : hand[c] = w /\ pc[c] \in Stopping

-----------------------------------------------------------------------------
(* The inductive invariant behind them (AppServerProofs.tla).              *)

\* A turn that has claimed its worker; one whose turn/start may have been sent.
Using == {"claimed", "ensured", "registered", "accepted"}
Sent == {"registered", "accepted", "failed", "done"}

\* Where only turns stand, and where a call holds a worker.
OfTurns == Using \cup {"lookup", "override", "waiting", "resuming", "resumed", "ready"}
Holding == Using \cup Stopping \cup {"waiting", "ready"}

RolesOK ==
    \A c \in Calls : (pc[c] \in OfTurns => c \in Turners) /\ (pc[c] \in Holding => hand[c] # 0)

\* worker.busy belongs to one turn.
OneUser ==
    /\ \A c \in Turners : pc[c] \in Using => busy[hand[c]]
    /\ \A c, d \in Turners : pc[c] \in Using /\ pc[d] \in Using /\ hand[c] = hand[d] => c = d

\* A stream is that of a turn which waits for its result; a turn without a result has
\* one, and was never finished.
StreamOwned ==
    /\ \A w \in Ids : stream[w] # None =>
         /\ hand[stream[w]] = w
         /\ pc[stream[w]] \in {"registered", "accepted"}
         /\ result[stream[w]] = "none"
    /\ \A c \in Turners :
         /\ pc[c] \in {"registered", "accepted"} /\ result[c] = "none" => stream[hand[c]] = c
         /\ result[c] # "none" => pc[c] \in Sent
         /\ finishes[c] = IF result[c] = "none" THEN 0 ELSE 1

\* The server has nothing of another turn for a turn that was not let in behind one.
ServerOwned ==
    /\ \A c \in request : pc[c] \in Sent
    /\ \A c \in Turners : pc[c] \in Using /\ c \notin excused =>
         /\ server[hand[c]] \in {None, c}
         /\ \A d \in request : hand[d] = hand[c] => d = c
         /\ result[c] # "other"

PoolInv == PoolExact /\ RolesOK /\ OneUser /\ StreamOwned /\ ServerOwned
=============================================================================
