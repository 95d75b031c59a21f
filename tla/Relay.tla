-------------------------------- MODULE Relay --------------------------------
(***************************************************************************)
(* Relayed sends: SendToSessionRelayed of internal/router/router.go on top *)
(* of Router and of the fan-out of internal/broker/broker.go.              *)
(*                                                                         *)
(* A relayed send's pre() subscribes to the session just before its turn   *)
(* starts; a collector goroutine reads the subscription, one event at a    *)
(* time, until an exit or an error ends it (collectTurnText), and hands    *)
(* what it collected to onDone.  The subscription knows the session, not   *)
(* the turn: whether the reply is the turn's own is what this module asks. *)
(***************************************************************************)
EXTENDS Router

CONSTANTS
    Relayed,    \* the sends made through SendToSessionRelayed
    ChanCap     \* capacity of a subscriber channel (64 in broker.go)

ASSUME RelayAssumption ==
    /\ Relayed \subseteq Sends
    /\ ChanCap \in Nat \ {0}

VARIABLES
    collector,  \* where the collector of each relayed send stands
    inbox,      \* its subscription: events published and not read yet
    taken,      \* the turns whose parts it has accumulated
    endedBy,    \* the exit or error it ended on
    onDone,     \* how many times onDone was called
    emitted,    \* history: the event types each turn has published
    lost        \* history: what a full inbox dropped of the send's own turn

relayVars == <<collector, inbox, taken, endedBy, onDone, emitted, lost>>
allVars == <<vars, relayVars>>

EventTypes == {"part", "error", "exit"}
\* A slip of Ends: the exit is not recognised.
EndsOnError(e) == e.type = "error"
Ends(e) == e.type \in {"error", "exit"}
NoEvent == [type |-> "part", from |-> None]

RInit ==
    /\ Init
    /\ collector = [c \in Relayed |-> "none"]
    /\ inbox = [c \in Relayed |-> <<>>]
    /\ taken = [c \in Relayed |-> {}]
    /\ endedBy = [c \in Relayed |-> NoEvent]
    /\ onDone = [c \in Relayed |-> 0]
    /\ emitted = [t \in Sends |-> {}]
    /\ lost = [c \in Relayed |-> {}]

-----------------------------------------------------------------------------
(* Publish: every subscriber of the session gets the event, unless its      *)
(* channel is full; the publisher never waits.                              *)

Subscribed(c, t) == collector[c] = "collecting" /\ SessionOf[c] = SessionOf[t]
\* A slip of HasRoom: one too many.
HasRoomOneTooMany(c) == Len(inbox[c]) <= ChanCap

HasRoom(c) == Len(inbox[c]) < ChanCap

Publish(t, type) ==
    /\ inbox' = [c \in Relayed |->
                   IF Subscribed(c, t) /\ HasRoom(c)
                   THEN Append(inbox[c], [type |-> type, from |-> t])
                   ELSE inbox[c]]
    /\ emitted' = [emitted EXCEPT ![t] = @ \cup {type}]
    /\ lost' = [c \in Relayed |->
                  IF c = t /\ Subscribed(c, t) /\ ~HasRoom(c)
                  THEN lost[c] \cup {type} ELSE lost[c]]
    /\ UNCHANGED <<collector, taken, endedBy, onDone>>

\* A text part of the turn.  One per turn bounds the model.
RPart(t) ==
    /\ At(t, "streaming")
    /\ "part" \notin emitted[t]
    /\ Publish(t, "part")
    /\ UNCHANGED vars

\* An error event of the stream: before the exit, or after it when the
\* protocol's result follows the log's end-of-turn line (turnloop.go).
RError(t) ==
    /\ pc[t] \in {"streaming", "draining"}
    /\ "error" \notin emitted[t]
    /\ Publish(t, "error")
    /\ UNCHANGED vars

RExit(t) == PublishExit(t) /\ Publish(t, "exit")

RFailure(t) == PublishFailure(t) /\ Publish(t, "error")

\* The contract of the Claude and Codex streams (TurnStream.tla): a stream
\* that was not cancelled reports an exit or an error before it closes.
RClosed(t) ==
    /\ StreamClosed(t)
    /\ t \in cancelled \/ emitted[t] \cap {"error", "exit"} # {}
    /\ UNCHANGED relayVars

-----------------------------------------------------------------------------
(* The relay's callbacks                                                    *)

\* pre(): subscribe, then the turn starts.
RStart(t) ==
    /\ Start(t)
    /\ collector' = [c \in Relayed |-> IF c = t THEN "collecting" ELSE collector[c]]
    /\ UNCHANGED <<inbox, taken, endedBy, onDone, emitted, lost>>

\* abort(err): onDone with the error, instead of a turn.
Abort(S) ==
    /\ onDone' = [c \in Relayed |-> IF c \in S THEN onDone[c] + 1 ELSE onDone[c]]
    /\ UNCHANGED <<collector, inbox, taken, endedBy, emitted, lost>>

\* A slip of RVanished: the abort is forgotten.
RVanishedSilently(t) == PromotedVanished(t) /\ UNCHANGED relayVars

RVanished(t) == PromotedVanished(t) /\ Abort({t})

InQueue(s) == {t \in Sends : \E i \in DOMAIN queue[s] : queue[s][i] = t}

RFlush(o) == FlushSendQueue(o) /\ Abort(InQueue(op[o].session))

\* collectTurnText reads one event.
Collect(c) ==
    /\ collector[c] = "collecting"
    /\ inbox[c] # <<>>
    /\ LET e == Head(inbox[c]) IN
         IF Ends(e)
         THEN /\ collector' = [collector EXCEPT ![c] = "done"]
              /\ endedBy' = [endedBy EXCEPT ![c] = e]
              /\ onDone' = [onDone EXCEPT ![c] = @ + 1]
              /\ inbox' = [inbox EXCEPT ![c] = <<>>]
              /\ UNCHANGED taken
         ELSE /\ taken' = [taken EXCEPT ![c] = @ \cup {e.from}]
              /\ inbox' = [inbox EXCEPT ![c] = Tail(@)]
              /\ UNCHANGED <<collector, endedBy, onDone>>
    /\ UNCHANGED <<vars, emitted, lost>>

\* relayWaitCeiling: with nothing collected the relay is dropped in silence,
\* else the partial text is handed over.
Expire(c) ==
    /\ collector[c] = "collecting"
    /\ inbox[c] = <<>>
    /\ collector' = [collector EXCEPT ![c] = "expired"]
    /\ onDone' = [onDone EXCEPT ![c] = IF taken[c] = {} THEN @ ELSE @ + 1]
    /\ UNCHANGED <<vars, inbox, taken, endedBy, emitted, lost>>

-----------------------------------------------------------------------------
\* The steps of Router a relay takes no part in.
Silent(t) ==
    \/ Check(t) \/ Claim(t) \/ Queue(t) \/ QueueFull(t)
    \/ SendOk(t) \/ SendFail(t) \/ Idle(t)
    \/ ReleaseAndPromote(t) \/ ReleaseOnly(t) \/ PromotedFound(t)

SilentOp(o) ==
    \/ ReadToken(o) \/ CancelToken(o) \/ RemoveSession(o)
    \/ \E s \in Sessions : \/ CancelSend(o, s)
                           \/ \E k \in OpKinds : StopLive(o, s, k)

TurnStep(t) == RStart(t) \/ RExit(t) \/ RFailure(t) \/ RClosed(t) \/ RVanished(t)

RNext ==
    \/ \E t \in Sends : \/ RPart(t) \/ RError(t) \/ TurnStep(t)
                        \/ Silent(t) /\ UNCHANGED relayVars
    \/ \E c \in Relayed : Collect(c) \/ Expire(c)
    \/ \E o \in Ops : RFlush(o) \/ (SilentOp(o) /\ UNCHANGED relayVars)
    \/ \E s \in Sessions : (Appear(s) \/ Vanish(s)) /\ UNCHANGED relayVars

RSpec == RInit /\ [][RNext]_allVars

\* As in Router, and collectors are scheduled; the ceiling passes.
RFair ==
    /\ \A t \in Sends : WF_allVars(TurnStep(t) \/ (Silent(t) /\ ~Check(t) /\ UNCHANGED relayVars))
    /\ \A c \in Relayed : WF_allVars(Collect(c)) /\ WF_allVars(Expire(c))

RFairSpec == RSpec /\ RFair

-----------------------------------------------------------------------------
(* Properties                                                              *)

Event == [type : EventTypes, from : Sends]

RTypeOK ==
    /\ TypeOK
    /\ collector \in [Relayed -> {"none", "collecting", "done", "expired"}]
    /\ inbox \in [Relayed -> Seq(Event)]
    /\ \A c \in Relayed : Len(inbox[c]) <= ChanCap
    /\ taken \in [Relayed -> SUBSET Sends]
    /\ endedBy \in [Relayed -> [type : EventTypes, from : Sends \cup {None}]]
    /\ onDone \in [Relayed -> 0..1]     \* a caller hears one outcome
    /\ emitted \in [Sends -> SUBSET EventTypes]
    /\ lost \in [Relayed -> SUBSET EventTypes]

\* Everything that was ever in the hands of collector c.
Seen(c) == {inbox[c][i] : i \in DOMAIN inbox[c]}
           \cup {[type |-> "part", from |-> t] : t \in taken[c]}
           \cup (IF endedBy[c] = NoEvent THEN {} ELSE {endedBy[c]})

\* runSend publishes "BEFORE clearing the running bit: once activeSend is
\* empty a new send's collector may subscribe, and it must not see this
\* turn's exit": no collector ever holds the text or the exit of a turn that
\* was accepted before its own.
NoStaleReply ==
    \A c \in Relayed : \A e \in Seen(c) :
        e.type \in {"part", "exit"} => ticket[e.from] >= ticket[c]

\* A turn that published its exit, and whose exit reached the relay's channel,
\* never has text or an end of a later turn in its reply.
ExitClosesReply ==
    \A c \in Relayed : \A e \in Seen(c) :
        collector[c] = "done" /\ "exit" \in emitted[c] \ lost[c] =>
            ticket[e.from] <= ticket[c]

\* What a relay posts as the reply of its turn is that: no text and no exit of an
\* earlier turn, none of a later one once its own exit reached it, and one outcome
\* (collectTurnText, runSend).
ReplyIsOwn == RTypeOK /\ NoStaleReply /\ ExitClosesReply

\* Every relayed send that passed its checks is answered: rejected to its
\* caller, or onDone, or the relay gave up at its ceiling.  As for the sends
\* of Router, again and again none is owed its answer.
Answered(c) == pc[c] \in {"new", "rejected"} \/ onDone[c] = 1 \/ collector[c] = "expired"
EveryRelayAnswered == []<>(\A c \in Relayed : Answered(c))

-----------------------------------------------------------------------------
(* The inductive invariant behind ReplyIsOwn (RouterProofs.tla).           *)

Started == Running \cup {"draining", "failing", "releasing", "done"}

\* A ticket is drawn when the send is accepted, and behind a turn that owns the
\* session the younger ones wait.
YoungerWaits ==
    /\ \A t \in Sends : ~Submitted(t) => ticket[t] = 0
    /\ \A t, u \in Sends :
         Same(t, u) /\ pc[t] \in Owning /\ ticket[t] < ticket[u] => pc[u] \in {"queued", "dropped"}

\* When a relay has subscribed, the turns before its own are over.
OlderOver ==
    \A c \in Relayed, t \in Sends :
        collector[c] # "none" /\ Same(t, c) /\ ticket[t] # 0 /\ ticket[t] < ticket[c] => pc[t] \in Over

\* A relay subscribes when its turn starts, and calls onDone when it is done or
\* instead of that.
OneOutcome ==
    \A c \in Relayed :
        /\ collector[c] = "none" => inbox[c] = <<>> /\ taken[c] = {} /\ endedBy[c] = NoEvent
        /\ collector[c] # "none" => pc[c] \in Started
        /\ collector[c] = "collecting" => onDone[c] = 0 /\ endedBy[c] = NoEvent
        /\ pc[c] \notin Started \cup {"dropped"} => onDone[c] = 0

\* What a relay has seen comes from turns of its session that have started.
SeenStarted ==
    \A c \in Relayed : \A e \in Seen(c) :
        e \in Event /\ pc[e.from] \in Started /\ SessionOf[e.from] = SessionOf[c]

NoneYounger(c, S) == \A e \in S : ticket[e.from] <= ticket[c]

\* A turn that has published its exit is past its stream.
ExitPublished ==
    \A t \in Sends : "exit" \in emitted[t] => pc[t] \in {"exited", "draining", "releasing", "done"}

\* Until the turn's exit nothing of a younger turn is seen.
NothingYounger(c) == pc[c] \in {"sending", "streaming"} => NoneYounger(c, Seen(c))

\* The exit, once it is in the inbox, is read before anything of a younger turn.
ExitRead(c) ==
    "exit" \in emitted[c] \ lost[c] =>
        IF collector[c] = "collecting"
        THEN /\ \A t \in taken[c] : ticket[t] <= ticket[c]
             /\ \E i \in 1..Len(inbox[c]) :
                  /\ inbox[c][i] = [type |-> "exit", from |-> c]
                  /\ \A j \in 1..i : ticket[inbox[c][j].from] <= ticket[c]
        ELSE NoneYounger(c, Seen(c))

ExitFirst == ExitPublished /\ \A c \in Relayed : NothingYounger(c) /\ ExitRead(c)

RelayInv == RTypeOK /\ YoungerWaits /\ OlderOver /\ OneOutcome /\ SeenStarted /\ NoStaleReply /\ ExitFirst
=============================================================================
