-------------------------------- MODULE Lark --------------------------------
(***************************************************************************)
(* The Lark bridge (plugins/lark) behind the plugin socket                 *)
(* (internal/pluginapi), for one session: the stream of its questions with *)
(* a snapshot on every connection, the cards posted for them, taps, typed  *)
(* messages that Lark pushes at least once, and calls that fail in flight. *)
(***************************************************************************)
EXTENDS Integers, Sequences, SequencesExt, FiniteSets

CONSTANTS Questions,      \* bound: questions asked, 1..n
          Texts,          \* bound: messages typed in the thread, 1..n
          MaxPushes,      \* bound: deliveries of one message
          MaxDrops,       \* bound: connections lost and restarts
          Types           \* bound: the types published

VARIABLES question,   \* the router's: "new", "pending", "web", "lark"
          link,       \* the interactions stream: "down", "subscribed", "up"
          chan,       \* frames on their way to permissionLoop
          drops,
          posting,    \* the prompt permissionLoop has in hand; 0: none
          registered, \* its entry is made
          posted, asks, asksBySession,
          cards,      \* history: live cards this process posted for each question
          unposted,   \* history: prompts whose card failed since the last connection
          tapping,    \* the questions of taps under way
          pushes, seen,
          task,       \* the goroutine of each message
          fate,       \* history: what became of it
          sent,       \* history: prompts the session got of it from this process
          feed,       \* events of the session's turns not yet handled
          published, shown   \* history: the events published, and shown in the thread

larkVars == <<question, link, chan, drops, posting, registered, posted, asks, asksBySession,
              cards, unposted, tapping, pushes, seen, task, fate, sent, feed, published, shown>>
streamVars == <<link, chan, drops, unposted>>
cardVars == <<posting, registered, posted, asks, asksBySession, cards, tapping>>
textVars == <<pushes, seen, task, fate, sent>>
turnVars == <<feed, published, shown>>

NoTask == [pc |-> "none", q |-> 0]
QS == 1..Questions
MS == 1..Texts

Init ==
    /\ question = [q \in QS |-> "new"] /\ link = "down" /\ chan = <<>> /\ drops = 0
    /\ posting = 0 /\ registered = FALSE /\ posted = {} /\ asks = {} /\ asksBySession = 0
    /\ cards = [q \in QS |-> 0] /\ unposted = {} /\ tapping = {}
    /\ pushes = [m \in MS |-> 0] /\ seen = {} /\ task = [m \in MS |-> NoTask]
    /\ fate = [m \in MS |-> "none"] /\ sent = [m \in MS |-> 0]
    /\ feed = <<>> /\ published = {} /\ shown = {}

Pending(q) == question[q] = "pending"

(* ---------------- the plugin socket ---------------- *)
Ask(q) ==
    /\ question[q] = "new" /\ \A p \in 1..(q - 1) : question[p] # "new"
    /\ question' = [question EXCEPT ![q] = "pending"]
    /\ chan' = IF link = "down" THEN chan ELSE Append(chan, q)
    /\ UNCHANGED <<link, drops, unposted, cardVars, textVars, turnVars>>

AnswerElsewhere(q) ==
    /\ Pending(q)
    /\ question' = [question EXCEPT ![q] = "web"]
    /\ UNCHANGED <<streamVars, cardVars, textVars, turnVars>>

\* handleInteractions: the subscription comes before the snapshot.
Subscribe ==
    /\ link = "down"
    /\ link' = "subscribed"
    /\ UNCHANGED <<question, chan, drops, unposted, cardVars, textVars, turnVars>>

\* A slip of snapshot: what was raised while the plugin was away is not replayed.
snapshotNone == <<>>
snapshot == SetToSeq({q \in QS : Pending(q)})

Replay ==
    /\ link = "subscribed"
    /\ link' = "up" /\ chan' = snapshot \o chan /\ unposted' = {}
    /\ UNCHANGED <<question, drops, cardVars, textVars, turnVars>>

\* The connection is lost with what is still in it; subscribe opens the next.
Drop ==
    /\ link # "down" /\ drops < MaxDrops
    /\ link' = "down" /\ drops' = drops + 1
    /\ \E n \in 0..Len(chan) : chan' = SubSeq(chan, 1, n)
    /\ UNCHANGED <<question, unposted, cardVars, textVars, turnVars>>

\* The plugin restarts: only the thread map is on disk.
Restart ==
    /\ drops < MaxDrops
    /\ drops' = drops + 1 /\ link' = "down" /\ chan' = <<>> /\ unposted' = {}
    /\ posting' = 0 /\ registered' = FALSE /\ posted' = {} /\ asks' = {} /\ asksBySession' = 0
    /\ cards' = [q \in QS |-> 0] /\ tapping' = {}
    /\ seen' = {} /\ task' = [m \in MS |-> NoTask] /\ sent' = [m \in MS |-> 0]
    /\ fate' = [m \in MS |-> IF task[m].pc # "none" THEN "lost" ELSE fate[m]]
    /\ feed' = <<>> /\ UNCHANGED <<question, pushes, published, shown>>

(* ---------------- permissionLoop ---------------- *)
\* A slip of claimPending: a replayed prompt is posted again.
claimPendingAll(q) == TRUE
claimPending(q) == q \notin posted

Claim ==
    /\ posting = 0 /\ chan # <<>>
    /\ chan' = Tail(chan)
    /\ IF claimPending(Head(chan))
       THEN posting' = Head(chan) /\ posted' = posted \cup {Head(chan)}
       ELSE UNCHANGED <<posting, posted>>
    /\ UNCHANGED <<question, link, drops, unposted, registered, asks, asksBySession, cards,
                   tapping, textVars, turnVars>>

putAsk(q) == asks' = asks \cup {q} /\ asksBySession' = q
takeAsk(q) == asks' = asks \ {q} /\ asksBySession' = IF q \in asks THEN 0 ELSE asksBySession

\* registerAsk, so that a typed reply finds the question when the card is there.
Register ==
    /\ posting # 0 /\ ~registered
    /\ registered' = TRUE /\ putAsk(posting)
    /\ UNCHANGED <<question, streamVars, posting, posted, cards, tapping, textVars, turnVars>>

\* A card that never reached Lark is unclaimed, for the next replay to retry.
PostCard(ok) ==
    /\ posting # 0 /\ (registered \/ ~ok)
    /\ posting' = 0 /\ registered' = FALSE
    /\ IF ok
       THEN cards' = [cards EXCEPT ![posting] = @ + 1] /\ UNCHANGED <<posted, asks, asksBySession, unposted>>
       ELSE posted' = posted \ {posting} /\ unposted' = unposted \cup {posting}
            /\ takeAsk(posting) /\ UNCHANGED cards
    /\ UNCHANGED <<question, link, chan, drops, tapping, textVars, turnVars>>

(* ---------------- RespondInteraction ---------------- *)
\* The server takes the answer or rejects it, or the call fails; a call can fail after
\* the server took it.
Outcomes(q) == IF Pending(q) THEN {"ok", "failed", "unheard"} ELSE {"rejected", "failed"}
Respond(q, outcome) ==
    question' = IF outcome \in {"ok", "unheard"} THEN [question EXCEPT ![q] = "lark"] ELSE question

\* handleAskAction: the entry is looked at and stays until usher has answered.
Tap(q) ==
    /\ q \in asks /\ cards[q] > 0 /\ q \notin tapping
    /\ tapping' = tapping \cup {q}
    /\ UNCHANGED <<question, streamVars, posting, registered, posted, asks, asksBySession, cards, textVars, turnVars>>

takePosted(q) == posted' = posted \ {q}

TapDone(q, outcome) ==
    /\ q \in tapping /\ outcome \in Outcomes(q)
    /\ tapping' = tapping \ {q}
    /\ Respond(q, outcome)
    /\ IF outcome \in {"ok", "rejected"}
       THEN takeAsk(q) /\ takePosted(q)
       ELSE UNCHANGED <<asks, asksBySession, posted>>
    /\ UNCHANGED <<streamVars, posting, registered, cards, textVars, turnVars>>

(* ---------------- what is typed ---------------- *)
\* A slip of alreadyHandled: redelivery is not looked for.
alreadyHandledNever(m) == FALSE
alreadyHandled(m) == m \in seen

\* HandleMessage acks the push at once and routes the text in a goroutine.
Push(m) ==
    /\ pushes[m] < MaxPushes
    /\ pushes' = [pushes EXCEPT ![m] = @ + 1]
    /\ seen' = seen \cup {m}
    /\ task' = IF alreadyHandled(m) THEN task ELSE [task EXCEPT ![m] = [pc |-> "route", q |-> 0]]
    /\ UNCHANGED <<question, streamVars, cardVars, fate, sent, turnVars>>

\* answerByText takes the session's question; without one the text is a prompt.
Route(m) ==
    /\ task[m].pc = "route"
    /\ task' = [task EXCEPT ![m] = [pc |-> IF asksBySession = 0 THEN "send" ELSE "answer", q |-> asksBySession]]
    /\ asks' = asks \ {asksBySession} /\ asksBySession' = 0
    /\ UNCHANGED <<question, streamVars, posting, registered, posted, cards, tapping, pushes, seen, fate, sent, turnVars>>

Settle(m, what) == task' = [task EXCEPT ![m] = NoTask] /\ fate' = [fate EXCEPT ![m] = what]

\* A slip of StaleIsPrompt: the reply to a question answered elsewhere is swallowed.
StaleIsSwallowed(m) == Settle(m, "swallowed")

\* A question answered elsewhere meanwhile: the text goes to the session after all.
StaleIsPrompt(m) == task' = [task EXCEPT ![m].pc = "send"] /\ UNCHANGED fate

\* A call that failed keeps the question answerable and says so in the thread.
AnswerDone(m, outcome) ==
    LET q == task[m].q IN
    /\ task[m].pc = "answer" /\ outcome \in Outcomes(q)
    /\ Respond(q, outcome)
    /\ CASE outcome = "ok" -> Settle(m, "answered") /\ takePosted(q) /\ UNCHANGED <<asks, asksBySession>>
         [] outcome = "rejected" -> StaleIsPrompt(m) /\ UNCHANGED <<posted, asks, asksBySession>>
         [] OTHER -> Settle(m, "told") /\ putAsk(q) /\ UNCHANGED posted
    /\ UNCHANGED <<streamVars, posting, registered, cards, tapping, pushes, seen, sent, turnVars>>

\* SendToSession: acknowledged, or "couldn't deliver" in the thread.
SendDone(m, outcome) ==
    /\ task[m].pc = "send" /\ outcome \in {"ok", "failed", "unheard"}
    /\ Settle(m, IF outcome = "ok" THEN "sent" ELSE "told")
    /\ sent' = [sent EXCEPT ![m] = @ + (IF outcome = "failed" THEN 0 ELSE 1)]
    /\ UNCHANGED <<question, streamVars, cardVars, pushes, seen, turnVars>>

(* ---------------- the mirror of the turns ---------------- *)
\* main.go: "only the backend-neutral event types the hub renders".
EventTypes == {"turn.user", "part", "subprocess.exit"}

\* handleEvents forwards the types asked for.
Publish(type) ==
    /\ link = "up" /\ feed = <<>> /\ type \notin published
    /\ feed' = IF type \in EventTypes THEN <<type>> ELSE <<>>
    /\ published' = published \cup {type}
    /\ UNCHANGED <<question, streamVars, cardVars, textVars, shown>>

\* handleEvent has a case for each of these.
HandleEvent ==
    /\ feed # <<>>
    /\ feed' = <<>> /\ shown' = shown \cup {Head(feed)}
    /\ UNCHANGED <<question, streamVars, cardVars, textVars, published>>

Routing(m) == Route(m) \/ \E o \in {"ok", "failed", "unheard", "rejected"} : AnswerDone(m, o) \/ SendDone(m, o)

Next ==
    \/ \E q \in QS : Ask(q) \/ AnswerElsewhere(q) \/ Tap(q)
    \/ \E q \in QS, o \in {"ok", "failed", "unheard", "rejected"} : TapDone(q, o)
    \/ Subscribe \/ Replay \/ Drop \/ Restart
    \/ Claim \/ Register \/ \E ok \in BOOLEAN : PostCard(ok)
    \/ \E m \in MS : Push(m) \/ Routing(m)
    \/ \E type \in Types : Publish(type)
    \/ HandleEvent

\* Calls have timeouts.
Spec == Init /\ [][Next]_larkVars /\ \A m \in MS : WF_larkVars(Routing(m))

(* ---------------- properties ---------------- *)
\* A plugin that is connected has every pending prompt: it is on its way, its card is
\* posted, or the card failed since the connection; and the replays of a prompt that
\* is pending post no second card.
PromptsReach ==
    \A q \in QS : Pending(q) =>
      /\ link = "up" => q \in ToSet(chan) \cup posted \cup unposted
      /\ cards[q] <= 1

\* A message pushed more than once is routed once; it reaches the session, or answers a
\* question that was waiting, or the thread says that it did not.
TypedOnce ==
    \A m \in MS :
      /\ sent[m] <= 1
      /\ fate[m] = "answered" => sent[m] = 0
      /\ fate[m] = "sent" /\ m \in seen /\ task[m] = NoTask => sent[m] = 1 \/ drops > 0
      /\ fate[m] # "swallowed"

TypedSettles == \A m \in MS : (task[m].pc # "none") ~> (fate[m] # "none")

\* "Surfaces a failed turn in its thread" (hub.go:519): one
\* published is on its way to the thread, or there.
ErrorIsTold == drops = 0 /\ "error" \in published => "error" \in shown \cup ToSet(feed)
=============================================================================
