------------------------------ MODULE Telegram ------------------------------
(***************************************************************************)
(* The Telegram bridge (internal/telegram) for one session: the worker     *)
(* that mirrors its events, the loop that posts its questions, the loop    *)
(* that takes what is typed and tapped in the group, and the one that      *)
(* closes the topics of deleted sessions.                                  *)
(***************************************************************************)
EXTENDS Integers, Sequences, FiniteSets

CONSTANTS Questions,      \* bound: questions the session asks, 1..n
          Texts,          \* bound: messages typed in the topic, 1..n
          MaxQueue,       \* sessionQueueSize
          MaxTopics,      \* bound: topics created
          MaxRestarts     \* bound: restarts of usher

VARIABLES exists,     \* the session is on disk
          thread,     \* the store's topic of it; 0: none
          topics,     \* the group's open topics
          created,    \* topics created so far
          createMu,
          loop,       \* the worker and the permission loop: step and what each has in hand
          mirror,     \* the worker's queue
          reconciling,\* the topic the reconcile loop has looked at; 0: none
          asks, asksByThread,
          recent,     \* recentSent
          question,   \* the router's: "new", "pending", "taken", "told", "web", "telegram", "lost"
          poll,       \* the update in hand: a question being answered, by a tap or a text
          typed,      \* history: what became of each message
          mirrored,   \* history: the events posted, in order
          restarts,   \* restarts so far
          orphans     \* history: topics a crash left unbound

tgVars == <<exists, thread, topics, created, createMu, loop, mirror, reconciling, asks,
            asksByThread, recent, question, poll, typed, mirrored, restarts, orphans>>
topicVars == <<exists, thread, topics, created, createMu, reconciling, restarts, orphans>>
askVars == <<asks, asksByThread, question, poll>>

Loops == {"mirror", "ask"}
Rest == [pc |-> "idle", has |-> 0, at |-> 0]
NoUpdate == [q |-> 0, m |-> 0]

Init ==
    /\ exists = TRUE /\ thread = 0 /\ topics = {} /\ created = 0 /\ createMu = "none"
    /\ loop = [l \in Loops |-> Rest] /\ mirror = <<>> /\ reconciling = 0
    /\ asks = {} /\ asksByThread = [t \in 1..MaxTopics |-> 0] /\ recent = 0
    /\ question = [q \in 1..Questions |-> "new"] /\ poll = NoUpdate
    /\ typed = [m \in 1..Texts |-> "new"] /\ mirrored = <<>> /\ restarts = 0 /\ orphans = 0

\* The store's maps of sessions to topics and back, on disk before the lock is released.
SetThread(t) == thread' = t
IsSessions(t) == thread = t

Go(l, rec) == loop' = [loop EXCEPT ![l] = rec]

(* ---------------- topicFor ---------------- *)
Lookup(l) ==
    /\ loop[l].pc = "want"
    /\ Go(l, [loop[l] EXCEPT !.pc = IF thread # 0 THEN "have" ELSE "lock", !.at = thread])
    /\ UNCHANGED <<topicVars, askVars, mirror, recent, typed, mirrored>>

\* A slip of Lock: the mapping is not looked at again under the lock.
LockBlind(l) ==
    /\ loop[l].pc = "lock" /\ createMu = "none"
    /\ createMu' = l /\ Go(l, [loop[l] EXCEPT !.pc = "create"])
    /\ UNCHANGED <<exists, thread, topics, created, reconciling, restarts, orphans, askVars, mirror, recent, typed, mirrored>>

\* "Another goroutine created it while we waited."
Lock(l) ==
    /\ loop[l].pc = "lock" /\ createMu = "none"
    /\ IF thread # 0
       THEN Go(l, [loop[l] EXCEPT !.pc = "have", !.at = thread]) /\ UNCHANGED createMu
       ELSE Go(l, [loop[l] EXCEPT !.pc = "create"]) /\ createMu' = l
    /\ UNCHANGED <<exists, thread, topics, created, reconciling, restarts, orphans, askVars, mirror, recent, typed, mirrored>>

CreateForumTopic(l) ==
    /\ loop[l].pc = "create" /\ created < MaxTopics
    /\ created' = created + 1 /\ topics' = topics \cup {created + 1}
    /\ Go(l, [loop[l] EXCEPT !.pc = "put", !.at = created + 1])
    /\ UNCHANGED <<exists, thread, createMu, reconciling, restarts, orphans, askVars, mirror, recent, typed, mirrored>>

\* The event, or the prompt, goes without a topic.
CreateFails(l) ==
    /\ loop[l].pc = "create"
    /\ createMu' = "none" /\ Go(l, Rest)
    /\ UNCHANGED <<exists, thread, topics, created, reconciling, restarts, orphans, askVars, mirror, recent, typed, mirrored>>

Put(l) ==
    /\ loop[l].pc = "put"
    /\ SetThread(loop[l].at) /\ createMu' = "none"
    /\ Go(l, [loop[l] EXCEPT !.pc = "have"])
    /\ UNCHANGED <<exists, topics, created, reconciling, restarts, orphans, askVars, mirror, recent, typed, mirrored>>

(* ---------------- the mirror of the session's events ---------------- *)
\* dispatchLoop: a full queue drops the event for this session alone.  0 is a part of
\* an answer, m the prompt event of the message m that was typed in the topic.
Queued(q, ev) == IF Len(q) < MaxQueue THEN Append(q, ev) ELSE q

Part ==
    /\ exists /\ mirror = <<>>
    /\ mirror' = Append(mirror, 0)
    /\ UNCHANGED <<topicVars, askVars, loop, recent, typed, mirrored>>

\* A slip of consumeRecentSent: the record stays, and no echo is ever skipped.
consumeRecentNever(ev) == FALSE
consumeRecentSent(ev) == ev # 0 /\ recent = ev

\* mirrorPrompt skips the user's own message, mirrorAssistant posts every part.
TakeEvent ==
    /\ loop["mirror"].pc = "idle" /\ mirror # <<>>
    /\ mirror' = Tail(mirror)
    /\ LET ev == Head(mirror) IN
       IF consumeRecentSent(ev) THEN recent' = 0 /\ UNCHANGED loop
       ELSE Go("mirror", [pc |-> "want", has |-> ev, at |-> 0]) /\ UNCHANGED recent
    /\ UNCHANGED <<topicVars, askVars, typed, mirrored>>

Mirror ==
    /\ loop["mirror"].pc = "have"
    /\ mirrored' = IF loop["mirror"].has = 0 THEN mirrored ELSE Append(mirrored, loop["mirror"].has)
    /\ Go("mirror", Rest)
    /\ UNCHANGED <<topicVars, askVars, mirror, recent, typed>>

(* ---------------- questions ---------------- *)
\* The session blocks on a question; permissionLoop takes it from its subscription.
Ask(q) ==
    /\ exists /\ question[q] = "new" /\ \A p \in 1..(q - 1) : question[p] # "new"
    /\ question' = [question EXCEPT ![q] = "pending"]
    /\ UNCHANGED <<topicVars, loop, mirror, asks, asksByThread, recent, poll, typed, mirrored>>

TakeQuestion(q) ==
    /\ loop["ask"].pc = "idle" /\ question[q] = "pending"
    /\ question' = [question EXCEPT ![q] = "taken"]
    /\ Go("ask", [pc |-> "want", has |-> q, at |-> 0])
    /\ UNCHANGED <<topicVars, mirror, asks, asksByThread, recent, poll, typed, mirrored>>

\* putAsk comes before the prompt is posted.
Register ==
    /\ loop["ask"].pc = "have"
    /\ asks' = asks \cup {[q |-> loop["ask"].has, at |-> loop["ask"].at]}
    /\ asksByThread' = [asksByThread EXCEPT ![loop["ask"].at] = loop["ask"].has]
    /\ Go("ask", [loop["ask"] EXCEPT !.pc = "send"])
    /\ UNCHANGED <<topicVars, mirror, recent, question, poll, typed, mirrored>>

\* takeAsk drops the entry and its topic's, whichever question that has now.
takeAsk(e) == asks' = asks \ {e} /\ asksByThread' = [asksByThread EXCEPT ![e.at] = 0]

\* A prompt that could not be posted is forgotten.
SendAskPrompt(ok) ==
    /\ loop["ask"].pc = "send"
    /\ LET e == [q |-> loop["ask"].has, at |-> loop["ask"].at] IN
       IF ok \/ e \notin asks THEN UNCHANGED <<asks, asksByThread>> ELSE takeAsk(e)
    /\ question' = [question EXCEPT ![loop["ask"].has] = IF ok /\ @ = "taken" THEN "told" ELSE @]
    /\ Go("ask", Rest)
    /\ UNCHANGED <<topicVars, mirror, recent, poll, typed, mirrored>>

Waiting(q) == question[q] \in {"pending", "taken", "told"}

\* Somebody answers in the web UI.
AnswerElsewhere(q) ==
    /\ Waiting(q)
    /\ question' = [question EXCEPT ![q] = "web"]
    /\ UNCHANGED <<topicVars, loop, mirror, asks, asksByThread, recent, poll, typed, mirrored>>

(* ---------------- pollLoop ---------------- *)
\* handleAskCallback: an option tapped on the prompt; a question no longer known is expired.
Tap(q) ==
    /\ poll = NoUpdate
    /\ \E e \in asks : e.q = q /\ takeAsk(e)
    /\ poll' = [q |-> q, m |-> 0]
    /\ UNCHANGED <<topicVars, loop, mirror, recent, question, typed, mirrored>>

\* handleInbound: a question of the topic claims the text; otherwise it is recorded
\* and sent, and the session's prompt event follows.
Type(m, t, delivered) ==
    /\ poll = NoUpdate /\ typed[m] = "new" /\ \A k \in 1..(m - 1) : typed[k] # "new"
    /\ t \in topics
    /\ IF asksByThread[t] # 0
       THEN /\ takeAsk([q |-> asksByThread[t], at |-> t])
            /\ poll' = [q |-> asksByThread[t], m |-> m]
            /\ typed' = [typed EXCEPT ![m] = "taken"]
            /\ UNCHANGED <<recent, mirror>>
       ELSE /\ typed' = [typed EXCEPT ![m] = IF ~IsSessions(t) THEN "ignored"
                                             ELSE IF delivered THEN "sent" ELSE "refused"]
            /\ recent' = IF IsSessions(t) THEN m ELSE recent
            /\ mirror' = IF IsSessions(t) /\ delivered THEN Queued(mirror, m) ELSE mirror
            /\ UNCHANGED <<asks, asksByThread, poll>>
    /\ UNCHANGED <<topicVars, loop, question, mirrored>>

\* RespondInteraction; a refusal is logged, and shown to a tapper alone.
Respond ==
    /\ poll # NoUpdate
    /\ question' = IF Waiting(poll.q) THEN [question EXCEPT ![poll.q] = "telegram"] ELSE question
    /\ typed' = IF poll.m = 0 THEN typed
                ELSE [typed EXCEPT ![poll.m] = IF Waiting(poll.q) THEN "answered" ELSE "swallowed"]
    /\ poll' = NoUpdate
    /\ UNCHANGED <<topicVars, loop, mirror, asks, asksByThread, recent, mirrored>>

(* ---------------- reconcile, deletion, restart ---------------- *)
DeleteSession ==
    /\ exists
    /\ exists' = FALSE
    /\ UNCHANGED <<thread, topics, created, createMu, reconciling, restarts, orphans, askVars, loop, mirror, recent, typed, mirrored>>

CloseTopic ==
    /\ reconciling = 0 /\ thread # 0 /\ ~exists
    /\ reconciling' = thread /\ topics' = topics \ {thread}
    /\ UNCHANGED <<exists, thread, created, createMu, restarts, orphans, askVars, loop, mirror, recent, typed, mirrored>>

\* A slip of DropMapping: the mapping of a closed topic is kept.
DropMappingKeeps ==
    /\ reconciling # 0
    /\ reconciling' = 0
    /\ UNCHANGED <<exists, thread, topics, created, createMu, restarts, orphans, askVars, loop, mirror, recent, typed, mirrored>>

DropMapping ==
    /\ reconciling # 0
    /\ SetThread(0) /\ reconciling' = 0
    /\ UNCHANGED <<exists, topics, created, createMu, restarts, orphans, askVars, loop, mirror, recent, typed, mirrored>>

\* usher restarts: the mapping is on disk, everything else is gone.
Restart ==
    /\ restarts < MaxRestarts
    /\ restarts' = restarts + 1
    /\ orphans' = orphans + Cardinality({l \in Loops : loop[l].pc = "put"})
    /\ loop' = [l \in Loops |-> Rest] /\ createMu' = "none" /\ mirror' = <<>> /\ reconciling' = 0
    /\ asks' = {} /\ asksByThread' = [t \in 1..MaxTopics |-> 0] /\ recent' = 0 /\ poll' = NoUpdate
    /\ question' = [q \in 1..Questions |-> IF Waiting(q) THEN "lost" ELSE question[q]]
    /\ typed' = [m \in 1..Texts |-> IF typed[m] = "taken" THEN "lost" ELSE typed[m]]
    /\ UNCHANGED <<exists, thread, topics, created, mirrored>>

TopicFor(l) == Lookup(l) \/ Lock(l) \/ CreateForumTopic(l) \/ CreateFails(l) \/ Put(l)
Reconcile == CloseTopic \/ DropMapping

Next ==
    \/ \E l \in Loops : TopicFor(l)
    \/ Part \/ TakeEvent \/ Mirror
    \/ \E q \in 1..Questions : Ask(q) \/ TakeQuestion(q) \/ AnswerElsewhere(q) \/ Tap(q)
    \/ Register \/ \E ok \in BOOLEAN : SendAskPrompt(ok)
    \/ \E m \in 1..Texts, t \in 1..MaxTopics, delivered \in BOOLEAN : Type(m, t, delivered)
    \/ Respond \/ DeleteSession \/ Reconcile \/ Restart

Spec == Init /\ [][Next]_tgVars /\ WF_tgVars(Reconcile)

(* ---------------- properties ---------------- *)
\* "Can't both create a topic (which would orphan one)": an open topic is the bound
\* one, one about to be bound, or one a crash lost between its creation and the map.
OneTopic ==
    Cardinality(topics \ ({thread} \cup {loop[l].at : l \in {l \in Loops : loop[l].pc = "put"}})) <= orphans

\* A question whose prompt stands can be answered by a tap until it is answered, and
\* what a message has answered was waiting; a typed message is mirrored back only when
\* a later one took its record.
PromptsAnswer ==
    /\ \A q \in 1..Questions :
         question[q] = "told" => poll.q = q \/ \E e \in asks : e.q = q
    /\ \A i \in DOMAIN mirrored : \E m \in 1..Texts : m > mirrored[i] /\ typed[m] \in {"sent", "refused"}

\* A deleted session does not keep its topic.
DeletedIsClosed == ~exists ~> thread = 0
=============================================================================
