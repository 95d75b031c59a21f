------------------------------ MODULE MainChat ------------------------------
(***************************************************************************)
(* One chat of the main-chat page (web/mainchat.go over mainchat.Store):   *)
(* the posts that persist and queue a message, the worker that runs the    *)
(* agent's turns and compacts the history, the replies of the sessions the *)
(* agent dispatched to.  ChatStream has the subscribers.                   *)
(***************************************************************************)
EXTENDS Integers, Sequences, SequencesExt, FiniteSetsExt

CONSTANTS MaxPosts,         \* bound: posts, numbered as they come
          MaxQueued,        \* maxQueuedChatTurns
          Budget, HardCap,  \* historyBudgetRunes and historyHardCapRunes, in messages
          Keep,             \* compactKeepRunes, in messages
          Follow,           \* followScanWindow
          MaxForeign        \* bound: turns usher did not start

VARIABLES store,      \* the chat's file
          now,        \* the clock; no two readings are equal
          out,        \* appendChat of every goroutine
          post,       \* the posts: "new", "reserved", "queued", "rejected", "failed"
          pending,    \* chatPending
          queue,      \* chatQueues
          worker,     \* the turn loop
          cur,        \* the post whose turn it is
          prevFocus, routed,
          replies,    \* the session's reply to each turn: "none", "running", "held", "told"
          foreign,    \* foreign turns so far
          turned,     \* history: the posts whose turn is over
          folded      \* history: messages whose content is in the last summary

chatVars == <<store, now, out, post, pending, queue, worker, cur, prevFocus, routed,
              replies, foreign, turned, folded>>
turnVars == <<cur, prevFocus, routed>>

NoFocus == "none"
Session == "s"     \* the session the agent may route to
NoPost == 0
Sends == 1..MaxPosts
Rest == <<>>
\* The goroutines that append: a post's handler, the worker, a relay's, the foreign one.
Writers == [kind : {"post", "relay"}, of : Sends] \cup {[kind |-> "worker", of |-> NoPost]}
Worker == [kind |-> "worker", of |-> NoPost]
Handler(k) == [kind |-> "post", of |-> k]
Relayer(k) == [kind |-> "relay", of |-> k]

Message(role, k, focus, src, covered) ==
    [role |-> role, of |-> k, time |-> now + 1, focus |-> focus, src |-> src, covered |-> covered]

Init ==
    /\ store = <<>> /\ now = 0 /\ out = [w \in Writers |-> Rest]
    /\ post = [k \in Sends |-> "new"] /\ pending = 0 /\ queue = <<>>
    /\ worker = "idle" /\ cur = NoPost /\ prevFocus = NoFocus /\ routed = NoFocus
    /\ replies = [k \in Sends |-> "none"] /\ foreign = 0
    /\ turned = {} /\ folded = {}

(* ---------------- the history the agent sees ---------------- *)
Summaries(msgs) == {i \in DOMAIN msgs : msgs[i].role = "summary"}

\* A slip of coveredBy: it reaches one reading past the fold point.
coveredByLoose(m, summary) == m.time <= summary.covered + 1

\* Coverage goes by the time of the fold point, not by position.
coveredBy(m, summary) == m.time <= summary.covered

\* sinceLastSummary, as the indices of what it returns: the last summary (0: there is
\* none) and every message that it does not cover.
lastSummary(msgs) == IF Summaries(msgs) = {} THEN 0 ELSE Max(Summaries(msgs))
sinceLastSummary(msgs) ==
    LET si == lastSummary(msgs)
    IN  {i \in DOMAIN msgs :
            si \in {0, i} \/ (msgs[i].role # "summary" /\ ~coveredBy(msgs[i], msgs[si]))}

\* Where i is in such a view: the summary si first, the others in the file's order.
Position(view, si, i) == Cardinality({j \in view : j = si \/ (i # si /\ j <= i)})

\* What the agent is given: cut to the hard cap at the front.
deriveChatHistory(msgs) ==
    LET view == sinceLastSummary(msgs)
        si == lastSummary(msgs)
    IN  {i \in view : Position(view, si, i) > Cardinality(view) - HardCap}

lastFocus(msgs) ==
    LET moved == {i \in DOMAIN msgs : msgs[i].focus # NoFocus}
    IN  IF moved = {} THEN NoFocus ELSE msgs[Max(moved)].focus

\* Read with a limit keeps the latest.
Read(limit) == SubSeq(store, Max({1, Len(store) - limit + 1}), Len(store))

referencesSession(msgs) == \E i \in DOMAIN msgs : Session \in {msgs[i].focus, msgs[i].src}

(* ---------------- appendChat ---------------- *)
\* The time is read, then the file is appended to under the store's lock.
Stamp(w, msg) ==
    /\ out' = [out EXCEPT ![w] = <<msg>>]
    /\ now' = now + 1

Idle(w) == out[w] = Rest

Persist(w) ==
    /\ ~Idle(w)
    /\ store' = store \o out[w]
    /\ out' = [out EXCEPT ![w] = Rest]
    /\ UNCHANGED <<now, post, pending, queue, worker, turnVars, replies, foreign, turned, folded>>

(* ---------------- posts ---------------- *)
\* tryReserveTurn: the slot comes before the message, or neither does.
Reserve(k) ==
    /\ post[k] = "new" /\ \A j \in 1..(k - 1) : post[j] # "new"
    /\ IF pending >= MaxQueued
       THEN /\ post' = [post EXCEPT ![k] = "rejected"] /\ UNCHANGED <<pending, out, now>>
       ELSE /\ post' = [post EXCEPT ![k] = "reserved"] /\ pending' = pending + 1
            /\ Stamp(Handler(k), Message("user", k, NoFocus, NoFocus, 0))
    /\ UNCHANGED <<store, queue, worker, turnVars, replies, foreign, turned, folded>>

\* A message that could not be stored gives its slot back.
PersistFails(k) ==
    /\ post[k] = "reserved" /\ ~Idle(Handler(k))
    /\ out' = [out EXCEPT ![Handler(k)] = Rest]
    /\ post' = [post EXCEPT ![k] = "failed"] /\ pending' = pending - 1
    /\ UNCHANGED <<store, now, queue, worker, turnVars, replies, foreign, turned, folded>>

\* A slip of Enqueue: the slot is given back here as well as on dequeue.
EnqueueReleases(k) ==
    /\ post[k] = "reserved" /\ Idle(Handler(k)) /\ Len(queue) < MaxQueued
    /\ queue' = Append(queue, k) /\ post' = [post EXCEPT ![k] = "queued"]
    /\ pending' = pending - 1
    /\ UNCHANGED <<store, now, out, worker, turnVars, replies, foreign, turned, folded>>

\* The reservation gates the buffer: the send on the channel cannot block.
Enqueue(k) ==
    /\ post[k] = "reserved" /\ Idle(Handler(k)) /\ Len(queue) < MaxQueued
    /\ queue' = Append(queue, k) /\ post' = [post EXCEPT ![k] = "queued"]
    /\ UNCHANGED <<store, now, out, pending, worker, turnVars, replies, foreign, turned, folded>>

(* ---------------- the turn of the worker ---------------- *)
\* The slot is freed on dequeue; the turn's prior history gives its focus.
Dequeue ==
    /\ worker = "idle" /\ Idle(Worker) /\ queue # <<>>
    /\ cur' = Head(queue) /\ queue' = Tail(queue) /\ pending' = pending - 1
    /\ worker' = "turn"
    /\ prevFocus' = lastFocus(store) /\ routed' = NoFocus
    /\ UNCHANGED <<store, now, out, post, replies, foreign, turned, folded>>

\* The agent sends to a session (a tool of its loop); the session's turn starts.
Dispatch ==
    /\ worker = "turn" /\ routed = NoFocus
    /\ routed' = Session /\ replies' = [replies EXCEPT ![cur] = "running"]
    /\ UNCHANGED <<store, now, out, post, pending, queue, worker, cur, prevFocus, foreign, turned, folded>>

\* The agent's Handle has returned, or failed: the tool's evidence is stored.
Handled ==
    /\ worker = "turn"
    /\ worker' = "release"
    /\ IF routed = NoFocus THEN UNCHANGED <<store, now>>
       ELSE /\ store' = Append(store, Message("tool", cur, NoFocus, NoFocus, 0))
            /\ now' = now + 1
    /\ UNCHANGED <<out, post, pending, queue, turnVars, replies, foreign, turned, folded>>

\* A slip of Held: the relays of a turn are never held back.
HeldNever(k) == FALSE
\* Until the tool events are stored the turn's relays are queued.
Held(k) == cur = k /\ worker \in {"turn", "release"}

ReplyMessage(k) == Message("relay", k, NoFocus, Session, 0)

\* The session's reply, whenever its turn ends.
Reply(k) ==
    /\ replies[k] = "running"
    /\ IF Held(k)
       THEN replies' = [replies EXCEPT ![k] = "held"] /\ UNCHANGED <<out, now>>
       ELSE /\ Idle(Relayer(k))
            /\ replies' = [replies EXCEPT ![k] = "told"]
            /\ Stamp(Relayer(k), ReplyMessage(k))
    /\ UNCHANGED <<store, post, pending, queue, worker, turnVars, foreign, turned, folded>>

\* The queued relays are released and appended by the worker itself.
ReleaseRelays ==
    /\ worker = "release"
    /\ worker' = "reply"
    /\ IF replies[cur] = "held"
       THEN Stamp(Worker, ReplyMessage(cur)) /\ replies' = [replies EXCEPT ![cur] = "told"]
       ELSE UNCHANGED <<out, now, replies>>
    /\ UNCHANGED <<store, post, pending, queue, turnVars, foreign, turned, folded>>

newFocus == IF routed = NoFocus THEN prevFocus ELSE routed
\* A banner or words of its own; a turn without either shows nothing.
Answer(says) ==
    /\ worker = "reply" /\ Idle(Worker)
    /\ worker' = "done"
    /\ IF says \/ routed \notin {NoFocus, prevFocus}
       THEN Stamp(Worker, Message("agent", cur, newFocus, NoFocus, 0))
       ELSE UNCHANGED <<out, now>>
    /\ UNCHANGED <<store, post, pending, queue, turnVars, replies, foreign, turned, folded>>

\* turn.done, whatever the turn displayed.
TurnDone ==
    /\ worker = "done" /\ Idle(Worker)
    /\ worker' = "compact" /\ turned' = turned \cup {cur} /\ cur' = NoPost
    /\ UNCHANGED <<store, now, out, post, pending, queue, prevFocus, routed, replies, foreign, folded>>

\* maybeCompactChat: over the budget everything but a recent tail is folded into a
\* summary, which may fail.
Fold(succeeds) ==
    LET view == sinceLastSummary(store)
        si == lastSummary(store)
        cut == Cardinality(view) - Keep
    IN  /\ worker = "compact"
        /\ worker' = "idle"
        /\ IF succeeds /\ Cardinality(view) > Budget /\ cut >= 2
           THEN \E last \in view :
                  /\ Position(view, si, last) = cut
                  /\ Stamp(Worker, Message("summary", NoPost, NoFocus, NoFocus, store[last].time))
                  /\ folded' = folded \cup {i \in view : Position(view, si, i) <= cut}
           ELSE UNCHANGED <<out, now, folded>>
        /\ UNCHANGED <<store, post, pending, queue, turnVars, replies, foreign, turned>>

\* RelayForeignTurn: a chat whose latest messages referenced the session follows it.
ForeignTurn ==
    /\ foreign < MaxForeign /\ referencesSession(Read(Follow))
    /\ foreign' = foreign + 1
    /\ store' = Append(store, Message("relay", NoPost, NoFocus, Session, 0)) /\ now' = now + 1
    /\ UNCHANGED <<out, post, pending, queue, worker, turnVars, replies, turned, folded>>

Turn == Dequeue \/ Handled \/ ReleaseRelays \/ (\E says \in BOOLEAN : Answer(says))
          \/ TurnDone \/ (\E ok \in BOOLEAN : Fold(ok))

Next ==
    \/ \E k \in Sends : Reserve(k) \/ PersistFails(k) \/ Enqueue(k) \/ Reply(k)
    \/ \E w \in Writers : Persist(w)
    \/ Turn
    \/ Dispatch \/ ForeignTurn

\* Goroutines run; the agent's turn and the summary have timeouts.
Fairness ==
    /\ \A w \in Writers : WF_chatVars(Persist(w))
    /\ \A k \in Sends : WF_chatVars(Enqueue(k))
    /\ WF_chatVars(Turn)

Spec == Init /\ [][Next]_chatVars /\ Fairness

(* ---------------- properties ---------------- *)
\* "The claim guarantees the subsequent channel send cannot block": the slots in use
\* are the messages on their way to the worker, and one of them always fits.
SlotsFit ==
    /\ pending = Len(queue) + Cardinality({k \in Sends : post[k] = "reserved"})
    /\ pending <= MaxQueued

\* The file's order is the causal order: a session's reply comes after the tool event
\* of the turn that asked for it, and that after the message of the turn.
CausalOrder ==
    \A i \in DOMAIN store : store[i].of # NoPost =>
      /\ store[i].role = "tool" => \E j \in 1..(i - 1) : store[j].role = "user" /\ store[j].of = store[i].of
      /\ store[i].role = "relay" => \E j \in 1..(i - 1) : store[j].role = "tool" /\ store[j].of = store[i].of

\* What the agent no longer sees is in the summary, except a message that was stamped
\* no later than a folded one and stored behind it, and what the cap cuts off while
\* the folding fails.
HistoryStands ==
    LET seen == deriveChatHistory(store)
        cut == Cardinality(sinceLastSummary(store)) > HardCap
    IN  \A i \in DOMAIN store : store[i].role # "summary" =>
          \/ i \in seen \/ i \in folded \/ cut
          \/ \E j \in folded : j < i /\ store[i].time <= store[j].time

\* An accepted post gets its turn.
PostsAreTurned == \A k \in Sends : post[k] = "queued" ~> k \in turned
=============================================================================
