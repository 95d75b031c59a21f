----------------------------- MODULE MCFrontends -----------------------------
(***************************************************************************)
(* Small instances of the frontends: the main chat and its live page, the  *)
(* Telegram hub, the Lark plugin with its guest threads, and what the two  *)
(* post of a session. A behaviour is one of the part it starts with; the   *)
(* others stand still.                                                     *)
(***************************************************************************)
EXTENDS Integers, Sequences, FiniteSets

CONSTANTS MaxPosts, MaxQueued, Budget, HardCap, Keep, Follow, MaxForeign,       \* MainChat
          PageWriters, Pages, MaxMessages, SubBuffer,                           \* ChatStream
          TgQuestions, TgTexts, MaxQueue, MaxTopics, MaxRestarts,               \* Telegram
          Questions, Texts, MaxPushes, MaxDrops, Types,                         \* Lark
          MaxMsgs, MaxTime                                                      \* LarkGuest

ASSUME FrontendsAssumption ==
    /\ MaxPosts \in Nat /\ MaxQueued \in Nat /\ HardCap \in Nat /\ SubBuffer \in Nat
    /\ TgQuestions \in Nat /\ TgTexts \in Nat /\ MaxTopics \in Nat
    /\ Questions \in Nat /\ Texts \in Nat /\ MaxMsgs \in Nat /\ MaxTime \in Nat

VARIABLES part,
          store, now, out, post, pending, queue, worker, cur, prevFocus, routed,
          replies, foreign, turned, folded,                                     \* MainChat
          msgs, toSend, stream, frames, page,                                   \* ChatStream
          exists, topic, topics, created, topicMu, loop, mirror, reconciling,
          tgAsks, asksByThread, recent, tgQuestion, poll, typed, mirrored,
          restarts, orphans,                                                    \* Telegram
          question, link, chan, drops, posting, registered, posted, asks,
          asksBySession, cards, unposted, tapping, pushes, seen, task, fate,
          sent, feed, published, shown,                                         \* Lark
          said, mention, byThread, binding, started, createMu, guestMirror,
          given, answered, unread, canonical,                                   \* LarkGuest
          bridge, bound, fed, calls, tries, thread, title, hurt                 \* Posts

Chat     == INSTANCE MainChat
Live     == INSTANCE ChatStream WITH Writers <- PageWriters
Telegram == INSTANCE Telegram WITH Questions <- TgQuestions, Texts <- TgTexts, thread <- topic,
                                   createMu <- topicMu, asks <- tgAsks, question <- tgQuestion
Lark     == INSTANCE Lark
Guest    == INSTANCE LarkGuest WITH task <- mention, mirror <- guestMirror, posted <- canonical
\* Texts that are one message, cut at a newline or not, and with newlines at their ends.
Posted   == INSTANCE Posts WITH Cap <- 3, CardCap <- 4, TextCap <- 3, Retries <- 1, MaxEvents <- 2,
                Texts <- {<<"a">>, <<"a", "b", "nl", "c">>, <<"a", "b", "c", "nl", "d", "e">>,
                          <<"nl", "a", "b", "c", "d", "nl">>}

chatVars  == <<store, now, out, post, pending, queue, worker, cur, prevFocus, routed, replies,
               foreign, turned, folded>>
liveVars  == <<msgs, toSend, stream, frames, page>>
tgVars    == <<exists, topic, topics, created, topicMu, loop, mirror, reconciling, tgAsks,
               asksByThread, recent, tgQuestion, poll, typed, mirrored, restarts, orphans>>
larkVars  == <<question, link, chan, drops, posting, registered, posted, asks, asksBySession,
               cards, unposted, tapping, pushes, seen, task, fate, sent, feed, published, shown>>
guestVars == <<said, mention, byThread, binding, started, createMu, guestMirror, given,
               answered, unread, canonical>>
postsVars == <<bridge, bound, fed, calls, tries, thread, title, hurt>>
frontendVars == <<part, chatVars, liveVars, tgVars, larkVars, guestVars, postsVars>>

Init ==
    /\ part \in {"chat", "page", "telegram", "lark", "guest", "posts"}
    /\ Chat!Init /\ Live!Init /\ Telegram!Init /\ Lark!Init /\ Guest!Init
    /\ Posted!Init /\ (part # "posts" => bridge = "telegram")

ChatStep  == part = "chat" /\ Chat!Next /\ UNCHANGED <<part, liveVars, tgVars, larkVars, guestVars, postsVars>>
LiveStep  == part = "page" /\ Live!Next /\ UNCHANGED <<part, chatVars, tgVars, larkVars, guestVars, postsVars>>
TgStep    == part = "telegram" /\ Telegram!Next /\ UNCHANGED <<part, chatVars, liveVars, larkVars, guestVars, postsVars>>
LarkStep  == part = "lark" /\ Lark!Next /\ UNCHANGED <<part, chatVars, liveVars, tgVars, guestVars, postsVars>>
GuestStep == part = "guest" /\ Guest!Next /\ UNCHANGED <<part, chatVars, liveVars, tgVars, larkVars, postsVars>>
PostStep  == part = "posts" /\ Posted!Next /\ UNCHANGED <<part, chatVars, liveVars, tgVars, larkVars, guestVars>>

Next == ChatStep \/ LiveStep \/ TgStep \/ LarkStep \/ GuestStep \/ PostStep

\* The fairness of each part, for its behaviours.
Fairness ==
    /\ \A w \in Chat!Writers : WF_chatVars(part = "chat" /\ Chat!Persist(w))
    /\ \A k \in Chat!Sends : WF_chatVars(part = "chat" /\ Chat!Enqueue(k))
    /\ WF_chatVars(part = "chat" /\ Chat!Turn)
    /\ WF_tgVars(part = "telegram" /\ Telegram!Reconcile)
    /\ \A m \in Lark!MS : WF_larkVars(part = "lark" /\ Lark!Routing(m))

Spec == Init /\ [][Next]_frontendVars /\ Fairness

(* ---------------- properties ---------------- *)
\* The main chat's file is in causal order and an accepted post has its slot
\* (mainchat.go).
ChatInOrder == part = "chat" => Chat!SlotsFit /\ Chat!CausalOrder

\* What the main chat's agent does not see is in the summary it sees (mainchat.go).
HistoryStands == part = "chat" => Chat!HistoryStands

\* A live page shows the chat (stream.go, mainchat.go).
PageIsWhole == part = "page" => Live!PageIsWhole

\* Telegram: a session has one topic, a question that stands can be answered there,
\* and what was typed is not echoed (telegram/hub.go, ask.go).
TopicServes == part = "telegram" => Telegram!OneTopic /\ Telegram!PromptsAnswer

\* Lark: pending prompts reach a connected plugin, once (hub.go, pluginapi).
PromptsReach == part = "lark" => Lark!PromptsReach

\* Lark: a message that is pushed again is not sent again (hub.go).
TypedOnce == part = "lark" => Lark!TypedOnce

\* Lark: a guest session has what was said before a mention, and keeps to its thread
\* (hub.go's guest mode).
GuestIsTold == part = "guest" => Guest!GuestKnowsAll /\ Guest!GuestStaysHome

\* The thread in Telegram or Lark reads as the session: in order, whole where no call
\* failed, and never beyond a failure (both hub.go, imutil.go, client.go).
ThreadIsTheSession == part = "posts" => Posted!ThreadReads /\ Posted!NothingIsLost

\* Nothing is left waiting: a post of the main chat gets its turn, the topic of a deleted
\* session is closed, a message typed in a Lark thread has its fate.
FrontendsSettle ==
    /\ part = "chat" => Chat!PostsAreTurned
    /\ part = "telegram" => Telegram!DeletedIsClosed
    /\ part = "lark" => Lark!TypedSettles
=============================================================================
