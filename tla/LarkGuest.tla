----------------------------- MODULE LarkGuest -----------------------------
(***************************************************************************)
(* Guest sessions of the Lark bridge (plugins/lark: handleGuest,           *)
(* guestCreate, guestTurn, the thread store): a thread of another chat     *)
(* whose first mention of the bot starts a session and whose later ones    *)
(* bring it what was said since, up to a watermark in milliseconds.        *)
(***************************************************************************)
EXTENDS Integers, Sequences, SequencesExt, FiniteSetsExt

CONSTANTS MaxMsgs,      \* bound: messages of the thread
          MaxTime       \* bound: milliseconds

VARIABLES said,       \* the thread: the time and kind of each message
          task,       \* the goroutine of each mention
          byThread,   \* the session the thread is bound to (named by the mention that
                      \* started it), 0 when there is none
          binding,    \* the store's entry of each session: its watermark
          started,    \* the sessions that are started: their events reach the mirror
          createMu,
          mirror,     \* a session's worker in rootFor
          given,      \* history: messages a session has got as context or as a prompt
          answered,   \* history: the mentions a session has got
          unread,     \* history: mentions sent without their context
          posted      \* history: a root card was posted in the canonical chat

guestVars == <<said, task, byThread, binding, started, createMu, mirror, given, answered, unread, posted>>

Msgs == 1..MaxMsgs
NoTask == [pc |-> "none", sid |-> 0, at |-> <<>>, ctx |-> {}]
NoBinding == <<>>
NoMirror == [pc |-> "idle", sid |-> 0]
Mark(i) == <<[time |-> said[i].time, id |-> i]>>

Init ==
    /\ said = <<>> /\ task = [i \in Msgs |-> NoTask]
    /\ byThread = 0 /\ binding = [s \in Msgs |-> NoBinding]
    /\ started = {} /\ createMu = "none" /\ mirror = NoMirror
    /\ given = [s \in Msgs |-> {}] /\ answered = [s \in Msgs |-> {}] /\ unread = {} /\ posted = FALSE

Now == IF said = <<>> THEN 1 ELSE Last(said).time
Put(i, t) == task' = [task EXCEPT ![i] = t]

\* Somebody writes in the thread; a mention is handled in a goroutine of its own, which
\* creates a session when the thread has none: two early mentions create two.
Say(kind, time) ==
    /\ Len(said) < MaxMsgs
    /\ said' = Append(said, [time |-> time, kind |-> kind])
    /\ IF kind # "mention" THEN UNCHANGED task
       ELSE Put(Len(said) + 1,
                IF byThread = 0 THEN [NoTask EXCEPT !.pc = "create", !.sid = Len(said) + 1]
                ELSE [NoTask EXCEPT !.pc = "turn", !.sid = byThread, !.at = binding[byThread]])
    /\ UNCHANGED <<byThread, binding, started, createMu, mirror, given, answered, unread, posted>>

(* ---------------- the context of a mention ---------------- *)
\* A slip of beyond: what has the watermark's time is taken to be behind it.
beyondStrict(i, at) == at = <<>> \/ said[i].time > at[1].time

\* "< not <=: same-ms siblings of the watermark must reach the hub's tie-break."
beyond(i, at) ==
    at = <<>> \/ said[i].time > at[1].time \/ (said[i].time = at[1].time /\ i # at[1].id)

\* ThreadMessages and transcriptLines: the bot's own messages and the mention itself
\* are left out.
transcript(i, at) == {j \in DOMAIN said : j # i /\ said[j].kind # "own" /\ beyond(j, at)}

Pull(i, ok) ==
    /\ task[i].pc \in {"create", "turn"}
    /\ Put(i, [task[i] EXCEPT !.pc = IF @ = "create" THEN "start" ELSE "send",
                              !.ctx = IF ok THEN transcript(i, task[i].at) ELSE {}])
    /\ unread' = IF ok THEN unread ELSE unread \cup {i}
    /\ UNCHANGED <<said, byThread, binding, started, createMu, mirror, given, answered, posted>>

(* ---------------- the two kinds of turn ---------------- *)
\* The prompt of a mention, its context before it, has reached the session.
Gives(i) ==
    /\ given' = [given EXCEPT ![task[i].sid] = @ \cup task[i].ctx \cup {i}]
    /\ answered' = [answered EXCEPT ![task[i].sid] = @ \cup {i}]

\* The store's setWatermark: in the entry of the session, wherever the thread is bound.
SetMark(i) == binding' = [binding EXCEPT ![task[i].sid] = Mark(i)]

\* A slip of Start: the session is started before the lock is taken.
StartUnlocked(i) ==
    /\ task[i].pc = "start"
    /\ started' = started \cup {i} /\ Gives(i)
    /\ Put(i, [task[i] EXCEPT !.pc = "bind"])
    /\ UNCHANGED <<said, byThread, binding, createMu, mirror, unread, posted>>

\* guestCreate holds createMu from the start of the session to its binding; a start that
\* fails is told in the thread.
Start(i) ==
    /\ task[i].pc = "start" /\ createMu = "none"
    /\ createMu' = "guest" /\ started' = started \cup {i} /\ Gives(i)
    /\ Put(i, [task[i] EXCEPT !.pc = "bind"])
    /\ UNCHANGED <<said, byThread, binding, mirror, unread, posted>>

StartFails(i) ==
    /\ task[i].pc = "start" /\ createMu = "none"
    /\ Put(i, NoTask)
    /\ UNCHANGED <<said, byThread, binding, started, createMu, mirror, given, answered, unread, posted>>

\* The latest session takes the thread.
putGuest(i) ==
    /\ task[i].pc = "bind"
    /\ SetMark(i) /\ byThread' = i /\ createMu' = "none"
    /\ Put(i, NoTask)
    /\ UNCHANGED <<said, started, mirror, given, answered, unread, posted>>

\* SendToSession, and then the watermark; one refused leaves it where it was.
Send(i, ok) ==
    /\ task[i].pc = "send"
    /\ IF ok THEN Gives(i) /\ Put(i, [task[i] EXCEPT !.pc = "mark"])
       ELSE Put(i, NoTask) /\ UNCHANGED <<given, answered>>
    /\ UNCHANGED <<said, byThread, binding, started, createMu, mirror, unread, posted>>

setWatermark(i) ==
    /\ task[i].pc = "mark"
    /\ SetMark(i) /\ Put(i, NoTask)
    /\ UNCHANGED <<said, byThread, started, createMu, mirror, given, answered, unread, posted>>

(* ---------------- rootFor, on a session's first event ---------------- *)
Lookup(s) ==
    /\ s \in started /\ mirror.pc = "idle"
    /\ mirror' = [pc |-> IF binding[s] # NoBinding THEN "found" ELSE "waiting", sid |-> s]
    /\ UNCHANGED <<said, task, byThread, binding, started, createMu, given, answered, unread, posted>>

\* "Another goroutine created it while we waited"; otherwise a card in the canonical chat.
LookAgain ==
    /\ mirror.pc = "waiting" /\ createMu = "none"
    /\ mirror' = [mirror EXCEPT !.pc = "found"]
    /\ posted' = (binding[mirror.sid] = NoBinding)
    /\ UNCHANGED <<said, task, byThread, binding, started, createMu, given, answered, unread>>

Next ==
    \/ \E kind \in {"chat", "own", "mention"}, time \in Now..MaxTime : Say(kind, time)
    \/ \E i \in Msgs, ok \in BOOLEAN : Pull(i, ok) \/ Send(i, ok)
    \/ \E i \in Msgs : Start(i) \/ StartFails(i) \/ putGuest(i) \/ setWatermark(i) \/ Lookup(i)
    \/ LookAgain

Spec == Init /\ [][Next]_guestVars

(* ---------------- properties ---------------- *)
\* What was said before a mention a session has got is known to it by then, whatever
\* the mentions handled at the same time and the sessions they start; only a mention
\* whose context could not be read leaves a gap.  The bot's words are never given back.
GuestKnowsAll ==
    \A s \in Msgs :
      /\ unread = {} => \A i \in answered[s] : \A j \in 1..(i - 1) :
           said[j].kind # "own" => j \in given[s]
      /\ \A j \in given[s] : said[j].kind # "own"

\* "Guest sessions are bound before their first router events can mirror here": none
\* gets a thread in the canonical chat.
GuestStaysHome == ~posted
=============================================================================
