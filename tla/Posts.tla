-------------------------------- MODULE Posts --------------------------------
(***************************************************************************)
(* What the Telegram hub and the Lark plugin post of a session's events:   *)
(* the event in hand is a list of calls to the chat's server, each of      *)
(* which may be refused, limited, lost, or done and its answer lost; a     *)
(* message that is refused is posted in a plainer form.                    *)
(***************************************************************************)
EXTENDS Integers, Sequences, SequencesExt, FiniteSetsExt

CONSTANTS Cap,         \* telegramMaxMessage
          CardCap,     \* larkCardMax
          TextCap,     \* larkMaxMessage
          Retries,     \* maxRateLimitRetries
          Texts,       \* bound: the texts, sequences of runes and "nl"
          MaxEvents    \* bound: events of the session

VARIABLES bridge,   \* "telegram" or "lark"
          bound,    \* the session has a thread
          fed,      \* the events so far, the one in hand last
          calls,    \* the calls that are left for it
          tries,    \* the times the first of them has been limited
          thread,   \* what was posted
          title,    \* the session's title now, in the plugin's store, on the root card, and
                    \* (history) when the last turn ended
          hurt      \* history: the events of which a call, in its plainest form, failed
                    \* or went unanswered

postsVars == <<bridge, bound, fed, calls, tries, thread, title, hurt>>

Init ==
    /\ bridge \in {"telegram", "lark"} /\ bound = FALSE
    /\ fed = <<>> /\ calls = <<>> /\ tries = 0 /\ thread = <<>>
    /\ title = [now |-> 0, stored |-> 0, card |-> 0, due |-> 0]
    /\ hurt = {}

(* ---------------- imutil ---------------- *)
\* Where the runes from i on are cut: at their last newline in reach, when that is
\* beyond the half.
lastNewline(text, i, max) ==
    LET nls == {n \in 1..(max - 1) : n > max \div 2 /\ text[i + n] = "nl"} IN
    IF i + max - 1 > Len(text) THEN Len(text) - i + 1
    ELSE IF nls # {} THEN Max(nls) ELSE max

\* A slip of SplitMessage: the newline that is skipped is not looked at.
SplitMessageDrops(text, max) ==
    LET chunks[i \in 1..(Len(text) + max)] ==
            LET n == lastNewline(text, i, max) IN
            IF i > Len(text) THEN <<>> ELSE <<SubSeq(text, i, i + n - 1)>> \o chunks[i + n + 1]
    IN  IF Len(text) <= max THEN <<text>> ELSE chunks[1]

\* Chunks of at most max runes; one newline is skipped where the text is cut.
SplitMessage(text, max) ==
    LET chunks[i \in 1..(Len(text) + max)] ==
            LET n == lastNewline(text, i, max)
                skipped == IF i + n <= Len(text) /\ text[i + n] = "nl" THEN 1 ELSE 0
            IN  IF i > Len(text) THEN <<>> ELSE <<SubSeq(text, i, i + n - 1)>> \o chunks[i + n + skipped]
    IN  IF Len(text) <= max THEN <<text>> ELSE chunks[1]

(* ---------------- the calls of an event ---------------- *)
\* at: the chunk and, in a chunk that is posted in pieces, the piece.
Call(form, at, text) == [form |-> form, at |-> at, text |-> text]
Notice == <<Call("notice", <<0, 0>>, <<>>)>>

Chunks(form, text, max) ==
    LET s == SplitMessage(text, max) IN [c \in DOMAIN s |-> Call(form, <<c, 0>>, s[c])]

\* The chunk of a card, as plain messages.
Pieces(call) ==
    LET s == SplitMessage(call.text, TextCap)
    IN  [p \in DOMAIN s |-> Call("text", <<call.at[1], p>>, s[p])]

\* The quoted prompt is one message when it fits, else its chunks without the quotes.
mirrorPrompt(text, fits) ==
    IF bridge = "lark" THEN Chunks("post", text, CardCap)
    ELSE IF fits THEN <<Call("html", <<1, 0>>, text)>> ELSE Chunks("plain", text, Cap)

mirrorAssistant(text) ==
    IF bridge = "lark" THEN Chunks("post", text, CardCap) ELSE Chunks("html", text, Cap)

\* Lark's image is uploaded before it is posted.
ImageCall == Call(IF bridge = "lark" THEN "upload" ELSE "photo", <<0, 0>>, <<>>)

\* An image outside the allowed directories, of another type or unreadable is logged only.
mirrorImage(image) ==
    CASE image = "fine"  -> <<ImageCall>>
      [] image = "large" -> Notice
      [] OTHER           -> <<>>

\* A turn that failed or was a local command is not announced.
notifyTurnComplete(reason) == IF reason \/ ~bound THEN <<>> ELSE <<Call("ping", <<0, 0>>, <<>>)>>
notifyTurnError == IF bound THEN <<Call("warning", <<0, 0>>, <<>>)>> ELSE <<>>

(* ---------------- the session's events ---------------- *)
Idle == calls = <<>>
Feed(e) == fed' = Append(fed, e) /\ tries' = 0

\* The thread is created for a prompt, a text or an image; the event is dropped when it
\* cannot be.
InThread(list) ==
    \/ /\ bound' = TRUE /\ calls' = list
       /\ title' = IF bound \/ bridge = "telegram" THEN title
                   ELSE [title EXCEPT !.stored = title.now, !.card = title.now, !.due = title.now]
       /\ UNCHANGED hurt
    \/ ~bound /\ hurt' = hurt \cup {Len(fed) + 1} /\ UNCHANGED <<bound, calls, title>>

TakePrompt(text, fits) ==
    /\ Idle /\ Len(fed) < MaxEvents
    /\ fits => Len(text) < Cap
    /\ Feed([kind |-> "prompt", text |-> text, image |-> "none", reason |-> FALSE])
    /\ InThread(mirrorPrompt(text, fits))
    /\ UNCHANGED <<bridge, thread>>

\* turn.user, part
TakeText(text) ==
    /\ Idle /\ Len(fed) < MaxEvents
    /\ Feed([kind |-> "text", text |-> text, image |-> "none", reason |-> FALSE])
    /\ InThread(mirrorAssistant(text))
    /\ UNCHANGED <<bridge, thread>>

TakeImage(image) ==
    /\ Idle /\ Len(fed) < MaxEvents
    /\ Feed([kind |-> "image", text |-> <<>>, image |-> image, reason |-> FALSE])
    /\ InThread(mirrorImage(image))
    /\ UNCHANGED <<bridge, thread>>

\* subprocess.exit
TakeExit(reason) ==
    /\ Idle /\ Len(fed) < MaxEvents
    /\ Feed([kind |-> "exit", text |-> <<>>, image |-> "none", reason |-> reason])
    /\ calls' = notifyTurnComplete(reason) \o IF bridge = "lark" THEN <<Call("title", <<0, 0>>, <<>>)>> ELSE <<>>
    /\ UNCHANGED <<bridge, bound, thread, title, hurt>>

\* The plugin does not subscribe to the event.
TakeError ==
    /\ Idle /\ Len(fed) < MaxEvents /\ bridge = "telegram"
    /\ Feed([kind |-> "error", text |-> <<>>, image |-> "none", reason |-> FALSE])
    /\ calls' = notifyTurnError
    /\ UNCHANGED <<bridge, bound, thread, title, hurt>>

\* A rename, or the AI title, lands.
Rename ==
    /\ bridge = "lark" /\ title.now < MaxEvents
    /\ title' = [title EXCEPT !.now = @ + 1]
    /\ UNCHANGED <<bridge, bound, fed, calls, tries, thread, hurt>>

\* At the end of a turn the root card is patched, when its title is not the one in the
\* store.
refreshTitle ==
    /\ ~Idle /\ Head(calls).form = "title"
    /\ calls' = (IF bound /\ title.stored # title.now THEN <<Call("card", <<0, 0>>, <<>>)>> ELSE <<>>)
    /\ title' = IF bound THEN [title EXCEPT !.due = title.now] ELSE title
    /\ UNCHANGED <<bridge, bound, fed, tries, thread, hurt>>

(* ---------------- the server's answers ---------------- *)
Post == thread' = Append(thread, [ev |-> Len(fed)] @@ Head(calls))

\* A message or a photo is posted.
Done ==
    /\ ~Idle /\ Head(calls).form \notin {"upload", "card", "title"}
    /\ Post /\ calls' = Tail(calls) /\ tries' = 0
    /\ UNCHANGED <<bridge, bound, fed, title, hurt>>

\* The key of the upload is sent.
Uploaded ==
    /\ ~Idle /\ Head(calls).form = "upload"
    /\ calls' = <<Call("image", <<0, 0>>, <<>>)>>
    /\ UNCHANGED <<bridge, bound, fed, tries, thread, title, hurt>>

\* The patch holds the title that was read before it was sent.
Patched ==
    /\ ~Idle /\ Head(calls).form = "card"
    /\ title' = [title EXCEPT !.stored = title.due, !.card = title.due] /\ calls' = Tail(calls)
    /\ UNCHANGED <<bridge, bound, fed, tries, thread, hurt>>

\* A slip of GiveUp: the rest of the text is tried.
GiveUpOne == IF Head(calls).form \in {"photo", "upload", "image"} THEN Notice ELSE Tail(calls)

\* What is left after a call has failed in its plainest form: not the rest of the text;
\* the notice, for an image; the rest, for the message that a turn has ended.
GiveUp ==
    CASE Head(calls).form \in {"photo", "upload", "image"} -> Notice
      [] Head(calls).form \in {"ping", "card"}             -> Tail(calls)
      [] OTHER                                             -> <<>>

\* A slip of sendSilentHTML: a message that is refused is dropped.
sendSilentHTMLDrops(why) ==
    /\ ~Idle /\ Head(calls).form = "html" /\ why \in {"refused", "wide"}
    /\ calls' = Tail(calls) /\ tries' = 0
    /\ UNCHANGED <<bridge, bound, fed, thread, title, hurt>>

\* HTML that is over the cap, or that the server refuses (400), is sent plain.
sendSilentHTML(why) ==
    /\ ~Idle /\ Head(calls).form = "html" /\ why \in {"refused", "wide"}
    /\ why = "wide" => tries = 0 /\ Last(fed).kind = "text"
    /\ calls' = <<[Head(calls) EXCEPT !.form = "plain"]>> \o Tail(calls) /\ tries' = 0
    /\ UNCHANGED <<bridge, bound, fed, thread, title, hurt>>

\* Whatever the error is, also when the message was posted, the chunk is sent as text.
replyMarkdown(unheard) ==
    /\ ~Idle /\ Head(calls).form = "post"
    /\ IF unheard THEN Post /\ hurt' = hurt \cup {Len(fed)} ELSE UNCHANGED <<thread, hurt>>
    /\ calls' = Pieces(Head(calls)) \o Tail(calls)
    /\ UNCHANGED <<bridge, bound, fed, tries, title>>

\* doRaw: a call that is limited is repeated, so many times.
Limited ==
    /\ ~Idle /\ bridge = "telegram" /\ tries < Retries
    /\ tries' = tries + 1
    /\ UNCHANGED <<bridge, bound, fed, calls, thread, title, hurt>>

\* Any other failure: of the network, of the server, a limit that stays.
Fails(unheard) ==
    /\ ~Idle /\ Head(calls).form \notin {"post", "title"}
    /\ IF unheard /\ Head(calls).form \notin {"upload", "card"} THEN Post ELSE UNCHANGED thread
    /\ title' = CASE Head(calls).form # "card" -> title
                  [] unheard -> [title EXCEPT !.stored = title.due, !.card = title.due]
                  [] OTHER   -> [title EXCEPT !.stored = title.due]
    /\ hurt' = hurt \cup {Len(fed)}
    /\ calls' = GiveUp /\ tries' = 0
    /\ UNCHANGED <<bridge, bound, fed>>

Next ==
    \/ \E t \in Texts : TakeText(t) \/ \E fits \in BOOLEAN : TakePrompt(t, fits)
    \/ \E i \in {"fine", "large", "unseen"} : TakeImage(i)
    \/ \E r \in BOOLEAN : TakeExit(r)
    \/ TakeError \/ Rename \/ refreshTitle \/ Done \/ Uploaded \/ Patched \/ Limited
    \/ \E why \in {"refused", "wide"} : sendSilentHTML(why)
    \/ \E unheard \in BOOLEAN : replyMarkdown(unheard) \/ Fails(unheard)

Spec == Init /\ [][Next]_postsVars

(* ---------------- properties ---------------- *)
Of(e) == SelectSeq(thread, LAMBDA p : p.ev = e)
Said(e) == SelectSeq(Of(e), LAMBDA p : p.at # <<0, 0>>)
Once(e) == SelectSeq(Said(e), LAMBDA p : p.at[2] > 0 =>
                              ~\E q \in Range(Of(e)) : q.at = <<p.at[1], 0>>)
Runes(t) == SelectSeq(t, LAMBDA r : r # "nl")
TextOf(posts) == FlattenSeq([i \in DOMAIN posts |-> posts[i].text])
Before(p, q) == p.ev < q.ev \/ (p.ev = q.ev /\ (p.at[1] < q.at[1] \/ (p.at[1] = q.at[1] /\ p.at[2] < q.at[2])))
Settled(e) == e < Len(fed) \/ Idle

\* The thread reads as the session did: its posts are in the order of the events and of
\* their text, none is there twice, what is there of a text is its beginning up to the
\* newlines of the cuts (a chunk that Lark's server posted without an answer apart: its
\* plain text is posted again), and nothing is announced of a turn that failed.
ThreadReads ==
    /\ \A i, j \in DOMAIN thread : i < j =>
           Before(thread[i], thread[j]) \/ (thread[i].ev = thread[j].ev /\ thread[i].at = <<0, 0>>)
    /\ \A e \in DOMAIN fed : IsPrefix(Runes(TextOf(Once(e))), Runes(fed[e].text))
    /\ \A i \in DOMAIN thread : thread[i].form = "ping" =>
           fed[thread[i].ev].kind = "exit" /\ ~fed[thread[i].ev].reason

\* An event of which no call failed is all there once it is done with: the whole text,
\* one newline lost at most for each message, in messages that the chat takes; the
\* image or a notice in its place; and the root card shows the title the last turn
\* ended with.
NothingIsLost ==
    /\ \A e \in DOMAIN fed \ hurt : Settled(e) =>
           /\ Runes(TextOf(Said(e))) = Runes(fed[e].text)
           /\ Len(TextOf(Said(e))) + Len(Said(e)) >= Len(fed[e].text)
           /\ fed[e].image \in {"fine", "large"} => Len(Of(e)) = 1
    /\ hurt = {} /\ Idle => title.card = title.due
    /\ \A i \in DOMAIN thread : Len(thread[i].text) <= IF thread[i].form = "post" THEN CardCap
                                                        ELSE IF bridge = "lark" THEN TextCap ELSE Cap
=============================================================================
