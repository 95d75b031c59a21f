----------------------------- MODULE ClaudeLog -----------------------------
(***************************************************************************)
(* The log of a Claude session and what usher reads from it                *)
(* (internal/jsonl): the assembler that groups lines into turns, live and  *)
(* in batch, the two reads of the listing's metadata, and the cut a fork   *)
(* makes.  A line stands for itself by its number; text is not modelled.   *)
(* OpenCode's shadow logs have the same shape and the same reader.         *)
(***************************************************************************)
EXTENDS Integers, Sequences, SequencesExt

CONSTANTS Tools,      \* tool call ids
          MaxLines    \* bound: lines of the log

VARIABLES log,    \* the file's lines
          asm,    \* the assembler of the live stream
          turns,  \* the turns it has completed
          live    \* history: the open turn as the parts published so far show it

logVars == <<log, asm, turns, live>>

(* ---------------- lines ---------------- *)
Texts == {<<>>, <<"text">>, <<"thinking", "text">>}
\* Assistant lines: the calls and the blocks collectToolUses and
\* assistantContentBlocks find in them.
Says == [kind : {"say"}, uses : {<<t>> : t \in Tools}, blocks : Texts]
          \cup [kind : {"say"}, uses : {<<>>}, blocks : Texts \ {<<>>}]
          \cup [kind : {"say"}, uses : SetToSeqs(Tools), blocks : {<<>>}]
\* A tool's result renders to a body, its structured payload's or else its inline
\* text, or to nothing.
ResultLines == [kind : {"result", "blank"}, id : Tools]
\* Text a skill injects names the call it belongs to.
SkillLines == [kind : {"skill"}, id : Tools]
Marks == [kind : {"prompt", "interrupted", "compact", "done", "title"}]

Called(t) == \E n \in 1..Len(log) : log[n].kind = "say" /\ t \in ToSet(log[n].uses)
Answered(t) == \E n \in 1..Len(log) : log[n].kind \in {"result", "blank"} /\ log[n].id = t

\* What the agent writes next: ids are unique, a call is answered once, and the
\* text a skill injects follows its answer.
Written ==
    {l \in Says : \A i \in 1..Len(l.uses) : ~Called(l.uses[i])}
      \cup {l \in ResultLines \cup SkillLines : Called(l.id) /\ (Answered(l.id) <=> l.kind = "skill")}
      \cup Marks

(* ---------------- the assembler ---------------- *)
NewAssembler == [open |-> FALSE, parts |-> <<>>, uuid |-> 0, usage |-> 0, pending |-> [t \in Tools |-> 0]]

Part(type, id, body, n) == [type |-> type, id |-> id, body |-> body, at |-> n]
Card(t, n) == Part("tool", <<t>>, <<>>, n)

\* An event of the assistant's turn opens one when none is in progress, and is
\* its fork point until the next.
Opened(a, n) == IF a.open THEN [a EXCEPT !.uuid = n]
                          ELSE [a EXCEPT !.open = TRUE, !.parts = <<>>, !.usage = 0, !.uuid = n]

\* appendToolPlaceholders: a card for each call that has none.
AddCard(a, t, n) ==
    IF a.pending[t] # 0 THEN a
    ELSE [a EXCEPT !.parts = Append(@, Card(t, n)), !.pending[t] = Len(a.parts) + 1]

AddCards(a, uses, n) ==
    LET after[i \in 0..Len(uses)] == IF i = 0 THEN a ELSE AddCard(after[i - 1], uses[i], n)
    IN  after[Len(uses)]

AddBlocks(a, blocks, n) ==
    [a EXCEPT !.parts = @ \o [i \in 1..Len(blocks) |-> Part(blocks[i], <<>>, <<n>>, n)]]

\* addUsage sums the usage of a turn's messages.
AddUsage(a) == [a EXCEPT !.usage = @ + 1]

\* Flush: the open turn, when it has parts.  pendingTool is kept.
Flushed(a) == IF a.open /\ a.parts # <<>>
              THEN <<[role |-> "assistant", parts |-> a.parts, uuid |-> a.uuid,
                   usage |-> a.usage]>> ELSE <<>>

\* A slip of Closed: the open turn survives its flush.
ClosedNot(a) == a

Closed(a) == [a EXCEPT !.open = FALSE, !.parts = <<>>]

\* What a line does: the assembler after it, the turns it completes and the parts
\* of the open turn it publishes.
Outcome(a, done, shown) == [asm |-> a, done |-> done, shown |-> shown]

FeedBoundary(a, l) ==
    Outcome(Closed(a), Flushed(a) \o <<[role |-> IF l.kind = "compact" THEN "system" ELSE "user",
                                        parts |-> <<>>, uuid |-> 0, usage |-> 0]>>, {})

\* The first part a line added.
FirstOnly(b, c) == IF Len(c.parts) > Len(b.parts) THEN {Len(b.parts) + 1} ELSE {}

\* FeedLineParts publishes every new part of a line with text or thinking, Feed
\* the first card of a line with calls alone.
Published(l, b, c) ==
    IF l.blocks = <<>> THEN FirstOnly(b, c) ELSE (Len(b.parts) + 1)..Len(c.parts)

FeedSay(a, l, n) ==
    LET b == Opened(a, n)
        c == AddBlocks(AddCards(AddUsage(b), l.uses, n), l.blocks, n)
    IN Outcome(c, <<>>, Published(l, b, c))

\* The result of a call goes into the card at the index recorded for it.
FillsCard(a, t) == a.pending[t] # 0 /\ a.pending[t] <= Len(a.parts)

FeedResult(a, l, n) ==
    LET b == Opened(a, n) IN
    IF FillsCard(b, l.id)
    THEN LET i == b.pending[l.id] IN
         Outcome([b EXCEPT !.parts[i] = Part("tool", <<l.id>>, <<n>>, b.parts[i].at),
                           !.pending[l.id] = 0], <<>>, {i})
    ELSE Outcome([b EXCEPT !.parts = Append(@, Part("tool", <<l.id>>, <<n>>, n))],
                 <<>>, {Len(b.parts) + 1})

CardsOf(a, t) == {i \in 1..Len(a.parts) : a.parts[i].type = "tool" /\ a.parts[i].id = <<t>>}

\* Text a skill injects joins the last card of its call.
FeedSkill(a, l, n) ==
    LET b == Opened(a, n) IN
    IF CardsOf(b, l.id) # {}
    THEN LET i == CHOOSE i \in CardsOf(b, l.id) : \A j \in CardsOf(b, l.id) : j <= i IN
         Outcome([b EXCEPT !.parts[i].body = Append(@, n)], <<>>, {i})
    ELSE Outcome([b EXCEPT !.parts = Append(@, Part("tool", <<l.id>>, <<n>>, n))],
                 <<>>, {Len(b.parts) + 1})

Feed(a, l, n) ==
    CASE l.kind \in {"prompt", "interrupted", "compact"} -> FeedBoundary(a, l)
      [] l.kind = "say"    -> FeedSay(a, l, n)
      [] l.kind = "result" -> FeedResult(a, l, n)
      [] l.kind = "blank"  -> Outcome(Opened(a, n), <<>>, {})
      [] l.kind = "skill"  -> FeedSkill(a, l, n)
      [] OTHER             -> Outcome(a, <<>>, {})

\* What a reader makes of the lines k..n, one after the other.
FoldLines(Step(_, _), base, k, n) ==
    LET after[i \in 0..n] == IF i < k THEN base ELSE Step(after[i - 1], i) IN after[n]

ReadLine(o, n) ==
    LET f == Feed(o.asm, log[n], n) IN [asm |-> f.asm, done |-> o.done \o f.done]

\* The turns of the lines k.. of the log, the open one last: readTurnsFull from the
\* first line, readTurnsTailWindow from a later one.
ReadTurns(k) ==
    LET r == FoldLines(ReadLine, [asm |-> NewAssembler, done |-> <<>>], k, Len(log))
    IN r.done \o Flushed(r.asm)

(* ---------------- the listing's metadata ---------------- *)
NoMeta == [event |-> 0, tokens |-> 0, title |-> 0, prompt |-> 0, input |-> 0]

\* A slip of TailStep: a line without usage clears it.
TailStepClears(m, n) == [m EXCEPT !.event = n, !.tokens = IF log[n].kind = "say" THEN n ELSE 0]

\* Both reads take the last activity and the last usage.
TailStep(m, n) == [m EXCEPT !.event = n, !.tokens = IF log[n].kind = "say" THEN n ELSE @]

\* User lines with a text of their own: extractUserContent finds none in a result.
HasPrompt(n) == log[n].kind \in {"prompt", "interrupted", "skill"}

\* The full one also the last title, the first prompt and the last typed one.
MetaStep(m, n) ==
    LET k == log[n].kind IN
    [TailStep(m, n) EXCEPT
       !.title = IF k = "title" THEN n ELSE @,
       !.prompt = IF @ = 0 /\ HasPrompt(n) THEN n ELSE @,
       !.input = IF k = "prompt" THEN n ELSE @]

ReadSessionMeta == FoldLines(MetaStep, NoMeta, 1, Len(log))
ReadSessionMetaTail(k) == FoldLines(TailStep, NoMeta, k, Len(log))

(* ---------------- the fork ---------------- *)
HasUUID(n) == log[n].kind \notin {"title"}

\* A slip of CutsFork: the first prompt anywhere ends the copy.
CutsForkAnywhere(p, n) == log[n].kind \in {"prompt", "interrupted"}

\* The first user line behind the fork point that is no tool result.
CutsFork(p, n) == n > p /\ log[n].kind \in {"prompt", "interrupted", "skill"}

\* Lines the fork at line p keeps, or -1 when it is refused.
ForkPrefix(p) ==
    LET cuts == {n \in 1..Len(log) : CutsFork(p, n)}
    IN IF cuts # {} THEN (CHOOSE n \in cuts : \A m \in cuts : n <= m) - 1
       ELSE IF \E n \in (p + 1)..Len(log) : log[n].kind = "done" THEN Len(log) ELSE -1

(* ---------------- the log grows ---------------- *)
Init == log = <<>> /\ asm = NewAssembler /\ turns = <<>> /\ live = <<>>

\* What a viewer of the stream shows of the open turn: a part it is sent replaces
\* the one it has at that place.
View(old, out) == [i \in 1..Len(out.asm.parts) |->
                      IF i \in out.shown THEN out.asm.parts[i]
                      ELSE IF i \in DOMAIN old /\ out.done = <<>> THEN old[i] ELSE <<>>]

Append1(l) ==
    LET n == Len(log) + 1
        out == Feed(asm, l, n)
    IN /\ n <= MaxLines
       /\ log' = Append(log, l)
       /\ asm' = out.asm
       /\ turns' = turns \o out.done
       /\ live' = View(live, out)

Next == \E l \in Written : Append1(l)

Spec == Init /\ [][Next]_logVars

(* ---------------- properties ---------------- *)
Boundary(n) == log[n].kind \in {"prompt", "interrupted", "compact"}
Segment(n) == Len(SelectSeq(SubSeq(log, 1, n), LAMBDA l : l.kind \in {"prompt", "interrupted", "compact"}))

CallLine(t) == CHOOSE n \in 1..Len(log) : log[n].kind = "say" /\ t \in ToSet(log[n].uses)

\* A result that answers a call of an earlier turn: pendingTool still holds the
\* place of its card there, and a part of this turn may stand at it.
Late(n) == log[n].kind = "result" /\ Segment(CallLine(log[n].id)) < Segment(n)

Stored == Flushed(asm) \o SelectSeq(turns, LAMBDA t : t.role = "assistant")
Content(n) == log[n].kind \in {"result", "skill"} \/ (log[n].kind = "say" /\ log[n].blocks # <<>>)

\* The assembler's turns are the log's: what a part shows comes from one turn of the
\* log only, and every text, result and injected text is shown, each in one part
\* of each of its types, unless a late result has overwritten it; and a turn's usage is that
\* of all its messages.
TurnsAreTheLog ==
    /\ \A t \in ToSet(Stored) : \A i, j \in 1..Len(t.parts) :
         \A n \in ToSet(t.parts[i].body), m \in ToSet(t.parts[j].body) : Segment(n) = Segment(m)
    /\ \A n \in 1..Len(log) : Content(n) =>
         \/ \E t \in ToSet(Stored) :
              Len(SelectSeq(t.parts, LAMBDA p : n \in ToSet(p.body)))
                = IF log[n].kind = "say" THEN Len(log[n].blocks) ELSE 1
         \/ \E m \in n..Len(log) : Late(m) /\ Segment(m) = Segment(n)
    /\ \A t \in ToSet(Stored) :
         t.usage = Cardinality({n \in 1..Len(log) : log[n].kind = "say" /\ Segment(n) = Segment(t.uuid)})

\* "A part streamed live and the same turn fetched later from /transcript can never
\* disagree" (jsonl.go:319): a viewer that followed the stream shows the open turn as
\* it is stored, but for the further cards of a line with several calls and no
\* text, of which Feed publishes one; and the batch read gives the same turns.
LiveIsStored ==
    /\ \A i \in 1..Len(asm.parts) :
         \/ live[i] = asm.parts[i]
         \/ live[i] = <<>> /\ asm.parts[i].body = <<>> /\ Len(log[asm.parts[i].at].uses) > 1
    /\ ReadTurns(1) = turns \o Flushed(asm)

\* A fork keeps everything through the turn of its fork point (fork.go:13): it ends
\* where that turn does, unless text a skill injected, which the cut takes for a
\* prompt, follows in the turn.
ForkKeepsTurn ==
    \A p \in 1..Len(log) :
        LET k == ForkPrefix(p) IN
        HasUUID(p) /\ k # -1 =>
          /\ k >= p
          /\ \/ k = Len(log)
             \/ log[k + 1].kind \in {"prompt", "interrupted"}
             \/ log[k + 1].kind = "skill" /\ k + 1 > p

\* Reading the tail of a longer file refreshes what an earlier full read knew to what
\* a full read would say now, as long as the window reaches back to that read.
TailRefreshes ==
    \A k \in 1..Len(log) :
        LET tail == ReadSessionMetaTail(k)
            old == FoldLines(MetaStep, NoMeta, 1, k - 1)
        IN /\ tail.event = ReadSessionMeta.event
           /\ ReadSessionMeta.tokens = IF tail.tokens # 0 THEN tail.tokens ELSE old.tokens
=============================================================================
