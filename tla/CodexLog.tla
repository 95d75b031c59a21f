----------------------------- MODULE CodexLog ------------------------------
(***************************************************************************)
(* A codex rollout and what usher reads from it (internal/codexrollout):   *)
(* the assembler that groups its lines into turns, the metadata of the     *)
(* listing and the cut a fork makes.  A line stands for itself by its      *)
(* number.  The clean text stream (user_message, agent_message, and the    *)
(* item_completed lines that replace them in paginated rollouts) is one    *)
(* kind of line each; the tools that are rendered from one event are one.  *)
(***************************************************************************)
EXTENDS Integers, Sequences, SequencesExt

CONSTANTS Calls,        \* call ids
          MaxRollout    \* bound: lines behind the header

VARIABLES rollout, basm, bturns, blive

rolloutVars == <<rollout, basm, bturns, blive>>

\* "mcp" is a function call named mcp__..., "skip" a custom call that a canonical
\* event renders (customCallHasCanonicalEvent).
Forms == {"function", "mcp", "custom", "skip"}
\* What a paginated rollout tells by a completed item, and an older one by an event.
Told == [kind : {"mcpEnd"}, item : BOOLEAN, id : Calls]
          \cup [kind : {"prompt", "compact", "text"}, item : BOOLEAN]
Lines == [kind : {"call"}, id : Calls, form : Forms]
           \cup [kind : {"output"}, id : Calls, form : {"function", "custom"}]
           \cup [kind : {"thinking", "tool", "complete", "aborted", "context", "tokens"}]
           \cup Told

Has(k, t) == \E n \in 1..Len(rollout) : rollout[n].kind = k /\ rollout[n].id = t
CallOf(t) == CHOOSE n \in 1..Len(rollout) : rollout[n].kind = "call" /\ rollout[n].id = t
OutputForm(form) == IF form \in {"function", "mcp"} THEN "function" ELSE "custom"

\* What codex writes next: a call once, its output once and in its form, the end of
\* an MCP call once as an event and once as an item.  An output may come
\* without its call (a rollout that starts in the middle).
Written ==
    {l \in Lines :
        CASE l.kind = "call" -> ~Has("call", l.id) /\ ~Has("output", l.id) /\ ~Has("mcpEnd", l.id)
          [] l.kind = "output" -> /\ ~Has("output", l.id)
                                  /\ Has("call", l.id) => OutputForm(rollout[CallOf(l.id)].form) = l.form
          [] l.kind = "mcpEnd" -> /\ ~\E n \in 1..Len(rollout) : rollout[n] = l
                                  /\ Has("call", l.id) => rollout[CallOf(l.id)].form = "mcp"
          [] OTHER -> TRUE}

(* ---------------- the assembler ---------------- *)
\* The zero value of toolStash: no name, and index 0, the first part.
NoStash == [form |-> "none", at |-> 1]
NoneStash == [form |-> "skip", at |-> 0]

NewAssembler == [open |-> FALSE, parts |-> <<>>, uuid |-> 0, model |-> 0, usage |-> 0,
                 pending |-> [t \in Calls |-> NoStash], seen |-> {}]

Opened(a) == IF a.open THEN a ELSE [a EXCEPT !.open = TRUE, !.parts = <<>>, !.uuid = 0, !.usage = 0]
Part(type, body) == [type |-> type, body |-> body]
Added(a, p) == [Opened(a) EXCEPT !.parts = Append(@, p)]

Outcome(a, done, shown) == [asm |-> a, done |-> done, shown |-> shown]
Ignored(a) == Outcome(a, <<>>, {})
Shown(a, p) == Outcome(Added(a, p), <<>>, {Len(Opened(a).parts) + 1})

Turn(role, a) == [role |-> role, parts |-> a.parts, uuid |-> a.uuid, usage |-> a.usage]
Flushed(a) == IF a.open /\ a.parts # <<>> THEN <<Turn("assistant", a)>> ELSE <<>>
Closed(a) == [a EXCEPT !.open = FALSE, !.parts = <<>>]

FeedBoundary(a, role) == Outcome(Closed(a), Flushed(a) \o <<Turn(role, Opened(Closed(a)))>>, {})

\* The end of a turn carries its id, the fork point of the turn it closes.
FeedComplete(a, n) == Outcome(Closed(a), Flushed([a EXCEPT !.uuid = n]), {})

\* A call stands up an empty card, unless an event elsewhere renders it.
FeedCall(a, l) ==
    IF l.form = "skip" THEN Ignored([a EXCEPT !.pending[l.id] = NoneStash])
    ELSE LET b == Added(a, Part("tool", <<>>)) IN
         Outcome([b EXCEPT !.pending[l.id] = [form |-> l.form, at |-> Len(b.parts)]],
                 <<>>, {Len(b.parts)})

\* A slip of FirstSight: an MCP call may be shown by each of its records.
FirstSightAlways(a, t) == TRUE

\* markMCP: the lifecycle event, the completed item and the output of one MCP call
\* are one card.
FirstSight(a, t) == t \notin a.seen
Marked(a, t) == [a EXCEPT !.seen = @ \cup {t}]

FeedMCP(a, l, n) ==
    IF FirstSight(a, l.id) THEN Shown(Marked(a, l.id), Part("tool", <<n>>)) ELSE Ignored(a)

\* An output fills the card of its call, in place when the index is one of the
\* open turn, or is appended.
Fill(a, at, n) ==
    LET b == Opened(a) IN
    IF at \in 1..Len(b.parts)
    THEN Outcome([b EXCEPT !.parts[at] = Part("tool", <<n>>)], <<>>, {at})
    ELSE Shown(a, Part("tool", <<n>>))

FeedOutput(a, l, n) ==
    LET s == a.pending[l.id]
        b == [a EXCEPT !.pending[l.id] = NoStash]
    IN CASE l.form = "custom" /\ s.form \in {"none", "skip"} -> Ignored(b)
         [] s.form = "mcp" /\ ~FirstSight(a, l.id) -> Ignored(b)
         [] s.form = "mcp" /\ FirstSight(a, l.id) -> Fill(Marked(b, l.id), s.at, n)
         [] OTHER -> Fill(b, s.at, n)

\* A tool an event renders: a patch, a command, a search, an image, a dynamic tool.
FeedTool(a, n) == Shown(a, Part("tool", <<n>>))

\* A reasoning summary.
FeedReasoning(a, n) == Shown(a, Part("thinking", <<n>>))

\* addUsage: usage with no turn in flight attaches nowhere.
AddUsage(a) == IF a.open THEN [a EXCEPT !.usage = @ + 1] ELSE a

FeedEvent(a, l, n) ==
    CASE l.kind = "prompt"   -> FeedBoundary(a, "user")
      [] l.kind = "compact"  -> FeedBoundary(a, "system")
      [] l.kind = "complete" -> FeedComplete(a, n)
      [] l.kind = "text"     -> Shown(a, Part("text", <<n>>))
      [] l.kind = "tool"     -> FeedTool(a, n)
      [] l.kind = "mcpEnd"   -> FeedMCP(a, l, n)
      [] l.kind = "tokens"   -> Ignored(AddUsage(a))
      [] OTHER               -> Ignored(a)

\* completedMCPToolPart.
FeedMCPItem(a, l, n) == FeedMCP(a, l, n)

\* completedItemPart.
FeedItem(a, l, n) ==
    CASE l.kind = "prompt"  -> FeedBoundary(a, "user")
      [] l.kind = "compact" -> FeedBoundary(a, "system")
      [] l.kind = "text"    -> Shown(a, Part("text", <<n>>))
      [] l.kind = "mcpEnd"  -> FeedMCPItem(a, l, n)

\* The model's items: calls, outputs and reasoning; its messages are the events'.
FeedResponseItem(a, l, n) ==
    CASE l.kind = "call"     -> FeedCall(a, l)
      [] l.kind = "output"   -> FeedOutput(a, l, n)
      [] l.kind = "thinking" -> FeedReasoning(a, n)

FeedTurnContext(a, n) == Ignored([a EXCEPT !.model = n])

Feed(a, l, n) ==
    CASE l \in Told /\ l.item -> FeedItem(a, l, n)
      [] l.kind \in {"call", "output", "thinking"} -> FeedResponseItem(a, l, n)
      [] l.kind = "context" -> FeedTurnContext(a, n)
      [] OTHER -> FeedEvent(a, l, n)

ReadLine(o, n) ==
    LET f == Feed(o.asm, rollout[n], n) IN [asm |-> f.asm, done |-> o.done \o f.done]

\* The turns of the first k lines, the open one last.
ReadTurns(k) ==
    LET after[i \in 0..k] == IF i < 1 THEN [asm |-> NewAssembler, done |-> <<>>] ELSE ReadLine(after[i - 1], i)
    IN after[k].done \o Flushed(after[k].asm)

(* ---------------- metadata, end markers and forks ---------------- *)
\* userMessage, completedUserMessage: the text of a prompt.
IsPrompt(n) == rollout[n].kind = "prompt"

NoMeta == [event |-> 0, prompt |-> 0, input |-> 0, model |-> 0]
MetaStep(m, n) ==
    LET k == rollout[n].kind IN
    [event |-> n, prompt |-> IF m.prompt = 0 /\ IsPrompt(n) THEN n ELSE m.prompt,
     input |-> IF IsPrompt(n) THEN n ELSE m.input,
     model |-> IF k = "context" THEN n ELSE m.model]
ReadSessionMeta == FoldLeft(MetaStep, NoMeta, [i \in 1..Len(rollout) |-> i])

IsTurnComplete(l) == l.kind = "complete"
IsTurnAborted(l) == l.kind = "aborted"

\* A slip of ForkPrefix: the end marker itself is left out.
ForkPrefixShort(turn) ==
    IF turn \in 1..Len(rollout) /\ IsTurnComplete(rollout[turn]) THEN turn - 1 ELSE -1

\* Lines behind the header a fork through `turn` keeps; -1 refuses.  The id of a
\* turn is the number of the line that completes it.
ForkPrefix(turn) ==
    IF turn \in 1..Len(rollout) /\ IsTurnComplete(rollout[turn]) THEN turn ELSE -1

(* ---------------- the rollout grows ---------------- *)
Init == rollout = <<>> /\ basm = NewAssembler /\ bturns = <<>> /\ blive = <<>>

View(old, out) == [i \in 1..Len(out.asm.parts) |->
                      IF i \in out.shown THEN out.asm.parts[i]
                      ELSE IF i \in DOMAIN old /\ out.done = <<>> THEN old[i] ELSE <<>>]

Grow(l) ==
    LET n == Len(rollout) + 1
        out == Feed(basm, l, n)
    IN /\ n <= MaxRollout
       /\ rollout' = Append(rollout, l)
       /\ basm' = out.asm
       /\ bturns' = bturns \o out.done
       /\ blive' = View(blive, out)

Next == \E l \in Written : Grow(l)

Spec == Init /\ [][Next]_rolloutVars

(* ---------------- properties ---------------- *)
Ends(l) == l.kind \in {"prompt", "compact", "complete"}
Segment(n) == Len(SelectSeq(SubSeq(rollout, 1, n - 1), Ends))
Stored == SelectSeq(bturns, LAMBDA t : t.role = "assistant") \o Flushed(basm)
PartsWith(n) == UNION {{<<i, j>> : j \in {j \in 1..Len(Stored[i].parts) :
                                             n \in ToSet(Stored[i].parts[j].body)}} :
                       i \in 1..Len(Stored)}

\* An output that no card of its own turn waits for: its call is of an earlier turn,
\* or is not in the rollout, and its index is that of another part.
Stray(n) ==
    /\ rollout[n].kind = "output"
    /\ ~\E m \in 1..(n - 1) : /\ rollout[m].kind = "call" /\ rollout[m].id = rollout[n].id
                              /\ Segment(m) = Segment(n)

\* The usage a turn that ends at line n may show: all of what was counted behind what
\* the agent said, and nothing of another turn's.
Usages(n) ==
    LET own == {m \in 1..n : rollout[m].kind = "tokens" /\ Segment(m) = Segment(n)}
        behind == {m \in own : \E k \in 1..m : Segment(k) = Segment(m)
                                 /\ rollout[k].kind \in {"text", "thinking", "tool"}}
    IN Cardinality(behind)..Cardinality(own)

\* What the agent said and did is in the turns of the rollout once: a part per text,
\* reasoning and rendered event, in the turn it was written in, unless a stray
\* output has taken its place; and an MCP call, which two or three records
\* tell of, fills one card; and a turn's usage is its own.
TurnsAreTheRollout ==
    /\ \A n \in 1..Len(rollout) : rollout[n].kind \in {"text", "thinking", "tool"} =>
         \/ Len(SetToSeq(PartsWith(n))) = 1
         \/ \E m \in n..Len(rollout) : Stray(m) /\ Segment(m) = Segment(n)
    /\ \A i \in 1..Len(Stored), n, m \in 1..Len(rollout) :
         (\E j, k \in 1..Len(Stored[i].parts) : n \in ToSet(Stored[i].parts[j].body)
                                             /\ m \in ToSet(Stored[i].parts[k].body))
            => Segment(n) = Segment(m)
    /\ \A t \in ToSet(Stored) : t.uuid # 0 => t.usage \in Usages(t.uuid)
    /\ \A t \in Calls : Has("call", t) /\ rollout[CallOf(t)].form = "mcp" =>
         Len(SetToSeq({n \in 1..Len(rollout) : rollout[n].kind \in {"output", "mcpEnd"}
                           /\ rollout[n].id = t /\ PartsWith(n) # {}})) <= 1

\* A fork through a turn reads as the session read at the end of that turn
\* (fork.go:20), and while the session goes on the stream of its open turn shows
\* what a read of the file would show.
ForkReadsTheSame ==
    /\ \A t \in 1..Len(rollout) : ForkPrefix(t) # -1 =>
         /\ IsPrefix(ReadTurns(ForkPrefix(t)), bturns \o Flushed(basm))
         /\ \A n \in 1..t : Segment(n) = Segment(t) => n <= ForkPrefix(t)
         /\ \A u \in ToSet(ReadTurns(ForkPrefix(t))) : u.role = "assistant" /\ u.uuid = t
                => ForkPrefix(t) = t
    /\ blive = basm.parts
    /\ ReadTurns(Len(rollout)) = bturns \o Flushed(basm)
=============================================================================
