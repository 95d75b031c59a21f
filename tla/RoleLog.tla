------------------------------ MODULE RoleLog ------------------------------
(***************************************************************************)
(* The logs of pi, of kiro v3 and of its legacy engine: lines of a user,   *)
(* of the assistant and of tools (internal/pi, internal/kiro).  The three  *)
(* readers group them in the same way; pi's log is a tree of which the     *)
(* last line names the branch that is read and forked.                     *)
(***************************************************************************)
EXTENDS Integers, Sequences, SequencesExt

CONSTANTS CallIds,      \* tool call ids
          MaxEntries    \* bound: lines of the log

VARIABLES flavour, entries

roleVars == <<flavour, entries>>

(* ---------------- lines ---------------- *)
Block(type, id) == [type |-> type, id |-> id]
TextBlock == Block("text", 0)
Spoken == {<<>>, <<TextBlock>>, <<Block("thinking", 0)>>} \cup {<<Block("call", c)>> : c \in CallIds}
Mixed == {<<TextBlock, Block("call", c)>> : c \in CallIds}
Results == {<<Block("result", c)>> : c \in CallIds}

Blocks(role) ==
    CASE role = "user" -> {<<>>, <<TextBlock>>}
      [] role = "assistant" -> IF flavour = "kiro" THEN Spoken ELSE Spoken \cup Mixed
      [] role = "result" -> IF flavour = "legacy"
                            THEN Results \cup {<<Block("result", c), Block("result", d)>> :
                                                 c, d \in CallIds}
                            ELSE Results
      [] role = "end" -> {<<>>}

Uses(t, n, c) == \E i \in 1..Len(entries[n].blocks) : entries[n].blocks[i] = Block(t, c)
Named(t, c) == \E n \in 1..Len(entries) : Uses(t, n, c)

\* Calls are named once and answered once; an answer may come without its call (a
\* compacted log).
Fresh(bs) == \A i \in 1..Len(bs) :
                /\ bs[i].type \in {"call", "result"} => ~Named(bs[i].type, bs[i].id)
                /\ bs[i].type = "call" => ~Named("result", bs[i].id)
                /\ \A j \in 1..Len(bs) : bs[i] = bs[j] => i = j

\* Only pi writes a line under any earlier one; the others write under the last.
Parents == IF flavour = "pi" THEN 0..Len(entries) ELSE {Len(entries)}

(* ---------------- the assemblers ---------------- *)
NewAssembler == [open |-> FALSE, parts |-> <<>>, uuid |-> 0]

Turn(role, parts, uuid) == [role |-> role, parts |-> parts, uuid |-> uuid]
Taken(a) == IF a.open THEN <<Turn("assistant", a.parts, a.uuid)>> ELSE <<>>

Outcome(a, done, shown) == [asm |-> a, done |-> done, shown |-> shown]

FeedUser(a, e, n) ==
    Outcome(NewAssembler, Taken(a) \o IF e.blocks = <<>> THEN <<>> ELSE <<Turn("user", <<>>, n)>>, {})

FeedTurnEnd(a) == Outcome(NewAssembler, Taken(a), {})

\* ensureCur.  The turn a result of pi opens has no id.
Opened(a, e, n) ==
    IF a.open THEN a
    ELSE [open |-> TRUE, parts |-> <<>>,
          uuid |-> IF flavour = "pi" /\ e.role = "result" THEN 0 ELSE n]

Part(b, n) == [type |-> IF b.type \in {"call", "result"} THEN "tool" ELSE b.type, id |-> b.id, at |-> n,
               body |-> IF b.type = "call" THEN 0 ELSE n]

FeedAssistant(a, e, n) ==
    LET b == Opened(a, e, n)
        c == [b EXCEPT !.parts = @ \o [i \in 1..Len(e.blocks) |-> Part(e.blocks[i], n)]]
    IN Outcome(c, <<>>, (Len(b.parts) + 1)..Len(c.parts))

\* A slip of Cards: the card of the last call takes any result.
CardsLast(a, id) == {i \in 1..Len(a.parts) : a.parts[i].type = "tool" /\ i = Len(a.parts)}

Cards(a, id) == {i \in 1..Len(a.parts) : a.parts[i].type = "tool" /\ a.parts[i].id = id}

\* A result fills the last part of the open turn with its call id, or is appended.
FillOne(o, b, n) ==
    LET cards == Cards(o.asm, b.id)
        i == IF cards = {} THEN Len(o.asm.parts) + 1 ELSE CHOOSE i \in cards : \A j \in cards : j <= i
    IN Outcome([o.asm EXCEPT !.parts = IF cards = {} THEN Append(@, Part(b, n))
                                       ELSE [@ EXCEPT ![i].body = n]], <<>>, o.shown \cup {i})

FeedResult(a, e, n) ==
    LET after[i \in 0..Len(e.blocks)] ==
          IF i < 1 THEN Outcome(Opened(a, e, n), <<>>, {}) ELSE FillOne(after[i - 1], e.blocks[i], n)
    IN  after[Len(e.blocks)]

\* pi's messages; its other lines are not shown.
FeedPi(a, e, n) ==
    CASE e.role = "user"      -> FeedUser(a, e, n)
      [] e.role = "assistant" -> FeedAssistant(a, e, n)
      [] e.role = "result"    -> FeedResult(a, e, n)
      [] OTHER                -> Outcome(a, <<>>, {})

\* kiro's records, which also mark the end of a turn.
FeedKiro(a, e, n) ==
    CASE e.role = "user"      -> FeedUser(a, e, n)
      [] e.role = "end"       -> FeedTurnEnd(a)
      [] e.role = "assistant" -> FeedAssistant(a, e, n)
      [] e.role = "result"    -> FeedResult(a, e, n)

\* The records of kiro's older releases, whose results come together.
FeedLegacy(a, e, n) ==
    CASE e.role = "user"      -> FeedUser(a, e, n)
      [] e.role = "assistant" -> FeedAssistant(a, e, n)
      [] e.role = "result"    -> FeedResult(a, e, n)
      [] OTHER                -> Outcome(a, <<>>, {})

FeedLineParts(a, e, n) ==
    CASE flavour = "pi"     -> FeedPi(a, e, n)
      [] flavour = "kiro"   -> FeedKiro(a, e, n)
      [] flavour = "legacy" -> FeedLegacy(a, e, n)

\* Flush drops a turn without parts; a user line does not.
Flushed(a) == IF a.parts # <<>> THEN Taken(a) ELSE <<>>

\* What a viewer of the stream has of the open turn.
View(old, out) == [i \in 1..Len(out.asm.parts) |->
                      IF i \in out.shown THEN out.asm.parts[i]
                      ELSE IF i \in DOMAIN old /\ out.done = <<>> THEN old[i] ELSE <<>>]

ReadLine(o, n) ==
    LET f == FeedLineParts(o.asm, entries[n], n)
    IN [asm |-> f.asm, done |-> o.done \o f.done, live |-> View(o.live, f)]

Read(branch) ==
    LET after[i \in 0..Len(branch)] ==
          IF i < 1 THEN [asm |-> NewAssembler, done |-> <<>>, live |-> <<>>] ELSE ReadLine(after[i - 1], branch[i])
    IN  after[Len(branch)]

ReadTurns(branch) == LET r == Read(branch) IN r.done \o Flushed(r.asm)

(* ---------------- pi's tree ---------------- *)
\* The lines from the root to a leaf.
Branch(leaf) ==
    LET B[n \in 0..Len(entries)] == IF n < 1 THEN <<>> ELSE Append(B[entries[n].parent], n)
    IN B[leaf]

\* A slip of activeEntries: every line of the file.
everyEntry == [n \in 1..Len(entries) |-> n]

activeEntries == Branch(Len(entries))

\* A slip of forkPoint: the next line of the user anywhere in the file.
forkPointAnywhere(after) == {n \in 1..Len(entries) : n > after /\ entries[n].role = "user"}

\* The lines of the user behind the fork point on the active branch.
forkPoint(after) == {n \in ToSet(activeEntries) : n > after /\ entries[n].role = "user"}

\* forkRPCCommand: fork before the next line of the user, or clone the branch; the
\* branch of the new session.  <<0>> is the refusal of a point off the branch.
forkRPCCommand(after) ==
    IF after \notin ToSet(activeEntries) THEN <<0>>
    ELSE IF forkPoint(after) = {} THEN activeEntries
    ELSE LET next == CHOOSE n \in forkPoint(after) : \A m \in forkPoint(after) : n <= m
         IN  Branch(entries[next].parent)

(* ---------------- the log grows ---------------- *)
Init == flavour \in {"pi", "kiro", "legacy"} /\ entries = <<>>

Write(role, blocks, parent) ==
    /\ Len(entries) < MaxEntries
    /\ Fresh(blocks)
    /\ entries' = Append(entries, [role |-> role, blocks |-> blocks, parent |-> parent])
    /\ UNCHANGED flavour

Next == \E role \in {"user", "assistant", "result", "end"} :
            \E blocks \in Blocks(role), parent \in Parents : Write(role, blocks, parent)

Spec == Init /\ [][Next]_roleVars

(* ---------------- properties ---------------- *)
PartsOf(turns) == FoldLeft(LAMBDA s, t : s \o t.parts, <<>>, turns)

\* The turns read are the active branch: its lines and no others, in order, each
\* text and each result in one part, a result on the card of its call when
\* both are of one turn; and a viewer who followed the stream sees what is stored.
BranchIsRead ==
    LET parts == PartsOf(ReadTurns(activeEntries)) IN
    /\ \A i, j \in 1..Len(parts) : i < j => parts[i].at <= parts[j].at
    /\ \A n \in 1..Len(entries) : \A i \in 1..Len(entries[n].blocks) :
         LET b == entries[n].blocks[i] IN
         b.type # "call" /\ entries[n].role # "user" =>
           Len(SelectSeq(parts, LAMBDA p : p.body = n /\ p.id = b.id /\ p.type = Part(b, n).type))
             = IF n \in ToSet(activeEntries) THEN 1 ELSE 0
    /\ \A t \in ToSet(ReadTurns(activeEntries)) : \A i, j \in 1..Len(t.parts) :
         t.parts[i].type = "tool" /\ t.parts[i].id = t.parts[j].id => i = j
    /\ Read(activeEntries).live = Read(activeEntries).asm.parts

\* A fork after a turn of the assistant (forkRPCCommand) reads as the transcript
\* up to and with that turn.
ForkIsThePrefix ==
    LET turns == ReadTurns(activeEntries) IN
    flavour = "pi" =>
      \A k \in 1..Len(turns) :
        turns[k].role = "assistant" /\ turns[k].uuid # 0 /\ turns[k].parts # <<>> =>
          ReadTurns(forkRPCCommand(turns[k].uuid)) = SubSeq(turns, 1, k)
=============================================================================
