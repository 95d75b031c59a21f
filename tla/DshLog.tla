------------------------------- MODULE DshLog -------------------------------
(***************************************************************************)
(* A dsh session log and the transcript usher reads from it (internal/     *)
(* dsh): events in the order of the file, each with the sequence number    *)
(* that says where it belongs.                                             *)
(***************************************************************************)
EXTENDS Integers, Sequences, SequencesExt, TLC

CONSTANTS CallIds, TurnNos,
          MaxEvents    \* bound: events of the log

VARIABLE dlog

(* ---------------- events ---------------- *)
Event(type, turn, blocks, append) == [type |-> type, turn |-> turn, blocks |-> blocks, append |-> append]
\* A block is a text or reasoning, or the call of a tool by its id.
Text == 0
Said == {<<Text>>} \cup {<<c>> : c \in CallIds} \cup {<<Text, c>> : c \in CallIds}

Events ==
    {Event(type, 0, <<Text>>, TRUE) : type \in {"user", "inject", "compact", "summary"}}
      \cup {Event("assistant", t, b, TRUE) : t \in TurnNos, b \in Said}
      \cup {Event("result", t, <<c>>, TRUE) : t \in TurnNos, c \in CallIds}
      \cup {Event("call", 0, <<c>>, TRUE) : c \in CallIds}
      \cup {Event(type, 1, <<Text>>, FALSE) : type \in {"user", "assistant"}}

\* Bound: an event stands at most one place from where its number puts it.
Numbers(n) == {q \in {n - 1, n, n + 1} : q > 0 /\ \A m \in 1..Len(dlog) : dlog[m].seq # q}

(* ---------------- the builder ---------------- *)
NewBuilder == [turns |-> <<>>, asst |-> [t \in TurnNos |-> 0],
               cards |-> [c \in CallIds |-> <<0, 0>>], meta |-> {}, summary |-> 0]

Turn(role, seq, no, body) == [role |-> role, seq |-> seq, no |-> no, body |-> body, parts |-> <<>>]
AddTurn(b, t) == [b EXCEPT !.turns = Append(@, t)]

\* The assistant's turn of a number, which its first event adds.
TurnOf(b, e) ==
    IF b.asst[e.turn] # 0 THEN b
    ELSE [AddTurn(b, Turn("assistant", e.seq, e.turn, 0)) EXCEPT !.asst[e.turn] = Len(b.turns) + 1]

AddPart(b, t, p) == [b EXCEPT !.turns[t].parts = Append(@, p)]
Part(b, t, type, id, body, seq, name) ==
    [type |-> type, id |-> id, body |-> body, seq |-> seq, name |-> name, nr |-> Len(b.turns[t].parts)]

\* The blocks of an assistant message; a call leaves a card for its result.
AddBlock(b, e, n, x) ==
    LET t == b.asst[e.turn] IN
    IF x = Text THEN AddPart(b, t, Part(b, t, "text", 0, n, e.seq, FALSE))
    ELSE [AddPart(b, t, Part(b, t, "tool", x, 0, e.seq, TRUE)) EXCEPT
            !.cards[x] = <<t, Len(b.turns[t].parts) + 1>>, !.meta = @ \cup {x}]

assistant(b, e, n) == FoldLeft(LAMBDA c, x : AddBlock(c, e, n, x), TurnOf(b, e), e.blocks)

\* A slip of toolResult: the card stays open for the next result of its call.
toolResultKeeps(b, e, n) ==
    LET c == e.blocks[1] IN
    IF b.cards[c] # <<0, 0>> THEN [b EXCEPT !.turns[b.cards[c][1]].parts[b.cards[c][2]].body = n] ELSE b

\* A result fills the card of its call, once; without one it is a part of its own.
toolResult(b, e, n) ==
    LET c == e.blocks[1] IN
    IF b.cards[c] # <<0, 0>>
    THEN [b EXCEPT !.turns[b.cards[c][1]].parts[b.cards[c][2]].body = n, !.cards[c] = <<0, 0>>]
    ELSE LET d == TurnOf(b, e)
             t == d.asst[e.turn]
         IN AddPart(d, t, Part(d, t, "tool", c, n, e.seq, c \in b.meta))

marker(b, e) == [AddTurn(b, Turn("system", e.seq, 0, b.summary)) EXCEPT !.summary = 0]

\* The text the next marker excerpts.
summary(b, n) == [b EXCEPT !.summary = n]

\* The log-only half of a call names a result without a card.
toolCall(b, e) == [b EXCEPT !.meta = @ \cup {e.blocks[1]}]

\* A prompt is a turn of the user, injected context one of the system.
user(b, e, n) == AddTurn(b, Turn(IF e.type = "user" THEN "user" ELSE "system", e.seq, 0, n))

\* isAppendOp: a copy that replaces is for the model only.
event(b, e, n) ==
    CASE e.type = "compact" -> marker(b, e)
      [] e.type = "summary" -> summary(b, n)
      [] e.type = "call"    -> toolCall(b, e)
      [] ~e.append          -> b
      [] e.type \in {"user", "inject"} -> user(b, e, n)
      [] e.type = "assistant" -> assistant(b, e, n)
      [] e.type = "result"    -> toolResult(b, e, n)

\* A slip of orderParts: the order of the file.
orderPartsNot(parts) == parts

\* Parts in the order of their events, those of one message in its order.
orderParts(parts) ==
    SortSeq(parts, LAMBDA p, q : p.seq < q.seq \/ (p.seq = q.seq /\ p.nr < q.nr))

finish(b) ==
    SortSeq([i \in 1..Len(b.turns) |-> [b.turns[i] EXCEPT !.parts = orderParts(@)]],
            LAMBDA t, u : t.seq < u.seq)

Lines == [n \in 1..Len(dlog) |-> n]
ReadTurns == finish(FoldLeft(LAMBDA b, n : event(b, dlog[n], n), NewBuilder, Lines))

(* ---------------- the log grows ---------------- *)
Init == dlog = <<>>

Log(e, q) == Len(dlog) < MaxEvents /\ dlog' = Append(dlog, e @@ [seq |-> q])

Next == \E e \in Events, q \in Numbers(Len(dlog) + 1) : Log(e, q)

Spec == Init /\ [][Next]_dlog

(* ---------------- properties ---------------- *)
Is(n, type) == dlog[n].type = type /\ dlog[n].append

\* The call of a result, when a message of the assistant stands before it with
\* no other call or answer of that id in between.
Asks(m, n) ==
    LET c == dlog[n].blocks[1] IN
    /\ Is(m, "assistant") /\ Contains(dlog[m].blocks, c)
    /\ \A k \in (m + 1)..(n - 1) :
         ~((Is(k, "assistant") \/ Is(k, "result")) /\ Contains(dlog[k].blocks, c))

\* The transcript is the events: each text and each result of the append stream in
\* one part of its turn, a result on the card of the call it answers, the parts
\* by their numbers; a compaction with the summary written for it; and a log
\* written in order is read in order.
TurnsAreTheEvents ==
    LET turns == ReadTurns
        places == UNION {{<<t, p>> : p \in 1..Len(turns[t].parts)} : t \in 1..Len(turns)}
        With(n) == {s \in places : turns[s[1]].parts[s[2]].body = n}
    IN /\ \A n \in 1..Len(dlog) :
            /\ Is(n, "assistant") /\ Contains(dlog[n].blocks, Text) =>
                 \E s \in places : With(n) = {s} /\ turns[s[1]].no = dlog[n].turn
            /\ Is(n, "result") =>
                 \E s \in places :
                    /\ With(n) = {s}
                    /\ \A m \in 1..(n - 1) : Asks(m, n) =>
                         /\ turns[s[1]].no = dlog[m].turn
                         /\ turns[s[1]].parts[s[2]].seq = dlog[m].seq
            /\ dlog[n].type = "compact" =>
                 \E t \in ToSet(turns) :
                    /\ t.role = "system" /\ t.seq = dlog[n].seq
                    /\ \A m \in 1..(n - 1) :
                         t.body = m <=>
                           /\ dlog[m].type = "summary"
                           /\ \A k \in (m + 1)..(n - 1) : dlog[k].type \notin {"summary", "compact"}
            /\ ~dlog[n].append => With(n) = {} /\ \A t \in ToSet(turns) : t.body # n
       /\ \A s, r \in places :
            s[1] = r[1] /\ s[2] < r[2] =>
              turns[s[1]].parts[s[2]].seq <= turns[r[1]].parts[r[2]].seq
       /\ (\A n \in 1..Len(dlog) : dlog[n].seq = n) =>
            \A t, u \in 1..Len(turns) : t < u => turns[t].seq < turns[u].seq
=============================================================================
