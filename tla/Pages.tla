------------------------------- MODULE Pages -------------------------------
(***************************************************************************)
(* Reading and searching transcripts (router: ReadSessionTranscriptPage,   *)
(* SearchSessionTranscript, SearchAllSessions): the bounds of a page, the  *)
(* occurrences of a query in the turns of a session, the snippet round the *)
(* first and the ranking of the sessions.  A turn is a sequence of parts,  *)
(* each a text of letters compared without case, or a tool's; Cut stands   *)
(* for an ellipsis.                                                        *)
(***************************************************************************)
EXTENDS Integers, Sequences, FiniteSets, SequencesExt

CONSTANTS Letters,     \* letters of turns and queries
          MaxText,     \* bound: letters of a turn
          MaxTotal     \* bound: turns of a transcript, and pages' bounds around it

VARIABLES turns, query    \* the transcript, and what it is searched for

pageVars == <<turns, query>>

Cut == "..."
Newline == "newline"
Tool == <<"tool">>

\* A slip of AddPart: texts that stand on the two sides of a tool run together.
AddPartJoined(s, p, includeTools) == IF p = Tool /\ ~includeTools THEN s ELSE s \o p

AddPart(s, p, includeTools) ==
    IF p = <<>> \/ (p = Tool /\ ~includeTools) THEN s
    ELSE IF s = <<>> THEN p ELSE s \o <<Newline>> \o p

\* The texts of a turn line by line, with the tools between them or without.
flattenTurnText(t, includeTools) ==
    LET text[i \in 0..Len(t)] == IF i < 1 THEN <<>> ELSE AddPart(text[i - 1], t[i], includeTools)
    IN  text[Len(t)]

(* ---------------- pages ---------------- *)
AtLeast(lo, n) == IF n < lo THEN lo ELSE n
AtMost(hi, n) == IF n > hi THEN hi ELSE n

\* A slip of pageBounds: an offset behind the end is taken as it is.
pageBoundsLoose(offset, limit, total) ==
    LET size == IF limit <= 0 THEN 1 ELSE limit
        start == AtLeast(0, IF offset < 0 THEN total - size ELSE offset)
    IN <<start, AtMost(total, start + size)>>

\* A page of up to limit turns from offset; a negative offset is the last page.
pageBounds(offset, limit, total) ==
    LET size == IF limit <= 0 THEN 1 ELSE limit
        start == AtMost(total, AtLeast(0, IF offset < 0 THEN total - size ELSE offset))
    IN <<start, AtMost(total, start + size)>>

Rendered(ts) == [i \in 1..Len(ts) |-> flattenTurnText(ts[i], TRUE)]

\* ReadSessionTranscriptPage: the turns of a page, rendered.
Page(offset, limit) ==
    LET b == pageBounds(offset, limit, Len(turns)) IN Rendered(SubSeq(turns, b[1] + 1, b[2]))

\* ReadSessionTranscript: the last turns, all of them when limit is not positive.
ReadSessionTranscript(limit) ==
    Rendered(IF limit <= 0 \/ limit >= Len(turns) THEN turns
             ELSE SubSeq(turns, Len(turns) - limit + 1, Len(turns)))

(* ---------------- search ---------------- *)
EqualAt(hay, needle, at) == SubSeq(hay, at + 1, at + Len(needle)) = needle

\* A slip of foldFindAll: it goes on one letter behind a hit.
foldFindOverlapping(hay, needle) ==
    LET hits == {i \in 0..(Len(hay) - Len(needle)) : needle # <<>> /\ EqualAt(hay, needle, i)}
    IN IF hits = {} THEN <<-1, 0>> ELSE <<CHOOSE i \in hits : \A j \in hits : i <= j, Cardinality(hits)>>

\* What has been found before a place, and the first that is not within a hit.
NoHit == [first |-> -1, count |-> 0, next |-> 0]

Look(hay, needle, s, i) ==
    IF i >= s.next /\ i + Len(needle) <= Len(hay) /\ EqualAt(hay, needle, i)
    THEN [first |-> IF s.first < 0 THEN i ELSE s.first, count |-> s.count + 1, next |-> i + Len(needle)]
    ELSE s

\* The first hit and the number of hits that do not overlap, left to right.
foldFindAll(hay, needle) ==
    IF needle = <<>> THEN <<-1, 0>>
    ELSE LET at[i \in 0..Len(hay)] == IF i < 1 THEN NoHit ELSE Look(hay, needle, at[i - 1], i - 1)
         IN  <<at[Len(hay)].first, at[Len(hay)].count>>

snippetAround(text, start, size, ctx) ==
    LET lo == AtLeast(0, start - AtLeast(0, ctx))
        hi == AtMost(Len(text), start + size + AtLeast(0, ctx))
    IN (IF lo > 0 THEN <<Cut>> ELSE <<>>) \o SubSeq(text, lo + 1, hi)
         \o (IF hi < Len(text) THEN <<Cut>> ELSE <<>>)

\* The members of S among 1..n, in order.
Ascending(S, n) ==
    LET found[i \in 0..n] == IF i < 1 THEN <<>> ELSE IF i \in S THEN Append(found[i - 1], i) ELSE found[i - 1]
    IN  found[n]

\* The first maxHits matching turns with their snippet, and how many match.
scanTurnsForQuery(ts, q, maxHits, ctx) ==
    LET text == [i \in 1..Len(ts) |-> flattenTurnText(ts[i], FALSE)]
        matching == Ascending({i \in 1..Len(ts) : foldFindAll(text[i], q)[1] >= 0}, Len(ts))
        shown == SubSeq(matching, 1, AtMost(Len(matching), AtLeast(0, maxHits)))
    IN <<[k \in 1..Len(shown) |->
            [turn |-> shown[k], count |-> foldFindAll(text[shown[k]], q)[2],
             snippet |-> snippetAround(text[shown[k]], foldFindAll(text[shown[k]], q)[1], Len(q), ctx)]],
         Len(matching)>>

SearchSessionTranscript(q, maxHits, ctx) ==
    LET r == scanTurnsForQuery(turns, q, maxHits, ctx) IN <<r[1], r[2] > Len(r[1])>>

\* Sessions with a match, those with the most first, cut at maxSessions; here the
\* sessions are the ends of the transcript.
Matching(q, i) == scanTurnsForQuery(SubSeq(turns, i, Len(turns)), q, 1, 0)[2]
SearchAllSessions(q, maxSessions) ==
    LET n == Len(turns)
        best[i \in 0..n] == IF i < 1 THEN <<>>
                            ELSE best[i - 1] \o Ascending({k \in 1..n : Matching(q, k) = n + 1 - i}, n)
        ranked == best[n]
    IN IF maxSessions > 0 /\ Len(ranked) > maxSessions
       THEN <<SubSeq(ranked, 1, maxSessions), TRUE>> ELSE <<ranked, FALSE>>

(* ---------------- inputs ---------------- *)
Words(n) == UNION {[1..k -> Letters] : k \in 0..n}
Turns == {<<w>> : w \in Words(MaxText)} \cup {<<v, Tool, w>> : v, w \in Words(1)}

Init == turns = <<>> /\ query = <<>>

AddTurn == /\ Len(turns) < MaxTotal /\ query = <<>>
           /\ \E t \in Turns : turns' = Append(turns, t)
           /\ UNCHANGED query

Ask == /\ query = <<>> /\ \E q \in Words(2) \ {<<>>} : query' = q
       /\ UNCHANGED turns

Next == AddTurn \/ Ask

Spec == Init /\ [][Next]_pageVars

(* ---------------- properties ---------------- *)
\* "Offset + total keep any depth reachable": pages taken one behind the other are
\* the transcript, whatever their size; the last page is its end, and an offset
\* anywhere is a page of it, never a panic.
PagesTile ==
    LET total == Len(turns) IN
    /\ \A limit \in -1..(total + 1) :
         LET size == AtLeast(1, limit)
             read[k \in 0..(total + 1)] == IF k < 1 THEN <<>> ELSE read[k - 1] \o Page((k - 1) * size, limit)
         IN /\ read[total + 1] = Rendered(turns)
            /\ Page(-1, limit) = ReadSessionTranscript(size)
    /\ \A offset, limit \in -1..(total + 2) :
         LET b == pageBounds(offset, limit, total) IN 0 <= b[1] /\ b[1] <= b[2] /\ b[2] <= total

\* Hits that may be counted together.
Disjoint(hay, q, S) ==
    /\ \A i \in S : EqualAt(hay, q, i)
    /\ \A i, j \in S : i < j => i + Len(q) <= j

\* The query stands in a part, as a letter or two.
SearchedIn(part) == \E k \in 0..(Len(part) - Len(query)) : EqualAt(part, query, k)

\* A search finds the first occurrence and as many as fit side by side, shows them in
\* their surroundings and says when there are more; the sessions with the most
\* matches come first.  No tool's name and no two texts that are apart make a match.
SearchFinds ==
    query # <<>> =>
    /\ \A i \in 1..Len(turns) :
         LET hay == flattenTurnText(turns[i], FALSE)
             r == foldFindAll(hay, query)
             sites == SUBSET {k \in 0..(Len(hay) - Len(query)) : EqualAt(hay, query, k)}
         IN /\ \A S \in sites : Disjoint(hay, query, S) => Cardinality(S) <= r[2]
            /\ \E S \in sites : Disjoint(hay, query, S) /\ Cardinality(S) = r[2]
            /\ r[1] >= 0 => EqualAt(hay, query, r[1]) /\ \A k \in 0..(r[1] - 1) : ~EqualAt(hay, query, k)
            /\ r[1] >= 0 =>
                 LET s == snippetAround(hay, r[1], Len(query), 1) IN
                 /\ \E k \in 0..Len(s) : EqualAt(s, query, k)
                 /\ Len(s) <= Len(query) + 4
    /\ \A n \in 0..2 :
         LET r == SearchSessionTranscript(query, n, 1) IN
         /\ Len(r[1]) <= n
         /\ r[2] <=> Len(r[1]) < Cardinality({i \in 1..Len(turns) : \E k \in 1..Len(turns[i]) : SearchedIn(turns[i][k])})
    /\ \A n \in 0..Len(turns) :
         LET r == SearchAllSessions(query, n)[1] IN
         /\ \A k, m \in 1..Len(r) : k < m => Matching(query, r[k]) >= Matching(query, r[m])
         /\ SearchAllSessions(query, n)[2] =>
              \E i \in 1..Len(turns) : i \notin ToSet(r) /\ Matching(query, i) > 0
=============================================================================
