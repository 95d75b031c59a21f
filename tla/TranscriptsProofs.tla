-------------------------- MODULE TranscriptsProofs --------------------------
(***************************************************************************)
(* Proofs about what reads a session's log: the stream of a turn           *)
(* (TurnStream), for any capacity of the tail's channel and any number of  *)
(* content lines; the readers of Claude's log (ClaudeLog), for any finite  *)
(* set of calls; and the forks of Claude's, codex's and pi's logs          *)
(* (ClaudeLog, CodexLog, RoleLog); all three for logs of any length.       *)
(***************************************************************************)
EXTENDS PagesProofs

USE StreamAssumption DEF Own, Other

-----------------------------------------------------------------------------
(* Events in sequences.                                                    *)

\* An event that is appended comes last.
LEMMA EventAppended ==
    ASSUME NEW s \in Seq(EventType), NEW e \in EventType
    PROVE  /\ Append(s, e) \in Seq(EventType)
           /\ Len(Append(s, e)) = Len(s) + 1
           /\ \A i \in 1..Len(s) : Append(s, e)[i] = s[i]
           /\ Append(s, e)[Len(s) + 1] = e
OBVIOUS

\* The head taken off, the others move up.
LEMMA EventTaken ==
    ASSUME NEW s \in Seq(EventType), s # <<>>
    PROVE  /\ Head(s) = s[1] /\ Head(s) \in EventType
           /\ Tail(s) \in Seq(EventType)
           /\ Len(Tail(s)) = Len(s) - 1
           /\ Len(s) \in Nat \ {0}
           /\ \A i \in 1..(Len(s) - 1) : Tail(s)[i] = s[i + 1]
OBVIOUS

\* An appended event adds its type and, when it is a line, its number.
LEMMA AppendedSaid ==
    ASSUME NEW s \in Seq(EventType), NEW e \in EventType
    PROVE  /\ Types(Append(s, e)) = Types(s) \cup {e.type}
           /\ LinesOf(Append(s, e)) = LinesOf(s) \cup (IF e.type = "line" THEN {e.line} ELSE {})
<1> DEFINE r == Append(s, e)
<1>1. /\ DOMAIN s = 1..Len(s) /\ DOMAIN r = 1..(Len(s) + 1) /\ Len(s) \in Nat
      /\ \A i \in 1..Len(s) : r[i] = s[i]
      /\ r[Len(s) + 1] = e
  BY EventAppended
<1>2. \A i \in 1..(Len(s) + 1) : i \in 1..Len(s) \/ i = Len(s) + 1
  BY <1>1
<1>3. \A i \in 1..Len(s) : i \in 1..(Len(s) + 1)
  BY <1>1
<1>4. Len(s) + 1 \in 1..(Len(s) + 1)
  BY <1>1
<1> HIDE DEF r
<1>5. Types(r) = Types(s) \cup {e.type}
  BY <1>1, <1>2, <1>3, <1>4 DEF Types
<1>6. LinesOf(r) = LinesOf(s) \cup (IF e.type = "line" THEN {e.line} ELSE {})
  BY <1>1, <1>2, <1>3, <1>4 DEF LinesOf
<1> QED
  BY <1>5, <1>6 DEF r

\* What a sequence says is what its head says and what the others do.
LEMMA TakenSaid ==
    ASSUME NEW s \in Seq(EventType), s # <<>>
    PROVE  /\ Types(s) = Types(Tail(s)) \cup {Head(s).type}
           /\ LinesOf(s) = LinesOf(Tail(s)) \cup (IF Head(s).type = "line" THEN {Head(s).line} ELSE {})
<1> DEFINE r == Tail(s)
           h == Head(s)
<1>1. /\ DOMAIN s = 1..Len(s) /\ DOMAIN r = 1..(Len(s) - 1) /\ Len(s) \in Nat \ {0}
      /\ \A i \in 1..(Len(s) - 1) : r[i] = s[i + 1]
      /\ s[1] = h
  BY EventTaken
<1>2. \A i \in 1..Len(s) : i = 1 \/ (i - 1 \in 1..(Len(s) - 1) /\ i = (i - 1) + 1)
  BY <1>1
<1>3. \A i \in 1..(Len(s) - 1) : i + 1 \in 1..Len(s)
  BY <1>1
<1>4. 1 \in 1..Len(s)
  BY <1>1
<1> HIDE DEF r, h
<1>5. Types(s) = Types(r) \cup {h.type}
  <2>1. ASSUME NEW x \in Types(s)
        PROVE  x \in Types(r) \cup {h.type}
    <3>1. PICK i \in 1..Len(s) : x = s[i].type
      BY <1>1 DEF Types
    <3>2. CASE i = 1
      BY <3>1, <3>2, <1>1
    <3>3. CASE i # 1
      <4>1. i - 1 \in 1..(Len(s) - 1) /\ r[i - 1] = s[i]
        BY <3>3, <1>1, <1>2
      <4> QED
        BY <4>1, <3>1, <1>1 DEF Types
    <3> QED
      BY <3>2, <3>3
  <2>2. Types(r) \subseteq Types(s)
    BY <1>1, <1>3 DEF Types
  <2>3. h.type \in Types(s)
    BY <1>1, <1>4 DEF Types
  <2> QED
    BY <2>1, <2>2, <2>3
<1>6. LinesOf(s) = LinesOf(r) \cup (IF h.type = "line" THEN {h.line} ELSE {})
  <2>1. ASSUME NEW x \in LinesOf(s)
        PROVE  x \in LinesOf(r) \cup (IF h.type = "line" THEN {h.line} ELSE {})
    <3>1. PICK i \in 1..Len(s) : s[i].type = "line" /\ x = s[i].line
      BY <1>1 DEF LinesOf
    <3>2. CASE i = 1
      BY <3>1, <3>2, <1>1
    <3>3. CASE i # 1
      <4>1. i - 1 \in 1..(Len(s) - 1) /\ r[i - 1] = s[i]
        BY <3>3, <1>1, <1>2
      <4> QED
        BY <4>1, <3>1, <1>1 DEF LinesOf
    <3> QED
      BY <3>2, <3>3
  <2>2. LinesOf(r) \subseteq LinesOf(s)
    BY <1>1, <1>3 DEF LinesOf
  <2>3. (IF h.type = "line" THEN {h.line} ELSE {}) \subseteq LinesOf(s)
    BY <1>1, <1>4 DEF LinesOf
  <2> QED
    BY <2>1, <2>2, <2>3
<1> QED
  BY <1>5, <1>6 DEF r, h

\* Nothing is said by an empty sequence.
LEMMA EmptySaid == Types(<<>>) = {} /\ LinesOf(<<>>) = {} /\ <<>> \in Seq(EventType)
BY DEF Types, LinesOf

-----------------------------------------------------------------------------
(* Chains of lines.                                                        *)

\* An empty chain goes nowhere.
LEMMA ChainEmpty ==
    ASSUME NEW a \in Nat, NEW b \in Nat
    PROVE  Chain(<<>>, a, b) <=> a = b
<1>1. a <= b /\ (a + 1)..b = {} => a = b
  <2> SUFFICES ASSUME a < b PROVE (a + 1)..b # {}
    OBVIOUS
  <2>1. b \in (a + 1)..b
    OBVIOUS
  <2> QED
    BY <2>1
<1>2. a = b => (a + 1)..b = {}
  OBVIOUS
<1> DEFINE s == <<>>
<1>3. LinesOf(s) = {} /\ DOMAIN s = {}
  BY EmptySaid
<1> HIDE DEF s
<1>4. Chain(s, a, b) <=> a = b
  BY <1>1, <1>2, <1>3 DEF Chain
<1> QED
  BY <1>4 DEF s

\* An event that is no line leaves a chain as it was.
LEMMA ChainOther ==
    ASSUME NEW s \in Seq(EventType), NEW e \in EventType, e.type # "line",
           NEW a, NEW b, Chain(s, a, b)
    PROVE  Chain(Append(s, e), a, b)
<1> DEFINE r == Append(s, e)
<1>1. LinesOf(r) = LinesOf(s)
  BY AppendedSaid
<1>2. /\ DOMAIN s = 1..Len(s) /\ DOMAIN r = 1..(Len(s) + 1) /\ Len(s) \in Nat
      /\ \A i \in 1..Len(s) : r[i] = s[i]
      /\ r[Len(s) + 1] = e
  BY EventAppended
<1>3. \A i \in 1..(Len(s) + 1) : i \in 1..Len(s) \/ i = Len(s) + 1
  BY <1>2
<1> HIDE DEF r
<1>4. ASSUME NEW i \in DOMAIN r, NEW j \in DOMAIN r, i < j, r[i].type = "line", r[j].type = "line"
      PROVE  r[i].line < r[j].line
  BY <1>2, <1>3, <1>4 DEF Chain
<1> QED
  BY <1>1, <1>4 DEF Chain, r

\* The next line makes a chain longer by one.
LEMMA ChainLine ==
    ASSUME NEW s \in Seq(EventType), NEW a \in Nat, NEW b \in Nat, Chain(s, a, b)
    PROVE  Chain(Append(s, Line(b + 1)), a, b + 1)
<1> DEFINE e == Line(b + 1)
           r == Append(s, e)
<1>0. e \in EventType /\ e.type = "line" /\ e.line = b + 1
  BY DEF EventType, Line
<1>1. LinesOf(r) = LinesOf(s) \cup {b + 1}
  BY <1>0, AppendedSaid
<1>2. /\ DOMAIN s = 1..Len(s) /\ DOMAIN r = 1..(Len(s) + 1) /\ Len(s) \in Nat
      /\ \A i \in 1..Len(s) : r[i] = s[i]
      /\ r[Len(s) + 1] = e
  BY <1>0, EventAppended
<1>3. \A i \in 1..(Len(s) + 1) : i \in 1..Len(s) \/ i = Len(s) + 1
  BY <1>2
<1> HIDE DEF r, e
<1>4. ASSUME NEW i \in DOMAIN r, NEW j \in DOMAIN r, i < j, r[i].type = "line", r[j].type = "line"
      PROVE  r[i].line < r[j].line
  <2>1. i \in 1..Len(s) /\ r[i] = s[i]
    BY <1>2, <1>3, <1>4
  <2>2. CASE j \in 1..Len(s)
    BY <2>1, <2>2, <1>2, <1>4 DEF Chain
  <2>3. CASE j = Len(s) + 1
    <3>1. s[i].line \in (a + 1)..b
      BY <2>1, <1>2, <1>4 DEF Chain, LinesOf
    <3> QED
      BY <3>1, <2>1, <2>3, <1>2, <1>0
  <2> QED
    BY <2>2, <2>3, <1>2, <1>3
<1>5. a <= b + 1 /\ ((a + 1)..b) \cup {b + 1} = (a + 1)..(b + 1)
  BY DEF Chain
<1>6. LinesOf(r) = (a + 1)..(b + 1)
  BY <1>1, <1>5 DEF Chain
<1>7. Chain(r, a, b + 1)
  BY <1>4, <1>5, <1>6 DEF Chain
<1> QED
  BY <1>7 DEF r, e

\* The head of a chain is its first line, or no line at all.
LEMMA ChainTaken ==
    ASSUME NEW s \in Seq(EventType), s # <<>>, NEW a \in Nat, NEW b \in Nat, Chain(s, a, b)
    PROVE  IF Head(s).type = "line"
           THEN Head(s).line = a + 1 /\ a + 1 <= b /\ Chain(Tail(s), a + 1, b)
           ELSE Chain(Tail(s), a, b)
<1> DEFINE r == Tail(s)
           h == Head(s)
<1>1. /\ DOMAIN s = 1..Len(s) /\ DOMAIN r = 1..(Len(s) - 1) /\ Len(s) \in Nat \ {0}
      /\ \A i \in 1..(Len(s) - 1) : r[i] = s[i + 1]
      /\ s[1] = h
  BY EventTaken
<1>2. \A i \in 1..Len(s) : i = 1 \/ i - 1 \in 1..(Len(s) - 1)
  BY <1>1
<1>3. LinesOf(s) = LinesOf(r) \cup (IF h.type = "line" THEN {h.line} ELSE {})
  BY TakenSaid
<1> HIDE DEF r, h
<1>4. ASSUME NEW i \in DOMAIN r, NEW j \in DOMAIN r, i < j, r[i].type = "line", r[j].type = "line"
      PROVE  r[i].line < r[j].line
  <2>1. /\ i + 1 \in 1..Len(s) /\ j + 1 \in 1..Len(s) /\ i + 1 < j + 1
        /\ r[i] = s[i + 1] /\ r[j] = s[j + 1]
    BY <1>1, <1>4
  <2> QED
    BY <2>1, <1>1, <1>4 DEF Chain
<1>5. CASE h.type # "line"
  BY <1>3, <1>4, <1>5 DEF Chain, r, h
<1>6. CASE h.type = "line"
  <2>1. h.line \in (a + 1)..b
    BY <1>3, <1>6 DEF Chain
  <2>2. \A x \in LinesOf(r) : h.line < x
    <3> SUFFICES ASSUME NEW i \in 1..(Len(s) - 1), r[i].type = "line"
                 PROVE  h.line < r[i].line
      BY <1>1 DEF LinesOf
    <3>1. i + 1 \in 1..Len(s) /\ 1 \in 1..Len(s) /\ 1 < i + 1 /\ r[i] = s[i + 1]
      BY <1>1
    <3> QED
      BY <3>1, <1>1, <1>6 DEF Chain
  <2>3. h.line = a + 1
    <3>1. a + 1 \in LinesOf(s)
      BY <2>1 DEF Chain
    <3>2. a + 1 = h.line \/ a + 1 \in LinesOf(r)
      BY <3>1, <1>3, <1>6
    <3> QED
      BY <3>2, <2>1, <2>2
  <2>4. LinesOf(r) = (a + 2)..b
    <3>1. LinesOf(r) \cup {a + 1} = (a + 1)..b
      BY <1>3, <1>6, <2>3 DEF Chain
    <3>2. a + 1 \notin LinesOf(r)
      BY <2>2, <2>3
    <3>3. LinesOf(r) = ((a + 1)..b) \ {a + 1}
      BY <3>1, <3>2
    <3> QED
      BY <3>3
  <2>5. a + 1 <= b /\ (a + 1) + 1 = a + 2
    BY <2>1
  <2>6. Chain(r, a + 1, b)
    BY <2>4, <2>5, <1>4 DEF Chain
  <2> QED
    BY <2>3, <2>5, <2>6, <1>6 DEF r, h
<1> QED
  BY <1>5, <1>6


-----------------------------------------------------------------------------
(* Types.                                                                  *)

\* The events the goroutines make are events.
LEMMA EventTypes ==
    /\ \A t \in {"started", "delta", "error", "exit"} : Event(t) \in EventType /\ Event(t).type = t
    /\ \A i \in Nat : Line(i) \in EventType /\ Line(i).type = "line" /\ Line(i).line = i
BY DEF EventType, Event, Line

\* A few events are a sequence of events.
LEMMA EventSeqs ==
    ASSUME NEW e \in EventType, NEW f \in EventType, NEW g \in EventType
    PROVE  /\ <<e>> \in Seq(EventType) /\ <<e, f>> \in Seq(EventType)
           /\ <<e, f, g>> \in Seq(EventType)
OBVIOUS

\* So is all that the tail has to send at once.
LEMMA TailSays ==
    /\ <<Event("exit")>> \in Seq(EventType) /\ <<Event("error")>> \in Seq(EventType)
    /\ <<Event("error"), Event("exit")>> \in Seq(EventType)
    /\ \A i \in Nat : /\ <<Line(i)>> \in Seq(EventType)
                      /\ <<Line(i), Event("error"), Event("exit")>> \in Seq(EventType)
<1>1. Event("exit") \in EventType /\ Event("error") \in EventType /\ \A i \in Nat : Line(i) \in EventType
  BY EventTypes
<1> QED
  BY <1>1, EventSeqs

\* What a line of the agent does to it.
LEMMA WroteLine ==
    ASSUME NEW kind \in {"part", "end", "abort"}, WriteLine(kind)
    PROVE  /\ log' = Append(log, [turn |-> agent.turn, kind |-> kind])
           /\ kind = "part" => /\ agent.said = {} /\ agent.parts < MaxParts
                               /\ agent' = [agent EXCEPT !.parts = @ + 1]
           /\ kind # "part" => /\ "end" \notin agent.said
                               /\ agent' = [agent EXCEPT !.said = @ \cup {"end"}]
           /\ kind = "abort" => agent.turn = Own
<1>1. CASE kind = "part"
  BY <1>1 DEF WriteLine
<1>2. CASE kind # "part"
  BY <1>2 DEF WriteLine
<1> QED
  BY <1>1, <1>2

\* What a turn ahead or an own one writes on its log and its pipe keeps the types.
LEMMA AgentTypes ==
    ASSUME TypeOK, TurnsInv, Agent \/ Reader \/ RemoveFile \/ Cancel
    PROVE  TypeOK'
<1> USE DEF TypeOK
<1>1. ASSUME NEW kind \in {"part", "end", "abort"}, WriteLine(kind)
      PROVE  TypeOK'
  <2>1. /\ log' = Append(log, [turn |-> agent.turn, kind |-> kind])
        /\ UNCHANGED <<given, pipe, turns, done, offset, cancelled, mergeVars, tailVars>>
        /\ file' \in BOOLEAN
    BY <1>1 DEF WriteLine
  <2>2. log' \in Seq([turn : {Other, Own}, kind : {"part", "end", "abort"}]) /\ Len(log') = Len(log) + 1
    BY <2>1
  <2>3. agent' \in [turn : {Other, Own}, parts : 0..MaxParts, said : SUBSET {"end", "result"}]
    <3>1. CASE kind = "part"
      <4>1. agent.parts \in 0..MaxParts /\ agent.parts < MaxParts
        BY <1>1, <3>1, WroteLine
      <4>2. agent.parts + 1 \in 0..MaxParts
        BY <4>1
      <4> QED
        BY <1>1, <3>1, <4>2, WroteLine
    <3>2. CASE kind # "part"
      BY <1>1, <3>2, WroteLine
    <3> QED
      BY <3>1, <3>2
  <2>4. {offset', tpos'} \subseteq 0..Len(log')
    BY <2>1, <2>2 DEF tailVars
  <2> QED
    BY <2>1, <2>2, <2>3, <2>4 DEF given, mergeVars, tailVars
<1>2. CASE WriteResult
  <2>1. pipe' \in Seq({Other, Own})
    BY <1>2 DEF WriteResult
  <2>2. agent' \in [turn : {Other, Own}, parts : 0..MaxParts, said : SUBSET {"end", "result"}]
    BY <1>2 DEF WriteResult
  <2> QED
    BY <1>2, <2>1, <2>2 DEF WriteResult, given, mergeVars, tailVars
<1>3. CASE NextTurn
  BY <1>3 DEF NextTurn, given, mergeVars, tailVars
<1>4. ASSUME NEW status \in {"ok", "failed"}, HandleResult(status)
      PROVE  TypeOK'
  <2>1. pipe' \in Seq({Other, Own})
    BY <1>4 DEF HandleResult
  <2>2. turns # <<>>
    BY <1>4 DEF HandleResult, TurnsInv, OwnAwaited, BothAwaited
  <2>3. turns' \in Seq({Other, Own})
    BY <1>4, <2>2 DEF HandleResult
  <2> QED
    BY <1>4, <2>1, <2>3 DEF HandleResult, given, mergeVars, tailVars
<1>5. CASE RemoveFile
  BY <1>5 DEF RemoveFile, given, mergeVars, tailVars
<1>6. CASE Cancel
  BY <1>6 DEF Cancel, given, agentVars, mergeVars, tailVars
<1> QED
  BY <1>1, <1>2, <1>3, <1>4, <1>5, <1>6 DEF Agent, Reader

\* A delivered event keeps the type of what was read.
LEMMA DeliverTypes ==
    ASSUME TypeOK, NEW e \in EventType, Deliver(e)
    PROVE  out' \in Seq(EventType)
BY EventAppended DEF Deliver, TypeOK

\* Delivered or dropped, an event keeps the types of the merge.
LEMMA SendEventTypes ==
    ASSUME TypeOK, NEW e \in EventType, NEW next, SendEvent(e, next)
    PROVE  /\ out' \in Seq(EventType) /\ tailGone' \in BOOLEAN
           /\ mpc' \in {next, "closed"}
<1>1. CASE Deliver(e) /\ mpc' = next /\ UNCHANGED tailGone
  BY <1>1, DeliverTypes DEF TypeOK
<1>2. CASE mpc' = "closed" /\ tailGone' = TRUE /\ UNCHANGED out
  BY <1>2 DEF TypeOK
<1> QED
  BY <1>1, <1>2 DEF SendEvent

\* So does every step of the merge.
LEMMA MergeTypes ==
    ASSUME TypeOK, TurnsInv, Merge
    PROVE  TypeOK'
<1> USE DEF TypeOK
<1>1. CASE Stat
  BY <1>1 DEF Stat, given, agentVars, tailVars
<1>2. CASE Send
  <2>1. Len(turns) \in 0..1
    <3>1. ~Sent
      BY <1>2 DEF Send, Sent
    <3>2. turns = <<>> \/ turns = <<Other>>
      BY <3>1 DEF TurnsInv, OwnAwaited, BothAwaited
    <3> QED
      BY <3>2
  <2>2. turns' \in Seq({Other, Own})
    BY <1>2 DEF Send
  <2> QED
    BY <1>2, <2>1, <2>2 DEF Send, given
<1>3. CASE Started
  BY <1>3, SendEventTypes, EventTypes DEF Started, given, agentVars, tailVars
<1>4. CASE Locate
  BY <1>4 DEF Locate, given, agentVars
<1>5. CASE NotLocated
  BY <1>5, SendEventTypes, EventTypes DEF NotLocated, given, agentVars, tailVars
<1>6. CASE Delta
  BY <1>6, SendEventTypes, EventTypes DEF Delta, given, agentVars, tailVars
<1>7. CASE TailEvent
  <2>1. Head(tailCh) \in EventType /\ tailCh' \in Seq(EventType) /\ Len(tailCh') <= TailCap
    BY <1>7, EventTaken DEF TailEvent
  <2> QED
    BY <1>7, <2>1, SendEventTypes DEF TailEvent, given, agentVars
<1>8. CASE LogBackstop \/ Drained \/ MergeCancelled
  BY <1>8 DEF LogBackstop, Drained, MergeCancelled, Close, given, agentVars, tailVars
<1>9. CASE Result
  BY <1>9, DeliverTypes, EventTypes DEF Result, Report, given, agentVars, tailVars
<1>10. CASE DrainTimeout
  BY <1>10 DEF DrainTimeout, given, agentVars, tailVars
<1> QED
  BY <1>1, <1>2, <1>3, <1>4, <1>5, <1>6, <1>7, <1>8, <1>9, <1>10 DEF Merge

\* A sequence's elements.
LEMMA SeqElements ==
    ASSUME NEW S, NEW q \in Seq(S)
    PROVE  DOMAIN q = 1..Len(q) /\ Len(q) \in Nat /\ \A i \in 1..Len(q) : q[i] \in S
OBVIOUS

\* The positions in the log are numbers.
LEMMA PositionTypes ==
    ASSUME TypeOK
    PROVE  /\ Len(log) \in Nat /\ offset \in 0..Len(log) /\ tpos \in 0..Len(log)
           /\ offset \in Nat /\ tpos \in Nat
           /\ DOMAIN log = 1..Len(log)
           /\ \A i \in 1..Len(log) : /\ log[i].turn \in {Other, Own} /\ log[i].kind \in {"part", "end", "abort"}
                                     /\ log[i] = [turn |-> log[i].turn, kind |-> log[i].kind]
<1>1. log \in Seq([turn : {Other, Own}, kind : {"part", "end", "abort"}])
  BY DEF TypeOK
<1>2. offset \in 0..Len(log) /\ tpos \in 0..Len(log) /\ Len(log) \in Nat
  BY <1>1 DEF TypeOK
<1>3. DOMAIN log = 1..Len(log)
  BY <1>1
<1>4. \A i \in 1..Len(log) : log[i] \in [turn : {Other, Own}, kind : {"part", "end", "abort"}]
  BY <1>1, SeqElements
<1> QED
  BY <1>2, <1>3, <1>4

\* What the tail makes of the line it reads.
LEMMA ReadCases ==
    ASSUME TypeOK, ReadLine
    PROVE  LET kind == log[tpos + 1].kind IN
           \/ kind = "part" /\ Then(<<Line(tpos + 1)>>, "sending") /\ skip' = skip
           \/ kind = "end" /\ skip = 1 /\ Then(<<Line(tpos + 1)>>, "background") /\ skip' = 0
           \/ kind = "end" /\ skip = 0 /\ Then(<<Event("exit")>>, "closing") /\ skip' = skip
           \/ /\ kind = "abort" /\ skip' = skip
              /\ Then(<<Line(tpos + 1), Event("error"), Event("exit")>>, "closing")
<1>1. log[tpos + 1].kind \in {"part", "end", "abort"}
  <2>1. tpos + 1 \in 1..Len(log)
    BY PositionTypes DEF ReadLine
  <2> QED
    BY <2>1, PositionTypes
<1>2. skip = 0 \/ skip = 1
  BY DEF TypeOK
<1>3. CASE log[tpos + 1].kind = "part"
  BY <1>3 DEF ReadLine
<1>4. CASE log[tpos + 1].kind = "abort"
  BY <1>4 DEF ReadLine
<1>5. CASE log[tpos + 1].kind = "end" /\ skip = 0
  BY <1>5 DEF ReadLine
<1>6. CASE log[tpos + 1].kind = "end" /\ skip = 1
  BY <1>6 DEF ReadLine
<1> QED
  BY <1>1, <1>2, <1>3, <1>4, <1>5, <1>6

\* And every step of the tail.
LEMMA TailTypes ==
    ASSUME TypeOK, TailStep \/ ReadError
    PROVE  TypeOK'
<1> USE DEF TypeOK
<1>1. CASE Open
  <2>1. tsend' \in Seq(EventType)
    BY <1>1, TailSays DEF Open, Then
  <2>2. tpc' \in {"reading", "closing"}
    BY <1>1 DEF Open, Then
  <2> QED
    BY <1>1, <2>1, <2>2 DEF Open, given, agentVars, mergeVars
<1>2. CASE ReadLine
  <2>1. tpos + 1 \in 1..Len(log)
    BY <1>2, PositionTypes DEF ReadLine
  <2>2. UNCHANGED <<given, agentVars, offset, cancelled, mergeVars, tailCh>> /\ tpos' = tpos + 1
    BY <1>2 DEF ReadLine
  <2>3. tsend' \in Seq(EventType) /\ skip' \in 0..1 /\ tpc' \in {"sending", "background", "closing"}
    <3>1. tpos + 1 \in Nat
      BY PositionTypes
    <3>2. <<Line(tpos + 1)>> \in Seq(EventType)
      BY <3>1, TailSays
    <3>3. <<Line(tpos + 1), Event("error"), Event("exit")>> \in Seq(EventType)
      BY <3>1, TailSays
    <3>4. skip' \in 0..1 /\ tpc' \in {"sending", "background", "closing"}
      BY <1>2, ReadCases DEF Then
    <3>5. \/ tsend' = <<Line(tpos + 1)>> \/ tsend' = <<Event("exit")>>
          \/ tsend' = <<Line(tpos + 1), Event("error"), Event("exit")>>
      BY <1>2, ReadCases DEF Then
    <3> QED
      BY <3>2, <3>3, <3>4, <3>5, TailSays
  <2> QED
    BY <2>1, <2>2, <2>3 DEF given, agentVars, mergeVars
<1>3. CASE TailCancelled \/ ReadError
  <2>1. tsend' \in Seq(EventType) /\ tpc' = "closing"
    BY <1>3, TailSays DEF TailCancelled, ReadError, Then
  <2> QED
    BY <1>3, <2>1 DEF TailCancelled, ReadError, given, agentVars, mergeVars
<1>4. CASE TailSend
  <2>1. /\ Head(tsend) \in EventType /\ tsend' \in Seq(EventType)
        /\ tailCh' \in Seq(EventType) /\ Len(tailCh') <= TailCap
    BY <1>4, EventTaken, EventAppended DEF TailSend
  <2> QED
    BY <1>4, <2>1 DEF TailSend, given, agentVars, mergeVars
<1>5. CASE TailClose
  BY <1>5 DEF TailClose, given, agentVars, mergeVars
<1> QED
  BY <1>1, <1>2, <1>3, <1>4, <1>5 DEF TailStep


-----------------------------------------------------------------------------
(* The turns of the process.                                               *)

\* The first in a queue.
LEMMA FirstQueued ==
    ASSUME NEW x
    PROVE  Append(<<>>, x) = <<x>>
OBVIOUS

\* Short queues of turns.
LEMMA ShortQueues ==
    /\ Append(<<>>, Own) = <<Own>> /\ Append(<<Other>>, Own) = <<Other, Own>>
    /\ Append(<<>>, Other) = <<Other>>
    /\ Tail(<<Other, Own>>) = <<Own>> /\ Tail(<<Other>>) = <<>> /\ Tail(<<Own>>) = <<>>
    /\ Head(<<Other, Own>>) = Other /\ Head(<<Other>>) = Other /\ Head(<<Own>>) = Own
    /\ <<Other>> # <<>> /\ <<Own>> # <<>> /\ <<Other, Own>> # <<>> /\ <<Other>> # <<Own>>
<1>1. Append(<<>>, Own) = <<Own>> /\ Append(<<>>, Other) = <<Other>>
  BY FirstQueued
<1>2. Append(<<Other>>, Own) = <<Other, Own>>
  <2> DEFINE q == <<Other>>
             r == <<Other, Own>>
  <2>1. q \in Seq({Other, Own}) /\ Len(q) = 1 /\ q[1] = Other
    OBVIOUS
  <2>2. r \in Seq({Other, Own}) /\ Len(r) = 2 /\ r[1] = Other /\ r[2] = Own
    OBVIOUS
  <2> HIDE DEF q, r
  <2>3. /\ Append(q, Own) \in Seq({Other, Own}) /\ Len(Append(q, Own)) = 2
        /\ Append(q, Own)[1] = Other /\ Append(q, Own)[2] = Own
    BY <2>1
  <2>4. \A i \in 1..2 : i = 1 \/ i = 2
    OBVIOUS
  <2>5. Append(q, Own) = r
    BY <2>2, <2>3, <2>4, SeqEqual
  <2> QED
    BY <2>5 DEF q, r
<1>3. Tail(<<Other, Own>>) = <<Own>>
  OBVIOUS
<1>4. Tail(<<Other>>) = <<>> /\ Tail(<<Own>>) = <<>>
  OBVIOUS
<1>5. Head(<<Other, Own>>) = Other /\ Head(<<Other>>) = Other /\ Head(<<Own>>) = Own
  OBVIOUS
<1>6. <<Other>> # <<>> /\ <<Own>> # <<>> /\ <<Other, Own>> # <<>> /\ <<Other>> # <<Own>>
  OBVIOUS
<1> QED
  BY <1>1, <1>2, <1>3, <1>4, <1>5, <1>6

\* What the agent has is its turn, its parts and what it has said.
LEMMA AgentRecord ==
    ASSUME TypeOK
    PROVE  /\ agent.turn \in {Other, Own} /\ agent.said \subseteq {"end", "result"}
           /\ \A x : [agent EXCEPT !.parts = x].turn = agent.turn /\ [agent EXCEPT !.parts = x].said = agent.said
           /\ \A x : [agent EXCEPT !.said = x].turn = agent.turn /\ [agent EXCEPT !.said = x].said = x
BY DEF TypeOK

\* A line leaves the agent at its turn; an end or an abort it has said then.
LEMMA WroteSaid ==
    ASSUME TypeOK, NEW kind \in {"part", "end", "abort"}, WriteLine(kind)
    PROVE  /\ agent'.turn = agent.turn
           /\ agent'.said = IF kind = "part" THEN agent.said ELSE agent.said \cup {"end"}
<1>1. CASE kind = "part"
  BY <1>1, WroteLine, AgentRecord
<1>2. CASE kind # "part"
  <2>1. agent' = [agent EXCEPT !.said = @ \cup {"end"}]
    BY <1>2, WroteLine
  <2> QED
    BY <1>2, <2>1, AgentRecord
<1> QED
  BY <1>1, <1>2

\* Whose results are awaited in a short queue.
LEMMA ShortRanges ==
    Own \notin Range(<<>>) /\ Own \notin Range(<<Other>>) /\ Own \in Range(<<Own>>) /\ Own \in Range(<<Other, Own>>)
BY DEF Range

\* The own turn is at work only once its prompt was sent.
LEMMA OwnWorks ==
    ASSUME TypeOK, TurnsInv, Working, agent.turn = Own
    PROVE  Sent /\ Own \in Range(turns)
BY ShortRanges DEF TurnsInv, OwnAwaited, BothAwaited, Working

\* The order of the turns is kept by the agent and by the reader of its results.
LEMMA AgentTurns ==
    ASSUME TypeOK, TypeOK', TurnsInv, Agent \/ Reader \/ RemoveFile \/ Cancel
    PROVE  TurnsInv'
<1>1. UNCHANGED <<mpc, Sent, OwnAwaited, BothAwaited, ahead>>
  BY DEF Agent, Reader, WriteLine, WriteResult, NextTurn, HandleResult, RemoveFile, Cancel,
         mergeVars, given, Sent, OwnAwaited, BothAwaited
<1>2. ASSUME NEW kind \in {"part", "end", "abort"}, WriteLine(kind)
      PROVE  TurnsInv'
  <2>1. agent'.turn = agent.turn /\ ("result" \in agent'.said <=> "result" \in agent.said)
    BY <1>2, WroteSaid
  <2>2. UNCHANGED <<pipe, turns, done>>
    BY <1>2 DEF WriteLine
  <2> QED
    BY <1>1, <2>1, <2>2 DEF TurnsInv, OwnAwaited, BothAwaited
<1>3. CASE WriteResult
  <2>1. agent'.turn = agent.turn /\ "result" \in agent'.said /\ "result" \notin agent.said
    BY <1>3 DEF WriteResult, TypeOK
  <2>2. UNCHANGED <<turns, done>> /\ pipe' = Append(pipe, agent.turn)
    BY <1>3 DEF WriteResult
  <2>3. (agent.turn = Own => Sent) /\ agent.turn \in {Other, Own}
    BY <1>3, OwnWorks, AgentRecord DEF WriteResult
  <2> QED
    BY <1>1, <2>1, <2>2, <2>3, ShortQueues DEF TurnsInv, OwnAwaited, BothAwaited
<1>4. CASE NextTurn
  <2>1. /\ agent.turn = Other /\ "result" \in agent.said
        /\ agent'.turn = Own /\ "result" \notin agent'.said
        /\ UNCHANGED <<pipe, turns, done>>
    BY <1>4 DEF NextTurn
  <2> QED
    BY <1>1, <2>1, ShortQueues DEF TurnsInv, OwnAwaited, BothAwaited
<1>5. ASSUME NEW status \in {"ok", "failed"}, HandleResult(status)
      PROVE  TurnsInv'
  <2>1. /\ pipe # <<>> /\ pipe' = Tail(pipe) /\ turns' = Tail(turns) /\ agent' = agent
        /\ done' = IF Head(turns) = Own THEN status ELSE done
    BY <1>5 DEF HandleResult
  <2>2. CASE Sent
    BY <2>2, <1>1, <2>1, ShortQueues DEF TurnsInv, OwnAwaited, BothAwaited
  <2>3. CASE ~Sent
    BY <2>3, <1>1, <2>1, ShortQueues DEF TurnsInv, OwnAwaited, BothAwaited
  <2> QED
    BY <2>2, <2>3
<1>6. CASE RemoveFile \/ Cancel
  <2>1. UNCHANGED <<agent, pipe, turns, done>>
    BY <1>6 DEF RemoveFile, Cancel, agentVars
  <2> QED
    BY <1>1, <2>1 DEF TurnsInv, OwnAwaited, BothAwaited
<1> QED
  BY <1>2, <1>3, <1>4, <1>5, <1>6 DEF Agent, Reader

\* The merge adds the own turn behind the one ahead; the tail does nothing to them.
LEMMA StreamTurns ==
    ASSUME TypeOK, TypeOK', TurnsInv, Merge \/ TailStep \/ ReadError
    PROVE  TurnsInv'
<1>1. CASE Send
  <2>1. /\ ~Sent /\ Sent' /\ UNCHANGED <<ahead, agent, pipe, done>>
        /\ turns' = Append(turns, Own)
    BY <1>1 DEF Send, Sent, given
  <2> QED
    BY <2>1, ShortQueues DEF TurnsInv, OwnAwaited, BothAwaited
<1>2. CASE ~Send
  <2>1. UNCHANGED <<ahead, agent, pipe, turns, done>>
    BY <1>2 DEF Merge, Stat, Started, Locate, NotLocated, Delta, TailEvent, LogBackstop, Result, DrainTimeout,
                Drained, MergeCancelled, TailStep, Open, ReadLine, TailCancelled, TailSend, TailClose,
                ReadError, given, agentVars
  <2>2. Sent' = Sent
    BY <1>2 DEF Merge, Stat, Started, Locate, NotLocated, Delta, TailEvent, LogBackstop, Result, DrainTimeout,
                Drained, MergeCancelled, TailStep, Open, ReadLine, TailCancelled, TailSend, TailClose,
                ReadError, SendEvent, Close, mergeVars, Sent
  <2> QED
    BY <2>1, <2>2 DEF TurnsInv, OwnAwaited, BothAwaited
<1> QED
  BY <1>1, <1>2


-----------------------------------------------------------------------------
(* The log.                                                                *)

\* A written line comes last.
LEMMA LogGrows ==
    ASSUME TypeOK, NEW kind \in {"part", "end", "abort"}, WriteLine(kind)
    PROVE  /\ Len(log) \in Nat /\ DOMAIN log = 1..Len(log) /\ DOMAIN log' = 1..(Len(log) + 1)
           /\ \A i \in 1..Len(log) : log'[i] = log[i]
           /\ log'[Len(log) + 1] = [turn |-> agent.turn, kind |-> kind]
           /\ OtherEnds' = OtherEnds \cup (IF agent.turn = Other /\ kind = "end" THEN {Len(log) + 1} ELSE {})
<1> DEFINE S == [turn : {Other, Own}, kind : {"part", "end", "abort"}]
           r == [turn |-> agent.turn, kind |-> kind]
           k == Len(log) + 1
<1>1. log \in Seq(S) /\ log' = Append(log, r) /\ r \in S
  BY WroteLine, AgentRecord DEF TypeOK
<1>2. r = [turn |-> Other, kind |-> "end"] <=> agent.turn = Other /\ kind = "end"
  OBVIOUS
<1> HIDE DEF S, r
<1>3. /\ Len(log) \in Nat /\ DOMAIN log = 1..Len(log) /\ DOMAIN log' = 1..k
      /\ \A i \in 1..Len(log) : log'[i] = log[i]
      /\ log'[k] = r
  BY <1>1
<1>4. \A i \in 1..k : i \in 1..Len(log) \/ i = k
  BY <1>3
<1>5. \A i \in 1..Len(log) : i \in 1..k
  BY <1>3
<1>6. k \in 1..k /\ k \notin 1..Len(log)
  BY <1>3
<1> HIDE DEF k
<1>7. OtherEnds' = OtherEnds \cup (IF agent.turn = Other /\ kind = "end" THEN {k} ELSE {})
  BY <1>2, <1>3, <1>4, <1>5, <1>6 DEF OtherEnds
<1> QED
  BY <1>3, <1>7 DEF r, k

\* The log stays as the turns wrote it: the one ahead, then the own one.
LEMMA LogWritten ==
    ASSUME TypeOK, TurnsInv, LogInv, NEW kind \in {"part", "end", "abort"}, WriteLine(kind)
    PROVE  LogInv'
<1>1. Working /\ UNCHANGED <<mpc, ahead, Sent>>
  BY DEF WriteLine, mergeVars, given, Sent
<1>2. agent.turn = Own => Sent
  BY <1>1, OwnWorks
<1>3. agent'.turn = agent.turn
  BY WroteSaid
<1>4. kind # "part" => "end" \notin agent.said /\ "end" \in agent'.said
  BY WroteLine, WroteSaid
<1>5. kind = "part" => agent.said = {}
  BY WroteLine
<1> DEFINE k == Len(log) + 1
<1>6. /\ Len(log) \in Nat /\ k = Len(log) + 1
      /\ DOMAIN log = 1..Len(log) /\ DOMAIN log' = 1..k
      /\ \A i \in 1..Len(log) : log'[i] = log[i]
      /\ log'[k].turn = agent.turn /\ log'[k].kind = kind
      /\ OtherEnds' = OtherEnds \cup (IF agent.turn = Other /\ kind = "end" THEN {k} ELSE {})
  BY LogGrows
<1> HIDE DEF k
<1>7. \A i \in 1..k : i \in 1..Len(log) \/ i = k
  BY <1>6
<1>8. (\A i \in DOMAIN log : log[i].turn = Own => agent.turn = Own /\ Sent)'
  BY <1>1, <1>2, <1>3, <1>6, <1>7 DEF LogInv
<1>9. (\A i, j \in DOMAIN log : i < j /\ log[i].turn = Own => log[j].turn = Own)'
  <2> SUFFICES ASSUME NEW i \in 1..k, NEW j \in 1..k, i < j, log'[i].turn = Own
               PROVE  log'[j].turn = Own
    BY <1>6
  <2>1. i \in 1..Len(log) /\ log[i].turn = Own
    BY <1>6, <1>7
  <2>2. CASE j \in 1..Len(log)
    BY <2>1, <2>2, <1>6 DEF LogInv
  <2>3. CASE j = k
    BY <2>1, <2>3, <1>6 DEF LogInv
  <2> QED
    BY <2>2, <2>3, <1>7
<1>10. (\A i \in DOMAIN log : log[i].kind = "abort" => log[i].turn = Own)'
  BY <1>6, <1>7, WroteLine DEF LogInv
<1>11. (OtherEnds # {} /\ agent.turn = Other => "end" \in agent.said)'
  BY <1>3, <1>4, <1>5, <1>6 DEF LogInv
<1>12. agent.turn = Other /\ kind = "end" => OtherEnds = {}
  BY <1>4 DEF LogInv
<1>13. (\A i, j \in OtherEnds : i = j)'
  BY <1>6, <1>12 DEF LogInv
<1>14. (OtherEnds # {} => ahead)'
  BY <1>1, <1>6 DEF LogInv, TurnsInv
<1> QED
  BY <1>8, <1>9, <1>10, <1>11, <1>13, <1>14 DEF LogInv

\* The tail does not wait for an end that does not come.
LEMMA LogWrittenSkip ==
    ASSUME TypeOK, TurnsInv, LogInv, SkipInv, NEW kind \in {"part", "end", "abort"}, WriteLine(kind)
    PROVE  SkipInv'
<1>1. UNCHANGED <<mpc, Sent, Passed, skip, excuse>>
  BY DEF WriteLine, mergeVars, tailVars, Sent, Passed
<1>2. Sent /\ skip = 0 /\ "raced" \notin excuse => agent.turn # Other
  BY WroteLine DEF SkipInv
<1>3. agent'.turn = agent.turn
  BY WroteSaid
<1>4. agent.turn # Other => OtherEnds' = OtherEnds
  BY LogGrows
<1> QED
  BY <1>1, <1>2, <1>3, <1>4 DEF SkipInv

\* Nothing else touches the log; what the agent has said of the turn ahead stands.
LEMMA LogKept ==
    ASSUME TypeOK, LogInv, UNCHANGED <<log, ahead>>, Sent => Sent',
           \/ agent'.turn = Own
           \/ agent'.turn = agent.turn /\ agent.said \subseteq agent'.said
    PROVE  LogInv' /\ OtherEnds' = OtherEnds
<1>1. OtherEnds' = OtherEnds
  BY DEF OtherEnds
<1> QED
  BY <1>1 DEF LogInv

\* The prompt is sent: the end of the turn ahead is counted, or in the log already, or
\* the race is noted.
LEMMA SendSkip ==
    ASSUME TypeOK, TurnsInv, LogInv, PlaceInv, Send
    PROVE  SkipInv'
<1>1. /\ ~Sent /\ mpc' = "start" /\ skip' = Len(turns) /\ UNCHANGED <<log, ahead, agent, offset, tpc>>
      /\ "raced" \notin excuse' => ~Raced
  BY DEF Send, Sent, given
<1>2. OtherEnds' = OtherEnds
  BY <1>1 DEF OtherEnds
<1>3. tpc = "none" /\ Passed' = offset
  BY <1>1 DEF PlaceInv, Passed, Send
<1>4. ASSUME skip' = 0, "raced" \notin excuse'
      PROVE  /\ agent.turn = Other => "end" \in agent.said
             /\ \A i \in OtherEnds : i <= offset
  <2>1. turns = <<>>
    <3>1. turns = <<>> \/ turns = <<Other>>
      BY <1>1 DEF TurnsInv, OwnAwaited, BothAwaited
    <3>2. turns = <<Other>> => Len(turns) = 1
      OBVIOUS
    <3>3. Len(turns) = 0
      BY <1>1, <1>4
    <3> QED
      BY <3>1, <3>2, <3>3
  <2>2. CASE ~ahead
    BY <2>2 DEF LogInv, TurnsInv
  <2>3. CASE \E i \in 1..offset : log[i].kind = "end"
    <3>1. PICK i \in 1..offset : log[i].kind = "end"
      BY <2>3
    <3>2. i \in DOMAIN log /\ log[i].turn \in {Other, Own} /\ i <= offset
      BY PositionTypes
    <3>3. log[i].turn = Other
      BY <3>2, <1>1 DEF LogInv
    <3>4. log[i] = [turn |-> Other, kind |-> "end"]
      BY <3>1, <3>2, <3>3, PositionTypes
    <3>5. i \in OtherEnds
      BY <3>2, <3>4 DEF OtherEnds
    <3> QED
      BY <3>2, <3>5 DEF LogInv
  <2> QED
    BY <1>1, <1>4, <2>1, <2>2, <2>3 DEF Raced
<1> QED
  BY <1>1, <1>2, <1>3, <1>4 DEF SkipInv


\* Every step keeps what is known of the log.
LEMMA LogSteps ==
    ASSUME TypeOK, TurnsInv, LogInv, Next
    PROVE  LogInv'
<1>1. ASSUME NEW kind \in {"part", "end", "abort"}, WriteLine(kind)
      PROVE  LogInv'
  BY <1>1, LogWritten
<1>2. CASE WriteResult
  <2>1. UNCHANGED <<log, ahead, mpc>> /\ agent'.turn = agent.turn /\ agent.said \subseteq agent'.said
    BY <1>2 DEF WriteResult, given, mergeVars, TypeOK
  <2> QED
    BY <2>1, LogKept DEF Sent
<1>3. CASE NextTurn
  <2>1. UNCHANGED <<log, ahead, mpc>> /\ agent'.turn = Own
    BY <1>3 DEF NextTurn, given, mergeVars
  <2> QED
    BY <2>1, LogKept DEF Sent
<1>4. CASE Reader \/ RemoveFile \/ Cancel \/ Merge \/ TailStep \/ ReadError
  <2>1. UNCHANGED <<log, ahead, agent>>
    BY <1>4 DEF Reader, HandleResult, RemoveFile, Cancel, Merge, Stat, Send, Started, Locate, NotLocated, Delta,
                TailEvent, LogBackstop, Result, DrainTimeout, Drained, MergeCancelled, TailStep, Open, ReadLine,
                TailCancelled, TailSend, TailClose, ReadError, given, agentVars
  <2>2. Sent => Sent'
    BY <1>4 DEF Reader, HandleResult, RemoveFile, Cancel, Merge, Stat, Send, Started, Locate, NotLocated, Delta,
                TailEvent, LogBackstop, Result, DrainTimeout, Drained, MergeCancelled, TailStep, Open, ReadLine,
                TailCancelled, TailSend, TailClose, ReadError, mergeVars, SendEvent, Close, Sent
  <2> QED
    BY <2>1, <2>2, LogKept
<1> QED
  BY <1>1, <1>2, <1>3, <1>4 DEF Next, Agent

\* An end that is skipped is that of the turn ahead, or the own one's, behind it.
LEMMA ReadSkip ==
    ASSUME TypeOK, LogInv, SkipInv, PlaceInv, ReadLine
    PROVE  SkipInv'
<1>1. /\ UNCHANGED <<mpc, log, agent, excuse>> /\ tpos' = tpos + 1 /\ tpc = "reading"
      /\ tpos + 1 \in 1..Len(log)
  BY PositionTypes DEF ReadLine, agentVars, mergeVars
<1>2. Passed = tpos /\ Passed' = tpos + 1 /\ tpos \in Nat
  <2>1. tpc' \notin {"none", "opening"}
    BY ReadCases DEF Then
  <2> QED
    BY <2>1, <1>1, PositionTypes DEF Passed
<1>3. OtherEnds' = OtherEnds /\ OtherEnds \subseteq 1..Len(log) /\ Len(log) \in Nat
  BY <1>1, PositionTypes DEF OtherEnds
<1>4. CASE skip' = skip
  <2>1. \A i \in OtherEnds : i <= tpos => i <= tpos + 1
    BY <1>2, <1>3
  <2>2. Sent' = Sent
    BY <1>1 DEF Sent
  <2> QED
    BY <1>1, <1>2, <1>3, <1>4, <2>1, <2>2 DEF SkipInv
<1>5. CASE log[tpos + 1].kind = "end" /\ skip = 1
  <2> DEFINE p == tpos + 1
  <2>1. p \in 1..Len(log) /\ log[p].kind = "end" /\ log[p].turn \in {Other, Own} /\ p \in DOMAIN log
    BY <1>1, <1>5, PositionTypes
  <2>2. CASE log[p].turn = Other
    <3>1. p \in OtherEnds
      BY <2>1, <2>2, PositionTypes DEF OtherEnds
    <3>2. (agent.turn = Other => "end" \in agent.said) /\ \A i \in OtherEnds : i = p
      BY <3>1 DEF LogInv
    <3>3. \A i \in OtherEnds : i <= p
      BY <3>2, <1>2
    <3> QED
      BY <3>2, <3>3, <1>1, <1>2, <1>3 DEF SkipInv
  <2>3. CASE log[p].turn = Own
    <3>1. agent.turn = Own
      BY <2>1, <2>3 DEF LogInv
    <3>2. ASSUME NEW i \in OtherEnds PROVE i <= p
      <4>1. i \in DOMAIN log /\ log[i].turn # Own /\ i \in Nat /\ p \in Nat
        BY <1>2, <1>3, PositionTypes DEF OtherEnds
      <4> QED
        BY <4>1, <2>1, <2>3 DEF LogInv
    <3> QED
      BY <3>1, <3>2, <1>1, <1>2, <1>3 DEF SkipInv
  <2> QED
    BY <2>1, <2>2, <2>3
<1> QED
  BY <1>4, <1>5, ReadCases

\* Every step keeps the count of the ends to be skipped.
LEMMA SkipSteps ==
    ASSUME TypeOK, TurnsInv, LogInv, SkipInv, PlaceInv, Next
    PROVE  SkipInv'
<1>1. ASSUME NEW kind \in {"part", "end", "abort"}, WriteLine(kind)
      PROVE  SkipInv'
  BY <1>1, LogWrittenSkip
<1>2. CASE Send
  BY <1>2, SendSkip
<1>3. CASE ReadLine
  BY <1>3, ReadSkip
<1>4. CASE Stat
  BY <1>4 DEF Stat, SkipInv, Sent
<1>5. CASE WriteResult
  <2>1. /\ UNCHANGED <<log, offset, mpc, tpc, tpos, skip, excuse>>
        /\ agent'.turn = agent.turn /\ agent.said \subseteq agent'.said
    BY <1>5 DEF WriteResult, mergeVars, tailVars, TypeOK
  <2> QED
    BY <2>1 DEF SkipInv, Sent, OtherEnds, Passed
<1>6. CASE NextTurn
  <2>1. UNCHANGED <<log, offset, mpc, tpc, tpos, skip, excuse>> /\ agent'.turn = Own
    BY <1>6 DEF NextTurn, mergeVars, tailVars
  <2> QED
    BY <2>1 DEF SkipInv, Sent, OtherEnds, Passed
<1>7. CASE \/ Reader \/ RemoveFile \/ Cancel
           \/ Started \/ Locate \/ NotLocated \/ Delta \/ TailEvent \/ LogBackstop \/ Result \/ DrainTimeout
           \/ Drained \/ MergeCancelled \/ Open \/ TailCancelled \/ TailSend \/ TailClose \/ ReadError
  <2>1. UNCHANGED <<log, agent, offset, skip>> /\ excuse \subseteq excuse'
    BY <1>7 DEF Reader, HandleResult, RemoveFile, Cancel, Started, Locate, NotLocated, Delta,
                TailEvent, LogBackstop, Result, DrainTimeout, Drained, MergeCancelled, Open,
                TailCancelled, TailSend, TailClose, ReadError, agentVars, tailVars
  <2>2. Sent = Sent'
    BY <1>7 DEF Reader, HandleResult, RemoveFile, Cancel, Started, Locate, NotLocated, Delta,
                TailEvent, LogBackstop, Result, DrainTimeout, Drained, MergeCancelled, Open,
                TailCancelled, TailSend, TailClose, ReadError, mergeVars, SendEvent, Close, Sent
  <2>3. Passed' = Passed
    BY <1>7 DEF Reader, HandleResult, RemoveFile, Cancel, Started, Locate, NotLocated, Delta,
                TailEvent, LogBackstop, Result, DrainTimeout, Drained, MergeCancelled, Open, Then,
                TailCancelled, TailSend, TailClose, ReadError, tailVars, PlaceInv, Passed
  <2> QED
    BY <2>1, <2>2, <2>3 DEF SkipInv, OtherEnds
<1> QED
  BY <1>1, <1>2, <1>3, <1>4, <1>5, <1>6, <1>7 DEF Next, Agent, Merge, TailStep

-----------------------------------------------------------------------------
(* Places.                                                                 *)

\* Every step keeps what the goroutines hold where they are.
LEMMA PlaceSteps ==
    ASSUME TypeOK, PlaceInv, Next
    PROVE  PlaceInv'
<1> USE DEF PlaceInv
<1>1. CASE Agent \/ Reader \/ RemoveFile \/ Cancel
  BY <1>1 DEF Agent, Reader, WriteLine, WriteResult, NextTurn, HandleResult, RemoveFile, Cancel,
              mergeVars, tailVars
<1>2. CASE Stat \/ Send
  BY <1>2 DEF Stat, Send, tailVars
<1>3. CASE Started \/ Locate \/ NotLocated \/ Delta \/ Result \/ DrainTimeout
  BY <1>3 DEF Started, Locate, NotLocated, Delta, Result, DrainTimeout, SendEvent, Close, tailVars
<1>4. CASE LogBackstop \/ Drained \/ MergeCancelled
  BY <1>4 DEF LogBackstop, Drained, MergeCancelled, Close, tailVars
<1>5. CASE TailEvent
  <2>1. /\ UNCHANGED <<offset, tpc, tpos, tsend>> /\ mpc \in {"select", "drain", "flush"}
        /\ mpc' \in {mpc, "closed"} /\ tailCh # <<>>
    BY <1>5 DEF TailEvent, SendEvent
  <2> QED
    BY <2>1
<1>6. CASE Open
  <2>1. /\ tpc = "opening" /\ tpos' = offset /\ offset \in Nat /\ UNCHANGED <<offset, mpc, out, tailCh>>
        /\ \/ tpc' = "reading" /\ UNCHANGED tsend
           \/ tpc' = "closing"
    BY <1>6, PositionTypes DEF Open, Then, mergeVars
  <2> QED
    BY <2>1
<1>7. CASE ReadLine
  <2>1. /\ tpc = "reading" /\ tpos' = tpos + 1 /\ offset \in Nat /\ tpos \in Nat
        /\ UNCHANGED <<offset, mpc, out>>
    BY <1>7, PositionTypes DEF ReadLine, mergeVars
  <2>2. \/ tpc' \in {"sending", "background"} /\ tsend' = <<Line(tpos')>>
        \/ tpc' = "closing"
    BY <1>7, <2>1, ReadCases DEF Then
  <2> QED
    BY <2>1, <2>2
<1>8. CASE TailCancelled \/ ReadError
  <2>1. /\ tpc \in {"sending", "reading"} /\ tpc' = "closing"
        /\ UNCHANGED <<offset, mpc, out, tpos>>
    BY <1>8 DEF TailCancelled, ReadError, Then, mergeVars
  <2> QED
    BY <2>1
<1>9. CASE TailSend
  <2>1. /\ tsend # <<>> /\ tsend' = Tail(tsend) /\ UNCHANGED <<offset, mpc, out, tpos>>
        /\ tpc' = IF tpc \in {"sending", "background"} THEN "reading" ELSE tpc
    BY <1>9 DEF TailSend, mergeVars
  <2>2. tpc \in {"sending", "background", "closing"}
    BY <2>1 DEF TypeOK
  <2>3. tpc # "closing" => tsend' = <<>>
    <3>1. Tail(<<Line(tpos)>>) = <<>>
      OBVIOUS
    <3> QED
      BY <3>1, <2>1, <2>2
  <2> QED
    BY <2>1, <2>2, <2>3
<1>10. CASE TailClose
  BY <1>10 DEF TailClose, mergeVars
<1> QED
  BY <1>1, <1>2, <1>3, <1>4, <1>5, <1>6, <1>7, <1>8, <1>9, <1>10 DEF Next, Merge, TailStep


-----------------------------------------------------------------------------
(* The exit.                                                               *)

\* What one event says.
LEMMA OneSaid ==
    ASSUME NEW e \in EventType
    PROVE  /\ Types(<<e>>) = {e.type} /\ ExitLast(<<e>>)
           /\ LinesOf(<<e>>) = IF e.type = "line" THEN {e.line} ELSE {}
<1> DEFINE s == <<e>>
<1>1. DOMAIN s = {1} /\ s[1] = e /\ Len(s) = 1
  OBVIOUS
<1> HIDE DEF s
<1>2. Types(s) = {e.type} /\ ExitLast(s)
  BY <1>1 DEF Types, ExitLast
<1>3. LinesOf(s) = IF e.type = "line" THEN {e.line} ELSE {}
  BY <1>1 DEF LinesOf
<1> QED
  BY <1>2, <1>3 DEF s

\* What two events say.
LEMMA TwoSaid ==
    ASSUME NEW e \in EventType, NEW f \in EventType, e.type # "exit"
    PROVE  Types(<<e, f>>) = {e.type, f.type} /\ ExitLast(<<e, f>>)
<1> DEFINE s == <<e, f>>
<1>1. DOMAIN s = {1, 2} /\ s[1] = e /\ s[2] = f /\ Len(s) = 2
  OBVIOUS
<1> HIDE DEF s
<1>2. Types(s) = {e.type, f.type} /\ ExitLast(s)
  BY <1>1 DEF Types, ExitLast
<1> QED
  BY <1>2 DEF s

\* What three events say.
LEMMA ThreeSaid ==
    ASSUME NEW e \in EventType, NEW f \in EventType, NEW g \in EventType,
           e.type # "exit", f.type # "exit"
    PROVE  Types(<<e, f, g>>) = {e.type, f.type, g.type} /\ ExitLast(<<e, f, g>>)
<1> DEFINE s == <<e, f, g>>
<1>1. DOMAIN s = {1, 2, 3} /\ s[1] = e /\ s[2] = f /\ s[3] = g /\ Len(s) = 3
  OBVIOUS
<1> HIDE DEF s
<1>2. Types(s) = {e.type, f.type, g.type} /\ ExitLast(s)
  BY <1>1 DEF Types, ExitLast
<1> QED
  BY <1>2 DEF s

\* What the tail has to send at once, and what it says.
LEMMA TailSaid ==
    /\ Types(<<Event("exit")>>) = {"exit"} /\ ExitLast(<<Event("exit")>>)
    /\ Types(<<Event("error")>>) = {"error"} /\ ExitLast(<<Event("error")>>)
    /\ Types(<<Event("error"), Event("exit")>>) = {"error", "exit"}
    /\ ExitLast(<<Event("error"), Event("exit")>>)
    /\ \A i \in Nat :
         /\ Types(<<Line(i)>>) = {"line"} /\ ExitLast(<<Line(i)>>)
         /\ Types(<<Line(i), Event("error"), Event("exit")>>) = {"line", "error", "exit"}
         /\ ExitLast(<<Line(i), Event("error"), Event("exit")>>)
<1>1. /\ Event("exit") \in EventType /\ Event("exit").type = "exit"
      /\ Event("error") \in EventType /\ Event("error").type = "error"
  BY EventTypes
<1>2. ASSUME NEW i \in Nat PROVE Line(i) \in EventType /\ Line(i).type = "line"
  BY EventTypes
<1>3. /\ Types(<<Event("exit")>>) = {"exit"} /\ ExitLast(<<Event("exit")>>)
      /\ Types(<<Event("error")>>) = {"error"} /\ ExitLast(<<Event("error")>>)
  BY <1>1, OneSaid
<1>4. /\ Types(<<Event("error"), Event("exit")>>) = {"error", "exit"}
      /\ ExitLast(<<Event("error"), Event("exit")>>)
  BY <1>1, TwoSaid
<1>5. ASSUME NEW i \in Nat
      PROVE  /\ Types(<<Line(i)>>) = {"line"} /\ ExitLast(<<Line(i)>>)
             /\ Types(<<Line(i), Event("error"), Event("exit")>>) = {"line", "error", "exit"}
             /\ ExitLast(<<Line(i), Event("error"), Event("exit")>>)
  <2>1. Line(i) \in EventType /\ Line(i).type = "line" /\ Line(i).type # "exit"
    BY <1>2
  <2>2. Types(<<Line(i)>>) = {"line"} /\ ExitLast(<<Line(i)>>)
    BY <2>1, OneSaid
  <2>3. /\ Types(<<Line(i), Event("error"), Event("exit")>>)
             = {Line(i).type, Event("error").type, Event("exit").type}
        /\ ExitLast(<<Line(i), Event("error"), Event("exit")>>)
    BY <1>1, <2>1, ThreeSaid
  <2> QED
    BY <1>1, <2>1, <2>2, <2>3
<1> QED
  BY <1>3, <1>4, <1>5

\* An exit stays the last when the head goes, and leaves none behind when it goes.
LEMMA ExitTaken ==
    ASSUME NEW s \in Seq(EventType), s # <<>>, ExitLast(s)
    PROVE  /\ ExitLast(Tail(s))
           /\ Head(s).type = "exit" => Tail(s) = <<>>
<1>1. ExitLast(Tail(s))
  <2> DEFINE r == Tail(s)
  <2>1. /\ DOMAIN s = 1..Len(s) /\ DOMAIN r = 1..(Len(s) - 1) /\ Len(r) = Len(s) - 1 /\ Len(s) \in Nat
        /\ \A i \in 1..(Len(s) - 1) : r[i] = s[i + 1]
    BY EventTaken
  <2> HIDE DEF r
  <2>2. ASSUME NEW i \in DOMAIN r, r[i].type = "exit" PROVE i = Len(r)
    <3>1. i \in Nat /\ i + 1 \in 1..Len(s) /\ s[i + 1].type = "exit"
      BY <2>1, <2>2
    <3>2. i + 1 = Len(s)
      BY <3>1, <2>1 DEF ExitLast
    <3> QED
      BY <3>1, <3>2, <2>1
  <2>3. ExitLast(r)
    BY <2>2 DEF ExitLast
  <2> QED
    BY <2>3 DEF r
<1>2. ASSUME Head(s).type = "exit" PROVE Tail(s) = <<>>
  <2>1. Len(s) \in Nat \ {0} /\ s[1].type = "exit" /\ 1 \in DOMAIN s
    BY <1>2, EventTaken
  <2>2. Len(s) = 1
    BY <2>1 DEF ExitLast
  <2>3. Len(Tail(s)) = 0 /\ Tail(s) \in Seq(EventType)
    BY <2>2, EventTaken
  <2> QED
    BY <2>3, EmptySeq
<1> QED
  BY <1>1, <1>2

\* Behind no exit, an appended event is the last.
LEMMA ExitAppended ==
    ASSUME NEW s \in Seq(EventType), NEW e \in EventType, "exit" \notin Types(s)
    PROVE  ExitLast(Append(s, e))
<1> DEFINE r == Append(s, e)
<1>1. /\ DOMAIN s = 1..Len(s) /\ DOMAIN r = 1..(Len(s) + 1) /\ Len(r) = Len(s) + 1 /\ Len(s) \in Nat
      /\ \A i \in 1..Len(s) : r[i] = s[i]
  BY EventAppended
<1>2. \A i \in 1..(Len(s) + 1) : i \in 1..Len(s) \/ i = Len(s) + 1
  BY <1>1
<1> HIDE DEF r
<1>3. ExitLast(r)
  BY <1>1, <1>2 DEF ExitLast, Types
<1> QED
  BY <1>3 DEF r

\* The content ends with the exit as long as nothing but a preview or an error follows.
LEMMA ContentAppended ==
    ASSUME out \in Seq(EventType), ExitEndsContent, NEW e \in EventType, out' = Append(out, e),
           "exit" \notin Types(out) \/ e.type \in {"delta", "error"}
    PROVE  ExitEndsContent'
<1>1. /\ DOMAIN out = 1..Len(out) /\ DOMAIN out' = 1..(Len(out) + 1) /\ Len(out) \in Nat
      /\ \A i \in 1..Len(out) : out'[i] = out[i]
      /\ out'[Len(out) + 1] = e
  BY EventAppended
<1>2. \A i \in 1..(Len(out) + 1) : i \in 1..Len(out) \/ i = Len(out) + 1
  BY <1>1
<1>3. ASSUME NEW i \in 1..(Len(out) + 1), NEW j \in 1..(Len(out) + 1), i < j, out'[i].type = "exit"
      PROVE  out'[j].type \in {"delta", "error"}
  <2>1. i \in 1..Len(out) /\ out[i].type = "exit"
    BY <1>1, <1>2, <1>3
  <2>2. "exit" \in Types(out)
    BY <2>1, <1>1 DEF Types
  <2>3. CASE j \in 1..Len(out)
    BY <2>1, <2>3, <1>1, <1>3 DEF ExitEndsContent
  <2>4. CASE j = Len(out) + 1
    BY <2>2, <2>4, <1>1
  <2> QED
    BY <2>3, <2>4, <1>2
<1> QED
  BY <1>1, <1>3 DEF ExitEndsContent


\* The merge's own events are no exits.
LEMMA ExitMergeSpeaks ==
    ASSUME TypeOK, PlaceInv, ExitInv, ExitEndsContent, SpokenClose,
           NEW e \in EventType, e.type \in {"started", "delta", "error"},
           e.type = "started" => "exit" \notin Types(out),
           out' = Append(out, e) \/ out' = out,
           UNCHANGED <<tailCh, tsend, tpc, cancelled, excuse>>,
           Clean /\ tailGone' => mpc' = "closed",
           mpc' = "closed" /\ ~cancelled => e.type = "error" /\ out' = Append(out, e)
    PROVE  ExitInv' /\ ExitEndsContent' /\ SpokenClose'
<1>1. /\ Types(out) \subseteq Types(out') /\ Types(out') \subseteq Types(out) \cup {e.type}
      /\ out' = Append(out, e) => e.type \in Types(out')
  <2>1. Types(Append(out, e)) = Types(out) \cup {e.type}
    BY AppendedSaid DEF TypeOK
  <2> QED
    BY <2>1
<1>2. UNCHANGED <<Types(tailCh), Types(tsend), ExitLast(tailCh), ExitLast(tsend)>>
  BY DEF Types, ExitLast
<1>3. Types(out)' = Types(out')
  BY DEF Types
<1>4. "exit" \in Types(out)' <=> "exit" \in Types(out)
  BY <1>1, <1>3
<1>5. /\ Speaks \subseteq Speaks' /\ ("exit" \in Speaks' <=> "exit" \in Speaks)
      /\ Clean' = Clean
  BY <1>1, <1>2, <1>3, <1>4 DEF Speaks, Clean
<1>6. ExitInv'
  BY <1>2, <1>3, <1>4, <1>5 DEF ExitInv, TypeOK
<1>7. ExitEndsContent'
  <2>1. CASE out' = out
    BY <2>1 DEF ExitEndsContent
  <2>2. CASE out' = Append(out, e)
    BY <2>2, ContentAppended DEF TypeOK
  <2> QED
    BY <2>1, <2>2
<1>8. SpokenClose'
  BY <1>1, <1>3 DEF SpokenClose
<1> QED
  BY <1>6, <1>7, <1>8

\* A step that says nothing.
LEMMA ExitSilent ==
    ASSUME ExitInv, ExitEndsContent, SpokenClose,
           UNCHANGED <<out, tailCh, tsend>>,
           cancelled => cancelled', excuse \subseteq excuse',
           Clean' /\ tailGone' => mpc' = "closed",
           "exit" \in Speaks => tpc' \in {"closing", "closed"},
           tpc' \in {"closing", "closed"} => tpc \in {"closing", "closed"},
           mpc' = "closed" /\ ~cancelled' => mpc = "closed" \/ Types(out) \cap {"exit", "error"} # {}
    PROVE  ExitInv' /\ ExitEndsContent' /\ SpokenClose'
<1>1. UNCHANGED <<Types(out), Types(tailCh), Types(tsend), ExitLast(tailCh), ExitLast(tsend), Speaks>>
  BY DEF Types, ExitLast, Speaks
<1>2. ExitInv'
  BY <1>1 DEF ExitInv
<1>3. ExitEndsContent'
  BY DEF ExitEndsContent
<1>4. SpokenClose'
  BY <1>1 DEF SpokenClose
<1> QED
  BY <1>2, <1>3, <1>4

\* What the tail says is read, or dropped for a cancellation.
LEMMA ExitRead ==
    ASSUME TypeOK, PlaceInv, ExitInv, ExitEndsContent, SpokenClose, TailEvent
    PROVE  ExitInv' /\ ExitEndsContent' /\ SpokenClose'
<1> DEFINE h == Head(tailCh)
<1>1. /\ tailCh # <<>> /\ tailCh' = Tail(tailCh) /\ tailCh \in Seq(EventType) /\ mpc # "closed"
      /\ UNCHANGED <<tsend, tpc, cancelled, excuse>>
  BY DEF TailEvent, tailVars, TypeOK
<1>2. /\ Types(tailCh) = Types(Tail(tailCh)) \cup {h.type} /\ h \in EventType
      /\ ExitLast(Tail(tailCh))
      /\ h.type = "exit" => Tail(tailCh) = <<>>
  BY <1>1, TakenSaid, EventTaken, ExitTaken DEF ExitInv
<1>3. "exit" \notin Types(out)
  BY <1>1 DEF ExitInv
<1>4. /\ Types(out)' = Types(out') /\ Types(tailCh)' = Types(tailCh') /\ Types(tsend)' = Types(tsend)
      /\ ExitLast(tailCh)' = ExitLast(tailCh') /\ ExitLast(tsend)' = ExitLast(tsend)
      /\ Clean' = Clean
  BY <1>1 DEF Types, ExitLast, Clean
<1>5. CASE Deliver(h) /\ mpc' = mpc /\ UNCHANGED tailGone
  <2>1. out' = Append(out, h) /\ Types(out') = Types(out) \cup {h.type}
    BY <1>2, <1>5, AppendedSaid DEF Deliver, TypeOK
  <2>2. Speaks' = Speaks
    BY <1>1, <1>2, <1>4, <2>1 DEF Speaks
  <2>3. ExitInv'
    BY <1>1, <1>2, <1>3, <1>4, <1>5, <2>1, <2>2 DEF ExitInv
  <2>4. ExitEndsContent'
    BY <1>2, <1>3, <2>1, ContentAppended DEF TypeOK
  <2> QED
    BY <1>1, <1>5, <2>3, <2>4 DEF SpokenClose
<1>6. CASE cancelled /\ mpc' = "closed" /\ tailGone' = TRUE /\ UNCHANGED out
  <2>1. Speaks' \subseteq Speaks
    BY <1>1, <1>2, <1>4, <1>6 DEF Speaks
  <2>2. ExitInv'
    BY <1>1, <1>2, <1>3, <1>4, <1>6, <2>1 DEF ExitInv
  <2>3. ExitEndsContent'
    BY <1>6 DEF ExitEndsContent
  <2> QED
    BY <1>1, <1>6, <2>2, <2>3 DEF SpokenClose
<1> QED
  BY <1>5, <1>6 DEF TailEvent, SendEvent

\* The tail takes up what it will say next.
LEMMA ExitTakenUp ==
    ASSUME TypeOK, ExitInv, ExitEndsContent, SpokenClose,
           UNCHANGED <<mpc, out, tailGone, tailCh, cancelled>>, excuse \subseteq excuse',
           tpc \notin {"closing", "closed"},
           ExitLast(tsend'),
           tpc' # "closing" => "exit" \notin Types(tsend'),
           tpc' = "closing" => Types(tsend') \cap {"exit", "error"} # {},
           tpc' # "closed"
    PROVE  ExitInv' /\ ExitEndsContent' /\ SpokenClose'
<1>1. "exit" \notin Speaks
  BY DEF ExitInv
<1>2. /\ UNCHANGED <<Types(out), Types(tailCh), ExitLast(tailCh)>>
      /\ Types(tsend)' = Types(tsend') /\ ExitLast(tsend)' = ExitLast(tsend')
  BY DEF Types, ExitLast
<1>3. Clean' => Clean
  BY DEF Clean
<1>4. "exit" \notin Types(out)' \cup Types(tailCh)'
  BY <1>1, <1>2 DEF Speaks
<1>5. "exit" \in Speaks' => tpc' = "closing"
  BY <1>2, <1>4 DEF Speaks
<1>6. tpc' = "closing" => Speaks' \cap {"exit", "error"} # {}
  BY <1>2 DEF Speaks
<1>7. ExitInv'
  BY <1>2, <1>3, <1>4, <1>5, <1>6 DEF ExitInv
<1> QED
  BY <1>2, <1>7 DEF ExitEndsContent, SpokenClose

\* The tail says one of the events it holds.
LEMMA ExitSaid ==
    ASSUME TypeOK, PlaceInv, ExitInv, ExitEndsContent, SpokenClose, TailSend
    PROVE  ExitInv' /\ ExitEndsContent' /\ SpokenClose'
<1> DEFINE h == Head(tsend)
<1>1. /\ tsend # <<>> /\ tsend' = Tail(tsend) /\ tailCh' = Append(tailCh, h)
      /\ tsend \in Seq(EventType) /\ tailCh \in Seq(EventType)
      /\ UNCHANGED <<mpc, out, tailGone, cancelled, excuse>>
      /\ tpc' = IF tpc \in {"sending", "background"} THEN "reading" ELSE tpc
  BY DEF TailSend, mergeVars, TypeOK
<1>2. /\ Types(tsend) = Types(Tail(tsend)) \cup {h.type} /\ h \in EventType
      /\ ExitLast(Tail(tsend))
      /\ h.type = "exit" => Tail(tsend) = <<>>
  BY <1>1, TakenSaid, EventTaken, ExitTaken DEF ExitInv
<1>3. "exit" \notin Types(out) \cup Types(tailCh)
  BY <1>1 DEF ExitInv
<1>4. Types(tailCh') = Types(tailCh) \cup {h.type} /\ ExitLast(tailCh')
  BY <1>1, <1>2, <1>3, AppendedSaid, ExitAppended
<1>5. /\ Types(out)' = Types(out) /\ Types(tailCh)' = Types(tailCh') /\ Types(tsend)' = Types(tsend')
      /\ ExitLast(tailCh)' = ExitLast(tailCh') /\ ExitLast(tsend)' = ExitLast(tsend')
      /\ Clean' = Clean
  BY <1>1 DEF Types, ExitLast, Clean
<1>6. Speaks' = Speaks
  BY <1>1, <1>2, <1>4, <1>5 DEF Speaks
<1>7. ExitInv'
  BY <1>1, <1>2, <1>3, <1>4, <1>5, <1>6 DEF ExitInv
<1> QED
  BY <1>1, <1>5, <1>7 DEF ExitEndsContent, SpokenClose


\* Every step keeps the exit the last of the content, and the close spoken.
LEMMA ExitSteps ==
    ASSUME TypeOK, PlaceInv, ExitInv, ExitEndsContent, SpokenClose, Next
    PROVE  ExitInv' /\ ExitEndsContent' /\ SpokenClose'
<1>1. CASE Agent \/ Reader \/ RemoveFile \/ Cancel
  <2>1. /\ UNCHANGED <<mpc, out, tailGone, tpc, tsend, tailCh, excuse>>
        /\ cancelled => cancelled'
    BY <1>1 DEF Agent, Reader, WriteLine, WriteResult, NextTurn, HandleResult, RemoveFile, Cancel,
                mergeVars, tailVars
  <2> QED
    BY <2>1, ExitSilent DEF ExitInv, SpokenClose, Clean
<1>2. CASE Stat \/ Send \/ Locate \/ DrainTimeout
  <2>1. /\ UNCHANGED <<out, tsend, tailCh, cancelled>> /\ excuse \subseteq excuse'
        /\ mpc # "closed" /\ mpc' # "closed" /\ (Clean' => (tailGone' => tailGone))
        /\ tpc' = tpc \/ (tpc = "none" /\ tpc' = "opening")
    BY <1>2 DEF Stat, Send, Locate, DrainTimeout, tailVars, Clean, PlaceInv
  <2>2. Clean' => Clean
    BY <2>1 DEF Clean
  <2>3. Clean' /\ tailGone' => mpc' = "closed"
    BY <2>1, <2>2 DEF ExitInv
  <2>4. "exit" \in Speaks => tpc \in {"closing", "closed"} /\ tpc' = tpc
    BY <2>1 DEF ExitInv
  <2> QED
    BY <2>1, <2>3, <2>4, ExitSilent
<1>3. CASE Started
  <2>1. /\ SendEvent(Event("started"), "locate") /\ mpc = "start"
        /\ UNCHANGED <<tailCh, tsend, tpc, cancelled, excuse>>
    BY <1>3 DEF Started, tailVars
  <2>2. "exit" \notin Types(out) /\ (Clean => ~tailGone)
    BY <2>1 DEF ExitInv, PlaceInv, Speaks, TypeOK
  <2> QED
    BY <2>1, <2>2, EventTypes, ExitMergeSpeaks DEF SendEvent, Deliver, Clean
<1>4. CASE Delta
  <2>1. /\ SendEvent(Event("delta"), "select") /\ mpc = "select"
        /\ UNCHANGED <<tailCh, tsend, tpc, cancelled, excuse>>
    BY <1>4 DEF Delta, tailVars
  <2>2. Clean => ~tailGone
    BY <2>1 DEF ExitInv, TypeOK
  <2> QED
    BY <2>1, <2>2, EventTypes, ExitMergeSpeaks DEF SendEvent, Deliver, Clean
<1>5. CASE NotLocated
  <2>1. /\ SendEvent(Event("error"), "closed")
        /\ UNCHANGED <<tailCh, tsend, tpc, cancelled, excuse>>
    BY <1>5 DEF NotLocated, tailVars
  <2> QED
    BY <2>1, EventTypes, ExitMergeSpeaks DEF SendEvent, Deliver
<1>6. CASE Result
  <2>1. /\ out' = Append(out, Event("error")) \/ out' = out
        /\ mpc = "select" /\ mpc' = "drain"
        /\ UNCHANGED <<tailGone, tailCh, tsend, tpc, cancelled, excuse>>
    BY <1>6 DEF Result, Report, Deliver, tailVars
  <2>2. Clean => ~tailGone
    BY <2>1 DEF ExitInv, TypeOK
  <2> QED
    BY <2>1, <2>2, EventTypes, ExitMergeSpeaks DEF Clean
<1>7. CASE TailEvent
  BY <1>7, ExitRead
<1>8. CASE LogBackstop \/ Drained
  <2>1. /\ TailOver /\ mpc' = "closed"
        /\ UNCHANGED <<out, tailCh, tsend, tpc, cancelled, excuse>>
    BY <1>8 DEF LogBackstop, Drained, Close, tailVars
  <2>2. Types(tailCh) = {} /\ Types(tsend) = {} /\ tpc = "closed"
    BY <2>1, EmptySaid DEF TailOver, PlaceInv
  <2>3. ~cancelled => Types(out) \cap {"exit", "error"} # {}
    BY <2>2 DEF ExitInv, Speaks
  <2> QED
    BY <2>1, <2>2, <2>3, ExitSilent DEF ExitInv
<1>9. CASE MergeCancelled
  <2>1. cancelled /\ mpc' = "closed" /\ UNCHANGED <<out, tailCh, tsend, tpc, cancelled, excuse>>
    BY <1>9 DEF MergeCancelled, Close, tailVars
  <2> QED
    BY <2>1, ExitSilent DEF ExitInv
<1>10. CASE Open
  <2>1. /\ tpc = "opening" /\ UNCHANGED <<mpc, out, tailGone, tailCh, cancelled, excuse>>
        /\ \/ tpc' = "reading" /\ tsend' = tsend
           \/ tpc' = "closing" /\ tsend' = <<Event("exit")>>
           \/ tpc' = "closing" /\ tsend' = <<Event("error")>>
    BY <1>10 DEF Open, Then, mergeVars
  <2>2. tsend = <<>> /\ ExitLast(tsend)
    BY <2>1 DEF PlaceInv, ExitInv
  <2>3. /\ ExitLast(tsend') /\ (tpc' = "reading" => Types(tsend') = {})
        /\ tpc' = "closing" => Types(tsend') \cap {"exit", "error"} # {}
    BY <2>1, <2>2, TailSaid, EmptySaid
  <2> QED
    BY <2>1, <2>3, ExitTakenUp
<1>11. CASE ReadLine
  <2>1. tpc = "reading" /\ UNCHANGED <<mpc, out, tailGone, tailCh, cancelled, excuse>>
    BY <1>11 DEF ReadLine, mergeVars
  <2>2. \/ tpc' \in {"sending", "background"} /\ tsend' = <<Line(tpos + 1)>>
        \/ tpc' = "closing" /\ tsend' = <<Event("exit")>>
        \/ tpc' = "closing" /\ tsend' = <<Line(tpos + 1), Event("error"), Event("exit")>>
    BY <1>11, ReadCases DEF Then
  <2>3. tpos + 1 \in Nat
    BY PositionTypes
  <2>4. /\ ExitLast(tsend') /\ (tpc' # "closing" => Types(tsend') = {"line"})
        /\ tpc' = "closing" => Types(tsend') \cap {"exit", "error"} # {}
    <3>1. CASE tsend' = <<Line(tpos + 1)>> /\ tpc' # "closing"
      BY <3>1, <2>3, TailSaid
    <3>2. CASE tsend' = <<Event("exit")>> /\ tpc' = "closing"
      BY <3>2, TailSaid
    <3>3. CASE tsend' = <<Line(tpos + 1), Event("error"), Event("exit")>> /\ tpc' = "closing"
      BY <3>3, <2>3, TailSaid
    <3> QED
      BY <2>2, <3>1, <3>2, <3>3
  <2> QED
    BY <2>1, <2>2, <2>4, ExitTakenUp
<1>12. CASE TailCancelled \/ ReadError
  <2>1. /\ tpc \in {"sending", "reading"} /\ tpc' = "closing"
        /\ UNCHANGED <<mpc, out, tailGone, tailCh, cancelled>> /\ excuse \subseteq excuse'
        /\ \/ tsend' = <<Event("exit")>>
           \/ tsend' = <<Event("error"), Event("exit")>>
    BY <1>12 DEF TailCancelled, ReadError, Then, mergeVars
  <2>2. ExitLast(tsend') /\ Types(tsend') \cap {"exit", "error"} # {}
    BY <2>1, TailSaid
  <2> QED
    BY <2>1, <2>2, ExitTakenUp
<1>13. CASE TailSend
  BY <1>13, ExitSaid
<1>14. CASE TailClose
  <2>1. /\ tpc = "closing" /\ tpc' = "closed"
        /\ UNCHANGED <<mpc, out, tailGone, tailCh, tsend, cancelled, excuse>>
    BY <1>14 DEF TailClose, mergeVars
  <2> QED
    BY <2>1, ExitSilent DEF ExitInv, SpokenClose, Clean
<1> QED
  BY <1>1, <1>2, <1>3, <1>4, <1>5, <1>6, <1>7, <1>8, <1>9, <1>10, <1>11, <1>12, <1>13, <1>14
     DEF Next, Merge, TailStep


-----------------------------------------------------------------------------
(* The order of the lines.                                                 *)

\* One more behind an event.
LEMMA AppendSecond ==
    ASSUME NEW e \in EventType, NEW f \in EventType
    PROVE  Append(<<e>>, f) = <<e, f>>
<1> DEFINE q == <<e>>
           r == <<e, f>>
<1>1. q \in Seq(EventType) /\ Len(q) = 1 /\ q[1] = e
  OBVIOUS
<1>2. r \in Seq(EventType) /\ Len(r) = 2 /\ r[1] = e /\ r[2] = f
  OBVIOUS
<1> HIDE DEF q, r
<1>3. /\ Append(q, f) \in Seq(EventType) /\ Len(Append(q, f)) = 2
      /\ Append(q, f)[1] = e /\ Append(q, f)[2] = f
  <2>1. /\ Append(q, f) \in Seq(EventType) /\ Len(Append(q, f)) = Len(q) + 1
        /\ \A i \in 1..Len(q) : Append(q, f)[i] = q[i]
        /\ Append(q, f)[Len(q) + 1] = f
    BY <1>1, EventAppended
  <2>2. Len(q) + 1 = 2 /\ 1 \in 1..Len(q)
    BY <1>1
  <2> QED
    BY <1>1, <2>1, <2>2
<1>4. \A i \in 1..2 : i = 1 \/ i = 2
  OBVIOUS
<1>5. Append(q, f) = r
  BY <1>2, <1>3, <1>4, SeqEqual
<1> QED
  BY <1>5 DEF q, r

\* And behind two.
LEMMA AppendThird ==
    ASSUME NEW e \in EventType, NEW f \in EventType, NEW g \in EventType
    PROVE  Append(<<e, f>>, g) = <<e, f, g>>
<1> DEFINE q == <<e, f>>
           r == <<e, f, g>>
<1>1. q \in Seq(EventType) /\ Len(q) = 2 /\ q[1] = e /\ q[2] = f
  OBVIOUS
<1>2. r \in Seq(EventType) /\ Len(r) = 3 /\ r[1] = e /\ r[2] = f /\ r[3] = g
  OBVIOUS
<1> HIDE DEF q, r
<1>3. /\ Append(q, g) \in Seq(EventType) /\ Len(Append(q, g)) = 3
      /\ Append(q, g)[1] = e /\ Append(q, g)[2] = f /\ Append(q, g)[3] = g
  <2>1. /\ Append(q, g) \in Seq(EventType) /\ Len(Append(q, g)) = Len(q) + 1
        /\ \A i \in 1..Len(q) : Append(q, g)[i] = q[i]
        /\ Append(q, g)[Len(q) + 1] = g
    BY <1>1, EventAppended
  <2>2. Len(q) + 1 = 3 /\ 1 \in 1..Len(q) /\ 2 \in 1..Len(q)
    BY <1>1
  <2> QED
    BY <1>1, <2>1, <2>2
<1>4. \A i \in 1..3 : i = 1 \/ i = 2 \/ i = 3
  OBVIOUS
<1>5. Append(q, g) = r
  BY <1>2, <1>3, <1>4, SeqEqual
<1> QED
  BY <1>5 DEF q, r

\* A chain of one line, and of none.
LEMMA ChainOne ==
    ASSUME NEW b \in Nat
    PROVE  /\ Chain(<<Line(b + 1)>>, b, b + 1)
           /\ Chain(<<Event("exit")>>, b, b) /\ Chain(<<Event("error")>>, b, b)
           /\ Chain(<<Event("error"), Event("exit")>>, b, b)
           /\ Chain(<<Line(b + 1), Event("error"), Event("exit")>>, b, b + 1)
<1>0. /\ Event("exit") \in EventType /\ Event("exit").type = "exit"
      /\ Event("error") \in EventType /\ Event("error").type = "error"
      /\ Line(b + 1) \in EventType
  BY EventTypes
<1>1. <<>> \in Seq(EventType) /\ Chain(<<>>, b, b)
  BY EmptySaid, ChainEmpty
<1>2. \A e \in EventType : /\ Append(<<>>, e) = <<e>> /\ <<e>> \in Seq(EventType)
                           /\ \A f \in EventType : <<e, f>> \in Seq(EventType)
  BY FirstQueued
<1>3. Chain(<<Line(b + 1)>>, b, b + 1)
  BY <1>0, <1>1, <1>2, ChainLine
<1>4. Chain(<<Event("exit")>>, b, b) /\ Chain(<<Event("error")>>, b, b)
  BY <1>0, <1>1, <1>2, ChainOther
<1>5. ASSUME NEW e \in EventType, NEW f \in EventType PROVE Append(<<e>>, f) = <<e, f>>
  BY AppendSecond
<1>6. ASSUME NEW e \in EventType, NEW f \in EventType, NEW g \in EventType
      PROVE  Append(<<e, f>>, g) = <<e, f, g>>
  BY AppendThird
<1>7. Chain(<<Event("error"), Event("exit")>>, b, b)
  <2>1. Chain(Append(<<Event("error")>>, Event("exit")), b, b)
    BY <1>0, <1>2, <1>4, ChainOther
  <2> QED
    BY <2>1, <1>0, <1>5
<1>8. Chain(<<Line(b + 1), Event("error"), Event("exit")>>, b, b + 1)
  <2>1. Chain(Append(<<Line(b + 1)>>, Event("error")), b, b + 1)
    BY <1>0, <1>2, <1>3, ChainOther
  <2>2. Chain(<<Line(b + 1), Event("error")>>, b, b + 1)
    BY <2>1, <1>0, <1>5
  <2>3. Chain(Append(<<Line(b + 1), Event("error")>>, Event("exit")), b, b + 1)
    BY <2>2, <1>0, <1>2, ChainOther
  <2> QED
    BY <2>3, <1>0, <1>6
<1> QED
  BY <1>3, <1>4, <1>7, <1>8

\* A line event is its number.
LEMMA LineIs ==
    ASSUME NEW e \in EventType, e.type = "line"
    PROVE  e = Line(e.line) /\ e.line \in Nat
BY DEF EventType, Line

\* The own turn's end stays reached.
LEMMA EndStays ==
    ASSUME TypeOK, EndReached, offset' = offset, LinesOf(out) \subseteq LinesOf(out'),
           \A i \in DOMAIN log : i \in DOMAIN log' /\ log'[i] = log[i]
    PROVE  EndReached'
<1>1. LinesOf(out)' = LinesOf(out')
  BY DEF LinesOf
<1> QED
  BY <1>1 DEF EndReached

\* The agent's lines, and a cancellation, leave what is on its way.
LEMMA OrderAgent ==
    ASSUME TypeOK, OrderInv, ExitIsOwn, Agent \/ Reader \/ RemoveFile \/ Cancel
    PROVE  OrderInv' /\ ExitIsOwn'
<1>1. /\ UNCHANGED <<offset, mpc, out, tailGone, tpc, tpos, tsend, tailCh, excuse>>
      /\ cancelled => cancelled'
  BY DEF Agent, Reader, WriteLine, WriteResult, NextTurn, HandleResult, RemoveFile, Cancel,
         mergeVars, tailVars
<1>2. /\ Len(log) \in Nat /\ Len(log') \in Nat /\ Len(log) <= Len(log')
      /\ DOMAIN log = 1..Len(log) /\ DOMAIN log' = 1..Len(log')
      /\ \A i \in DOMAIN log : log'[i] = log[i]
  <2>1. ASSUME NEW kind \in {"part", "end", "abort"}, WriteLine(kind)
        PROVE  log' = Append(log, [turn |-> agent.turn, kind |-> kind])
                 /\ [turn |-> agent.turn, kind |-> kind] \in [turn : {Other, Own}, kind : {"part", "end", "abort"}]
    BY <2>1, WroteLine, AgentRecord
  <2>2. ASSUME NEW S, NEW q \in Seq(S), NEW r \in S
        PROVE  /\ Len(q) \in Nat /\ Len(Append(q, r)) = Len(q) + 1 /\ DOMAIN q = 1..Len(q)
               /\ DOMAIN Append(q, r) = 1..Len(Append(q, r)) /\ \A i \in DOMAIN q : Append(q, r)[i] = q[i]
    OBVIOUS
  <2>3. CASE \E kind \in {"part", "end", "abort"} : WriteLine(kind)
    <3>1. PICK kind \in {"part", "end", "abort"} : WriteLine(kind)
      BY <2>3
    <3> DEFINE S == [turn : {Other, Own}, kind : {"part", "end", "abort"}]
               r == [turn |-> agent.turn, kind |-> kind]
    <3>2. log' = Append(log, r) /\ r \in S /\ log \in Seq(S)
      BY <3>1, <2>1 DEF TypeOK
    <3> HIDE DEF S, r
    <3>3. /\ Len(log) \in Nat /\ Len(log') = Len(log) + 1 /\ DOMAIN log = 1..Len(log)
          /\ DOMAIN log' = 1..Len(log') /\ \A i \in DOMAIN log : log'[i] = log[i]
      BY <3>2, <2>2
    <3> QED
      BY <3>3
  <2>4. CASE ~ \E kind \in {"part", "end", "abort"} : WriteLine(kind)
    <3>1. log' = log
      BY <2>4 DEF Agent, Reader, WriteResult, NextTurn, HandleResult, RemoveFile, Cancel, agentVars
    <3> QED
      BY <3>1, PositionTypes
  <2> QED
    BY <2>3, <2>4
<1>3. PICK m \in 0..Len(log), n \in 0..Len(log), k \in 0..Len(log) : Reached(m, n, k)
  BY DEF OrderInv
<1>4. m \in 0..Len(log') /\ n \in 0..Len(log') /\ k \in 0..Len(log')
  BY <1>2
<1>5. /\ Chain(out, offset, m)' <=> Chain(out, offset, m)
      /\ Chain(tailCh, m, n)' <=> Chain(tailCh, m, n)
      /\ Chain(tsend, n, k)' <=> Chain(tsend, n, k)
  BY <1>1 DEF Chain, LinesOf
<1>6. Speaks' = Speaks /\ Types(out)' = Types(out) /\ (Clean' => Clean)
  BY <1>1 DEF Speaks, Types, Clean
<1>7. tpos \in DOMAIN log => tpos \in DOMAIN log' /\ log'[tpos] = log[tpos]
  BY <1>2
<1>8. Reached(m, n, k)'
  BY <1>1, <1>3, <1>5, <1>6, <1>7 DEF Reached
<1>9. OrderInv'
  BY <1>4, <1>8 DEF OrderInv
<1>10. EndReached => EndReached'
  BY <1>1, <1>2, EndStays
<1> QED
  BY <1>1, <1>6, <1>9, <1>10 DEF ExitIsOwn


\* The merge's own events are no lines.
LEMMA OrderMergeSpeaks ==
    ASSUME TypeOK, OrderInv, ExitIsOwn, mpc # "closed",
           NEW e \in EventType, e.type \in {"started", "delta", "error"},
           out' = Append(out, e) \/ out' = out,
           UNCHANGED <<log, offset, tailCh, tsend, tpos, cancelled, excuse>>,
           tpc' = tpc
    PROVE  OrderInv' /\ ExitIsOwn'
<1>1. PICK m \in 0..Len(log), n \in 0..Len(log), k \in 0..Len(log) : Reached(m, n, k)
  BY DEF OrderInv
<1>2. Chain(out', offset, m)
  <2>1. out \in Seq(EventType) /\ e.type # "line" /\ Chain(out, offset, m)
    BY <1>1 DEF Reached, TypeOK
  <2>2. Chain(Append(out, e), offset, m)
    BY <2>1, ChainOther
  <2> QED
    BY <2>1, <2>2
<1>3. /\ Types(out') \subseteq Types(out) \cup {e.type}
      /\ LinesOf(out') = LinesOf(out)
  <2>1. out \in Seq(EventType) /\ e.type # "line"
    BY DEF TypeOK
  <2>2. Types(Append(out, e)) = Types(out) \cup {e.type}
    BY <2>1, AppendedSaid
  <2>3. LinesOf(Append(out, e)) = LinesOf(out)
    BY <2>1, AppendedSaid
  <2> QED
    BY <2>2, <2>3
<1>4. /\ Chain(out, offset, m)' <=> Chain(out', offset, m)
      /\ Chain(tailCh, m, n)' <=> Chain(tailCh, m, n)
      /\ Chain(tsend, n, k)' <=> Chain(tsend, n, k)
  BY DEF Chain, LinesOf
<1>5. /\ "exit" \in Speaks' => "exit" \in Speaks
      /\ "exit" \in Types(out)' => "exit" \in Types(out)
      /\ Clean' = Clean
  BY <1>3 DEF Speaks, Types, Clean
<1>6. Reached(m, n, k)'
  BY <1>1, <1>2, <1>4, <1>5 DEF Reached
<1>7. EndReached => EndReached'
  BY <1>3, EndStays
<1> QED
  BY <1>5, <1>6, <1>7 DEF OrderInv, ExitIsOwn, Clean

\* A step that hands nothing on.
LEMMA OrderSilent ==
    ASSUME TypeOK, OrderInv, ExitIsOwn,
           UNCHANGED <<log, offset, out, tailCh, tsend, tpos>>,
           mpc' = "closed" \/ mpc # "closed" \/ mpc' = mpc,
           cancelled => cancelled', excuse \subseteq excuse',
           \/ tpc' = tpc
           \/ tpc = "none" /\ tpc' = "opening"
           \/ tpc = "closing" /\ tpc' = "closed"
    PROVE  OrderInv' /\ ExitIsOwn'
<1>1. PICK m \in 0..Len(log), n \in 0..Len(log), k \in 0..Len(log) : Reached(m, n, k)
  BY DEF OrderInv
<1>2. /\ Chain(out, offset, m)' <=> Chain(out, offset, m)
      /\ Chain(tailCh, m, n)' <=> Chain(tailCh, m, n)
      /\ Chain(tsend, n, k)' <=> Chain(tsend, n, k)
  BY DEF Chain, LinesOf
<1>3. Speaks' = Speaks /\ Types(out)' = Types(out) /\ (Clean' => Clean)
  BY DEF Speaks, Types, Clean
<1>4. mpc' # "closed" => mpc # "closed"
  OBVIOUS
<1>5. Reached(m, n, k)'
  BY <1>1, <1>2, <1>3, <1>4 DEF Reached
<1>6. EndReached => EndReached'
  BY EndStays
<1> QED
  BY <1>3, <1>5, <1>6 DEF OrderInv, ExitIsOwn, Clean

\* What is to be shown of a next state in which the lines have moved on.
LEMMA ReachedNext ==
    ASSUME NEW m \in 0..Len(log'), NEW n \in 0..Len(log'), NEW k \in 0..Len(log'),
           Chain(out', offset', m),
           mpc' # "closed" => /\ Chain(tailCh', m, n) /\ Chain(tsend', n, k)
                              /\ tpc' \in {"none", "opening"} => k = offset'
                              /\ tpc' \in {"reading", "sending", "background"} => k = tpos',
           mpc' # "closed" /\ Clean' /\ "exit" \in Speaks' =>
             /\ tpos' \in DOMAIN log' /\ tpos' <= k + 1
             /\ log'[tpos'].turn = Own /\ log'[tpos'].kind \in {"end", "abort"}
    PROVE  OrderInv'
<1>1. /\ Chain(out, offset, m)' <=> Chain(out', offset', m)
      /\ Chain(tailCh, m, n)' <=> Chain(tailCh', m, n)
      /\ Chain(tsend, n, k)' <=> Chain(tsend', n, k)
  BY DEF Chain, LinesOf
<1>2. Reached(m, n, k)'
  BY <1>1 DEF Reached
<1> QED
  BY <1>2 DEF OrderInv

\* Nothing is delivered: an exit that was the own turn's still is.
LEMMA OwnStays ==
    ASSUME TypeOK, ExitIsOwn, UNCHANGED <<log, offset, out>>, cancelled => cancelled', excuse \subseteq excuse'
    PROVE  ExitIsOwn'
<1>1. EndReached => EndReached'
  BY EndStays
<1>2. Types(out)' = Types(out)
  BY DEF Types
<1> QED
  BY <1>1, <1>2 DEF ExitIsOwn

\* The log is measured while nothing is on its way.
LEMMA OrderStat ==
    ASSUME TypeOK, PlaceInv, Stat
    PROVE  OrderInv' /\ ExitIsOwn'
<1>1. /\ mpc = "stat" /\ mpc' = "send" /\ offset' = Len(log)
      /\ UNCHANGED <<log, out, tailCh, tsend, tpc, tpos>>
      /\ out = <<>> /\ tailCh = <<>> /\ tsend = <<>> /\ tpc = "none" /\ Len(log) \in Nat
  BY PositionTypes DEF Stat, agentVars, tailVars, PlaceInv
<1>2. PICK l \in Nat : l = Len(log)
  BY <1>1
<1>3. Chain(<<>>, l, l) /\ Types(<<>>) = {}
  BY ChainEmpty, EmptySaid
<1>4. out' = <<>> /\ tailCh' = <<>> /\ tsend' = <<>> /\ offset' = l /\ Len(log') = l /\ tpc' = "none"
  BY <1>1, <1>2
<1>5. Types(out)' = {} /\ Types(tailCh)' = {} /\ Types(tsend)' = {}
  BY <1>3, <1>4 DEF Types
<1>6. "exit" \notin Speaks'
  BY <1>5 DEF Speaks
<1>7. OrderInv'
  BY <1>3, <1>4, <1>6, ReachedNext
<1> QED
  BY <1>5, <1>7 DEF ExitIsOwn

\* The tail opens the log where it was measured.
LEMMA OrderOpen ==
    ASSUME TypeOK, PlaceInv, ExitInv, OrderInv, ExitIsOwn, Open
    PROVE  OrderInv' /\ ExitIsOwn'
<1>1. /\ tpc = "opening" /\ tpos' = offset /\ UNCHANGED <<log, offset, mpc, out, tailGone, tailCh, cancelled, excuse>>
      /\ \/ tpc' = "reading" /\ tsend' = tsend
         \/ TailCtxDone /\ tpc' = "closing" /\ tsend' = <<Event("exit")>>
         \/ tpc' = "closing" /\ tsend' = <<Event("error")>>
  BY DEF Open, Then, agentVars, mergeVars
<1>2. PICK m \in 0..Len(log), n \in 0..Len(log), k \in 0..Len(log) : Reached(m, n, k)
  BY DEF OrderInv
<1>3. tailCh = <<>> /\ tsend = <<>> /\ "exit" \notin Speaks /\ m \in Nat /\ n \in Nat /\ k \in Nat
  BY <1>1, PositionTypes DEF PlaceInv, ExitInv
<1>4. Chain(out, offset, m) /\ (mpc # "closed" => m = n /\ n = k /\ k = offset)
  BY <1>1, <1>2, <1>3, ChainEmpty DEF Reached
<1>5. Chain(tailCh', m, m) /\ Chain(tsend', m, m)
  <2>1. Chain(<<>>, m, m) /\ Chain(<<Event("exit")>>, m, m) /\ Chain(<<Event("error")>>, m, m)
    BY <1>3, ChainEmpty, ChainOne
  <2> QED
    BY <1>1, <1>3, <2>1
<1>6. Types(out)' = Types(out) /\ Types(tailCh)' = Types(tailCh) /\ Types(tsend)' = Types(tsend') /\ Clean' = Clean
  BY <1>1 DEF Types, Clean
<1>7. mpc # "closed" /\ Clean => "exit" \notin Types(tsend')
  <2>1. mpc # "closed" /\ Clean => ~TailCtxDone
    BY DEF ExitInv, TailCtxDone, Clean, TypeOK
  <2> QED
    BY <1>1, <1>3, <2>1, TailSaid, EmptySaid
<1>8. ~(mpc' # "closed" /\ Clean' /\ "exit" \in Speaks')
  BY <1>1, <1>3, <1>6, <1>7 DEF Speaks
<1>9. OrderInv'
  <2>1. m \in 0..Len(log')
    BY <1>1
  <2> QED
    BY <1>1, <1>4, <1>5, <1>8, <2>1, ReachedNext
<1> QED
  BY <1>1, <1>9, OwnStays

\* The end of the turn that the tail does not skip is the own one's.
LEMMA OwnEnd ==
    ASSUME TypeOK, LogInv, SkipInv, PlaceInv, ReadLine, Clean,
           \/ log[tpos + 1].kind = "abort"
           \/ log[tpos + 1].kind = "end" /\ skip = 0
    PROVE  log[tpos + 1].turn = Own
<1> DEFINE p == tpos + 1
<1>1. p \in 1..Len(log) /\ p \in DOMAIN log /\ tpos \in Nat /\ p > tpos /\ tpc = "reading"
  BY PositionTypes DEF ReadLine
<1>2. log[p].turn \in {Other, Own} /\ log[p] = [turn |-> log[p].turn, kind |-> log[p].kind]
  BY <1>1, PositionTypes
<1>3. CASE log[p].kind = "abort"
  BY <1>1, <1>3 DEF LogInv
<1>4. CASE log[p].kind = "end" /\ skip = 0
  <2>1. Sent /\ Passed = tpos /\ "raced" \notin excuse
    BY <1>1 DEF PlaceInv, Sent, Passed, Clean
  <2>2. p \notin OtherEnds
    BY <1>1, <1>4, <2>1 DEF SkipInv
  <2>3. log[p] # [turn |-> Other, kind |-> "end"]
    BY <1>1, <2>2 DEF OtherEnds
  <2> QED
    BY <1>2, <1>4, <2>3
<1> QED
  BY <1>3, <1>4

\* A line is read: the tail takes it up, or ends.
LEMMA OrderReadLine ==
    ASSUME TypeOK, LogInv, SkipInv, PlaceInv, ExitInv, OrderInv, ExitIsOwn, ReadLine
    PROVE  OrderInv' /\ ExitIsOwn'
<1>1. /\ tpc = "reading" /\ tpos' = tpos + 1 /\ tpos + 1 \in 1..Len(log) /\ tpos \in Nat
      /\ UNCHANGED <<log, offset, mpc, out, tailCh, cancelled, excuse>>
  BY PositionTypes DEF ReadLine, agentVars, mergeVars
<1>2. PICK m \in 0..Len(log), n \in 0..Len(log), k \in 0..Len(log) : Reached(m, n, k)
  BY DEF OrderInv
<1>3. tsend = <<>> /\ "exit" \notin Speaks /\ m \in Nat /\ n \in Nat /\ k \in Nat
  BY <1>1, PositionTypes DEF PlaceInv, ExitInv
<1>4. Chain(out, offset, m) /\ (mpc # "closed" => Chain(tailCh, m, n) /\ n = k /\ k = tpos)
  BY <1>1, <1>2, <1>3, ChainEmpty DEF Reached
<1>5. Types(out)' = Types(out) /\ Types(tailCh)' = Types(tailCh) /\ Types(tsend)' = Types(tsend') /\ Clean' = Clean
  BY <1>1 DEF Types, Clean
<1>6. ExitIsOwn'
  BY <1>1, OwnStays
<1>7. Len(log') = Len(log) /\ DOMAIN log' = 1..Len(log) /\ Len(log) \in Nat /\ log' = log
  BY <1>1, PositionTypes
<1>8. CASE mpc = "closed"
  BY <1>1, <1>2, <1>4, <1>7, <1>8, ReachedNext, <1>6
<1>9. CASE mpc # "closed" /\ tpc' \in {"sending", "background"} /\ tsend' = <<Line(tpos + 1)>>
  <2>1. Chain(tsend', n, n + 1) /\ n + 1 \in 0..Len(log') /\ tpos' = n + 1
    <3>1. n = tpos
      BY <1>4, <1>9
    <3>2. Chain(<<Line(n + 1)>>, n, n + 1)
      BY <1>3, ChainOne
    <3>3. tsend' = <<Line(n + 1)>>
      BY <1>9, <3>1
    <3> QED
      BY <1>1, <1>7, <3>1, <3>2, <3>3
  <2>2. "exit" \notin Speaks'
    <3>1. tpos + 1 \in Nat
      BY <1>1
    <3>2. Types(<<Line(tpos + 1)>>) = {"line"}
      BY <3>1, TailSaid
    <3>3. Types(tsend') = {"line"}
      BY <1>9, <3>2
    <3> QED
      BY <3>3, <1>3, <1>5 DEF Speaks
  <2>3. OrderInv'
    BY <1>1, <1>4, <1>7, <1>9, <2>1, <2>2, ReachedNext
  <2> QED
    BY <1>6, <2>3
<1>10. CASE mpc # "closed" /\ tpc' = "closing"
  <2>1. \/ log[tpos + 1].kind = "end" /\ skip = 0 /\ tsend' = <<Event("exit")>>
        \/ log[tpos + 1].kind = "abort" /\ tsend' = <<Line(tpos + 1), Event("error"), Event("exit")>>
    BY <1>10, ReadCases DEF Then
  <2>2. PICK j \in {n, n + 1} : Chain(tsend', n, j)
    BY <1>3, <1>4, <1>10, <2>1, ChainOne
  <2>3. j \in 0..Len(log') /\ tpos' \in DOMAIN log' /\ tpos' <= j + 1
    BY <1>1, <1>3, <1>4, <1>7, <1>10
  <2>4. Clean' => log'[tpos'].turn = Own /\ log'[tpos'].kind \in {"end", "abort"}
    BY <1>1, <1>5, <1>7, <2>1, OwnEnd
  <2>5. OrderInv'
    BY <1>1, <1>4, <1>7, <1>10, <2>2, <2>3, <2>4, ReachedNext
  <2> QED
    BY <1>6, <2>5
<1> QED
  BY <1>8, <1>9, <1>10, ReadCases DEF Then


\* A cancelled tail, or one that cannot read, ends: the line it held is dropped.
LEMMA OrderCancelled ==
    ASSUME TypeOK, PlaceInv, ExitInv, OrderInv, ExitIsOwn, TailCancelled \/ ReadError
    PROVE  OrderInv' /\ ExitIsOwn'
<1>1. /\ tpc \in {"sending", "reading"} /\ tpc' = "closing"
      /\ UNCHANGED <<log, offset, mpc, out, tailGone, tailCh, cancelled, tpos>> /\ excuse \subseteq excuse'
      /\ \/ tsend' = <<Event("exit")>>
         \/ tsend' = <<Event("error"), Event("exit")>>
      /\ (TailCtxDone /\ excuse' = excuse) \/ excuse' # {}
  BY DEF TailCancelled, ReadError, Then, agentVars, mergeVars
<1>2. PICK m \in 0..Len(log), n \in 0..Len(log), k \in 0..Len(log) : Reached(m, n, k)
  BY DEF OrderInv
<1>3. Chain(<<Event("exit")>>, n, n) /\ Chain(<<Event("error"), Event("exit")>>, n, n)
  <2>1. n \in Nat
    BY PositionTypes
  <2> QED
    BY <2>1, ChainOne
<1>4. Chain(tsend', n, n)
  BY <1>1, <1>3
<1>5. ~(mpc' # "closed" /\ Clean')
  BY <1>1 DEF ExitInv, TailCtxDone, Clean, TypeOK
<1>6. OrderInv'
  <2>1. m \in 0..Len(log') /\ n \in 0..Len(log')
    BY <1>1
  <2>2. Chain(out', offset', m) /\ (mpc' # "closed" => Chain(tailCh', m, n))
    BY <1>1, <1>2 DEF Reached
  <2> QED
    BY <1>1, <1>4, <1>5, <2>1, <2>2, ReachedNext
<1> QED
  BY <1>1, <1>6, OwnStays

\* The head of what the tail holds goes to the end of its channel.
LEMMA OrderTailSend ==
    ASSUME TypeOK, PlaceInv, OrderInv, ExitIsOwn, TailSend
    PROVE  OrderInv' /\ ExitIsOwn'
<1> DEFINE h == Head(tsend)
<1>1. /\ tsend # <<>> /\ tsend' = Tail(tsend) /\ tailCh' = Append(tailCh, h)
      /\ tsend \in Seq(EventType) /\ tailCh \in Seq(EventType)
      /\ UNCHANGED <<log, offset, mpc, out, tailGone, cancelled, excuse, tpos>>
      /\ tpc' = IF tpc \in {"sending", "background"} THEN "reading" ELSE tpc
  BY DEF TailSend, agentVars, mergeVars, TypeOK
<1>2. /\ Types(tsend) = Types(Tail(tsend)) \cup {h.type} /\ h \in EventType
      /\ Types(Append(tailCh, h)) = Types(tailCh) \cup {h.type}
  BY <1>1, TakenSaid, EventTaken, AppendedSaid
<1>3. tpc \in {"sending", "background", "closing"}
  BY <1>1 DEF PlaceInv, TypeOK
<1>4. PICK m \in 0..Len(log), n \in 0..Len(log), k \in 0..Len(log) : Reached(m, n, k)
  BY DEF OrderInv
<1>5. m \in Nat /\ n \in Nat /\ k \in Nat /\ Len(log) \in Nat
  BY PositionTypes
<1>6. Speaks' = Speaks /\ Clean' = Clean
  <2>1. Types(out)' = Types(out) /\ Types(tailCh)' = Types(tailCh') /\ Types(tsend)' = Types(tsend')
    BY <1>1 DEF Types
  <2> QED
    BY <1>1, <1>2, <2>1 DEF Speaks, Clean
<1>7. m \in 0..Len(log') /\ n \in 0..Len(log') /\ k \in 0..Len(log') /\ Chain(out', offset', m)
  BY <1>1, <1>4 DEF Reached
<1> HIDE DEF h
<1>8. PICK j \in 0..Len(log') : mpc # "closed" => Chain(tailCh', m, j) /\ Chain(tsend', j, k)
  <2>1. CASE mpc = "closed"
    BY <2>1, <1>7
  <2>2. CASE mpc # "closed" /\ h.type = "line"
    <3>1. Chain(tailCh, m, n) /\ Chain(tsend, n, k)
      BY <1>4, <2>2 DEF Reached
    <3>2. h.line = n + 1 /\ n + 1 <= k /\ Chain(tsend', n + 1, k)
      BY <1>1, <1>5, <2>2, <3>1, ChainTaken DEF h
    <3>3. h = Line(n + 1)
      BY <1>2, <2>2, <3>2, LineIs
    <3>4. Chain(tailCh', m, n + 1)
      BY <1>1, <1>5, <3>1, <3>3, ChainLine
    <3>5. n + 1 \in 0..Len(log')
      BY <1>5, <1>7, <3>2
    <3> QED
      BY <3>2, <3>4, <3>5
  <2>3. CASE mpc # "closed" /\ h.type # "line"
    <3>1. Chain(tailCh, m, n) /\ Chain(tsend, n, k)
      BY <1>4, <2>3 DEF Reached
    <3>2. Chain(tsend', n, k)
      BY <1>1, <1>5, <2>3, <3>1, ChainTaken DEF h
    <3>3. Chain(tailCh', m, n)
      BY <1>1, <1>2, <2>3, <3>1, ChainOther
    <3> QED
      BY <3>2, <3>3, <1>7
  <2> QED
    BY <2>1, <2>2, <2>3
<1>9. /\ mpc' # "closed" => /\ tpc' \in {"none", "opening"} => k = offset'
                            /\ tpc' \in {"reading", "sending", "background"} => k = tpos'
      /\ mpc' # "closed" /\ Clean' /\ "exit" \in Speaks' =>
             /\ tpos' \in DOMAIN log' /\ tpos' <= k + 1
             /\ log'[tpos'].turn = Own /\ log'[tpos'].kind \in {"end", "abort"}
  BY <1>1, <1>3, <1>4, <1>6 DEF Reached
<1>10. OrderInv'
  <2>1. mpc' = mpc
    BY <1>1
  <2> HIDE DEF OrderInv
  <2> QED
    BY <1>7, <1>8, <1>9, <2>1, ReachedNext
<1> QED
  BY <1>1, <1>10, OwnStays

\* The merge reads the head of the tail's channel: the next line, or the exit when all
\* lines before the own turn's end were read.
LEMMA OrderRead ==
    ASSUME TypeOK, PlaceInv, ExitInv, OrderInv, ExitIsOwn, TailEvent
    PROVE  OrderInv' /\ ExitIsOwn'
<1> DEFINE h == Head(tailCh)
<1>1. /\ tailCh # <<>> /\ tailCh' = Tail(tailCh) /\ tailCh \in Seq(EventType) /\ out \in Seq(EventType)
      /\ mpc # "closed" /\ UNCHANGED <<log, offset, tsend, tpc, tpos, cancelled, excuse>>
      /\ \/ out' = Append(out, h) /\ mpc' = mpc
         \/ cancelled /\ mpc' = "closed" /\ out' = out
  BY DEF TailEvent, SendEvent, Deliver, agentVars, TypeOK
<1>2. /\ Types(tailCh) = Types(Tail(tailCh)) \cup {h.type} /\ h \in EventType
      /\ Types(Append(out, h)) = Types(out) \cup {h.type}
      /\ h.type = "exit" => Tail(tailCh) = <<>>
  BY <1>1, TakenSaid, EventTaken, AppendedSaid, ExitTaken DEF ExitInv
<1>3. "exit" \notin Types(out)
  BY <1>1 DEF ExitInv
<1>4. PICK m \in 0..Len(log), n \in 0..Len(log), k \in 0..Len(log) : Reached(m, n, k)
  BY DEF OrderInv
<1>5. m \in Nat /\ n \in Nat /\ k \in Nat /\ Len(log) \in Nat /\ offset \in Nat /\ tpos \in Nat
  BY PositionTypes
<1>6. Chain(out, offset, m) /\ Chain(tailCh, m, n) /\ Chain(tsend, n, k)
  BY <1>1, <1>4 DEF Reached
<1>7. m \in 0..Len(log') /\ n \in 0..Len(log') /\ k \in 0..Len(log')
  BY <1>1
<1>8. /\ Types(out)' = Types(out') /\ Types(tailCh)' = Types(tailCh') /\ Types(tsend)' = Types(tsend)
      /\ Clean' = Clean
  BY <1>1 DEF Types, Clean
<1> HIDE DEF h
<1>9. CASE cancelled /\ mpc' = "closed" /\ out' = out
  <2>1. OrderInv'
    BY <1>1, <1>6, <1>7, <1>9, ReachedNext
  <2> QED
    BY <1>1, <1>9, <2>1 DEF ExitIsOwn
<1>10. CASE out' = Append(out, h) /\ mpc' = mpc
  <2>1. Speaks' = Speaks
    BY <1>1, <1>2, <1>8, <1>10 DEF Speaks, h
  <2>2. /\ tpc' \in {"none", "opening"} => k = offset'
        /\ tpc' \in {"reading", "sending", "background"} => k = tpos'
        /\ Clean' /\ "exit" \in Speaks' =>
             /\ tpos' \in DOMAIN log' /\ tpos' <= k + 1
             /\ log'[tpos'].turn = Own /\ log'[tpos'].kind \in {"end", "abort"}
    BY <1>1, <1>4, <1>8, <2>1 DEF Reached
  <2>3. Chain(tsend', n, k)
    BY <1>1, <1>6
  <2>4. CASE h.type = "line"
    <3>1. h.line = m + 1 /\ m + 1 <= n /\ Chain(tailCh', m + 1, n)
      BY <1>1, <1>5, <1>6, <2>4, ChainTaken DEF h
    <3>2. h = Line(m + 1)
      BY <1>2, <2>4, <3>1, LineIs
    <3>3. Chain(out', offset', m + 1)
      BY <1>1, <1>5, <1>6, <1>10, <3>2, ChainLine
    <3>4. m + 1 \in 0..Len(log')
      BY <1>5, <1>7, <3>1
    <3>5. OrderInv'
      BY <1>7, <2>2, <2>3, <3>1, <3>3, <3>4, ReachedNext
    <3>6. "exit" \notin Types(out)'
      BY <1>2, <1>3, <1>8, <1>10, <2>4
    <3> QED
      BY <3>5, <3>6 DEF ExitIsOwn
  <2>5. CASE h.type # "line"
    <3>1. Chain(tailCh', m, n)
      BY <1>1, <1>5, <1>6, <2>5, ChainTaken DEF h
    <3>2. Chain(out', offset', m)
      BY <1>1, <1>2, <1>6, <1>10, <2>5, ChainOther
    <3>3. OrderInv'
      BY <1>7, <2>2, <2>3, <3>1, <3>2, ReachedNext
    <3>4. ASSUME h.type = "exit", Clean PROVE EndReached'
      <4>1. tailCh' = <<>> /\ "exit" \in Types(tailCh)
        BY <1>1, <1>2, <3>4 DEF h
      <4>2. tsend = <<>> /\ "exit" \in Speaks
        BY <4>1 DEF ExitInv, Speaks
      <4>3. m = n /\ n = k
        BY <4>1, <4>2, <3>1, <1>5, <1>6, ChainEmpty
      <4>4. /\ tpos \in DOMAIN log /\ tpos <= m + 1
            /\ log[tpos].turn = Own /\ log[tpos].kind \in {"end", "abort"}
        BY <1>1, <1>4, <3>4, <4>2, <4>3 DEF Reached
      <4>5. LinesOf(out') = (offset + 1)..m
        BY <1>1, <3>2 DEF Chain
      <4>6. (offset + 1)..(tpos - 1) \subseteq (offset + 1)..m
        BY <1>5, <4>4
      <4>7. LinesOf(out)' = LinesOf(out')
        BY DEF LinesOf
      <4> QED
        BY <1>1, <4>4, <4>5, <4>6, <4>7 DEF EndReached
    <3>5. "exit" \in Types(out)' => h.type = "exit"
      BY <1>2, <1>3, <1>8, <1>10
    <3> QED
      BY <1>8, <3>3, <3>4, <3>5 DEF ExitIsOwn, Clean
  <2> QED
    BY <2>4, <2>5
<1> QED
  BY <1>1, <1>9, <1>10

\* Every step keeps the lines in order, and the exit that of the own turn.
LEMMA OrderSteps ==
    ASSUME TypeOK, TypeOK', LogInv, SkipInv, PlaceInv, ExitInv, OrderInv, ExitIsOwn, Next
    PROVE  OrderInv' /\ ExitIsOwn'
<1>1. CASE Agent \/ Reader \/ RemoveFile \/ Cancel
  BY <1>1, OrderAgent
<1>2. CASE Stat
  BY <1>2, OrderStat
<1>3. CASE Started
  <2>1. /\ out' = Append(out, Event("started")) \/ out' = out
        /\ mpc # "closed" /\ UNCHANGED <<log, offset, tailCh, tsend, tpos, cancelled, excuse, tpc>>
    BY <1>3 DEF Started, SendEvent, Deliver, agentVars, tailVars
  <2> QED
    BY <2>1, EventTypes, OrderMergeSpeaks
<1>4. CASE Delta
  <2>1. /\ out' = Append(out, Event("delta")) \/ out' = out
        /\ mpc # "closed" /\ UNCHANGED <<log, offset, tailCh, tsend, tpos, cancelled, excuse, tpc>>
    BY <1>4 DEF Delta, SendEvent, Deliver, agentVars, tailVars
  <2> QED
    BY <2>1, EventTypes, OrderMergeSpeaks
<1>5. CASE NotLocated \/ Result
  <2>1. /\ out' = Append(out, Event("error")) \/ out' = out
        /\ mpc # "closed" /\ UNCHANGED <<log, offset, tailCh, tsend, tpos, cancelled, excuse, tpc>>
    BY <1>5 DEF NotLocated, Result, Report, SendEvent, Deliver, agentVars, tailVars
  <2> QED
    BY <2>1, EventTypes, OrderMergeSpeaks
<1>6. CASE TailEvent
  BY <1>6, OrderRead
<1>7. CASE Send \/ Locate \/ LogBackstop \/ DrainTimeout \/ Drained \/ MergeCancelled \/ TailClose
  <2>1. /\ UNCHANGED <<log, offset, out, tailCh, tsend, tpos, cancelled>> /\ excuse \subseteq excuse'
        /\ mpc' = "closed" \/ mpc # "closed" \/ mpc' = mpc
    BY <1>7 DEF Send, Locate, LogBackstop, DrainTimeout, Drained, MergeCancelled, TailClose, Close,
                agentVars, mergeVars, tailVars
  <2>2. \/ tpc' = tpc
        \/ tpc = "none" /\ tpc' = "opening"
        \/ tpc = "closing" /\ tpc' = "closed"
    <3>1. CASE Locate
      BY <3>1 DEF Locate, PlaceInv
    <3>2. CASE TailClose
      BY <3>2 DEF TailClose
    <3>3. CASE Send \/ LogBackstop \/ DrainTimeout \/ Drained \/ MergeCancelled
      BY <3>3 DEF Send, LogBackstop, DrainTimeout, Drained, MergeCancelled, tailVars
    <3> QED
      BY <1>7, <3>1, <3>2, <3>3
  <2> QED
    BY <2>1, <2>2, OrderSilent
<1>8. CASE Open
  BY <1>8, OrderOpen
<1>9. CASE ReadLine
  BY <1>9, OrderReadLine
<1>10. CASE TailCancelled \/ ReadError
  BY <1>10, OrderCancelled
<1>11. CASE TailSend
  BY <1>11, OrderTailSend
<1> QED
  BY <1>1, <1>2, <1>3, <1>4, <1>5, <1>6, <1>7, <1>8, <1>9, <1>10, <1>11 DEF Next, Merge, TailStep


-----------------------------------------------------------------------------
(* The theorems.                                                           *)

\* A stream starts with nothing said and nothing read.
LEMMA StreamStarts == Init => StreamInv
<1> SUFFICES ASSUME Init PROVE StreamInv
  OBVIOUS
<1>1. /\ log = <<>> /\ out = <<>> /\ tailCh = <<>> /\ tsend = <<>> /\ pipe = <<>>
      /\ done = "none" /\ offset = 0 /\ tpos = 0 /\ skip = 0 /\ mpc = "stat" /\ tpc = "none"
      /\ excuse = {} /\ cancelled = FALSE /\ tailGone = FALSE /\ file = resume /\ resume \in Resumes /\ ahead \in Aheads
      /\ agent = [turn |-> IF ahead THEN Other ELSE Own, parts |-> 0, said |-> {}]
      /\ turns = IF ahead THEN <<Other>> ELSE <<>>
  BY DEF Init
<1>2. ahead \in BOOLEAN /\ resume \in BOOLEAN
  BY <1>1
<1>3. agent.turn = (IF ahead THEN Other ELSE Own) /\ agent.said = {} /\ agent.parts = 0
  BY <1>1
<1>4. DOMAIN log = {} /\ DOMAIN out = {} /\ Len(log) = 0 /\ Len(tailCh) = 0
  BY <1>1
<1>5. Types(out) = {} /\ Types(tailCh) = {} /\ Types(tsend) = {} /\ LinesOf(out) = {}
  BY <1>1, EmptySaid
<1>6. TypeOK
  <2>1. agent \in [turn : {Other, Own}, parts : 0..MaxParts, said : SUBSET {"end", "result"}]
    <3>1. 0 \in 0..MaxParts
      OBVIOUS
    <3> QED
      BY <1>1, <3>1
  <2>2. {pipe, turns} \subseteq Seq({Other, Own}) /\ log \in Seq([turn : {Other, Own}, kind : {"part", "end", "abort"}])
    <3>1. \A S : <<>> \in Seq(S)
      OBVIOUS
    <3>2. <<Other>> \in Seq({Other, Own})
      OBVIOUS
    <3> QED
      BY <1>1, <3>1, <3>2
  <2>3. {out, tsend, tailCh} \subseteq Seq(EventType)
    BY <1>1, EmptySaid
  <2>4. {offset, tpos} \subseteq 0..Len(log) /\ Len(tailCh) <= TailCap /\ skip \in 0..1
    BY <1>1, <1>4
  <2> QED
    BY <1>1, <1>2, <2>1, <2>2, <2>3, <2>4 DEF TypeOK
<1>7. TurnsInv
  <2>1. ~Sent
    BY <1>1 DEF Sent
  <2> QED
    BY <1>1, <1>2, <1>3, <2>1 DEF TurnsInv, OwnAwaited, BothAwaited
<1>8. LogInv /\ SkipInv
  <2>1. OtherEnds = {} /\ ~Sent
    BY <1>1, <1>4 DEF OtherEnds, Sent
  <2> QED
    BY <1>4, <2>1 DEF LogInv, SkipInv
<1>9. PlaceInv
  BY <1>1 DEF PlaceInv
<1>10. ExitInv
  <2>1. ExitLast(tailCh) /\ ExitLast(tsend)
    BY <1>1 DEF ExitLast
  <2> QED
    BY <1>1, <1>5, <2>1 DEF ExitInv, Speaks
<1>11. OrderInv
  <2>1. Chain(out, 0, 0) /\ Chain(tailCh, 0, 0) /\ Chain(tsend, 0, 0)
    BY <1>1, ChainEmpty
  <2>2. Reached(0, 0, 0)
    BY <1>1, <1>5, <2>1 DEF Reached, Speaks
  <2>3. 0 \in 0..Len(log)
    BY <1>4
  <2> QED
    BY <2>2, <2>3 DEF OrderInv
<1>12. SpokenClose /\ ExitEndsContent /\ ExitIsOwn
  BY <1>1, <1>4, <1>5 DEF SpokenClose, ExitEndsContent, ExitIsOwn
<1> QED
  BY <1>6, <1>7, <1>8, <1>9, <1>10, <1>11, <1>12 DEF StreamInv

\* Every step of a stream keeps all of it.
LEMMA StreamSteps == StreamInv /\ Next => StreamInv'
<1> SUFFICES ASSUME StreamInv, Next PROVE StreamInv'
  OBVIOUS
<1>1. /\ TypeOK /\ TurnsInv /\ LogInv /\ SkipInv /\ PlaceInv /\ ExitInv /\ OrderInv
      /\ SpokenClose /\ ExitEndsContent /\ ExitIsOwn
  BY DEF StreamInv
<1>2. TypeOK'
  <2>1. CASE Agent \/ Reader \/ RemoveFile \/ Cancel
    BY <2>1, <1>1, AgentTypes
  <2>2. CASE Merge
    BY <2>2, <1>1, MergeTypes
  <2>3. CASE TailStep \/ ReadError
    BY <2>3, <1>1, TailTypes
  <2> QED
    BY <2>1, <2>2, <2>3 DEF Next
<1>3. TurnsInv'
  <2>1. CASE Agent \/ Reader \/ RemoveFile \/ Cancel
    BY <2>1, <1>1, <1>2, AgentTurns
  <2>2. CASE Merge \/ TailStep \/ ReadError
    BY <2>2, <1>1, <1>2, StreamTurns
  <2> QED
    BY <2>1, <2>2 DEF Next
<1>4. LogInv' /\ SkipInv' /\ PlaceInv'
  BY <1>1, LogSteps, SkipSteps, PlaceSteps
<1>5. ExitInv' /\ ExitEndsContent' /\ SpokenClose'
  BY <1>1, ExitSteps
<1>6. OrderInv' /\ ExitIsOwn'
  BY <1>1, <1>2, OrderSteps
<1> QED
  BY <1>2, <1>3, <1>4, <1>5, <1>6 DEF StreamInv

\* A stream that stands still keeps it too.
LEMMA StreamStands == StreamInv /\ UNCHANGED vars => StreamInv'
<1> SUFFICES ASSUME StreamInv, UNCHANGED vars PROVE StreamInv'
  OBVIOUS
<1> USE DEF StreamInv, vars, given, agentVars, mergeVars, tailVars
<1>1. TypeOK'
  BY DEF TypeOK
<1>2. TurnsInv' /\ LogInv' /\ SkipInv' /\ PlaceInv'
  BY DEF TurnsInv, LogInv, SkipInv, PlaceInv, OwnAwaited, BothAwaited, Sent, OtherEnds, Passed
<1>3. Types(out)' = Types(out) /\ Speaks' = Speaks /\ Clean' = Clean
  BY DEF Types, Speaks, Clean
<1>4. ExitInv'
  BY <1>3 DEF ExitInv, ExitLast
<1>5. OrderInv'
  BY <1>3 DEF OrderInv, Reached, Chain, LinesOf
<1>6. SpokenClose' /\ ExitEndsContent'
  BY <1>3 DEF SpokenClose, ExitEndsContent
<1>7. ExitIsOwn'
  BY OwnStays
<1> QED
  BY <1>1, <1>2, <1>4, <1>5, <1>6, <1>7

\* Lines in a chain are delivered whole and in order.
LEMMA ChainedInOrder == StreamInv => LogInOrder
<1> SUFFICES ASSUME StreamInv PROVE LogInOrder
  OBVIOUS
<1>1. PICK m \in 0..Len(log) : Chain(out, offset, m)
  BY DEF StreamInv, OrderInv, Reached
<1>2. offset \in Nat /\ m \in Nat /\ out \in Seq(EventType)
  BY PositionTypes DEF StreamInv, TypeOK
<1>3. DOMAIN out = 1..Len(out) /\ Len(out) \in Nat
  BY <1>2, SeqElements
<1>4. SUFFICES ASSUME NEW j \in DOMAIN out, out[j].type = "line"
      PROVE  /\ offset < out[j].line
             /\ \A i \in 1..(j - 1) : out[i].type = "line" => out[i].line < out[j].line
             /\ (offset + 1)..out[j].line \subseteq LinesOf(out)
  BY DEF LogInOrder
<1>5. out[j].line \in LinesOf(out)
  BY <1>4 DEF LinesOf
<1>6. LinesOf(out) = (offset + 1)..m
  BY <1>1 DEF Chain
<1>7. out[j].line \in (offset + 1)..m
  BY <1>5, <1>6
<1>8. offset < out[j].line /\ (offset + 1)..out[j].line \subseteq (offset + 1)..m
  BY <1>2, <1>7
<1>9. ASSUME NEW i \in 1..(j - 1), out[i].type = "line" PROVE out[i].line < out[j].line
  <2>1. i \in DOMAIN out /\ i < j
    BY <1>3, <1>4
  <2> QED
    BY <2>1, <1>1, <1>4, <1>9 DEF Chain
<1> QED
  BY <1>6, <1>8, <1>9

\* The invariant of the stream holds in every behaviour of TurnStream: who is awaited,
\* what is skipped, and the chain of lines from the log to the consumer.
THEOREM StreamInvariant == Spec => []StreamInv
<1>1. StreamInv /\ [Next]_vars => StreamInv'
  BY StreamSteps, StreamStands
<1> QED
  BY StreamStarts, <1>1, PTL DEF Spec

\* The stream of a turn is the turn's log (tail.go, merge.go): whole, in order, no
\* content behind the exit, the exit the own turn's, and a close that is spoken.
THEOREM StreamIsTheLog == LogsSpec => []StreamIsTheTurn
<1>1. LogsInit => StreamInv
  BY StreamStarts DEF LogsInit
<1>2. StreamInv /\ [LogsNext]_logsVars => StreamInv'
  <2> SUFFICES ASSUME StreamInv, [LogsNext]_logsVars PROVE StreamInv'
    OBVIOUS
  <2>1. CASE StreamStep
    BY <2>1, StreamSteps DEF StreamStep
  <2>2. CASE ClaudeStep \/ CodexStep \/ RoleStep \/ DshStep \/ PageStep
    <3>1. UNCHANGED vars
      BY <2>2 DEF ClaudeStep, CodexStep, RoleStep, DshStep, PageStep
    <3> QED
      BY <3>1, StreamStands
  <2>3. CASE UNCHANGED logsVars
    <3>1. UNCHANGED vars
      BY <2>3 DEF logsVars
    <3> QED
      BY <3>1, StreamStands
  <2> QED
    BY <2>1, <2>2, <2>3 DEF LogsNext
<1>3. StreamInv => StreamIsTheTurn
  BY ChainedInOrder DEF StreamIsTheTurn, StreamInv
<1> QED
  BY <1>1, <1>2, <1>3, PTL DEF LogsSpec

HIDE StreamAssumption DEF Own, Other

-----------------------------------------------------------------------------
(* The assembler of a Claude log (ClaudeLog).                              *)

PartSet == [type : {"text", "thinking", "tool"}, id : Seq(Tools), body : Seq(Nat), at : Nat]
AsmRecord == [open : BOOLEAN, parts : Seq(PartSet), uuid : Nat, usage : Nat, pending : [Tools -> Nat]]
AsmSet == {a \in AsmRecord : ~a.open => a.parts = <<>>}
TurnSet == [role : {"assistant", "user", "system"}, parts : Seq(PartSet), uuid : Nat, usage : Nat]

\* The lines an agent writes.
AgentLine(l) ==
    /\ l.kind = "say" => l.uses \in Seq(Tools) /\ l.blocks \in Seq({"text", "thinking"})
    /\ l.kind \in {"result", "blank", "skill"} => l.id \in Tools

\* The parts q are p with parts of line n behind them that show nothing yet, at most m.
Grown(p, q, m, n) ==
    /\ p \in Seq(PartSet) /\ q \in Seq(PartSet)
    /\ Len(p) <= Len(q) /\ Len(q) <= Len(p) + m
    /\ \A i \in 1..Len(p) : q[i] = p[i]
    /\ \A i \in 1..Len(q) : i > Len(p) => q[i].body = <<>> /\ q[i].at = n

\* One more such part.
LEMMA GrownOne ==
    ASSUME NEW p, NEW q, NEW r, NEW m \in Nat, NEW n \in Nat, NEW c \in PartSet, Grown(p, q, m, n),
           r = q \/ (r = Append(q, c) /\ c.body = <<>> /\ c.at = n)
    PROVE  Grown(p, r, m + 1, n)
<1>1. p \in Seq(PartSet) /\ q \in Seq(PartSet) /\ Len(p) \in Nat /\ Len(q) \in Nat
  BY DEF Grown
<1>2. Len(p) <= Len(q) /\ Len(q) <= Len(p) + m
  BY DEF Grown
<1>3. /\ \A i \in 1..Len(p) : q[i] = p[i]
      /\ \A i \in 1..Len(q) : i > Len(p) => q[i].body = <<>> /\ q[i].at = n
  BY DEF Grown
<1>4. CASE r = q
  <2>1. Len(q) <= Len(p) + (m + 1)
    BY <1>1, <1>2
  <2> QED
    BY <1>1, <1>2, <1>3, <1>4, <2>1 DEF Grown
<1>5. CASE r = Append(q, c) /\ c.body = <<>> /\ c.at = n
  <2>1. r \in Seq(PartSet) /\ Len(r) = Len(q) + 1 /\ r[Len(q) + 1] = c /\ \A j \in 1..Len(q) : r[j] = q[j]
    BY <1>1, <1>5
  <2>2. Len(p) <= Len(r) /\ Len(r) <= Len(p) + (m + 1)
    BY <1>1, <1>2, <2>1
  <2>3. \A j \in 1..Len(p) : r[j] = p[j]
    BY <1>1, <1>2, <1>3, <2>1
  <2>4. ASSUME NEW j \in 1..Len(r), j > Len(p) PROVE r[j].body = <<>> /\ r[j].at = n
    <3>1. j \in 1..Len(q) \/ j = Len(q) + 1
      BY <1>1, <2>1
    <3> QED
      BY <1>3, <1>5, <2>1, <2>4, <3>1
  <2> QED
    BY <1>1, <2>1, <2>2, <2>3, <2>4 DEF Grown
<1> QED
  BY <1>4, <1>5

\* The fields of an assembler.
LEMMA AsmMade ==
    ASSUME NEW o \in BOOLEAN, NEW p \in Seq(PartSet), NEW u \in Nat, NEW g \in Nat, NEW q \in [Tools -> Nat],
           ~o => p = <<>>
    PROVE  [open |-> o, parts |-> p, uuid |-> u, usage |-> g, pending |-> q] \in AsmSet
BY DEF AsmSet, AsmRecord

\* A card for a call that has none.
LEMMA CardAdded ==
    ASSUME NEW a \in AsmSet, a.open, NEW t \in Tools, NEW n \in Nat
    PROVE  /\ Claude!AddCard(a, t, n) \in AsmSet /\ Claude!AddCard(a, t, n).open
           /\ \/ Claude!AddCard(a, t, n).parts = a.parts
              \/ Claude!AddCard(a, t, n).parts = Append(a.parts, Claude!Card(t, n))
<1>1. CASE a.pending[t] # 0
  BY <1>1 DEF Claude!AddCard
<1>2. CASE a.pending[t] = 0
  <2>1. PICK p : p = Claude!Card(t, n)
    OBVIOUS
  <2>2. p \in PartSet
    BY <2>1 DEF Claude!Card, Claude!Part, PartSet
  <2>3. PICK b : b = [a EXCEPT !.parts = Append(@, p), !.pending[t] = Len(a.parts) + 1]
    OBVIOUS
  <2>4. Claude!AddCard(a, t, n) = b
    BY <1>2, <2>1, <2>3 DEF Claude!AddCard
  <2>5. a \in AsmRecord /\ a.parts \in Seq(PartSet) /\ Len(a.parts) \in Nat
    BY DEF AsmSet, AsmRecord
  <2>6. b.parts = Append(a.parts, p) /\ b.open = a.open
    BY <2>3, <2>5 DEF AsmRecord
  <2>7. b.parts \in Seq(PartSet)
    BY <2>2, <2>5, <2>6
  <2>8. b.pending = [a.pending EXCEPT ![t] = Len(a.parts) + 1]
    BY <2>3, <2>5 DEF AsmRecord
  <2>9. b.pending \in [Tools -> Nat]
    BY <2>5, <2>8 DEF AsmRecord
  <2>10. b = [open |-> a.open, parts |-> b.parts, uuid |-> a.uuid, usage |-> a.usage, pending |-> b.pending]
    BY <2>3, <2>5 DEF AsmRecord
  <2>11. a.open \in BOOLEAN /\ a.uuid \in Nat /\ a.usage \in Nat
    BY <2>5 DEF AsmRecord
  <2>13. b \in AsmSet
    <3> HIDE DEF AsmSet
    <3> QED
      BY <2>7, <2>9, <2>10, <2>11, AsmMade
  <2> QED
    BY <2>1, <2>4, <2>6, <2>13
<1> QED
  BY <1>1, <1>2

\* The cards of a line's calls stand behind what was there, one of a call at most.
LEMMA CardsAdded ==
    ASSUME NEW a \in AsmSet, a.open, NEW uses \in Seq(Tools), NEW n \in Nat
    PROVE  LET c == Claude!AddCards(a, uses, n) IN
           c \in AsmSet /\ c.open /\ Grown(a.parts, c.parts, Len(uses), n)
<1> DEFINE T == {x \in AsmSet : x.open}
           m == Len(uses)
           next == [i \in Nat |-> [x \in T |-> IF i \in 1..m THEN Claude!AddCard(x, uses[i], n) ELSE x]]
<1>1. m \in Nat /\ \A i \in 1..m : uses[i] \in Tools
  OBVIOUS
<1>2. next \in [Nat -> [T -> T]]
  BY <1>1, CardAdded
<1>3. a \in T
  OBVIOUS
<1>4. PICK f \in [0..m -> T] : \A i \in 0..m : f[i] = IF i < 1 THEN a ELSE next[i][f[i - 1]]
  <2>1. PICK k \in Nat \ {0} : k = 1
    OBVIOUS
  <2>2. m \in Nat
    BY <1>1
  <2> HIDE DEF T, next, m
  <2>3. \E f : Made(f, T, a, next, k, m)
    BY <1>2, <1>3, <2>2, Recursion
  <2> QED
    BY <2>1, <2>3 DEF Made
<1>5. f = [i \in 0..m |-> IF i = 0 THEN a ELSE Claude!AddCard(f[i - 1], uses[i], n)]
  <2>1. ASSUME NEW i \in 0..m PROVE f[i] = IF i = 0 THEN a ELSE Claude!AddCard(f[i - 1], uses[i], n)
    <3>1. CASE i = 0
      <4> HIDE DEF T, next, m
      <4>1. i < 1
        BY <3>1
      <4> QED
        BY <1>4, <3>1, <4>1
    <3>2. CASE i # 0
      <4>1. i \in 1..m /\ i \in Nat /\ i - 1 \in 0..m /\ ~(i < 1) /\ i \in 0..m
        BY <1>1, <3>2
      <4>2. f[i - 1] \in T
        BY <4>1, <1>4
      <4>3. next[i][f[i - 1]] = Claude!AddCard(f[i - 1], uses[i], n)
        BY <4>1, <4>2
      <4>4. f[i] = next[i][f[i - 1]]
        <5> HIDE DEF next
        <5> QED
          BY <4>1, <1>4
      <4> QED
        BY <3>2, <4>3, <4>4
    <3> QED
      BY <3>1, <3>2
  <2>2. f = [i \in 0..m |-> f[i]]
    BY <1>4
  <2> QED
    BY <2>1, <2>2
<1>6. PICK g : g = CHOOSE h : h = [i \in 0..m |-> IF i = 0 THEN a ELSE Claude!AddCard(h[i - 1], uses[i], n)]
  OBVIOUS
<1>7. g = [i \in 0..m |-> IF i = 0 THEN a ELSE Claude!AddCard(g[i - 1], uses[i], n)]
  BY <1>5, <1>6
<1>8. Claude!AddCards(a, uses, n) = g[m]
  BY <1>6 DEF Claude!AddCards
<1> HIDE DEF next, m
<1> DEFINE Good(x, i) == x \in AsmSet /\ x.open /\ Grown(a.parts, x.parts, i, n)
           S == {i \in Nat : i <= m => Good(g[i], i)}
<1>9. 0 \in S
  <2>1. g[0] = a
    BY <1>1, <1>7
  <2>2. Len(a.parts) \in Nat /\ a.parts \in Seq(PartSet)
    BY DEF AsmSet, AsmRecord
  <2>3. Grown(a.parts, a.parts, 0, n)
    BY <2>2 DEF Grown
  <2> QED
    BY <2>1, <2>3
<1>10. ASSUME NEW i \in Nat, i \in S PROVE i + 1 \in S
  <2> SUFFICES ASSUME i + 1 <= m PROVE Good(g[i + 1], i + 1)
    OBVIOUS
  <2>1. i <= m /\ i + 1 \in 1..m /\ i + 1 \in 0..m /\ i + 1 # 0 /\ (i + 1) - 1 = i
    BY <1>1
  <2>2. Good(g[i], i)
    BY <2>1, <1>10
  <2>3. g[i + 1] = Claude!AddCard(g[i], uses[i + 1], n) /\ uses[i + 1] \in Tools
    BY <1>1, <1>7, <2>1 DEF m
  <2>4. PICK x, y, t, c : x = g[i] /\ y = g[i + 1] /\ t = uses[i + 1] /\ c = Claude!Card(t, n)
    OBVIOUS
  <2> HIDE DEF S
  <2>5. x \in AsmSet /\ x.open /\ Grown(a.parts, x.parts, i, n) /\ y = Claude!AddCard(x, t, n) /\ t \in Tools
    BY <2>2, <2>3, <2>4
  <2>6. y \in AsmSet /\ y.open /\ (y.parts = x.parts \/ y.parts = Append(x.parts, c))
    <3>1. x \in AsmSet /\ t \in Tools
      BY <2>5
    <3>2. x.open
      BY <2>5
    <3> HIDE DEF AsmSet
    <3>3. /\ Claude!AddCard(x, t, n) \in AsmSet /\ Claude!AddCard(x, t, n).open
          /\ \/ Claude!AddCard(x, t, n).parts = x.parts
             \/ Claude!AddCard(x, t, n).parts = Append(x.parts, Claude!Card(t, n))
      BY <3>1, <3>2, CardAdded
    <3> QED
      BY <2>4, <2>5, <3>3
  <2>7. c \in PartSet /\ c.body = <<>> /\ c.at = n
    BY <2>4, <2>5 DEF Claude!Card, Claude!Part, PartSet
  <2>8. Grown(a.parts, y.parts, i + 1, n)
    BY <2>5, <2>6, <2>7, GrownOne
  <2> QED
    BY <2>4, <2>6, <2>8
<1>11. m \in S
  <2> HIDE DEF S
  <2> QED
    BY <1>1, <1>9, <1>10, Inductive
<1> QED
  BY <1>1, <1>8, <1>11 DEF m

\* What a line does to the open turn: it closes it, or every part is published, or
\* was there, or is a further card of a line with several calls, which shows nothing.
Told(a, o, l, n) ==
    /\ o.asm \in AsmSet
    /\ \/ o.asm.parts = <<>>
       \/ /\ o.done = <<>>
          /\ \A i \in 1..Len(o.asm.parts) :
               /\ \/ i \in o.shown
                  \/ i \in 1..Len(a.parts) /\ o.asm.parts[i] = a.parts[i]
                  \/ ~(i \in 1..Len(a.parts)) /\ o.asm.parts[i].body = <<>> /\ o.asm.parts[i].at = n /\ Len(l.uses) > 1
               /\ \/ o.asm.parts[i].at = n
                  \/ i \in 1..Len(a.parts) /\ o.asm.parts[i].at = a.parts[i].at

\* The fields of an assembler, taken apart.
LEMMA AsmFields ==
    ASSUME NEW a \in AsmSet
    PROVE  /\ a = [open |-> a.open, parts |-> a.parts, uuid |-> a.uuid, usage |-> a.usage, pending |-> a.pending]
           /\ a.open \in BOOLEAN /\ a.parts \in Seq(PartSet) /\ a.uuid \in Nat /\ a.usage \in Nat
           /\ a.pending \in [Tools -> Nat] /\ Len(a.parts) \in Nat /\ DOMAIN a.parts = 1..Len(a.parts)
           /\ ~a.open => a.parts = <<>>
BY DEF AsmSet, AsmRecord

\* Opening a turn leaves the parts.
LEMMA OpenedKeeps ==
    ASSUME NEW a \in AsmSet, NEW n \in Nat
    PROVE  /\ Claude!Opened(a, n) \in AsmSet /\ Claude!Opened(a, n).open
           /\ Claude!Opened(a, n).parts = a.parts /\ Claude!Opened(a, n).pending = a.pending
<1>1. CASE a.open
  <2>1. Claude!Opened(a, n) = [open |-> TRUE, parts |-> a.parts, uuid |-> n, usage |-> a.usage, pending |-> a.pending]
    BY <1>1 DEF Claude!Opened, AsmSet, AsmRecord
  <2>2. [open |-> TRUE, parts |-> a.parts, uuid |-> n, usage |-> a.usage, pending |-> a.pending] \in AsmSet
    BY AsmFields, AsmMade
  <2> QED
    BY <2>1, <2>2
<1>2. CASE ~a.open
  <2>1. Claude!Opened(a, n) = [open |-> TRUE, parts |-> <<>>, uuid |-> n, usage |-> 0, pending |-> a.pending]
    BY <1>2 DEF Claude!Opened, AsmSet, AsmRecord
  <2>2. [open |-> TRUE, parts |-> <<>>, uuid |-> n, usage |-> 0, pending |-> a.pending] \in AsmSet
    <3>1. <<>> \in Seq(PartSet) /\ 0 \in Nat /\ a.pending \in [Tools -> Nat]
      BY AsmFields
    <3> HIDE DEF AsmSet
    <3> QED
      BY <3>1, AsmMade
  <2> QED
    BY <1>2, <2>1, <2>2, AsmFields
<1> QED
  BY <1>1, <1>2

\* A part that is appended is published.
LEMMA AppendTold ==
    ASSUME NEW a \in AsmSet, NEW b \in AsmSet, b.open, b.parts = a.parts, NEW p \in PartSet, NEW l, NEW n \in Nat, p.at = n
    PROVE  Told(a, Claude!Outcome([b EXCEPT !.parts = Append(@, p)], <<>>, {Len(b.parts) + 1}), l, n)
<1>1. PICK c : c = [b EXCEPT !.parts = Append(@, p)]
  OBVIOUS
<1>2. c = [open |-> b.open, parts |-> Append(b.parts, p), uuid |-> b.uuid, usage |-> b.usage, pending |-> b.pending]
  BY <1>1 DEF AsmSet, AsmRecord
<1>3. Append(b.parts, p) \in Seq(PartSet)
  BY AsmFields
<1>4. c \in AsmSet
  <2> HIDE DEF AsmSet
  <2> QED
    BY <1>2, <1>3, AsmFields, AsmMade
<1>5. Len(a.parts) \in Nat /\ c.parts = Append(a.parts, p) /\ a.parts \in Seq(PartSet)
  BY <1>2, AsmFields
<1>6. Len(c.parts) = Len(a.parts) + 1 /\ c.parts[Len(a.parts) + 1] = p /\ \A i \in 1..Len(a.parts) : c.parts[i] = a.parts[i]
  BY <1>5
<1>7. \A i \in 1..Len(c.parts) : i \in 1..Len(a.parts) \/ i = Len(a.parts) + 1
  BY <1>5, <1>6
<1>8. PICK o : o = Claude!Outcome(c, <<>>, {Len(b.parts) + 1})
  OBVIOUS
<1>9. o.asm = c /\ o.done = <<>> /\ o.shown = {Len(a.parts) + 1}
  BY <1>8 DEF Claude!Outcome
<1>10. Told(a, o, l, n)
  BY <1>4, <1>6, <1>7, <1>9 DEF Told
<1> QED
  BY <1>1, <1>8, <1>10

\* A part that is changed in its place is published.
LEMMA ChangeTold ==
    ASSUME NEW a \in AsmSet, NEW c \in AsmSet, NEW i, NEW l, NEW n, DOMAIN c.parts = DOMAIN a.parts,
           \A j \in DOMAIN a.parts : /\ j # i => c.parts[j] = a.parts[j]
                                     /\ c.parts[j].at = a.parts[j].at
    PROVE  Told(a, Claude!Outcome(c, <<>>, {i}), l, n)
<1>1. DOMAIN a.parts = 1..Len(a.parts) /\ DOMAIN c.parts = 1..Len(c.parts)
  BY AsmFields
<1>2. PICK o : o = Claude!Outcome(c, <<>>, {i})
  OBVIOUS
<1>3. o.asm = c /\ o.done = <<>> /\ o.shown = {i}
  BY <1>2 DEF Claude!Outcome
<1>4. Told(a, o, l, n)
  BY <1>1, <1>3 DEF Told
<1> QED
  BY <1>2, <1>4

\* A boundary closes the turn.
LEMMA BoundaryTold ==
    ASSUME NEW a \in AsmSet, NEW l, NEW n PROVE Told(a, Claude!FeedBoundary(a, l), l, n)
<1>1. PICK c : c = Claude!Closed(a)
  OBVIOUS
<1>2. c = [open |-> FALSE, parts |-> <<>>, uuid |-> a.uuid, usage |-> a.usage, pending |-> a.pending]
  BY <1>1 DEF Claude!Closed, AsmSet, AsmRecord
<1>3. c \in AsmSet /\ c.parts = <<>>
  <2>1. /\ FALSE \in BOOLEAN /\ <<>> \in Seq(PartSet) /\ a.uuid \in Nat /\ a.usage \in Nat
        /\ a.pending \in [Tools -> Nat]
    BY AsmFields
  <2>2. PICK p : p = <<>>
    OBVIOUS
  <2>3. p \in Seq(PartSet) /\ (~FALSE => p = <<>>)
    BY <2>1, <2>2
  <2> HIDE DEF AsmSet
  <2>4. [open |-> FALSE, parts |-> p, uuid |-> a.uuid, usage |-> a.usage, pending |-> a.pending] \in AsmSet
    BY <2>1, <2>3, AsmMade
  <2> QED
    BY <1>2, <2>2, <2>4
<1>4. Claude!FeedBoundary(a, l).asm = c
  BY <1>1 DEF Claude!FeedBoundary, Claude!Outcome
<1> QED
  BY <1>3, <1>4 DEF Told

\* A result fills its call's card, or is a part of its own.
LEMMA ResultTold ==
    ASSUME NEW a \in AsmSet, NEW l, l.id \in Tools, NEW n \in Nat
    PROVE  Told(a, Claude!FeedResult(a, l, n), l, n)
<1>1. PICK b : b = Claude!Opened(a, n)
  OBVIOUS
<1>2. b \in AsmSet /\ b.open /\ b.parts = a.parts
  BY <1>1, OpenedKeeps
<1>3. PICK t : t = l.id
  OBVIOUS
<1>4. CASE Claude!FillsCard(b, t)
  <2>1. PICK i : i = b.pending[t]
    OBVIOUS
  <2>2. i \in 1..Len(b.parts)
    BY <1>2, <1>3, <1>4, <2>1, AsmFields DEF Claude!FillsCard
  <2>3. PICK p : p = Claude!Part("tool", <<t>>, <<n>>, b.parts[i].at)
    OBVIOUS
  <2>4. b.parts[i] \in PartSet
    BY <1>2, <2>2, AsmFields
  <2>5. p \in PartSet /\ p.at = b.parts[i].at
    BY <1>3, <2>3, <2>4 DEF Claude!Part, PartSet
  <2>6. PICK c : c = [b EXCEPT !.parts[i] = p, !.pending[t] = 0]
    OBVIOUS
  <2>7. c = [open |-> b.open, parts |-> [b.parts EXCEPT ![i] = p], uuid |-> b.uuid, usage |-> b.usage,
             pending |-> [b.pending EXCEPT ![t] = 0]]
    BY <1>2, <2>6 DEF AsmSet, AsmRecord
  <2>8. [b.parts EXCEPT ![i] = p] \in Seq(PartSet) /\ [b.pending EXCEPT ![t] = 0] \in [Tools -> Nat]
    <3>1. b.parts \in Seq(PartSet) /\ b.pending \in [Tools -> Nat]
      BY <1>2, AsmFields
    <3>2. [b.parts EXCEPT ![i] = p] \in Seq(PartSet)
      BY <2>2, <2>5, <3>1
    <3>3. [b.pending EXCEPT ![t] = 0] \in [Tools -> Nat]
      BY <3>1
    <3> QED
      BY <3>2, <3>3
  <2>9. c \in AsmSet
    <3> HIDE DEF AsmSet
    <3> QED
      BY <1>2, <2>7, <2>8, AsmFields, AsmMade
  <2>10. c.parts = [b.parts EXCEPT ![i] = p]
    BY <2>7
  <2>11. /\ DOMAIN c.parts = DOMAIN a.parts
         /\ \A j \in DOMAIN a.parts : /\ j # i => c.parts[j] = a.parts[j]
                                      /\ c.parts[j].at = a.parts[j].at
    BY <1>2, <2>5, <2>10
  <2>12. Told(a, Claude!Outcome(c, <<>>, {i}), l, n)
    BY <2>9, <2>11, ChangeTold
  <2> QED
    BY <1>1, <1>3, <1>4, <2>1, <2>3, <2>6, <2>12 DEF Claude!FeedResult
<1>5. CASE ~Claude!FillsCard(b, t)
  <2>1. PICK p : p = Claude!Part("tool", <<t>>, <<n>>, n)
    OBVIOUS
  <2>2. p \in PartSet /\ p.at = n
    BY <1>3, <2>1 DEF Claude!Part, PartSet
  <2>3. Told(a, Claude!Outcome([b EXCEPT !.parts = Append(@, p)], <<>>, {Len(b.parts) + 1}), l, n)
    BY <1>2, <2>2, AppendTold
  <2> QED
    BY <1>1, <1>3, <1>5, <2>1, <2>3 DEF Claude!FeedResult
<1> QED
  BY <1>4, <1>5

\* Text of a skill joins a card of its call, or is a part of its own.
LEMMA SkillTold ==
    ASSUME NEW a \in AsmSet, NEW l, l.id \in Tools, NEW n \in Nat
    PROVE  Told(a, Claude!FeedSkill(a, l, n), l, n)
<1>1. PICK b : b = Claude!Opened(a, n)
  OBVIOUS
<1>2. b \in AsmSet /\ b.open /\ b.parts = a.parts
  BY <1>1, OpenedKeeps
<1>3. PICK t : t = l.id
  OBVIOUS
<1>4. CASE Claude!CardsOf(b, t) # {}
  <2>1. PICK i : i = CHOOSE h \in Claude!CardsOf(b, t) : \A j \in Claude!CardsOf(b, t) : j <= h
    OBVIOUS
  <2>2. PICK c : c = [b EXCEPT !.parts[i].body = Append(@, n)]
    OBVIOUS
  <2>3. PICK q : q = [b.parts EXCEPT ![i].body = Append(@, n)]
    OBVIOUS
  <2>4. c = [open |-> b.open, parts |-> q, uuid |-> b.uuid, usage |-> b.usage, pending |-> b.pending]
    BY <1>2, <2>2, <2>3 DEF AsmSet, AsmRecord
  <2>5. DOMAIN q = DOMAIN b.parts /\ DOMAIN b.parts = 1..Len(b.parts) /\ Len(b.parts) \in Nat
    BY <1>2, <2>3, AsmFields
  <2>6. ASSUME NEW j \in DOMAIN b.parts
        PROVE  q[j] \in PartSet /\ q[j].at = b.parts[j].at /\ (j # i => q[j] = b.parts[j])
    <3>1. b.parts[j] \in PartSet
      BY <1>2, <2>5, AsmFields
    <3>2. CASE j # i
      BY <2>3, <3>1, <3>2
    <3>3. CASE j = i
      <4>1. q[j] = [b.parts[j] EXCEPT !.body = Append(@, n)]
        BY <2>3, <3>3
      <4>2. PICK x : x = b.parts[j]
        OBVIOUS
      <4>3. x \in PartSet /\ q[j] = [x EXCEPT !.body = Append(@, n)]
        BY <3>1, <4>1, <4>2
      <4>4. Append(x.body, n) \in Seq(Nat)
        BY <4>3 DEF PartSet
      <4>5. PICK y : y = Append(x.body, n)
        OBVIOUS
      <4>6. y \in Seq(Nat) /\ q[j] = [x EXCEPT !.body = y]
        BY <4>3, <4>4, <4>5
      <4>7. q[j] \in PartSet /\ q[j].at = x.at
        BY <4>3, <4>6 DEF PartSet
      <4> QED
        BY <3>3, <4>2, <4>7
    <3> QED
      BY <3>2, <3>3
  <2>7. q \in Seq(PartSet)
    <3>1. q = [j \in 1..Len(b.parts) |-> q[j]]
      BY <2>3, <2>5
    <3> QED
      BY <2>5, <2>6, <3>1
  <2>8. c \in AsmSet
    <3> HIDE DEF AsmSet
    <3> QED
      BY <1>2, <2>4, <2>7, AsmFields, AsmMade
  <2>9. c.parts = q
    BY <2>4
  <2>10. Told(a, Claude!Outcome(c, <<>>, {i}), l, n)
    BY <1>2, <2>5, <2>6, <2>8, <2>9, ChangeTold
  <2> QED
    BY <1>1, <1>3, <1>4, <2>1, <2>2, <2>10 DEF Claude!FeedSkill
<1>5. CASE ~(Claude!CardsOf(b, t) # {})
  <2>1. PICK p : p = Claude!Part("tool", <<t>>, <<n>>, n)
    OBVIOUS
  <2>2. p \in PartSet /\ p.at = n
    BY <1>3, <2>1 DEF Claude!Part, PartSet
  <2>3. Told(a, Claude!Outcome([b EXCEPT !.parts = Append(@, p)], <<>>, {Len(b.parts) + 1}), l, n)
    BY <1>2, <2>2, AppendTold
  <2> QED
    BY <1>1, <1>3, <1>5, <2>1, <2>3 DEF Claude!FeedSkill
<1> QED
  BY <1>4, <1>5

\* A line of the assistant adds the cards of its calls and its blocks.
LEMMA SayTold ==
    ASSUME NEW a \in AsmSet, NEW l, l.kind = "say", AgentLine(l), NEW n \in Nat
    PROVE  Told(a, Claude!FeedSay(a, l, n), l, n)
<1>1. PICK b : b = Claude!Opened(a, n)
  OBVIOUS
<1>2. b \in AsmSet /\ b.open /\ b.parts = a.parts
  BY <1>1, OpenedKeeps
<1>3. PICK u : u = Claude!AddUsage(b)
  OBVIOUS
<1>4. u \in AsmSet /\ u.open /\ u.parts = a.parts
  <2>1. u = [open |-> b.open, parts |-> b.parts, uuid |-> b.uuid, usage |-> b.usage + 1, pending |-> b.pending]
    BY <1>2, <1>3 DEF Claude!AddUsage, AsmSet, AsmRecord
  <2>2. b.usage + 1 \in Nat
    BY <1>2, AsmFields
  <2>3. u \in AsmSet
    <3> HIDE DEF AsmSet
    <3> QED
      BY <1>2, <2>1, <2>2, AsmFields, AsmMade
  <2> QED
    BY <1>2, <2>1, <2>3
<1>5. PICK uses, blocks : uses = l.uses /\ blocks = l.blocks
  OBVIOUS
<1>6. uses \in Seq(Tools) /\ blocks \in Seq({"text", "thinking"})
  BY <1>5 DEF AgentLine
<1>7. PICK d : d = Claude!AddCards(u, uses, n)
  OBVIOUS
<1>8. d \in AsmSet /\ Grown(a.parts, d.parts, Len(uses), n)
  <2>1. d \in AsmSet /\ d.open /\ Grown(u.parts, d.parts, Len(uses), n)
    <3>1. u \in AsmSet
      BY <1>4
    <3>2. u.open
      BY <1>4
    <3> HIDE DEF AsmSet
    <3> QED
      BY <1>6, <1>7, <3>1, <3>2, CardsAdded
  <2> QED
    BY <1>4, <2>1
<1>9. PICK q : q = [i \in 1..Len(blocks) |-> Claude!Part(blocks[i], <<>>, <<n>>, n)]
  OBVIOUS
<1>10. PICK c : c = Claude!AddBlocks(d, blocks, n)
  OBVIOUS
<1>11. /\ q \in Seq(PartSet) /\ Len(q) = Len(blocks) /\ Len(q) \in Nat
       /\ \A i \in 1..Len(q) : q[i].at = n
  <2>1. Len(blocks) \in Nat /\ \A i \in 1..Len(blocks) : blocks[i] \in {"text", "thinking", "tool"}
    BY <1>6
  <2>2. <<>> \in Seq(Tools) /\ <<n>> \in Seq(Nat)
    OBVIOUS
  <2>3. \A i \in 1..Len(blocks) : Claude!Part(blocks[i], <<>>, <<n>>, n) \in PartSet /\ Claude!Part(blocks[i], <<>>, <<n>>, n).at = n
    BY <2>1, <2>2 DEF Claude!Part, PartSet
  <2> HIDE DEF PartSet
  <2>4. q \in Seq(PartSet) /\ Len(q) = Len(blocks)
    BY <1>9, <2>1, <2>3
  <2> QED
    BY <1>9, <2>1, <2>3, <2>4
<1>12. c = [open |-> d.open, parts |-> d.parts \o q, uuid |-> d.uuid, usage |-> d.usage, pending |-> d.pending]
  BY <1>8, <1>9, <1>10 DEF Claude!AddBlocks, AsmSet, AsmRecord
<1>13. d.open
  <2>1. u \in AsmSet
    BY <1>4
  <2>2. u.open
    BY <1>4
  <2> HIDE DEF AsmSet
  <2> QED
    BY <1>6, <1>7, <2>1, <2>2, CardsAdded
<1>14. d.parts \in Seq(PartSet) /\ d.parts \o q \in Seq(PartSet)
  <2>1. d.parts \in Seq(PartSet)
    BY <1>8, AsmFields
  <2> HIDE DEF PartSet
  <2> QED
    BY <1>11, <2>1
<1>15. c \in AsmSet
  <2> HIDE DEF AsmSet
  <2> QED
    BY <1>8, <1>12, <1>13, <1>14, AsmFields, AsmMade
<1>16. PICK p, r, s : p = a.parts /\ r = d.parts /\ s = c.parts
  OBVIOUS
<1>17. /\ Len(p) \in Nat /\ Len(r) \in Nat /\ Len(uses) \in Nat
       /\ Len(p) <= Len(r) /\ Len(r) <= Len(p) + Len(uses)
       /\ \A i \in 1..Len(p) : r[i] = p[i]
       /\ \A i \in 1..Len(r) : i > Len(p) => r[i].body = <<>> /\ r[i].at = n
  <2>1. Grown(p, r, Len(uses), n)
    BY <1>8, <1>16
  <2>2. p \in Seq(PartSet) /\ r \in Seq(PartSet) /\ Len(uses) \in Nat
    BY <1>6, <2>1 DEF Grown
  <2>3. Len(p) \in Nat /\ Len(r) \in Nat
    BY <2>2
  <2>4. Len(p) <= Len(r) /\ Len(r) <= Len(p) + Len(uses)
    BY <2>1 DEF Grown
  <2>5. \A i \in 1..Len(p) : r[i] = p[i]
    BY <2>1 DEF Grown
  <2>6. \A i \in 1..Len(r) : i > Len(p) => r[i].body = <<>> /\ r[i].at = n
    BY <2>1 DEF Grown
  <2> QED
    BY <2>2, <2>3, <2>4, <2>5, <2>6
<1>18. s = r \o q /\ r \in Seq(PartSet)
  BY <1>12, <1>14, <1>16
<1>19. /\ Len(s) = Len(r) + Len(q)
       /\ \A i \in 1..Len(r) : s[i] = r[i]
       /\ \A i \in 1..Len(s) : i > Len(r) => i - Len(r) \in 1..Len(q) /\ s[i] = q[i - Len(r)]
  <2>1. q \in Seq(PartSet) /\ r \in Seq(PartSet)
    BY <1>11, <1>18
  <2>2. /\ Len(r \o q) = Len(r) + Len(q)
        /\ \A i \in 1..Len(r) + Len(q) : (r \o q)[i] = IF i <= Len(r) THEN r[i] ELSE q[i - Len(r)]
    BY <2>1, ConcatProperties
  <2>3. Len(r) \in Nat /\ Len(q) \in Nat
    BY <1>11, <1>17
  <2>4. Len(s) = Len(r) + Len(q)
    BY <1>18, <2>2
  <2>5. \A i \in 1..Len(s) : s[i] = IF i <= Len(r) THEN r[i] ELSE q[i - Len(r)]
    BY <1>18, <2>2
  <2>6. \A i \in 1..Len(r) : i \in 1..Len(s) /\ i <= Len(r)
    BY <2>3, <2>4
  <2>7. \A i \in 1..Len(s) : i > Len(r) => i - Len(r) \in 1..Len(q) /\ ~(i <= Len(r))
    BY <2>3, <2>4
  <2> QED
    BY <2>4, <2>5, <2>6, <2>7
<1>20. PICK o : o = Claude!Outcome(c, <<>>, Claude!Published(l, b, c))
  OBVIOUS
<1>21. o.asm = c /\ o.done = <<>> /\ o.shown = Claude!Published(l, b, c)
  BY <1>20 DEF Claude!Outcome
<1>22. ASSUME NEW i \in 1..Len(s)
       PROVE  /\ \/ i \in o.shown
                 \/ i \in 1..Len(p) /\ s[i] = p[i]
                 \/ ~(i \in 1..Len(p)) /\ s[i].body = <<>> /\ s[i].at = n /\ Len(uses) > 1
              /\ s[i].at = n \/ (i \in 1..Len(p) /\ s[i].at = p[i].at)
  <2>1. CASE i \in 1..Len(p)
    BY <1>17, <1>19, <2>1
  <2>2. CASE ~(i \in 1..Len(p))
    <3>1. i > Len(p) /\ i \in Nat
      BY <1>17, <1>11, <1>19, <2>2
    <3>2. s[i].at = n
      <4>1. CASE i <= Len(r)
        BY <1>17, <1>19, <3>1, <4>1
      <4>2. CASE i > Len(r)
        BY <1>11, <1>19, <4>2
      <4> QED
        BY <1>17, <3>1, <4>1, <4>2
    <3>3. CASE blocks # <<>>
      <4>1. o.shown = (Len(p) + 1)..Len(s)
        BY <1>2, <1>5, <1>16, <1>21, <3>3 DEF Claude!Published
      <4>2. i \in o.shown
        BY <1>17, <3>1, <4>1
      <4> QED
        BY <3>2, <4>2
    <3>4. CASE blocks = <<>>
      <4>1. o.shown = IF Len(s) > Len(p) THEN {Len(p) + 1} ELSE {}
        BY <1>2, <1>5, <1>16, <1>21, <3>4 DEF Claude!Published, Claude!FirstOnly
      <4>2. Len(q) = 0
        BY <1>11, <3>4
      <4>3. i \in 1..Len(r) /\ Len(s) > Len(p)
        BY <1>17, <1>19, <3>1, <4>2
      <4>4. CASE i = Len(p) + 1
        BY <3>2, <4>1, <4>3, <4>4
      <4>5. CASE i # Len(p) + 1
        <5>1. Len(uses) > 1
          BY <1>17, <3>1, <4>3, <4>5
        <5>2. s[i].body = <<>>
          BY <1>17, <1>19, <3>1, <4>3
        <5> QED
          BY <2>2, <3>2, <5>1, <5>2
      <4> QED
        BY <4>4, <4>5
    <3> QED
      BY <3>3, <3>4
  <2> QED
    BY <2>1, <2>2
<1>23. Told(a, o, l, n)
  <2> HIDE DEF AsmSet
  <2> QED
    BY <1>5, <1>15, <1>16, <1>21, <1>22 DEF Told
<1> QED
  BY <1>1, <1>3, <1>5, <1>7, <1>10, <1>20, <1>23 DEF Claude!FeedSay

\* What any line does.
LEMMA FeedTold ==
    ASSUME NEW a \in AsmSet, NEW l, AgentLine(l), NEW n \in Nat
    PROVE  Told(a, Claude!Feed(a, l, n), l, n)
<1>1. CASE l.kind \in {"prompt", "interrupted", "compact"}
  BY <1>1, BoundaryTold DEF Claude!Feed
<1>2. CASE l.kind = "say"
  <2>1. Claude!Feed(a, l, n) = Claude!FeedSay(a, l, n)
    BY <1>2 DEF Claude!Feed
  <2> QED
    BY <1>2, <2>1, SayTold
<1>3. CASE l.kind = "result"
  <2>1. l.id \in Tools
    BY <1>3 DEF AgentLine
  <2>2. Claude!Feed(a, l, n) = Claude!FeedResult(a, l, n)
    BY <1>3 DEF Claude!Feed
  <2> QED
    BY <2>1, <2>2, ResultTold
<1>4. CASE l.kind = "skill"
  <2>1. l.id \in Tools
    BY <1>4 DEF AgentLine
  <2>2. Claude!Feed(a, l, n) = Claude!FeedSkill(a, l, n)
    BY <1>4 DEF Claude!Feed
  <2> QED
    BY <2>1, <2>2, SkillTold
<1>5. CASE l.kind = "blank"
  <2>1. PICK b : b = Claude!Opened(a, n)
    OBVIOUS
  <2>2. b \in AsmSet /\ b.parts = a.parts
    BY <2>1, OpenedKeeps
  <2>3. PICK o : o = Claude!Outcome(b, <<>>, {})
    OBVIOUS
  <2>4. o.asm = b /\ o.done = <<>>
    BY <2>3 DEF Claude!Outcome
  <2>5. Claude!Feed(a, l, n) = o
    BY <1>5, <2>1, <2>3 DEF Claude!Feed
  <2> HIDE DEF AsmSet
  <2> QED
    BY <2>2, <2>4, <2>5 DEF Told
<1>6. CASE l.kind \notin {"prompt", "interrupted", "compact", "say", "result", "skill", "blank"}
  <2>1. PICK o : o = Claude!Outcome(a, <<>>, {})
    OBVIOUS
  <2>2. o.asm = a /\ o.done = <<>>
    BY <2>1 DEF Claude!Outcome
  <2>3. Claude!Feed(a, l, n) = o
    BY <1>6, <2>1 DEF Claude!Feed
  <2> HIDE DEF AsmSet
  <2> QED
    BY <2>2, <2>3 DEF Told
<1> QED
  BY <1>1, <1>2, <1>3, <1>4, <1>5, <1>6

\* The lines that are written are such lines.
LEMMA WrittenIs == ASSUME NEW l \in Claude!Written PROVE AgentLine(l)
<1>1. CASE l \in Claude!Says
  <2>1. \A s \in Claude!Texts : s \in Seq({"text", "thinking"})
    <3>1. <<>> \in Seq({"text", "thinking"})
      OBVIOUS
    <3>2. <<"text">> \in Seq({"text", "thinking"})
      OBVIOUS
    <3>3. <<"thinking", "text">> \in Seq({"text", "thinking"})
      OBVIOUS
    <3> QED
      BY <3>1, <3>2, <3>3 DEF Claude!Texts
  <2>2. \A t \in Tools : <<t>> \in Seq(Tools)
    OBVIOUS
  <2>3. \A s \in Claude!SetToSeqs(Tools) : s \in Seq(Tools)
    <3>1. Cardinality(Tools) \in Nat
      BY LogsAssumption, FS_CardinalityType
    <3>2. Claude!Cardinality(Tools) = Cardinality(Tools)
      BY DEF Claude!Cardinality, Cardinality
    <3>3. PICK k \in Nat : k = Claude!Cardinality(Tools)
      BY <3>1, <3>2
    <3>4. \A s \in Claude!SetToSeqs(Tools) : s \in [1..k -> Tools]
      BY <3>3 DEF Claude!SetToSeqs
    <3> QED
      BY <3>4
  <2>5. <<>> \in Seq(Tools) /\ <<>> \in Claude!Texts
    BY DEF Claude!Texts
  <2>6. l.kind = "say" /\ l.blocks \in Claude!Texts
    BY <1>1, <2>5 DEF Claude!Says
  <2>7. (\E t \in Tools : l.uses = <<t>>) \/ l.uses = <<>> \/ l.uses \in Claude!SetToSeqs(Tools)
    BY <1>1 DEF Claude!Says
  <2>4. l.kind = "say" /\ l.uses \in Seq(Tools) /\ l.blocks \in Seq({"text", "thinking"})
    BY <2>1, <2>2, <2>3, <2>5, <2>6, <2>7
  <2> QED
    BY <2>4 DEF AgentLine
<1>2. CASE l \in Claude!ResultLines \cup Claude!SkillLines
  BY <1>2 DEF Claude!ResultLines, Claude!SkillLines, AgentLine
<1>3. CASE l \in Claude!Marks
  BY <1>3 DEF Claude!Marks, AgentLine
<1> QED
  BY <1>1, <1>2, <1>3 DEF Claude!Written

-----------------------------------------------------------------------------
(* A viewer of the live parts, and the readers of the file.                *)

Writable == Claude!Says \cup Claude!ResultLines \cup Claude!SkillLines \cup Claude!Marks

Start == [asm |-> Claude!NewAssembler, done |-> <<>>]

\* f is what a reader has made of each number of lines.
Reads(f) == f = [i \in 0..Len(clog) |-> IF i < 1 THEN Start ELSE Claude!ReadLine(f[i - 1], i)]

\* What the stream's assembler and its turns are is what a reader makes of the file.
ReadInv == \E f : Reads(f) /\ f[Len(clog)] = [asm |-> asm, done |-> cturns]

\* What the viewer shows of the open turn.
ViewInv ==
    /\ DOMAIN live = 1..Len(asm.parts)
    /\ \A i \in 1..Len(asm.parts) :
         /\ asm.parts[i].at \in 1..Len(clog)
         /\ \/ live[i] = asm.parts[i]
            \/ live[i] = <<>> /\ asm.parts[i].body = <<>> /\ Len(clog[asm.parts[i].at].uses) > 1

ClaudeInv == clog \in Seq(Writable) /\ asm \in AsmSet /\ ReadInv /\ ViewInv

\* At the beginning nothing is written or shown.
LEMMA ClaudeStarts == Claude!Init => ClaudeInv
<1> SUFFICES ASSUME Claude!Init PROVE ClaudeInv
  OBVIOUS
<1>1. clog = <<>> /\ asm = Claude!NewAssembler /\ cturns = <<>> /\ live = <<>>
  BY DEF Claude!Init
<1>2. clog \in Seq(Writable) /\ Len(clog) = 0
  BY <1>1
<1>3. asm \in AsmSet /\ asm.parts = <<>>
  <2>1. PICK p, q : p = <<>> /\ q = [t \in Tools |-> 0]
    OBVIOUS
  <2>2. p \in Seq(PartSet) /\ q \in [Tools -> Nat]
    BY <2>1
  <2>3. [open |-> FALSE, parts |-> p, uuid |-> 0, usage |-> 0, pending |-> q] \in AsmSet
    <3> HIDE DEF AsmSet
    <3> QED
      BY <2>1, <2>2, AsmMade
  <2> QED
    BY <1>1, <2>1, <2>3 DEF Claude!NewAssembler
<1>4. ReadInv
  <2>1. PICK f : f = [i \in 0..0 |-> Start]
    OBVIOUS
  <2>2. f = [i \in 0..Len(clog) |-> IF i < 1 THEN Start ELSE Claude!ReadLine(f[i - 1], i)]
    BY <1>2, <2>1
  <2>3. f[Len(clog)] = [asm |-> asm, done |-> cturns]
    BY <1>1, <1>2, <2>1 DEF Start
  <2> QED
    BY <2>2, <2>3 DEF ReadInv, Reads
<1>5. ViewInv
  BY <1>1, <1>3 DEF ViewInv
<1> QED
  BY <1>2, <1>3, <1>4, <1>5 DEF ClaudeInv

\* Two functions that are made in the same way from the lines are the same.
LEMMA ReadsSame ==
    ASSUME clog \in Seq(Writable), NEW f, NEW g, Reads(f), Reads(g)
    PROVE  f[Len(clog)] = g[Len(clog)]
<1> DEFINE S == {i \in Nat : i <= Len(clog) => f[i] = g[i]}
<1>1. Len(clog) \in Nat
  OBVIOUS
<1>2. 0 \in S
  BY <1>1 DEF Reads
<1>3. ASSUME NEW i \in Nat, i \in S PROVE i + 1 \in S
  <2> SUFFICES ASSUME i + 1 <= Len(clog) PROVE f[i + 1] = g[i + 1]
    OBVIOUS
  <2>1. i + 1 \in 0..Len(clog) /\ ~(i + 1 < 1) /\ (i + 1) - 1 = i /\ f[i] = g[i]
    BY <1>1, <1>3
  <2>2. f[i + 1] = Claude!ReadLine(f[i], i + 1)
    BY <2>1 DEF Reads
  <2>3. g[i + 1] = Claude!ReadLine(g[i], i + 1)
    BY <2>1 DEF Reads
  <2> QED
    BY <2>1, <2>2, <2>3
<1>4. Len(clog) \in S
  <2> HIDE DEF S
  <2> QED
    BY <1>1, <1>2, <1>3, Inductive
<1> QED
  BY <1>1, <1>4

\* Appending a line reads it.
LEMMA ReadGrows ==
    ASSUME clog \in Seq(Writable), ReadInv, NEW l \in Writable, clog' = Append(clog, l),
           NEW o, o = Claude!Feed(asm, l, Len(clog) + 1), asm' = o.asm, cturns' = cturns \o o.done
    PROVE  ReadInv'
<1>1. PICK f : Reads(f) /\ f[Len(clog)] = [asm |-> asm, done |-> cturns]
  BY DEF ReadInv
<1>2. PICK n \in Nat : n = Len(clog)
  OBVIOUS
<1>3. /\ Len(clog') = n + 1 /\ clog'[n + 1] = l
      /\ \A i \in 1..n : clog'[i] = clog[i]
  BY <1>2
<1>4. PICK g : g = [i \in 0..(n + 1) |-> IF i = n + 1 THEN [asm |-> asm', done |-> cturns'] ELSE f[i]]
  OBVIOUS
<1>5. ASSUME NEW i \in 0..(n + 1)
      PROVE  g[i] = (IF i < 1 THEN Start ELSE Claude!ReadLine(g[i - 1], i)')
  <2>1. CASE i = n + 1
    <3>1. g[i - 1] = [asm |-> asm, done |-> cturns] /\ ~(i < 1) /\ i - 1 = n
      BY <1>1, <1>2, <1>4, <2>1
    <3>2. PICK x : x = [asm |-> asm, done |-> cturns]
      OBVIOUS
    <3>3. x.asm = asm /\ x.done = cturns
      BY <3>2
    <3>4. Claude!ReadLine(x, i)' = [asm |-> o.asm, done |-> cturns \o o.done]
      BY <1>2, <1>3, <2>1, <3>3 DEF Claude!ReadLine
    <3>5. g[i] = [asm |-> asm', done |-> cturns']
      BY <1>4, <2>1
    <3> QED
      BY <3>1, <3>2, <3>4, <3>5
  <2>2. CASE i # n + 1
    <3>1. i \in 0..n
      BY <2>2
    <3>2. f[i] = IF i < 1 THEN Start ELSE Claude!ReadLine(f[i - 1], i)
      BY <1>1, <1>2, <3>1 DEF Reads
    <3>3. g[i] = f[i]
      BY <1>4, <2>2
    <3>4. CASE i < 1
      BY <3>2, <3>3, <3>4
    <3>5. CASE ~(i < 1)
      <4>1. g[i - 1] = f[i - 1] /\ clog'[i] = clog[i]
        BY <1>3, <1>4, <3>1, <3>5
      <4>2. Claude!ReadLine(g[i - 1], i)' = Claude!ReadLine(f[i - 1], i)
        BY <4>1 DEF Claude!ReadLine
      <4> QED
        BY <3>2, <3>3, <3>5, <4>2
    <3> QED
      BY <3>4, <3>5
  <2> QED
    BY <2>1, <2>2
<1>6. Reads(g)'
  <2>1. g = [i \in 0..(n + 1) |-> g[i]]
    BY <1>4
  <2>2. g = [i \in 0..(n + 1) |-> (IF i < 1 THEN Start ELSE Claude!ReadLine(g[i - 1], i)')]
    BY <1>5, <2>1
  <2> QED
    BY <1>3, <2>2 DEF Reads, Start
<1>7. g[Len(clog')] = [asm |-> asm', done |-> cturns']
  BY <1>3, <1>4
<1> QED
  BY <1>6, <1>7 DEF ReadInv

\* Appending a line shows what it publishes.
LEMMA ViewGrows ==
    ASSUME clog \in Seq(Writable), asm \in AsmSet, ViewInv, NEW l \in Writable, AgentLine(l), clog' = Append(clog, l),
           NEW o, o = Claude!Feed(asm, l, Len(clog) + 1), asm' = o.asm, live' = Claude!View(live, o)
    PROVE  (asm \in AsmSet)' /\ ViewInv'
<1>1. PICK n \in Nat : n = Len(clog)
  OBVIOUS
<1>2. /\ Len(clog') = n + 1 /\ clog'[n + 1] = l
      /\ \A i \in 1..n : clog'[i] = clog[i]
  BY <1>1
<1>3. Told(asm, o, l, n + 1)
  BY <1>1, FeedTold
<1>4. asm' \in AsmSet
  BY <1>3 DEF Told
<1>5. PICK a, p, q : a = asm /\ p = a.parts /\ q = o.asm.parts
  OBVIOUS
<1>6. live' = [i \in 1..Len(q) |-> IF i \in o.shown THEN q[i]
                                   ELSE IF i \in DOMAIN live /\ o.done = <<>> THEN live[i] ELSE <<>>]
  BY <1>5 DEF Claude!View
<1>7. /\ DOMAIN live = 1..Len(p)
      /\ \A i \in 1..Len(p) :
           /\ p[i].at \in 1..n
           /\ \/ live[i] = p[i]
              \/ live[i] = <<>> /\ p[i].body = <<>> /\ Len(clog[p[i].at].uses) > 1
  BY <1>1, <1>5 DEF ViewInv
<1>8. CASE q = <<>>
  <2>1. asm'.parts = <<>> /\ DOMAIN live' = 1..Len(asm'.parts) /\ Len(asm'.parts) = 0
    BY <1>5, <1>6, <1>8
  <2> QED
    BY <1>4, <2>1 DEF ViewInv
<1>9. CASE /\ o.done = <<>>
           /\ \A i \in 1..Len(q) :
               /\ \/ i \in o.shown
                  \/ i \in 1..Len(p) /\ q[i] = p[i]
                  \/ ~(i \in 1..Len(p)) /\ q[i].body = <<>> /\ q[i].at = n + 1 /\ Len(l.uses) > 1
               /\ \/ q[i].at = n + 1
                  \/ i \in 1..Len(p) /\ q[i].at = p[i].at
  <2>1. ASSUME NEW i \in 1..Len(q)
        PROVE  /\ q[i].at \in 1..(n + 1)
               /\ \/ live'[i] = q[i]
                  \/ live'[i] = <<>> /\ q[i].body = <<>> /\ Len(clog'[q[i].at].uses) > 1
    <3>1. q[i].at \in 1..(n + 1)
      BY <1>7, <1>9
    <3>2. CASE i \in o.shown
      BY <1>6, <3>1, <3>2
    <3>3. CASE ~(i \in o.shown) /\ i \in 1..Len(p) /\ q[i] = p[i]
      <4>1. live'[i] = live[i]
        BY <1>6, <1>7, <1>9, <3>3
      <4>2. clog'[p[i].at] = clog[p[i].at]
        BY <1>2, <1>7, <3>3
      <4> QED
        BY <1>7, <3>1, <3>3, <4>1, <4>2
    <3>4. CASE ~(i \in o.shown) /\ ~(i \in 1..Len(p)) /\ q[i].body = <<>> /\ q[i].at = n + 1 /\ Len(l.uses) > 1
      <4>1. live'[i] = <<>>
        BY <1>6, <1>7, <3>4
      <4> QED
        BY <1>2, <3>1, <3>4, <4>1
    <3> QED
      BY <1>9, <3>2, <3>3, <3>4
  <2>2. DOMAIN live' = 1..Len(q)
    BY <1>6
  <2>3. ViewInv'
    BY <1>2, <1>5, <2>1, <2>2 DEF ViewInv
  <2> QED
    BY <1>4, <2>3
<1> QED
  BY <1>3, <1>5, <1>8, <1>9 DEF Told

\* The steps of the log, and of the others.
LEMMA ClaudeGrows == ClaudeInv /\ Claude!Next => ClaudeInv'
<1> SUFFICES ASSUME ClaudeInv, Claude!Next PROVE ClaudeInv'
  OBVIOUS
<1>1. PICK l \in Claude!Written : Claude!Append1(l)
  BY DEF Claude!Next
<1>2. PICK o : o = Claude!Feed(asm, l, Len(clog) + 1)
  OBVIOUS
<1>3. clog' = Append(clog, l) /\ asm' = o.asm /\ cturns' = cturns \o o.done /\ live' = Claude!View(live, o)
  BY <1>1, <1>2 DEF Claude!Append1
<1>4. l \in Writable /\ AgentLine(l)
  BY WrittenIs DEF Writable, Claude!Written
<1>5. clog \in Seq(Writable) /\ asm \in AsmSet /\ ReadInv /\ ViewInv
  BY DEF ClaudeInv
<1>6. clog' \in Seq(Writable)
  BY <1>3, <1>4, <1>5
<1>7. ReadInv'
  BY <1>2, <1>3, <1>4, <1>5, ReadGrows
<1>8. (asm \in AsmSet)' /\ ViewInv'
  BY <1>2, <1>3, <1>4, <1>5, ViewGrows
<1> QED
  BY <1>6, <1>7, <1>8 DEF ClaudeInv

\* Nothing else touches the log or its readers.
LEMMA ClaudeKept == ClaudeInv /\ UNCHANGED claudeVars => ClaudeInv'
BY DEF ClaudeInv, ReadInv, Reads, ViewInv, Start, Claude!ReadLine, claudeVars

\* The viewer shows what is stored, and the batch read gives the same turns.
LEMMA StoredIsShown == ClaudeInv => Claude!LiveIsStored
<1> SUFFICES ASSUME ClaudeInv PROVE Claude!LiveIsStored
  OBVIOUS
<1>1. clog \in Seq(Writable) /\ ViewInv
  BY DEF ClaudeInv
<1>2. PICK f : Reads(f) /\ f[Len(clog)] = [asm |-> asm, done |-> cturns]
  BY DEF ClaudeInv, ReadInv
<1>3. PICK g : g = CHOOSE h : h = [i \in 0..Len(clog) |-> IF i < 1 THEN Start ELSE Claude!ReadLine(h[i - 1], i)]
  OBVIOUS
<1>4. Reads(g)
  BY <1>2, <1>3 DEF Reads
<1>5. g[Len(clog)] = [asm |-> asm, done |-> cturns]
  BY <1>1, <1>2, <1>4, ReadsSame
<1>6. Claude!FoldLines(Claude!ReadLine, Start, 1, Len(clog)) = g[Len(clog)]
  BY <1>3 DEF Claude!FoldLines
<1>7. Claude!ReadTurns(1) = cturns \o Claude!Flushed(asm)
  <2>1. PICK r : r = Claude!FoldLines(Claude!ReadLine, Start, 1, Len(clog))
    OBVIOUS
  <2>2. Claude!ReadTurns(1) = r.done \o Claude!Flushed(r.asm)
    BY <2>1, Zenon DEF Claude!ReadTurns, Start
  <2>3. r = [asm |-> asm, done |-> cturns]
    BY <1>5, <1>6, <2>1, Zenon
  <2>4. r.done = cturns /\ r.asm = asm
    BY <2>3
  <2> QED
    BY <2>2, <2>4
<1> QED
  BY <1>1, <1>7 DEF Claude!LiveIsStored, ViewInv

\* The metadata a read has made of some lines, and a step of either read.
MetaSet == [event : Nat, tokens : Nat, title : Nat, prompt : Nat, input : Nat]

\* f is what the full read, or the read of the tail behind k, has made of each number of
\* lines up to n.
ReadsMeta(f, n) == f = [i \in 0..n |-> IF i < 1 THEN Claude!NoMeta ELSE Claude!MetaStep(f[i - 1], i)]
ReadsTail(f, k, n) == f = [i \in 0..n |-> IF i < k THEN Claude!NoMeta ELSE Claude!TailStep(f[i - 1], i)]

\* A step of either makes metadata of metadata.
LEMMA MetaSteps ==
    ASSUME NEW i \in Nat, NEW m \in MetaSet
    PROVE  Claude!MetaStep(m, i) \in MetaSet /\ Claude!TailStep(m, i) \in MetaSet
BY DEF Claude!MetaStep, Claude!TailStep, MetaSet

\* A read begins with some.
LEMMA NoMetaIs == Claude!NoMeta \in MetaSet
BY DEF Claude!NoMeta, MetaSet

\* The full read of any number of lines is a function.
LEMMA MetaIsRead ==
    ASSUME NEW n \in Nat
    PROVE  \E f : ReadsMeta(f, n)
<1>1. PICK next : next = [i \in Nat |-> [m \in MetaSet |-> Claude!MetaStep(m, i)]]
  OBVIOUS
<1>2. ASSUME NEW i \in Nat, NEW m \in MetaSet PROVE Claude!MetaStep(m, i) \in MetaSet
  BY MetaSteps
<1>3. next \in [Nat -> [MetaSet -> MetaSet]]
  BY <1>1, <1>2
<1>4. Claude!NoMeta \in MetaSet
  BY NoMetaIs
<1>5. PICK k \in Nat \ {0} : k = 1
  OBVIOUS
<1>6. PICK f : Made(f, MetaSet, Claude!NoMeta, next, k, n)
  <2> HIDE DEF MetaSet
  <2> QED
    BY <1>3, <1>4, Recursion
<1>7. ASSUME NEW i \in 0..n
      PROVE  f[i] = IF i < 1 THEN Claude!NoMeta ELSE Claude!MetaStep(f[i - 1], i)
  <2>1. CASE i < 1
    BY <1>5, <1>6, <2>1 DEF Made
  <2>2. CASE ~(i < 1)
    <3>1. i - 1 \in 0..n /\ i \in Nat
      BY <2>2
    <3>2. f[i - 1] \in MetaSet /\ f[i] = next[i][f[i - 1]]
      BY <1>5, <1>6, <2>2, <3>1 DEF Made
    <3>3. next[i][f[i - 1]] = Claude!MetaStep(f[i - 1], i)
      BY <1>1, <3>1, <3>2
    <3> QED
      BY <2>2, <3>2, <3>3
  <2> QED
    BY <2>1, <2>2
<1>8. f = [i \in 0..n |-> f[i]]
  BY <1>6 DEF Made
<1> QED
  BY <1>7, <1>8 DEF ReadsMeta

\* The read of a tail.
LEMMA TailIsRead ==
    ASSUME NEW n \in Nat, NEW k \in Nat \ {0}
    PROVE  \E f : ReadsTail(f, k, n)
<1>1. PICK next : next = [i \in Nat |-> [m \in MetaSet |-> Claude!TailStep(m, i)]]
  OBVIOUS
<1>2. ASSUME NEW i \in Nat, NEW m \in MetaSet PROVE Claude!TailStep(m, i) \in MetaSet
  BY MetaSteps
<1>3. next \in [Nat -> [MetaSet -> MetaSet]]
  BY <1>1, <1>2
<1>4. Claude!NoMeta \in MetaSet
  BY NoMetaIs
<1>5. PICK f : Made(f, MetaSet, Claude!NoMeta, next, k, n)
  <2> HIDE DEF MetaSet
  <2> QED
    BY <1>3, <1>4, Recursion
<1>6. ASSUME NEW i \in 0..n
      PROVE  f[i] = IF i < k THEN Claude!NoMeta ELSE Claude!TailStep(f[i - 1], i)
  <2>1. CASE i < k
    BY <1>5, <2>1 DEF Made
  <2>2. CASE ~(i < k)
    <3>1. i - 1 \in 0..n /\ i \in Nat
      BY <2>2
    <3>2. f[i - 1] \in MetaSet /\ f[i] = next[i][f[i - 1]]
      BY <1>5, <2>2, <3>1 DEF Made
    <3>3. next[i][f[i - 1]] = Claude!TailStep(f[i - 1], i)
      BY <1>1, <3>1, <3>2
    <3> QED
      BY <2>2, <3>2, <3>3
  <2> QED
    BY <2>1, <2>2
<1>7. f = [i \in 0..n |-> f[i]]
  BY <1>5 DEF Made
<1> QED
  BY <1>6, <1>7 DEF ReadsTail

\* Two full reads that go on from the same line agree up to it.
LEMMA MetaSame ==
    ASSUME NEW m \in Nat, NEW n \in Nat, m <= n,
           NEW f, ReadsMeta(f, m), NEW g, ReadsMeta(g, n)
    PROVE  f[m] = g[m]
<1> DEFINE S == {i \in Nat : i <= m => f[i] = g[i]}
<1>1. 0 \in S
  BY DEF ReadsMeta
<1>2. ASSUME NEW i \in Nat, i \in S PROVE i + 1 \in S
  <2> SUFFICES ASSUME i + 1 <= m PROVE f[i + 1] = g[i + 1]
    OBVIOUS
  <2>1. i + 1 \in 0..m /\ i + 1 \in 0..n /\ ~(i + 1 < 1) /\ (i + 1) - 1 = i /\ f[i] = g[i]
    BY <1>2
  <2>2. f[i + 1] = Claude!MetaStep(f[i], i + 1)
    BY <2>1 DEF ReadsMeta
  <2>3. g[i + 1] = Claude!MetaStep(g[i], i + 1)
    BY <2>1 DEF ReadsMeta
  <2> QED
    BY <2>1, <2>2, <2>3
<1>3. m \in S
  <2> HIDE DEF S
  <2> QED
    BY <1>1, <1>2, Inductive
<1> QED
  BY <1>3

\* Behind line k the tail's read t and the full read u know the same of the last
\* activity and the last usage, but for a usage ahead of k.
LEMMA TailFollows ==
    ASSUME NEW n \in Nat, NEW k \in 1..n,
           NEW t, ReadsTail(t, k, n), NEW u, ReadsMeta(u, n)
    PROVE  /\ t[n].event = u[n].event
           /\ u[n].tokens = IF t[n].tokens # 0 THEN t[n].tokens ELSE u[k - 1].tokens
<1> DEFINE Knows(i) == u[i].tokens = IF t[i].tokens # 0 THEN t[i].tokens ELSE u[k - 1].tokens
           S == {i \in Nat : k - 1 <= i /\ i <= n => Knows(i)}
           Typed == {i \in Nat : i <= n => t[i] \in MetaSet /\ u[i] \in MetaSet}
<1>9. \A i \in 0..n : t[i] \in MetaSet /\ u[i] \in MetaSet
  <2>1. 0 \in Typed
    BY NoMetaIs DEF ReadsTail, ReadsMeta
  <2>2. ASSUME NEW i \in Nat, i \in Typed PROVE i + 1 \in Typed
    <3> SUFFICES ASSUME i + 1 <= n PROVE t[i + 1] \in MetaSet /\ u[i + 1] \in MetaSet
      OBVIOUS
    <3>1. i + 1 \in 0..n /\ ~(i + 1 < 1) /\ (i + 1) - 1 = i /\ t[i] \in MetaSet /\ u[i] \in MetaSet
      BY <2>2
    <3>2. u[i + 1] = Claude!MetaStep(u[i], i + 1)
      BY <3>1 DEF ReadsMeta
    <3>3. t[i + 1] = Claude!NoMeta \/ t[i + 1] = Claude!TailStep(t[i], i + 1)
      BY <3>1 DEF ReadsTail
    <3> HIDE DEF MetaSet, Typed
    <3> QED
      BY <3>1, <3>2, <3>3, MetaSteps, NoMetaIs
  <2>3. Nat \subseteq Typed
    <3> HIDE DEF Typed
    <3> QED
      BY <2>1, <2>2, Inductive
  <2> QED
    BY <2>3
<1>1. ASSUME NEW i \in 0..n, k <= i
      PROVE  /\ t[i].event = i /\ u[i].event = i
             /\ t[i].tokens = IF clog[i].kind = "say" THEN i ELSE t[i - 1].tokens
             /\ u[i].tokens = IF clog[i].kind = "say" THEN i ELSE u[i - 1].tokens
  <2>0. i - 1 \in 0..n
    BY <1>1
  <2>1. PICK a \in MetaSet : a = t[i - 1] /\ t[i] = Claude!TailStep(a, i)
    BY <1>1, <1>9, <2>0 DEF ReadsTail
  <2>2. PICK b \in MetaSet : b = u[i - 1] /\ u[i] = Claude!MetaStep(b, i)
    BY <1>1, <1>9, <2>0 DEF ReadsMeta
  <2>3. t[i].event = i /\ t[i].tokens = IF clog[i].kind = "say" THEN i ELSE a.tokens
    BY <2>1 DEF Claude!TailStep, MetaSet
  <2>4. u[i].event = i /\ u[i].tokens = IF clog[i].kind = "say" THEN i ELSE b.tokens
    BY <2>2 DEF Claude!MetaStep, Claude!TailStep, MetaSet
  <2> QED
    BY <2>1, <2>2, <2>3, <2>4
<1>2. Knows(k - 1)
  <2>1. t[k - 1] = Claude!NoMeta
    BY DEF ReadsTail
  <2>2. t[k - 1].tokens = 0
    BY <2>1 DEF Claude!NoMeta
  <2> QED
    BY <2>2
<1>3. 0 \in S
  <2>1. k - 1 <= 0 => k - 1 = 0
    OBVIOUS
  <2> HIDE DEF Knows
  <2> QED
    BY <1>2, <2>1
<1>4. ASSUME NEW i \in Nat, i \in S PROVE i + 1 \in S
  <2> SUFFICES ASSUME k - 1 <= i + 1, i + 1 <= n PROVE Knows(i + 1)
    OBVIOUS
  <2>1. CASE k - 1 = i + 1
    <3> HIDE DEF Knows
    <3> QED
      BY <1>2, <2>1
  <2>2. CASE k - 1 # i + 1
    <3>1. i + 1 \in 0..n /\ k <= i + 1 /\ (i + 1) - 1 = i /\ i + 1 # 0
      BY <2>2
    <3>2. Knows(i)
      BY <1>4, <3>1
    <3>3. /\ t[i + 1].tokens = IF clog[i + 1].kind = "say" THEN i + 1 ELSE t[i].tokens
          /\ u[i + 1].tokens = IF clog[i + 1].kind = "say" THEN i + 1 ELSE u[i].tokens
      BY <1>1, <3>1
    <3> QED
      BY <3>1, <3>2, <3>3
  <2> QED
    BY <2>1, <2>2
<1>5. n \in S
  <2> HIDE DEF S
  <2> QED
    BY <1>3, <1>4, Inductive
<1>6. Knows(n)
  BY <1>5
<1>7. t[n].event = u[n].event
  BY <1>1
<1> QED
  BY <1>6, <1>7

\* Reading a tail refreshes what an earlier full read knew.
LEMMA TailIsFresh == ClaudeInv => Claude!TailRefreshes
<1> SUFFICES ASSUME ClaudeInv, NEW k \in 1..Len(clog)
             PROVE  /\ Claude!ReadSessionMetaTail(k).event = Claude!ReadSessionMeta.event
                    /\ Claude!ReadSessionMeta.tokens =
                         IF Claude!ReadSessionMetaTail(k).tokens # 0 THEN Claude!ReadSessionMetaTail(k).tokens
                         ELSE Claude!FoldLines(Claude!MetaStep, Claude!NoMeta, 1, k - 1).tokens
  BY Zenon DEF Claude!TailRefreshes
<1>1. PICK n \in Nat : n = Len(clog)
  BY DEF ClaudeInv
<1>2. k \in 1..n /\ k \in Nat \ {0} /\ k - 1 \in Nat /\ k - 1 <= n
  BY <1>1
<1>3. PICK t : t = CHOOSE h : h = [i \in 0..n |-> IF i < k THEN Claude!NoMeta ELSE Claude!TailStep(h[i - 1], i)]
  OBVIOUS
<1>4. ReadsTail(t, k, n)
  BY <1>2, <1>3, TailIsRead DEF ReadsTail
<1>5. PICK u : u = CHOOSE h : h = [i \in 0..n |-> IF i < 1 THEN Claude!NoMeta ELSE Claude!MetaStep(h[i - 1], i)]
  OBVIOUS
<1>6. ReadsMeta(u, n)
  BY <1>5, MetaIsRead DEF ReadsMeta
<1>7. PICK m \in Nat : m = k - 1 /\ m <= n
  BY <1>2
<1>8. PICK f : f = CHOOSE h : h = [i \in 0..m |-> IF i < 1 THEN Claude!NoMeta ELSE Claude!MetaStep(h[i - 1], i)]
  OBVIOUS
<1>9. ReadsMeta(f, m)
  BY <1>8, MetaIsRead DEF ReadsMeta
<1>10. f[m] = u[m]
  BY <1>6, <1>7, <1>9, MetaSame
<1>11. /\ t[n].event = u[n].event
       /\ u[n].tokens = IF t[n].tokens # 0 THEN t[n].tokens ELSE u[k - 1].tokens
  BY <1>2, <1>4, <1>6, TailFollows
<1>12. Claude!ReadSessionMetaTail(k) = t[n]
  BY <1>1, <1>3 DEF Claude!ReadSessionMetaTail, Claude!FoldLines
<1>13. Claude!ReadSessionMeta = u[n]
  BY <1>1, <1>5 DEF Claude!ReadSessionMeta, Claude!FoldLines
<1>14. Claude!FoldLines(Claude!MetaStep, Claude!NoMeta, 1, m) = f[m]
  BY <1>8 DEF Claude!FoldLines
<1>15. PICK old : old = Claude!FoldLines(Claude!MetaStep, Claude!NoMeta, 1, m)
  OBVIOUS
<1>16. old = u[k - 1]
  BY <1>7, <1>10, <1>14, <1>15, Zenon
<1>17. Claude!FoldLines(Claude!MetaStep, Claude!NoMeta, 1, k - 1) = old
  BY <1>7, <1>15, Zenon
<1> QED
  BY <1>11, <1>12, <1>13, <1>16, <1>17, Zenon

\* One who follows the live parts of a Claude session, or reads the tail of its log,
\* sees what a reader of the whole log does: for any tools, and a log of any length.
THEOREM ClaudeViewsAgree == LogsSpec => []ViewsAgree
<1>1. LogsInit => ClaudeInv
  BY ClaudeStarts DEF LogsInit
<1>2. ClaudeInv /\ [LogsNext]_logsVars => ClaudeInv'
  <2> SUFFICES ASSUME ClaudeInv, [LogsNext]_logsVars PROVE ClaudeInv'
    OBVIOUS
  <2>1. CASE ClaudeStep
    BY <2>1, ClaudeGrows DEF ClaudeStep
  <2>2. CASE StreamStep \/ CodexStep \/ RoleStep \/ DshStep \/ PageStep
    <3>1. UNCHANGED claudeVars
      BY <2>2 DEF StreamStep, CodexStep, RoleStep, DshStep, PageStep
    <3> QED
      BY <3>1, ClaudeKept
  <2>3. CASE UNCHANGED logsVars
    <3>1. UNCHANGED claudeVars
      BY <2>3 DEF logsVars
    <3> QED
      BY <3>1, ClaudeKept
  <2> QED
    BY <2>1, <2>2, <2>3 DEF LogsNext
<1>3. ClaudeInv => ViewsAgree
  BY StoredIsShown, TailIsFresh DEF ViewsAgree
<1> QED
  BY <1>1, <1>2, <1>3, PTL DEF LogsSpec

-----------------------------------------------------------------------------
(* The assembler of a rollout (CodexLog).                                  *)

RolloutPart == [type : {"text", "thinking", "tool"}, body : Seq(Nat)]
Stash == [form : Codex!Forms \cup {"none"}, at : Nat]
RolloutRecord == [open : BOOLEAN, parts : Seq(RolloutPart), uuid : Nat, model : Nat, usage : Nat,
                  pending : [Calls -> Stash], seen : SUBSET Calls]
RolloutSet == {a \in RolloutRecord : ~a.open => a.parts = <<>>}
RolloutTurn == [role : {"assistant", "user", "system"}, parts : Seq(RolloutPart), uuid : Nat, usage : Nat]

\* The fields of an assembler.
LEMMA RolloutMade ==
    ASSUME NEW o \in BOOLEAN, NEW p \in Seq(RolloutPart), NEW u \in Nat, NEW m \in Nat, NEW g \in Nat,
           NEW q \in [Calls -> Stash], NEW s \in SUBSET Calls, ~o => p = <<>>
    PROVE  [open |-> o, parts |-> p, uuid |-> u, model |-> m, usage |-> g, pending |-> q, seen |-> s] \in RolloutSet
BY DEF RolloutSet, RolloutRecord

\* The same, taken apart.
LEMMA RolloutFields ==
    ASSUME NEW a \in RolloutSet
    PROVE  /\ a.open \in BOOLEAN /\ a.parts \in Seq(RolloutPart) /\ a.uuid \in Nat /\ a.model \in Nat /\ a.usage \in Nat
           /\ a.pending \in [Calls -> Stash] /\ a.seen \in SUBSET Calls
           /\ Len(a.parts) \in Nat /\ DOMAIN a.parts = 1..Len(a.parts)
           /\ ~a.open => a.parts = <<>>
BY DEF RolloutSet, RolloutRecord

\* An assembler with the same parts.
LEMMA Renoted ==
    ASSUME NEW a \in RolloutSet, NEW u \in Nat, NEW m \in Nat, NEW g \in Nat,
           NEW q \in [Calls -> Stash], NEW s \in SUBSET Calls, NEW b,
           b = [open |-> a.open, parts |-> a.parts, uuid |-> u, model |-> m, usage |-> g, pending |-> q, seen |-> s]
    PROVE  b \in RolloutSet /\ b.parts = a.parts
BY DEF RolloutSet, RolloutRecord

\* What a line does to the open turn: it closes it, or a part is published, or was
\* there.
Shows(a, o) ==
    /\ o.asm \in RolloutSet /\ o.done \in Seq(RolloutTurn)
    /\ \/ o.asm.parts = <<>>
       \/ /\ o.done = <<>>
          /\ \A i \in 1..Len(o.asm.parts) : i \in o.shown \/ (i \in 1..Len(a.parts) /\ o.asm.parts[i] = a.parts[i])

\* b is an assembler with the parts of a.
Alike(a, b) == b \in RolloutSet /\ b.parts = a.parts

\* Opening a turn leaves the parts.
LEMMA RolloutOpened ==
    ASSUME NEW a \in RolloutSet
    PROVE  Alike(a, Codex!Opened(a)) /\ Codex!Opened(a).open
<1>1. CASE a.open
  BY <1>1 DEF Codex!Opened, Alike
<1>2. CASE ~a.open
  <2>1. PICK p : p = <<>>
    OBVIOUS
  <2>2. Codex!Opened(a) = [open |-> TRUE, parts |-> p, uuid |-> 0, model |-> a.model, usage |-> 0,
                           pending |-> a.pending, seen |-> a.seen]
    BY <1>2, <2>1 DEF Codex!Opened, RolloutSet, RolloutRecord
  <2>3. TRUE \in BOOLEAN /\ p \in Seq(RolloutPart) /\ 0 \in Nat /\ p = a.parts
    BY <1>2, <2>1, RolloutFields
  <2>4. [open |-> TRUE, parts |-> p, uuid |-> 0, model |-> a.model, usage |-> 0,
         pending |-> a.pending, seen |-> a.seen] \in RolloutSet
    <3> HIDE DEF RolloutSet
    <3> QED
      BY <2>3, RolloutFields, RolloutMade
  <2> QED
    BY <2>2, <2>3, <2>4 DEF Alike
<1> QED
  BY <1>1, <1>2

\* A line that leaves the parts is not shown.
LEMMA IgnoredShows ==
    ASSUME NEW a, NEW b, Alike(a, b) PROVE Shows(a, Codex!Ignored(b))
<1>1. PICK o : o = Codex!Ignored(b)
  OBVIOUS
<1>2. o.asm = b /\ o.done = <<>>
  BY <1>1 DEF Codex!Ignored, Codex!Outcome
<1>3. b \in RolloutSet /\ b.parts = a.parts /\ <<>> \in Seq(RolloutTurn)
  BY DEF Alike
<1>4. Shows(a, o)
  <2> HIDE DEF RolloutSet
  <2> QED
    BY <1>2, <1>3 DEF Shows
<1> QED
  BY <1>1, <1>4

\* A part that is appended.
LEMMA AddedMakes ==
    ASSUME NEW b \in RolloutSet, NEW p \in RolloutPart
    PROVE  /\ Codex!Added(b, p) \in RolloutSet /\ Codex!Added(b, p).open
           /\ Codex!Added(b, p).parts = Append(b.parts, p) /\ Codex!Opened(b).parts = b.parts
           /\ Len(Append(b.parts, p)) = Len(b.parts) + 1 /\ Append(b.parts, p)[Len(b.parts) + 1] = p
           /\ \A i \in 1..Len(b.parts) : Append(b.parts, p)[i] = b.parts[i]
<1>1. PICK c : c = Codex!Opened(b)
  OBVIOUS
<1>2. c \in RolloutSet /\ c.open /\ c.parts = b.parts
  BY <1>1, RolloutOpened DEF Alike
<1>3. PICK q : q = Append(b.parts, p)
  OBVIOUS
<1>4. b.parts \in Seq(RolloutPart)
  BY RolloutFields
<1>5. /\ q \in Seq(RolloutPart) /\ Len(q) = Len(b.parts) + 1 /\ q[Len(b.parts) + 1] = p
      /\ \A i \in 1..Len(b.parts) : q[i] = b.parts[i]
  <2> HIDE DEF RolloutPart
  <2> QED
    BY <1>3, <1>4
<1>6. PICK d : d = Codex!Added(b, p)
  OBVIOUS
<1>8. d = [open |-> TRUE, parts |-> q, uuid |-> c.uuid, model |-> c.model, usage |-> c.usage,
           pending |-> c.pending, seen |-> c.seen]
  <2>1. d = [c EXCEPT !.parts = Append(@, p)]
    BY <1>1, <1>6 DEF Codex!Added
  <2>2. d = [c EXCEPT !.parts = q]
    BY <1>2, <1>3, <2>1
  <2>3. c.open = TRUE
    BY <1>2 DEF RolloutSet, RolloutRecord
  <2> QED
    BY <1>2, <2>2, <2>3 DEF RolloutSet, RolloutRecord
<1>7. d \in RolloutSet
  <2>1. TRUE \in BOOLEAN /\ (~TRUE => q = <<>>)
    OBVIOUS
  <2> HIDE DEF RolloutSet
  <2> QED
    BY <1>2, <1>5, <1>8, <2>1, RolloutFields, RolloutMade
<1> QED
  BY <1>1, <1>2, <1>3, <1>5, <1>6, <1>7, <1>8

\* A part that is appended is published.
LEMMA ShownShows ==
    ASSUME NEW a, NEW b, Alike(a, b), NEW p \in RolloutPart PROVE Shows(a, Codex!Shown(b, p))
<1>1. b \in RolloutSet /\ b.parts = a.parts /\ <<>> \in Seq(RolloutTurn)
  BY DEF Alike
<1>2. PICK c : c = Codex!Added(b, p)
  OBVIOUS
<1>3. PICK q, r : q = c.parts /\ r = a.parts
  OBVIOUS
<1>4. /\ c \in RolloutSet /\ Codex!Opened(b).parts = r /\ Len(q) = Len(r) + 1
      /\ \A i \in 1..Len(r) : q[i] = r[i]
  <2> HIDE DEF RolloutSet
  <2>1. /\ c \in RolloutSet /\ c.parts = Append(b.parts, p) /\ Codex!Opened(b).parts = b.parts
        /\ Len(Append(b.parts, p)) = Len(b.parts) + 1
        /\ \A i \in 1..Len(b.parts) : Append(b.parts, p)[i] = b.parts[i]
    <3>1. b \in RolloutSet
      BY <1>1
    <3> QED
      BY ONLY p \in RolloutPart, <1>2, <3>1, AddedMakes
  <2> QED
    BY <1>1, <1>3, <2>1
<1>5. PICK o : o = Codex!Shown(b, p)
  OBVIOUS
<1>6. o.asm = c /\ o.done = <<>> /\ o.shown = {Len(r) + 1}
  BY <1>2, <1>4, <1>5 DEF Codex!Shown, Codex!Outcome
<1>7. Len(r) \in Nat
  BY <1>1, <1>3, RolloutFields
<1>8. \A i \in 1..Len(q) : i \in o.shown \/ (i \in 1..Len(r) /\ q[i] = r[i])
  BY <1>4, <1>6, <1>7
<1>9. Shows(a, o)
  <2> HIDE DEF RolloutSet
  <2> QED
    BY <1>1, <1>3, <1>4, <1>6, <1>8 DEF Shows
<1> QED
  BY <1>5, <1>9

\* A boundary closes the turn, and so does its end.
LEMMA ClosedMakes ==
    ASSUME NEW a \in RolloutSet
    PROVE  Codex!Closed(a) \in RolloutSet /\ Codex!Closed(a).parts = <<>> /\ ~Codex!Closed(a).open
<1>1. PICK p : p = <<>>
  OBVIOUS
<1>2. PICK c : c = Codex!Closed(a)
  OBVIOUS
<1>3. c = [a EXCEPT !.open = FALSE, !.parts = p]
  BY <1>1, <1>2 DEF Codex!Closed
<1>4. c = [open |-> FALSE, parts |-> p, uuid |-> a.uuid, model |-> a.model, usage |-> a.usage,
           pending |-> a.pending, seen |-> a.seen]
  BY <1>3 DEF RolloutSet, RolloutRecord
<1>5. FALSE \in BOOLEAN /\ p \in Seq(RolloutPart) /\ (~FALSE => p = <<>>)
  BY <1>1
<1>6. c \in RolloutSet
  <2> HIDE DEF RolloutSet
  <2> QED
    BY <1>4, <1>5, RolloutFields, RolloutMade
<1> QED
  BY <1>1, <1>2, <1>4, <1>6

\* The turns they complete.
LEMMA FlushedTurns ==
    ASSUME NEW a \in RolloutSet, NEW role \in {"assistant", "user", "system"}
    PROVE  Codex!Flushed(a) \in Seq(RolloutTurn) /\ Codex!Turn(role, a) \in RolloutTurn
<1>1. \A r \in {"assistant", "user", "system"} : Codex!Turn(r, a) \in RolloutTurn
  BY RolloutFields DEF Codex!Turn, RolloutTurn
<1>2. PICK t \in RolloutTurn : t = Codex!Turn("assistant", a)
  BY <1>1
<1>3. Codex!Flushed(a) = <<t>> \/ Codex!Flushed(a) = <<>>
  BY <1>2 DEF Codex!Flushed
<1>4. Codex!Flushed(a) \in Seq(RolloutTurn)
  <2>1. <<>> \in Seq(RolloutTurn)
    OBVIOUS
  <2>2. <<t>> \in Seq(RolloutTurn)
    <3> HIDE DEF RolloutTurn
    <3> QED
      BY <1>2
  <2> QED
    BY <1>3, <2>1, <2>2
<1> QED
  BY <1>1, <1>4

\* A prompt or a summary.
LEMMA RolloutBoundaryShows ==
    ASSUME NEW a \in RolloutSet, NEW role \in {"user", "system"} PROVE Shows(a, Codex!FeedBoundary(a, role))
<1>1. PICK o : o = Codex!FeedBoundary(a, role)
  OBVIOUS
<1>2. PICK c : c = Codex!Closed(a)
  OBVIOUS
<1>3. c \in RolloutSet /\ c.parts = <<>>
  BY <1>2, ClosedMakes
<1>4. PICK s, t : s = Codex!Flushed(a) /\ t = Codex!Turn(role, Codex!Opened(c))
  OBVIOUS
<1>5. s \in Seq(RolloutTurn) /\ t \in RolloutTurn
  BY <1>3, <1>4, FlushedTurns, RolloutOpened DEF Alike
<1>6. o.asm = c /\ o.done = s \o <<t>>
  BY <1>1, <1>2, <1>4 DEF Codex!FeedBoundary, Codex!Outcome
<1>7. o.done \in Seq(RolloutTurn)
  <2> HIDE DEF RolloutTurn
  <2> QED
    BY <1>5, <1>6
<1>8. Shows(a, o)
  <2> HIDE DEF RolloutSet
  <2> QED
    BY <1>3, <1>6, <1>7 DEF Shows
<1> QED
  BY <1>1, <1>8

\* The end of a turn.
LEMMA CompleteShows ==
    ASSUME NEW a \in RolloutSet, NEW n \in Nat PROVE Shows(a, Codex!FeedComplete(a, n))
<1>1. PICK o : o = Codex!FeedComplete(a, n)
  OBVIOUS
<1>2. PICK c, b : c = Codex!Closed(a) /\ b = [a EXCEPT !.uuid = n]
  OBVIOUS
<1>3. c \in RolloutSet /\ c.parts = <<>>
  BY <1>2, ClosedMakes
<1>4. b = [open |-> a.open, parts |-> a.parts, uuid |-> n, model |-> a.model, usage |-> a.usage,
           pending |-> a.pending, seen |-> a.seen]
  BY <1>2 DEF RolloutSet, RolloutRecord
<1>5. b \in RolloutSet
  <2> HIDE DEF RolloutSet
  <2> QED
    BY <1>4, RolloutFields, RolloutMade
<1>6. o.asm = c /\ o.done = Codex!Flushed(b)
  BY <1>1, <1>2 DEF Codex!FeedComplete, Codex!Outcome
<1>7. o.done \in Seq(RolloutTurn)
  BY <1>5, <1>6, FlushedTurns
<1>8. Shows(a, o)
  <2> HIDE DEF RolloutSet
  <2> QED
    BY <1>3, <1>6, <1>7 DEF Shows
<1> QED
  BY <1>1, <1>8

\* What is noted of a call or of an MCP call leaves the parts.
LEMMA NotesAlike ==
    ASSUME NEW a \in RolloutSet, NEW t \in Calls, NEW s \in Stash
    PROVE  Alike(a, [a EXCEPT !.pending[t] = s]) /\ Alike(a, Codex!Marked(a, t))
<1>1. Alike(a, [a EXCEPT !.pending[t] = s])
  <2>1. PICK b, q : q = [a.pending EXCEPT ![t] = s] /\ b = [a EXCEPT !.pending = q]
    OBVIOUS
  <2>2. b = [open |-> a.open, parts |-> a.parts, uuid |-> a.uuid, model |-> a.model,
             usage |-> a.usage, pending |-> q, seen |-> a.seen]
    BY <2>1 DEF RolloutSet, RolloutRecord
  <2>3. q \in [Calls -> Stash]
    <3> HIDE DEF Stash
    <3> QED
      BY <2>1, RolloutFields
  <2>4. b \in RolloutSet /\ b.parts = a.parts
    <3>1. a.uuid \in Nat /\ a.model \in Nat /\ a.usage \in Nat /\ a.seen \in SUBSET Calls
      BY RolloutFields
    <3> HIDE DEF RolloutSet
    <3> QED
      BY <2>2, <2>3, <3>1, Renoted
  <2>5. [a EXCEPT !.pending[t] = s] = b
    BY <2>1
  <2> QED
    BY <2>4, <2>5 DEF Alike
<1>2. Alike(a, Codex!Marked(a, t))
  <2>1. PICK b, z : z = a.seen \cup {t} /\ b = Codex!Marked(a, t)
    OBVIOUS
  <2>2. b = [a EXCEPT !.seen = z]
    BY <2>1 DEF Codex!Marked
  <2>3. b = [open |-> a.open, parts |-> a.parts, uuid |-> a.uuid, model |-> a.model,
             usage |-> a.usage, pending |-> a.pending, seen |-> z]
    BY <2>2 DEF RolloutSet, RolloutRecord
  <2>4. z \in SUBSET Calls
    BY <2>1, RolloutFields
  <2>5. b \in RolloutSet /\ b.parts = a.parts
    <3> HIDE DEF RolloutSet
    <3> QED
      BY <2>3, <2>4, RolloutFields, Renoted
  <2> QED
    BY <2>1, <2>5 DEF Alike
<1> QED
  BY <1>1, <1>2

\* And so does what is noted of the model and the usage.
LEMMA ModelAlike ==
    ASSUME NEW a \in RolloutSet, NEW n \in Nat
    PROVE  Alike(a, [a EXCEPT !.model = n]) /\ Alike(a, Codex!AddUsage(a))
<1>1. Alike(a, [a EXCEPT !.model = n])
  <2>1. PICK b : b = [a EXCEPT !.model = n]
    OBVIOUS
  <2>2. b = [open |-> a.open, parts |-> a.parts, uuid |-> a.uuid, model |-> n,
             usage |-> a.usage, pending |-> a.pending, seen |-> a.seen]
    BY <2>1 DEF RolloutSet, RolloutRecord
  <2>3. b \in RolloutSet /\ b.parts = a.parts
    <3>1. a.uuid \in Nat /\ a.usage \in Nat /\ a.pending \in [Calls -> Stash] /\ a.seen \in SUBSET Calls
      BY RolloutFields
    <3> HIDE DEF RolloutSet
    <3> QED
      BY <2>2, <3>1, Renoted
  <2> QED
    BY <2>1, <2>3 DEF Alike
<1>2. Alike(a, Codex!AddUsage(a))
  <2>1. CASE a.open
    <3>1. PICK b, g : g = a.usage + 1 /\ b = Codex!AddUsage(a)
      OBVIOUS
    <3>2. b = [a EXCEPT !.usage = g]
      BY <2>1, <3>1 DEF Codex!AddUsage
    <3>3. b = [open |-> a.open, parts |-> a.parts, uuid |-> a.uuid, model |-> a.model,
               usage |-> g, pending |-> a.pending, seen |-> a.seen]
      BY <3>2 DEF RolloutSet, RolloutRecord
    <3>4. g \in Nat
      BY <3>1, RolloutFields
    <3>5. b \in RolloutSet /\ b.parts = a.parts
      <4> HIDE DEF RolloutSet
      <4> QED
        BY <3>3, <3>4, RolloutFields, Renoted
    <3> QED
      BY <3>1, <3>5 DEF Alike
  <2>2. CASE ~a.open
    BY <2>2 DEF Codex!AddUsage, Alike
  <2> QED
    BY <2>1, <2>2
<1> QED
  BY <1>1, <1>2

\* An output fills a part in its place, or is one of its own.
LEMMA FillShows ==
    ASSUME NEW a, NEW b, Alike(a, b), NEW at, NEW n \in Nat
    PROVE  Shows(a, Codex!Fill(b, at, n))
<1>1. PICK c, p : c = Codex!Opened(b) /\ p = Codex!Part("tool", <<n>>)
  OBVIOUS
<1>2. b \in RolloutSet /\ b.parts = a.parts
  BY DEF Alike
<1>3. c \in RolloutSet /\ c.open /\ c.parts = a.parts
  BY <1>1, <1>2, RolloutOpened DEF Alike
<1>4. p \in RolloutPart
  BY <1>1 DEF Codex!Part, RolloutPart
<1>5. CASE at \in 1..Len(c.parts)
  <2>1. PICK d, q : q = [c.parts EXCEPT ![at] = p] /\ d = [c EXCEPT !.parts = q]
    OBVIOUS
  <2>2. d = [c EXCEPT !.parts[at] = p]
    BY <1>3, <2>1
  <2>3. d = [open |-> c.open, parts |-> q, uuid |-> c.uuid, model |-> c.model, usage |-> c.usage,
             pending |-> c.pending, seen |-> c.seen]
    BY <1>3, <2>1 DEF RolloutSet, RolloutRecord
  <2>4. c.parts \in Seq(RolloutPart) /\ DOMAIN c.parts = 1..Len(c.parts) /\ Len(c.parts) \in Nat
    BY <1>3, RolloutFields
  <2>5. q \in Seq(RolloutPart) /\ Len(q) = Len(c.parts)
    <3> HIDE DEF RolloutPart
    <3> QED
      BY <1>4, <1>5, <2>1, <2>4
  <2>6. \A i \in 1..Len(q) : i # at => i \in 1..Len(c.parts) /\ q[i] = c.parts[i]
    BY <2>1, <2>4, <2>5
  <2>7. d \in RolloutSet
    <3>1. /\ c.uuid \in Nat /\ c.model \in Nat /\ c.usage \in Nat /\ c.pending \in [Calls -> Stash]
          /\ c.seen \in SUBSET Calls /\ c.open \in BOOLEAN
      BY <1>3, RolloutFields
    <3> HIDE DEF RolloutSet
    <3> QED
      BY <1>3, <2>3, <2>5, <3>1, RolloutMade
  <2>8. PICK o : o = Codex!Fill(b, at, n)
    OBVIOUS
  <2>9. o.asm = d /\ o.done = <<>> /\ o.shown = {at} /\ d.parts = q
    BY <1>1, <1>5, <2>2, <2>3, <2>8 DEF Codex!Fill, Codex!Outcome
  <2>10. Shows(a, o)
    <3>1. <<>> \in Seq(RolloutTurn)
      OBVIOUS
    <3> HIDE DEF RolloutSet
    <3> QED
      BY <1>3, <2>6, <2>7, <2>9, <3>1 DEF Shows
  <2> QED
    BY <2>8, <2>10
<1>6. CASE ~(at \in 1..Len(c.parts))
  <2>1. Codex!Fill(b, at, n) = Codex!Shown(b, p)
    BY <1>1, <1>6 DEF Codex!Fill
  <2> QED
    BY <1>4, <2>1, ShownShows
<1> QED
  BY <1>5, <1>6

\* A call stands up a card, or is noted.
LEMMA CallShows ==
    ASSUME NEW a \in RolloutSet, NEW l, l.id \in Calls, l.form \in Codex!Forms PROVE Shows(a, Codex!FeedCall(a, l))
<1>1. PICK t : t = l.id
  OBVIOUS
<1>2. CASE l.form = "skip"
  <2>1. Codex!NoneStash \in Stash
    BY DEF Codex!NoneStash, Stash, Codex!Forms
  <2>2. Alike(a, [a EXCEPT !.pending[t] = Codex!NoneStash])
    BY <1>1, <2>1, NotesAlike
  <2> QED
    BY <1>1, <1>2, <2>2, IgnoredShows DEF Codex!FeedCall
<1>3. CASE l.form # "skip"
  <2>1. PICK p, b : p = Codex!Part("tool", <<>>) /\ b = Codex!Added(a, p)
    OBVIOUS
  <2>2. p \in RolloutPart
    BY <2>1 DEF Codex!Part, RolloutPart
  <2>3. PICK q, r : q = b.parts /\ r = a.parts
    OBVIOUS
  <2>4. b \in RolloutSet /\ Len(q) = Len(r) + 1 /\ \A i \in 1..Len(r) : q[i] = r[i]
    <3> HIDE DEF RolloutSet
    <3>1. /\ b \in RolloutSet /\ b.parts = Append(a.parts, p)
          /\ Len(Append(a.parts, p)) = Len(a.parts) + 1
          /\ \A i \in 1..Len(a.parts) : Append(a.parts, p)[i] = a.parts[i]
      BY <2>1, <2>2, AddedMakes
    <3> QED
      BY <2>3, <3>1
  <2>5. Len(r) \in Nat
    BY <2>3, RolloutFields
  <2>6. PICK s : s = [form |-> l.form, at |-> Len(q)]
    OBVIOUS
  <2>7. s \in Stash
    BY <2>4, <2>5, <2>6 DEF Stash
  <2>8. PICK c : c = [b EXCEPT !.pending[t] = s]
    OBVIOUS
  <2>9. c \in RolloutSet /\ c.parts = q
    BY <1>1, <2>3, <2>4, <2>7, <2>8, NotesAlike DEF Alike
  <2>10. PICK o : o = Codex!FeedCall(a, l)
    OBVIOUS
  <2>11. o.asm = c /\ o.done = <<>> /\ o.shown = {Len(q)}
    BY <1>1, <1>3, <2>1, <2>3, <2>6, <2>8, <2>10 DEF Codex!FeedCall, Codex!Outcome
  <2>12. \A i \in 1..Len(q) : i \in o.shown \/ (i \in 1..Len(r) /\ q[i] = r[i])
    BY <2>4, <2>5, <2>11
  <2>13. Shows(a, o)
    <3>1. <<>> \in Seq(RolloutTurn)
      OBVIOUS
    <3> HIDE DEF RolloutSet
    <3> QED
      BY <2>3, <2>9, <2>11, <2>12, <3>1 DEF Shows
  <2> QED
    BY <2>10, <2>13
<1> QED
  BY <1>2, <1>3

\* What is alike is so through another.
LEMMA AlikeAgain == ASSUME NEW a, NEW b, NEW c, Alike(a, b), Alike(b, c) PROVE Alike(a, c)
BY DEF Alike

\* The records of an MCP call.
LEMMA McpShows ==
    ASSUME NEW a \in RolloutSet, NEW l, l.id \in Calls, NEW n \in Nat PROVE Shows(a, Codex!FeedMCP(a, l, n))
<1>1. Alike(a, Codex!Marked(a, l.id))
  <2>1. Codex!NoStash \in Stash
    BY DEF Codex!NoStash, Stash
  <2> QED
    BY <2>1, NotesAlike
<1>2. PICK p : p = Codex!Part("tool", <<n>>)
  OBVIOUS
<1>3. p \in RolloutPart
  BY <1>2 DEF Codex!Part, RolloutPart
<1>4. Alike(a, a)
  BY DEF Alike
<1>5. Shows(a, Codex!Shown(Codex!Marked(a, l.id), p)) /\ Shows(a, Codex!Ignored(a))
  BY <1>1, <1>3, <1>4, ShownShows, IgnoredShows
<1> QED
  BY <1>2, <1>5 DEF Codex!FeedMCP

\* An output.
LEMMA OutputShows ==
    ASSUME NEW a \in RolloutSet, NEW l, l.id \in Calls, NEW n \in Nat PROVE Shows(a, Codex!FeedOutput(a, l, n))
<1>1. PICK s, b, t : s = a.pending[l.id] /\ t = l.id /\ b = [a EXCEPT !.pending[t] = Codex!NoStash]
  OBVIOUS
<1>2. Codex!NoStash \in Stash
  BY DEF Codex!NoStash, Stash
<1>3. Alike(a, b)
  BY <1>1, <1>2, NotesAlike
<1>4. b \in RolloutSet
  BY <1>3 DEF Alike
<1>5. Alike(a, Codex!Marked(b, t))
  BY <1>1, <1>2, <1>3, <1>4, NotesAlike, AlikeAgain
<1>6. /\ Shows(a, Codex!Ignored(b)) /\ Shows(a, Codex!Fill(b, s.at, n))
      /\ Shows(a, Codex!Fill(Codex!Marked(b, t), s.at, n))
  BY <1>3, <1>5, IgnoredShows, FillShows
<1>7. \/ Codex!FeedOutput(a, l, n) = Codex!Ignored(b)
      \/ Codex!FeedOutput(a, l, n) = Codex!Fill(Codex!Marked(b, t), s.at, n)
      \/ Codex!FeedOutput(a, l, n) = Codex!Fill(b, s.at, n)
  BY <1>1 DEF Codex!FeedOutput
<1> QED
  BY <1>6, <1>7

\* What any line does.
LEMMA RolloutShows ==
    ASSUME NEW a \in RolloutSet, NEW l \in Codex!Lines, NEW n \in Nat PROVE Shows(a, Codex!Feed(a, l, n))
<1>1. Alike(a, a)
  BY DEF Alike
<1>2. Shows(a, Codex!Ignored(a))
  BY <1>1, IgnoredShows
<1>3. \A type \in {"text", "thinking", "tool"} : Shows(a, Codex!Shown(a, Codex!Part(type, <<n>>)))
  <2>1. \A type \in {"text", "thinking", "tool"} : Codex!Part(type, <<n>>) \in RolloutPart
    BY DEF Codex!Part, RolloutPart
  <2> QED
    BY <1>1, <2>1, ShownShows
<1>4. Shows(a, Codex!FeedBoundary(a, "user")) /\ Shows(a, Codex!FeedBoundary(a, "system"))
  BY RolloutBoundaryShows
<1>5. CASE l.kind = "call"
  <2>1. l.id \in Calls /\ l.form \in Codex!Forms /\ ~(l \in Codex!Told)
    BY <1>5 DEF Codex!Lines, Codex!Told
  <2>2. Codex!Feed(a, l, n) = Codex!FeedCall(a, l)
    BY <1>5, <2>1 DEF Codex!Feed, Codex!FeedResponseItem
  <2> QED
    BY <2>1, <2>2, CallShows
<1>6. CASE l.kind = "output"
  <2>1. l.id \in Calls /\ ~(l \in Codex!Told)
    BY <1>6 DEF Codex!Lines, Codex!Told
  <2>2. Codex!Feed(a, l, n) = Codex!FeedOutput(a, l, n)
    BY <1>6, <2>1 DEF Codex!Feed, Codex!FeedResponseItem
  <2> QED
    BY <2>1, <2>2, OutputShows
<1>7. CASE l.kind = "thinking"
  <2>1. ~(l \in Codex!Told)
    BY <1>7 DEF Codex!Told
  <2>2. Codex!Feed(a, l, n) = Codex!Shown(a, Codex!Part("thinking", <<n>>))
    BY <1>7, <2>1 DEF Codex!Feed, Codex!FeedResponseItem, Codex!FeedReasoning
  <2> QED
    BY <1>3, <2>2
<1>8. CASE l.kind \in {"tool", "complete", "aborted", "context", "tokens"}
  <2>1. ~(l \in Codex!Told)
    BY <1>8 DEF Codex!Told
  <2>2. CASE l.kind = "context"
    <3>1. Codex!Feed(a, l, n) = Codex!Ignored([a EXCEPT !.model = n])
      BY <2>1, <2>2 DEF Codex!Feed, Codex!FeedTurnContext
    <3> QED
      BY <3>1, ModelAlike, IgnoredShows
  <2>3. CASE l.kind = "tool"
    <3>1. Codex!Feed(a, l, n) = Codex!Shown(a, Codex!Part("tool", <<n>>))
      BY <2>1, <2>3 DEF Codex!Feed, Codex!FeedEvent, Codex!FeedTool
    <3> QED
      BY <1>3, <3>1
  <2>4. CASE l.kind = "complete"
    <3>1. Codex!Feed(a, l, n) = Codex!FeedComplete(a, n)
      BY <2>1, <2>4 DEF Codex!Feed, Codex!FeedEvent
    <3> QED
      BY <3>1, CompleteShows
  <2>5. CASE l.kind = "aborted"
    <3>1. Codex!Feed(a, l, n) = Codex!Ignored(a)
      BY <2>1, <2>5 DEF Codex!Feed, Codex!FeedEvent
    <3> QED
      BY <1>2, <3>1
  <2>6. CASE l.kind = "tokens"
    <3>1. Codex!Feed(a, l, n) = Codex!Ignored(Codex!AddUsage(a))
      BY <2>1, <2>6 DEF Codex!Feed, Codex!FeedEvent
    <3> QED
      BY <3>1, ModelAlike, IgnoredShows
  <2> QED
    BY <1>8, <2>2, <2>3, <2>4, <2>5, <2>6
<1>9. CASE l \in Codex!Told
  <2>1. l.kind \in {"prompt", "compact", "text", "mcpEnd"} /\ (l.kind = "mcpEnd" => l.id \in Calls)
    BY <1>9 DEF Codex!Told
  <2>2. \/ Codex!Feed(a, l, n) = Codex!FeedItem(a, l, n)
        \/ Codex!Feed(a, l, n) = Codex!FeedEvent(a, l, n)
    BY <1>9, <2>1 DEF Codex!Feed
  <2>3. CASE l.kind = "prompt"
    BY <1>4, <2>2, <2>3 DEF Codex!FeedItem, Codex!FeedEvent
  <2>4. CASE l.kind = "compact"
    BY <1>4, <2>2, <2>4 DEF Codex!FeedItem, Codex!FeedEvent
  <2>5. CASE l.kind = "text"
    BY <1>3, <2>2, <2>5 DEF Codex!FeedItem, Codex!FeedEvent
  <2>6. CASE l.kind = "mcpEnd"
    <3>1. Shows(a, Codex!FeedMCP(a, l, n))
      BY <2>1, <2>6, McpShows
    <3> QED
      BY <2>2, <2>6, <3>1 DEF Codex!FeedItem, Codex!FeedEvent, Codex!FeedMCPItem
  <2> QED
    BY <2>1, <2>3, <2>4, <2>5, <2>6
<1> QED
  BY <1>5, <1>6, <1>7, <1>8, <1>9 DEF Codex!Lines

\* f is what a reader has made of each number of lines up to n.
ReadsRollout(f, n) ==
    f = [i \in 0..n |-> IF i < 1 THEN [asm |-> Codex!NewAssembler, done |-> <<>>] ELSE Codex!ReadLine(f[i - 1], i)]

\* The stream's assembler and turns are a reader's, and its viewer shows the open turn.
RolloutRead == \E f : ReadsRollout(f, Len(rollout)) /\ f[Len(rollout)] = [asm |-> basm, done |-> bturns]

RolloutInv ==
    /\ rollout \in Seq(Codex!Lines) /\ basm \in RolloutSet
    /\ RolloutRead /\ blive = basm.parts

\* At the beginning nothing is written or shown.
LEMMA NewRollout == Codex!NewAssembler \in RolloutSet /\ Codex!NewAssembler.parts = <<>>
<1>1. PICK p, q, s : p = <<>> /\ q = [t \in Calls |-> Codex!NoStash] /\ s = {}
  OBVIOUS
<1>2. Codex!NoStash \in Stash
  BY DEF Codex!NoStash, Stash
<1>3. p \in Seq(RolloutPart) /\ q \in [Calls -> Stash] /\ s \in SUBSET Calls /\ FALSE \in BOOLEAN /\ (~FALSE => p = <<>>)
  BY <1>1, <1>2
<1>4. [open |-> FALSE, parts |-> p, uuid |-> 0, model |-> 0, usage |-> 0, pending |-> q, seen |-> s] \in RolloutSet
  <2>1. 0 \in Nat
    OBVIOUS
  <2> HIDE DEF RolloutSet
  <2> QED
    BY <1>3, <2>1, RolloutMade
<1> QED
  BY <1>1, <1>4 DEF Codex!NewAssembler

\* The same of the invariant.
LEMMA RolloutStarts == Codex!Init => RolloutInv
<1> SUFFICES ASSUME Codex!Init PROVE RolloutInv
  OBVIOUS
<1>1. rollout = <<>> /\ basm = Codex!NewAssembler /\ bturns = <<>> /\ blive = <<>>
  BY DEF Codex!Init
<1>2. rollout \in Seq(Codex!Lines) /\ Len(rollout) = 0
  BY <1>1
<1>3. RolloutRead
  <2>1. PICK x, f : x = [asm |-> Codex!NewAssembler, done |-> <<>>] /\ f = [i \in 0..0 |-> x]
    OBVIOUS
  <2>2. f = [i \in 0..0 |-> IF i < 1 THEN x ELSE Codex!ReadLine(f[i - 1], i)]
    BY <2>1
  <2>3. ReadsRollout(f, Len(rollout))
    BY <1>2, <2>1, <2>2 DEF ReadsRollout
  <2>4. f[Len(rollout)] = [asm |-> basm, done |-> bturns]
    BY <1>1, <1>2, <2>1
  <2> QED
    BY <2>3, <2>4 DEF RolloutRead
<1> QED
  BY <1>1, <1>2, <1>3, NewRollout DEF RolloutInv

\* Appending a line reads it.
LEMMA RolloutReadGrows ==
    ASSUME rollout \in Seq(Codex!Lines), RolloutRead, NEW l \in Codex!Lines, rollout' = Append(rollout, l),
           NEW o, o = Codex!Feed(basm, l, Len(rollout) + 1), basm' = o.asm, bturns' = bturns \o o.done
    PROVE  RolloutRead'
<1>1. PICK f : ReadsRollout(f, Len(rollout)) /\ f[Len(rollout)] = [asm |-> basm, done |-> bturns]
  BY DEF RolloutRead
<1>2. PICK n \in Nat : n = Len(rollout)
  OBVIOUS
<1>3. /\ Len(rollout') = n + 1 /\ rollout'[n + 1] = l
      /\ \A i \in 1..n : rollout'[i] = rollout[i]
  BY <1>2
<1>4. PICK g : g = [i \in 0..(n + 1) |-> IF i = n + 1 THEN [asm |-> basm', done |-> bturns'] ELSE f[i]]
  OBVIOUS
<1>10. PICK start : start = [asm |-> Codex!NewAssembler, done |-> <<>>]
  OBVIOUS
<1>5. ASSUME NEW i \in 0..(n + 1)
      PROVE  g[i] = (IF i < 1 THEN start ELSE Codex!ReadLine(g[i - 1], i)')
  <2>1. CASE i = n + 1
    <3>1. g[i - 1] = [asm |-> basm, done |-> bturns] /\ ~(i < 1) /\ i - 1 = n
      BY <1>1, <1>2, <1>4, <2>1
    <3>2. PICK x : x = [asm |-> basm, done |-> bturns]
      OBVIOUS
    <3>3. x.asm = basm /\ x.done = bturns
      BY <3>2
    <3>4. Codex!ReadLine(x, i)' = [asm |-> o.asm, done |-> bturns \o o.done]
      BY <1>2, <1>3, <2>1, <3>3 DEF Codex!ReadLine
    <3>5. g[i] = [asm |-> basm', done |-> bturns']
      BY <1>4, <2>1
    <3> QED
      BY <3>1, <3>2, <3>4, <3>5
  <2>2. CASE i # n + 1
    <3>1. i \in 0..n
      BY <2>2
    <3>2. f[i] = IF i < 1 THEN start ELSE Codex!ReadLine(f[i - 1], i)
      BY <1>1, <1>2, <1>10, <3>1 DEF ReadsRollout
    <3>3. g[i] = f[i]
      BY <1>4, <2>2
    <3>4. CASE i < 1
      BY <3>2, <3>3, <3>4
    <3>5. CASE ~(i < 1)
      <4>1. g[i - 1] = f[i - 1] /\ rollout'[i] = rollout[i]
        BY <1>3, <1>4, <3>1, <3>5
      <4>2. Codex!ReadLine(g[i - 1], i)' = Codex!ReadLine(f[i - 1], i)
        BY <4>1 DEF Codex!ReadLine
      <4> QED
        BY <3>2, <3>3, <3>5, <4>2
    <3> QED
      BY <3>4, <3>5
  <2> QED
    BY <2>1, <2>2
<1>6. ReadsRollout(g, Len(rollout))'
  <2>1. g = [i \in 0..(n + 1) |-> g[i]]
    BY <1>4
  <2>2. g = [i \in 0..(n + 1) |-> (IF i < 1 THEN start ELSE Codex!ReadLine(g[i - 1], i)')]
    BY <1>5, <2>1
  <2> QED
    BY <1>3, <1>10, <2>2 DEF ReadsRollout
<1>7. g[Len(rollout')] = [asm |-> basm', done |-> bturns']
  BY <1>3, <1>4
<1> QED
  BY <1>6, <1>7 DEF RolloutRead

\* The steps of the rollout.
LEMMA RolloutGrows == RolloutInv /\ Codex!Next => RolloutInv'
<1> SUFFICES ASSUME RolloutInv, Codex!Next PROVE RolloutInv'
  OBVIOUS
<1>1. PICK l \in Codex!Lines : Codex!Grow(l)
  BY DEF Codex!Next, Codex!Written
<1>2. PICK o, n : n = Len(rollout) + 1 /\ o = Codex!Feed(basm, l, n)
  OBVIOUS
<1>3. rollout' = Append(rollout, l) /\ basm' = o.asm /\ bturns' = bturns \o o.done /\ blive' = Codex!View(blive, o)
  BY <1>1, <1>2 DEF Codex!Grow
<1>4. rollout \in Seq(Codex!Lines) /\ basm \in RolloutSet /\ RolloutRead /\ blive = basm.parts
  BY DEF RolloutInv
<1>5. rollout' \in Seq(Codex!Lines) /\ n \in Nat
  BY <1>2, <1>3, <1>4
<1>6. RolloutRead'
  BY <1>2, <1>3, <1>4, RolloutReadGrows
<1>7. PICK a, p, q : a = basm /\ p = a.parts /\ q = o.asm.parts
  OBVIOUS
<1>8. Shows(a, o)
  BY <1>2, <1>4, <1>5, <1>7, RolloutShows
<1>9. basm' \in RolloutSet
  BY <1>3, <1>8 DEF Shows
<1>10. blive' = [i \in 1..Len(q) |-> IF i \in o.shown THEN q[i]
                                    ELSE IF i \in DOMAIN p /\ o.done = <<>> THEN p[i] ELSE <<>>]
  BY <1>3, <1>4, <1>7 DEF Codex!View
<1>11. DOMAIN p = 1..Len(p) /\ q = [i \in 1..Len(q) |-> q[i]]
  <2>1. q \in Seq(RolloutPart)
    BY <1>3, <1>7, <1>9, RolloutFields
  <2>2. q = [i \in 1..Len(q) |-> q[i]]
    <3> HIDE DEF RolloutPart
    <3> QED
      BY <2>1
  <2> QED
    BY <1>4, <1>7, <2>2, RolloutFields
<1>12. blive' = q
  <2>1. CASE q = <<>>
    <3>1. Len(q) = 0
      BY <2>1
    <3>2. 1..Len(q) = {}
      BY <3>1
    <3> QED
      BY <1>10, <2>1, <3>2
  <2>2. CASE /\ o.done = <<>>
             /\ \A i \in 1..Len(q) : i \in o.shown \/ (i \in 1..Len(p) /\ q[i] = p[i])
    <3>1. \A i \in 1..Len(q) : (IF i \in o.shown THEN q[i]
                                ELSE IF i \in DOMAIN p /\ o.done = <<>> THEN p[i] ELSE <<>>) = q[i]
      BY <1>11, <2>2
    <3>2. blive' = [i \in 1..Len(q) |-> q[i]]
      BY <1>10, <3>1
    <3> QED
      BY <1>11, <3>2
  <2> QED
    BY <1>7, <1>8, <2>1, <2>2 DEF Shows
<1> QED
  BY <1>3, <1>5, <1>6, <1>7, <1>9, <1>12 DEF RolloutInv

\* Nothing else touches the rollout or its readers.
LEMMA RolloutKept == RolloutInv /\ UNCHANGED codexVars => RolloutInv'
BY DEF RolloutInv, RolloutRead, ReadsRollout, Codex!ReadLine, codexVars

\* Reads of m lines and of more lines agree on m.
LEMMA RolloutSame ==
    ASSUME NEW m \in Nat, NEW n \in Nat, m <= n, NEW f, ReadsRollout(f, m), NEW g, ReadsRollout(g, n)
    PROVE  f[m] = g[m]
<1> DEFINE S == {i \in Nat : i <= m => f[i] = g[i]}
<1>1. 0 \in S
  BY DEF ReadsRollout
<1>2. ASSUME NEW i \in Nat, i \in S PROVE i + 1 \in S
  <2> SUFFICES ASSUME i + 1 <= m PROVE f[i + 1] = g[i + 1]
    OBVIOUS
  <2>1. i + 1 \in 0..m /\ i + 1 \in 0..n /\ ~(i + 1 < 1) /\ (i + 1) - 1 = i /\ f[i] = g[i]
    BY <1>2
  <2>2. f[i + 1] = Codex!ReadLine(f[i], i + 1)
    BY <2>1 DEF ReadsRollout
  <2>3. g[i + 1] = Codex!ReadLine(g[i], i + 1)
    BY <2>1 DEF ReadsRollout
  <2> QED
    BY <2>1, <2>2, <2>3
<1>3. m \in S
  <2> HIDE DEF S
  <2> QED
    BY <1>1, <1>2, Inductive
<1> QED
  BY <1>3

\* What was read of fewer lines goes on.
LEMMA RolloutRestricted ==
    ASSUME NEW n \in Nat, NEW m \in 0..n, NEW f, ReadsRollout(f, n)
    PROVE  \E g : ReadsRollout(g, m)
<1>1. PICK start : start = [asm |-> Codex!NewAssembler, done |-> <<>>]
  OBVIOUS
<1>2. PICK g : g = [i \in 0..m |-> f[i]]
  OBVIOUS
<1>3. ASSUME NEW i \in 0..m PROVE g[i] = IF i < 1 THEN start ELSE Codex!ReadLine(g[i - 1], i)
  <2>1. i \in 0..n /\ f[i] = IF i < 1 THEN start ELSE Codex!ReadLine(f[i - 1], i)
    BY <1>1 DEF ReadsRollout
  <2>2. ~(i < 1) => i - 1 \in 0..m /\ g[i - 1] = f[i - 1]
    BY <1>2
  <2> QED
    BY <1>2, <2>1, <2>2
<1>4. g = [i \in 0..m |-> IF i < 1 THEN start ELSE Codex!ReadLine(g[i - 1], i)]
  BY <1>2, <1>3
<1> QED
  BY <1>1, <1>4 DEF ReadsRollout

\* What ReadTurns reads of the first k lines.
LEMMA RolloutTurns ==
    ASSUME NEW n \in Nat, NEW k \in 0..n, NEW f, ReadsRollout(f, n)
    PROVE  Codex!ReadTurns(k) = f[k].done \o Codex!Flushed(f[k].asm)
<1>1. PICK g : g = CHOOSE h : h = [i \in 0..k |-> IF i < 1 THEN [asm |-> Codex!NewAssembler, done |-> <<>>]
                                               ELSE Codex!ReadLine(h[i - 1], i)]
  OBVIOUS
<1>2. ReadsRollout(g, k)
  <2>1. g = CHOOSE h : ReadsRollout(h, k)
    BY <1>1 DEF ReadsRollout
  <2>2. \E h : ReadsRollout(h, k)
    <3>1. k \in Nat /\ k <= n
      OBVIOUS
    <3> QED
      BY <3>1, RolloutRestricted
  <2> QED
    BY <2>1, <2>2
<1>3. g[k] = f[k]
  <2>1. k \in Nat /\ k <= n
    OBVIOUS
  <2> QED
    BY <1>2, <2>1, RolloutSame
<1>4. Codex!ReadTurns(k) = g[k].done \o Codex!Flushed(g[k].asm)
  BY <1>1 DEF Codex!ReadTurns
<1> QED
  BY <1>3, <1>4

\* Turns that are complete stay.
Begins(s, u) == Len(s) <= Len(u) /\ \A i \in 1..Len(s) : u[i] = s[i]

\* So what began a sequence begins what it goes on to.
LEMMA BeginsLonger ==
    ASSUME NEW v, Len(v) \in Nat, NEW s \in Seq(RolloutTurn), NEW u \in Seq(RolloutTurn), Begins(v, s)
    PROVE  Begins(v, s \o u)
<1>1. /\ Len(s \o u) = Len(s) + Len(u)
      /\ \A i \in 1..Len(s) + Len(u) : (s \o u)[i] = IF i <= Len(s) THEN s[i] ELSE u[i - Len(s)]
  BY ConcatProperties
<1>2. Len(s) \in Nat /\ Len(u) \in Nat
  OBVIOUS
<1>3. Len(v) <= Len(s) /\ \A i \in 1..Len(v) : s[i] = v[i]
  BY DEF Begins
<1>4. \A i \in 1..Len(v) : i \in 1..Len(s) + Len(u) /\ i <= Len(s)
  BY <1>2, <1>3
<1>5. Len(v) <= Len(s \o u)
  BY <1>1, <1>2, <1>3
<1>6. \A i \in 1..Len(v) : (s \o u)[i] = v[i]
  BY <1>1, <1>3, <1>4
<1> QED
  BY <1>5, <1>6 DEF Begins

\* What is read has its types.
LEMMA RolloutTyped ==
    ASSUME rollout \in Seq(Codex!Lines), NEW f, ReadsRollout(f, Len(rollout))
    PROVE  \A i \in 0..Len(rollout) : f[i].asm \in RolloutSet /\ f[i].done \in Seq(RolloutTurn)
<1>1. PICK n \in Nat : n = Len(rollout)
  OBVIOUS
<1> DEFINE Good(i) == f[i].asm \in RolloutSet /\ f[i].done \in Seq(RolloutTurn)
           S == {i \in Nat : i <= n => Good(i)}
<1>2. 0 \in S
  <2>1. f[0] = [asm |-> Codex!NewAssembler, done |-> <<>>]
    BY <1>1 DEF ReadsRollout
  <2>2. Good(0)
    BY <2>1, NewRollout
  <2> HIDE DEF Good
  <2> QED
    BY <2>2
<1>3. ASSUME NEW i \in Nat, i \in S PROVE i + 1 \in S
  <2> SUFFICES ASSUME i + 1 <= n PROVE Good(i + 1)
    OBVIOUS
  <2>1. i + 1 \in 0..n /\ i + 1 \in 1..n /\ ~(i + 1 < 1) /\ (i + 1) - 1 = i /\ i \in 0..n /\ Good(i)
    BY <1>3
  <2>2. f[i + 1] = Codex!ReadLine(f[i], i + 1)
    BY <1>1, <2>1 DEF ReadsRollout
  <2>3. PICK a, l, o : a = f[i].asm /\ l = rollout[i + 1] /\ o = Codex!Feed(a, l, i + 1)
    OBVIOUS
  <2>4. f[i + 1] = [asm |-> o.asm, done |-> f[i].done \o o.done]
    BY <2>2, <2>3 DEF Codex!ReadLine
  <2>5. a \in RolloutSet /\ l \in Codex!Lines
    BY <1>1, <2>1, <2>3
  <2>6. Shows(a, o)
    BY <2>3, <2>5, RolloutShows
  <2>7. o.asm \in RolloutSet /\ o.done \in Seq(RolloutTurn)
    BY <2>6 DEF Shows
  <2>8. f[i].done \o o.done \in Seq(RolloutTurn)
    BY <2>1, <2>7, ConcatProperties
  <2> HIDE DEF RolloutSet
  <2> QED
    BY <2>4, <2>7, <2>8
<1>4. Nat \subseteq S
  <2> HIDE DEF S
  <2> QED
    BY <1>2, <1>3, Inductive
<1>5. ASSUME NEW i \in 0..n PROVE Good(i)
  <2>1. i \in S
    BY <1>4
  <2> QED
    BY <2>1
<1> QED
  BY <1>1, <1>5

\* What was complete after t lines begins what is complete later.
LEMMA RolloutGoesOn ==
    ASSUME rollout \in Seq(Codex!Lines), NEW f, ReadsRollout(f, Len(rollout)), NEW t \in 0..Len(rollout)
    PROVE  Begins(f[t].done, f[Len(rollout)].done)
<1>1. PICK n \in Nat : n = Len(rollout)
  OBVIOUS
<1>2. PICK v : v = f[t].done
  OBVIOUS
<1>3. \A i \in 0..n : f[i].done \in Seq(RolloutTurn)
  BY <1>1, RolloutTyped
<1>4. v \in Seq(RolloutTurn) /\ Len(v) \in Nat /\ t \in 0..n
  BY <1>1, <1>2, <1>3
<1> DEFINE S == {i \in Nat : t <= i /\ i <= n => Begins(v, f[i].done)}
<1>5. Begins(v, f[t].done)
  BY <1>2, <1>4 DEF Begins
<1>6. 0 \in S
  <2>1. t <= 0 => t = 0
    BY <1>4
  <2> QED
    BY <1>5, <2>1
<1>7. ASSUME NEW i \in Nat, i \in S PROVE i + 1 \in S
  <2> SUFFICES ASSUME t <= i + 1, i + 1 <= n PROVE Begins(v, f[i + 1].done)
    OBVIOUS
  <2>1. CASE t = i + 1
    BY <1>5, <2>1
  <2>2. CASE t # i + 1
    <3>1. t <= i /\ i + 1 \in 0..n /\ i + 1 \in 1..n /\ ~(i + 1 < 1) /\ (i + 1) - 1 = i /\ i \in 0..n
      BY <1>4, <2>2
    <3>2. Begins(v, f[i].done)
      BY <1>7, <3>1
    <3>3. f[i + 1] = Codex!ReadLine(f[i], i + 1)
      BY <1>1, <3>1 DEF ReadsRollout
    <3>4. PICK s, u : s = f[i].done /\ u = Codex!Feed(f[i].asm, rollout[i + 1], i + 1).done
      OBVIOUS
    <3>5. f[i + 1].done = s \o u
      <4>1. PICK a, l, o, e, w : /\ a = f[i].asm /\ l = rollout[i + 1] /\ o = Codex!Feed(a, l, i + 1)
                                 /\ e = f[i + 1] /\ w = s \o u
        OBVIOUS
      <4>2. e = [asm |-> o.asm, done |-> w]
        BY <3>3, <3>4, <4>1 DEF Codex!ReadLine
      <4>3. e.done = w
        BY <4>2
      <4> QED
        BY <4>1, <4>3
    <3>6. s \in Seq(RolloutTurn)
      BY <1>3, <3>1, <3>4
    <3>7. u \in Seq(RolloutTurn)
      <4>1. f[i].asm \in RolloutSet /\ rollout[i + 1] \in Codex!Lines
        BY <1>1, <3>1, RolloutTyped
      <4> QED
        BY <3>4, <4>1, RolloutShows DEF Shows
    <3> QED
      BY <1>4, <3>2, <3>4, <3>5, <3>6, <3>7, BeginsLonger
  <2> QED
    BY <2>1, <2>2
<1>8. n \in S
  <2> HIDE DEF S
  <2> QED
    BY <1>6, <1>7, Inductive
<1> QED
  BY <1>1, <1>2, <1>4, <1>8

\* A fork through a turn reads as the session did at the end of that turn, and the
\* stream of the open turn shows what a read of the file shows.
LEMMA RolloutForks == RolloutInv => Codex!ForkReadsTheSame
<1> SUFFICES ASSUME RolloutInv PROVE Codex!ForkReadsTheSame
  OBVIOUS
<1>1. rollout \in Seq(Codex!Lines) /\ blive = basm.parts /\ basm \in RolloutSet
  BY DEF RolloutInv
<1>2. PICK f : ReadsRollout(f, Len(rollout)) /\ f[Len(rollout)] = [asm |-> basm, done |-> bturns]
  BY DEF RolloutInv, RolloutRead
<1>3. PICK n \in Nat : n = Len(rollout)
  BY <1>1
<1>4. Codex!ReadTurns(n) = bturns \o Codex!Flushed(basm)
  <2>1. n \in 0..n
    OBVIOUS
  <2>2. Codex!ReadTurns(n) = f[n].done \o Codex!Flushed(f[n].asm)
    BY <1>2, <1>3, <2>1, RolloutTurns
  <2>3. f[n].done = bturns /\ f[n].asm = basm
    BY <1>2, <1>3
  <2> QED
    BY <2>2, <2>3
<1>5. ASSUME NEW t \in 1..n, Codex!ForkPrefix(t) # -1
      PROVE  /\ Codex!ForkPrefix(t) = t
             /\ Codex!IsPrefix(Codex!ReadTurns(t), bturns \o Codex!Flushed(basm))
  <2>1. Codex!ForkPrefix(t) = t /\ rollout[t].kind = "complete"
    BY <1>5 DEF Codex!ForkPrefix, Codex!IsTurnComplete
  <2>2. t \in 0..n /\ t - 1 \in 0..n /\ ~(t < 1) /\ t \in Nat
    OBVIOUS
  <2>3. f[t] = Codex!ReadLine(f[t - 1], t)
    BY <1>2, <1>3, <2>2 DEF ReadsRollout
  <2>4. f[t - 1].asm \in RolloutSet
    BY <1>1, <1>2, <1>3, <2>2, RolloutTyped
  <2>5. Codex!Feed(f[t - 1].asm, rollout[t], t) = Codex!FeedComplete(f[t - 1].asm, t)
    <3>1. ~(rollout[t] \in Codex!Told)
      BY <2>1 DEF Codex!Told
    <3> QED
      BY <2>1, <3>1 DEF Codex!Feed, Codex!FeedEvent
  <2>6. f[t].asm = Codex!Closed(f[t - 1].asm)
    BY <2>3, <2>5 DEF Codex!ReadLine, Codex!FeedComplete, Codex!Outcome
  <2>7. Codex!Flushed(f[t].asm) = <<>>
    BY <2>4, <2>6, ClosedMakes DEF Codex!Flushed
  <2>8. PICK s, u, w : s = f[t].done /\ u = bturns /\ w = Codex!Flushed(basm)
    OBVIOUS
  <2>9. s \in Seq(RolloutTurn) /\ u \in Seq(RolloutTurn) /\ u = f[n].done
    <3>1. n \in 0..n
      OBVIOUS
    <3>2. f[n].done = u
      BY <1>2, <1>3, <2>8
    <3> QED
      BY <1>1, <1>2, <1>3, <2>2, <2>8, <3>1, <3>2, RolloutTyped
  <2>10. w \in Seq(RolloutTurn)
    BY <1>1, <2>8, FlushedTurns
  <2>11. Codex!ReadTurns(t) = s
    <3>1. Codex!ReadTurns(t) = s \o <<>>
      BY <1>2, <1>3, <2>2, <2>7, <2>8, RolloutTurns
    <3> QED
      BY <2>9, <3>1, ConcatEmptySeq
  <2>12. Begins(s, u)
    BY <1>1, <1>2, <1>3, <2>2, <2>8, <2>9, RolloutGoesOn
  <2>13. Begins(s, u \o w)
    <3>1. Len(s) \in Nat
      BY <2>9
    <3> QED
      BY <2>9, <2>10, <2>12, <3>1, BeginsLonger
  <2>14. Codex!IsPrefix(s, u \o w)
    <3>1. PICK r : r = u \o w
      OBVIOUS
    <3>2. Len(s) \in Nat /\ Len(s) <= Len(r) /\ \A i \in 1..Len(s) : r[i] = s[i]
      BY <2>9, <2>13, <3>1 DEF Begins
    <3>3. SubSeq(s, 1, Len(s)) = SubSeq(r, 1, Len(s))
      BY <3>2
    <3> QED
      BY <3>1, <3>2, <3>3 DEF Codex!IsPrefix
  <2> QED
    BY <2>1, <2>8, <2>11, <2>14
<1>6. ASSUME NEW t \in 1..n, Codex!ForkPrefix(t) # -1
      PROVE  /\ \A m \in 1..t : Codex!Segment(m) = Codex!Segment(t) => m <= Codex!ForkPrefix(t)
             /\ \A u \in Codex!ToSet(Codex!ReadTurns(Codex!ForkPrefix(t))) :
                  u.role = "assistant" /\ u.uuid = t => Codex!ForkPrefix(t) = t
  <2>1. \A m \in 1..t : m <= t
    OBVIOUS
  <2> QED
    BY <1>5, <1>6, <2>1
<1> QED
  BY <1>1, <1>3, <1>4, <1>5, <1>6 DEF Codex!ForkReadsTheSame

\* Every number of a set that is not empty is at least the least one.
LEMMA Least ==
    ASSUME NEW S, S \subseteq Nat, S # {}
    PROVE  \E x \in S : \A y \in S : x <= y
<1> DEFINE R == OpToRel(<, Nat)
<1>1. IsWellFoundedOn(R, Nat)
  BY NatLessThanWellFounded
<1>2. \E x \in S : \A y \in S : ~(<<y, x>> \in R)
  <2> HIDE DEF R
  <2> QED
    BY <1>1, WFMin
<1>3. PICK x \in S : \A y \in S : ~(<<y, x>> \in R)
  BY <1>2
<1>4. \A y \in S : ~(y < x)
  BY <1>3 DEF OpToRel
<1>5. \A y \in S : x \in Nat /\ y \in Nat
  OBVIOUS
<1>6. \A y \in S : x <= y
  BY <1>4, <1>5
<1> QED
  BY <1>3, <1>6

\* A fork of a Claude log keeps the turn of its fork point, and all before it.
LEMMA ClaudeForks == ClaudeInv => Claude!ForkKeepsTurn
<1> SUFFICES ASSUME ClaudeInv,
                    NEW p \in 1..Len(clog), Claude!ForkPrefix(p) # -1
             PROVE  /\ Claude!ForkPrefix(p) >= p
                    /\ \/ Claude!ForkPrefix(p) = Len(clog)
                       \/ clog[Claude!ForkPrefix(p) + 1].kind \in {"prompt", "interrupted"}
                       \/ clog[Claude!ForkPrefix(p) + 1].kind = "skill" /\ Claude!ForkPrefix(p) + 1 > p
  BY DEF Claude!ForkKeepsTurn
<1>1. PICK m \in Nat : m = Len(clog)
  BY DEF ClaudeInv
<1>2. PICK cuts : cuts = {n \in 1..m : Claude!CutsFork(p, n)}
  OBVIOUS
<1>3. CASE cuts # {}
  <2>1. \E x \in cuts : \A y \in cuts : x <= y
    <3>1. cuts \subseteq Nat
      BY <1>2
    <3> QED
      BY <1>3, <3>1, Least
  <2>2. PICK x : x = CHOOSE n \in cuts : \A y \in cuts : n <= y
    OBVIOUS
  <2>3. x \in cuts
    BY <2>1, <2>2
  <2>4. Claude!ForkPrefix(p) = x - 1
    BY <1>1, <1>2, <1>3, <2>2 DEF Claude!ForkPrefix
  <2>5. x \in 1..m /\ x > p /\ clog[x].kind \in {"prompt", "interrupted", "skill"}
    BY <1>2, <2>3 DEF Claude!CutsFork
  <2>6. (x - 1) + 1 = x /\ x - 1 >= p
    BY <1>1, <2>5
  <2> QED
    BY <2>4, <2>5, <2>6
<1>4. CASE cuts = {}
  <2>1. Claude!ForkPrefix(p) = m
    BY <1>1, <1>2, <1>4 DEF Claude!ForkPrefix
  <2> QED
    BY <1>1, <2>1
<1> QED
  BY <1>3, <1>4

-----------------------------------------------------------------------------
(* pi's tree and its fork (RoleLog).                                       *)

RoleBlock == [type : {"text", "thinking", "call", "result"}, id : {0} \cup CallIds]
RoleEntry == [role : {"user", "assistant", "result", "end"}, blocks : Seq(RoleBlock), parent : Nat]

\* A line is written under an earlier one, or under none.
RoleInv == entries \in Seq(RoleEntry) /\ \A n \in 1..Len(entries) : entries[n].parent \in 0..(n - 1)

\* B gives the branch of each of the first m lines.
Branches(B, m) == B = [n \in 0..m |-> IF n < 1 THEN <<>> ELSE Append(B[entries[n].parent], n)]

\* Every line has one.
LEMMA BranchesAre ==
    ASSUME RoleInv
    PROVE  \E B : Branches(B, Len(entries))
<1>1. PICK m \in Nat : m = Len(entries)
  BY DEF RoleInv
<1> DEFINE S == {n \in Nat : n <= m => \E B : Branches(B, n)}
<1>2. 0 \in S
  <2>1. PICK B : B = [n \in 0..0 |-> <<>>]
    OBVIOUS
  <2>2. B = [n \in 0..0 |-> IF n < 1 THEN <<>> ELSE Append(B[entries[n].parent], n)]
    BY <2>1
  <2>3. Branches(B, 0)
    BY <2>2 DEF Branches
  <2> QED
    BY <2>3
<1>3. ASSUME NEW n \in Nat, n \in S PROVE n + 1 \in S
  <2> SUFFICES ASSUME n + 1 <= m PROVE \E B : Branches(B, n + 1)
    OBVIOUS
  <2>1. PICK A : Branches(A, n)
    BY <1>3
  <2>2. PICK B : B = [j \in 0..(n + 1) |-> IF j = n + 1 THEN Append(A[entries[n + 1].parent], n + 1) ELSE A[j]]
    OBVIOUS
  <2>3. ASSUME NEW j \in 0..(n + 1)
        PROVE  B[j] = IF j < 1 THEN <<>> ELSE Append(B[entries[j].parent], j)
    <3>1. j >= 1 => /\ entries[j].parent \in 0..(j - 1) /\ entries[j].parent # n + 1
                    /\ entries[j].parent \in 0..(n + 1)
      <4>1. j >= 1 => j \in 1..Len(entries)
        BY <1>1
      <4> QED
        BY <4>1 DEF RoleInv
    <3>2. j >= 1 => B[entries[j].parent] = A[entries[j].parent]
      BY <2>2, <3>1
    <3>3. CASE j = n + 1
      BY <2>2, <3>1, <3>2, <3>3
    <3>4. CASE j # n + 1
      <4>1. j \in 0..n /\ B[j] = A[j]
        BY <2>2, <3>4
      <4>2. A[j] = IF j < 1 THEN <<>> ELSE Append(A[entries[j].parent], j)
        BY <2>1, <4>1 DEF Branches
      <4> QED
        BY <3>1, <3>2, <4>1, <4>2
    <3> QED
      BY <3>3, <3>4
  <2>4. B = [j \in 0..(n + 1) |-> B[j]]
    BY <2>2
  <2>5. B = [j \in 0..(n + 1) |-> IF j < 1 THEN <<>> ELSE Append(B[entries[j].parent], j)]
    BY <2>3, <2>4
  <2> QED
    BY <2>5 DEF Branches
<1>4. m \in S
  <2> HIDE DEF S
  <2> QED
    BY <1>2, <1>3, Inductive
<1> QED
  BY <1>1, <1>4

\* Branch reads it off.
LEMMA BranchIs ==
    ASSUME RoleInv
    PROVE  \E B : Branches(B, Len(entries)) /\ \A n \in 0..Len(entries) : Role!Branch(n) = B[n]
<1>1. PICK B : B = CHOOSE C : C = [n \in 0..Len(entries) |-> IF n < 1 THEN <<>> ELSE Append(C[entries[n].parent], n)]
  OBVIOUS
<1>2. Branches(B, Len(entries))
  BY <1>1, BranchesAre DEF Branches
<1>3. \A n \in 0..Len(entries) : Role!Branch(n) = B[n]
  BY <1>1 DEF Role!Branch
<1> QED
  BY <1>2, <1>3

\* The branch b of line n: lines up to n, in their order, of which each has its own
\* branch for beginning.
BranchOf(B, b, n) ==
    /\ b \in Seq(Nat)
    /\ n >= 1 => Len(b) >= 1 /\ b[Len(b)] = n
    /\ \A i \in 1..Len(b) : b[i] \in 1..n
    /\ \A i, j \in 1..Len(b) : i < j => b[i] < b[j]
    /\ \A i \in 1..Len(b) : Len(B[b[i]]) = i /\ \A j \in 1..i : B[b[i]][j] = b[j]

\* A line under another goes on with that one's branch.
LEMMA BranchGoesOn ==
    ASSUME NEW B, NEW n \in Nat, n >= 1, NEW p \in 0..(n - 1), NEW a, BranchOf(B, a, p),
           NEW b, b = Append(a, n), B[n] = b
    PROVE  BranchOf(B, b, n)
<1>1. a \in Seq(Nat) /\ Len(a) \in Nat
  BY DEF BranchOf
<1>2. /\ b \in Seq(Nat) /\ Len(b) = Len(a) + 1 /\ b[Len(a) + 1] = n
      /\ \A i \in 1..Len(a) : b[i] = a[i]
  BY <1>1
<1>3. \A i \in 1..Len(b) : i \in 1..Len(a) \/ i = Len(a) + 1
  BY <1>1, <1>2
<1>4. \A i \in 1..Len(a) : a[i] \in 1..p
  BY DEF BranchOf
<1>5. \A i \in 1..Len(b) : b[i] \in 1..n
  <2>1. n \in 1..n /\ \A x \in 1..p : x \in 1..n
    OBVIOUS
  <2> QED
    BY <1>2, <1>3, <1>4, <2>1
<1>6. ASSUME NEW i \in 1..Len(b), NEW j \in 1..Len(b), i < j PROVE b[i] < b[j]
  <2>1. i \in 1..Len(a)
    BY <1>1, <1>2, <1>6
  <2>2. CASE j \in 1..Len(a)
    <3>1. a[i] < a[j]
      BY <1>6, <2>1, <2>2 DEF BranchOf
    <3> QED
      BY <1>2, <2>1, <2>2, <3>1
  <2>3. CASE j = Len(a) + 1
    <3>1. a[i] < n
      BY <1>4, <2>1
    <3> QED
      BY <1>2, <2>1, <2>3, <3>1
  <2> QED
    BY <1>3, <2>2, <2>3
<1>7. ASSUME NEW i \in 1..Len(b) PROVE Len(B[b[i]]) = i /\ \A j \in 1..i : B[b[i]][j] = b[j]
  <2>1. CASE i \in 1..Len(a)
    <3>1. Len(B[a[i]]) = i /\ \A j \in 1..i : B[a[i]][j] = a[j]
      BY <2>1 DEF BranchOf
    <3>2. \A j \in 1..i : j \in 1..Len(a)
      BY <1>1, <2>1
    <3>3. b[i] = a[i]
      BY <1>2, <2>1
    <3> QED
      BY <1>2, <3>1, <3>2, <3>3
  <2>2. CASE i = Len(a) + 1
    <3>1. B[b[i]] = b /\ Len(b) = i
      BY <1>2, <2>2
    <3> QED
      BY <3>1
  <2> QED
    BY <1>3, <2>1, <2>2
<1>8. Len(b) >= 1 /\ b[Len(b)] = n
  BY <1>1, <1>2
<1> QED
  BY <1>2, <1>5, <1>6, <1>7, <1>8 DEF BranchOf

\* Every branch is one.
LEMMA BranchesOf ==
    ASSUME RoleInv, NEW B, Branches(B, Len(entries)), NEW n \in 0..Len(entries)
    PROVE  BranchOf(B, B[n], n)
<1>1. PICK m \in Nat : m = Len(entries)
  BY DEF RoleInv
<1> DEFINE S == {k \in Nat : \A i \in 0..k : i <= m => BranchOf(B, B[i], i)}
<1>2. 0 \in S
  <2>1. B[0] = <<>>
    BY <1>1 DEF Branches
  <2>2. PICK b : b = <<>>
    OBVIOUS
  <2>3. b \in Seq(Nat) /\ Len(b) = 0 /\ 1..0 = {} /\ ~(0 >= 1)
    BY <2>2
  <2>4. BranchOf(B, b, 0)
    BY <2>3 DEF BranchOf
  <2>5. \A i \in 0..0 : i = 0
    OBVIOUS
  <2> QED
    BY <2>1, <2>2, <2>4, <2>5
<1>3. ASSUME NEW k \in Nat, k \in S PROVE k + 1 \in S
  <2> SUFFICES ASSUME NEW i \in 0..(k + 1), i <= m PROVE BranchOf(B, B[i], i)
    OBVIOUS
  <2>1. CASE i <= k
    <3>1. i \in 0..k
      BY <2>1
    <3> QED
      BY <1>3, <3>1
  <2>2. CASE i = k + 1
    <3>1. i \in 1..Len(entries) /\ i \in 0..Len(entries) /\ ~(i < 1) /\ i \in Nat /\ i >= 1
      BY <1>1, <2>2
    <3>2. PICK p : p = entries[i].parent
      OBVIOUS
    <3>3. p \in 0..(i - 1)
      BY <3>1, <3>2 DEF RoleInv
    <3>4. p \in 0..k /\ p <= m
      BY <2>2, <3>3
    <3>5. BranchOf(B, B[p], p)
      BY <1>3, <3>4
    <3>6. B[i] = Append(B[p], i)
      BY <3>1, <3>2 DEF Branches
    <3> QED
      BY <3>1, <3>3, <3>5, <3>6, BranchGoesOn
  <2> QED
    BY <2>1, <2>2
<1>4. m \in S
  <2> HIDE DEF S
  <2> QED
    BY <1>2, <1>3, Inductive
<1>5. n \in 0..m /\ n <= m
  BY <1>1
<1> QED
  BY <1>4, <1>5

RolePart == [type : {"text", "thinking", "tool"}, id : {0} \cup CallIds, at : Nat, body : Nat]
RoleAsm == {a \in [open : BOOLEAN, parts : Seq(RolePart), uuid : Nat] : ~a.open => a.parts = <<>>}
RoleTurn == [role : {"user", "assistant"}, parts : Seq(RolePart), uuid : Nat]

\* A line that is no user's completes nothing, and leaves the open turn its id; a turn
\* it opens has its own, or none.
Continues(a, o, n) ==
    /\ o.asm \in RoleAsm /\ o.done = <<>>
    /\ a.open => o.asm.open /\ o.asm.uuid = a.uuid
    /\ ~a.open /\ o.asm.open => o.asm.uuid \in {0, n}

\* What an assembler is made of.
LEMMA RoleAsmMade ==
    ASSUME NEW open \in BOOLEAN, NEW parts \in Seq(RolePart), NEW uuid \in Nat, ~open => parts = <<>>
    PROVE  [open |-> open, parts |-> parts, uuid |-> uuid] \in RoleAsm
BY DEF RoleAsm

\* And what it holds.
LEMMA RoleAsmFields ==
    ASSUME NEW a \in RoleAsm
    PROVE  /\ a.open \in BOOLEAN /\ a.parts \in Seq(RolePart) /\ a.uuid \in Nat
           /\ a = [open |-> a.open, parts |-> a.parts, uuid |-> a.uuid]
           /\ ~a.open => a.parts = <<>>
BY DEF RoleAsm

\* A block of a line is a part.
LEMMA RolePartIs ==
    ASSUME NEW b \in RoleBlock, NEW n \in Nat
    PROVE  Role!Part(b, n) \in RolePart
<1>1. b.type \in {"text", "thinking", "call", "result"} /\ b.id \in {0} \cup CallIds
  BY DEF RoleBlock
<1>2. PICK t, m : t = (IF b.type \in {"call", "result"} THEN "tool" ELSE b.type) /\ m = (IF b.type = "call" THEN 0 ELSE n)
  OBVIOUS
<1>3. t \in {"text", "thinking", "tool"} /\ m \in Nat
  BY <1>1, <1>2
<1>4. Role!Part(b, n) = [type |-> t, id |-> b.id, at |-> n, body |-> m]
  BY <1>2 DEF Role!Part
<1> QED
  BY <1>1, <1>3, <1>4 DEF RolePart

\* Opening a turn.
LEMMA RoleOpens ==
    ASSUME flavour = "pi", NEW a \in RoleAsm, NEW e, NEW n \in Nat
    PROVE  /\ Role!Opened(a, e, n) \in RoleAsm /\ Role!Opened(a, e, n).open
           /\ a.open => Role!Opened(a, e, n).uuid = a.uuid
           /\ ~a.open => Role!Opened(a, e, n).uuid \in {0, n}
<1>1. CASE a.open
  <2>1. Role!Opened(a, e, n) = a
    BY <1>1 DEF Role!Opened
  <2> QED
    BY <1>1, <2>1
<1>2. CASE ~a.open
  <2>1. PICK p, u : p = <<>> /\ u = (IF flavour = "pi" /\ e.role = "result" THEN 0 ELSE n)
    OBVIOUS
  <2>2. p \in Seq(RolePart) /\ u \in {0, n} /\ u \in Nat
    BY <2>1
  <2>3. Role!Opened(a, e, n) = [open |-> TRUE, parts |-> p, uuid |-> u]
    BY <1>2, <2>1 DEF Role!Opened
  <2>4. Role!Opened(a, e, n) \in RoleAsm
    <3> HIDE DEF RoleAsm
    <3> QED
      BY <2>2, <2>3, RoleAsmMade
  <2> QED
    BY <1>2, <2>2, <2>3, <2>4
<1>3. a.open \in BOOLEAN
  BY RoleAsmFields
<1> QED
  BY <1>1, <1>2, <1>3

\* A line of the assistant.
LEMMA RoleAssistant ==
    ASSUME flavour = "pi", NEW a \in RoleAsm, NEW e \in RoleEntry, NEW n \in Nat
    PROVE  Continues(a, Role!FeedAssistant(a, e, n), n)
<1>1. PICK b, bs : b = Role!Opened(a, e, n) /\ bs = e.blocks
  OBVIOUS
<1>2. /\ b \in RoleAsm /\ b.open
      /\ a.open => b.uuid = a.uuid
      /\ ~a.open => b.uuid \in {0, n}
  BY <1>1, RoleOpens
<1>3. bs \in Seq(RoleBlock)
  BY <1>1 DEF RoleEntry
<1>4. PICK q, p : q = [i \in 1..Len(bs) |-> Role!Part(bs[i], n)] /\ p = b.parts \o q
  OBVIOUS
<1>5. p \in Seq(RolePart)
  <2>1. Len(bs) \in Nat /\ \A i \in 1..Len(bs) : Role!Part(bs[i], n) \in RolePart
    BY <1>3, RolePartIs
  <2> HIDE DEF RolePart
  <2>2. q \in Seq(RolePart)
    BY <1>4, <2>1
  <2>3. b.parts \in Seq(RolePart)
    BY <1>2, RoleAsmFields
  <2> QED
    BY <1>4, <2>2, <2>3
<1>6. PICK c : c = [b EXCEPT !.parts = @ \o q]
  OBVIOUS
<1>7. c = [open |-> b.open, parts |-> p, uuid |-> b.uuid]
  <2>1. b = [open |-> b.open, parts |-> b.parts, uuid |-> b.uuid]
    BY <1>2, RoleAsmFields
  <2> QED
    BY <1>2, <1>4, <1>6, <2>1 DEF RoleAsm
<1>8. c \in RoleAsm
  <2>1. b.open \in BOOLEAN /\ b.uuid \in Nat
    BY <1>2, RoleAsmFields
  <2> HIDE DEF RoleAsm
  <2> QED
    BY <1>2, <1>5, <1>7, <2>1, RoleAsmMade
<1>9. PICK o : o = Role!FeedAssistant(a, e, n)
  OBVIOUS
<1>10. o.asm = c /\ o.done = <<>>
  BY <1>1, <1>4, <1>6, <1>9 DEF Role!FeedAssistant, Role!Outcome
<1>11. c.open = b.open /\ c.uuid = b.uuid
  BY <1>7
<1> QED
  BY <1>2, <1>8, <1>9, <1>10, <1>11 DEF Continues

\* A part renewed is a part.
LEMMA RoleRenewed ==
    ASSUME NEW p \in Seq(RolePart), NEW i, NEW n \in Nat
    PROVE  [p EXCEPT ![i].body = n] \in Seq(RolePart)
<1>1. PICK q : q = [p EXCEPT ![i].body = n]
  OBVIOUS
<1>2. Len(p) \in Nat /\ \A x \in 1..Len(p) : p[x] \in RolePart
  OBVIOUS
<1>3. q = [x \in 1..Len(p) |-> IF x = i THEN [p[i] EXCEPT !.body = n] ELSE p[x]]
  <2>1. PICK v : v = [p[i] EXCEPT !.body = n]
    OBVIOUS
  <2>2. q = [p EXCEPT ![i] = v]
    BY <1>1, <2>1
  <2>3. DOMAIN p = 1..Len(p) /\ p = [x \in 1..Len(p) |-> p[x]]
    OBVIOUS
  <2>4. q = [x \in 1..Len(p) |-> IF x = i THEN v ELSE p[x]]
    BY <2>2, <2>3
  <2> QED
    BY <2>1, <2>4
<1>4. ASSUME NEW x \in 1..Len(p) PROVE (IF x = i THEN [p[i] EXCEPT !.body = n] ELSE p[x]) \in RolePart
  <2>1. p[x] \in RolePart
    BY <1>2
  <2>2. CASE x = i
    <3>1. PICK r : r = p[i]
      OBVIOUS
    <3>2. r \in RolePart
      BY <2>1, <2>2, <3>1
    <3>3. [r EXCEPT !.body = n] \in RolePart
      BY <3>2 DEF RolePart
    <3> QED
      BY <2>2, <3>1, <3>3
  <2>3. CASE x # i
    BY <2>1, <2>3
  <2> QED
    BY <2>2, <2>3
<1> HIDE DEF RolePart
<1>5. q \in Seq(RolePart)
  <2>1. q \in [1..Len(p) -> RolePart]
    BY <1>3, <1>4
  <2>2. Len(p) \in Nat
    BY <1>2
  <2> QED
    BY <2>1, <2>2
<1> QED
  BY <1>1, <1>5

\* A result of an open turn.
LEMMA RoleFilled ==
    ASSUME NEW o, o.asm \in RoleAsm, o.asm.open, NEW b \in RoleBlock, NEW n \in Nat
    PROVE  /\ Role!FillOne(o, b, n).asm \in RoleAsm /\ Role!FillOne(o, b, n).done = <<>>
           /\ Role!FillOne(o, b, n).asm.open /\ Role!FillOne(o, b, n).asm.uuid = o.asm.uuid
<1>1. PICK a, cards : a = o.asm /\ cards = Role!Cards(a, b.id)
  OBVIOUS
<1>0. PICK last : last = CHOOSE h \in cards : \A j \in cards : j <= h
  OBVIOUS
<1>2. PICK i : i = IF cards = {} THEN Len(a.parts) + 1 ELSE last
  OBVIOUS
<1>3. PICK p : p = IF cards = {} THEN Append(a.parts, Role!Part(b, n)) ELSE [a.parts EXCEPT ![i].body = n]
  OBVIOUS
<1>4. a \in RoleAsm /\ a.open
  BY <1>1
<1>5. a = [open |-> a.open, parts |-> a.parts, uuid |-> a.uuid] /\ a.parts \in Seq(RolePart) /\ a.open \in BOOLEAN /\ a.uuid \in Nat
  BY <1>4, RoleAsmFields
<1>6. p \in Seq(RolePart)
  <2>1. Role!Part(b, n) \in RolePart
    BY RolePartIs
  <2>2. [a.parts EXCEPT ![i].body = n] \in Seq(RolePart)
    BY <1>5, RoleRenewed
  <2> HIDE DEF RolePart
  <2> QED
    BY <1>3, <1>5, <2>1, <2>2
<1>7. PICK c : c = [open |-> a.open, parts |-> p, uuid |-> a.uuid]
  OBVIOUS
<1>8. c \in RoleAsm
  <2> HIDE DEF RoleAsm
  <2> QED
    BY <1>4, <1>5, <1>6, <1>7, RoleAsmMade
<1>9. Role!FillOne(o, b, n) = Role!Outcome([a EXCEPT !.parts = p], <<>>, o.shown \cup {i})
  BY ONLY <1>0, <1>1, <1>2, <1>3 DEF Role!FillOne
<1>10. [a EXCEPT !.parts = p] = c
  BY <1>5, <1>7
<1>11. Role!FillOne(o, b, n).asm = c /\ Role!FillOne(o, b, n).done = <<>>
  BY <1>9, <1>10 DEF Role!Outcome
<1>12. c.open = a.open /\ c.uuid = a.uuid
  BY <1>7
<1> QED
  BY <1>1, <1>4, <1>8, <1>11, <1>12

\* A line of results.
Fills(g, x, bs, n, m) == g = [i \in 0..m |-> IF i < 1 THEN x ELSE Role!FillOne(g[i - 1], bs[i], n)]

\* Its results are taken one after the other.
LEMMA FillsAre ==
    ASSUME NEW x, NEW bs, NEW n, NEW m \in Nat
    PROVE  \E g : Fills(g, x, bs, n, m)
<1> DEFINE S == {k \in Nat : \E g : Fills(g, x, bs, n, k)}
<1>1. 0 \in S
  <2>1. PICK g : g = [i \in 0..0 |-> x]
    OBVIOUS
  <2>2. g = [i \in 0..0 |-> IF i < 1 THEN x ELSE Role!FillOne(g[i - 1], bs[i], n)]
    BY <2>1
  <2> QED
    BY <2>2 DEF Fills
<1>2. ASSUME NEW k \in Nat, k \in S PROVE k + 1 \in S
  <2>1. PICK g : Fills(g, x, bs, n, k)
    BY <1>2
  <2>2. PICK h : h = [i \in 0..(k + 1) |-> IF i = k + 1 THEN Role!FillOne(g[k], bs[k + 1], n) ELSE g[i]]
    OBVIOUS
  <2>3. ASSUME NEW i \in 0..(k + 1)
        PROVE  h[i] = IF i < 1 THEN x ELSE Role!FillOne(h[i - 1], bs[i], n)
    <3>1. CASE i = k + 1
      <4>1. h[i] = Role!FillOne(g[k], bs[k + 1], n) /\ h[k] = g[k] /\ i - 1 = k /\ ~(i < 1)
        BY <2>2, <3>1
      <4> QED
        BY <3>1, <4>1
    <3>2. CASE i # k + 1
      <4>1. i \in 0..k /\ h[i] = g[i]
        BY <2>2, <3>2
      <4>2. ~(i < 1) => h[i - 1] = g[i - 1]
        BY <2>2, <4>1
      <4>3. g[i] = IF i < 1 THEN x ELSE Role!FillOne(g[i - 1], bs[i], n)
        BY <2>1, <4>1 DEF Fills
      <4> QED
        BY <4>1, <4>2, <4>3
    <3> QED
      BY <3>1, <3>2
  <2>4. h = [i \in 0..(k + 1) |-> h[i]]
    BY <2>2
  <2>5. Fills(h, x, bs, n, k + 1)
    BY <2>3, <2>4 DEF Fills
  <2> QED
    BY <2>5
<1>3. m \in S
  <2> HIDE DEF S
  <2> QED
    BY <1>1, <1>2, Inductive
<1> QED
  BY <1>3

\* The same of a line of results.
LEMMA RoleResult ==
    ASSUME flavour = "pi", NEW a \in RoleAsm, NEW e \in RoleEntry, NEW n \in Nat
    PROVE  Continues(a, Role!FeedResult(a, e, n), n)
<1>1. PICK b, bs : b = Role!Opened(a, e, n) /\ bs = e.blocks
  OBVIOUS
<1>2. /\ b \in RoleAsm /\ b.open
      /\ a.open => b.uuid = a.uuid
      /\ ~a.open => b.uuid \in {0, n}
  BY <1>1, RoleOpens
<1>3. bs \in Seq(RoleBlock)
  BY <1>1 DEF RoleEntry
<1>4. PICK m \in Nat : m = Len(bs)
  BY <1>3
<1>5. PICK x : x = Role!Outcome(b, <<>>, {})
  OBVIOUS
<1>6. PICK g : g = CHOOSE h : h = [i \in 0..m |-> IF i < 1 THEN x ELSE Role!FillOne(h[i - 1], bs[i], n)]
  OBVIOUS
<1>7. Fills(g, x, bs, n, m)
  <2>1. g = CHOOSE h : Fills(h, x, bs, n, m)
    BY <1>6 DEF Fills
  <2>2. \E h : Fills(h, x, bs, n, m)
    BY FillsAre
  <2> QED
    BY <2>1, <2>2
<1>8. Role!FeedResult(a, e, n) = g[m]
  <2>1. e.blocks = bs /\ Len(e.blocks) = m /\ Role!Outcome(Role!Opened(a, e, n), <<>>, {}) = x
    BY <1>1, <1>4, <1>5
  <2> QED
    BY ONLY <1>6, <2>1 DEF Role!FeedResult
<1> DEFINE Good(o) == o.asm \in RoleAsm /\ o.done = <<>> /\ o.asm.open /\ o.asm.uuid = b.uuid
           S == {i \in Nat : i <= m => Good(g[i])}
<1>9. 0 \in S
  <2>1. g[0] = x
    BY <1>7 DEF Fills
  <2>2. x.asm = b /\ x.done = <<>>
    BY <1>5 DEF Role!Outcome
  <2> QED
    BY <1>2, <2>1, <2>2
<1>10. ASSUME NEW i \in Nat, i \in S PROVE i + 1 \in S
  <2> SUFFICES ASSUME i + 1 <= m PROVE Good(g[i + 1])
    OBVIOUS
  <2>1. i + 1 \in 0..m /\ ~(i + 1 < 1) /\ (i + 1) - 1 = i /\ i + 1 \in 1..Len(bs) /\ i <= m
    BY <1>4
  <2>2. Good(g[i])
    BY <1>10, <2>1
  <2>3. g[i + 1] = Role!FillOne(g[i], bs[i + 1], n)
    BY <1>7, <2>1 DEF Fills
  <2>4. PICK o, c : o = g[i] /\ c = bs[i + 1]
    OBVIOUS
  <2>5. c \in RoleBlock
    BY <1>3, <2>1, <2>4
  <2>6. o.asm \in RoleAsm /\ o.asm.open /\ o.asm.uuid = b.uuid
    BY <2>2, <2>4
  <2> HIDE DEF RoleAsm, RoleBlock
  <2>7. /\ Role!FillOne(o, c, n).asm \in RoleAsm /\ Role!FillOne(o, c, n).done = <<>>
        /\ Role!FillOne(o, c, n).asm.open /\ Role!FillOne(o, c, n).asm.uuid = o.asm.uuid
    BY <2>5, <2>6, RoleFilled
  <2> QED
    BY <2>3, <2>4, <2>6, <2>7
<1>11. m \in S
  <2> HIDE DEF S
  <2> QED
    BY <1>9, <1>10, Inductive
<1>12. PICK o : o = Role!FeedResult(a, e, n)
  OBVIOUS
<1>13. Good(o)
  BY <1>8, <1>11, <1>12
<1> QED
  BY <1>2, <1>12, <1>13 DEF Continues

\* What a line of pi's log does.
Tells(a, o, e, n) ==
    /\ e.role = "user" =>
         /\ o.asm = Role!NewAssembler
         /\ o.done = Role!Taken(a) \o (IF e.blocks = <<>> THEN <<>> ELSE <<Role!Turn("user", <<>>, n)>>)
    /\ e.role # "user" => Continues(a, o, n)

\* Every line of it does.
LEMMA RoleTells ==
    ASSUME flavour = "pi", NEW a \in RoleAsm, NEW e \in RoleEntry, NEW n \in Nat
    PROVE  Tells(a, Role!FeedLineParts(a, e, n), e, n)
<1>1. PICK o : o = Role!FeedLineParts(a, e, n)
  OBVIOUS
<1>2. o = Role!FeedPi(a, e, n)
  BY <1>1 DEF Role!FeedLineParts
<1>3. e.role \in {"user", "assistant", "result", "end"}
  BY DEF RoleEntry
<1>4. CASE e.role = "user"
  <2>1. o = Role!FeedUser(a, e, n)
    BY <1>2, <1>4 DEF Role!FeedPi
  <2> QED
    BY <1>1, <1>4, <2>1 DEF Tells, Role!FeedUser, Role!Outcome
<1>5. CASE e.role = "assistant"
  <2>1. o = Role!FeedAssistant(a, e, n)
    BY <1>2, <1>5 DEF Role!FeedPi
  <2> QED
    BY <1>1, <1>5, <2>1, RoleAssistant DEF Tells
<1>6. CASE e.role = "result"
  <2>1. o = Role!FeedResult(a, e, n)
    BY <1>2, <1>6 DEF Role!FeedPi
  <2> QED
    BY <1>1, <1>6, <2>1, RoleResult DEF Tells
<1>7. CASE e.role = "end"
  <2>1. o = Role!Outcome(a, <<>>, {})
    BY <1>2, <1>7 DEF Role!FeedPi
  <2>2. o.asm = a /\ o.done = <<>>
    BY <2>1 DEF Role!Outcome
  <2> QED
    BY <1>1, <1>7, <2>2 DEF Tells, Continues
<1> QED
  BY <1>3, <1>4, <1>5, <1>6, <1>7

\* f is what a reader has made of each number of lines of the branch b, up to n.
ReadsBranch(f, b, n) ==
    f = [i \in 0..n |-> IF i < 1 THEN [asm |-> Role!NewAssembler, done |-> <<>>, live |-> <<>>]
                        ELSE Role!ReadLine(f[i - 1], b[i])]

\* A branch can be read.
LEMMA BranchReads ==
    ASSUME NEW b, NEW n \in Nat
    PROVE  \E f : ReadsBranch(f, b, n)
<1>1. PICK x : x = [asm |-> Role!NewAssembler, done |-> <<>>, live |-> <<>>]
  OBVIOUS
<1> DEFINE S == {k \in Nat : \E f : f = [i \in 0..k |-> IF i < 1 THEN x ELSE Role!ReadLine(f[i - 1], b[i])]}
<1>2. 0 \in S
  <2>1. PICK g : g = [i \in 0..0 |-> x]
    OBVIOUS
  <2>2. g = [i \in 0..0 |-> IF i < 1 THEN x ELSE Role!ReadLine(g[i - 1], b[i])]
    BY <2>1
  <2> QED
    BY <2>2
<1>3. ASSUME NEW k \in Nat, k \in S PROVE k + 1 \in S
  <2>1. PICK g : g = [i \in 0..k |-> IF i < 1 THEN x ELSE Role!ReadLine(g[i - 1], b[i])]
    BY <1>3
  <2>2. PICK h : h = [i \in 0..(k + 1) |-> IF i = k + 1 THEN Role!ReadLine(g[k], b[k + 1]) ELSE g[i]]
    OBVIOUS
  <2>3. ASSUME NEW i \in 0..(k + 1)
        PROVE  h[i] = IF i < 1 THEN x ELSE Role!ReadLine(h[i - 1], b[i])
    <3>1. CASE i = k + 1
      <4>1. h[i] = Role!ReadLine(g[k], b[k + 1]) /\ h[k] = g[k] /\ i - 1 = k /\ ~(i < 1)
        BY <2>2, <3>1
      <4> QED
        BY <3>1, <4>1
    <3>2. CASE i # k + 1
      <4>1. i \in 0..k /\ h[i] = g[i]
        BY <2>2, <3>2
      <4>2. ~(i < 1) => h[i - 1] = g[i - 1]
        BY <2>2, <4>1
      <4>3. g[i] = IF i < 1 THEN x ELSE Role!ReadLine(g[i - 1], b[i])
        BY <2>1, <4>1
      <4> QED
        BY <4>1, <4>2, <4>3
    <3> QED
      BY <3>1, <3>2
  <2>4. h = [i \in 0..(k + 1) |-> h[i]]
    BY <2>2
  <2>5. h = [i \in 0..(k + 1) |-> IF i < 1 THEN x ELSE Role!ReadLine(h[i - 1], b[i])]
    BY <2>3, <2>4
  <2> QED
    BY <2>5
<1>4. n \in S
  <2> HIDE DEF S
  <2> QED
    BY <1>2, <1>3, Inductive
<1> QED
  BY <1>1, <1>4 DEF ReadsBranch

\* Two branches have the same first m lines.
BeginAlike(b, c, m) == \A i \in 1..m : b[i] = c[i]

\* They read alike as far.
LEMMA BranchSame ==
    ASSUME NEW m \in Nat, NEW n \in Nat, m <= n, NEW b, NEW c, BeginAlike(b, c, m),
           NEW f, ReadsBranch(f, b, m), NEW g, ReadsBranch(g, c, n)
    PROVE  f[m] = g[m]
<1> DEFINE S == {i \in Nat : i <= m => f[i] = g[i]}
<1>1. 0 \in S
  <2>1. 0 \in 0..m /\ 0 \in 0..n /\ 0 < 1
    OBVIOUS
  <2> QED
    BY <2>1 DEF ReadsBranch
<1>2. ASSUME NEW i \in Nat, i \in S PROVE i + 1 \in S
  <2> SUFFICES ASSUME i + 1 <= m PROVE f[i + 1] = g[i + 1]
    OBVIOUS
  <2>1. i + 1 \in 0..m /\ i + 1 \in 0..n /\ ~(i + 1 < 1) /\ (i + 1) - 1 = i /\ f[i] = g[i] /\ i + 1 \in 1..m
    BY <1>2
  <2>2. f[i + 1] = Role!ReadLine(f[i], b[i + 1])
    BY <2>1 DEF ReadsBranch
  <2>3. g[i + 1] = Role!ReadLine(g[i], c[i + 1])
    BY <2>1 DEF ReadsBranch
  <2> QED
    BY <2>1, <2>2, <2>3 DEF BeginAlike
<1>3. m \in S
  <2> HIDE DEF S
  <2> QED
    BY <1>1, <1>2, Inductive
<1> QED
  BY <1>3

\* So what ReadTurns reads of a branch is what the reader of one that goes on had then.
LEMMA BranchTurns ==
    ASSUME NEW b, NEW c, NEW m \in Nat, m = Len(b), NEW n \in Nat, m <= n, BeginAlike(b, c, m),
           NEW g, ReadsBranch(g, c, n)
    PROVE  Role!ReadTurns(b) = g[m].done \o Role!Flushed(g[m].asm)
<1>1. PICK f : f = CHOOSE h : h = [i \in 0..m |-> IF i < 1 THEN [asm |-> Role!NewAssembler, done |-> <<>>, live |-> <<>>]
                                                  ELSE Role!ReadLine(h[i - 1], b[i])]
  OBVIOUS
<1>2. ReadsBranch(f, b, m)
  BY <1>1, BranchReads DEF ReadsBranch
<1>3. f[m] = g[m]
  BY <1>2, BranchSame
<1>4. Role!Read(b) = f[m]
  BY <1>1 DEF Role!Read
<1> QED
  BY <1>3, <1>4 DEF Role!ReadTurns

\* The turn the reader has open after i lines of b began at one of them, behind which
\* there is none of the user's.
OpenSince(f, b, i) ==
    f[i].asm.open /\ f[i].asm.uuid # 0 =>
      \E j \in 1..i : f[i].asm.uuid = b[j] /\ \A q \in j..i : entries[b[q]].role # "user"

\* The turn s[k] was open when the user's line at c closed it: the first behind the line
\* the turn began with; the turns before it were complete then.
ClosedBy(f, b, s, k, c) ==
    /\ \E j \in 1..(c - 1) : s[k].uuid = b[j] /\ \A q \in j..(c - 1) : entries[b[q]].role # "user"
    /\ entries[b[c]].role = "user"
    /\ f[c - 1].asm.open /\ s[k] = Role!Turn("assistant", f[c - 1].asm.parts, f[c - 1].asm.uuid)
    /\ Len(f[c - 1].done) = k - 1 /\ \A x \in 1..(k - 1) : f[c - 1].done[x] = s[x]

\* Every turn of the assistant that has an id.
TurnsClosed(f, b, i) ==
    \A k \in 1..Len(f[i].done) :
      f[i].done[k].role = "assistant" /\ f[i].done[k].uuid # 0 => \E c \in 1..i : ClosedBy(f, b, f[i].done, k, c)

\* What a reader of a branch has made of i lines.
BranchRead(f, b, i) ==
    /\ f[i].asm \in RoleAsm /\ f[i].done \in Seq(RoleTurn)
    /\ OpenSince(f, b, i) /\ TurnsClosed(f, b, i)

\* Turns that go on stay closed as they were.
LEMMA ClosedStays ==
    ASSUME NEW f, NEW b, NEW s, NEW u, NEW k \in Nat, NEW c, ClosedBy(f, b, s, k, c),
           k >= 1, \A x \in 1..k : u[x] = s[x]
    PROVE  ClosedBy(f, b, u, k, c)
<1>1. u[k] = s[k] /\ \A x \in 1..(k - 1) : u[x] = s[x]
  OBVIOUS
<1>2. \E j \in 1..(c - 1) : u[k].uuid = b[j] /\ \A q \in j..(c - 1) : entries[b[q]].role # "user"
  BY <1>1 DEF ClosedBy
<1>3. \A x \in 1..(k - 1) : f[c - 1].done[x] = u[x]
  BY <1>1 DEF ClosedBy
<1> QED
  BY <1>1, <1>2, <1>3 DEF ClosedBy

\* A line of the user closes the open turn.
LEMMA UserCloses ==
    ASSUME NEW f, NEW b, NEW i \in Nat, BranchRead(f, b, i), entries[b[i + 1]].role = "user", b[i + 1] \in Nat,
           f[i + 1].asm = Role!NewAssembler,
           f[i + 1].done = f[i].done \o (Role!Taken(f[i].asm)
                             \o (IF entries[b[i + 1]].blocks = <<>> THEN <<>> ELSE <<Role!Turn("user", <<>>, b[i + 1])>>))
    PROVE  BranchRead(f, b, i + 1)
<1>1. PICK a, s, u, t, y : /\ a = f[i].asm /\ s = f[i].done /\ u = f[i + 1].done /\ t = Role!Taken(a)
                           /\ y = IF entries[b[i + 1]].blocks = <<>> THEN <<>> ELSE <<Role!Turn("user", <<>>, b[i + 1])>>
  OBVIOUS
<1>2. a \in RoleAsm /\ s \in Seq(RoleTurn) /\ Len(s) \in Nat
  BY <1>1 DEF BranchRead
<1>3. PICK w : w = Role!Turn("assistant", a.parts, a.uuid)
  OBVIOUS
<1>4. w \in RoleTurn /\ w.uuid = a.uuid
  <2>1. a.parts \in Seq(RolePart) /\ a.uuid \in Nat
    BY <1>2, RoleAsmFields
  <2>2. PICK p, v : p = a.parts /\ v = a.uuid
    OBVIOUS
  <2>3. w = [role |-> "assistant", parts |-> p, uuid |-> v]
    BY <1>3, <2>2 DEF Role!Turn
  <2> QED
    BY <2>1, <2>2, <2>3 DEF RoleTurn
<1>5. PICK z : z = Role!Turn("user", <<>>, b[i + 1])
  OBVIOUS
<1>6. z \in RoleTurn /\ z.role = "user"
  <2>1. PICK p, v : p = <<>> /\ v = b[i + 1]
    OBVIOUS
  <2>2. z = [role |-> "user", parts |-> p, uuid |-> v] /\ p \in Seq(RolePart)
    BY <1>5, <2>1 DEF Role!Turn
  <2> QED
    BY <2>1, <2>2 DEF RoleTurn
<1>7. (a.open /\ t = <<w>>) \/ (~a.open /\ t = <<>>)
  BY <1>1, <1>3 DEF Role!Taken
<1>8. y = <<>> \/ y = <<z>>
  BY <1>1, <1>5
<1> HIDE DEF RoleTurn
<1>9. t \in Seq(RoleTurn) /\ y \in Seq(RoleTurn) /\ u = s \o (t \o y)
  <2>1. t \in Seq(RoleTurn)
    <3>1. <<w>> \in Seq(RoleTurn)
      BY <1>4
    <3>2. <<>> \in Seq(RoleTurn)
      OBVIOUS
    <3> QED
      BY <1>7, <3>1, <3>2
  <2>2. y \in Seq(RoleTurn)
    <3>1. <<z>> \in Seq(RoleTurn)
      BY <1>6
    <3>2. <<>> \in Seq(RoleTurn)
      OBVIOUS
    <3> QED
      BY <1>8, <3>1, <3>2
  <2>3. u = s \o (t \o y)
    BY <1>1
  <2> QED
    BY <2>1, <2>2, <2>3
<1>10. PICK r : r = t \o y
  OBVIOUS
<1>11. /\ r \in Seq(RoleTurn) /\ Len(r) \in Nat
       /\ \A x \in 1..Len(r) : r[x].role = "user" \/ (x = 1 /\ a.open /\ r[x] = w)
  <2>1. CASE t = <<>> /\ y = <<>>
    <3>1. r = <<>>
      BY <1>10, <2>1
    <3> QED
      BY <3>1
  <2>2. CASE t = <<>> /\ y = <<z>>
    <3>1. r = <<z>>
      BY <1>10, <2>2
    <3> QED
      BY <1>6, <3>1
  <2>3. CASE a.open /\ t = <<w>> /\ y = <<>>
    <3>1. r = <<w>>
      BY <1>10, <2>3
    <3> QED
      BY <1>4, <2>3, <3>1
  <2>4. CASE a.open /\ t = <<w>> /\ y = <<z>>
    <3>1. /\ Len(r) = Len(t) + Len(y) /\ r \in Seq(RoleTurn)
          /\ \A x \in 1..Len(t) + Len(y) : r[x] = IF x <= Len(t) THEN t[x] ELSE y[x - Len(t)]
      BY <1>9, <1>10, ConcatProperties
    <3>2. Len(t) = 1 /\ Len(y) = 1 /\ t[1] = w /\ y[1] = z
      BY <2>4
    <3>3. Len(r) = 2 /\ 1 \in 1..Len(t) + Len(y) /\ 2 \in 1..Len(t) + Len(y)
      BY <3>1, <3>2
    <3>4. r[1] = w
      BY <3>1, <3>2, <3>3
    <3>5. r[2] = z
      BY <3>1, <3>2, <3>3
    <3>6. \A x \in 1..Len(r) : x = 1 \/ x = 2
      BY <3>3
    <3> QED
      BY <1>6, <2>4, <3>1, <3>3, <3>4, <3>5, <3>6
  <2> QED
    BY <1>7, <1>8, <2>1, <2>2, <2>3, <2>4
<1>12. u \in Seq(RoleTurn) /\ Len(u) = Len(s) + Len(r)
       /\ \A x \in 1..Len(s) + Len(r) : u[x] = IF x <= Len(s) THEN s[x] ELSE r[x - Len(s)]
  BY <1>2, <1>9, <1>10, <1>11, ConcatProperties
<1>13. f[i + 1].asm \in RoleAsm
  <2>1. PICK p : p = <<>>
    OBVIOUS
  <2>2. p \in Seq(RolePart) /\ FALSE \in BOOLEAN /\ 0 \in Nat
    BY <2>1
  <2>3. [open |-> FALSE, parts |-> p, uuid |-> 0] \in RoleAsm
    BY <2>1, <2>2, RoleAsmMade
  <2> QED
    BY <2>1, <2>3 DEF Role!NewAssembler
<1>14. OpenSince(f, b, i + 1)
  <2>1. ~f[i + 1].asm.open
    BY DEF Role!NewAssembler
  <2> QED
    BY <2>1 DEF OpenSince
<1>15. ASSUME NEW k \in 1..Len(u), u[k].role = "assistant", u[k].uuid # 0
       PROVE  \E c \in 1..(i + 1) : ClosedBy(f, b, u, k, c)
  <2>1. k \in Nat /\ k >= 1
    BY <1>2, <1>11, <1>12
  <2>2. \A x \in 1..Len(s) : u[x] = s[x]
    BY <1>2, <1>11, <1>12
  <2>3. CASE k <= Len(s)
    <3>1. k \in 1..Len(s) /\ u[k] = s[k] /\ \A x \in 1..k : u[x] = s[x]
      BY <1>2, <2>1, <2>2, <2>3
    <3>2. PICK c \in 1..i : ClosedBy(f, b, s, k, c)
      BY <1>1, <1>15, <3>1 DEF BranchRead, TurnsClosed
    <3>3. c \in 1..(i + 1)
      OBVIOUS
    <3>4. ClosedBy(f, b, u, k, c)
      BY <2>1, <3>1, <3>2, ClosedStays
    <3> QED
      BY <3>3, <3>4
  <2>4. CASE k > Len(s)
    <3>1. PICK x \in Nat : x = k - Len(s)
      <4>1. k - Len(s) \in Nat
        BY <1>2, <2>1, <2>4
      <4> QED
        BY <4>1
    <3>2. x \in 1..Len(r) /\ u[k] = r[x]
      BY <1>2, <1>11, <1>12, <2>1, <2>4, <3>1
    <3>3. x = 1 /\ a.open /\ u[k] = w
      BY <1>11, <1>15, <3>2
    <3>4. k - 1 = Len(s) /\ (i + 1) - 1 = i
      BY <1>2, <2>1, <3>1, <3>3
    <3>5. PICK j \in 1..i : a.uuid = b[j] /\ \A q \in j..i : entries[b[q]].role # "user"
      BY <1>1, <1>4, <1>15, <3>3 DEF BranchRead, OpenSince
    <3>6. PICK c : c = i + 1
      OBVIOUS
    <3>7. c - 1 = i /\ f[c - 1].asm = a /\ f[c - 1].done = s
      BY <1>1, <3>6
    <3>8. \E g \in 1..(c - 1) : u[k].uuid = b[g] /\ \A q \in g..(c - 1) : entries[b[q]].role # "user"
      BY <1>4, <3>3, <3>5, <3>7
    <3>9. entries[b[c]].role = "user"
      BY <3>6
    <3>10. f[c - 1].asm.open /\ u[k] = Role!Turn("assistant", f[c - 1].asm.parts, f[c - 1].asm.uuid)
      BY <1>3, <3>3, <3>7
    <3>11. Len(f[c - 1].done) = k - 1 /\ \A g \in 1..(k - 1) : f[c - 1].done[g] = u[g]
      BY <2>2, <3>4, <3>7
    <3>12. ClosedBy(f, b, u, k, c)
      BY <3>8, <3>9, <3>10, <3>11 DEF ClosedBy
    <3>13. c \in 1..(i + 1)
      BY <3>6
    <3> QED
      BY <3>12, <3>13
  <2> QED
    BY <1>2, <2>1, <2>3, <2>4
<1>16. TurnsClosed(f, b, i + 1)
  BY <1>1, <1>15 DEF TurnsClosed
<1> QED
  BY <1>1, <1>12, <1>13, <1>14, <1>16 DEF BranchRead

\* Another line goes on with it.
LEMMA LineContinues ==
    ASSUME NEW f, NEW b, NEW i \in Nat, BranchRead(f, b, i), entries[b[i + 1]].role # "user",
           NEW o, Continues(f[i].asm, o, b[i + 1]), f[i + 1].asm = o.asm, f[i + 1].done = f[i].done \o o.done
    PROVE  BranchRead(f, b, i + 1)
<1>1. PICK a, c, s : a = f[i].asm /\ c = o.asm /\ s = f[i].done
  OBVIOUS
<1>2. a \in RoleAsm /\ s \in Seq(RoleTurn) /\ c \in RoleAsm
  BY <1>1 DEF BranchRead, Continues
<1>3. f[i + 1].done = s /\ f[i + 1].asm = c
  <2>1. o.done = <<>>
    BY DEF Continues
  <2>2. s \o <<>> = s
    BY <1>2, ConcatEmptySeq
  <2> QED
    BY <1>1, <2>1, <2>2
<1>4. TurnsClosed(f, b, i + 1)
  <2>1. ASSUME NEW k \in 1..Len(s), s[k].role = "assistant", s[k].uuid # 0
        PROVE  \E g \in 1..(i + 1) : ClosedBy(f, b, s, k, g)
    <3>1. PICK g \in 1..i : ClosedBy(f, b, s, k, g)
      BY <1>1, <2>1 DEF BranchRead, TurnsClosed
    <3>2. g \in 1..(i + 1)
      OBVIOUS
    <3> QED
      BY <3>1, <3>2
  <2> QED
    BY <1>3, <2>1 DEF TurnsClosed
<1>5. OpenSince(f, b, i + 1)
  <2> SUFFICES ASSUME c.open, c.uuid # 0
               PROVE  \E j \in 1..(i + 1) : c.uuid = b[j] /\ \A q \in j..(i + 1) : entries[b[q]].role # "user"
    BY <1>3 DEF OpenSince
  <2>1. CASE a.open
    <3>1. c.uuid = a.uuid
      BY <1>1, <2>1 DEF Continues
    <3>2. PICK j \in 1..i : a.uuid = b[j] /\ \A q \in j..i : entries[b[q]].role # "user"
      BY <1>1, <2>1, <3>1 DEF BranchRead, OpenSince
    <3>3. j \in 1..(i + 1) /\ \A q \in j..(i + 1) : q \in j..i \/ q = i + 1
      OBVIOUS
    <3> QED
      BY <3>1, <3>2, <3>3
  <2>2. CASE ~a.open
    <3>1. c.uuid = b[i + 1]
      BY <1>1, <2>2 DEF Continues
    <3>2. i + 1 \in 1..(i + 1) /\ \A q \in (i + 1)..(i + 1) : q = i + 1
      OBVIOUS
    <3> QED
      BY <3>1, <3>2
  <2>3. a.open \in BOOLEAN
    BY <1>2, RoleAsmFields
  <2> QED
    BY <2>1, <2>2, <2>3
<1> QED
  BY <1>2, <1>3, <1>4, <1>5 DEF BranchRead

\* So a reader of a branch of pi's log has it at every line.
LEMMA BranchesRead ==
    ASSUME RoleInv, flavour = "pi", NEW b, NEW n \in Nat, \A i \in 1..n : b[i] \in 1..Len(entries),
           NEW f, ReadsBranch(f, b, n)
    PROVE  \A i \in 0..n : BranchRead(f, b, i)
<1> DEFINE S == {i \in Nat : i <= n => BranchRead(f, b, i)}
<1>1. 0 \in S
  <2>1. PICK x, p : x = [asm |-> Role!NewAssembler, done |-> p, live |-> p] /\ p = <<>>
    OBVIOUS
  <2>2. f[0] = x
    BY <2>1 DEF ReadsBranch
  <2>3. f[0].asm = Role!NewAssembler /\ f[0].done = p
    BY <2>1, <2>2
  <2>4. [open |-> FALSE, parts |-> p, uuid |-> 0] \in RoleAsm
    <3>1. p \in Seq(RolePart) /\ FALSE \in BOOLEAN /\ 0 \in Nat
      BY <2>1
    <3> QED
      BY <2>1, <3>1, RoleAsmMade
  <2>5. f[0].asm \in RoleAsm /\ ~f[0].asm.open
    BY <2>1, <2>3, <2>4 DEF Role!NewAssembler
  <2>6. OpenSince(f, b, 0)
    BY <2>5 DEF OpenSince
  <2>7. p \in Seq(RoleTurn) /\ Len(p) = 0 /\ 1..0 = {}
    BY <2>1
  <2>8. TurnsClosed(f, b, 0)
    BY <2>3, <2>7 DEF TurnsClosed
  <2>9. BranchRead(f, b, 0)
    BY <2>3, <2>5, <2>6, <2>7, <2>8 DEF BranchRead
  <2> QED
    BY <2>9
<1>2. ASSUME NEW i \in Nat, i \in S PROVE i + 1 \in S
  <2> SUFFICES ASSUME i + 1 <= n PROVE BranchRead(f, b, i + 1)
    OBVIOUS
  <2>1. i + 1 \in 0..n /\ i + 1 \in 1..n /\ ~(i + 1 < 1) /\ (i + 1) - 1 = i /\ i <= n
    OBVIOUS
  <2>2. BranchRead(f, b, i)
    BY <1>2, <2>1
  <2>3. f[i + 1] = Role!ReadLine(f[i], b[i + 1])
    BY <2>1 DEF ReadsBranch
  <2>4. PICK a, m, e, o, s, w : /\ a = f[i].asm /\ m = b[i + 1] /\ e = entries[m]
                                /\ o = Role!FeedLineParts(a, e, m) /\ s = f[i].done \o o.done /\ w = Role!View(f[i].live, o)
    OBVIOUS
  <2>5. f[i + 1] = [asm |-> o.asm, done |-> s, live |-> w]
    BY <2>3, <2>4 DEF Role!ReadLine
  <2>6. f[i + 1].asm = o.asm /\ f[i + 1].done = f[i].done \o o.done
    <3>1. PICK g, y : g = f[i + 1] /\ y = o.asm
      OBVIOUS
    <3>2. g = [asm |-> y, done |-> s, live |-> w]
      BY <2>5, <3>1
    <3>3. g.asm = y /\ g.done = s
      BY <3>2
    <3> QED
      BY <2>4, <3>1, <3>3
  <2>7. m \in 1..Len(entries) /\ m \in Nat
    BY <2>1, <2>4
  <2>8. e \in RoleEntry
    BY <2>4, <2>7 DEF RoleInv
  <2>9. a \in RoleAsm
    BY <2>2, <2>4 DEF BranchRead
  <2>10. Tells(a, o, e, m)
    <3> HIDE DEF RoleAsm, RoleEntry
    <3> QED
      BY <2>4, <2>7, <2>8, <2>9, RoleTells
  <2>11. CASE e.role = "user"
    <3>1. o.asm = Role!NewAssembler /\ o.done = Role!Taken(a) \o (IF e.blocks = <<>> THEN <<>> ELSE <<Role!Turn("user", <<>>, m)>>)
      BY <2>10, <2>11 DEF Tells
    <3> QED
      BY <2>2, <2>4, <2>6, <2>7, <2>11, <3>1, UserCloses
  <2>12. CASE e.role # "user"
    <3>1. Continues(f[i].asm, o, b[i + 1])
      BY <2>4, <2>10, <2>12 DEF Tells
    <3> QED
      BY <2>2, <2>4, <2>6, <2>12, <3>1, LineContinues
  <2> QED
    BY <2>11, <2>12
<1>3. Nat \subseteq S
  <2> HIDE DEF S
  <2> QED
    BY <1>1, <1>2, Inductive
<1>4. ASSUME NEW i \in 0..n PROVE BranchRead(f, b, i)
  <2>1. i \in S
    BY <1>3
  <2> QED
    BY <2>1
<1> QED
  BY <1>4

\* Sequences with the same elements are the same.
LEMMA SameTurns ==
    ASSUME NEW s \in Seq(RoleTurn), NEW u \in Seq(RoleTurn), Len(s) = Len(u), \A i \in 1..Len(s) : s[i] = u[i]
    PROVE  s = u
<1>1. s = [i \in 1..Len(s) |-> s[i]] /\ u = [i \in 1..Len(u) |-> u[i]]
  OBVIOUS
<1> QED
  BY <1>1

\* A fork behind a line of the branch that the next line of the user, at c, follows:
\* it is the branch before that line.
LEMMA ForkBefore ==
    ASSUME RoleInv, NEW B, Branches(B, Len(entries)), \A n \in 0..Len(entries) : Role!Branch(n) = B[n],
           NEW b, b = Role!activeEntries, NEW c \in 1..Len(b), NEW j \in 1..(c - 1),
           entries[b[c]].role = "user", \A q \in j..(c - 1) : entries[b[q]].role # "user"
    PROVE  /\ Len(Role!forkRPCCommand(b[j])) = c - 1
           /\ BeginAlike(Role!forkRPCCommand(b[j]), b, c - 1)
<1>1. PICK m \in Nat : m = Len(entries)
  BY DEF RoleInv
<1>2. b = B[m] /\ BranchOf(B, b, m)
  <2>1. m \in 0..Len(entries)
    BY <1>1
  <2>2. b = B[m]
    BY <1>1, <2>1 DEF Role!activeEntries
  <2> QED
    BY <2>1, <2>2, BranchesOf
<1>3. /\ b \in Seq(Nat) /\ Len(b) \in Nat
      /\ \A i \in 1..Len(b) : b[i] \in 1..m
      /\ \A x, y \in 1..Len(b) : x < y => b[x] < b[y]
  BY <1>2 DEF BranchOf
<1>4. Role!ToSet(b) = {b[i] : i \in 1..Len(b)}
  BY <1>3 DEF Role!ToSet
<1>5. j \in 1..Len(b) /\ j < c
  BY <1>3
<1>6. PICK S, next : S = Role!forkPoint(b[j]) /\ next = CHOOSE n \in S : \A y \in S : n <= y
  OBVIOUS
<1>7. S = {n \in Role!ToSet(b) : n > b[j] /\ entries[n].role = "user"}
  BY <1>6 DEF Role!forkPoint
<1>8. b[c] \in S
  <2>1. b[j] < b[c]
    BY <1>3, <1>5
  <2>2. b[j] \in Nat /\ b[c] \in Nat
    BY <1>3, <1>5
  <2>3. b[c] > b[j]
    BY <2>1, <2>2
  <2>4. b[c] \in Role!ToSet(b)
    BY <1>4
  <2> QED
    BY <1>7, <2>3, <2>4
<1>9. ASSUME NEW y \in S PROVE b[c] <= y
  <2>1. PICK q \in 1..Len(b) : y = b[q]
    BY <1>4, <1>7
  <2>2. b[q] > b[j] /\ entries[b[q]].role = "user"
    BY <1>7, <2>1
  <2>3. b[q] \in Nat /\ b[j] \in Nat /\ b[c] \in Nat
    BY <1>3, <1>5
  <2>4. ~(q < j) /\ q # j
    <3>1. q # j
      BY <2>2, <2>3
    <3>2. ASSUME q < j PROVE FALSE
      <4>1. b[q] < b[j]
        BY <1>3, <1>5, <3>2
      <4> QED
        BY <2>2, <2>3, <4>1
    <3> QED
      BY <3>1, <3>2
  <2>5. ~(q \in j..(c - 1))
    BY <2>2
  <2>6. q >= c
    BY <1>5, <2>4, <2>5
  <2>7. q = c \/ b[c] < b[q]
    BY <1>3, <2>6
  <2> QED
    BY <2>1, <2>3, <2>7
<1>10. next = b[c]
  <2>1. \E n \in S : \A y \in S : n <= y
    BY <1>8, <1>9
  <2>2. next \in S /\ \A y \in S : next <= y
    BY <1>6, <2>1
  <2>3. next <= b[c] /\ b[c] <= next
    BY <1>8, <1>9, <2>2
  <2>4. next \in Nat /\ b[c] \in Nat
    <3>1. \A y \in S : y \in Nat
      BY <1>3, <1>4, <1>7
    <3> QED
      BY <1>8, <2>2, <3>1
  <2> QED
    BY <2>3, <2>4
<1>11. PICK p : p = entries[b[c]].parent
  OBVIOUS
<1>12. Role!forkRPCCommand(b[j]) = Role!Branch(p)
  <2>1. b[j] \in Role!ToSet(b)
    BY <1>4, <1>5
  <2>2. S # {}
    BY <1>8
  <2> QED
    BY <1>6, <1>10, <1>11, <2>1, <2>2 DEF Role!forkRPCCommand
<1>13. b[c] \in 1..m /\ p \in 0..(b[c] - 1) /\ p \in 0..m
  <2>1. b[c] \in 1..m
    BY <1>3
  <2>2. p \in 0..(b[c] - 1)
    BY <1>1, <1>11, <2>1 DEF RoleInv
  <2> QED
    BY <2>1, <2>2
<1>14. PICK a : a = B[p]
  OBVIOUS
<1>15. a \in Seq(Nat) /\ Len(a) \in Nat
  <2>1. BranchOf(B, a, p)
    BY <1>1, <1>13, <1>14, BranchesOf
  <2> QED
    BY <2>1 DEF BranchOf
<1>16. B[b[c]] = Append(a, b[c])
  <2>1. PICK x : x = b[c]
    OBVIOUS
  <2>2. x \in 0..Len(entries) /\ ~(x < 1)
    BY <1>1, <1>13, <2>1
  <2>3. B[x] = Append(B[entries[x].parent], x)
    BY <2>2 DEF Branches
  <2> QED
    BY <1>11, <1>14, <2>1, <2>3
<1>17. Len(B[b[c]]) = c /\ \A x \in 1..c : B[b[c]][x] = b[x]
  BY <1>2 DEF BranchOf
<1>18. Len(a) = c - 1 /\ \A x \in 1..(c - 1) : a[x] = b[x]
  <2>1. Len(Append(a, b[c])) = Len(a) + 1 /\ \A x \in 1..Len(a) : Append(a, b[c])[x] = a[x]
    BY <1>13, <1>15
  <2>2. Len(a) = c - 1
    BY <1>15, <1>16, <1>17, <2>1
  <2>3. \A x \in 1..(c - 1) : x \in 1..c /\ x \in 1..Len(a)
    BY <2>2
  <2> QED
    BY <1>16, <1>17, <2>1, <2>2, <2>3
<1>19. Role!Branch(p) = a
  BY <1>1, <1>13, <1>14
<1> QED
  BY <1>12, <1>18, <1>19 DEF BeginAlike

\* A fork behind a line of the branch that no line of the user follows is the branch.
LEMMA ForkWhole ==
    ASSUME NEW b \in Seq(Nat), b = Role!activeEntries, NEW j \in 1..Len(b),
           \A x, y \in 1..Len(b) : x < y => b[x] < b[y],
           \A q \in j..Len(b) : entries[b[q]].role # "user"
    PROVE  Role!forkRPCCommand(b[j]) = b
<1>1. Role!ToSet(b) = {b[i] : i \in 1..Len(b)}
  BY DEF Role!ToSet
<1>2. b[j] \in Role!ToSet(b)
  BY <1>1
<1>3. Role!forkPoint(b[j]) = {}
  <2> SUFFICES ASSUME NEW y \in Role!ToSet(b), y > b[j], entries[y].role = "user" PROVE FALSE
    BY DEF Role!forkPoint
  <2>1. PICK q \in 1..Len(b) : y = b[q]
    BY <1>1
  <2>2. b[q] \in Nat /\ b[j] \in Nat /\ Len(b) \in Nat
    OBVIOUS
  <2>3. ~(q < j)
    BY <2>1, <2>2
  <2>4. q \in j..Len(b)
    BY <2>2, <2>3
  <2> QED
    BY <2>1, <2>4
<1> QED
  BY <1>2, <1>3 DEF Role!forkRPCCommand

\* A fork of pi's log after a turn reads as the branch up to and with that turn.
LEMMA BranchForks == RoleInv => Role!ForkIsThePrefix
<1> SUFFICES ASSUME RoleInv, flavour = "pi",
                    NEW k \in 1..Len(Role!ReadTurns(Role!activeEntries)),
                    Role!ReadTurns(Role!activeEntries)[k].role = "assistant",
                    Role!ReadTurns(Role!activeEntries)[k].uuid # 0,
                    Role!ReadTurns(Role!activeEntries)[k].parts # <<>>
             PROVE  Role!ReadTurns(Role!forkRPCCommand(Role!ReadTurns(Role!activeEntries)[k].uuid))
                      = SubSeq(Role!ReadTurns(Role!activeEntries), 1, k)
  BY DEF Role!ForkIsThePrefix
<1>1. PICK all, b : all = Role!ReadTurns(Role!activeEntries) /\ b = Role!activeEntries
  OBVIOUS
<1>2. PICK B : Branches(B, Len(entries)) /\ \A n \in 0..Len(entries) : Role!Branch(n) = B[n]
  BY BranchIs
<1>3. BranchOf(B, b, Len(entries))
  <2>1. Len(entries) \in 0..Len(entries)
    BY DEF RoleInv
  <2>2. b = B[Len(entries)]
    BY <1>1, <1>2, <2>1 DEF Role!activeEntries
  <2> QED
    BY <1>2, <2>1, <2>2, BranchesOf
<1>4. /\ b \in Seq(Nat)
      /\ \A i \in 1..Len(b) : b[i] \in 1..Len(entries)
      /\ \A x, y \in 1..Len(b) : x < y => b[x] < b[y]
  BY <1>3 DEF BranchOf
<1>5. PICK n \in Nat : n = Len(b)
  BY <1>4
<1>6. PICK f : ReadsBranch(f, b, n)
  BY BranchReads
<1>7. \A i \in 0..n : BranchRead(f, b, i)
  BY <1>4, <1>5, <1>6, BranchesRead
<1>8. PICK s, a : s = f[n].done /\ a = f[n].asm
  OBVIOUS
<1>9. all = s \o Role!Flushed(a)
  <2>1. BeginAlike(b, b, n)
    BY DEF BeginAlike
  <2>2. n <= n
    OBVIOUS
  <2>3. Role!ReadTurns(b) = f[n].done \o Role!Flushed(f[n].asm)
    BY <1>5, <1>6, <2>1, <2>2, BranchTurns
  <2> QED
    BY <1>1, <1>8, <2>3
<1>10. BranchRead(f, b, n) /\ s \in Seq(RoleTurn) /\ a \in RoleAsm /\ Len(s) \in Nat
  BY <1>7, <1>8 DEF BranchRead
<1>11. PICK w, r : w = Role!Turn("assistant", a.parts, a.uuid) /\ r = Role!Flushed(a)
  OBVIOUS
<1>12. (a.open /\ r = <<w>>) \/ r = <<>>
  BY <1>11 DEF Role!Flushed, Role!Taken
<1>13. w \in RoleTurn /\ w.uuid = a.uuid
  <2>1. a.parts \in Seq(RolePart) /\ a.uuid \in Nat
    BY <1>10, RoleAsmFields
  <2>2. PICK p, v : p = a.parts /\ v = a.uuid
    OBVIOUS
  <2>3. w = [role |-> "assistant", parts |-> p, uuid |-> v]
    BY <1>11, <2>2 DEF Role!Turn
  <2> QED
    BY <2>1, <2>2, <2>3 DEF RoleTurn
<1> HIDE DEF RoleTurn
<1>14. r \in Seq(RoleTurn) /\ Len(r) \in Nat
  <2>1. <<w>> \in Seq(RoleTurn)
    BY <1>13
  <2>2. <<>> \in Seq(RoleTurn)
    OBVIOUS
  <2> QED
    BY <1>12, <2>1, <2>2
<1>15. /\ all \in Seq(RoleTurn) /\ Len(all) = Len(s) + Len(r)
       /\ \A x \in 1..Len(s) + Len(r) : all[x] = IF x <= Len(s) THEN s[x] ELSE r[x - Len(s)]
  BY <1>9, <1>10, <1>11, <1>14, ConcatProperties
<1>16. PICK t : t = all[k]
  OBVIOUS
<1>17. t.role = "assistant" /\ t.uuid # 0 /\ t.parts # <<>> /\ k \in 1..Len(all) /\ k \in Nat
  BY <1>1, <1>16
<1>18. SubSeq(all, 1, k) \in Seq(RoleTurn) /\ Len(SubSeq(all, 1, k)) = k
       /\ \A x \in 1..k : SubSeq(all, 1, k)[x] = all[x]
  BY <1>15, <1>17
<1>19. CASE k <= Len(s)
  <2>1. k \in 1..Len(s) /\ \A x \in 1..k : all[x] = s[x]
    BY <1>10, <1>14, <1>15, <1>17, <1>19
  <2>2. s[k] = t
    BY <1>16, <1>17, <2>1
  <2>3. PICK c \in 1..n : ClosedBy(f, b, s, k, c)
    BY <1>8, <1>10, <1>17, <2>1, <2>2 DEF BranchRead, TurnsClosed
  <2>4. PICK j \in 1..(c - 1) : t.uuid = b[j] /\ \A q \in j..(c - 1) : entries[b[q]].role # "user"
    BY <2>2, <2>3 DEF ClosedBy
  <2>5. PICK d, e : d = f[c - 1].done /\ e = f[c - 1].asm
    OBVIOUS
  <2>6. /\ entries[b[c]].role = "user"
        /\ e.open /\ t = Role!Turn("assistant", e.parts, e.uuid)
        /\ Len(d) = k - 1 /\ \A x \in 1..(k - 1) : d[x] = s[x]
    BY <2>2, <2>3, <2>5 DEF ClosedBy
  <2>7. PICK h : h = Role!forkRPCCommand(b[j])
    OBVIOUS
  <2>8. Len(h) = c - 1 /\ BeginAlike(h, b, c - 1)
    <3>1. c \in 1..Len(b)
      BY <1>5
    <3> QED
      BY <1>1, <1>2, <2>4, <2>6, <2>7, <3>1, ForkBefore
  <2>9. Role!ReadTurns(h) = d \o Role!Flushed(e)
    <3>1. c - 1 \in Nat /\ c - 1 <= n
      OBVIOUS
    <3> QED
      BY <1>6, <2>5, <2>8, <3>1, BranchTurns
  <2>10. Role!Flushed(e) = <<t>>
    <3>1. t.parts = e.parts
      BY <2>6 DEF Role!Turn
    <3> QED
      BY <1>17, <2>6, <3>1 DEF Role!Flushed, Role!Taken
  <2>11. d \in Seq(RoleTurn) /\ t \in RoleTurn
    <3>1. c - 1 \in 0..n
      OBVIOUS
    <3>2. d \in Seq(RoleTurn)
      BY <1>7, <2>5, <3>1 DEF BranchRead
    <3>3. t \in RoleTurn
      BY <1>10, <2>1, <2>2
    <3> QED
      BY <3>2, <3>3
  <2>12. PICK u : u = d \o <<t>>
    OBVIOUS
  <2>13. /\ u \in Seq(RoleTurn) /\ Len(u) = k
         /\ \A x \in 1..(k - 1) : u[x] = d[x]
         /\ u[k] = t
    <3>1. u = Append(d, t)
      BY <2>11, <2>12
    <3> QED
      BY <1>17, <2>6, <2>11, <3>1
  <2>14. \A x \in 1..k : u[x] = all[x]
    <3>1. \A x \in 1..k : x \in 1..(k - 1) \/ x = k
      BY <1>17
    <3> QED
      BY <1>16, <2>1, <2>6, <2>13, <3>1
  <2>15. u = SubSeq(all, 1, k)
    BY <1>18, <2>13, <2>14, SameTurns
  <2> QED
    BY <1>1, <1>16, <2>4, <2>7, <2>9, <2>10, <2>12, <2>15
<1>20. CASE k > Len(s)
  <2>1. a.open /\ r = <<w>> /\ k = Len(s) + 1 /\ Len(all) = k
    <3>1. Len(r) >= 1
      BY <1>10, <1>14, <1>15, <1>17, <1>20
    <3>2. a.open /\ r = <<w>>
      BY <1>12, <3>1
    <3>3. Len(r) = 1
      BY <3>2
    <3> QED
      BY <1>10, <1>15, <1>17, <1>20, <3>2, <3>3
  <2>2. t = w
    <3>1. k \in 1..Len(s) + Len(r) /\ ~(k <= Len(s)) /\ k - Len(s) = 1
      BY <1>10, <1>15, <1>17, <2>1
    <3>2. t = r[1]
      BY <1>15, <1>16, <3>1
    <3> QED
      BY <2>1, <3>2
  <2>3. PICK j \in 1..n : a.uuid = b[j] /\ \A q \in j..n : entries[b[q]].role # "user"
    BY <1>8, <1>10, <1>13, <1>17, <2>1, <2>2 DEF BranchRead, OpenSince
  <2>4. Role!forkRPCCommand(b[j]) = b
    BY <1>1, <1>4, <1>5, <2>3, ForkWhole
  <2>5. t.uuid = b[j]
    BY <1>13, <2>2, <2>3
  <2>6. all = SubSeq(all, 1, k)
    BY <1>15, <1>18, <2>1, SameTurns
  <2> QED
    BY <1>1, <1>16, <2>4, <2>5, <2>6
<1> QED
  BY <1>10, <1>17, <1>19, <1>20

\* At the beginning nothing is written.
LEMMA RoleStarts == Role!Init => RoleInv
<1> SUFFICES ASSUME Role!Init PROVE RoleInv
  OBVIOUS
<1>1. entries = <<>>
  BY DEF Role!Init
<1>2. entries \in Seq(RoleEntry) /\ Len(entries) = 0 /\ 1..0 = {}
  BY <1>1
<1> QED
  BY <1>2 DEF RoleInv

\* What a line is made of.
LEMMA RoleBlocks ==
    ASSUME NEW role \in {"user", "assistant", "result", "end"}, NEW blocks \in Role!Blocks(role)
    PROVE  blocks \in Seq(RoleBlock)
<1> DEFINE T == Role!Block("text", 0)
           H == Role!Block("thinking", 0)
<1>1. T \in RoleBlock /\ H \in RoleBlock
  BY DEF Role!Block, RoleBlock
<1>2. \A c \in CallIds : Role!Block("call", c) \in RoleBlock /\ Role!Block("result", c) \in RoleBlock
  BY DEF Role!Block, RoleBlock
<1> HIDE DEF RoleBlock, T, H
<1>3. <<>> \in Seq(RoleBlock) /\ <<T>> \in Seq(RoleBlock) /\ <<H>> \in Seq(RoleBlock)
  BY <1>1
<1>4. \A c \in CallIds : /\ <<Role!Block("call", c)>> \in Seq(RoleBlock)
                         /\ <<T, Role!Block("call", c)>> \in Seq(RoleBlock)
                         /\ <<Role!Block("result", c)>> \in Seq(RoleBlock)
  BY <1>1, <1>2
<1>5. \A c, d \in CallIds : <<Role!Block("result", c), Role!Block("result", d)>> \in Seq(RoleBlock)
  BY <1>2
<1>6. CASE role = "user" \/ role = "end"
  <2>1. blocks = <<>> \/ blocks = <<T>>
    BY <1>6 DEF Role!Blocks, Role!TextBlock, T
  <2> QED
    BY <1>3, <2>1
<1>7. CASE role = "assistant"
  <2>1. blocks \in Role!Spoken \cup Role!Mixed
    BY <1>7 DEF Role!Blocks
  <2>2. \/ blocks = <<>> \/ blocks = <<T>> \/ blocks = <<H>>
        \/ \E c \in CallIds : blocks = <<Role!Block("call", c)>> \/ blocks = <<T, Role!Block("call", c)>>
    BY <2>1 DEF Role!Spoken, Role!Mixed, Role!TextBlock, T, H
  <2> QED
    BY <1>3, <1>4, <2>2
<1>8. CASE role = "result"
  <2>1. \/ blocks \in Role!Results
        \/ \E c, d \in CallIds : blocks = <<Role!Block("result", c), Role!Block("result", d)>>
    BY <1>8 DEF Role!Blocks
  <2>2. CASE blocks \in Role!Results
    <3>1. PICK c \in CallIds : blocks = <<Role!Block("result", c)>>
      BY <2>2 DEF Role!Results
    <3> QED
      BY <1>4, <3>1
  <2> QED
    BY <1>5, <2>1, <2>2
<1> QED
  BY <1>6, <1>7, <1>8

\* The log grows by lines under earlier ones.
LEMMA RoleGrows == RoleInv /\ Role!Next => RoleInv'
<1> SUFFICES ASSUME RoleInv, Role!Next PROVE RoleInv'
  OBVIOUS
<1>1. PICK role \in {"user", "assistant", "result", "end"} :
        \E blocks \in Role!Blocks(role), parent \in Role!Parents : Role!Write(role, blocks, parent)
  BY DEF Role!Next
<1>2. PICK blocks \in Role!Blocks(role), parent \in Role!Parents : Role!Write(role, blocks, parent)
  BY <1>1
<1>3. PICK e : e = [role |-> role, blocks |-> blocks, parent |-> parent]
  OBVIOUS
<1>4. entries' = Append(entries, e)
  BY <1>2, <1>3 DEF Role!Write
<1>5. PICK m \in Nat : m = Len(entries)
  BY DEF RoleInv
<1>6. parent \in 0..m
  BY <1>5 DEF Role!Parents
<1>7. e \in RoleEntry /\ e.parent = parent
  <2>1. blocks \in Seq(RoleBlock)
    BY RoleBlocks
  <2> QED
    BY <1>3, <1>6, <2>1 DEF RoleEntry
<1>8. entries \in Seq(RoleEntry)
  BY DEF RoleInv
<1> HIDE DEF RoleEntry
<1>9. /\ entries' \in Seq(RoleEntry) /\ Len(entries') = m + 1 /\ entries'[m + 1] = e
      /\ \A i \in 1..m : entries'[i] = entries[i]
  BY <1>4, <1>5, <1>7, <1>8
<1>10. ASSUME NEW i \in 1..(m + 1) PROVE entries'[i].parent \in 0..(i - 1)
  <2>1. CASE i = m + 1
    BY <1>6, <1>7, <1>9, <2>1
  <2>2. CASE i # m + 1
    <3>1. i \in 1..m
      BY <2>2
    <3> QED
      BY <1>5, <1>9, <3>1 DEF RoleInv
  <2> QED
    BY <2>1, <2>2
<1> QED
  BY <1>9, <1>10 DEF RoleInv

\* What the three forks rest on.
ForksInv == ClaudeInv /\ RolloutInv /\ RoleInv

\* A fork through a turn holds that turn and what led to it, and reads the same
\* (claude/fork.go, codex/fork.go, pi/fork.go).
THEOREM ForksAreThePrefix == LogsSpec => []ForksReadTheSame
<1>1. LogsInit => ForksInv
  BY ClaudeStarts, RolloutStarts, RoleStarts DEF LogsInit, ForksInv
<1>2. ForksInv /\ [LogsNext]_logsVars => ForksInv'
  <2> SUFFICES ASSUME ForksInv, [LogsNext]_logsVars PROVE ForksInv'
    OBVIOUS
  <2>1. ClaudeInv'
    <3>1. CASE ClaudeStep
      BY <3>1, ClaudeGrows DEF ClaudeStep, ForksInv
    <3>2. CASE UNCHANGED claudeVars
      BY <3>2, ClaudeKept DEF ForksInv
    <3> QED
      BY <3>1, <3>2 DEF LogsNext, StreamStep, CodexStep, RoleStep, DshStep, PageStep, logsVars
  <2>2. RolloutInv'
    <3>1. CASE CodexStep
      BY <3>1, RolloutGrows DEF CodexStep, ForksInv
    <3>2. CASE UNCHANGED codexVars
      BY <3>2, RolloutKept DEF ForksInv
    <3> QED
      BY <3>1, <3>2 DEF LogsNext, StreamStep, ClaudeStep, RoleStep, DshStep, PageStep, logsVars
  <2>3. RoleInv'
    <3>1. CASE RoleStep
      BY <3>1, RoleGrows DEF RoleStep, ForksInv
    <3>2. CASE UNCHANGED roleVars
      BY <3>2 DEF ForksInv, RoleInv, roleVars
    <3> QED
      BY <3>1, <3>2 DEF LogsNext, StreamStep, ClaudeStep, CodexStep, DshStep, PageStep, logsVars
  <2> QED
    BY <2>1, <2>2, <2>3 DEF ForksInv
<1>3. ForksInv => ForksReadTheSame
  BY ClaudeForks, RolloutForks, BranchForks DEF ForksReadTheSame, ForksInv
<1> QED
  BY <1>1, <1>2, <1>3, PTL DEF LogsSpec
=============================================================================
