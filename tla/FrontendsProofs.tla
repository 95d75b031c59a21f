--------------------------- MODULE FrontendsProofs ---------------------------
(***************************************************************************)
(* Proofs about the frontends: the live page and the main chat behind it,  *)
(* the Telegram and the Lark bridges, the guest threads of Lark. Each has  *)
(* a section: an inductive invariant in named parts, a lemma for each kind *)
(* of step that can disturb it, and the theorem of the run's property.  A  *)
(* step of another part is a stutter of this one (PageSteps, GuestSteps,   *)
(* LarkSteps, TgSteps, ChatSteps).                                         *)
(***************************************************************************)
EXTENDS MCFrontends, TLAPS, FiniteSetTheorems

(* ---------------- sequences ---------------- *)
\* An element of a sequence is of the sequence's kind.
LEMMA OfSeq == ASSUME NEW S, NEW s \in Seq(S) PROVE Len(s) \in Nat /\ \A j \in 1..Len(s) : s[j] \in S
OBVIOUS

\* What is left of a queue, and what was its head.
LEMMA RestOf ==
  ASSUME NEW S, NEW s \in Seq(S), s # <<>>
  PROVE  /\ Head(s) = s[1] /\ s[1] \in S /\ 1 \in 1..Len(s) /\ Len(s) \in Nat
         /\ Tail(s) \in Seq(S) /\ Len(Tail(s)) = Len(s) - 1
         /\ \A i \in 1..(Len(s) - 1) : Tail(s)[i] = s[i + 1] /\ i + 1 \in 1..Len(s)
         /\ \A i \in 1..Len(s) : i = 1 \/ (i - 1 \in 1..(Len(s) - 1) /\ s[i] = Tail(s)[i - 1])
OBVIOUS

-----------------------------------------------------------------------------
(* ---------------- the live page (ChatStream) ---------------- *)
PageType ==
    /\ msgs \in Seq({"shown", "tool"})
    /\ toSend \in [PageWriters -> Nat]
    /\ stream \in [Pages -> {"none", "opened", "live", "evicted"}]
    /\ frames \in [Pages -> Seq(Nat)] /\ page \in [Pages -> SUBSET Nat]
    /\ \A p \in Pages : Len(frames[p]) <= SubBuffer

\* What is with a writer, on a channel or on a page is in the store, and visible.
ShownIsStored ==
    /\ \A w \in PageWriters : toSend[w] # Live!Nothing => toSend[w] \in Live!visible
    /\ \A p \in Pages : \A i \in 1..Len(frames[p]) : frames[p][i] \in Live!visible
    /\ \A p \in Pages : page[p] \subseteq Live!visible

\* What a live page does not show is on its way.
RestIsOnItsWay ==
    \A p \in Pages : stream[p] = "live" =>
      \A n \in Live!visible : \/ n \in page[p]
                              \/ \E i \in 1..Len(frames[p]) : frames[p][i] = n
                              \/ \E w \in PageWriters : toSend[w] = n

PageInv == PageType /\ ShownIsStored /\ RestIsOnItsWay

\* A message is visible by its number.
LEMMA VisibleIsNat == PageType => Live!visible \subseteq Nat
BY DEF PageType, Live!visible

\* The chat starts empty and no page is open.
LEMMA PageStarts == Live!Init => PageInv
BY FrontendsAssumption DEF Live!Init, PageInv, PageType, ShownIsStored, RestIsOnItsWay, Live!Nothing, Live!visible

\* At rest nothing is on its way: the page shows all that is visible.
LEMMA PageHolds == PageInv => Live!PageIsWhole
<1> SUFFICES ASSUME PageInv, NEW p \in Pages
             PROVE  /\ stream[p] = "live" => Live!visible \subseteq page[p] \cup Live!ToSet(frames[p]) \cup {toSend[w] : w \in PageWriters}
                    /\ page[p] \cup Live!ToSet(frames[p]) \subseteq Live!visible
  BY DEF Live!PageIsWhole
<1>1. Live!ToSet(frames[p]) = {frames[p][i] : i \in 1..Len(frames[p])}
  BY DEF Live!ToSet, PageInv, PageType
<1> QED
  BY <1>1 DEF PageInv, ShownIsStored, RestIsOnItsWay

\* A message that is stored is with its writer until it is broadcast.
LEMMA PageStore == ASSUME PageInv, NEW w \in PageWriters, NEW kind \in {"shown", "tool"}, Live!Store(w, kind) PROVE PageInv'
<1> USE DEF PageInv, Live!Store, Live!Nothing
<1>1. msgs' = Append(msgs, kind) /\ msgs' \in Seq({"shown", "tool"}) /\ Len(msgs) \in Nat
  BY DEF PageType
<1>2. Live!visible' = IF kind = "tool" THEN Live!visible ELSE Live!visible \cup {Len(msgs) + 1}
  BY <1>1 DEF Live!visible, PageType
<1>3. PageType'
  BY <1>1 DEF PageType
<1>4. \A v \in PageWriters : toSend'[v] = IF v = w THEN IF kind = "tool" THEN 0 ELSE Len(msgs) + 1 ELSE toSend[v]
  BY DEF PageType
<1>5. ShownIsStored'
  BY <1>2, <1>4 DEF ShownIsStored
<1>6. RestIsOnItsWay'
  BY <1>1, <1>2, <1>4 DEF RestIsOnItsWay, Live!visible
<1> QED
  BY <1>3, <1>5, <1>6

\* A broadcast reaches each channel with room; a page without is evicted, and a live one has it.
LEMMA PageBroadcast == ASSUME PageInv, NEW w \in PageWriters, Live!Broadcast(w) PROVE PageInv'
<1> USE DEF PageInv, Live!Broadcast, Live!Nothing
<1>1. Live!visible' = Live!visible /\ SubBuffer \in Nat /\ toSend[w] \in Nat /\ toSend[w] # 0
  BY FrontendsAssumption DEF Live!visible, PageType
<1> DEFINE takes(p) == Live!Subscribed(p) /\ Len(frames[p]) < SubBuffer
<1>2. /\ \A p \in Pages : takes(p) => frames'[p] = Append(frames[p], toSend[w])
      /\ \A p \in Pages : ~takes(p) => frames'[p] = frames[p]
  OBVIOUS
<1>3. \A p \in Pages : stream'[p] = IF Live!Subscribed(p) /\ Live!full(p) THEN "evicted" ELSE stream[p]
  OBVIOUS
<1>4. frames' \in [Pages -> Seq(Nat)] /\ \A p \in Pages : Len(frames'[p]) <= SubBuffer
  <2>1. \A p \in Pages : frames'[p] \in Seq(Nat) /\ Len(frames'[p]) <= SubBuffer
    BY <1>1, <1>2 DEF PageType
  <2>2. frames' = [p \in Pages |-> frames'[p]]
    OBVIOUS
  <2> QED
    BY <2>1, <2>2
<1>5. PageType'
  BY <1>4 DEF PageType
<1>6. \A v \in PageWriters : toSend'[v] = IF v = w THEN 0 ELSE toSend[v]
  BY DEF PageType
<1>7. ShownIsStored'
  <2>1. \A p \in Pages : \A i \in 1..Len(frames'[p]) : frames'[p][i] \in Live!visible
    BY <1>1, <1>2 DEF ShownIsStored, PageType
  <2> QED
    BY <1>1, <1>6, <2>1 DEF ShownIsStored
<1>8. RestIsOnItsWay'
  <2>1. ASSUME NEW p \in Pages, stream'[p] = "live", NEW n \in Live!visible
        PROVE  \/ n \in page[p]
               \/ \E i \in 1..Len(frames'[p]) : frames'[p][i] = n
               \/ \E v \in PageWriters : toSend'[v] = n
    <3>1. stream[p] = "live" /\ frames'[p] = Append(frames[p], toSend[w]) /\ frames[p] \in Seq(Nat)
      BY <1>1, <1>2, <1>3, <2>1 DEF Live!Subscribed, Live!full, PageType
    <3>2. \E i \in 1..Len(frames'[p]) : frames'[p][i] = toSend[w]
      BY <3>1
    <3>3. \A i \in 1..Len(frames[p]) : i \in 1..Len(frames'[p]) /\ frames'[p][i] = frames[p][i]
      BY <3>1
    <3>4. \/ n \in page[p]
          \/ \E i \in 1..Len(frames[p]) : frames[p][i] = n
          \/ \E v \in PageWriters : toSend[v] = n
      BY <2>1, <3>1 DEF RestIsOnItsWay
    <3> QED
      BY <3>2, <3>3, <3>4, <1>6
  <2> QED
    BY <1>1, <2>1 DEF RestIsOnItsWay
<1> QED
  BY <1>5, <1>7, <1>8

\* A page that opens subscribes before it lists: the list has what no frame will bring.
LEMMA PageReads == ASSUME PageInv, NEW p \in Pages, Live!Open(p) \/ Live!List(p) \/ Live!End(p) PROVE PageInv'
<1> USE DEF PageInv
<1>1. Live!visible' = Live!visible /\ SubBuffer \in Nat
  BY FrontendsAssumption DEF Live!visible, Live!Open, Live!List, Live!End
<1>2. PICK v \in SUBSET Nat : v = Live!visible
  BY VisibleIsNat
<1>3. /\ UNCHANGED <<msgs, toSend>>
      /\ \/ frames' = frames /\ page' = page /\ stream' = [stream EXCEPT ![p] = "opened"]
         \/ frames' = frames /\ page' = [page EXCEPT ![p] = v] /\ stream' = [stream EXCEPT ![p] = "live"]
         \/ /\ frames' = [frames EXCEPT ![p] = <<>>] /\ page' = [page EXCEPT ![p] = {}]
            /\ stream' = [stream EXCEPT ![p] = "none"]
  BY <1>2 DEF Live!Open, Live!List, Live!End
<1>4. \A r \in Pages : r # p => frames'[r] = frames[r] /\ page'[r] = page[r] /\ stream'[r] = stream[r]
  BY <1>3 DEF PageType
<1>5. /\ frames'[p] = frames[p] \/ frames'[p] = <<>>
      /\ page'[p] \in {page[p], v, {}}
      /\ stream'[p] = "live" => page'[p] = v
  BY <1>3 DEF PageType
<1>6. PageType'
  <2>1. <<>> \in Seq(Nat) /\ Len(<<>>) = 0
    OBVIOUS
  <2>2. \A r \in Pages : Len(frames'[r]) <= SubBuffer
    BY <1>1, <1>4, <1>5, <2>1 DEF PageType
  <2> QED
    BY <1>3, <2>1, <2>2 DEF PageType
<1>7. ShownIsStored'
  <2>1. ASSUME NEW r \in Pages
        PROVE  page'[r] \subseteq v /\ \A i \in 1..Len(frames'[r]) : frames'[r][i] \in v
    BY <1>2, <1>4, <1>5 DEF ShownIsStored
  <2> QED
    BY <1>1, <1>2, <1>3, <2>1 DEF ShownIsStored
<1>8. RestIsOnItsWay'
  <2>1. ASSUME NEW r \in Pages, stream'[r] = "live", NEW n \in v
        PROVE  \/ n \in page'[r]
               \/ \E i \in 1..Len(frames'[r]) : frames'[r][i] = n
               \/ \E w \in PageWriters : toSend[w] = n
    BY <1>2, <1>4, <1>5, <2>1 DEF RestIsOnItsWay
  <2> QED
    BY <1>1, <1>2, <1>3, <2>1 DEF RestIsOnItsWay
<1> QED
  BY <1>6, <1>7, <1>8

\* A frame that is read is shown; what is behind it stays on its way.
LEMMA PageReceive == ASSUME PageInv, NEW p \in Pages, Live!Receive(p) PROVE PageInv'
<1> USE DEF PageInv, Live!Receive
<1>1. Live!visible' = Live!visible
  BY DEF Live!visible
<1>2. /\ frames[p] \in Seq(Nat) /\ frames[p] # <<>> /\ Head(frames[p]) = frames[p][1] /\ 1 \in 1..Len(frames[p])
      /\ Tail(frames[p]) \in Seq(Nat) /\ Len(Tail(frames[p])) = Len(frames[p]) - 1
      /\ \A i \in 1..(Len(frames[p]) - 1) : Tail(frames[p])[i] = frames[p][i + 1] /\ i + 1 \in 1..Len(frames[p])
      /\ \A i \in 1..Len(frames[p]) : i = 1 \/ (i - 1 \in 1..(Len(frames[p]) - 1) /\ frames[p][i] = Tail(frames[p])[i - 1])
  BY DEF PageType
<1>3. \A r \in Pages : /\ r # p => frames'[r] = frames[r] /\ page'[r] = page[r]
                       /\ r = p => frames'[r] = Tail(frames[p]) /\ page'[r] = page[p] \cup {frames[p][1]}
  BY <1>2 DEF PageType, ShownIsStored
<1>4. PageType'
  <2>0. frames[p][1] \in Nat
    BY <1>2
  <2>1. Len(Tail(frames[p])) <= SubBuffer
    BY <1>2, FrontendsAssumption DEF PageType
  <2> QED
    BY <1>2, <1>3, <2>0, <2>1 DEF PageType
<1>5. ShownIsStored'
  <2>1. ASSUME NEW r \in Pages, NEW i \in 1..Len(frames'[r]) PROVE frames'[r][i] \in Live!visible
    <3>1. CASE r = p
      <4>1. i \in 1..(Len(frames[p]) - 1) /\ frames'[r][i] = frames[p][i + 1]
        BY <1>2, <1>3, <2>1, <3>1
      <4> QED
        BY <1>2, <4>1 DEF ShownIsStored
    <3>2. CASE r # p
      BY <1>3, <2>1, <3>2 DEF ShownIsStored
    <3> QED
      BY <3>1, <3>2
  <2>2. \A r \in Pages : page'[r] \subseteq Live!visible
    BY <1>2, <1>3 DEF ShownIsStored
  <2> QED
    BY <1>1, <2>1, <2>2 DEF ShownIsStored
<1>6. RestIsOnItsWay'
  <2>1. ASSUME NEW n \in Live!visible, stream[p] = "live"
        PROVE  \/ n \in page'[p]
               \/ \E i \in 1..Len(frames'[p]) : frames'[p][i] = n
               \/ \E w \in PageWriters : toSend[w] = n
    <3>1. CASE \E i \in 1..Len(frames[p]) : frames[p][i] = n
      <4>1. PICK i \in 1..Len(frames[p]) : frames[p][i] = n
        BY <3>1
      <4>2. CASE i = 1
        BY <1>3, <4>1, <4>2
      <4>3. CASE i # 1
        <5>1. i - 1 \in 1..(Len(frames[p]) - 1) /\ Tail(frames[p])[i - 1] = n
          BY <1>2, <4>1, <4>3
        <5>2. i - 1 \in 1..Len(frames'[p]) /\ frames'[p][i - 1] = n
          BY <1>2, <1>3, <5>1
        <5> QED
          BY <5>2
      <4> QED
        BY <4>2, <4>3
    <3>2. CASE n \in page[p] \/ \E w \in PageWriters : toSend[w] = n
      BY <1>3, <3>2
    <3> QED
      BY <2>1, <3>1, <3>2 DEF RestIsOnItsWay
  <2>2. ASSUME NEW r \in Pages, stream[r] = "live", NEW n \in Live!visible
        PROVE  \/ n \in page'[r]
               \/ \E i \in 1..Len(frames'[r]) : frames'[r][i] = n
               \/ \E w \in PageWriters : toSend[w] = n
    <3>1. CASE r = p
      BY <2>1, <2>2, <3>1
    <3>2. CASE r # p
      BY <1>3, <2>2, <3>2 DEF RestIsOnItsWay
    <3> QED
      BY <3>1, <3>2
  <2>3. UNCHANGED <<stream, toSend>>
    OBVIOUS
  <2> QED
    BY <1>1, <2>2, <2>3 DEF RestIsOnItsWay
<1> QED
  BY <1>4, <1>5, <1>6

\* Each step of the page and of its writers keeps the invariant.
LEMMA PageKept == PageInv /\ [Live!Next]_liveVars => PageInv'
<1>1. PageInv /\ UNCHANGED liveVars => PageInv'
  BY DEF liveVars, PageInv, PageType, ShownIsStored, RestIsOnItsWay, Live!visible
<1> QED
  BY <1>1, PageStore, PageBroadcast, PageReads, PageReceive DEF Live!Next

\* A step of another part is a stutter of the page.
LEMMA PageSteps == Next => [Live!Next]_liveVars
BY DEF Next, ChatStep, LiveStep, TgStep, LarkStep, GuestStep, PostStep

\* What a live page does not show is in its channel or still with a writer, and it shows
\* no message the store does not have.
THEOREM LivePageIsWhole == Spec => []PageIsWhole
<1>1. Init => PageInv
  BY PageStarts DEF Init
<1>2. PageInv /\ [Next]_frontendVars => PageInv'
  BY PageKept, PageSteps DEF frontendVars
<1>3. PageInv => PageIsWhole
  BY PageHolds DEF PageIsWhole
<1> QED
  BY <1>1, <1>2, <1>3, PTL DEF Spec

-----------------------------------------------------------------------------
(* ---------------- guest threads of Lark (LarkGuest) ---------------- *)
Marks == Seq([time : Int, id : Guest!Msgs])

GuestType ==
    /\ said \in Seq([time : Int, kind : {"chat", "own", "mention"}]) /\ Len(said) <= MaxMsgs
    /\ mention \in [Guest!Msgs -> [pc : {"none", "create", "turn", "start", "send", "bind", "mark"},
                                   sid : Guest!Msgs \cup {0}, at : Marks, ctx : SUBSET Guest!Msgs]]
    /\ byThread \in Guest!Msgs \cup {0} /\ binding \in [Guest!Msgs -> Marks]
    /\ started \subseteq Guest!Msgs /\ createMu \in {"none", "guest"}
    /\ guestMirror \in [pc : {"idle", "waiting", "found"}, sid : Guest!Msgs \cup {0}]
    /\ given \in [Guest!Msgs -> SUBSET Guest!Msgs] /\ answered \in [Guest!Msgs -> SUBSET Guest!Msgs]
    /\ unread \subseteq Guest!Msgs

\* The thread is in the order of its times.
InOrder == \A i, j \in 1..Len(said) : i <= j => said[i].time <= said[j].time

\* A session's watermark is a mention it has got.
IsMarkOf(at, has, all) == \E w \in has : w \in 1..Len(all) /\ at = <<[time |-> all[w].time, id |-> w]>>
IsBeyond(m, j, at) == at = <<>> \/ m.time > at[1].time \/ (m.time = at[1].time /\ j # at[1].id)

\* What each mention's goroutine stands for: a session of its own, or the one the thread
\* was bound to, with a watermark of that.
TasksKnow ==
    \A i \in Guest!Msgs : mention[i].pc # "none" =>
      /\ i \in 1..Len(said) /\ said[i].kind = "mention" /\ mention[i].sid \in Guest!Msgs
      /\ mention[i].pc \in {"create", "start"} => mention[i].sid = i /\ mention[i].at = <<>>
      /\ mention[i].pc = "bind" => mention[i].sid = i
      /\ mention[i].pc \in {"turn", "send"} => IsMarkOf(mention[i].at, answered[mention[i].sid], said)
      /\ mention[i].pc \in {"bind", "mark"} => i \in answered[mention[i].sid]

\* The context holds all that the watermark leaves, and none of the bot's own words.
ContextIsWhole ==
    \A i \in Guest!Msgs :
      /\ \A j \in mention[i].ctx : j \in 1..Len(said) /\ said[j].kind # "own"
      /\ mention[i].pc \in {"start", "send"} /\ i \notin unread =>
           \A j \in 1..(i - 1) : said[j].kind # "own" /\ IsBeyond(said[j], j, mention[i].at) => j \in mention[i].ctx

BindingsHold ==
    /\ \A s \in Guest!Msgs : binding[s] = <<>> \/ IsMarkOf(binding[s], answered[s], said)
    /\ byThread # 0 => binding[byThread] # <<>>
    /\ \A s \in Guest!Msgs : answered[s] \subseteq given[s] /\ given[s] \subseteq 1..Len(said)
    /\ \A i \in Guest!Msgs : mention[i].pc = "bind" => createMu = "guest"
    /\ \A i, j \in Guest!Msgs : mention[i].pc = "bind" /\ mention[j].pc = "bind" => i = j
    /\ \A s \in started : binding[s] # <<>> \/ mention[s].pc = "bind"
    /\ guestMirror.pc = "waiting" => guestMirror.sid \in started

GuestInv ==
    /\ GuestType /\ InOrder /\ TasksKnow /\ ContextIsWhole /\ BindingsHold
    /\ Guest!GuestKnowsAll /\ Guest!GuestStaysHome

\* Nothing has been said and no thread has a session.
LEMMA GuestStarts == Guest!Init => GuestInv
<1> SUFFICES ASSUME Guest!Init PROVE GuestInv
  OBVIOUS
<1> USE DEF Guest!Init, Guest!NoTask, Guest!NoBinding, Guest!NoMirror, Guest!Msgs
<1>1. GuestType
  <2>1. <<>> \in Marks /\ said \in Seq([time : Int, kind : {"chat", "own", "mention"}]) /\ Len(said) = 0
    BY DEF Marks
  <2> QED
    BY <2>1, FrontendsAssumption DEF GuestType
<1>2. \A i \in Guest!Msgs : mention[i].pc = "none" /\ mention[i].ctx = {} /\ binding[i] = <<>> /\ given[i] = {} /\ answered[i] = {}
  OBVIOUS
<1> QED
  BY <1>1, <1>2 DEF GuestInv, InOrder, TasksKnow, ContextIsWhole, BindingsHold, Guest!GuestKnowsAll, Guest!GuestStaysHome

\* An append says nothing else of what was said, and leaves what the marks mean.
LEMMA GuestSay ==
  ASSUME GuestInv, NEW kind \in {"chat", "own", "mention"}, NEW time \in Guest!Now..MaxTime, Guest!Say(kind, time)
  PROVE  GuestInv'
<1> USE DEF GuestInv
<1> DEFINE n == Len(said) + 1
<1>1. /\ said \in Seq([time : Int, kind : {"chat", "own", "mention"}]) /\ Len(said) \in Nat /\ Len(said) < MaxMsgs
      /\ said' = Append(said, [time |-> time, kind |-> kind]) /\ n \in Guest!Msgs /\ MaxMsgs \in Nat
      /\ UNCHANGED <<byThread, binding, started, createMu, guestMirror, given, answered, unread, canonical>>
  BY FrontendsAssumption DEF Guest!Say, GuestType, Guest!Msgs
<1>2. time \in Int /\ \A j \in 1..Len(said) : said[j].time <= time
  <2>1. CASE said = <<>>
    BY <2>1, FrontendsAssumption DEF Guest!Now
  <2>2. CASE said # <<>>
    <3>1. Guest!Now = said[Len(said)].time /\ Len(said) > 0
      BY <1>1, <2>2 DEF Guest!Now, Guest!Last
    <3>2. \A j \in 1..Len(said) : said[j].time <= said[Len(said)].time /\ said[j].time \in Int
      <4>1. \A j \in 1..Len(said) : said[j] \in [time : Int, kind : {"chat", "own", "mention"}]
        <5>1. said \in Seq([time : Int, kind : {"chat", "own", "mention"}])
          BY <1>1
        <5> QED
          BY ONLY <5>1, OfSeq
      <4>2. Len(said) \in 1..Len(said) /\ \A j \in 1..Len(said) : j <= Len(said)
        BY <1>1, <3>1
      <4> QED
        BY <4>1, <4>2 DEF InOrder
    <3>3. MaxTime \in Nat /\ said[Len(said)].time \in Int
      BY <1>1, <3>1, <3>2, FrontendsAssumption
    <3>4. time \in Int /\ said[Len(said)].time <= time
      BY <3>1, <3>3
    <3> QED
      BY <3>2, <3>3, <3>4
  <2> QED
    BY <2>1, <2>2
<1>3. Len(said') = n /\ said'[n] = [time |-> time, kind |-> kind] /\ \A j \in 1..Len(said) : said'[j] = said[j]
  BY <1>1
<1>4. InOrder'
  <2> SUFFICES ASSUME NEW i \in 1..n, NEW j \in 1..n, i <= j PROVE said'[i].time <= said'[j].time
    BY <1>1, <1>3 DEF InOrder
  <2>1. CASE j = n /\ i = n
    BY <1>2, <1>3, <2>1
  <2>2. CASE j = n /\ i # n
    BY <1>1, <1>2, <1>3, <2>2
  <2>3. CASE j # n
    BY <1>1, <1>3, <2>3 DEF InOrder
  <2> QED
    BY <2>1, <2>2, <2>3
<1>5. \A at, has : IsMarkOf(at, has, said) => IsMarkOf(at, has, said')
  BY <1>1, <1>3 DEF IsMarkOf
<1>6. /\ \A i \in Guest!Msgs : i # n => mention'[i] = mention[i]
      /\ \/ mention'[n] = mention[n]
         \/ kind = "mention" /\ mention'[n] = [pc |-> "create", sid |-> n, at |-> <<>>, ctx |-> {}]
         \/ kind = "mention" /\ byThread # 0 /\ mention'[n] = [pc |-> "turn", sid |-> byThread, at |-> binding[byThread], ctx |-> {}]
  <2>1. CASE kind # "mention"
    BY <2>1 DEF Guest!Say
  <2>2. CASE kind = "mention" /\ byThread = 0
    <3>1. mention' = [mention EXCEPT ![n] = [pc |-> "create", sid |-> n, at |-> <<>>, ctx |-> {}]]
      BY <2>2 DEF Guest!Say, Guest!Put, Guest!NoTask
    <3> QED
      BY <1>1, <2>2, <3>1 DEF GuestType
  <2>3. CASE kind = "mention" /\ byThread # 0
    <3>1. mention' = [mention EXCEPT ![n] = [pc |-> "turn", sid |-> byThread, at |-> binding[byThread], ctx |-> {}]]
      BY <2>3 DEF Guest!Say, Guest!Put, Guest!NoTask
    <3> QED
      BY <1>1, <2>3, <3>1 DEF GuestType
  <2> QED
    BY <2>1, <2>2, <2>3
<1>7. mention[n].pc = "none" /\ \A s \in Guest!Msgs : n \notin answered[s] /\ n \notin given[s]
  BY <1>1 DEF TasksKnow, BindingsHold
<1>8. GuestType'
  <2>1. <<>> \in Marks /\ (byThread # 0 => binding[byThread] \in Marks)
    <3>1. <<>> \in Marks
      BY DEF Marks
    <3> QED
      BY <3>1 DEF GuestType
  <2>2. mention' \in [Guest!Msgs -> [pc : {"none", "create", "turn", "start", "send", "bind", "mark"},
                                     sid : Guest!Msgs \cup {0}, at : Marks, ctx : SUBSET Guest!Msgs]]
    <3>1. mention' = [i \in Guest!Msgs |-> mention'[i]]
      BY <1>1 DEF Guest!Say, GuestType, Guest!Put
    <3>2. mention'[n] \in [pc : {"none", "create", "turn", "start", "send", "bind", "mark"},
                           sid : Guest!Msgs \cup {0}, at : Marks, ctx : SUBSET Guest!Msgs]
      BY <1>1, <1>6, <2>1 DEF GuestType
    <3> QED
      BY <1>6, <3>1, <3>2 DEF GuestType
  <2>3. said' \in Seq([time : Int, kind : {"chat", "own", "mention"}]) /\ Len(said') <= MaxMsgs
    BY <1>1, <1>2, <1>3
  <2> QED
    BY <1>1, <2>2, <2>3 DEF GuestType
<1>9. TasksKnow'
  <2> SUFFICES ASSUME NEW i \in Guest!Msgs, mention'[i].pc # "none"
               PROVE /\ i \in 1..n /\ said'[i].kind = "mention" /\ mention'[i].sid \in Guest!Msgs
                     /\ mention'[i].pc \in {"create", "start"} => mention'[i].sid = i /\ mention'[i].at = <<>>
                     /\ mention'[i].pc = "bind" => mention'[i].sid = i
                     /\ mention'[i].pc \in {"turn", "send"} => IsMarkOf(mention'[i].at, answered[mention'[i].sid], said')
                     /\ mention'[i].pc \in {"bind", "mark"} => i \in answered[mention'[i].sid]
    BY <1>1, <1>3 DEF TasksKnow
  <2>1. CASE i # n
    <3>1. mention'[i] = mention[i] /\ i \in 1..Len(said)
      BY <1>6, <2>1 DEF TasksKnow
    <3>2. mention[i].pc \in {"turn", "send"} => IsMarkOf(mention[i].at, answered[mention[i].sid], said')
      BY <1>5, <3>1 DEF TasksKnow
    <3> QED
      BY <1>1, <1>3, <3>1, <3>2 DEF TasksKnow
  <2>2. CASE i = n
    <3>1. byThread # 0 => byThread \in Guest!Msgs /\ IsMarkOf(binding[byThread], answered[byThread], said')
      BY <1>5 DEF BindingsHold, GuestType
    <3> QED
      BY <1>1, <1>3, <1>6, <1>7, <2>2, <3>1
  <2> QED
    BY <2>1, <2>2
<1>10. ContextIsWhole'
  <2> SUFFICES ASSUME NEW i \in Guest!Msgs
               PROVE /\ \A j \in mention'[i].ctx : j \in 1..n /\ said'[j].kind # "own"
                     /\ mention'[i].pc \in {"start", "send"} /\ i \notin unread =>
                          \A j \in 1..(i - 1) : said'[j].kind # "own" /\ IsBeyond(said'[j], j, mention'[i].at) => j \in mention'[i].ctx
    BY <1>1, <1>3 DEF ContextIsWhole
  <2>1. CASE mention'[i] = mention[i]
    <3>1. mention[i].pc \in {"start", "send"} => i \in 1..Len(said)
      BY DEF TasksKnow
    <3>3. \A j \in mention'[i].ctx : j \in 1..n /\ said'[j].kind # "own"
      BY <1>1, <1>3, <2>1 DEF ContextIsWhole
    <3>4. ASSUME mention[i].pc \in {"start", "send"}, i \notin unread, NEW j \in 1..(i - 1), said'[j].kind # "own",
                 IsBeyond(said'[j], j, mention[i].at)
          PROVE  j \in mention[i].ctx
      <4>1. j \in 1..Len(said) /\ said'[j] = said[j]
        BY <1>1, <1>3, <3>1, <3>4
      <4> QED
        BY <3>4, <4>1 DEF ContextIsWhole
    <3> QED
      BY <2>1, <3>3, <3>4
  <2>2. CASE mention'[i] # mention[i]
    BY <1>6, <2>2
  <2> QED
    BY <2>1, <2>2
<1>11. BindingsHold'
  <2>1. \A s \in Guest!Msgs : binding[s] = <<>> \/ IsMarkOf(binding[s], answered[s], said')
    BY <1>5 DEF BindingsHold
  <2>2. \A i \in Guest!Msgs : mention'[i].pc = "bind" <=> mention[i].pc = "bind"
    BY <1>6, <1>7
  <2>3. \A s \in Guest!Msgs : answered[s] \subseteq given[s] /\ given[s] \subseteq 1..n
    BY <1>1 DEF BindingsHold
  <2> QED
    BY <1>1, <1>3, <2>1, <2>2, <2>3 DEF BindingsHold, GuestType
<1>12. Guest!GuestKnowsAll'
  <2> SUFFICES ASSUME NEW s \in Guest!Msgs
               PROVE /\ unread = {} => \A i \in answered[s] : \A j \in 1..(i - 1) : said'[j].kind # "own" => j \in given[s]
                     /\ \A j \in given[s] : said'[j].kind # "own"
    BY <1>1 DEF Guest!GuestKnowsAll
  <2>1. answered[s] \subseteq 1..Len(said) /\ given[s] \subseteq 1..Len(said)
    BY DEF BindingsHold
  <2>2. \A i \in answered[s] : \A j \in 1..(i - 1) : j \in 1..Len(said)
    BY <1>1, <2>1
  <2> QED
    BY <1>3, <2>1, <2>2 DEF Guest!GuestKnowsAll
<1> QED
  BY <1>1, <1>4, <1>8, <1>9, <1>10, <1>11, <1>12 DEF Guest!GuestStaysHome

\* A step that says nothing, on the task of i: the others are as they were.
LEMMA GuestPull == ASSUME GuestInv, NEW i \in Guest!Msgs, NEW ok \in BOOLEAN, Guest!Pull(i, ok) PROVE GuestInv'
<1> USE DEF GuestInv
<1>1. PICK ctx : ctx = IF ok THEN Guest!transcript(i, mention[i].at) ELSE {}
  OBVIOUS
<1>2. /\ mention[i].pc \in {"create", "turn"}
      /\ mention' = [mention EXCEPT ![i] = [mention[i] EXCEPT !.pc = IF @ = "create" THEN "start" ELSE "send", !.ctx = ctx]]
      /\ unread' = IF ok THEN unread ELSE unread \cup {i}
      /\ UNCHANGED <<said, byThread, binding, started, createMu, guestMirror, given, answered, canonical>>
  BY <1>1 DEF Guest!Pull, Guest!Put
<1>3. /\ \A j \in Guest!Msgs : j # i => mention'[j] = mention[j]
      /\ mention'[i].pc = IF mention[i].pc = "create" THEN "start" ELSE "send"
      /\ mention'[i].sid = mention[i].sid /\ mention'[i].at = mention[i].at /\ mention'[i].ctx = ctx
  BY <1>2 DEF GuestType
<1>4. ctx \subseteq Guest!Msgs /\ \A j \in ctx : j \in 1..Len(said) /\ said[j].kind # "own"
  <2>1. DOMAIN said = 1..Len(said) /\ Len(said) \in Nat /\ Len(said) <= MaxMsgs
    BY DEF GuestType
  <2> QED
    BY <1>1, <2>1, FrontendsAssumption DEF Guest!transcript, Guest!Msgs
<1>5. ok => \A j \in 1..(i - 1) : said[j].kind # "own" /\ IsBeyond(said[j], j, mention[i].at) => j \in ctx
  <2>1. i \in 1..Len(said) /\ DOMAIN said = 1..Len(said) /\ Len(said) \in Nat
    BY <1>2 DEF TasksKnow, GuestType
  <2>2. \A j \in 1..(i - 1) : j \in 1..Len(said) /\ j # i
    BY <2>1
  <2> QED
    BY <1>1, <2>1, <2>2 DEF Guest!transcript, Guest!beyond, IsBeyond
<1>6. GuestType'
  <2>1. mention' \in [Guest!Msgs -> [pc : {"none", "create", "turn", "start", "send", "bind", "mark"},
                                     sid : Guest!Msgs \cup {0}, at : Marks, ctx : SUBSET Guest!Msgs]]
    <3>1. mention[i] \in [pc : {"none", "create", "turn", "start", "send", "bind", "mark"},
                          sid : Guest!Msgs \cup {0}, at : Marks, ctx : SUBSET Guest!Msgs]
      BY DEF GuestType
    <3>2. [mention[i] EXCEPT !.pc = IF @ = "create" THEN "start" ELSE "send", !.ctx = ctx]
             \in [pc : {"none", "create", "turn", "start", "send", "bind", "mark"},
                  sid : Guest!Msgs \cup {0}, at : Marks, ctx : SUBSET Guest!Msgs]
      BY <1>4, <3>1
    <3> QED
      BY <1>2, <3>2 DEF GuestType
  <2> QED
    BY <1>2, <2>1 DEF GuestType
<1>7. TasksKnow'
  BY <1>2, <1>3 DEF TasksKnow
<1>8. ContextIsWhole'
  <2> SUFFICES ASSUME NEW k \in Guest!Msgs
               PROVE /\ \A j \in mention'[k].ctx : j \in 1..Len(said) /\ said[j].kind # "own"
                     /\ mention'[k].pc \in {"start", "send"} /\ k \notin unread' =>
                          \A j \in 1..(k - 1) : said[j].kind # "own" /\ IsBeyond(said[j], j, mention'[k].at) => j \in mention'[k].ctx
    BY <1>2 DEF ContextIsWhole
  <2>1. CASE k # i
    BY <1>2, <1>3, <2>1 DEF ContextIsWhole
  <2>2. CASE k = i
    BY <1>2, <1>3, <1>4, <1>5, <2>2
  <2> QED
    BY <2>1, <2>2
<1>9. BindingsHold'
  <2>1. \A j \in Guest!Msgs : mention'[j].pc = "bind" <=> mention[j].pc = "bind"
    BY <1>2, <1>3
  <2> QED
    BY <1>2, <2>1 DEF BindingsHold, GuestType
<1>10. InOrder' /\ Guest!GuestKnowsAll' /\ Guest!GuestStaysHome'
  BY <1>2 DEF InOrder, Guest!GuestKnowsAll, Guest!GuestStaysHome
<1> QED
  BY <1>6, <1>7, <1>8, <1>9, <1>10

\* A mention that is given up takes nothing with it.
LEMMA GuestDrops ==
  ASSUME GuestInv, NEW i \in Guest!Msgs, mention[i].pc # "bind", mention' = [mention EXCEPT ![i] = Guest!NoTask],
         UNCHANGED <<said, byThread, binding, started, createMu, guestMirror, given, answered, unread, canonical>>
  PROVE  GuestInv'
<1> USE DEF GuestInv
<1>1. /\ \A j \in Guest!Msgs : j # i => mention'[j] = mention[j]
      /\ mention'[i].pc = "none" /\ mention'[i].ctx = {}
  BY DEF GuestType, Guest!NoTask
<1>2. GuestType'
  <2>1. <<>> \in Marks
    BY DEF Marks
  <2> QED
    BY <2>1 DEF GuestType, Guest!NoTask
<1>3. TasksKnow'
  BY <1>1 DEF TasksKnow
<1>4. ContextIsWhole'
  BY <1>1 DEF ContextIsWhole
<1>5. BindingsHold'
  <2>1. \A j \in Guest!Msgs : mention'[j].pc = "bind" <=> mention[j].pc = "bind"
    BY <1>1
  <2> QED
    BY <2>1 DEF BindingsHold, GuestType
<1>6. InOrder' /\ Guest!GuestKnowsAll' /\ Guest!GuestStaysHome'
  BY DEF InOrder, Guest!GuestKnowsAll, Guest!GuestStaysHome
<1> QED
  BY <1>2, <1>3, <1>4, <1>5, <1>6

\* What a mention brings with it is all that its session did not have: the rest is from
\* before the watermark, a mention the session has got.
LEMMA BringsTheRest ==
  ASSUME GuestInv, NEW i \in Guest!Msgs, mention[i].pc \in {"start", "send"}, unread = {},
         NEW j \in 1..(i - 1), said[j].kind # "own"
  PROVE  j \in given[mention[i].sid] \cup mention[i].ctx
<1> USE DEF GuestInv
<1>1. /\ i \in 1..Len(said) /\ j \in 1..Len(said) /\ Len(said) \in Nat /\ mention[i].sid \in Guest!Msgs
      /\ \A k \in 1..Len(said) : said[k].time \in Int
  <2>1. i \in 1..Len(said) /\ Len(said) \in Nat /\ mention[i].sid \in Guest!Msgs
    BY DEF TasksKnow, GuestType
  <2>2. said \in Seq([time : Int, kind : {"chat", "own", "mention"}])
    BY DEF GuestType
  <2>3. \A k \in 1..Len(said) : said[k] \in [time : Int, kind : {"chat", "own", "mention"}]
    BY ONLY <2>2, OfSeq
  <2> QED
    BY <2>1, <2>3
<1>2. CASE mention[i].pc = "start"
  <2>1. mention[i].at = <<>>
    BY <1>2 DEF TasksKnow
  <2> QED
    BY <1>2, <2>1 DEF ContextIsWhole, IsBeyond
<1>3. CASE mention[i].pc = "send"
  <2>1. PICK w \in answered[mention[i].sid] : /\ w \in 1..Len(said)
                                             /\ mention[i].at = <<[time |-> said[w].time, id |-> w]>>
    BY <1>3 DEF TasksKnow, IsMarkOf
  <2>2. CASE j < w
    <3>1. j \in 1..(w - 1)
      BY <1>1, <2>1, <2>2
    <3> QED
      BY <1>1, <2>1, <3>1 DEF Guest!GuestKnowsAll
  <2>3. CASE j = w
    BY <1>1, <2>1, <2>3 DEF BindingsHold
  <2>4. CASE j > w
    <3>1. said[w].time <= said[j].time
      BY <1>1, <2>1, <2>4 DEF InOrder
    <3>2. IsBeyond(said[j], j, mention[i].at)
      BY <1>1, <2>1, <2>4, <3>1 DEF IsBeyond
    <3> QED
      BY <1>3, <3>2 DEF ContextIsWhole
  <2> QED
    BY <1>1, <2>1, <2>2, <2>3, <2>4
<1> QED
  BY <1>2, <1>3

\* A mention that reaches its session, by a start or a send.
LEMMA GuestGets ==
  ASSUME GuestInv, NEW i \in Guest!Msgs, Guest!Start(i) \/ Guest!Send(i, TRUE)
  PROVE  GuestInv'
<1> USE DEF GuestInv
<1>1. PICK s \in Guest!Msgs : s = mention[i].sid
  BY DEF TasksKnow, Guest!Start, Guest!Send
<1>2. /\ mention[i].pc \in {"start", "send"} /\ (mention[i].pc = "start" => s = i /\ createMu = "none")
      /\ mention' = [mention EXCEPT ![i] = [mention[i] EXCEPT !.pc = IF @ = "start" THEN "bind" ELSE "mark"]]
      /\ given' = [given EXCEPT ![s] = @ \cup mention[i].ctx \cup {i}]
      /\ answered' = [answered EXCEPT ![s] = @ \cup {i}]
      /\ started' = IF mention[i].pc = "start" THEN started \cup {i} ELSE started
      /\ createMu' = IF mention[i].pc = "start" THEN "guest" ELSE createMu
      /\ UNCHANGED <<said, byThread, binding, guestMirror, unread, canonical>>
  BY <1>1 DEF Guest!Start, Guest!Send, Guest!Gives, Guest!Put, TasksKnow
<1>3. /\ \A j \in Guest!Msgs : j # i => mention'[j] = mention[j]
      /\ mention'[i].pc = IF mention[i].pc = "start" THEN "bind" ELSE "mark"
      /\ mention'[i].sid = s /\ mention'[i].ctx = mention[i].ctx
      /\ mention[i].ctx \subseteq Guest!Msgs
  BY <1>1, <1>2 DEF GuestType
<1>4. /\ \A r \in Guest!Msgs : r # s => given'[r] = given[r] /\ answered'[r] = answered[r]
      /\ given'[s] = given[s] \cup mention[i].ctx \cup {i} /\ answered'[s] = answered[s] \cup {i}
  BY <1>2 DEF GuestType
<1>5. i \in 1..Len(said) /\ said[i].kind = "mention"
  BY <1>2 DEF TasksKnow
<1>6. \A r \in Guest!Msgs : \A at : IsMarkOf(at, answered[r], said) => IsMarkOf(at, answered'[r], said)
  BY <1>4 DEF IsMarkOf
<1>7. GuestType'
  <2>1. mention' \in [Guest!Msgs -> [pc : {"none", "create", "turn", "start", "send", "bind", "mark"},
                                     sid : Guest!Msgs \cup {0}, at : Marks, ctx : SUBSET Guest!Msgs]]
    BY <1>2 DEF GuestType
  <2>2. given' \in [Guest!Msgs -> SUBSET Guest!Msgs] /\ answered' \in [Guest!Msgs -> SUBSET Guest!Msgs]
    BY <1>2, <1>3 DEF GuestType
  <2> QED
    BY <1>2, <2>1, <2>2 DEF GuestType
<1>8. TasksKnow'
  <2> SUFFICES ASSUME NEW k \in Guest!Msgs, mention'[k].pc # "none"
               PROVE /\ k \in 1..Len(said) /\ said[k].kind = "mention" /\ mention'[k].sid \in Guest!Msgs
                     /\ mention'[k].pc \in {"create", "start"} => mention'[k].sid = k /\ mention'[k].at = <<>>
                     /\ mention'[k].pc = "bind" => mention'[k].sid = k
                     /\ mention'[k].pc \in {"turn", "send"} => IsMarkOf(mention'[k].at, answered'[mention'[k].sid], said)
                     /\ mention'[k].pc \in {"bind", "mark"} => k \in answered'[mention'[k].sid]
    BY <1>2, ZenonT(30) DEF TasksKnow
  <2>1. CASE k # i
    <3>1. \A r \in Guest!Msgs : answered[r] \subseteq answered'[r]
      BY <1>4
    <3> QED
      BY <1>3, <1>6, <2>1, <3>1 DEF TasksKnow
  <2>2. CASE k = i
    BY <1>2, <1>3, <1>4, <1>5, <2>2
  <2> QED
    BY <2>1, <2>2
<1>9. ContextIsWhole'
  BY <1>2, <1>3 DEF ContextIsWhole
<1>10. BindingsHold'
  <2>1. \A r \in Guest!Msgs : binding[r] = <<>> \/ IsMarkOf(binding[r], answered'[r], said)
    BY <1>6 DEF BindingsHold
  <2>2. \A r \in Guest!Msgs : answered'[r] \subseteq given'[r] /\ given'[r] \subseteq 1..Len(said)
    <3>1. mention[i].ctx \subseteq 1..Len(said)
      BY DEF ContextIsWhole
    <3> QED
      BY <1>4, <1>5, <3>1 DEF BindingsHold
  <2>3. /\ \A k \in Guest!Msgs : mention'[k].pc = "bind" => createMu' = "guest"
        /\ \A j, k \in Guest!Msgs : mention'[j].pc = "bind" /\ mention'[k].pc = "bind" => j = k
        /\ \A r \in started' : binding[r] # <<>> \/ mention'[r].pc = "bind"
    <3>1. CASE mention[i].pc = "start"
      <4>1. \A k \in Guest!Msgs : mention[k].pc # "bind"
        BY <1>2, <3>1 DEF BindingsHold
      <4> QED
        BY <1>2, <1>3, <3>1, <4>1 DEF BindingsHold, GuestType
    <3>2. CASE mention[i].pc # "start"
      BY <1>2, <1>3, <3>2 DEF BindingsHold, GuestType
    <3> QED
      BY <3>1, <3>2
  <2> QED
    <3>1. byThread # 0 => binding[byThread] # <<>>
      BY DEF BindingsHold
    <3>2. guestMirror.pc = "waiting" => guestMirror.sid \in started'
      BY <1>2 DEF BindingsHold
    <3>3. UNCHANGED <<byThread, binding, guestMirror, said>>
      BY <1>2
    <3> QED
      BY <2>1, <2>2, <2>3, <3>1, <3>2, <3>3 DEF BindingsHold
<1>11. Guest!GuestKnowsAll'
  <2> SUFFICES ASSUME NEW r \in Guest!Msgs
               PROVE /\ unread = {} => \A k \in answered'[r] : \A j \in 1..(k - 1) : said[j].kind # "own" => j \in given'[r]
                     /\ \A j \in given'[r] : said[j].kind # "own"
    BY <1>2 DEF Guest!GuestKnowsAll
  <2>1. \A j \in given'[r] : said[j].kind # "own"
    BY <1>4, <1>5 DEF Guest!GuestKnowsAll, ContextIsWhole
  <2>2. ASSUME unread = {}, NEW k \in answered'[r], NEW j \in 1..(k - 1), said[j].kind # "own"
        PROVE  j \in given'[r]
    <3>1. CASE r = s /\ k = i
      BY <1>1, <1>2, <1>4, <2>2, <3>1, BringsTheRest
    <3>2. CASE k \in answered[r]
      BY <1>4, <2>2, <3>2 DEF Guest!GuestKnowsAll
    <3> QED
      BY <1>4, <3>1, <3>2
  <2> QED
    BY <2>1, <2>2
<1>12. InOrder' /\ Guest!GuestStaysHome'
  BY <1>2 DEF InOrder, Guest!GuestStaysHome
<1> QED
  BY <1>7, <1>8, <1>9, <1>10, <1>11, <1>12

\* The watermark of a session follows a mention it has got.
LEMMA GuestMarks ==
  ASSUME GuestInv, NEW i \in Guest!Msgs, Guest!putGuest(i) \/ Guest!setWatermark(i)
  PROVE  GuestInv'
<1> USE DEF GuestInv
<1>1. PICK s \in Guest!Msgs : s = mention[i].sid
  BY DEF TasksKnow, Guest!putGuest, Guest!setWatermark
<1>2. PICK at : at = <<[time |-> said[i].time, id |-> i]>>
  OBVIOUS
<1>3. /\ mention[i].pc \in {"bind", "mark"} /\ (mention[i].pc = "bind" => s = i)
      /\ mention' = [mention EXCEPT ![i] = Guest!NoTask]
      /\ binding' = [binding EXCEPT ![s] = at]
      /\ byThread' = IF mention[i].pc = "bind" THEN i ELSE byThread
      /\ createMu' = IF mention[i].pc = "bind" THEN "none" ELSE createMu
      /\ UNCHANGED <<said, started, guestMirror, given, answered, unread, canonical>>
  BY <1>1, <1>2 DEF Guest!putGuest, Guest!setWatermark, Guest!SetMark, Guest!Mark, Guest!Put, TasksKnow
<1>4. /\ \A j \in Guest!Msgs : j # i => mention'[j] = mention[j]
      /\ mention'[i].pc = "none" /\ mention'[i].ctx = {}
      /\ \A r \in Guest!Msgs : r # s => binding'[r] = binding[r]
      /\ binding'[s] = at
  BY <1>3 DEF GuestType, Guest!NoTask
<1>5. i \in 1..Len(said) /\ i \in answered[s] /\ IsMarkOf(at, answered[s], said) /\ at # <<>> /\ at \in Marks
  <2>1. i \in 1..Len(said) /\ i \in answered[s]
    BY <1>1, <1>3 DEF TasksKnow
  <2>2. said \in Seq([time : Int, kind : {"chat", "own", "mention"}])
    BY DEF GuestType
  <2>3. said[i] \in [time : Int, kind : {"chat", "own", "mention"}]
    BY <2>1, <2>2, OfSeq
  <2>4. PICK m \in [time : Int, id : Guest!Msgs] : at = <<m>>
    BY <1>2, <2>3
  <2> QED
    BY <1>2, <2>1, <2>4 DEF IsMarkOf, Marks
<1>6. GuestType'
  <2>1. <<>> \in Marks
    BY DEF Marks
  <2>2. mention' \in [Guest!Msgs -> [pc : {"none", "create", "turn", "start", "send", "bind", "mark"},
                                     sid : Guest!Msgs \cup {0}, at : Marks, ctx : SUBSET Guest!Msgs]]
    BY <1>3, <2>1 DEF GuestType, Guest!NoTask
  <2> QED
    BY <1>3, <1>5, <2>2 DEF GuestType
<1>7. TasksKnow'
  BY <1>3, <1>4 DEF TasksKnow
<1>8. ContextIsWhole'
  BY <1>3, <1>4 DEF ContextIsWhole
<1>9. BindingsHold'
  <2>1. /\ \A r \in Guest!Msgs : binding'[r] = <<>> \/ IsMarkOf(binding'[r], answered[r], said)
        /\ byThread' # 0 => binding'[byThread'] # <<>>
    BY <1>3, <1>4, <1>5 DEF BindingsHold, GuestType
  <2>2. /\ \A k \in Guest!Msgs : mention'[k].pc = "bind" => createMu' = "guest"
        /\ \A j, k \in Guest!Msgs : mention'[j].pc = "bind" /\ mention'[k].pc = "bind" => j = k
    BY <1>3, <1>4 DEF BindingsHold
  <2>3. \A r \in started : binding'[r] # <<>> \/ mention'[r].pc = "bind"
    BY <1>3, <1>4, <1>5 DEF BindingsHold, GuestType
  <2> QED
    BY <1>3, <2>1, <2>2, <2>3 DEF BindingsHold
<1>10. InOrder' /\ Guest!GuestKnowsAll' /\ Guest!GuestStaysHome'
  BY <1>3 DEF InOrder, Guest!GuestKnowsAll, Guest!GuestStaysHome
<1> QED
  BY <1>6, <1>7, <1>8, <1>9, <1>10

\* A session's first event: nobody waits in vain for the lock that covers its binding.
LEMMA GuestMirrors ==
  ASSUME GuestInv, Guest!LookAgain \/ \E s \in Guest!Msgs : Guest!Lookup(s)
  PROVE  GuestInv'
<1> USE DEF GuestInv
<1>1. UNCHANGED <<said, mention, byThread, binding, started, createMu, given, answered, unread>>
  BY DEF Guest!LookAgain, Guest!Lookup
<1>2. /\ guestMirror' \in [pc : {"idle", "waiting", "found"}, sid : Guest!Msgs \cup {0}]
      /\ guestMirror'.pc = "waiting" => guestMirror'.sid \in started
  <2>1. guestMirror \in [pc : {"idle", "waiting", "found"}, sid : Guest!Msgs \cup {0}] /\ started \subseteq Guest!Msgs
    BY DEF GuestType
  <2>2. CASE Guest!LookAgain
    BY <2>1, <2>2 DEF Guest!LookAgain
  <2>3. ASSUME NEW s \in Guest!Msgs, Guest!Lookup(s)
        PROVE  /\ guestMirror' \in [pc : {"idle", "waiting", "found"}, sid : Guest!Msgs \cup {0}]
               /\ guestMirror'.pc = "waiting" => guestMirror'.sid \in started
    BY <2>1, <2>3 DEF Guest!Lookup
  <2> QED
    BY <2>2, <2>3
<1>3. canonical' = FALSE
  <2>1. CASE Guest!LookAgain
    <3>1. guestMirror.sid \in started /\ createMu = "none" /\ started \subseteq Guest!Msgs
      BY <2>1 DEF Guest!LookAgain, BindingsHold, GuestType
    <3>2. binding[guestMirror.sid] # <<>>
      BY <3>1 DEF BindingsHold
    <3> QED
      BY <2>1, <3>2 DEF Guest!LookAgain, Guest!NoBinding
  <2>2. CASE \E s \in Guest!Msgs : Guest!Lookup(s)
    BY <2>2 DEF Guest!Lookup, Guest!GuestStaysHome
  <2> QED
    BY <2>1, <2>2
<1>4. GuestType'
  BY <1>1, <1>2 DEF GuestType
<1>5. BindingsHold'
  BY <1>1, <1>2 DEF BindingsHold
<1>6. InOrder' /\ TasksKnow' /\ ContextIsWhole' /\ Guest!GuestKnowsAll' /\ Guest!GuestStaysHome'
  BY <1>1, <1>3 DEF InOrder, TasksKnow, ContextIsWhole, Guest!GuestKnowsAll, Guest!GuestStaysHome
<1> QED
  BY <1>4, <1>5, <1>6

\* Each step of the guest mode keeps the invariant.
LEMMA GuestKept == GuestInv /\ [Guest!Next]_guestVars => GuestInv'
<1>1. GuestInv /\ UNCHANGED guestVars => GuestInv'
  BY DEF guestVars, GuestInv, GuestType, InOrder, TasksKnow, ContextIsWhole, BindingsHold, Guest!GuestKnowsAll, Guest!GuestStaysHome
<1>2. ASSUME GuestInv, Guest!Next PROVE GuestInv'
  <2>1. CASE \E kind \in {"chat", "own", "mention"}, time \in Guest!Now..MaxTime : Guest!Say(kind, time)
    BY <1>2, <2>1, GuestSay
  <2>2. CASE \E i \in Guest!Msgs, ok \in BOOLEAN : Guest!Pull(i, ok)
    BY <1>2, <2>2, GuestPull
  <2>3. CASE \E i \in Guest!Msgs : Guest!Send(i, FALSE) \/ Guest!StartFails(i)
    BY <1>2, <2>3, GuestDrops DEF Guest!Send, Guest!StartFails, Guest!Put
  <2>4. CASE \E i \in Guest!Msgs : Guest!Send(i, TRUE) \/ Guest!Start(i)
    BY <1>2, <2>4, GuestGets
  <2>5. CASE \E i \in Guest!Msgs : Guest!putGuest(i) \/ Guest!setWatermark(i)
    BY <1>2, <2>5, GuestMarks
  <2>6. CASE Guest!LookAgain \/ \E s \in Guest!Msgs : Guest!Lookup(s)
    BY <1>2, <2>6, GuestMirrors
  <2> QED
    BY <1>2, <2>1, <2>2, <2>3, <2>4, <2>5, <2>6 DEF Guest!Next
<1> QED
  BY <1>1, <1>2

\* A step of another part is a stutter of the guest mode.
LEMMA GuestSteps == Next => [Guest!Next]_guestVars
BY DEF Next, ChatStep, LiveStep, TgStep, LarkStep, GuestStep, PostStep

\* A guest session has what was said in its thread before each mention it has got, and
\* none of the bot's own words; it is bound before its events look for a thread.
THEOREM GuestHearsTheThread == Spec => []GuestIsTold
<1>1. Init => GuestInv
  BY GuestStarts DEF Init
<1>2. GuestInv /\ [Next]_frontendVars => GuestInv'
  BY GuestKept, GuestSteps DEF frontendVars
<1>3. GuestInv => GuestIsTold
  BY DEF GuestInv, GuestIsTold
<1> QED
  BY <1>1, <1>2, <1>3, PTL DEF Spec

-----------------------------------------------------------------------------
(* ---------------- the Lark bridge (Lark) ---------------- *)
LarkType ==
    /\ question \in [Lark!QS -> {"new", "pending", "web", "lark"}]
    /\ link \in {"down", "subscribed", "up"} /\ chan \in Seq(Lark!QS) /\ drops \in Nat
    /\ posting \in Lark!QS \cup {0} /\ posted \subseteq Lark!QS /\ unposted \subseteq Lark!QS
    /\ asks \subseteq Lark!QS /\ asksBySession \in Lark!QS \cup {0}
    /\ tapping \subseteq Lark!QS /\ cards \in [Lark!QS -> Nat]
    /\ seen \subseteq Lark!MS /\ sent \in [Lark!MS -> Nat]
    /\ task \in [Lark!MS -> [pc : {"none", "route", "send", "answer"}, q : Lark!QS \cup {0}]]
    /\ \A m \in Lark!MS : task[m].pc = "answer" => task[m].q \in Lark!QS
    /\ fate \in [Lark!MS -> {"none", "lost", "answered", "told", "sent"}]

\* A prompt that is pending has its one card, or is on its way to it.
CardsAreOne ==
    \A q \in Lark!QS :
      /\ question[q] = "new" => /\ cards[q] = 0 /\ q \notin posted /\ posting # q
                                /\ \A i \in 1..Len(chan) : chan[i] # q
      /\ question[q] = "pending" =>
           /\ cards[q] <= 1
           /\ cards[q] = 1 => q \in posted /\ posting # q
           /\ posting = q => q \in posted
           /\ link = "up" => q \in posted \/ q \in unposted \/ \E i \in 1..Len(chan) : chan[i] = q

\* A message is with its one goroutine until it has been sent or answered with.
TasksAreOne ==
    \A m \in Lark!MS :
      /\ task[m].pc # "none" => m \in seen /\ sent[m] = 0
      /\ m \notin seen => sent[m] = 0 /\ (fate[m] = "sent" => drops > 0)
      /\ sent[m] <= 1
      /\ fate[m] = "answered" => sent[m] = 0
      /\ fate[m] = "sent" => sent[m] = 1 \/ drops > 0

LarkInv == LarkType /\ CardsAreOne /\ TasksAreOne

\* A set in some order: each of its elements is in the list.
LEMMA ListOfSet ==
  ASSUME NEW T, NEW S \in SUBSET T, IsFiniteSet(S)
  PROVE  /\ Lark!SetToSeq(S) \in Seq(T)
         /\ \A i \in 1..Len(Lark!SetToSeq(S)) : Lark!SetToSeq(S)[i] \in S
         /\ \A x \in S : \E i \in 1..Len(Lark!SetToSeq(S)) : Lark!SetToSeq(S)[i] = x
<1>1. PICK n \in Nat : n = Cardinality(S) /\ ExistsBijection(1..n, S)
  BY FS_CardinalityType
<1>2. \E f \in [1..Cardinality(S) -> S] : Lark!IsInjective(f)
  BY <1>1 DEF ExistsBijection, Bijection, Injection, IsInjective, Lark!IsInjective
<1>3. Lark!SetToSeq(S) \in [1..Cardinality(S) -> S] /\ Lark!IsInjective(Lark!SetToSeq(S))
  <2>1. Lark!Cardinality(S) = Cardinality(S)
    BY DEF Lark!Cardinality, Cardinality
  <2> QED
    BY <1>2, <2>1 DEF Lark!SetToSeq
<1>4. PICK f \in [1..n -> S] : f = Lark!SetToSeq(S) /\ Lark!IsInjective(f)
  BY <1>1, <1>3
<1>5. f \in Injection(1..n, S)
  BY <1>4 DEF Injection, IsInjective, Lark!IsInjective
<1>6. Cardinality(1..n) = n
  BY <1>1, FS_Interval
<1>7. f \in Surjection(1..n, S)
  BY <1>1, <1>5, <1>6, FS_Injection
<1>8. \A x \in S : \E i \in 1..n : f[i] = x
  BY <1>7 DEF Surjection
<1>9. f \in Seq(T) /\ Len(f) = n
  BY <1>4
<1> QED
  BY <1>4, <1>8, <1>9

\* Nothing has been asked, pushed or typed, and no plugin is connected.
LEMMA LarkStarts == Lark!Init => LarkInv
<1> SUFFICES ASSUME Lark!Init PROVE LarkInv
  OBVIOUS
<1> USE DEF Lark!Init, Lark!NoTask
<1>1. LarkType
  <2>1. <<>> \in Seq(Lark!QS) /\ 0 \in Nat
    OBVIOUS
  <2> QED
    BY <2>1 DEF LarkType
<1>2. \A q \in Lark!QS : question[q] = "new" /\ cards[q] = 0 /\ posting # q
  BY FrontendsAssumption DEF Lark!QS
<1>3. \A m \in Lark!MS : task[m].pc = "none" /\ sent[m] = 0 /\ fate[m] = "none"
  OBVIOUS
<1> QED
  BY <1>1, <1>2, <1>3 DEF LarkInv, CardsAreOne, TasksAreOne

\* The two properties of the bridge follow from the invariant.
LEMMA LarkHolds == LarkInv => Lark!PromptsReach /\ Lark!TypedOnce
<1> SUFFICES ASSUME LarkInv PROVE Lark!PromptsReach /\ Lark!TypedOnce
  OBVIOUS
<1>1. Lark!ToSet(chan) = {chan[i] : i \in 1..Len(chan)}
  BY DEF LarkInv, LarkType, Lark!ToSet
<1>2. Lark!PromptsReach
  BY <1>1 DEF LarkInv, CardsAreOne, Lark!PromptsReach, Lark!Pending
<1>3. Lark!TypedOnce
  BY DEF LarkInv, LarkType, TasksAreOne, Lark!TypedOnce
<1> QED
  BY <1>2, <1>3

\* The questions as they come and go, without the channel.
LEMMA LarkAnswered ==
  ASSUME LarkInv, NEW q \in Lark!QS, question[q] # "new",
         question' \in {question, [question EXCEPT ![q] = "lark"], [question EXCEPT ![q] = "web"]},
         UNCHANGED <<link, chan, posting, cards, unposted>>,
         posted' = posted \/ (posted' = posted \ {q} /\ question'[q] # "pending")
  PROVE  CardsAreOne'
<1>1. /\ \A p \in Lark!QS : p # q => question'[p] = question[p]
      /\ question'[q] # "new" /\ question'[q] \in {question[q], "lark", "web"}
      /\ \A p \in Lark!QS : p # q => (p \in posted' <=> p \in posted)
  BY DEF LarkInv, LarkType
<1> SUFFICES ASSUME NEW p \in Lark!QS
             PROVE /\ question'[p] = "new" => /\ cards[p] = 0 /\ p \notin posted' /\ posting # p
                                              /\ \A i \in 1..Len(chan) : chan[i] # p
                   /\ question'[p] = "pending" =>
                        /\ cards[p] <= 1
                        /\ cards[p] = 1 => p \in posted' /\ posting # p
                        /\ posting = p => p \in posted'
                        /\ link = "up" => p \in posted' \/ p \in unposted \/ \E i \in 1..Len(chan) : chan[i] = p
  BY DEF CardsAreOne
<1>2. CASE p # q
  BY <1>1, <1>2 DEF LarkInv, CardsAreOne
<1>3. CASE p = q
  BY <1>1, <1>3 DEF LarkInv, CardsAreOne
<1> QED
  BY <1>2, <1>3

\* The stream: a question is on it once it is pending, and a snapshot has them all.
LEMMA LarkStream ==
  ASSUME LarkInv, (\E q \in Lark!QS : Lark!Ask(q)) \/ Lark!Subscribe \/ Lark!Replay \/ Lark!Drop
  PROVE  LarkInv'
<1> USE DEF LarkInv
<1>1. /\ UNCHANGED <<posting, registered, posted, asks, asksBySession, cards, tapping, pushes, seen, task, fate, sent>>
      /\ drops' \in Nat /\ (drops > 0 => drops' > 0)
  BY DEF Lark!Ask, Lark!Subscribe, Lark!Replay, Lark!Drop, Lark!cardVars, Lark!textVars, Lark!turnVars, LarkType
<1>2. TasksAreOne'
  BY <1>1 DEF TasksAreOne
<1>3. ASSUME question' \in [Lark!QS -> {"new", "pending", "web", "lark"}], link' \in {"down", "subscribed", "up"},
             chan' \in Seq(Lark!QS), unposted' \subseteq Lark!QS
      PROVE  LarkType'
  BY <1>1, <1>3 DEF LarkType
<1>4. ASSUME \A p \in Lark!QS :
               /\ question'[p] = "new" => question[p] = "new" /\ \A i \in 1..Len(chan') : chan'[i] # p
               /\ question'[p] = "pending" =>
                    /\ question[p] \in {"new", "pending"}
                    /\ link' = "up" => p \in posted \/ p \in unposted' \/ \E i \in 1..Len(chan') : chan'[i] = p
      PROVE  CardsAreOne'
  BY <1>1, <1>4 DEF CardsAreOne
<1>5. CASE \E q \in Lark!QS : Lark!Ask(q)
  <2>1. PICK q \in Lark!QS : Lark!Ask(q)
    BY <1>5
  <2>2. /\ question[q] = "new" /\ question' = [question EXCEPT ![q] = "pending"] /\ link' = link /\ unposted' = unposted
        /\ chan' = IF link = "down" THEN chan ELSE Append(chan, q)
    BY <2>1 DEF Lark!Ask
  <2>3. chan \in Seq(Lark!QS) /\ chan' \in Seq(Lark!QS) /\ Len(chan) \in Nat
    BY <2>2 DEF LarkType
  <2>4. /\ link # "down" => Len(chan') = Len(chan) + 1 /\ chan'[Len(chan) + 1] = q /\ \A i \in 1..Len(chan) : chan'[i] = chan[i]
        /\ link = "down" => chan' = chan
    BY <2>2, <2>3
  <2>5. /\ \A p \in Lark!QS : p # q => question'[p] = question[p]
        /\ question'[q] = "pending"
    BY <2>2 DEF LarkType
  <2>6. LarkType'
    BY <1>3, <2>2, <2>3 DEF LarkType
  <2>7. ASSUME NEW p \in Lark!QS, question'[p] = "new" PROVE question[p] = "new" /\ \A i \in 1..Len(chan') : chan'[i] # p
    BY <2>3, <2>4, <2>5, <2>7 DEF CardsAreOne
  <2>8. ASSUME NEW p \in Lark!QS, question'[p] = "pending"
        PROVE  /\ question[p] \in {"new", "pending"}
               /\ link' = "up" => p \in posted \/ p \in unposted' \/ \E i \in 1..Len(chan') : chan'[i] = p
    <3>1. CASE p = q
      BY <2>2, <2>3, <2>4, <3>1
    <3>2. CASE p # q
      <4>1. question[p] = "pending"
        BY <2>5, <2>8, <3>2
      <4>2. ASSUME link' = "up" PROVE p \in posted \/ p \in unposted \/ \E i \in 1..Len(chan) : chan[i] = p
        BY <2>2, <4>1, <4>2 DEF CardsAreOne
      <4>3. \A i \in 1..Len(chan) : i \in 1..Len(chan') /\ chan'[i] = chan[i]
        BY <2>3, <2>4
      <4> QED
        BY <2>2, <4>1, <4>2, <4>3
    <3> QED
      BY <3>1, <3>2
  <2> QED
    BY <1>2, <1>4, <2>6, <2>7, <2>8
<1>6. CASE Lark!Subscribe
  BY <1>1, <1>2, <1>6 DEF Lark!Subscribe, LarkType, CardsAreOne
<1>7. CASE Lark!Replay
  <2>1. PICK S : S = {q \in Lark!QS : question[q] = "pending"}
    OBVIOUS
  <2>2. PICK list \in Seq(Lark!QS) : /\ list = Lark!SetToSeq(S) /\ \A x \in S : \E i \in 1..Len(list) : list[i] = x
                                    /\ \A i \in 1..Len(list) : list[i] \in S
    <3>1. IsFiniteSet(Lark!QS)
      BY FrontendsAssumption, FS_Interval DEF Lark!QS
    <3>2. IsFiniteSet(S)
      BY <2>1, <3>1, FS_Subset
    <3>3. S \in SUBSET Lark!QS
      BY <2>1
    <3> QED
      BY <3>2, <3>3, ListOfSet
  <2>3. link' = "up" /\ chan' = list \o chan /\ unposted' = {} /\ question' = question
    BY <1>7, <2>1, <2>2 DEF Lark!Replay, Lark!snapshot, Lark!Pending
  <2>4. list \in Seq(Lark!QS) /\ chan \in Seq(Lark!QS) /\ \A i \in 1..Len(list) : question[list[i]] = "pending" 
    BY <2>1, <2>2 DEF LarkType
  <2>5. /\ chan' \in Seq(Lark!QS) /\ Len(chan') = Len(list) + Len(chan) /\ Len(list) \in Nat /\ Len(chan) \in Nat
        /\ \A i \in 1..Len(list) : chan'[i] = list[i]
        /\ \A i \in 1..Len(chan') : i \in 1..Len(list) \/ (i - Len(list) \in 1..Len(chan) /\ chan'[i] = chan[i - Len(list)])
    BY <2>3, <2>4
  <2>6. LarkType'
    BY <1>3, <2>3, <2>5 DEF LarkType
  <2>7. ASSUME NEW p \in Lark!QS, question[p] = "new" PROVE \A i \in 1..Len(chan') : chan'[i] # p
    <3>1. \A i \in 1..Len(list) : chan'[i] # p
      BY <2>4, <2>5, <2>7
    <3>2. \A i \in 1..Len(chan) : chan[i] # p
      BY <2>7 DEF CardsAreOne
    <3> QED
      BY <2>5, <3>1, <3>2
  <2>8. ASSUME NEW p \in Lark!QS, question[p] = "pending" PROVE \E i \in 1..Len(chan') : chan'[i] = p
    <3>1. PICK i \in 1..Len(list) : list[i] = p
      BY <2>1, <2>2, <2>8
    <3>2. i \in 1..Len(chan') /\ chan'[i] = p
      BY <2>5, <3>1
    <3> QED
      BY <3>2
  <2> QED
    BY <1>2, <1>4, <2>3, <2>6, <2>7, <2>8
<1>8. CASE Lark!Drop
  <2>1. PICK n \in 0..Len(chan) : chan' = SubSeq(chan, 1, n)
    BY <1>8 DEF Lark!Drop
  <2>2. chan \in Seq(Lark!QS) /\ Len(chan) \in Nat
    BY DEF LarkType
  <2>3. chan' \in Seq(Lark!QS) /\ Len(chan') = n /\ \A i \in 1..n : chan'[i] = chan[i] /\ i \in 1..Len(chan)
    BY <2>1, <2>2
  <2>4. link' = "down" /\ UNCHANGED <<question, unposted>>
    BY <1>8 DEF Lark!Drop
  <2>5. LarkType'
    BY <1>3, <2>3, <2>4 DEF LarkType
  <2> QED
    BY <1>2, <1>4, <2>3, <2>4, <2>5 DEF CardsAreOne
<1> QED
  BY <1>5, <1>6, <1>7, <1>8

\* A restart has nothing but the questions.
LEMMA LarkRestart == ASSUME LarkInv, Lark!Restart PROVE LarkInv'
<1> USE DEF LarkInv, Lark!Restart, Lark!NoTask
<1>1. /\ question' = question /\ link' = "down" /\ chan' = <<>> /\ posting' = 0 /\ posted' = {} /\ unposted' = {}
      /\ \A q \in Lark!QS : cards'[q] = 0 /\ posting' # q
  BY FrontendsAssumption DEF Lark!QS
<1>2. /\ \A m \in Lark!MS : task'[m].pc = "none" /\ sent'[m] = 0 /\ fate'[m] \in {fate[m], "lost"}
      /\ drops \in Nat /\ drops' = drops + 1 /\ drops' > 0 /\ seen' = {}
  BY DEF LarkType
<1>3. LarkType'
  <2>1. <<>> \in Seq(Lark!QS)
    OBVIOUS
  <2> QED
    BY <1>1, <1>2, <2>1 DEF LarkType
<1>4. CardsAreOne'
  BY <1>1 DEF CardsAreOne
<1>5. TasksAreOne'
  BY <1>2 DEF TasksAreOne
<1> QED
  BY <1>3, <1>4, <1>5

\* permissionLoop takes the next prompt, unless its card is there already.
LEMMA LarkClaim == ASSUME LarkInv, Lark!Claim PROVE LarkInv'
<1> USE DEF LarkInv
<1>1. PICK h \in Lark!QS : h = Head(chan) /\ 1 \in 1..Len(chan) /\ chan[1] = h
  BY RestOf DEF Lark!Claim, LarkType
<1>2. /\ chan' \in Seq(Lark!QS) /\ Len(chan') = Len(chan) - 1 /\ Len(chan) \in Nat
      /\ \A i \in 1..Len(chan') : chan'[i] = chan[i + 1] /\ i + 1 \in 1..Len(chan)
      /\ \A i \in 1..Len(chan) : i = 1 \/ (i - 1 \in 1..Len(chan') /\ chan[i] = chan'[i - 1])
  <2>1. chan \in Seq(Lark!QS) /\ chan # <<>> /\ chan' = Tail(chan)
    BY DEF Lark!Claim, LarkType
  <2> QED
    BY <2>1, RestOf
<1>3. /\ posting = 0 /\ 0 \notin Lark!QS /\ posted' = posted \cup {h}
      /\ posting' = IF h \in posted THEN 0 ELSE h
      /\ UNCHANGED <<question, link, drops, unposted, registered, asks, asksBySession, cards, tapping,
                     pushes, seen, task, fate, sent>>
  BY <1>1, FrontendsAssumption DEF Lark!Claim, Lark!claimPending, Lark!textVars, Lark!turnVars, Lark!QS
<1>4. LarkType'
  BY <1>2, <1>3 DEF LarkType
<1>5. question[h] # "new"
  BY <1>1 DEF CardsAreOne
<1>6. ASSUME NEW q \in Lark!QS, question[q] = "new"
      PROVE  cards[q] = 0 /\ q \notin posted' /\ posting' # q /\ \A i \in 1..Len(chan') : chan'[i] # q
  <2>1. q # h /\ q # 0
    BY <1>3, <1>5, <1>6
  <2> QED
    BY <1>2, <1>3, <1>6, <2>1 DEF CardsAreOne
<1>7. ASSUME NEW q \in Lark!QS, question[q] = "pending"
      PROVE  /\ cards[q] <= 1
             /\ cards[q] = 1 => q \in posted' /\ posting' # q
             /\ posting' = q => q \in posted'
             /\ link = "up" => q \in posted' \/ q \in unposted \/ \E i \in 1..Len(chan') : chan'[i] = q
  <2>1. cards[q] <= 1 /\ (cards[q] = 1 => q \in posted)
    BY <1>7 DEF CardsAreOne
  <2>2. q # 0
    BY <1>3
  <2>3. ASSUME NEW i \in 1..Len(chan), chan[i] = q PROVE q = h \/ \E j \in 1..Len(chan') : chan'[j] = q
    <3>1. CASE i = 1
      BY <1>1, <2>3, <3>1
    <3>2. CASE i # 1
      BY <1>2, <2>3, <3>2
    <3> QED
      BY <3>1, <3>2
  <2>4. link = "up" => q \in posted' \/ q \in unposted \/ \E i \in 1..Len(chan') : chan'[i] = q
    BY <1>3, <1>7, <2>3 DEF CardsAreOne
  <2> QED
    BY <1>3, <2>1, <2>2, <2>4
<1>8. CardsAreOne'
  BY <1>3, <1>6, <1>7 DEF CardsAreOne
<1>9. TasksAreOne'
  BY <1>3 DEF TasksAreOne
<1> QED
  BY <1>4, <1>8, <1>9

\* The prompt in hand gets its card, or is let go of.
LEMMA LarkPosts ==
  ASSUME LarkInv, NEW ok \in BOOLEAN, Lark!Register \/ Lark!PostCard(ok)
  PROVE  LarkInv'
<1> USE DEF LarkInv
<1>1. CASE Lark!Register
  <2>1. UNCHANGED <<question, link, chan, drops, unposted, posting, posted, cards, tapping, pushes, seen, task, fate, sent>>
    BY <1>1 DEF Lark!Register, Lark!streamVars, Lark!textVars, Lark!turnVars
  <2>2. LarkType'
    BY <1>1, <2>1 DEF Lark!Register, Lark!putAsk, LarkType
  <2> QED
    BY <2>1, <2>2 DEF CardsAreOne, TasksAreOne
<1>2. CASE Lark!PostCard(ok)
  <2>1. PICK p \in Lark!QS : p = posting
    BY <1>2 DEF Lark!PostCard, LarkType
  <2>2. /\ posting' = 0 /\ 0 \notin Lark!QS /\ question[p] # "new" /\ cards[p] \in Nat
        /\ question[p] = "pending" => cards[p] = 0 /\ p \in posted
    <3>1. posting' = 0 /\ 0 \notin Lark!QS /\ cards[p] \in Nat
      BY <1>2, FrontendsAssumption DEF Lark!PostCard, Lark!QS, LarkType
    <3>2. question[p] # "new" /\ (question[p] = "pending" => cards[p] <= 1 /\ cards[p] # 1 /\ p \in posted)
      BY <2>1 DEF CardsAreOne
    <3> QED
      BY <3>1, <3>2
  <2>3. /\ IF ok THEN posted' = posted /\ unposted' = unposted /\ cards' = [cards EXCEPT ![p] = @ + 1]
           ELSE posted' = posted \ {p} /\ unposted' = unposted \cup {p} /\ cards' = cards
        /\ UNCHANGED <<question, link, chan, drops, tapping, pushes, seen, task, fate, sent>>
        /\ asks' \subseteq asks /\ asksBySession' \in {0, asksBySession}
    BY <1>2, <2>1 DEF Lark!PostCard, Lark!takeAsk, Lark!textVars, Lark!turnVars
  <2>4. LarkType'
    BY <2>2, <2>3 DEF LarkType
  <2>5. \A q \in Lark!QS : /\ q # p => cards'[q] = cards[q]
                           /\ q = p => cards'[q] = IF ok THEN cards[p] + 1 ELSE cards[p]
    BY <2>3 DEF LarkType
  <2>6. CardsAreOne'
    <3> SUFFICES ASSUME NEW q \in Lark!QS
                 PROVE /\ question[q] = "new" => /\ cards'[q] = 0 /\ q \notin posted' /\ posting' # q
                                                 /\ \A i \in 1..Len(chan) : chan[i] # q
                       /\ question[q] = "pending" =>
                            /\ cards'[q] <= 1
                            /\ cards'[q] = 1 => q \in posted' /\ posting' # q
                            /\ posting' = q => q \in posted'
                            /\ link = "up" => q \in posted' \/ q \in unposted' \/ \E i \in 1..Len(chan) : chan[i] = q
      BY <2>3 DEF CardsAreOne
    <3>1. CASE q # p
      BY <2>2, <2>3, <2>5, <3>1 DEF CardsAreOne
    <3>2. CASE q = p
      BY <2>2, <2>3, <2>5, <3>2
    <3> QED
      BY <3>1, <3>2
  <2>7. TasksAreOne'
    BY <2>3 DEF TasksAreOne
  <2> QED
    BY <2>4, <2>6, <2>7
<1> QED
  BY <1>1, <1>2

\* An answer to a card, by a tap or in words; what usher did not take changes nothing.
LEMMA LarkTaps ==
  ASSUME LarkInv, NEW q \in Lark!QS, NEW outcome \in {"ok", "failed", "unheard", "rejected"},
         Lark!AnswerElsewhere(q) \/ Lark!Tap(q) \/ Lark!TapDone(q, outcome)
  PROVE  LarkInv'
<1> USE DEF LarkInv
<1>1. UNCHANGED <<link, chan, drops, unposted, posting, cards, pushes, seen, task, fate, sent>>
  BY DEF Lark!AnswerElsewhere, Lark!Tap, Lark!TapDone, Lark!streamVars, Lark!cardVars, Lark!textVars, Lark!turnVars
<1>2. /\ asks' \subseteq asks /\ asksBySession' \in {0, asksBySession} /\ tapping' \subseteq tapping \cup {q}
      /\ posted' \in {posted, posted \ {q}}
      /\ question' \in {question, [question EXCEPT ![q] = "lark"], [question EXCEPT ![q] = "web"]}
  BY DEF Lark!AnswerElsewhere, Lark!Tap, Lark!TapDone, Lark!takeAsk, Lark!takePosted, Lark!Respond,
         Lark!streamVars, Lark!cardVars, Lark!textVars, Lark!turnVars
<1>3. LarkType'
  BY <1>1, <1>2 DEF LarkType
<1>4. TasksAreOne'
  BY <1>1 DEF TasksAreOne
<1>5. CardsAreOne'
  <2>1. CASE question[q] = "new"
    <3>1. question' = question /\ posted' = posted
      <4>1. q \notin posted /\ ~Lark!Pending(q)
        BY <2>1 DEF Lark!Pending, CardsAreOne
      <4> QED
        BY <1>2, <4>1 DEF Lark!AnswerElsewhere, Lark!Tap, Lark!TapDone, Lark!Outcomes, Lark!Respond, Lark!cardVars
    <3> QED
      BY <1>1, <3>1 DEF CardsAreOne
  <2>2. CASE question[q] # "new"
    <3>1. posted' = posted \/ (posted' = posted \ {q} /\ question'[q] # "pending")
      BY DEF Lark!AnswerElsewhere, Lark!Tap, Lark!TapDone, Lark!Outcomes, Lark!Respond, Lark!takePosted,
             Lark!Pending, Lark!cardVars, LarkType
    <3> QED
      BY <1>1, <1>2, <2>2, <3>1, LarkAnswered
  <2> QED
    BY <2>1, <2>2
<1> QED
  BY <1>3, <1>4, <1>5

\* A message is routed once, however often it is pushed.
LEMMA LarkRoutes ==
  ASSUME LarkInv, NEW m \in Lark!MS, Lark!Push(m) \/ Lark!Route(m)
  PROVE  LarkInv'
<1> USE DEF LarkInv
<1>1. /\ UNCHANGED <<question, link, chan, drops, unposted, posting, posted, cards, tapping, fate, sent>>
      /\ asks' \subseteq asks /\ asksBySession' \in {0, asksBySession} /\ seen' \in {seen, seen \cup {m}}
  BY DEF Lark!Push, Lark!Route, Lark!streamVars, Lark!cardVars, Lark!turnVars
<1>2. PICK r \in [pc : {"none", "route", "send", "answer"}, q : Lark!QS \cup {0}] :
        /\ task' = [task EXCEPT ![m] = r] /\ (r.pc = "answer" => r.q \in Lark!QS)
        /\ r.pc # "none" => m \in seen' /\ sent[m] = 0
  <2>1. CASE Lark!Push(m) /\ m \in seen
    <3>1. task' = task /\ task = [task EXCEPT ![m] = task[m]]
      BY <2>1 DEF Lark!Push, Lark!alreadyHandled, LarkType
    <3>2. /\ task[m] \in [pc : {"none", "route", "send", "answer"}, q : Lark!QS \cup {0}]
          /\ task[m].pc = "answer" => task[m].q \in Lark!QS
          /\ task[m].pc # "none" => m \in seen' /\ sent[m] = 0
      BY <1>1 DEF LarkType, TasksAreOne
    <3> QED
      BY <3>1, <3>2
  <2>2. CASE Lark!Push(m) /\ m \notin seen
    <3>1. task' = [task EXCEPT ![m] = [pc |-> "route", q |-> 0]] /\ m \in seen' /\ sent[m] = 0
      BY <2>2 DEF Lark!Push, Lark!alreadyHandled, TasksAreOne
    <3> QED
      BY <3>1
  <2>3. CASE Lark!Route(m)
    <3>1. /\ task' = [task EXCEPT ![m] = [pc |-> IF asksBySession = 0 THEN "send" ELSE "answer", q |-> asksBySession]]
          /\ asksBySession \in Lark!QS \cup {0}
          /\ m \in seen' /\ sent[m] = 0
      BY <1>1, <2>3 DEF Lark!Route, LarkType, TasksAreOne
    <3>2. CASE asksBySession = 0
      <4>1. task' = [task EXCEPT ![m] = [pc |-> "send", q |-> 0]]
        BY <3>1, <3>2
      <4> QED
        BY <3>1, <4>1
    <3>3. CASE asksBySession # 0
      <4>1. task' = [task EXCEPT ![m] = [pc |-> "answer", q |-> asksBySession]] /\ asksBySession \in Lark!QS
        BY <3>1, <3>3
      <4> QED
        BY <3>1, <4>1
    <3> QED
      BY <3>2, <3>3
  <2> QED
    BY <2>1, <2>2, <2>3
<1>3. \A n \in Lark!MS : /\ n # m => task'[n] = task[n]
                         /\ n = m => task'[n] = r
  BY <1>2 DEF LarkType
<1>4. LarkType'
  BY <1>1, <1>2, <1>3 DEF LarkType
<1>5. CardsAreOne'
  BY <1>1 DEF CardsAreOne
<1>6. TasksAreOne'
  BY <1>1, <1>2, <1>3 DEF TasksAreOne
<1> QED
  BY <1>4, <1>5, <1>6

\* What becomes of a message: an answer, a prompt, or a word that it failed.
LEMMA LarkDelivers ==
  ASSUME LarkInv, NEW m \in Lark!MS, NEW outcome \in {"ok", "failed", "unheard", "rejected"},
         Lark!AnswerDone(m, outcome) \/ Lark!SendDone(m, outcome)
  PROVE  LarkInv'
<1> USE DEF LarkInv
<1>1. /\ UNCHANGED <<link, chan, drops, unposted, posting, cards, tapping, seen>>
      /\ task[m].pc # "none" /\ m \in seen /\ sent[m] = 0
  BY DEF Lark!AnswerDone, Lark!SendDone, Lark!streamVars, Lark!cardVars, Lark!turnVars, TasksAreOne
<1>2. CASE Lark!AnswerDone(m, outcome)
  <2>1. PICK q \in Lark!QS : q = task[m].q
    BY <1>2 DEF Lark!AnswerDone, LarkType
  <2>2. /\ outcome \in Lark!Outcomes(q) /\ sent' = sent
        /\ question' \in {question, [question EXCEPT ![q] = "lark"]}
        /\ asks' \subseteq asks \cup {q} /\ asksBySession' \in {asksBySession, q}
        /\ posted' \in {posted, posted \ {q}}
    BY <1>2, <2>1 DEF Lark!AnswerDone, Lark!Respond, Lark!takePosted, Lark!putAsk
  <2>3. PICK r \in [pc : {"none", "send"}, q : Lark!QS \cup {0}], what \in {"told", "answered", fate[m]} :
          /\ task' = [task EXCEPT ![m] = r] /\ fate' = [fate EXCEPT ![m] = what]
    <3>1. CASE outcome = "ok"
      <4>1. task' = [task EXCEPT ![m] = [pc |-> "none", q |-> 0]] /\ fate' = [fate EXCEPT ![m] = "answered"]
        BY <1>2, <3>1 DEF Lark!AnswerDone, Lark!Settle, Lark!NoTask
      <4> QED
        BY <4>1
    <3>2. CASE outcome = "rejected"
      <4>1. task' = [task EXCEPT ![m] = [task[m] EXCEPT !.pc = "send"]] /\ fate' = [fate EXCEPT ![m] = fate[m]]
        BY <1>2, <3>2 DEF Lark!AnswerDone, Lark!StaleIsPrompt, LarkType
      <4>2. [task[m] EXCEPT !.pc = "send"] \in [pc : {"none", "send"}, q : Lark!QS \cup {0}]
        BY DEF LarkType
      <4> QED
        BY <4>1, <4>2
    <3>3. CASE outcome \in {"failed", "unheard"}
      <4>1. task' = [task EXCEPT ![m] = [pc |-> "none", q |-> 0]] /\ fate' = [fate EXCEPT ![m] = "told"]
        BY <1>2, <3>3 DEF Lark!AnswerDone, Lark!Settle, Lark!NoTask
      <4> QED
        BY <4>1
    <3> QED
      BY <3>1, <3>2, <3>3
  <2>4. \A n \in Lark!MS : /\ n # m => task'[n] = task[n] /\ fate'[n] = fate[n]
                           /\ n = m => task'[n] = r /\ fate'[n] = what
    BY <2>3 DEF LarkType
  <2>5. LarkType'
    <3>1. what \in {"none", "lost", "answered", "told", "sent"}
      BY DEF LarkType
    <3> QED
      BY <1>1, <2>2, <2>3, <2>4, <3>1 DEF LarkType
  <2>6. TasksAreOne'
    BY <1>1, <2>2, <2>4 DEF TasksAreOne
  <2>7. CardsAreOne'
    <3>1. CASE question[q] = "new"
      <4>1. q \notin posted /\ ~Lark!Pending(q)
        BY <3>1 DEF Lark!Pending, CardsAreOne
      <4>2. question' = question /\ posted' = posted
        BY <1>2, <2>1, <2>2, <4>1 DEF Lark!AnswerDone, Lark!Outcomes, Lark!Respond
      <4> QED
        BY <1>1, <4>2 DEF CardsAreOne
    <3>2. CASE question[q] # "new"
      <4>1. posted' = posted \/ (posted' = posted \ {q} /\ question'[q] # "pending")
        BY <1>2, <2>1 DEF Lark!AnswerDone, Lark!Respond, Lark!takePosted, LarkType
      <4> QED
        BY <1>1, <2>2, <3>2, <4>1, LarkAnswered
    <3> QED
      BY <3>1, <3>2
  <2> QED
    BY <2>5, <2>6, <2>7
<1>3. CASE Lark!SendDone(m, outcome)
  <2>1. /\ UNCHANGED <<question, posted, asks, asksBySession>>
        /\ task' = [task EXCEPT ![m] = [pc |-> "none", q |-> 0]]
        /\ fate' = [fate EXCEPT ![m] = IF outcome = "ok" THEN "sent" ELSE "told"]
        /\ sent' = [sent EXCEPT ![m] = @ + (IF outcome = "failed" THEN 0 ELSE 1)]
    BY <1>3 DEF Lark!SendDone, Lark!Settle, Lark!NoTask, Lark!cardVars
  <2>2. /\ \A n \in Lark!MS : n # m => task'[n] = task[n] /\ fate'[n] = fate[n] /\ sent'[n] = sent[n]
        /\ task'[m].pc = "none" /\ task'[m].q = 0
        /\ fate'[m] = IF outcome = "ok" THEN "sent" ELSE "told"
        /\ sent'[m] = IF outcome = "failed" THEN 0 ELSE 1
    BY <1>1, <2>1 DEF LarkType
  <2>3. LarkType'
    BY <1>1, <2>1, <2>2 DEF LarkType
  <2>4. TasksAreOne'
    BY <1>1, <2>2 DEF TasksAreOne
  <2>5. CardsAreOne'
    BY <1>1, <2>1 DEF CardsAreOne
  <2> QED
    BY <2>3, <2>4, <2>5
<1> QED
  BY <1>2, <1>3

\* Each step of the bridge keeps the invariant.
LEMMA LarkKept == LarkInv /\ [Lark!Next]_larkVars => LarkInv'
<1>1. LarkInv /\ UNCHANGED larkVars => LarkInv'
  BY DEF larkVars, LarkInv, LarkType, CardsAreOne, TasksAreOne
<1>2. ASSUME LarkInv, Lark!Next PROVE LarkInv'
  <2>1. CASE (\E q \in Lark!QS : Lark!Ask(q)) \/ Lark!Subscribe \/ Lark!Replay \/ Lark!Drop
    BY <1>2, <2>1, LarkStream
  <2>2. CASE Lark!Restart
    BY <1>2, <2>2, LarkRestart
  <2>3. CASE Lark!Claim
    BY <1>2, <2>3, LarkClaim
  <2>4. CASE Lark!Register \/ \E ok \in BOOLEAN : Lark!PostCard(ok)
    BY <1>2, <2>4, LarkPosts
  <2>5. CASE \E q \in Lark!QS : Lark!AnswerElsewhere(q) \/ Lark!Tap(q)
    BY <1>2, <2>5, LarkTaps
  <2>6. CASE \E q \in Lark!QS, o \in {"ok", "failed", "unheard", "rejected"} : Lark!TapDone(q, o)
    BY <1>2, <2>6, LarkTaps
  <2>7. CASE \E m \in Lark!MS : Lark!Push(m) \/ Lark!Route(m)
    BY <1>2, <2>7, LarkRoutes
  <2>8. CASE \E m \in Lark!MS : \E o \in {"ok", "failed", "unheard", "rejected"} : Lark!AnswerDone(m, o) \/ Lark!SendDone(m, o)
    BY <1>2, <2>8, LarkDelivers
  <2>9. CASE (\E type \in Types : Lark!Publish(type)) \/ Lark!HandleEvent
    <3>1. UNCHANGED <<question, link, chan, drops, unposted, posting, registered, posted, asks, asksBySession, cards,
                      tapping, pushes, seen, task, fate, sent>>
      BY <2>9 DEF Lark!Publish, Lark!HandleEvent, Lark!streamVars, Lark!cardVars, Lark!textVars
    <3> QED
      BY <1>2, <3>1 DEF LarkInv, LarkType, CardsAreOne, TasksAreOne
  <2> QED
    BY <1>2, <2>1, <2>2, <2>3, <2>4, <2>5, <2>6, <2>7, <2>8, <2>9 DEF Lark!Next, Lark!Routing
<1> QED
  BY <1>1, <1>2

\* A step of another part is a stutter of the Lark bridge.
LEMMA LarkSteps == Next => [Lark!Next]_larkVars
BY DEF Next, ChatStep, LiveStep, TgStep, LarkStep, GuestStep, PostStep

\* The invariant of the Lark bridge.
LEMMA LarkAlways == Spec => []LarkInv
<1>1. Init => LarkInv
  BY LarkStarts DEF Init
<1>2. LarkInv /\ [Next]_frontendVars => LarkInv'
  BY LarkKept, LarkSteps DEF frontendVars
<1> QED
  BY <1>1, <1>2, PTL DEF Spec

\* A connected plugin has every pending prompt, with at most one card for it.
THEOREM LarkPromptsReach == Spec => []PromptsReach
<1>1. LarkInv => PromptsReach
  BY LarkHolds DEF PromptsReach
<1> QED
  BY <1>1, LarkAlways, PTL

\* A message that Lark pushes again reaches the session once, and its fate is what the
\* session got.
THEOREM LarkTypedOnce == Spec => []TypedOnce
<1>1. LarkInv => TypedOnce
  BY LarkHolds DEF TypedOnce
<1> QED
  BY <1>1, LarkAlways, PTL

-----------------------------------------------------------------------------
(* ---------------- the Telegram bridge (Telegram) ---------------- *)
Qs == 1..TgQuestions
Ms == 1..TgTexts

TgType ==
    /\ topic \in Nat /\ created \in Nat /\ topics \subseteq 1..created
    /\ topicMu \in {"none", "mirror", "ask"} /\ reconciling \in Nat /\ orphans \in Nat
    /\ loop \in [{"mirror", "ask"} -> [pc : {"idle", "want", "lock", "create", "put", "have", "send"}, has : Nat, at : Nat]]
    /\ mirror \in Seq(Ms \cup {0}) /\ recent \in Ms \cup {0}
    /\ tgAsks \subseteq [q : Qs, at : Nat] /\ asksByThread \in [1..MaxTopics -> Qs \cup {0}]
    /\ poll \in [q : Qs \cup {0}, m : Ms \cup {0}]
    /\ tgQuestion \in [Qs -> {"new", "pending", "taken", "told", "web", "telegram", "lost"}]
    /\ typed \in [Ms -> {"new", "ignored", "sent", "refused", "taken", "answered", "swallowed", "lost"}]
    /\ mirrored \in Seq(Ms)
    /\ loop["mirror"].has \in Ms \cup {0}

\* A topic that is about to be bound belongs to the holder of createMu, and the session
\* has none until then; the reconcile loop has closed the one it is about to forget.
Unbound(l) == loop[l].pc \in {"create", "put"}
InHand == {loop[l].at : l \in {k \in Telegram!Loops : loop[k].pc = "put"}}
TopicsAreBound ==
    /\ \A l \in Telegram!Loops : Unbound(l) => topicMu = l /\ topic = 0
    /\ reconciling # 0 => topic = reconciling /\ reconciling \notin topics
    /\ Telegram!OneTopic

\* A question in hand has not been told; one told, or about to be, can be answered.
CanAnswer(q, hand, entries) == hand.q = q \/ \E e \in entries : e.q = q
PromptsStand ==
    /\ loop["ask"].pc # "idle" => /\ loop["ask"].has \in Qs
                                  /\ tgQuestion[loop["ask"].has] \in {"taken", "web", "telegram"}
    /\ loop["ask"].pc = "send" /\ tgQuestion[loop["ask"].has] = "taken" => CanAnswer(loop["ask"].has, poll, tgAsks)
    /\ \A q \in Qs : tgQuestion[q] = "told" => CanAnswer(q, poll, tgAsks)

\* Messages are typed in their order; an event of one on its way to the topic is the last
\* that was recorded, or a later one has taken the record.
Later(m, fates) == \E n \in Ms : n > m /\ fates[n] \in {"sent", "refused"}
EchoesAreLate ==
    /\ \A m, n \in Ms : n < m /\ typed[m] # "new" => typed[n] # "new"
    /\ poll.m # 0 => typed[poll.m] = "taken"
    /\ \A i \in 1..Len(mirror) : mirror[i] # 0 => typed[mirror[i]] # "new" /\ (recent = mirror[i] \/ Later(mirror[i], typed))
    /\ \A i, j \in 1..Len(mirror) : mirror[i] = mirror[j] /\ mirror[i] # 0 => i = j
    /\ loop["mirror"].pc # "idle" /\ loop["mirror"].has # 0 => Later(loop["mirror"].has, typed)
    /\ \A i \in 1..Len(mirrored) : Later(mirrored[i], typed)

TgInv == TgType /\ TopicsAreBound /\ PromptsStand /\ EchoesAreLate

LoopType == [pc : {"idle", "want", "lock", "create", "put", "have", "send"}, has : Nat, at : Nat]

\* The topics that nothing accounts for, with the cardinality of the library's theorems.
Stray == topics \ ({topic} \cup InHand)
\* The topics without a session, counted with the library's cardinality.
LEMMA StrayTopics == Telegram!OneTopic <=> Cardinality(Stray) <= orphans
<1>1. Telegram!Cardinality(Stray) = Cardinality(Stray)
  BY DEF Telegram!Cardinality, Cardinality
<1> QED
  BY <1>1 DEF Telegram!OneTopic, Stray, InHand

\* A part of a finite set has no more elements.
LEMMA FewerStray ==
  ASSUME NEW n \in Nat, NEW m \in Nat, NEW S \in SUBSET (1..n), NEW T \in SUBSET S, Cardinality(S) <= m
  PROVE  Cardinality(T) <= m
<1>1. IsFiniteSet(1..n)
  BY FS_Interval
<1>2. IsFiniteSet(S)
  BY <1>1, FS_Subset
<1>3. IsFiniteSet(T) /\ Cardinality(T) <= Cardinality(S)
  BY <1>2, FS_Subset
<1>4. Cardinality(T) \in Nat /\ Cardinality(S) \in Nat
  BY <1>2, <1>3, FS_CardinalityType
<1> QED
  BY <1>3, <1>4

\* There is no topic, and nothing has been asked or typed.
LEMMA TgStarts == Telegram!Init => TgInv
<1> SUFFICES ASSUME Telegram!Init PROVE TgInv
  OBVIOUS
<1> USE DEF Telegram!Init, Telegram!Rest, Telegram!NoUpdate, Telegram!Loops
<1>1. /\ loop["mirror"].pc = "idle" /\ loop["ask"].pc = "idle" /\ loop["mirror"].has = 0 /\ tgAsks = {}
      /\ \A q \in Qs : tgQuestion[q] = "new"
      /\ \A m \in Ms : typed[m] = "new"
  BY DEF Qs, Ms
<1>2. TgType
  <2>1. <<>> \in Seq(Ms) /\ <<>> \in Seq(Ms \cup {0}) /\ topics \subseteq 1..created /\ 0 \in Nat
    OBVIOUS
  <2> QED
    BY <1>1, <2>1 DEF TgType, Qs, Ms
<1>3. TopicsAreBound
  <2>1. Cardinality(Stray) = 0
    BY FS_EmptySet DEF Stray
  <2> QED
    BY <1>1, <2>1, StrayTopics DEF TopicsAreBound, Unbound
<1>4. PromptsStand
  BY <1>1 DEF PromptsStand
<1>5. EchoesAreLate
  <2>1. poll.m = 0 /\ Len(mirror) = 0 /\ Len(mirrored) = 0
    OBVIOUS
  <2>2. 1..0 = {}
    OBVIOUS
  <2> QED
    BY <1>1, <2>1, <2>2 DEF EchoesAreLate
<1> QED
  BY <1>2, <1>3, <1>4, <1>5 DEF TgInv

\* The properties of the bridge follow from the invariant.
LEMMA TgHolds == TgInv => Telegram!OneTopic /\ Telegram!PromptsAnswer
<1> SUFFICES ASSUME TgInv PROVE Telegram!OneTopic /\ Telegram!PromptsAnswer
  OBVIOUS
<1>1. DOMAIN mirrored = 1..Len(mirrored)
  BY DEF TgInv, TgType
<1>2. Telegram!PromptsAnswer
  BY <1>1 DEF TgInv, PromptsStand, EchoesAreLate, CanAnswer, Later, Telegram!PromptsAnswer, Qs, Ms
<1> QED
  BY <1>2 DEF TgInv, TopicsAreBound

\* A step of a loop outside the creation of a topic leaves the topics as they were.
LEMMA TopicsFrame ==
  ASSUME TgInv, UNCHANGED <<topic, topics, topicMu, reconciling, orphans>>, NEW l \in Telegram!Loops, NEW rec \in LoopType,
         loop' = [loop EXCEPT ![l] = rec], loop[l] = rec \/ (loop[l].pc \notin {"create", "put"} /\ rec.pc \notin {"create", "put"})
  PROVE  TopicsAreBound'
<1>1. \A k \in Telegram!Loops : /\ loop'[k].pc = "put" <=> loop[k].pc = "put"
                                /\ loop'[k].pc = "create" <=> loop[k].pc = "create"
                                /\ loop[k].pc = "put" => loop'[k].at = loop[k].at
  BY DEF TgInv, TgType, Telegram!Loops
<1>2. InHand' = InHand
  BY <1>1 DEF InHand
<1>3. Stray' = Stray
  BY <1>2 DEF Stray
<1>4. Telegram!OneTopic'
  <2>1. Telegram!OneTopic' <=> (Cardinality(Stray) <= orphans)'
    BY StrayTopics, PTL
  <2> QED
    BY <1>3, <2>1, StrayTopics DEF TgInv, TopicsAreBound
<1> QED
  BY <1>1, <1>4 DEF TgInv, TopicsAreBound, Unbound

\* What is typed and mirrored does not change what is late already.
LEMMA LaterStays ==
  ASSUME TgInv, \A n \in Ms : typed[n] \in {"sent", "refused"} => typed'[n] \in {"sent", "refused"}
  PROVE  \A m : Later(m, typed) => Later(m, typed')
BY DEF Later

\* topicFor: the holder of createMu makes the topic and binds it.
LEMMA TgTopicFor == ASSUME TgInv, NEW l \in Telegram!Loops, Telegram!TopicFor(l) PROVE TgInv'
<1> USE DEF TgInv
<1>1. UNCHANGED <<exists, reconciling, restarts, orphans, tgAsks, asksByThread, tgQuestion, poll, mirror, recent, typed, mirrored>>
  BY DEF Telegram!TopicFor, Telegram!Lookup, Telegram!Lock, Telegram!CreateForumTopic, Telegram!CreateFails, Telegram!Put,
         Telegram!topicVars, Telegram!askVars
<1>2. PICK rec \in LoopType :
        /\ loop' = [loop EXCEPT ![l] = rec]
        /\ rec.has = loop[l].has \/ rec = Telegram!Rest
        /\ loop[l].pc # "idle" /\ rec.pc # "send"
        /\ \/ rec.pc = "have" /\ loop[l].pc \in {"want", "lock"} /\ UNCHANGED <<topic, topics, created, topicMu>>
           \/ rec.pc = "lock" /\ loop[l].pc = "want" /\ UNCHANGED <<topic, topics, created, topicMu>>
           \/ /\ rec.pc = "create" /\ loop[l].pc = "lock" /\ topic = 0 /\ topicMu = "none" /\ topicMu' = l
              /\ UNCHANGED <<topic, topics, created>>
           \/ /\ rec.pc = "put" /\ loop[l].pc = "create" /\ rec.at = created + 1
              /\ created' = created + 1 /\ topics' = topics \cup {created + 1} /\ UNCHANGED <<topic, topicMu>>
           \/ rec = Telegram!Rest /\ loop[l].pc = "create" /\ topicMu' = "none" /\ UNCHANGED <<topic, topics, created>>
           \/ /\ rec.pc = "have" /\ loop[l].pc = "put" /\ topic' = loop[l].at /\ topicMu' = "none"
              /\ UNCHANGED <<topics, created>>
  <2>0. loop[l] \in LoopType /\ topic \in Nat /\ created + 1 \in Nat
    BY DEF TgType, LoopType, Telegram!Loops
  <2>1. CASE Telegram!Lookup(l) \/ Telegram!Lock(l)
    <3>1. CASE topic # 0
      <4>1. loop' = [loop EXCEPT ![l] = [loop[l] EXCEPT !.pc = "have", !.at = topic]] /\ loop[l].pc \in {"want", "lock"}
            /\ UNCHANGED <<topic, topics, created, topicMu>>
        BY <2>1, <3>1 DEF Telegram!Lookup, Telegram!Lock, Telegram!Go, Telegram!topicVars
      <4>2. PICK r \in LoopType : r = [loop[l] EXCEPT !.pc = "have", !.at = topic]
        BY <2>0 DEF LoopType
      <4>3. r.pc = "have" /\ r.has = loop[l].has
        BY <2>0, <4>2 DEF LoopType
      <4> QED
        BY <4>1, <4>2, <4>3
    <3>2. CASE topic = 0 /\ Telegram!Lookup(l)
      <4>1. loop' = [loop EXCEPT ![l] = [loop[l] EXCEPT !.pc = "lock", !.at = topic]] /\ loop[l].pc = "want"
            /\ UNCHANGED <<topic, topics, created, topicMu>>
        BY <3>2 DEF Telegram!Lookup, Telegram!Go, Telegram!topicVars
      <4>2. PICK r \in LoopType : r = [loop[l] EXCEPT !.pc = "lock", !.at = topic]
        BY <2>0 DEF LoopType
      <4>3. r.pc = "lock" /\ r.has = loop[l].has
        BY <2>0, <4>2 DEF LoopType
      <4> QED
        BY <4>1, <4>2, <4>3
    <3>3. CASE topic = 0 /\ Telegram!Lock(l)
      <4>1. loop' = [loop EXCEPT ![l] = [loop[l] EXCEPT !.pc = "create"]] /\ loop[l].pc = "lock"
            /\ topicMu = "none" /\ topicMu' = l /\ UNCHANGED <<topic, topics, created>>
        BY <3>3 DEF Telegram!Lock, Telegram!Go
      <4>2. PICK r \in LoopType : r = [loop[l] EXCEPT !.pc = "create"]
        BY <2>0 DEF LoopType
      <4>3. r.pc = "create" /\ r.has = loop[l].has
        BY <2>0, <4>2 DEF LoopType
      <4> QED
        BY <3>3, <4>1, <4>2, <4>3
    <3> QED
      BY <2>1, <3>1, <3>2, <3>3
  <2>2. CASE Telegram!CreateForumTopic(l)
    <3>1. loop' = [loop EXCEPT ![l] = [loop[l] EXCEPT !.pc = "put", !.at = created + 1]] /\ loop[l].pc = "create"
          /\ created' = created + 1 /\ topics' = topics \cup {created + 1} /\ UNCHANGED <<topic, topicMu>>
      BY <2>2 DEF Telegram!CreateForumTopic, Telegram!Go
    <3>2. PICK r \in LoopType : r = [loop[l] EXCEPT !.pc = "put", !.at = created + 1]
      BY <2>0 DEF LoopType
    <3>3. r.pc = "put" /\ r.has = loop[l].has /\ r.at = created + 1
      BY <2>0, <3>2 DEF LoopType
    <3> QED
      BY <3>1, <3>2, <3>3
  <2>3. CASE Telegram!CreateFails(l)
    <3>1. loop' = [loop EXCEPT ![l] = Telegram!Rest] /\ loop[l].pc = "create" /\ topicMu' = "none"
          /\ UNCHANGED <<topic, topics, created>>
      BY <2>3 DEF Telegram!CreateFails, Telegram!Go
    <3>2. Telegram!Rest \in LoopType /\ Telegram!Rest.pc = "idle"
      BY DEF LoopType, Telegram!Rest
    <3> QED
      BY <3>1, <3>2
  <2>4. CASE Telegram!Put(l)
    <3>1. loop' = [loop EXCEPT ![l] = [loop[l] EXCEPT !.pc = "have"]] /\ loop[l].pc = "put"
          /\ topic' = loop[l].at /\ topicMu' = "none" /\ UNCHANGED <<topics, created>>
      BY <2>4 DEF Telegram!Put, Telegram!Go, Telegram!SetThread
    <3>2. PICK r \in LoopType : r = [loop[l] EXCEPT !.pc = "have"]
      BY <2>0 DEF LoopType
    <3>3. r.pc = "have" /\ r.has = loop[l].has
      BY <2>0, <3>2 DEF LoopType
    <3> QED
      BY <3>1, <3>2, <3>3
  <2> QED
    BY <2>1, <2>2, <2>3, <2>4 DEF Telegram!TopicFor
<1>3. \A k \in Telegram!Loops : /\ k # l => loop'[k] = loop[k]
                                /\ k = l => loop'[k] = rec
  BY <1>2 DEF TgType, Telegram!Loops
<1>4. TgType'
  <2>1. loop[l].at \in Nat /\ (l = "mirror" => rec.has \in Ms \cup {0})
    BY <1>2 DEF TgType, Telegram!Loops, Telegram!Rest
  <2>2. loop' \in [Telegram!Loops -> LoopType] /\ loop'["mirror"].has \in Ms \cup {0}
    BY <1>2, <1>3, <2>1 DEF TgType, LoopType, Telegram!Loops
  <2>3. topic' \in Nat /\ created' \in Nat /\ topics' \subseteq 1..created' /\ topicMu' \in {"none", "mirror", "ask"}
    <3>1. created \in Nat /\ topics \subseteq 1..created /\ topic \in Nat /\ topicMu \in {"none", "mirror", "ask"}
      BY DEF TgType
    <3>2. topics \cup {created + 1} \subseteq 1..(created + 1) /\ created + 1 \in Nat
      BY <3>1
    <3>3. topics' \subseteq 1..created' /\ created' \in Nat
      BY <1>2, <3>1, <3>2
    <3>4. topic' \in Nat
      BY <1>2, <2>1, <3>1
    <3>5. topicMu' \in {"none", "mirror", "ask"}
      BY <1>2, <3>1 DEF Telegram!Loops
    <3> QED
      BY <3>3, <3>4, <3>5
  <2> QED
    BY <1>1, <2>2, <2>3 DEF TgType, LoopType, Telegram!Loops
<1>5. PromptsStand'
  <2>1. CASE l = "ask"
    BY <1>1, <1>2, <1>3, <2>1 DEF PromptsStand, CanAnswer, Telegram!Rest, Telegram!Loops
  <2>2. CASE l # "ask"
    BY <1>1, <1>3, <2>2 DEF PromptsStand, CanAnswer, Telegram!Loops
  <2> QED
    BY <2>1, <2>2
<1>6. EchoesAreLate'
  <2>1. loop'["mirror"].pc # "idle" /\ loop'["mirror"].has # 0 =>
          loop["mirror"].pc # "idle" /\ loop["mirror"].has = loop'["mirror"].has
    BY <1>2, <1>3 DEF Telegram!Rest, Telegram!Loops
  <2> QED
    BY <1>1, <2>1 DEF EchoesAreLate, Later
<1>7. TopicsAreBound'
  <2>1. /\ created \in Nat /\ topics \subseteq 1..created /\ orphans \in Nat /\ Cardinality(Stray) <= orphans
        /\ Stray \subseteq topics
    BY StrayTopics DEF TgType, TopicsAreBound, Stray
  <2>2. (Stray' \subseteq Stray) => Telegram!OneTopic'
    <3>1. ASSUME Stray' \subseteq Stray PROVE Cardinality(Stray') <= orphans
      BY <2>1, <3>1, FewerStray
    <3>2. Telegram!OneTopic' <=> (Cardinality(Stray) <= orphans)'
      BY StrayTopics, PTL
    <3> QED
      BY <1>1, <3>1, <3>2
  <2>3. CASE UNCHANGED <<topic, topics, topicMu>> /\ rec.pc \notin {"create", "put"} /\ loop[l].pc \notin {"create", "put"}
    BY <1>1, <1>2, <2>3, TopicsFrame
  <2>4. CASE rec.pc = "create"
    <3>1. topic = 0 /\ reconciling = 0 /\ UNCHANGED <<topic, topics>> /\ topicMu' = l
          /\ \A k \in Telegram!Loops : loop[k].pc \notin {"create", "put"}
      BY <1>2, <2>4 DEF TopicsAreBound, Unbound, Telegram!Rest, Telegram!Loops
    <3>2. InHand' = InHand
      BY <1>3, <2>4, <3>1 DEF InHand
    <3> QED
      BY <1>1, <1>3, <2>2, <2>4, <3>1, <3>2 DEF TopicsAreBound, Unbound, Stray
  <2>5. CASE loop[l].pc \in {"create", "put"}
    <3>1. topicMu = l /\ topic = 0 /\ reconciling = 0 /\ \A k \in Telegram!Loops : k # l => loop[k].pc \notin {"create", "put"}
      BY <2>5 DEF TopicsAreBound, Unbound
    <3>2. InHand = IF loop[l].pc = "put" THEN {loop[l].at} ELSE {}
      BY <3>1 DEF InHand
    <3>3. InHand' = IF rec.pc = "put" THEN {rec.at} ELSE {}
      BY <1>3, <3>1 DEF InHand
    <3>4. Stray' \subseteq Stray
      <4>1. CASE rec.pc = "put"
        <5>1. topic' = 0 /\ rec.at = created + 1 /\ topics' = topics \cup {created + 1} /\ InHand = {}
          BY <1>2, <2>5, <3>1, <3>2, <4>1 DEF Telegram!Rest
        <5> QED
          BY <3>1, <3>3, <4>1, <5>1 DEF Stray
      <4>2. CASE loop[l].pc = "put"
        <5>1. topic' = loop[l].at /\ topics' = topics /\ rec.pc # "put"
          BY <1>2, <4>2 DEF Telegram!Rest
        <5>2. 0 \notin topics
          BY <2>1
        <5>3. InHand = {loop[l].at} /\ InHand' = {}
          BY <3>2, <3>3, <4>2, <5>1
        <5> QED
          BY <3>1, <5>1, <5>2, <5>3 DEF Stray
      <4>3. CASE rec.pc # "put" /\ loop[l].pc = "create"
        <5>1. topic' = topic /\ topics' = topics
          BY <1>2, <4>3
        <5> QED
          BY <3>1, <3>2, <3>3, <4>3, <5>1 DEF Stray
      <4> QED
        BY <2>5, <4>1, <4>2, <4>3
    <3>5. \A k \in Telegram!Loops : Unbound(k)' => topicMu' = k /\ topic' = 0
      BY <1>2, <1>3, <2>5, <3>1 DEF Unbound, Telegram!Rest
    <3> QED
      BY <1>1, <2>2, <3>1, <3>4, <3>5 DEF TopicsAreBound
  <2> QED
    BY <1>2, <2>3, <2>4, <2>5 DEF Telegram!Rest
<1> QED
  BY <1>4, <1>5, <1>6, <1>7

\* The reconcile loop, a deleted session, and a restart.
LEMMA TgReconciles ==
  ASSUME TgInv, Telegram!DeleteSession \/ Telegram!CloseTopic \/ Telegram!DropMapping
  PROVE  TgInv'
<1> USE DEF TgInv
<1>1. UNCHANGED <<created, topicMu, restarts, orphans, tgAsks, asksByThread, tgQuestion, poll, loop, mirror, recent, typed, mirrored>>
  BY DEF Telegram!DeleteSession, Telegram!CloseTopic, Telegram!DropMapping, Telegram!askVars
<1>2. \/ UNCHANGED <<topic, topics, reconciling>>
      \/ reconciling = 0 /\ topic # 0 /\ reconciling' = topic /\ topics' = topics \ {topic} /\ topic' = topic
      \/ reconciling # 0 /\ topic' = 0 /\ reconciling' = 0 /\ topics' = topics
  BY DEF Telegram!DeleteSession, Telegram!CloseTopic, Telegram!DropMapping, Telegram!SetThread
<1>3. TgType'
  <2>1. topics' \subseteq 1..created /\ topic' \in Nat /\ reconciling' \in Nat
    <3>1. topics \subseteq 1..created /\ topic \in Nat /\ reconciling \in Nat /\ 0 \in Nat
      BY DEF TgType
    <3>2. topics' \subseteq topics /\ topic' \in {topic, 0} /\ reconciling' \in {reconciling, topic, 0}
      BY <1>2
    <3> QED
      BY <3>1, <3>2
  <2>2. exists' = exists \/ exists' = FALSE
    BY DEF Telegram!DeleteSession, Telegram!CloseTopic, Telegram!DropMapping
  <2> QED
    BY <1>1, <2>1, <2>2 DEF TgType
<1>4. PromptsStand' /\ EchoesAreLate'
  BY <1>1 DEF PromptsStand, CanAnswer, EchoesAreLate, Later
<1>5. TopicsAreBound'
  <2>1. /\ created \in Nat /\ topics \subseteq 1..created /\ orphans \in Nat /\ Cardinality(Stray) <= orphans
        /\ Stray \subseteq topics
    BY StrayTopics DEF TgType, TopicsAreBound, Stray
  <2>2. InHand' = InHand
    BY <1>1 DEF InHand
  <2>3. Stray' \subseteq Stray
    BY <1>2, <2>2 DEF Stray, TopicsAreBound
  <2>4. Cardinality(Stray') <= orphans
    BY <2>1, <2>3, FewerStray
  <2>5. Telegram!OneTopic' <=> (Cardinality(Stray) <= orphans)'
    BY StrayTopics, PTL
  <2>6. Telegram!OneTopic'
    BY <1>1, <2>4, <2>5
  <2>7. \A k \in Telegram!Loops : Unbound(k)' => topicMu' = k /\ topic' = 0
    BY <1>1, <1>2 DEF Unbound, TopicsAreBound
  <2> QED
    BY <1>2, <2>6, <2>7 DEF TopicsAreBound
<1> QED
  BY <1>3, <1>4, <1>5

\* A restart keeps the mapping on disk: a topic made and not yet put there is left an orphan.
LEMMA TgRestart == ASSUME TgInv, Telegram!Restart PROVE TgInv'
<1> USE DEF TgInv, Telegram!Restart, Telegram!Rest, Telegram!NoUpdate
<1>1. /\ \A k \in Telegram!Loops : loop'[k].pc = "idle" /\ loop'[k].has = 0
      /\ "mirror" \in Telegram!Loops /\ "ask" \in Telegram!Loops
  BY DEF Telegram!Loops
<1>2. /\ \A q \in Qs : tgQuestion'[q] = IF Telegram!Waiting(q) THEN "lost" ELSE tgQuestion[q]
      /\ \A m \in Ms : typed'[m] = IF typed[m] = "taken" THEN "lost" ELSE typed[m]
  BY DEF Qs, Ms
<1>3. PICK P \in SUBSET Telegram!Loops : P = {k \in Telegram!Loops : loop[k].pc = "put"}
  OBVIOUS
<1>4. /\ orphans' = orphans + Cardinality(P) /\ IsFiniteSet(P) /\ Cardinality(P) \in Nat
      /\ InHand = {loop[k].at : k \in P}
      /\ P = {} \/ \E k \in Telegram!Loops : P = {k}
  <2>1. Telegram!Cardinality(P) = Cardinality(P)
    BY DEF Telegram!Cardinality, Cardinality
  <2>2. \A j, k \in P : j = k
    BY <1>3 DEF TopicsAreBound, Unbound
  <2>3. P = {} \/ \E k \in Telegram!Loops : P = {k}
    BY <2>2
  <2>4. IsFiniteSet(P) /\ Cardinality(P) \in Nat
    <3>1. CASE P = {}
      <4>1. IsFiniteSet({}) /\ Cardinality({}) = 0
        BY FS_EmptySet
      <4> QED
        BY <3>1, <4>1
    <3>2. CASE \E k \in Telegram!Loops : P = {k}
      <4>1. PICK k \in Telegram!Loops : P = {k}
        BY <3>2
      <4>2. IsFiniteSet({k}) /\ Cardinality({k}) = 1
        BY FS_Singleton
      <4> QED
        BY <4>1, <4>2
    <3> QED
      BY <2>3, <3>1, <3>2
  <2> QED
    BY <1>3, <2>1, <2>3, <2>4 DEF InHand
<1>5. TgType'
  <2>1. <<>> \in Seq(Ms \cup {0}) /\ orphans' \in Nat
    BY <1>4 DEF TgType
  <2>2. loop' \in [Telegram!Loops -> LoopType]
    BY DEF LoopType
  <2>3. tgQuestion' \in [Qs -> {"new", "pending", "taken", "told", "web", "telegram", "lost"}]
    BY <1>2 DEF TgType, Qs
  <2>4. typed' \in [Ms -> {"new", "ignored", "sent", "refused", "taken", "answered", "swallowed", "lost"}]
    BY <1>2 DEF TgType, Ms
  <2>5. asksByThread' \in [1..MaxTopics -> Qs \cup {0}] /\ poll' \in [q : Qs \cup {0}, m : Ms \cup {0}]
    OBVIOUS
  <2> QED
    BY <1>1, <2>1, <2>2, <2>3, <2>4, <2>5 DEF TgType, LoopType, Telegram!Loops
<1>6. PromptsStand'
  <2>1. \A q \in Qs : tgQuestion'[q] # "told"
    BY <1>2 DEF Telegram!Waiting
  <2> QED
    BY <1>1, <2>1 DEF PromptsStand
<1>7. EchoesAreLate'
  <2>1. \A m : Later(m, typed) => Later(m, typed')
    BY <1>2, LaterStays
  <2>2. mirror' = <<>> /\ Len(mirror') = 0 /\ poll'.m = 0 /\ mirrored' = mirrored /\ 1..0 = {}
    OBVIOUS
  <2>3. \A m, n \in Ms : n < m /\ typed'[m] # "new" => typed'[n] # "new"
    BY <1>2 DEF EchoesAreLate
  <2> QED
    BY <1>1, <2>1, <2>2, <2>3 DEF EchoesAreLate
<1>8. TopicsAreBound'
  <2>1. /\ created \in Nat /\ topics \subseteq 1..created /\ orphans \in Nat /\ Cardinality(Stray) <= orphans
        /\ Stray \subseteq topics
    BY StrayTopics DEF TgType, TopicsAreBound, Stray
  <2>2. InHand' = {}
    BY <1>1 DEF InHand
  <2>3. Stray' = topics \ {topic}
    BY <2>2 DEF Stray
  <2>4. IsFiniteSet(Stray) /\ Cardinality(Stray) \in Nat
    <3>1. IsFiniteSet(1..created)
      BY <2>1, FS_Interval
    <3> QED
      BY <2>1, <3>1, FS_Subset, FS_CardinalityType
  <2>5. PICK S : /\ Stray' \subseteq S /\ IsFiniteSet(S) /\ Cardinality(S) <= Cardinality(Stray) + Cardinality(P)
                 /\ Cardinality(S) \in Nat
    <3>1. CASE P = {}
      <4>1. Stray' \subseteq Stray /\ Cardinality(P) = 0
        BY <1>4, <2>3, <3>1, FS_EmptySet DEF Stray
      <4> QED
        BY <2>4, <4>1
    <3>2. CASE \E k \in Telegram!Loops : P = {k}
      <4>1. PICK k \in Telegram!Loops : P = {k}
        BY <3>2
      <4>2. Stray' \subseteq Stray \cup {loop[k].at} /\ Cardinality(P) = 1
        BY <1>4, <2>3, <4>1, FS_Singleton DEF Stray
      <4>3. /\ IsFiniteSet(Stray \cup {loop[k].at}) /\ Cardinality(Stray \cup {loop[k].at}) \in Nat
            /\ Cardinality(Stray \cup {loop[k].at}) <= Cardinality(Stray) + 1
        <5>1. PICK at : at = loop[k].at
          OBVIOUS
        <5>2. /\ IsFiniteSet(Stray \cup {at})
              /\ Cardinality(Stray \cup {at}) = Cardinality(Stray) \/ Cardinality(Stray \cup {at}) = Cardinality(Stray) + 1
          BY <2>4, FS_AddElement
        <5> QED
          BY <2>4, <5>1, <5>2
      <4> QED
        BY <4>2, <4>3
    <3> QED
      BY <1>4, <3>1, <3>2
  <2>6. Cardinality(Stray') <= Cardinality(S) /\ Cardinality(Stray') \in Nat
    BY <2>5, FS_Subset, FS_CardinalityType
  <2>7. Cardinality(Stray') <= orphans'
    BY <1>4, <2>1, <2>4, <2>5, <2>6
  <2>8. Telegram!OneTopic' <=> (Cardinality(Stray) <= orphans)'
    BY StrayTopics, PTL
  <2> QED
    BY <1>1, <2>7, <2>8 DEF TopicsAreBound, Unbound
<1> QED
  BY <1>5, <1>6, <1>7, <1>8

\* The two loops, as records.
LEMMA LoopIs == TgInv => /\ \A l \in Telegram!Loops : loop[l] \in LoopType
                         /\ loop = [loop EXCEPT !["mirror"] = loop["mirror"]]
                         /\ "mirror" \in Telegram!Loops /\ "ask" \in Telegram!Loops
BY DEF TgInv, TgType, LoopType, Telegram!Loops

\* The worker of the session's events.
LEMMA TgMirrors == ASSUME TgInv, Telegram!Part \/ Telegram!TakeEvent \/ Telegram!Mirror PROVE TgInv'
<1> USE DEF TgInv
<1>1. UNCHANGED <<exists, topic, topics, created, topicMu, reconciling, restarts, orphans, tgAsks, asksByThread, tgQuestion, poll, typed>>
  BY DEF Telegram!Part, Telegram!TakeEvent, Telegram!Mirror, Telegram!topicVars, Telegram!askVars
<1>2. /\ mirror \in Seq(Ms \cup {0}) /\ mirrored \in Seq(Ms) /\ loop["mirror"] \in LoopType
      /\ loop["mirror"].has \in Ms \cup {0} /\ Ms \subseteq Nat /\ 0 \notin Ms
  BY LoopIs, FrontendsAssumption DEF TgType, Ms
<1>3. \A m : Later(m, typed') <=> Later(m, typed)
  BY <1>1 DEF Later
<1>4. ASSUME NEW rec \in LoopType, loop' = [loop EXCEPT !["mirror"] = rec],
             rec = loop["mirror"] \/ (loop["mirror"].pc \notin {"create", "put"} /\ rec.pc \notin {"create", "put"}),
             rec.has \in Ms \cup {0}, rec.pc # "idle" /\ rec.has # 0 => Later(rec.has, typed),
             mirror' \in Seq(Ms \cup {0}), recent' \in {recent, 0}, mirrored' \in Seq(Ms),
             \A i \in 1..Len(mirror') : mirror'[i] # 0 => typed[mirror'[i]] # "new" /\ (recent' = mirror'[i] \/ Later(mirror'[i], typed)),
             \A i, j \in 1..Len(mirror') : mirror'[i] = mirror'[j] /\ mirror'[i] # 0 => i = j,
             \A i \in 1..Len(mirrored') : Later(mirrored'[i], typed)
      PROVE  TgInv'
  <2>1. loop'["mirror"] = rec /\ loop'["ask"] = loop["ask"]
    BY <1>4 DEF TgType
  <2>2. TgType'
    <3>1. loop' \in [{"mirror", "ask"} -> LoopType]
      BY <1>4 DEF TgType, LoopType
    <3>2. recent' \in Ms \cup {0}
      BY <1>4 DEF TgType
    <3> QED
      BY <1>1, <1>4, <2>1, <3>1, <3>2 DEF TgType, LoopType
  <2>3. TopicsAreBound'
    <3>1. "mirror" \in Telegram!Loops
      BY DEF Telegram!Loops
    <3> QED
      BY <1>1, <1>4, <3>1, TopicsFrame
  <2>4. PromptsStand'
    BY <1>1, <2>1 DEF PromptsStand, CanAnswer
  <2>5. EchoesAreLate'
    <3>1. loop'["mirror"].pc # "idle" /\ loop'["mirror"].has # 0 => Later(loop'["mirror"].has, typed)
      BY <1>4, <2>1
    <3>2. \A m, n \in Ms : n < m /\ typed[m] # "new" => typed[n] # "new"
      BY DEF EchoesAreLate
    <3>3. poll.m # 0 => typed[poll.m] = "taken"
      BY DEF EchoesAreLate
    <3>4. EchoesAreLate' <=>
            /\ \A m, n \in Ms : n < m /\ typed'[m] # "new" => typed'[n] # "new"
            /\ poll'.m # 0 => typed'[poll'.m] = "taken"
            /\ \A i \in 1..Len(mirror') : mirror'[i] # 0 => typed'[mirror'[i]] # "new" /\ (recent' = mirror'[i] \/ Later(mirror'[i], typed))
            /\ \A i, j \in 1..Len(mirror') : mirror'[i] = mirror'[j] /\ mirror'[i] # 0 => i = j
            /\ loop'["mirror"].pc # "idle" /\ loop'["mirror"].has # 0 => Later(loop'["mirror"].has, typed)
            /\ \A i \in 1..Len(mirrored') : Later(mirrored'[i], typed)
      BY <1>1 DEF EchoesAreLate, Later
    <3> QED
      BY <1>1, <1>4, <3>1, <3>2, <3>3, <3>4
  <2> QED
    BY <2>2, <2>3, <2>4, <2>5
<1>5. CASE Telegram!Part
  <2>1. mirror = <<>> /\ mirror' = <<0>> /\ Len(mirror') = 1 /\ mirror'[1] = 0 /\ UNCHANGED <<loop, recent, mirrored>>
    BY <1>5 DEF Telegram!Part
  <2>2. mirror' \in Seq(Ms \cup {0}) /\ \A i \in 1..Len(mirror') : mirror'[i] = 0
    BY <2>1
  <2>3. \A i \in 1..Len(mirrored) : Later(mirrored[i], typed)
    BY DEF EchoesAreLate
  <2>4. loop["mirror"].pc # "idle" /\ loop["mirror"].has # 0 => Later(loop["mirror"].has, typed)
    BY DEF EchoesAreLate
  <2> QED
    BY <1>2, <1>4, <2>1, <2>2, <2>3, <2>4, LoopIs
<1>6. CASE Telegram!TakeEvent
  <2>1. PICK ev \in Ms \cup {0} : ev = Head(mirror) /\ 1 \in 1..Len(mirror) /\ mirror[1] = ev
    BY <1>2, <1>6, RestOf DEF Telegram!TakeEvent
  <2>2. /\ mirror' \in Seq(Ms \cup {0}) /\ Len(mirror') = Len(mirror) - 1 /\ Len(mirror) \in Nat
        /\ \A i \in 1..Len(mirror') : mirror'[i] = mirror[i + 1] /\ i + 1 \in 1..Len(mirror) /\ i + 1 # 1
    <3>1. mirror # <<>> /\ mirror' = Tail(mirror)
      BY <1>6 DEF Telegram!TakeEvent
    <3> QED
      BY <1>2, <3>1, RestOf
  <2>3. \A i \in 1..Len(mirror') : mirror'[i] # 0 => mirror'[i] # ev
    BY <2>1, <2>2 DEF EchoesAreLate
  <2>4. \A i, j \in 1..Len(mirror') : mirror'[i] = mirror'[j] /\ mirror'[i] # 0 => i = j
    <3> SUFFICES ASSUME NEW i \in 1..Len(mirror'), NEW j \in 1..Len(mirror'), mirror'[i] = mirror'[j], mirror'[i] # 0 PROVE i = j
      OBVIOUS
    <3>1. i + 1 = j + 1
      BY <2>2 DEF EchoesAreLate
    <3> QED
      BY <2>2, <3>1
  <2>5. \A i \in 1..Len(mirror') : mirror'[i] # 0 => typed[mirror'[i]] # "new" /\ (recent = mirror'[i] \/ Later(mirror'[i], typed))
    BY <2>2 DEF EchoesAreLate
  <2>6. mirrored' = mirrored /\ loop["mirror"].pc = "idle" /\ \A i \in 1..Len(mirrored) : Later(mirrored[i], typed)
    BY <1>6 DEF Telegram!TakeEvent, EchoesAreLate
  <2>7. CASE ev # 0 /\ recent = ev
    <3>1. recent' = 0 /\ loop' = loop
      BY <1>6, <2>1, <2>7 DEF Telegram!TakeEvent, Telegram!consumeRecentSent
    <3>2. \A i \in 1..Len(mirror') : mirror'[i] # 0 => Later(mirror'[i], typed)
      BY <2>3, <2>5, <2>7
    <3> QED
      BY <1>2, <1>4, <2>2, <2>4, <2>5, <2>6, <3>1, <3>2, LoopIs
  <2>8. CASE ~(ev # 0 /\ recent = ev)
    <3>1. recent' = recent /\ loop' = [loop EXCEPT !["mirror"] = [pc |-> "want", has |-> ev, at |-> 0]]
      BY <1>6, <2>1, <2>8 DEF Telegram!TakeEvent, Telegram!consumeRecentSent, Telegram!Go
    <3>2. PICK rec \in LoopType : rec = [pc |-> "want", has |-> ev, at |-> 0]
      <4>1. ev \in Nat
        BY ONLY <2>1, FrontendsAssumption DEF Ms
      <4> QED
        BY <4>1 DEF LoopType
    <3>3. rec.has = ev /\ rec.pc = "want" /\ (ev # 0 => Later(ev, typed))
      BY <2>1, <2>8, <3>2 DEF EchoesAreLate
    <3> QED
      BY <1>2, <1>4, <2>2, <2>4, <2>5, <2>6, <3>1, <3>2, <3>3
  <2> QED
    BY <2>7, <2>8
<1>7. CASE Telegram!Mirror
  <2>1. /\ loop["mirror"].pc = "have" /\ loop' = [loop EXCEPT !["mirror"] = Telegram!Rest] /\ UNCHANGED <<mirror, recent>>
        /\ mirrored' = IF loop["mirror"].has = 0 THEN mirrored ELSE Append(mirrored, loop["mirror"].has)
    BY <1>7 DEF Telegram!Mirror, Telegram!Go
  <2>2. PICK m \in Ms \cup {0} : m = loop["mirror"].has
    BY <1>2
  <2>3. (m # 0 => Later(m, typed)) /\ \A i \in 1..Len(mirrored) : Later(mirrored[i], typed)
    BY <2>1, <2>2 DEF EchoesAreLate
  <2>4. mirrored' \in Seq(Ms) /\ \A i \in 1..Len(mirrored') : Later(mirrored'[i], typed)
    <3>1. CASE m = 0
      BY <1>2, <2>1, <2>2, <2>3, <3>1
    <3>2. CASE m # 0
      <4>1. mirrored' = Append(mirrored, m) /\ m \in Ms
        BY <2>1, <2>2, <3>2
      <4>2. /\ mirrored' \in Seq(Ms) /\ Len(mirrored') = Len(mirrored) + 1 /\ mirrored'[Len(mirrored) + 1] = m
            /\ \A i \in 1..Len(mirrored') : (i \in 1..Len(mirrored) /\ mirrored'[i] = mirrored[i]) \/ i = Len(mirrored) + 1
        BY <1>2, <4>1
      <4> QED
        BY <2>3, <3>2, <4>2
    <3> QED
      BY <3>1, <3>2
  <2>5. Telegram!Rest \in LoopType /\ Telegram!Rest.pc = "idle" /\ Telegram!Rest.has = 0
    BY DEF LoopType, Telegram!Rest
  <2>6. /\ \A i \in 1..Len(mirror) : mirror[i] # 0 => typed[mirror[i]] # "new" /\ (recent = mirror[i] \/ Later(mirror[i], typed))
        /\ \A i, j \in 1..Len(mirror) : mirror[i] = mirror[j] /\ mirror[i] # 0 => i = j
    BY DEF EchoesAreLate
  <2> QED
    BY <1>2, <1>4, <2>1, <2>4, <2>5, <2>6
<1> QED
  BY <1>5, <1>6, <1>7

\* The questions of the session, and the loop that posts them.
LEMMA TgAsks ==
  ASSUME TgInv, NEW q \in Qs, NEW ok \in BOOLEAN,
         Telegram!Ask(q) \/ Telegram!TakeQuestion(q) \/ Telegram!AnswerElsewhere(q) \/ Telegram!Register
           \/ Telegram!SendAskPrompt(ok)
  PROVE  TgInv'
<1> USE DEF TgInv
<1>1. UNCHANGED <<exists, topic, topics, created, topicMu, reconciling, restarts, orphans, mirror, recent, poll, typed, mirrored>>
  BY DEF Telegram!Ask, Telegram!TakeQuestion, Telegram!AnswerElsewhere, Telegram!Register, Telegram!SendAskPrompt, Telegram!topicVars
<1>2. /\ loop["ask"] \in LoopType /\ Qs \subseteq Nat /\ "ask" \in Telegram!Loops
      /\ loop = [loop EXCEPT !["ask"] = loop["ask"]]
  BY FrontendsAssumption DEF TgType, Qs, LoopType, Telegram!Loops
<1>3. ASSUME NEW rec \in LoopType, loop' = [loop EXCEPT !["ask"] = rec],
             rec = loop["ask"] \/ (loop["ask"].pc \notin {"create", "put"} /\ rec.pc \notin {"create", "put"}),
             tgQuestion' \in [Qs -> {"new", "pending", "taken", "told", "web", "telegram", "lost"}],
             tgAsks' \subseteq [q : Qs, at : Nat], asksByThread' \in [1..MaxTopics -> Qs \cup {0}],
             rec.pc # "idle" => rec.has \in Qs /\ tgQuestion'[rec.has] \in {"taken", "web", "telegram"},
             rec.pc = "send" /\ tgQuestion'[rec.has] = "taken" => CanAnswer(rec.has, poll', tgAsks'),
             \A p \in Qs : tgQuestion'[p] = "told" => CanAnswer(p, poll', tgAsks')
      PROVE  TgInv'
  <2>1. loop'["ask"] = rec /\ loop'["mirror"] = loop["mirror"]
    BY <1>3 DEF TgType
  <2>2. TgType'
    <3>1. loop' \in [{"mirror", "ask"} -> LoopType]
      BY <1>3 DEF TgType, LoopType
    <3> QED
      BY <1>1, <1>3, <2>1, <3>1 DEF TgType, LoopType
  <2>3. TopicsAreBound'
    BY <1>1, <1>2, <1>3, TopicsFrame
  <2>4. PromptsStand'
    BY <1>1, <1>3, <2>1 DEF PromptsStand, CanAnswer
  <2>5. EchoesAreLate'
    BY <1>1, <2>1 DEF EchoesAreLate, Later
  <2> QED
    BY <2>2, <2>3, <2>4, <2>5
<1>4. CASE Telegram!Ask(q) \/ Telegram!AnswerElsewhere(q)
  <2>1. /\ UNCHANGED <<loop, tgAsks, asksByThread>>
        /\ \/ tgQuestion[q] = "new" /\ tgQuestion' = [tgQuestion EXCEPT ![q] = "pending"]
           \/ tgQuestion[q] \in {"pending", "taken", "told"} /\ tgQuestion' = [tgQuestion EXCEPT ![q] = "web"]
    BY <1>4 DEF Telegram!Ask, Telegram!AnswerElsewhere, Telegram!Waiting
  <2>2. \A p \in Qs : /\ p # q => tgQuestion'[p] = tgQuestion[p]
                      /\ p = q => \/ tgQuestion[p] = "new" /\ tgQuestion'[p] = "pending"
                                  \/ tgQuestion[p] # "new" /\ tgQuestion'[p] = "web"
    BY <2>1 DEF TgType
  <2>3. tgQuestion' \in [Qs -> {"new", "pending", "taken", "told", "web", "telegram", "lost"}]
    BY <2>1 DEF TgType
  <2>4. tgAsks \subseteq [q : Qs, at : Nat] /\ asksByThread \in [1..MaxTopics -> Qs \cup {0}]
    BY DEF TgType
  <2>5. \A p : CanAnswer(p, poll', tgAsks') <=> CanAnswer(p, poll, tgAsks)
    BY <1>1, <2>1 DEF CanAnswer
  <2>6. loop["ask"].pc # "idle" => loop["ask"].has \in Qs /\ tgQuestion'[loop["ask"].has] \in {"taken", "web", "telegram"}
    BY <2>2 DEF PromptsStand
  <2>7. loop["ask"].pc = "send" /\ tgQuestion'[loop["ask"].has] = "taken" => CanAnswer(loop["ask"].has, poll, tgAsks)
    BY <2>2, <2>6 DEF PromptsStand
  <2>8. \A p \in Qs : tgQuestion'[p] = "told" => CanAnswer(p, poll, tgAsks)
    BY <2>2 DEF PromptsStand
  <2>9. PICK rec \in LoopType : rec = loop["ask"]
    BY <1>2
  <2>10. loop' = [loop EXCEPT !["ask"] = rec]
    BY <1>2, <2>1, <2>9
  <2> QED
    BY <1>3, <2>1, <2>3, <2>4, <2>5, <2>6, <2>7, <2>8, <2>9, <2>10
<1>5. CASE Telegram!TakeQuestion(q)
  <2>1. PICK rec \in LoopType : rec = [pc |-> "want", has |-> q, at |-> 0]
    <3>1. q \in Nat /\ 0 \in Nat
      BY <1>2
    <3> QED
      BY <3>1 DEF LoopType
  <2>2. /\ loop' = [loop EXCEPT !["ask"] = rec] /\ rec.pc = "want" /\ rec.has = q /\ loop["ask"].pc = "idle"
        /\ tgQuestion[q] = "pending" /\ tgQuestion' = [tgQuestion EXCEPT ![q] = "taken"] /\ UNCHANGED <<tgAsks, asksByThread>>
    BY <1>5, <2>1 DEF Telegram!TakeQuestion, Telegram!Go
  <2>3. tgQuestion' \in [Qs -> {"new", "pending", "taken", "told", "web", "telegram", "lost"}] /\ tgQuestion'[q] = "taken"
    BY <2>2 DEF TgType
  <2>4. tgAsks \subseteq [q : Qs, at : Nat] /\ asksByThread \in [1..MaxTopics -> Qs \cup {0}]
    BY DEF TgType
  <2>5. \A p \in Qs : tgQuestion'[p] = "told" => CanAnswer(p, poll', tgAsks')
    BY <1>1, <2>2 DEF PromptsStand, CanAnswer, TgType
  <2> QED
    BY <1>3, <2>2, <2>3, <2>4, <2>5
<1>6. CASE Telegram!Register
  <2>1. PICK has \in Qs, at \in Nat : has = loop["ask"].has /\ at = loop["ask"].at
    BY <1>2, <1>6 DEF Telegram!Register, PromptsStand, LoopType
  <2>2. PICK rec \in LoopType : rec = [loop["ask"] EXCEPT !.pc = "send"]
    BY <1>2 DEF LoopType
  <2>3. /\ loop' = [loop EXCEPT !["ask"] = rec] /\ rec.pc = "send" /\ rec.has = has /\ loop["ask"].pc = "have"
        /\ tgAsks' = tgAsks \cup {[q |-> has, at |-> at]} /\ asksByThread' = [asksByThread EXCEPT ![at] = has]
        /\ tgQuestion' = tgQuestion
    BY <1>2, <1>6, <2>1, <2>2 DEF Telegram!Register, Telegram!Go, LoopType
  <2>4. tgAsks' \subseteq [q : Qs, at : Nat]
    BY <2>1, <2>3 DEF TgType
  <2>5. asksByThread' \in [1..MaxTopics -> Qs \cup {0}]
    BY <2>3 DEF TgType
  <2>6. tgQuestion[has] \in {"taken", "web", "telegram"}
    BY <2>1, <2>3 DEF PromptsStand
  <2>7. CanAnswer(has, poll', tgAsks')
    <3>1. [q |-> has, at |-> at] \in tgAsks' /\ [q |-> has, at |-> at].q = has
      BY <2>3
    <3> QED
      BY <3>1 DEF CanAnswer
  <2>8. \A p \in Qs : tgQuestion[p] = "told" => CanAnswer(p, poll', tgAsks')
    BY <1>1, <2>3 DEF CanAnswer, PromptsStand
  <2>9. tgQuestion \in [Qs -> {"new", "pending", "taken", "told", "web", "telegram", "lost"}]
    BY DEF TgType
  <2> QED
    BY <1>3, <2>3, <2>4, <2>5, <2>6, <2>7, <2>8, <2>9
<1>7. CASE Telegram!SendAskPrompt(ok)
  <2>1. PICK has \in Qs, at \in Nat : has = loop["ask"].has /\ at = loop["ask"].at
    BY <1>2, <1>7 DEF Telegram!SendAskPrompt, PromptsStand, LoopType
  <2>2. PICK rec \in LoopType : rec = Telegram!Rest
    BY DEF LoopType, Telegram!Rest
  <2>3. /\ loop' = [loop EXCEPT !["ask"] = rec] /\ rec.pc = "idle" /\ loop["ask"].pc = "send"
        /\ tgQuestion' = [tgQuestion EXCEPT ![has] = IF ok /\ tgQuestion[has] = "taken" THEN "told" ELSE tgQuestion[has]]
        /\ IF ok THEN UNCHANGED <<tgAsks, asksByThread>>
           ELSE tgAsks' = tgAsks \ {[q |-> has, at |-> at]} /\ asksByThread' \in {asksByThread, [asksByThread EXCEPT ![at] = 0]}
    BY <1>7, <2>1, <2>2 DEF Telegram!SendAskPrompt, Telegram!takeAsk, Telegram!Go, Telegram!Rest
  <2>4. tgQuestion[has] \in {"taken", "web", "telegram"}
    BY <2>1, <2>3 DEF PromptsStand
  <2>5. tgQuestion' \in [Qs -> {"new", "pending", "taken", "told", "web", "telegram", "lost"}]
    BY <2>3 DEF TgType
  <2>6. \A p \in Qs : p # has => tgQuestion'[p] = tgQuestion[p]
    BY <2>3 DEF TgType
  <2>7. tgQuestion'[has] = IF ok /\ tgQuestion[has] = "taken" THEN "told" ELSE tgQuestion[has]
    BY <2>3 DEF TgType
  <2>8. tgAsks' \subseteq [q : Qs, at : Nat] /\ asksByThread' \in [1..MaxTopics -> Qs \cup {0}]
    BY <2>3 DEF TgType
  <2>9. \A p \in Qs : tgQuestion'[p] = "told" => CanAnswer(p, poll', tgAsks')
    <3> SUFFICES ASSUME NEW p \in Qs, tgQuestion'[p] = "told" PROVE CanAnswer(p, poll', tgAsks')
      OBVIOUS
    <3>1. CASE p # has
      <4>1. CanAnswer(p, poll, tgAsks)
        BY <2>6, <3>1 DEF PromptsStand
      <4> QED
        BY <1>1, <2>3, <3>1, <4>1 DEF CanAnswer
    <3>2. CASE p = has
      <4>1. ok /\ tgQuestion[has] = "taken"
        BY <2>4, <2>7, <3>2
      <4>2. CanAnswer(p, poll, tgAsks)
        BY <2>1, <2>3, <3>2, <4>1 DEF PromptsStand
      <4> QED
        BY <1>1, <2>3, <4>1, <4>2 DEF CanAnswer
    <3> QED
      BY <3>1, <3>2
  <2> QED
    BY <1>3, <2>3, <2>5, <2>8, <2>9
<1> QED
  BY <1>4, <1>5, <1>6, <1>7

\* What is tapped and typed in the group, and its way to the router.
LEMMA TgTaps ==
  ASSUME TgInv,
         \/ \E q \in Qs : Telegram!Tap(q)
         \/ \E m \in Ms, t \in 1..MaxTopics, delivered \in BOOLEAN : Telegram!Type(m, t, delivered)
         \/ Telegram!Respond
  PROVE  TgInv'
<1> USE DEF TgInv, Telegram!NoUpdate
<1>1. UNCHANGED <<exists, topic, topics, created, topicMu, reconciling, restarts, orphans, loop, mirrored>>
  BY DEF Telegram!Tap, Telegram!Type, Telegram!Respond, Telegram!topicVars
<1>2. /\ Qs \subseteq Nat /\ Ms \subseteq Nat /\ 0 \notin Qs /\ 0 \notin Ms
  BY FrontendsAssumption DEF Qs, Ms
<1>3. TopicsAreBound'
  <2>1. PICK rec \in LoopType : rec = loop["mirror"]
    BY LoopIs
  <2>2. loop' = [loop EXCEPT !["mirror"] = rec] /\ "mirror" \in Telegram!Loops
    BY <1>1, <2>1, LoopIs
  <2> QED
    BY <1>1, <2>1, <2>2, TopicsFrame
\* An answer takes its entry off the table and into the hand of pollLoop.
<1>4. ASSUME NEW e \in [q : Qs, at : Nat], tgAsks' = tgAsks \ {e}, poll.q = 0, poll'.q = e.q, tgQuestion' = tgQuestion
      PROVE  PromptsStand'
  <2>1. \A p \in Qs : CanAnswer(p, poll, tgAsks) => CanAnswer(p, poll', tgAsks')
    BY <1>2, <1>4 DEF CanAnswer
  <2>2. loop["ask"].pc # "idle" => /\ loop["ask"].has \in Qs
                                  /\ tgQuestion[loop["ask"].has] \in {"taken", "web", "telegram"}
    BY DEF PromptsStand
  <2>3. loop["ask"].pc = "send" /\ tgQuestion[loop["ask"].has] = "taken" => CanAnswer(loop["ask"].has, poll', tgAsks')
    BY <2>1, <2>2 DEF PromptsStand
  <2>4. \A p \in Qs : tgQuestion[p] = "told" => CanAnswer(p, poll', tgAsks')
    BY <2>1 DEF PromptsStand
  <2> QED
    BY <1>1, <1>4, <2>2, <2>3, <2>4 DEF PromptsStand
<1>5. ASSUME NEW q \in Qs, Telegram!Tap(q) PROVE TgInv'
  <2>1. PICK e \in tgAsks : /\ e.q = q /\ tgAsks' = tgAsks \ {e} /\ asksByThread' = [asksByThread EXCEPT ![e.at] = 0]
                            /\ poll.q = 0 /\ poll.m = 0 /\ poll' = [q |-> q, m |-> 0] /\ poll'.q = q /\ poll'.m = 0
                            /\ UNCHANGED <<mirror, recent, tgQuestion, typed>>
    BY <1>5 DEF Telegram!Tap, Telegram!takeAsk
  <2>2. e \in [q : Qs, at : Nat]
    BY <2>1 DEF TgType
  <2>3. PromptsStand'
    BY <1>4, <2>1, <2>2
  <2>4. TgType'
    <3>1. asksByThread' \in [1..MaxTopics -> Qs \cup {0}]
      BY <2>1 DEF TgType
    <3>2. poll' \in [q : Qs \cup {0}, m : Ms \cup {0}] /\ tgAsks' \subseteq [q : Qs, at : Nat]
      BY <2>1 DEF TgType
    <3> QED
      BY <1>1, <2>1, <3>1, <3>2 DEF TgType
  <2>5. EchoesAreLate'
    BY <1>1, <2>1 DEF EchoesAreLate, Later
  <2> QED
    BY <1>3, <2>3, <2>4, <2>5
<1>6. ASSUME NEW m \in Ms, NEW t \in 1..MaxTopics, NEW delivered \in BOOLEAN, Telegram!Type(m, t, delivered)
      PROVE  TgInv'
  <2>1. poll.q = 0 /\ poll.m = 0 /\ typed[m] = "new" /\ (\A k \in 1..(m - 1) : typed[k] # "new") /\ tgQuestion' = tgQuestion
    BY <1>6 DEF Telegram!Type
  <2>2. PICK what \in {"ignored", "sent", "refused", "taken"} : typed' = [typed EXCEPT ![m] = what]
    BY <1>6 DEF Telegram!Type
  <2>3. \A n \in Ms : /\ n # m => typed'[n] = typed[n]
                      /\ n = m => typed'[n] = what
    BY <2>2 DEF TgType
  <2>4. \A n \in Ms : typed[n] # "new" => n < m
    <3> SUFFICES ASSUME NEW n \in Ms, typed[n] # "new", ~(n < m) PROVE FALSE
      OBVIOUS
    <3>1. m < n
      BY <1>2, <2>1
    <3> QED
      BY <2>1, <3>1 DEF EchoesAreLate
  <2>5. \A n \in Ms : Later(n, typed) => Later(n, typed')
    BY <2>1, <2>3, LaterStays
  <2>6. \A k, n \in Ms : n < k /\ typed'[k] # "new" => typed'[n] # "new"
    <3> SUFFICES ASSUME NEW k \in Ms, NEW n \in Ms, n < k, typed'[k] # "new" PROVE typed'[n] # "new"
      OBVIOUS
    <3>1. CASE k = m
      <4>1. n \in 1..(m - 1)
        BY <3>1 DEF Ms
      <4> QED
        BY <1>2, <2>1, <2>3, <3>1, <4>1
    <3>2. CASE k # m
      BY <2>3, <3>2 DEF EchoesAreLate
    <3> QED
      BY <3>1, <3>2
  <2>7. /\ loop["mirror"].pc # "idle" /\ loop["mirror"].has # 0 => Later(loop["mirror"].has, typed')
        /\ \A i \in 1..Len(mirrored) : Later(mirrored[i], typed')
    <3>1. loop["mirror"].has \in Ms \cup {0} /\ \A i \in 1..Len(mirrored) : mirrored[i] \in Ms
      BY OfSeq DEF TgType
    <3> QED
      BY <2>5, <3>1 DEF EchoesAreLate
  <2>8. /\ \A i \in 1..Len(mirror) : mirror[i] \in Ms \cup {0}
        /\ \A i \in 1..Len(mirror) : mirror[i] # 0 => mirror[i] # m /\ mirror[i] < m /\ typed'[mirror[i]] # "new"
    <3>1. \A i \in 1..Len(mirror) : mirror[i] \in Ms \cup {0}
      BY OfSeq DEF TgType
    <3> QED
      BY <2>1, <2>3, <2>4, <3>1 DEF EchoesAreLate
  <2>9. typed' \in [Ms -> {"new", "ignored", "sent", "refused", "taken", "answered", "swallowed", "lost"}]
    BY <2>2 DEF TgType
  <2>10. CASE asksByThread[t] # 0
    <3>1. PICK p \in Qs : p = asksByThread[t]
      BY <2>10 DEF TgType
    <3>2. /\ tgAsks' = tgAsks \ {[q |-> p, at |-> t]} /\ asksByThread' = [asksByThread EXCEPT ![t] = 0]
          /\ poll' = [q |-> p, m |-> m] /\ poll'.q = p /\ poll'.m = m /\ what = "taken" /\ UNCHANGED <<recent, mirror>>
      <4>1. typed'[m] = "taken"
        BY <1>6, <2>10 DEF Telegram!Type, TgType
      <4> QED
        BY <1>6, <2>3, <2>10, <3>1, <4>1 DEF Telegram!Type, Telegram!takeAsk
    <3>3. [q |-> p, at |-> t] \in [q : Qs, at : Nat] /\ [q |-> p, at |-> t].q = p
      OBVIOUS
    <3>4. PromptsStand'
      BY <1>4, <2>1, <3>2, <3>3
    <3>5. TgType'
      <4>1. poll' \in [q : Qs \cup {0}, m : Ms \cup {0}] /\ tgAsks' \subseteq [q : Qs, at : Nat]
            /\ asksByThread' \in [1..MaxTopics -> Qs \cup {0}]
        BY <3>2 DEF TgType
      <4> QED
        BY <1>1, <2>1, <2>9, <3>2, <4>1 DEF TgType
    <3>6. EchoesAreLate'
      <4>1. \A i \in 1..Len(mirror) : mirror[i] # 0 => recent = mirror[i] \/ Later(mirror[i], typed')
        BY <2>5, <2>8 DEF EchoesAreLate
      <4>2. typed'[poll'.m] = "taken"
        BY <2>3, <3>2
      <4>3. \A i, j \in 1..Len(mirror) : mirror[i] = mirror[j] /\ mirror[i] # 0 => i = j
        BY DEF EchoesAreLate
      <4> QED
        BY <1>1, <2>6, <2>7, <2>8, <3>2, <4>1, <4>2, <4>3 DEF EchoesAreLate
    <3> QED
      BY <1>3, <3>4, <3>5, <3>6
  <2>11. CASE asksByThread[t] = 0
    <3>1. /\ UNCHANGED <<tgAsks, asksByThread, poll>>
          /\ \/ what \in {"sent", "refused"} /\ recent' = m
             \/ what = "ignored" /\ recent' = recent
          /\ mirror' = mirror \/ (what = "sent" /\ mirror' = Append(mirror, m))
      <4>1. typed'[m] = IF ~Telegram!IsSessions(t) THEN "ignored" ELSE IF delivered THEN "sent" ELSE "refused"
        BY <1>6, <2>11 DEF Telegram!Type, TgType
      <4> QED
        BY <1>6, <2>3, <2>11, <4>1 DEF Telegram!Type, Telegram!Queued
    <3>2. mirror \in Seq(Ms \cup {0}) /\ Len(mirror) \in Nat
      BY DEF TgType
    <3>3. /\ mirror' \in Seq(Ms \cup {0})
          /\ \A i \in 1..Len(mirror') : \/ i \in 1..Len(mirror) /\ mirror'[i] = mirror[i]
                                        \/ i = Len(mirror) + 1 /\ mirror'[i] = m /\ what = "sent"
      BY <3>1, <3>2
    <3>4. TgType'
      <4>1. recent' \in Ms \cup {0}
        BY <3>1 DEF TgType
      <4> QED
        BY <1>1, <2>1, <2>9, <3>1, <3>3, <4>1 DEF TgType
    <3>5. PromptsStand'
      BY <1>1, <2>1, <3>1 DEF PromptsStand, CanAnswer
    <3>6. ASSUME NEW i \in 1..Len(mirror'), mirror'[i] # 0
          PROVE  typed'[mirror'[i]] # "new" /\ (recent' = mirror'[i] \/ Later(mirror'[i], typed'))
      <4>1. CASE i = Len(mirror) + 1 /\ mirror'[i] = m /\ what = "sent"
        BY <2>3, <3>1, <4>1
      <4>2. CASE i \in 1..Len(mirror) /\ mirror'[i] = mirror[i] /\ recent' = recent
        <5>1. recent = mirror[i] \/ Later(mirror[i], typed)
          BY <3>6, <4>2 DEF EchoesAreLate
        <5> QED
          BY <2>5, <2>8, <3>6, <4>2, <5>1
      <4>3. CASE i \in 1..Len(mirror) /\ mirror'[i] = mirror[i] /\ what \in {"sent", "refused"}
        <5>1. mirror[i] \in Ms /\ mirror[i] < m /\ typed'[mirror[i]] # "new" /\ typed'[m] \in {"sent", "refused"}
          BY <2>3, <2>8, <3>6, <4>3
        <5>2. Later(mirror[i], typed')
          BY <1>2, <5>1 DEF Later
        <5> QED
          BY <4>3, <5>1, <5>2
      <4> QED
        BY <3>1, <3>3, <4>1, <4>2, <4>3
    <3>7. ASSUME NEW i \in 1..Len(mirror'), NEW j \in 1..Len(mirror'), mirror'[i] = mirror'[j], mirror'[i] # 0
          PROVE  i = j
      BY <2>8, <3>3, <3>7 DEF EchoesAreLate
    <3>8. EchoesAreLate'
      <4>1. \A i \in 1..Len(mirror') : mirror'[i] # 0 => typed'[mirror'[i]] # "new" /\ (recent' = mirror'[i] \/ Later(mirror'[i], typed'))
        BY <3>6
      <4>2. poll'.m = 0
        BY <2>1, <3>1
      <4>3. \A i, j \in 1..Len(mirror') : mirror'[i] = mirror'[j] /\ mirror'[i] # 0 => i = j
        BY <3>7
      <4> QED
        BY <1>1, <2>6, <2>7, <4>1, <4>2, <4>3 DEF EchoesAreLate
    <3> QED
      BY <1>3, <3>4, <3>5, <3>8
  <2> QED
    BY <2>10, <2>11
<1>7. CASE Telegram!Respond
  <2>1. /\ UNCHANGED <<mirror, recent, tgAsks, asksByThread>> /\ poll' = [q |-> 0, m |-> 0] /\ poll'.q = 0 /\ poll'.m = 0
        /\ tgQuestion' = IF Telegram!Waiting(poll.q) THEN [tgQuestion EXCEPT ![poll.q] = "telegram"] ELSE tgQuestion
        /\ poll.m = 0 => typed' = typed
        /\ poll.m # 0 => \E what \in {"answered", "swallowed"} : typed' = [typed EXCEPT ![poll.m] = what]
    <3>1. poll.m # 0 => typed' = [typed EXCEPT ![poll.m] = IF Telegram!Waiting(poll.q) THEN "answered" ELSE "swallowed"]
      BY <1>7 DEF Telegram!Respond
    <3>2. poll.m # 0 => \E what \in {"answered", "swallowed"} : typed' = [typed EXCEPT ![poll.m] = what]
      BY <3>1
    <3> QED
      BY <1>7, <3>2 DEF Telegram!Respond
  <2>2. \A n \in Ms : /\ typed'[n] = typed[n] \/ (typed[n] = "taken" /\ typed'[n] \in {"answered", "swallowed"})
    BY <2>1 DEF TgType, EchoesAreLate
  <2>3. \A p \in Qs : /\ tgQuestion'[p] = tgQuestion[p] \/ tgQuestion'[p] = "telegram"
                      /\ p = poll.q => tgQuestion'[p] \notin {"pending", "taken", "told"}
    BY <2>1 DEF TgType, Telegram!Waiting
  <2>4. TgType'
    <3>1. typed' \in [Ms -> {"new", "ignored", "sent", "refused", "taken", "answered", "swallowed", "lost"}]
      BY <2>1 DEF TgType
    <3>2. tgQuestion' \in [Qs -> {"new", "pending", "taken", "told", "web", "telegram", "lost"}]
      BY <2>1 DEF TgType
    <3>3. poll' \in [q : Qs \cup {0}, m : Ms \cup {0}]
      BY <2>1
    <3> QED
      BY <1>1, <2>1, <3>1, <3>2, <3>3 DEF TgType
  <2>5. PromptsStand'
    <3>1. \A p \in Qs : CanAnswer(p, poll, tgAsks) /\ p # poll.q => CanAnswer(p, poll', tgAsks')
      BY <2>1 DEF CanAnswer
    <3>2. loop["ask"].pc # "idle" => /\ loop["ask"].has \in Qs
                                    /\ tgQuestion'[loop["ask"].has] \in {"taken", "web", "telegram"}
      BY <2>3 DEF PromptsStand
    <3>3. loop["ask"].pc = "send" /\ tgQuestion'[loop["ask"].has] = "taken" => CanAnswer(loop["ask"].has, poll', tgAsks')
      BY <2>3, <3>1, <3>2 DEF PromptsStand
    <3>4. \A p \in Qs : tgQuestion'[p] = "told" => CanAnswer(p, poll', tgAsks')
      BY <2>3, <3>1 DEF PromptsStand
    <3> QED
      BY <1>1, <3>2, <3>3, <3>4 DEF PromptsStand
  <2>6. EchoesAreLate'
    <3>1. \A n : Later(n, typed) => Later(n, typed')
      BY <2>2, LaterStays
    <3>2. \A k, n \in Ms : n < k /\ typed'[k] # "new" => typed'[n] # "new"
      BY <2>2 DEF EchoesAreLate
    <3>3. \A i \in 1..Len(mirror) : mirror[i] # 0 => typed'[mirror[i]] # "new" /\ (recent = mirror[i] \/ Later(mirror[i], typed'))
      <4>1. \A i \in 1..Len(mirror) : mirror[i] \in Ms \cup {0}
        BY OfSeq DEF TgType
      <4> QED
        BY <2>2, <3>1, <4>1 DEF EchoesAreLate
    <3>4. /\ loop["mirror"].pc # "idle" /\ loop["mirror"].has # 0 => Later(loop["mirror"].has, typed')
          /\ \A i \in 1..Len(mirrored) : Later(mirrored[i], typed')
      BY <3>1 DEF EchoesAreLate
    <3>5. \A i, j \in 1..Len(mirror) : mirror[i] = mirror[j] /\ mirror[i] # 0 => i = j
      BY DEF EchoesAreLate
    <3> QED
      BY <1>1, <2>1, <3>2, <3>3, <3>4, <3>5 DEF EchoesAreLate
  <2> QED
    BY <1>3, <2>4, <2>5, <2>6
<1> QED
  BY <1>5, <1>6, <1>7

\* Each step of the bridge keeps the invariant.
LEMMA TgKept == TgInv /\ [Telegram!Next]_tgVars => TgInv'
<1>1. TgInv /\ UNCHANGED tgVars => TgInv'
  <2> SUFFICES ASSUME TgInv, UNCHANGED tgVars PROVE TgInv'
    OBVIOUS
  <2>1. UNCHANGED <<exists, topic, topics, created, topicMu, loop, mirror, reconciling, tgAsks, asksByThread, recent,
                    tgQuestion, poll, typed, mirrored, restarts, orphans>>
    BY DEF tgVars
  <2>2. Stray' = Stray
    BY <2>1 DEF Stray, InHand
  <2>3. Telegram!OneTopic' <=> (Cardinality(Stray) <= orphans)'
    BY StrayTopics, PTL
  <2>4. TopicsAreBound'
    BY <2>1, <2>2, <2>3, StrayTopics DEF TgInv, TopicsAreBound, Unbound
  <2> QED
    BY <2>1, <2>4 DEF TgInv, TgType, PromptsStand, CanAnswer, EchoesAreLate, Later
<1>2. ASSUME TgInv, Telegram!Next PROVE TgInv'
  <2> USE DEF Qs, Ms
  <2>1. CASE \E l \in Telegram!Loops : Telegram!TopicFor(l)
    BY <1>2, <2>1, TgTopicFor
  <2>2. CASE Telegram!Part \/ Telegram!TakeEvent \/ Telegram!Mirror
    BY <1>2, <2>2, TgMirrors
  <2>3. CASE \E q \in Qs : Telegram!Ask(q) \/ Telegram!TakeQuestion(q) \/ Telegram!AnswerElsewhere(q)
    BY <1>2, <2>3, TgAsks
  <2>4. CASE Telegram!Register \/ \E ok \in BOOLEAN : Telegram!SendAskPrompt(ok)
    <3>1. PICK q \in Qs : q = loop["ask"].has
      BY <1>2, <2>4 DEF Telegram!Register, Telegram!SendAskPrompt, TgInv, PromptsStand
    <3> QED
      BY <1>2, <2>4, <3>1, TgAsks
  <2>5. CASE \E q \in Qs : Telegram!Tap(q)
    BY <1>2, <2>5, TgTaps
  <2>6. CASE \E m \in Ms, t \in 1..MaxTopics, delivered \in BOOLEAN : Telegram!Type(m, t, delivered)
    BY <1>2, <2>6, TgTaps
  <2>7. CASE Telegram!Respond
    BY <1>2, <2>7, TgTaps
  <2>8. CASE Telegram!DeleteSession \/ Telegram!Reconcile
    BY <1>2, <2>8, TgReconciles DEF Telegram!Reconcile
  <2>9. CASE Telegram!Restart
    BY <1>2, <2>9, TgRestart
  <2> QED
    BY <1>2, <2>1, <2>2, <2>3, <2>4, <2>5, <2>6, <2>7, <2>8, <2>9 DEF Telegram!Next
<1> QED
  BY <1>1, <1>2

\* A step of another part is a stutter of the Telegram bridge.
LEMMA TgSteps == Next => [Telegram!Next]_tgVars
BY DEF Next, ChatStep, LiveStep, TgStep, LarkStep, GuestStep, PostStep

\* The session's open topic is the bound one or the one about to be bound, except for
\* those a crash left; a prompt that stands can be answered, and nothing typed is echoed
\* unless something was typed after it.
THEOREM TelegramTopicServes == Spec => []TopicServes
<1>1. Init => TgInv
  BY TgStarts DEF Init
<1>2. TgInv /\ [Next]_frontendVars => TgInv'
  BY TgKept, TgSteps DEF frontendVars
<1>3. TgInv => TopicServes
  BY TgHolds DEF TopicServes
<1> QED
  BY <1>1, <1>2, <1>3, PTL DEF Spec

-----------------------------------------------------------------------------
(* ---------------- the main chat (MainChat) ---------------- *)
Stored(file, role, k) == \E j \in 1..Len(file) : file[j].role = role /\ file[j].of = k
IsSeq(s) == s \in Seq({s[i] : i \in 1..Len(s)})

ChatType ==
    /\ IsSeq(store)
    /\ out = [w \in Chat!Writers |-> out[w]]
    /\ \A w \in Chat!Writers : out[w] = <<>> \/ out[w] = <<out[w][1]>>
    /\ post \in [Chat!Sends -> {"new", "reserved", "queued", "rejected", "failed"}]
    /\ pending \in Int /\ queue \in Seq(Chat!Sends) /\ cur \in Chat!Sends \cup {0}
    /\ worker \in {"idle", "turn", "release", "reply", "done", "compact"}
    /\ replies \in [Chat!Sends -> {"none", "running", "held", "told"}]

\* The message of a post is stored by the time it is queued, and the tool event of its
\* turn by the time that lets go of the replies.
TurnsAreStored ==
    /\ worker \in {"turn", "release", "reply", "done"} => cur # 0
    /\ cur # 0 => Stored(store, "user", cur)
    /\ \A i \in 1..Len(queue) : Stored(store, "user", queue[i])
    /\ \A k \in Chat!Sends : post[k] = "reserved" =>
         IF out[Chat!Handler(k)] = <<>> THEN Stored(store, "user", k)
         ELSE out[Chat!Handler(k)][1].role = "user" /\ out[Chat!Handler(k)][1].of = k
    /\ \A k \in Chat!Sends : replies[k] # "none" =>
         Stored(store, "tool", k) \/ (cur = k /\ worker = "turn" /\ routed = Chat!Session)
    /\ \A w \in Chat!Writers : out[w] # <<>> =>
         /\ out[w][1].role # "tool"
         /\ out[w][1].role = "relay" /\ out[w][1].of # 0 => Stored(store, "tool", out[w][1].of)

ChatInv == ChatType /\ TurnsAreStored /\ Chat!SlotsFit /\ Chat!CausalOrder

\* A message at the end of the file: the rest of it is as it was.
LEMMA FileGrows ==
  ASSUME NEW s, NEW m, IsSeq(s)
  PROVE  /\ s \o <<m>> = Append(s, m) /\ IsSeq(Append(s, m)) /\ Len(s) \in Nat
         /\ Len(Append(s, m)) = Len(s) + 1 /\ Append(s, m)[Len(s) + 1] = m
         /\ \A i \in 1..Len(s) : i \in 1..(Len(s) + 1) /\ Append(s, m)[i] = s[i]
         /\ \A role, k : Stored(s, role, k) => Stored(Append(s, m), role, k)
         /\ Stored(Append(s, m), m.role, m.of)
<1>1. PICK T : T = {s[i] : i \in 1..Len(s)} \cup {m}
  OBVIOUS
<1>2. s \in Seq({s[i] : i \in 1..Len(s)}) /\ Len(s) \in Nat /\ s = [i \in 1..Len(s) |-> s[i]]
  BY DEF IsSeq
<1>3. s \in Seq(T)
  BY <1>1, <1>2
<1>4. PICK a : a = Append(s, m)
  OBVIOUS
<1>5. a \in Seq(T) /\ a = s \o <<m>> /\ Len(a) = Len(s) + 1 /\ a[Len(s) + 1] = m /\ \A i \in 1..Len(s) : i \in 1..Len(a) /\ a[i] = s[i]
  BY <1>1, <1>3, <1>4
<1>6. IsSeq(a)
  <2>1. a = [i \in 1..Len(a) |-> a[i]] /\ Len(a) \in Nat
    BY <1>5
  <2> QED
    BY <2>1 DEF IsSeq
<1>7. \A role, k : Stored(s, role, k) => Stored(a, role, k)
  BY <1>5 DEF Stored
<1>8. Stored(a, m.role, m.of)
  BY <1>2, <1>5 DEF Stored
<1> QED
  BY <1>2, <1>4, <1>5, <1>6, <1>7, <1>8


\* The goroutines that append are different from each other.
LEMMA WritersApart ==
  /\ Chat!Worker \in Chat!Writers
  /\ \A k \in Chat!Sends : /\ Chat!Handler(k) \in Chat!Writers /\ Chat!Relayer(k) \in Chat!Writers
                           /\ Chat!Handler(k) # Chat!Worker /\ Chat!Relayer(k) # Chat!Worker
  /\ \A k, j \in Chat!Sends : /\ Chat!Handler(k) # Chat!Relayer(j)
                              /\ Chat!Handler(k) = Chat!Handler(j) => k = j
<1>1. \A k \in Chat!Sends : /\ Chat!Handler(k).kind = "post" /\ Chat!Handler(k).of = k
                            /\ Chat!Relayer(k).kind = "relay" /\ Chat!Relayer(k).of = k
  BY DEF Chat!Handler, Chat!Relayer
<1>2. Chat!Worker.kind = "worker" /\ Chat!Worker \in Chat!Writers
  BY DEF Chat!Worker, Chat!Writers
<1>3. \A k \in Chat!Sends : Chat!Handler(k) \in Chat!Writers /\ Chat!Relayer(k) \in Chat!Writers
  BY DEF Chat!Handler, Chat!Relayer, Chat!Writers
<1>4. \A k \in Chat!Sends : Chat!Handler(k) # Chat!Worker /\ Chat!Relayer(k) # Chat!Worker
  BY <1>1, <1>2
<1>5. \A k, j \in Chat!Sends : Chat!Handler(k) # Chat!Relayer(j) /\ (Chat!Handler(k) = Chat!Handler(j) => k = j)
  BY <1>1
<1> QED
  BY <1>2, <1>3, <1>4, <1>5

\* What one goroutine is about to append changes, and nothing of the others.
LEMMA OutIs ==
  ASSUME ChatType, NEW w \in Chat!Writers, NEW v, v = <<>> \/ v = <<v[1]>>, out' = [out EXCEPT ![w] = v]
  PROVE  /\ out' = [x \in Chat!Writers |-> out'[x]]
         /\ \A x \in Chat!Writers : out'[x] = <<>> \/ out'[x] = <<out'[x][1]>>
         /\ out'[w] = v /\ \A x \in Chat!Writers : x # w => out'[x] = out[x]
<1>1. out = [x \in Chat!Writers |-> out[x]] /\ \A x \in Chat!Writers : out[x] = <<>> \/ out[x] = <<out[x][1]>>
  BY DEF ChatType
<1>2. out'[w] = v /\ \A x \in Chat!Writers : x # w => out'[x] = out[x]
  BY <1>1
<1>3. out' = [x \in Chat!Writers |-> out'[x]]
  BY <1>1
<1>4. \A x \in Chat!Writers : out'[x] = <<>> \/ out'[x] = <<out'[x][1]>>
  <2> TAKE x \in Chat!Writers
  <2>1. CASE x = w
    BY <2>1, <1>2
  <2>2. CASE x # w
    BY <2>2, <1>1, <1>2
  <2> QED
    BY <2>1, <2>2
<1> QED
  BY <1>2, <1>3, <1>4

\* The slots in use, as a number of the library's.
Reserved(posts) == {k \in Chat!Sends : posts[k] = "reserved"}
Fits == pending = Len(queue) + Cardinality(Reserved(post)) /\ pending <= MaxQueued

\* The slots, counted with the library's cardinality.
LEMMA SlotsAreCounted == Chat!SlotsFit <=> Fits
<1>1. Chat!Cardinality(Reserved(post)) = Cardinality(Reserved(post))
  BY DEF Chat!Cardinality, Cardinality
<1> QED
  BY <1>1 DEF Chat!SlotsFit, Reserved, Fits

\* The slots in use are finitely many.
LEMMA SlotsCount ==
  ASSUME ChatType
  PROVE  /\ IsFiniteSet(Reserved(post)) /\ Cardinality(Reserved(post)) \in Nat
         /\ MaxQueued \in Nat /\ Len(queue) \in Nat
<1>1. IsFiniteSet(1..MaxPosts)
  BY FrontendsAssumption, FS_Interval
<1>2. IsFiniteSet(Reserved(post)) /\ Cardinality(Reserved(post)) \in Nat
  BY <1>1, FS_Subset, FS_CardinalityType DEF Reserved, Chat!Sends
<1> QED
  BY <1>2, FrontendsAssumption DEF ChatType

\* The file is empty, and so is the queue.
LEMMA ChatStarts == Chat!Init => ChatInv
<1> SUFFICES ASSUME Chat!Init PROVE ChatInv
  OBVIOUS
<1> USE DEF Chat!Init, Chat!Rest, Chat!NoPost, Chat!NoFocus
<1>1. ChatType
  <2>1. IsSeq(store)
    BY DEF IsSeq
  <2>2. \A w \in Chat!Writers : out[w] = <<>>
    OBVIOUS
  <2>3. post \in [Chat!Sends -> {"new", "reserved", "queued", "rejected", "failed"}] /\ replies \in [Chat!Sends -> {"none", "running", "held", "told"}]
    OBVIOUS
  <2>4. queue \in Seq(Chat!Sends) /\ pending \in Int
    OBVIOUS
  <2> QED
    BY <2>1, <2>2, <2>3, <2>4 DEF ChatType
<1>2. TurnsAreStored
  <2>1. \A w \in Chat!Writers : out[w] = <<>>
    OBVIOUS
  <2>2. \A k \in Chat!Sends : post[k] = "new" /\ replies[k] = "none"
    OBVIOUS
  <2>3. Len(queue) = 0 /\ cur = 0 /\ worker = "idle"
    OBVIOUS
  <2> QED
    BY <2>1, <2>2, <2>3 DEF TurnsAreStored
<1>3. Chat!SlotsFit
  <2>1. Reserved(post) = {}
    BY DEF Reserved
  <2> QED
    BY <1>1, <2>1, SlotsCount, SlotsAreCounted, FS_EmptySet, FrontendsAssumption DEF Fits
<1>4. Chat!CausalOrder
  BY DEF Chat!CausalOrder
<1> QED
  BY <1>1, <1>2, <1>3, <1>4 DEF ChatInv

\* The order of the file stands while a message is appended that has what it follows.
LEMMA OrderStands ==
  ASSUME ChatType, Chat!CausalOrder, NEW m, store' = Append(store, m),
         m.of # 0 /\ m.role = "tool" => Stored(store, "user", m.of),
         m.of # 0 /\ m.role = "relay" => Stored(store, "tool", m.of)
  PROVE  Chat!CausalOrder' /\ IsSeq(store')
<1>1. IsSeq(store)
  BY DEF ChatType
<1>2. /\ IsSeq(store') /\ Len(store) \in Nat /\ Len(store') = Len(store) + 1 /\ store'[Len(store) + 1] = m
      /\ \A i \in 1..Len(store) : i \in 1..(Len(store) + 1) /\ store'[i] = store[i]
  BY <1>1, FileGrows
<1>3. DOMAIN store = 1..Len(store) /\ DOMAIN store' = 1..(Len(store) + 1)
  BY <1>1, <1>2 DEF IsSeq
<1>4. ASSUME NEW i \in 1..(Len(store) + 1), store'[i].of # 0
      PROVE  /\ store'[i].role = "tool" => \E j \in 1..(i - 1) : store'[j].role = "user" /\ store'[j].of = store'[i].of
             /\ store'[i].role = "relay" => \E j \in 1..(i - 1) : store'[j].role = "tool" /\ store'[j].of = store'[i].of
  <2>1. CASE i = Len(store) + 1
    <3>1. store'[i] = m /\ i - 1 = Len(store)
      BY <1>2, <2>1
    <3> QED
      BY <3>1, <1>2, <1>4 DEF Stored
  <2>2. CASE i # Len(store) + 1
    <3>1. i \in 1..Len(store) /\ store'[i] = store[i] /\ \A j \in 1..(i - 1) : j \in 1..Len(store) /\ store'[j] = store[j]
      BY <1>2, <2>2
    <3>2. /\ store[i].role = "tool" => \E j \in 1..(i - 1) : store[j].role = "user" /\ store[j].of = store[i].of
          /\ store[i].role = "relay" => \E j \in 1..(i - 1) : store[j].role = "tool" /\ store[j].of = store[i].of
      BY <1>3, <1>4, <3>1 DEF Chat!CausalOrder, Chat!NoPost
    <3> QED
      BY <3>1, <3>2
  <2> QED
    BY <2>1, <2>2
<1>5. Chat!CausalOrder'
  BY <1>3, <1>4 DEF Chat!CausalOrder, Chat!NoPost
<1> QED
  BY <1>2, <1>5


\* What is said of the slots stays said while the posts, the queue and the count stay.
LEMMA SlotsStay == ASSUME Chat!SlotsFit, UNCHANGED <<post, pending, queue>> PROVE Chat!SlotsFit'
BY DEF Chat!SlotsFit

\* The order of the file stays with the file.
LEMMA OrderStays == ASSUME Chat!CausalOrder, UNCHANGED store PROVE Chat!CausalOrder'
BY DEF Chat!CausalOrder

\* A goroutine that is no post's is about to append: nothing is stored yet.
LEMMA ChatStamps ==
  ASSUME ChatType, TurnsAreStored, NEW w \in Chat!Writers, \A k \in Chat!Sends : w # Chat!Handler(k),
         NEW m, m.role # "tool", m.role = "relay" /\ m.of # 0 => Stored(store, "tool", m.of),
         Chat!Stamp(w, m), UNCHANGED <<store, post>>
  PROVE  /\ out' = [x \in Chat!Writers |-> out'[x]]
         /\ \A x \in Chat!Writers : out'[x] = <<>> \/ out'[x] = <<out'[x][1]>>
         /\ \A k \in Chat!Sends : out'[Chat!Handler(k)] = out[Chat!Handler(k)]
         /\ \A x \in Chat!Writers : out'[x] # <<>> =>
              /\ out'[x][1].role # "tool"
              /\ out'[x][1].role = "relay" /\ out'[x][1].of # 0 => Stored(store, "tool", out'[x][1].of)
<1>1. out' = [out EXCEPT ![w] = <<m>>] /\ <<m>>[1] = m
  BY DEF Chat!Stamp
<1>2. /\ out' = [x \in Chat!Writers |-> out'[x]]
      /\ \A x \in Chat!Writers : out'[x] = <<>> \/ out'[x] = <<out'[x][1]>>
      /\ out'[w] = <<m>> /\ \A x \in Chat!Writers : x # w => out'[x] = out[x]
  BY <1>1, OutIs
<1>3. \A k \in Chat!Sends : out'[Chat!Handler(k)] = out[Chat!Handler(k)]
  BY <1>2, WritersApart
<1>4. ASSUME NEW x \in Chat!Writers, out'[x] # <<>>
      PROVE  /\ out'[x][1].role # "tool"
             /\ out'[x][1].role = "relay" /\ out'[x][1].of # 0 => Stored(store, "tool", out'[x][1].of)
  <2>1. CASE x = w
    BY <1>1, <1>2, <2>1
  <2>2. CASE x # w
    BY <1>2, <1>4, <2>2 DEF TurnsAreStored
  <2> QED
    BY <2>1, <2>2
<1> QED
  BY <1>2, <1>3, <1>4

\* A post takes a slot and is about to store its message.
LEMMA ChatReserve == ASSUME ChatInv, NEW k \in Chat!Sends, Chat!Reserve(k) PROVE ChatInv'
<1> USE DEF ChatInv
<1>1. UNCHANGED <<store, queue, worker, cur, routed, replies>> /\ post[k] = "new"
  BY DEF Chat!Reserve, Chat!turnVars
<1>2. post \in [Chat!Sends -> {"new", "reserved", "queued", "rejected", "failed"}] /\ pending \in Int
  BY DEF ChatType
<1>3. CASE pending >= MaxQueued
  <2>1. post' = [post EXCEPT ![k] = "rejected"] /\ UNCHANGED <<pending, out, now>>
    BY <1>3 DEF Chat!Reserve
  <2>2. /\ post' \in [Chat!Sends -> {"new", "reserved", "queued", "rejected", "failed"}]
        /\ \A j \in Chat!Sends : post'[j] = "reserved" => post[j] = "reserved"
        /\ \A j \in Chat!Sends : post[j] = "reserved" => post'[j] = "reserved"
    BY <1>1, <1>2, <2>1
  <2>3. ChatType'
    BY <1>1, <2>1, <2>2 DEF ChatType
  <2>4. TurnsAreStored'
    BY <1>1, <2>1, <2>2 DEF TurnsAreStored
  <2>5. Reserved(post') = Reserved(post)
    BY <2>2 DEF Reserved
  <2>6. Chat!SlotsFit'
    <3>1. Fits /\ (Chat!SlotsFit' <=> Fits')
      BY SlotsAreCounted, PTL
    <3> QED
      BY <1>1, <2>1, <2>5, <3>1, SlotsCount DEF Fits
  <2> QED
    BY <2>3, <2>4, <2>6, OrderStays, <1>1
<1>4. CASE ~(pending >= MaxQueued)
  <2> DEFINE m == Chat!Message("user", k, Chat!NoFocus, Chat!NoFocus, 0)
             w == Chat!Handler(k)
  <2>1. post' = [post EXCEPT ![k] = "reserved"] /\ pending' = pending + 1 /\ Chat!Stamp(w, m)
    BY <1>4 DEF Chat!Reserve
  <2>2. w \in Chat!Writers /\ <<m>>[1] = m /\ m.role = "user" /\ m.of = k /\ out' = [out EXCEPT ![w] = <<m>>]
    BY <2>1, WritersApart DEF Chat!Message, Chat!Stamp
  <2>3. /\ post' \in [Chat!Sends -> {"new", "reserved", "queued", "rejected", "failed"}]
        /\ post'[k] = "reserved" /\ \A j \in Chat!Sends : j # k => post'[j] = post[j]
    BY <1>1, <1>2, <2>1
  <2>4. /\ out' = [x \in Chat!Writers |-> out'[x]]
        /\ \A x \in Chat!Writers : out'[x] = <<>> \/ out'[x] = <<out'[x][1]>>
        /\ out'[w] = <<m>> /\ \A x \in Chat!Writers : x # w => out'[x] = out[x]
    <3> HIDE DEF m, w
    <3> QED
      BY <2>2, OutIs
  <2> HIDE DEF m
  <2>5. ChatType'
    BY <1>1, <1>2, <2>1, <2>3, <2>4 DEF ChatType
  <2>6. \A j \in Chat!Sends : post'[j] = "reserved" =>
          IF out'[Chat!Handler(j)] = <<>> THEN Stored(store', "user", j)
          ELSE out'[Chat!Handler(j)][1].role = "user" /\ out'[Chat!Handler(j)][1].of = j
    <3> SUFFICES ASSUME NEW j \in Chat!Sends, post'[j] = "reserved"
                 PROVE  IF out'[Chat!Handler(j)] = <<>> THEN Stored(store', "user", j)
                        ELSE out'[Chat!Handler(j)][1].role = "user" /\ out'[Chat!Handler(j)][1].of = j
      OBVIOUS
    <3>1. CASE j = k
      BY <2>2, <2>4, <3>1
    <3>2. CASE j # k
      <4>1. Chat!Handler(j) # w /\ Chat!Handler(j) \in Chat!Writers
        BY <3>2, WritersApart
      <4>2. out'[Chat!Handler(j)] = out[Chat!Handler(j)] /\ post[j] = "reserved"
        BY <2>3, <2>4, <3>2, <4>1
      <4> QED
        BY <1>1, <4>2 DEF TurnsAreStored
    <3> QED
      BY <3>1, <3>2
  <2>7. ASSUME NEW x \in Chat!Writers, out'[x] # <<>>
        PROVE  /\ out'[x][1].role # "tool"
               /\ out'[x][1].role = "relay" /\ out'[x][1].of # 0 => Stored(store', "tool", out'[x][1].of)
    <3>1. CASE x = w
      BY <2>2, <2>4, <3>1
    <3>2. CASE x # w
      BY <1>1, <2>4, <2>7, <3>2 DEF TurnsAreStored
    <3> QED
      BY <3>1, <3>2
  <2>8. TurnsAreStored'
    BY <1>1, <2>6, <2>7 DEF TurnsAreStored
  <2>9. Chat!SlotsFit'
    <3>1. Fits /\ (Chat!SlotsFit' <=> Fits')
      BY SlotsAreCounted, PTL
    <3>2. Reserved(post') = Reserved(post) \cup {k} /\ k \notin Reserved(post)
      BY <1>1, <2>3 DEF Reserved
    <3>3. Cardinality(Reserved(post')) = Cardinality(Reserved(post)) + 1
      BY <3>2, SlotsCount, FS_AddElement
    <3> QED
      BY <1>1, <1>2, <1>4, <2>1, <3>1, <3>3, SlotsCount DEF Fits
  <2> QED
    BY <1>1, <2>5, <2>8, <2>9, OrderStays
<1> QED
  BY <1>3, <1>4

\* A message that could not be stored gives its slot back.
LEMMA ChatPersistFails == ASSUME ChatInv, NEW k \in Chat!Sends, Chat!PersistFails(k) PROVE ChatInv'
<1> USE DEF ChatInv
<1> DEFINE w == Chat!Handler(k)
<1>1. /\ UNCHANGED <<store, queue, worker, cur, routed, replies>> /\ post[k] = "reserved"
      /\ out' = [out EXCEPT ![w] = <<>>] /\ post' = [post EXCEPT ![k] = "failed"] /\ pending' = pending - 1
  BY DEF Chat!PersistFails, Chat!turnVars, Chat!Rest
<1>2. post \in [Chat!Sends -> {"new", "reserved", "queued", "rejected", "failed"}] /\ pending \in Int
  BY DEF ChatType
<1>3. /\ post' \in [Chat!Sends -> {"new", "reserved", "queued", "rejected", "failed"}]
      /\ post'[k] = "failed" /\ \A j \in Chat!Sends : j # k => post'[j] = post[j]
  BY <1>1, <1>2
<1>4. /\ out' = [x \in Chat!Writers |-> out'[x]]
      /\ \A x \in Chat!Writers : out'[x] = <<>> \/ out'[x] = <<out'[x][1]>>
      /\ out'[w] = <<>> /\ \A x \in Chat!Writers : x # w => out'[x] = out[x]
  <2>1. w \in Chat!Writers
    BY WritersApart
  <2> HIDE DEF w
  <2> QED
    BY <1>1, <2>1, OutIs
<1>5. ChatType'
  BY <1>1, <1>2, <1>3, <1>4 DEF ChatType
<1>6. ASSUME NEW j \in Chat!Sends, post'[j] = "reserved"
      PROVE  IF out'[Chat!Handler(j)] = <<>> THEN Stored(store', "user", j)
             ELSE out'[Chat!Handler(j)][1].role = "user" /\ out'[Chat!Handler(j)][1].of = j
  <2>1. j # k /\ post[j] = "reserved"
    BY <1>3, <1>6
  <2>2. out'[Chat!Handler(j)] = out[Chat!Handler(j)]
    BY <1>4, <2>1, WritersApart
  <2> QED
    BY <1>1, <2>1, <2>2 DEF TurnsAreStored
<1>7. ASSUME NEW x \in Chat!Writers, out'[x] # <<>>
      PROVE  /\ out'[x][1].role # "tool"
             /\ out'[x][1].role = "relay" /\ out'[x][1].of # 0 => Stored(store', "tool", out'[x][1].of)
  BY <1>1, <1>4, <1>7 DEF TurnsAreStored
<1>8. TurnsAreStored'
  BY <1>1, <1>6, <1>7 DEF TurnsAreStored
<1>9. Chat!SlotsFit'
  <2>1. Fits /\ (Chat!SlotsFit' <=> Fits')
    BY SlotsAreCounted, PTL
  <2>2. Reserved(post') = Reserved(post) \ {k} /\ k \in Reserved(post)
    BY <1>1, <1>3 DEF Reserved
  <2>3. Cardinality(Reserved(post')) = Cardinality(Reserved(post)) - 1
    BY <2>2, SlotsCount, FS_RemoveElement
  <2> QED
    BY <1>1, <1>2, <2>1, <2>3, SlotsCount DEF Fits
<1> QED
  BY <1>1, <1>5, <1>8, <1>9, OrderStays

\* The slot of a post goes with it to the queue.
LEMMA ChatEnqueue == ASSUME ChatInv, NEW k \in Chat!Sends, Chat!Enqueue(k) PROVE ChatInv'
<1> USE DEF ChatInv
<1>1. /\ UNCHANGED <<store, out, worker, cur, routed, replies, pending>> /\ post[k] = "reserved"
      /\ out[Chat!Handler(k)] = <<>> /\ queue' = Append(queue, k) /\ post' = [post EXCEPT ![k] = "queued"]
  BY DEF Chat!Enqueue, Chat!turnVars, Chat!Rest, Chat!Idle
<1>2. post \in [Chat!Sends -> {"new", "reserved", "queued", "rejected", "failed"}] /\ queue \in Seq(Chat!Sends) /\ Len(queue) \in Nat
  BY DEF ChatType
<1>3. /\ post' \in [Chat!Sends -> {"new", "reserved", "queued", "rejected", "failed"}]
      /\ post'[k] = "queued" /\ \A j \in Chat!Sends : j # k => post'[j] = post[j]
  BY <1>1, <1>2
<1>4. /\ queue' \in Seq(Chat!Sends) /\ Len(queue') = Len(queue) + 1 /\ queue'[Len(queue) + 1] = k
      /\ \A i \in 1..Len(queue) : queue'[i] = queue[i]
  BY <1>1, <1>2
<1>5. ChatType'
  BY <1>1, <1>3, <1>4 DEF ChatType
<1>6. \A i \in 1..Len(queue') : Stored(store', "user", queue'[i])
  <2> TAKE i \in 1..Len(queue')
  <2>1. CASE i = Len(queue) + 1
    BY <1>1, <1>4, <2>1 DEF TurnsAreStored
  <2>2. CASE i # Len(queue) + 1
    <3>1. i \in 1..Len(queue)
      BY <1>2, <1>4, <2>2
    <3> QED
      BY <1>1, <1>4, <3>1 DEF TurnsAreStored
  <2> QED
    BY <2>1, <2>2
<1>7. \A j \in Chat!Sends : post'[j] = "reserved" => post[j] = "reserved"
  BY <1>1, <1>3
<1>8. TurnsAreStored'
  BY <1>1, <1>6, <1>7 DEF TurnsAreStored
<1>9. Chat!SlotsFit'
  <2>1. Fits /\ (Chat!SlotsFit' <=> Fits')
    BY SlotsAreCounted, PTL
  <2>2. Reserved(post') = Reserved(post) \ {k} /\ k \in Reserved(post)
    BY <1>1, <1>3 DEF Reserved
  <2>3. Cardinality(Reserved(post')) = Cardinality(Reserved(post)) - 1
    BY <2>2, SlotsCount, FS_RemoveElement
  <2> QED
    BY <1>1, <1>4, <2>1, <2>3, SlotsCount DEF Fits
<1> QED
  BY <1>1, <1>5, <1>8, <1>9, OrderStays


\* The message at the head of the queue was stored: its turn may start.
LEMMA ChatDequeue == ASSUME ChatInv, Chat!Dequeue PROVE ChatInv'
<1> USE DEF ChatInv
<1>1. /\ UNCHANGED <<store, out, post, replies>> /\ queue # <<>> /\ cur' = Head(queue) /\ queue' = Tail(queue)
      /\ pending' = pending - 1 /\ worker = "idle" /\ worker' = "turn"
  BY DEF Chat!Dequeue
<1>2. queue \in Seq(Chat!Sends) /\ pending \in Int /\ \A k \in Chat!Sends : k # 0
  BY FrontendsAssumption DEF ChatType, Chat!Sends
<1>3. /\ cur' = queue[1] /\ cur' \in Chat!Sends /\ 1 \in 1..Len(queue) /\ Len(queue) \in Nat
      /\ queue' \in Seq(Chat!Sends) /\ Len(queue') = Len(queue) - 1
      /\ \A i \in 1..(Len(queue) - 1) : queue'[i] = queue[i + 1] /\ i + 1 \in 1..Len(queue)
  BY <1>1, <1>2, RestOf
<1>4. ChatType'
  BY <1>1, <1>2, <1>3 DEF ChatType
<1>5. TurnsAreStored'
  BY <1>1, <1>2, <1>3 DEF TurnsAreStored
<1>6. Chat!SlotsFit'
  <2>1. Fits /\ (Chat!SlotsFit' <=> Fits')
    BY SlotsAreCounted, PTL
  <2> QED
    BY <1>1, <1>2, <1>3, <2>1, SlotsCount DEF Fits
<1> QED
  BY <1>1, <1>4, <1>5, <1>6, OrderStays

\* The reply of a session cannot come before the agent has sent to it.
LEMMA ChatDispatch == ASSUME ChatInv, Chat!Dispatch PROVE ChatInv'
<1> USE DEF ChatInv
<1>1. /\ UNCHANGED <<store, out, post, pending, queue, worker, cur>> /\ worker = "turn"
      /\ routed' = Chat!Session /\ replies' = [replies EXCEPT ![cur] = "running"]
  BY DEF Chat!Dispatch
<1>2. cur \in Chat!Sends /\ replies \in [Chat!Sends -> {"none", "running", "held", "told"}]
  BY <1>1 DEF ChatType, TurnsAreStored
<1>3. /\ replies' \in [Chat!Sends -> {"none", "running", "held", "told"}]
      /\ \A k \in Chat!Sends : k # cur => replies'[k] = replies[k]
  BY <1>1, <1>2
<1>4. ChatType'
  BY <1>1, <1>3 DEF ChatType
<1>5. TurnsAreStored'
  BY <1>1, <1>3 DEF TurnsAreStored
<1> QED
  BY <1>1, <1>4, <1>5, SlotsStay, OrderStays

\* The evidence of the turn is stored before the worker lets go of its replies.
LEMMA ChatHandled == ASSUME ChatInv, Chat!Handled PROVE ChatInv'
<1> USE DEF ChatInv
<1>1. /\ UNCHANGED <<out, post, pending, queue, cur, routed, replies>> /\ worker = "turn" /\ worker' = "release"
  BY DEF Chat!Handled, Chat!turnVars
<1>2. cur \in Chat!Sends /\ cur # 0 /\ Stored(store, "user", cur)
  BY <1>1 DEF ChatType, TurnsAreStored
<1>3. CASE routed = Chat!NoFocus
  <2>1. UNCHANGED store /\ routed # Chat!Session
    BY <1>3 DEF Chat!Handled, Chat!NoFocus, Chat!Session
  <2>2. ChatType'
    BY <1>1, <2>1 DEF ChatType
  <2>3. TurnsAreStored'
    BY <1>1, <1>2, <2>1 DEF TurnsAreStored
  <2> QED
    BY <1>1, <2>1, <2>2, <2>3, SlotsStay, OrderStays
<1>4. CASE routed # Chat!NoFocus
  <2>1. PICK m : m = Chat!Message("tool", cur, Chat!NoFocus, Chat!NoFocus, 0)
    OBVIOUS
  <2>2. store' = Append(store, m) /\ m.role = "tool" /\ m.of = cur
    BY <1>4, <2>1 DEF Chat!Handled, Chat!Message
  <2>3. Chat!CausalOrder' /\ IsSeq(store')
    BY <1>2, <2>2, OrderStands
  <2>4. (\A role, k : Stored(store, role, k) => Stored(store', role, k)) /\ Stored(store', "tool", cur)
    BY <2>2, FileGrows DEF ChatType
  <2>5. ChatType'
    BY <1>1, <2>3 DEF ChatType
  <2>6. TurnsAreStored'
    BY <1>1, <1>2, <2>4 DEF TurnsAreStored
  <2> QED
    BY <1>1, <2>3, <2>5, <2>6, SlotsStay
<1> QED
  BY <1>3, <1>4

\* A reply that is not held back finds the tool event of its turn in the file.
LEMMA ChatReply == ASSUME ChatInv, NEW k \in Chat!Sends, Chat!Reply(k) PROVE ChatInv'
<1> USE DEF ChatInv
<1>1. UNCHANGED <<store, post, pending, queue, worker, cur, routed>> /\ replies[k] = "running"
  BY DEF Chat!Reply, Chat!turnVars
<1>2. replies \in [Chat!Sends -> {"none", "running", "held", "told"}]
  BY DEF ChatType
<1>3. CASE Chat!Held(k)
  <2>1. UNCHANGED <<out, now>> /\ replies' = [replies EXCEPT ![k] = "held"]
    BY <1>3 DEF Chat!Reply
  <2>2. replies' \in [Chat!Sends -> {"none", "running", "held", "told"}] /\ \A j \in Chat!Sends : j # k => replies'[j] = replies[j]
    BY <1>2, <2>1
  <2>3. ChatType'
    BY <1>1, <2>1, <2>2 DEF ChatType
  <2>4. TurnsAreStored'
    BY <1>1, <2>1, <2>2 DEF TurnsAreStored
  <2> QED
    BY <1>1, <2>3, <2>4, SlotsStay, OrderStays
<1>4. CASE ~Chat!Held(k)
  <2>1. PICK m : m = Chat!ReplyMessage(k)
    OBVIOUS
  <2>2. m.role = "relay" /\ m.of = k /\ Stored(store, "tool", k)
    BY <1>1, <1>4, <2>1 DEF Chat!ReplyMessage, Chat!Message, Chat!Held, TurnsAreStored
  <2>3. Chat!Stamp(Chat!Relayer(k), m) /\ replies' = [replies EXCEPT ![k] = "told"]
    BY <1>4, <2>1 DEF Chat!Reply
  <2>4. Chat!Relayer(k) \in Chat!Writers /\ \A j \in Chat!Sends : Chat!Relayer(k) # Chat!Handler(j)
    BY WritersApart
  <2>5. /\ out' = [x \in Chat!Writers |-> out'[x]]
        /\ \A x \in Chat!Writers : out'[x] = <<>> \/ out'[x] = <<out'[x][1]>>
        /\ \A j \in Chat!Sends : out'[Chat!Handler(j)] = out[Chat!Handler(j)]
        /\ \A x \in Chat!Writers : out'[x] # <<>> =>
             /\ out'[x][1].role # "tool"
             /\ out'[x][1].role = "relay" /\ out'[x][1].of # 0 => Stored(store, "tool", out'[x][1].of)
    BY <1>1, <2>2, <2>3, <2>4, ChatStamps
  <2>6. replies' \in [Chat!Sends -> {"none", "running", "held", "told"}] /\ \A j \in Chat!Sends : j # k => replies'[j] = replies[j]
    BY <1>2, <2>3
  <2>7. ChatType'
    BY <1>1, <2>5, <2>6 DEF ChatType
  <2>8. TurnsAreStored'
    BY <1>1, <2>2, <2>5, <2>6 DEF TurnsAreStored
  <2> QED
    BY <1>1, <2>7, <2>8, SlotsStay, OrderStays
<1> QED
  BY <1>3, <1>4

\* The worker stamps a message of its own that follows what it must.
LEMMA ChatWorkerStamps ==
  ASSUME ChatInv, NEW m, m.role # "tool", m.role = "relay" /\ m.of # 0 => Stored(store, "tool", m.of),
         Chat!Stamp(Chat!Worker, m), UNCHANGED <<store, post, pending, queue, cur, routed>>,
         worker # "turn", worker \in {"release", "reply", "done"} \/ worker' \in {"idle", "compact"},
         worker' \in {"idle", "release", "reply", "done", "compact"},
         replies' \in [Chat!Sends -> {"none", "running", "held", "told"}],
         \A k \in Chat!Sends : replies'[k] # "none" => replies[k] # "none"
  PROVE  ChatInv'
<1> USE DEF ChatInv
<1>1. Chat!Worker \in Chat!Writers /\ \A j \in Chat!Sends : Chat!Worker # Chat!Handler(j)
  BY WritersApart
<1>2. /\ out' = [x \in Chat!Writers |-> out'[x]]
      /\ \A x \in Chat!Writers : out'[x] = <<>> \/ out'[x] = <<out'[x][1]>>
      /\ \A j \in Chat!Sends : out'[Chat!Handler(j)] = out[Chat!Handler(j)]
      /\ \A x \in Chat!Writers : out'[x] # <<>> =>
           /\ out'[x][1].role # "tool"
           /\ out'[x][1].role = "relay" /\ out'[x][1].of # 0 => Stored(store, "tool", out'[x][1].of)
  BY <1>1, ChatStamps
<1>3. ChatType'
  BY <1>2 DEF ChatType
<1>4. TurnsAreStored'
  BY <1>2 DEF TurnsAreStored
<1> QED
  BY <1>3, <1>4, SlotsStay, OrderStays

\* The worker goes on and nothing is stamped.
LEMMA ChatWorkerGoes ==
  ASSUME ChatInv, UNCHANGED <<store, out, post, pending, queue, routed, replies>>,
         cur' = cur \/ (cur' = 0 /\ worker' = "compact"), worker # "turn",
         worker \in {"release", "reply", "done"} \/ worker' \in {"idle", "compact"},
         worker' \in {"idle", "release", "reply", "done", "compact"}
  PROVE  ChatInv'
<1> USE DEF ChatInv
<1>1. ChatType'
  BY DEF ChatType
<1>2. TurnsAreStored'
  BY DEF TurnsAreStored
<1> QED
  BY <1>1, <1>2, SlotsStay, OrderStays

\* A held reply is appended by the worker, the tool event of its turn stored.
LEMMA ChatReleases == ASSUME ChatInv, Chat!ReleaseRelays PROVE ChatInv'
<1>1. UNCHANGED <<store, post, pending, queue, cur, routed>> /\ worker = "release" /\ worker' = "reply"
  BY DEF Chat!ReleaseRelays, Chat!turnVars
<1>2. cur \in Chat!Sends /\ replies \in [Chat!Sends -> {"none", "running", "held", "told"}]
  BY <1>1 DEF ChatInv, ChatType, TurnsAreStored
<1>3. CASE replies[cur] = "held"
  <2>1. PICK m : m = Chat!ReplyMessage(cur)
    OBVIOUS
  <2>2. m.role = "relay" /\ m.of = cur /\ Stored(store, "tool", cur)
    BY <1>1, <1>2, <1>3, <2>1 DEF Chat!ReplyMessage, Chat!Message, ChatInv, TurnsAreStored
  <2>3. Chat!Stamp(Chat!Worker, m) /\ replies' = [replies EXCEPT ![cur] = "told"]
    BY <1>3, <2>1 DEF Chat!ReleaseRelays
  <2>4. /\ replies' \in [Chat!Sends -> {"none", "running", "held", "told"}]
        /\ \A k \in Chat!Sends : replies'[k] # "none" => replies[k] # "none"
    BY <1>2, <1>3, <2>3
  <2> QED
    BY <1>1, <2>2, <2>3, <2>4, ChatWorkerStamps
<1>4. CASE replies[cur] # "held"
  BY <1>1, <1>4, ChatWorkerGoes DEF Chat!ReleaseRelays
<1> QED
  BY <1>3, <1>4

\* The agent's own words follow no tool event.
LEMMA ChatAnswers == ASSUME ChatInv, NEW says \in BOOLEAN, Chat!Answer(says) PROVE ChatInv'
<1>1. UNCHANGED <<store, post, pending, queue, cur, routed, replies>> /\ worker = "reply" /\ worker' = "done"
  BY DEF Chat!Answer, Chat!turnVars
<1>2. replies' \in [Chat!Sends -> {"none", "running", "held", "told"}]
  BY <1>1 DEF ChatInv, ChatType
<1>3. CASE UNCHANGED out
  BY <1>1, <1>3, ChatWorkerGoes
<1>4. CASE Chat!Stamp(Chat!Worker, Chat!Message("agent", cur, Chat!newFocus, Chat!NoFocus, 0))
  <2>1. PICK m : m = Chat!Message("agent", cur, Chat!newFocus, Chat!NoFocus, 0)
    OBVIOUS
  <2>2. m.role = "agent" /\ Chat!Stamp(Chat!Worker, m)
    BY <1>4, <2>1 DEF Chat!Message
  <2> QED
    BY <1>1, <1>2, <2>2, ChatWorkerStamps
<1> QED
  BY <1>3, <1>4 DEF Chat!Answer

\* The end of a turn stores nothing.
LEMMA ChatTurnDone == ASSUME ChatInv, Chat!TurnDone PROVE ChatInv'
BY ChatWorkerGoes DEF Chat!TurnDone, Chat!NoPost

\* A summary is no reply: it may stand anywhere.
LEMMA ChatFolds == ASSUME ChatInv, NEW ok \in BOOLEAN, Chat!Fold(ok) PROVE ChatInv'
<1>1. UNCHANGED <<store, post, pending, queue, cur, routed, replies>> /\ worker = "compact" /\ worker' = "idle"
  BY DEF Chat!Fold, Chat!turnVars
<1>2. replies' \in [Chat!Sends -> {"none", "running", "held", "told"}]
  BY <1>1 DEF ChatInv, ChatType
<1>3. CASE UNCHANGED out
  BY <1>1, <1>3, ChatWorkerGoes
<1>4. ASSUME NEW t, Chat!Stamp(Chat!Worker, Chat!Message("summary", 0, Chat!NoFocus, Chat!NoFocus, t)) PROVE ChatInv'
  <2>1. PICK m : m = Chat!Message("summary", 0, Chat!NoFocus, Chat!NoFocus, t)
    OBVIOUS
  <2>2. m.role = "summary" /\ Chat!Stamp(Chat!Worker, m)
    BY <1>4, <2>1 DEF Chat!Message
  <2> QED
    BY <1>1, <1>2, <2>2, ChatWorkerStamps
<1>5. UNCHANGED out \/ \E t : Chat!Stamp(Chat!Worker, Chat!Message("summary", 0, Chat!NoFocus, Chat!NoFocus, t))
  BY DEF Chat!Fold, Chat!NoPost
<1> QED
  BY <1>3, <1>4, <1>5

\* A turn of the session that the chat did not ask for follows no tool event.
LEMMA ChatForeign == ASSUME ChatInv, Chat!ForeignTurn PROVE ChatInv'
<1> USE DEF ChatInv
<1>1. PICK m : m = Chat!Message("relay", 0, Chat!NoFocus, Chat!Session, 0)
  OBVIOUS
<1>2. /\ UNCHANGED <<out, post, pending, queue, worker, cur, routed, replies>>
      /\ store' = Append(store, m) /\ m.of = 0
  BY <1>1 DEF Chat!ForeignTurn, Chat!turnVars, Chat!Message, Chat!NoPost
<1>3. Chat!CausalOrder' /\ IsSeq(store')
  BY <1>2, OrderStands
<1>4. \A role, k : Stored(store, role, k) => Stored(store', role, k)
  BY <1>2, FileGrows DEF ChatType
<1>5. ChatType'
  BY <1>2, <1>3 DEF ChatType
<1>6. TurnsAreStored'
  BY <1>2, <1>4 DEF TurnsAreStored
<1> QED
  BY <1>2, <1>3, <1>5, <1>6, SlotsStay

\* What a goroutine had stamped reaches the file, whatever was stored in between.
LEMMA ChatPersists == ASSUME ChatInv, NEW w \in Chat!Writers, Chat!Persist(w) PROVE ChatInv'
<1> USE DEF ChatInv
<1>1. /\ out[w] # <<>> /\ store' = store \o out[w] /\ out' = [out EXCEPT ![w] = <<>>]
      /\ UNCHANGED <<post, pending, queue, worker, cur, routed, replies>>
  BY DEF Chat!Persist, Chat!Idle, Chat!Rest, Chat!turnVars
<1>2. PICK m : m = out[w][1]
  OBVIOUS
<1>3. out[w] = <<m>> /\ IsSeq(store)
  BY <1>1, <1>2 DEF ChatType
<1>4. m.role # "tool" /\ (m.role = "relay" /\ m.of # 0 => Stored(store, "tool", m.of))
  BY <1>1, <1>2 DEF TurnsAreStored
<1>5. /\ store' = Append(store, m) /\ \A role, k : Stored(store, role, k) => Stored(store', role, k)
      /\ Stored(store', m.role, m.of)
  <2>1. store' = Append(store, m)
    <3>1. store \o <<m>> = Append(store, m)
      BY <1>3, FileGrows
    <3> QED
      BY <1>1, <1>3, <3>1
  <2> QED
    BY <1>3, <2>1, FileGrows
<1>6. Chat!CausalOrder' /\ IsSeq(store')
  BY <1>4, <1>5, OrderStands
<1>7. /\ out' = [x \in Chat!Writers |-> out'[x]]
      /\ \A x \in Chat!Writers : out'[x] = <<>> \/ out'[x] = <<out'[x][1]>>
      /\ out'[w] = <<>> /\ \A x \in Chat!Writers : x # w => out'[x] = out[x]
  BY <1>1, OutIs
<1>8. ChatType'
  BY <1>1, <1>6, <1>7 DEF ChatType
<1>9. ASSUME NEW k \in Chat!Sends, post'[k] = "reserved"
      PROVE  IF out'[Chat!Handler(k)] = <<>> THEN Stored(store', "user", k)
             ELSE out'[Chat!Handler(k)][1].role = "user" /\ out'[Chat!Handler(k)][1].of = k
  <2>1. CASE Chat!Handler(k) = w
    <3>1. m.role = "user" /\ m.of = k
      BY <1>1, <1>2, <1>9, <2>1 DEF TurnsAreStored
    <3> QED
      BY <1>5, <1>7, <2>1, <3>1
  <2>2. CASE Chat!Handler(k) # w
    <3>1. out'[Chat!Handler(k)] = out[Chat!Handler(k)]
      BY <1>7, <2>2, WritersApart
    <3> QED
      BY <1>1, <1>5, <1>9, <3>1 DEF TurnsAreStored
  <2> QED
    BY <2>1, <2>2
<1>10. ASSUME NEW x \in Chat!Writers, out'[x] # <<>>
       PROVE  /\ out'[x][1].role # "tool"
              /\ out'[x][1].role = "relay" /\ out'[x][1].of # 0 => Stored(store', "tool", out'[x][1].of)
  BY <1>5, <1>7, <1>10 DEF TurnsAreStored
<1>11. TurnsAreStored'
  BY <1>1, <1>5, <1>9, <1>10 DEF TurnsAreStored
<1> QED
  BY <1>1, <1>6, <1>8, <1>11, SlotsStay

\* Each step of the main chat keeps it; so do the steps of the others.
LEMMA ChatKept == ChatInv /\ [Chat!Next]_chatVars => ChatInv'
<1> SUFFICES ASSUME ChatInv, [Chat!Next]_chatVars PROVE ChatInv'
  OBVIOUS
<1>1. CASE \E k \in Chat!Sends : Chat!Reserve(k) \/ Chat!PersistFails(k) \/ Chat!Enqueue(k) \/ Chat!Reply(k)
  BY <1>1, ChatReserve, ChatPersistFails, ChatEnqueue, ChatReply
<1>2. CASE \E w \in Chat!Writers : Chat!Persist(w)
  BY <1>2, ChatPersists
<1>3. CASE Chat!Turn
  BY <1>3, ChatDequeue, ChatHandled, ChatReleases, ChatAnswers, ChatTurnDone, ChatFolds DEF Chat!Turn
<1>4. CASE Chat!Dispatch \/ Chat!ForeignTurn
  BY <1>4, ChatDispatch, ChatForeign
<1>5. CASE UNCHANGED chatVars
  <2>1. UNCHANGED <<store, out, post, pending, queue, worker, cur, routed, replies>>
    BY <1>5 DEF chatVars
  <2> QED
    BY <2>1, SlotsStay, OrderStays DEF ChatInv, ChatType, TurnsAreStored
<1> QED
  BY <1>1, <1>2, <1>3, <1>4, <1>5 DEF Chat!Next

\* A step of another part is a stutter of the main chat.
LEMMA ChatSteps == Next => [Chat!Next]_chatVars
BY DEF Next, ChatStep, LiveStep, TgStep, LarkStep, GuestStep, PostStep

\* ChatInOrder (mainchat.go): a message that is accepted has its slot until its turn, and
\* the file reads in the causal order: question, evidence, reply.
THEOREM MainChatInOrder == Spec => []ChatInOrder
<1>1. Init => ChatInv
  BY ChatStarts DEF Init
<1>2. ChatInv /\ [Next]_frontendVars => ChatInv'
  <2> SUFFICES ASSUME ChatInv, [Next]_frontendVars PROVE ChatInv'
    OBVIOUS
  <2>1. [Chat!Next]_chatVars
    BY ChatSteps DEF frontendVars
  <2> QED
    BY <2>1, ChatKept
<1>3. ChatInv => ChatInOrder
  BY DEF ChatInv, ChatInOrder
<1> QED
  BY <1>1, <1>2, <1>3, PTL DEF Spec


-----------------------------------------------------------------------------
(* ---------------- the history of the agent (MainChat) ---------------- *)
\* Message i of a file is among the folded ones, or an earlier one of these has a later time.
IsTold(file, done, i) == i \in done \/ \E j \in done : j < i /\ file[i].time <= file[j].time

\* What a summary covers: up to a folded message, and nothing that is not told.
CoversTold(file, done, m) ==
    /\ \E j \in done : file[j].time = m.covered
    /\ \A i \in 1..Len(file) : file[i].role # "summary" /\ file[i].time <= m.covered => IsTold(file, done, i)

\* The times are those of the clock.
HasTimes(m) == m.time \in Int /\ m.covered \in Int
TimesAreNumbers ==
    /\ now \in Int
    /\ \A i \in 1..Len(store) : HasTimes(store[i])
    /\ \A w \in Chat!Writers : out[w] # <<>> => HasTimes(out[w][1])

\* Every summary, stored or on its way to the file, covers only what is told.
SummariesTell ==
    /\ folded \subseteq 1..Len(store)
    /\ \A i \in 1..Len(store) : store[i].role = "summary" => CoversTold(store, folded, store[i])
    /\ \A w \in Chat!Writers : out[w] # <<>> /\ out[w][1].role = "summary" => CoversTold(store, folded, out[w][1])

FoldInv == ChatInv /\ TimesAreNumbers /\ SummariesTell

\* The greatest of a set of places is one of them.
LEMMA MaxIsThere == ASSUME NEW n \in Nat, NEW S, S \subseteq 1..n, S # {} PROVE Chat!Max(S) \in S
<1> DEFINE T == {n - i : i \in S}
           R == OpToRel(<, Nat)
<1>1. T \subseteq Nat /\ T # {}
  <2>1. \A i \in S : n - i \in Nat
    OBVIOUS
  <2>2. PICK i \in S : TRUE
    OBVIOUS
  <2>3. n - i \in T
    OBVIOUS
  <2> QED
    BY <2>1, <2>3
<1>2. IsWellFoundedOn(R, Nat)
  BY NatLessThanWellFounded
<1>3. \E x \in T : \A y \in T : ~(<<y, x>> \in R)
  <2> HIDE DEF T, R
  <2> QED
    BY <1>1, <1>2, WFMin
<1>4. PICK x \in T : \A y \in T : ~(<<y, x>> \in R)
  BY <1>3
<1>5. \A y \in T : ~(y < x)
  BY <1>1, <1>4 DEF OpToRel
<1>6. PICK i \in S : x = n - i
  BY <1>4
<1>7. \A j \in S : n - j \in T /\ j \in Int /\ i \in Int
  OBVIOUS
<1>8. \A j \in S : i >= j
  <2> HIDE DEF T, R
  <2> QED
    BY <1>5, <1>6, <1>7
<1> HIDE DEF T, R
<1> QED
  BY <1>8 DEF Chat!Max

\* The last summary of a file is a summary of it, or there is none.
LEMMA LastIsASummary ==
  ASSUME NEW file, IsSeq(file)
  PROVE  \/ Chat!lastSummary(file) = 0
         \/ Chat!lastSummary(file) \in 1..Len(file) /\ file[Chat!lastSummary(file)].role = "summary"
<1>1. Len(file) \in Nat /\ DOMAIN file = 1..Len(file)
  BY DEF IsSeq
<1>2. Chat!Summaries(file) \subseteq 1..Len(file) /\ \A i \in Chat!Summaries(file) : file[i].role = "summary"
  BY <1>1 DEF Chat!Summaries
<1>3. Chat!Summaries(file) # {} => Chat!Max(Chat!Summaries(file)) \in Chat!Summaries(file)
  BY <1>1, <1>2, MaxIsThere
<1> QED
  BY <1>2, <1>3 DEF Chat!lastSummary

\* The places of the view, and how many there are up to one of them.
Upto(view, si, i) == {j \in view : j = si \/ (i # si /\ j <= i)}

\* Places of a view are counted with the library's cardinality.
LEMMA PositionIs ==
  ASSUME NEW n \in Nat, NEW view, view \subseteq 1..n, NEW si, NEW i \in view
  PROVE  /\ Chat!Position(view, si, i) = Cardinality(Upto(view, si, i))
         /\ Chat!Cardinality(view) = Cardinality(view) /\ Cardinality(view) \in Nat
         /\ IsFiniteSet(view) /\ IsFiniteSet(Upto(view, si, i))
         /\ Cardinality(Upto(view, si, i)) \in Nat /\ Cardinality(Upto(view, si, i)) >= 1
         /\ i = si => Cardinality(Upto(view, si, i)) = 1
<1>1. Chat!Position(view, si, i) = Cardinality(Upto(view, si, i)) /\ Chat!Cardinality(view) = Cardinality(view)
  BY DEF Chat!Position, Upto, Chat!Cardinality, Cardinality
<1>2. IsFiniteSet(1..n)
  BY FS_Interval
<1>3. IsFiniteSet(view) /\ Cardinality(view) \in Nat
  BY <1>2, FS_Subset, FS_CardinalityType
<1>4. IsFiniteSet(Upto(view, si, i)) /\ Cardinality(Upto(view, si, i)) \in Nat
  BY <1>3, FS_Subset, FS_CardinalityType DEF Upto
<1>5. i \in Upto(view, si, i)
  BY DEF Upto
<1>6. Cardinality(Upto(view, si, i)) # 0
  BY <1>4, <1>5, FS_EmptySet
<1>7. ASSUME i = si PROVE Cardinality(Upto(view, si, i)) = 1
  <2>1. \A j \in view : (j = si \/ (i # si /\ j <= i)) <=> j = i
    BY <1>7
  <2>2. Upto(view, si, i) = {j \in view : j = i}
    BY <2>1, Zenon DEF Upto
  <2>3. {j \in view : j = i} = {i}
    OBVIOUS
  <2> QED
    BY <2>2, <2>3, FS_Singleton
<1> QED
  BY <1>1, <1>3, <1>4, <1>6, <1>7

\* Places are in order: one that is not behind another counts no more.
LEMMA PositionsOrdered ==
  ASSUME NEW n \in Nat, NEW view, view \subseteq 1..n, NEW si, NEW i \in view, NEW j \in view, i <= j, j # si
  PROVE  Cardinality(Upto(view, si, i)) <= Cardinality(Upto(view, si, j))
<1>1. \A k \in view : k \in Int /\ i \in Int /\ j \in Int /\ (k <= i => k <= j)
  OBVIOUS
<1>2. Upto(view, si, i) \subseteq Upto(view, si, j)
  BY <1>1 DEF Upto
<1>3. IsFiniteSet(Upto(view, si, j))
  BY PositionIs
<1> QED
  BY <1>2, <1>3, FS_Subset

\* Of a message that is no summary: it is in the view, or the last summary covers it.
LEMMA SeenOrCovered ==
  ASSUME NEW file, IsSeq(file), NEW i \in 1..Len(file), file[i].role # "summary"
  PROVE  \/ i \in Chat!sinceLastSummary(file)
         \/ \E s \in 1..Len(file) : file[s].role = "summary" /\ file[i].time <= file[s].covered
<1>1. DOMAIN file = 1..Len(file)
  BY DEF IsSeq
<1>2. CASE Chat!lastSummary(file) = 0
  BY <1>1, <1>2 DEF Chat!sinceLastSummary
<1>3. CASE Chat!lastSummary(file) \in 1..Len(file) /\ file[Chat!lastSummary(file)].role = "summary"
  BY <1>1, <1>3 DEF Chat!sinceLastSummary, Chat!coveredBy
<1> QED
  BY <1>2, <1>3, LastIsASummary

\* The view is of the file, and what is in it is the last summary or no summary at all.
LEMMA ViewIs ==
  ASSUME NEW file, IsSeq(file)
  PROVE  /\ Len(file) \in Nat /\ DOMAIN file = 1..Len(file)
         /\ Chat!sinceLastSummary(file) \subseteq 1..Len(file)
<1>1. Len(file) \in Nat /\ DOMAIN file = 1..Len(file)
  BY DEF IsSeq
<1> QED
  BY <1>1 DEF Chat!sinceLastSummary

\* While the view fits the cap the agent is given all of it, and the rest is told.
LEMMA HistoryHolds == FoldInv => HistoryStands
<1> SUFFICES ASSUME FoldInv, NEW i \in DOMAIN store, store[i].role # "summary",
                    ~(Chat!Cardinality(Chat!sinceLastSummary(store)) > HardCap)
             PROVE  \/ i \in Chat!deriveChatHistory(store)
                    \/ i \in folded
                    \/ \E j \in folded : j < i /\ store[i].time <= store[j].time
  BY DEF HistoryStands, Chat!HistoryStands
<1>1. IsSeq(store)
  BY DEF FoldInv, ChatInv, ChatType
<1> DEFINE view == Chat!sinceLastSummary(store)
           si == Chat!lastSummary(store)
<1>2. i \in 1..Len(store) /\ Len(store) \in Nat /\ view \subseteq 1..Len(store)
  BY <1>1, ViewIs
<1>3. CASE i \in view
  <2>1. /\ Chat!Position(view, si, i) = Cardinality(Upto(view, si, i))
        /\ Chat!Cardinality(view) = Cardinality(view) /\ Cardinality(view) \in Nat
        /\ Cardinality(Upto(view, si, i)) \in Nat /\ Cardinality(Upto(view, si, i)) >= 1
    <3> HIDE DEF view, si
    <3> QED
      BY <1>2, <1>3, PositionIs
  <2>2. ~(Chat!Cardinality(view) > HardCap)
    OBVIOUS
  <2>3. Chat!Position(view, si, i) > Chat!Cardinality(view) - HardCap
    <3> HIDE DEF view, si
    <3> QED
      BY <2>1, <2>2, FrontendsAssumption
  <2> QED
    BY <1>3, <2>3 DEF Chat!deriveChatHistory
<1>4. CASE i \notin view
  <2>1. PICK s \in 1..Len(store) : store[s].role = "summary" /\ store[i].time <= store[s].covered
    BY <1>1, <1>2, <1>4, SeenOrCovered
  <2>2. CoversTold(store, folded, store[s])
    BY <2>1 DEF FoldInv, SummariesTell
  <2> QED
    BY <1>2, <2>1, <2>2 DEF CoversTold, IsTold
<1> QED
  BY <1>3, <1>4

\* What a file tells it still tells when a message is appended and when more is folded.
LEMMA TellsOn ==
  ASSUME NEW file, IsSeq(file), NEW x, NEW done, done \subseteq 1..Len(file), NEW m,
         HasTimes(m), HasTimes(x), \A i \in 1..Len(file) : HasTimes(file[i]),
         CoversTold(file, done, m)
  PROVE  CoversTold(Append(file, x), done, m)
<1> DEFINE a == Append(file, x)
           n == Len(file)
<1>1. n \in Nat /\ Len(a) = n + 1 /\ a[n + 1] = x /\ \A i \in 1..n : a[i] = file[i]
  BY FileGrows
<1>2. PICK j \in done : file[j].time = m.covered
  BY DEF CoversTold
<1> HIDE DEF a, n
<1>3. j \in 1..n /\ a[j].time = m.covered /\ \A k \in done : a[k] = file[k]
  BY <1>1, <1>2 DEF n
<1>4. ASSUME NEW i \in 1..(n + 1), a[i].role # "summary", a[i].time <= m.covered
      PROVE  IsTold(a, done, i)
  <2>1. CASE i = n + 1
    BY <1>1, <1>3, <1>4, <2>1 DEF IsTold
  <2>2. CASE i \in 1..n
    <3>1. a[i] = file[i]
      BY <1>1, <2>2
    <3>2. IsTold(file, done, i)
      BY <1>4, <2>2, <3>1 DEF CoversTold, n
    <3> QED
      BY <1>3, <3>1, <3>2 DEF IsTold
  <2> QED
    BY <1>1, <2>1, <2>2
<1> QED
  BY <1>1, <1>3, <1>4 DEF CoversTold, a

\* More folded messages tell no less.
LEMMA TellsMore ==
  ASSUME NEW file, NEW done, NEW more, done \subseteq more, NEW m, CoversTold(file, done, m)
  PROVE  CoversTold(file, more, m)
BY DEF CoversTold, IsTold

\* A step that stores and folds nothing, and stamps no summary.
LEMMA HistoryKept ==
  ASSUME FoldInv, ChatInv', UNCHANGED <<store, folded>>, now' \in Int,
         \A w \in Chat!Writers : out'[w] # <<>> =>
            \/ out'[w] = out[w]
            \/ out'[w][1].role # "summary" /\ HasTimes(out'[w][1])
  PROVE  FoldInv'
<1>1. TimesAreNumbers'
  BY DEF FoldInv, TimesAreNumbers
<1>2. SummariesTell'
  BY DEF FoldInv, SummariesTell
<1> QED
  BY <1>1, <1>2 DEF FoldInv

\* A message that is no summary is stamped with the clock.
LEMMA HistoryStamped ==
  ASSUME FoldInv, ChatInv', UNCHANGED <<store, folded>>, NEW w \in Chat!Writers, NEW m,
         m.role # "summary", m.time = now + 1, m.covered = 0, Chat!Stamp(w, m)
  PROVE  FoldInv'
<1>1. out' = [out EXCEPT ![w] = <<m>>] /\ now' = now + 1 /\ <<m>>[1] = m
  BY DEF Chat!Stamp
<1>2. ChatType /\ now \in Int
  BY DEF FoldInv, ChatInv, TimesAreNumbers
<1>3. out'[w] = <<m>> /\ \A x \in Chat!Writers : x # w => out'[x] = out[x]
  BY <1>1, <1>2, OutIs
<1>4. HasTimes(m) /\ now' \in Int
  BY <1>1, <1>2 DEF HasTimes
<1> QED
  BY <1>1, <1>3, <1>4, HistoryKept

\* A step that appends a message straight to the file, no summary.
LEMMA HistoryAppends ==
  ASSUME FoldInv, ChatInv', UNCHANGED <<out, folded>>, NEW m, store' = Append(store, m),
         m.role # "summary", m.time = now + 1, m.covered = 0, now' = now + 1
  PROVE  FoldInv'
<1>1. IsSeq(store) /\ now \in Int /\ folded \subseteq 1..Len(store) /\ \A i \in 1..Len(store) : HasTimes(store[i])
  BY DEF FoldInv, ChatInv, ChatType, TimesAreNumbers, SummariesTell
<1>2. HasTimes(m) /\ now' \in Int
  BY <1>1 DEF HasTimes
<1>3. /\ Len(store) \in Nat /\ Len(store') = Len(store) + 1 /\ store'[Len(store) + 1] = m
      /\ \A i \in 1..Len(store) : store'[i] = store[i]
  BY <1>1, FileGrows
<1>4. TimesAreNumbers'
  <2>1. \A i \in 1..Len(store') : HasTimes(store'[i])
    <3> SUFFICES ASSUME NEW i \in 1..(Len(store) + 1) PROVE HasTimes(store'[i])
      BY <1>3
    <3>1. i \in 1..Len(store) \/ i = Len(store) + 1
      BY <1>3
    <3> QED
      BY <1>1, <1>2, <1>3, <3>1
  <2>2. \A w \in Chat!Writers : out'[w] # <<>> => HasTimes(out'[w][1])
    BY DEF FoldInv, TimesAreNumbers
  <2> QED
    BY <1>2, <2>1, <2>2 DEF TimesAreNumbers
<1>5. \A s : HasTimes(s) /\ CoversTold(store, folded, s) => CoversTold(store', folded', s)
  BY <1>1, <1>2, TellsOn
<1>6. ASSUME NEW i \in 1..(Len(store) + 1), store'[i].role = "summary"
      PROVE  CoversTold(store', folded', store'[i])
  <2>1. i \in 1..Len(store) /\ store'[i] = store[i]
    BY <1>3, <1>6
  <2>2. CoversTold(store, folded, store[i]) /\ HasTimes(store[i])
    BY <1>1, <1>6, <2>1 DEF FoldInv, SummariesTell
  <2> QED
    BY <1>5, <2>1, <2>2
<1>7. \A w \in Chat!Writers : out'[w] # <<>> /\ out'[w][1].role = "summary" => CoversTold(store', folded', out'[w][1])
  BY <1>5 DEF FoldInv, SummariesTell, TimesAreNumbers
<1>8. folded' \subseteq 1..Len(store')
  BY <1>1, <1>3
<1>9. SummariesTell'
  BY <1>3, <1>6, <1>7, <1>8 DEF SummariesTell
<1> QED
  BY <1>4, <1>9 DEF FoldInv

\* What a goroutine had stamped is stored; what it says of the folded messages stands.
LEMMA HistoryPersists == ASSUME FoldInv, ChatInv', NEW w \in Chat!Writers, Chat!Persist(w) PROVE FoldInv'
<1>1. /\ out[w] # <<>> /\ store' = store \o out[w] /\ out' = [out EXCEPT ![w] = <<>>]
      /\ UNCHANGED <<now, folded>>
  BY DEF Chat!Persist, Chat!Idle, Chat!Rest
<1>2. PICK m : m = out[w][1]
  OBVIOUS
<1>3. out[w] = <<m>> /\ IsSeq(store) /\ ChatType
  BY <1>1, <1>2 DEF FoldInv, ChatInv, ChatType
<1>4. store' = Append(store, m)
  <2>1. store \o <<m>> = Append(store, m)
    BY <1>3, FileGrows
  <2> QED
    BY <1>1, <1>3, <2>1
<1>5. /\ Len(store) \in Nat /\ Len(store') = Len(store) + 1 /\ store'[Len(store) + 1] = m
      /\ \A i \in 1..Len(store) : store'[i] = store[i]
  BY <1>3, <1>4, FileGrows
<1>6. out'[w] = <<>> /\ \A x \in Chat!Writers : x # w => out'[x] = out[x]
  BY <1>1, <1>3, OutIs
<1>7. HasTimes(m) /\ \A i \in 1..Len(store) : HasTimes(store[i])
  BY <1>1, <1>2 DEF FoldInv, TimesAreNumbers
<1>8. folded \subseteq 1..Len(store)
  BY DEF FoldInv, SummariesTell
<1>9. \A s : HasTimes(s) /\ CoversTold(store, folded, s) => CoversTold(store', folded', s)
  BY <1>1, <1>3, <1>4, <1>7, <1>8, TellsOn
<1>10. TimesAreNumbers'
  <2>1. \A i \in 1..Len(store') : HasTimes(store'[i])
    <3> SUFFICES ASSUME NEW i \in 1..(Len(store) + 1) PROVE HasTimes(store'[i])
      BY <1>5
    <3>1. i \in 1..Len(store) \/ i = Len(store) + 1
      BY <1>5
    <3> QED
      BY <1>5, <1>7, <3>1
  <2>2. \A x \in Chat!Writers : out'[x] # <<>> => HasTimes(out'[x][1])
    BY <1>6 DEF FoldInv, TimesAreNumbers
  <2>3. now' \in Int
    BY <1>1 DEF FoldInv, TimesAreNumbers
  <2> QED
    BY <2>1, <2>2, <2>3 DEF TimesAreNumbers
<1>11. ASSUME NEW i \in 1..(Len(store) + 1), store'[i].role = "summary"
       PROVE  CoversTold(store', folded', store'[i])
  <2>1. CASE i = Len(store) + 1
    <3>1. store'[i] = m /\ CoversTold(store, folded, m)
      BY <1>1, <1>2, <1>5, <1>11, <2>1 DEF FoldInv, SummariesTell
    <3> QED
      BY <1>7, <1>9, <3>1
  <2>2. CASE i # Len(store) + 1
    <3>1. i \in 1..Len(store) /\ store'[i] = store[i]
      BY <1>5, <2>2
    <3>2. CoversTold(store, folded, store[i]) /\ HasTimes(store[i])
      BY <1>7, <1>11, <3>1 DEF FoldInv, SummariesTell
    <3> QED
      BY <1>9, <3>1, <3>2
  <2> QED
    BY <2>1, <2>2
<1>12. \A x \in Chat!Writers : out'[x] # <<>> /\ out'[x][1].role = "summary" => CoversTold(store', folded', out'[x][1])
  BY <1>6, <1>9 DEF FoldInv, SummariesTell, TimesAreNumbers
<1>13. folded' \subseteq 1..Len(store')
  BY <1>1, <1>5, <1>8
<1>14. SummariesTell'
  BY <1>5, <1>11, <1>12, <1>13 DEF SummariesTell
<1> QED
  BY <1>10, <1>14 DEF FoldInv

\* What is folded is told: a message not behind the fold point is folded with it, or an
\* earlier summary covers it.
LEMMA FoldTells ==
  ASSUME FoldInv,
         NEW cut \in Int, cut >= 2,
         NEW last \in Chat!sinceLastSummary(store),
         Chat!Position(Chat!sinceLastSummary(store), Chat!lastSummary(store), last) = cut,
         NEW more, more = folded \cup {i \in Chat!sinceLastSummary(store) :
             Chat!Position(Chat!sinceLastSummary(store), Chat!lastSummary(store), i) <= cut},
         NEW m, m.covered = store[last].time
  PROVE  CoversTold(store, more, m) /\ more \subseteq 1..Len(store) /\ last \in 1..Len(store)
<1> DEFINE view == Chat!sinceLastSummary(store)
           si == Chat!lastSummary(store)
<1>1. IsSeq(store) /\ Len(store) \in Nat /\ view \subseteq 1..Len(store) /\ folded \subseteq 1..Len(store)
  BY ViewIs DEF FoldInv, ChatInv, ChatType, SummariesTell
<1>2. ASSUME NEW i \in 1..Len(store), store[i].role # "summary", store[i].time <= m.covered, i \notin view
      PROVE  IsTold(store, more, i)
  <2>1. PICK s \in 1..Len(store) : store[s].role = "summary" /\ store[i].time <= store[s].covered
    BY <1>1, <1>2, SeenOrCovered
  <2>2. IsTold(store, folded, i)
    BY <1>2, <2>1 DEF FoldInv, SummariesTell, CoversTold
  <2> QED
    BY <2>2 DEF IsTold
<1>3. last \in view /\ Chat!Position(view, si, last) = cut
  OBVIOUS
<1>4. more = folded \cup {i \in view : Chat!Position(view, si, i) <= cut}
  OBVIOUS
<1> HIDE DEF view, si
<1>5. last # si /\ Chat!Position(view, si, last) = Cardinality(Upto(view, si, last))
  <2>1. /\ Chat!Position(view, si, last) = Cardinality(Upto(view, si, last))
        /\ last = si => Cardinality(Upto(view, si, last)) = 1
    BY <1>1, <1>3, PositionIs
  <2> QED
    BY <1>3, <2>1
<1>6. last \in more /\ last \in 1..Len(store)
  BY <1>1, <1>3, <1>4
<1>7. ASSUME NEW i \in view, i <= last PROVE i \in more
  <2>1. Chat!Position(view, si, i) = Cardinality(Upto(view, si, i)) /\ Cardinality(Upto(view, si, i)) \in Nat
    BY <1>1, PositionIs
  <2>2. Cardinality(Upto(view, si, i)) <= Cardinality(Upto(view, si, last))
    BY <1>1, <1>3, <1>5, <1>7, PositionsOrdered
  <2>3. Chat!Position(view, si, i) <= cut
    BY <1>3, <1>5, <2>1, <2>2
  <2> QED
    BY <1>4, <2>3
<1>8. ASSUME NEW i \in 1..Len(store), store[i].role # "summary", store[i].time <= m.covered
      PROVE  IsTold(store, more, i)
  <2>1. CASE i \notin view
    BY <1>2, <1>8, <2>1
  <2>2. CASE i \in view /\ i <= last
    BY <1>7, <2>2 DEF IsTold
  <2>3. CASE ~(i <= last)
    <3>1. last < i
      BY <1>1, <1>6, <2>3
    <3> QED
      BY <1>6, <1>8, <3>1 DEF IsTold
  <2> QED
    BY <2>1, <2>2, <2>3
<1>9. more \subseteq 1..Len(store)
  BY <1>1, <1>4
<1> QED
  BY <1>6, <1>8, <1>9 DEF CoversTold

\* The worker folds all but a tail into a summary, or the summary fails.
LEMMA HistoryFolds == ASSUME FoldInv, ChatInv', NEW ok \in BOOLEAN, Chat!Fold(ok) PROVE FoldInv'
<1>1. UNCHANGED store
  BY DEF Chat!Fold
<1>2. CASE UNCHANGED <<out, now, folded>>
  BY <1>1, <1>2, HistoryKept DEF FoldInv, TimesAreNumbers
<1>3. CASE ~UNCHANGED <<out, now, folded>>
  <2> DEFINE view == Chat!sinceLastSummary(store)
             si == Chat!lastSummary(store)
             cut == Chat!Cardinality(view) - Keep
             Summary(last) == Chat!Message("summary", 0, Chat!NoFocus, Chat!NoFocus, store[last].time)
             more == folded \cup {i \in view : Chat!Position(view, si, i) <= cut}
  <2>1. /\ cut >= 2
        /\ \E last \in view : /\ Chat!Position(view, si, last) = cut
                              /\ Chat!Stamp(Chat!Worker, Summary(last)) /\ folded' = more
    BY <1>3 DEF Chat!Fold, Chat!NoPost
  <2>2. PICK last \in view : /\ Chat!Position(view, si, last) = cut
                             /\ Chat!Stamp(Chat!Worker, Summary(last)) /\ folded' = more
    BY <2>1
  <2>3. PICK m : m = Summary(last)
    OBVIOUS
  <2>4. m.role = "summary" /\ m.time = now + 1 /\ m.covered = store[last].time /\ Chat!Stamp(Chat!Worker, m)
    BY <2>2, <2>3 DEF Chat!Message
  <2>5. cut \in Int
    <3>1. view \subseteq 1..Len(store) /\ Len(store) \in Nat
      BY ViewIs DEF FoldInv, ChatInv, ChatType
    <3>2. last \in view /\ Chat!Position(view, si, last) = cut
      BY <2>2
    <3>3. Chat!Position(view, si, last) \in Nat
      <4> HIDE DEF view, si, cut, more, Summary
      <4>1. /\ Chat!Position(view, si, last) = Cardinality(Upto(view, si, last))
            /\ Cardinality(Upto(view, si, last)) \in Nat
        BY ONLY <3>1, <3>2, PositionIs
      <4> QED
        BY <4>1
    <3> QED
      BY <3>2, <3>3
  <2>6. CoversTold(store, folded', m) /\ folded' \subseteq 1..Len(store) /\ last \in 1..Len(store)
    <3>1. PICK c : c = cut
      OBVIOUS
    <3>2. folded' = folded \cup {i \in Chat!sinceLastSummary(store) :
             Chat!Position(Chat!sinceLastSummary(store), Chat!lastSummary(store), i) <= c}
      BY <2>2, <3>1
    <3>3. /\ c \in Int /\ c >= 2 /\ last \in Chat!sinceLastSummary(store)
          /\ Chat!Position(Chat!sinceLastSummary(store), Chat!lastSummary(store), last) = c
      BY <2>1, <2>2, <2>5, <3>1
    <3> HIDE DEF view, si, cut, more, Summary
    <3> QED
      BY <2>4, <3>2, <3>3, FoldTells
  <2>7. folded \subseteq folded'
    BY <2>2
  <2> HIDE DEF view, si, cut, more, Summary
  <2>8. now' = now + 1 /\ out' = [out EXCEPT ![Chat!Worker] = <<m>>] /\ <<m>>[1] = m /\ Chat!Worker \in Chat!Writers
    BY <2>4, WritersApart DEF Chat!Stamp
  <2>9. out'[Chat!Worker] = <<m>> /\ \A x \in Chat!Writers : x # Chat!Worker => out'[x] = out[x]
    BY <2>8, OutIs DEF FoldInv, ChatInv
  <2>10. HasTimes(m) /\ now' \in Int
    BY <2>4, <2>6, <2>8 DEF FoldInv, TimesAreNumbers, HasTimes
  <2>11. TimesAreNumbers'
    BY <1>1, <2>8, <2>9, <2>10 DEF FoldInv, TimesAreNumbers
  <2>12. \A s : CoversTold(store, folded, s) => CoversTold(store', folded', s)
    BY <1>1, <2>7, TellsMore
  <2>13. \A i \in 1..Len(store) : store[i].role = "summary" => CoversTold(store', folded', store[i])
    BY <2>12 DEF FoldInv, SummariesTell
  <2>14. ASSUME NEW w \in Chat!Writers, out'[w] # <<>>, out'[w][1].role = "summary"
         PROVE  CoversTold(store', folded', out'[w][1])
    <3>1. CASE w = Chat!Worker
      BY <1>1, <2>6, <2>8, <2>9, <3>1
    <3>2. CASE w # Chat!Worker
      BY <2>9, <2>12, <2>14, <3>2 DEF FoldInv, SummariesTell
    <3> QED
      BY <3>1, <3>2
  <2>15. SummariesTell'
    BY <1>1, <2>6, <2>13, <2>14 DEF SummariesTell
  <2> QED
    BY <2>11, <2>15 DEF FoldInv
<1> QED
  BY <1>2, <1>3

\* The posts and the replies stamp messages that are no summaries.
LEMMA HistoryOfPosts ==
  ASSUME FoldInv, ChatInv', NEW k \in Chat!Sends,
         Chat!Reserve(k) \/ Chat!PersistFails(k) \/ Chat!Enqueue(k) \/ Chat!Reply(k)
  PROVE  FoldInv'
<1>1. UNCHANGED <<store, folded>> /\ now \in Int
  BY DEF Chat!Reserve, Chat!PersistFails, Chat!Enqueue, Chat!Reply, FoldInv, TimesAreNumbers
<1>2. CASE UNCHANGED <<out, now>>
  BY <1>1, <1>2, HistoryKept
<1>3. CASE Chat!PersistFails(k)
  <2>1. UNCHANGED now /\ out' = [out EXCEPT ![Chat!Handler(k)] = <<>>]
    BY <1>3 DEF Chat!PersistFails, Chat!Rest
  <2>2. out'[Chat!Handler(k)] = <<>> /\ \A x \in Chat!Writers : x # Chat!Handler(k) => out'[x] = out[x]
    BY <2>1, WritersApart, OutIs DEF FoldInv, ChatInv
  <2> QED
    BY <1>1, <2>1, <2>2, HistoryKept
<1>4. CASE Chat!Stamp(Chat!Handler(k), Chat!Message("user", k, Chat!NoFocus, Chat!NoFocus, 0))
  <2>1. PICK m : m = Chat!Message("user", k, Chat!NoFocus, Chat!NoFocus, 0)
    OBVIOUS
  <2>2. m.role = "user" /\ m.time = now + 1 /\ m.covered = 0 /\ Chat!Stamp(Chat!Handler(k), m)
    BY <1>4, <2>1 DEF Chat!Message
  <2> QED
    BY <1>1, <2>2, WritersApart, HistoryStamped
<1>5. CASE Chat!Stamp(Chat!Relayer(k), Chat!ReplyMessage(k))
  <2>1. PICK m : m = Chat!ReplyMessage(k)
    OBVIOUS
  <2>2. m.role = "relay" /\ m.time = now + 1 /\ m.covered = 0 /\ Chat!Stamp(Chat!Relayer(k), m)
    BY <1>5, <2>1 DEF Chat!ReplyMessage, Chat!Message
  <2> QED
    BY <1>1, <2>2, WritersApart, HistoryStamped
<1>6. UNCHANGED <<out, now>> \/ Chat!PersistFails(k)
        \/ Chat!Stamp(Chat!Handler(k), Chat!Message("user", k, Chat!NoFocus, Chat!NoFocus, 0))
        \/ Chat!Stamp(Chat!Relayer(k), Chat!ReplyMessage(k))
  BY DEF Chat!Reserve, Chat!Enqueue, Chat!Reply
<1> QED
  BY <1>2, <1>3, <1>4, <1>5, <1>6

\* So does the turn of the worker, but for the summary.
LEMMA HistoryOfTurns == ASSUME FoldInv, ChatInv', Chat!Turn \/ Chat!Dispatch \/ Chat!ForeignTurn PROVE FoldInv'
<1>1. now \in Int /\ Chat!Worker \in Chat!Writers
  BY WritersApart DEF FoldInv, TimesAreNumbers
<1>2. CASE UNCHANGED <<store, out, now, folded>>
  BY <1>1, <1>2, HistoryKept
<1>3. ASSUME NEW m, m.role # "summary", m.time = now + 1, m.covered = 0,
             UNCHANGED folded,
             \/ Chat!Stamp(Chat!Worker, m) /\ UNCHANGED store
             \/ store' = Append(store, m) /\ now' = now + 1 /\ UNCHANGED out
      PROVE  FoldInv'
  BY <1>1, <1>3, HistoryStamped, HistoryAppends
<1>4. CASE Chat!Handled
  <2>1. PICK m : m = Chat!Message("tool", cur, Chat!NoFocus, Chat!NoFocus, 0)
    OBVIOUS
  <2>2. m.role = "tool" /\ m.time = now + 1 /\ m.covered = 0
    BY <2>1 DEF Chat!Message
  <2> QED
    BY <1>2, <1>3, <1>4, <2>1, <2>2 DEF Chat!Handled
<1>5. CASE Chat!ReleaseRelays
  <2>1. PICK m : m = Chat!ReplyMessage(cur)
    OBVIOUS
  <2>2. m.role = "relay" /\ m.time = now + 1 /\ m.covered = 0
    BY <2>1 DEF Chat!ReplyMessage, Chat!Message
  <2> QED
    BY <1>2, <1>3, <1>5, <2>1, <2>2 DEF Chat!ReleaseRelays
<1>6. ASSUME NEW says \in BOOLEAN, Chat!Answer(says) PROVE FoldInv'
  <2>1. PICK m : m = Chat!Message("agent", cur, Chat!newFocus, Chat!NoFocus, 0)
    OBVIOUS
  <2>2. m.role = "agent" /\ m.time = now + 1 /\ m.covered = 0
    BY <2>1 DEF Chat!Message
  <2> QED
    BY <1>2, <1>3, <1>6, <2>1, <2>2 DEF Chat!Answer
<1>7. CASE Chat!ForeignTurn
  <2>1. PICK m : m = Chat!Message("relay", 0, Chat!NoFocus, Chat!Session, 0)
    OBVIOUS
  <2>2. m.role = "relay" /\ m.time = now + 1 /\ m.covered = 0
    BY <2>1 DEF Chat!Message
  <2> QED
    BY <1>3, <1>7, <2>1, <2>2 DEF Chat!ForeignTurn, Chat!NoPost
<1>8. CASE Chat!Dequeue \/ Chat!TurnDone \/ Chat!Dispatch
  BY <1>2, <1>8 DEF Chat!Dequeue, Chat!TurnDone, Chat!Dispatch
<1> QED
  BY <1>4, <1>5, <1>6, <1>7, <1>8, HistoryFolds DEF Chat!Turn

\* The steps of the main chat keep what is told, and so do the steps of the others.
LEMMA FoldKept == ASSUME FoldInv, [Chat!Next]_chatVars PROVE FoldInv'
<1>1. ChatInv'
  BY ChatKept DEF FoldInv
<1>2. CASE \E k \in Chat!Sends : Chat!Reserve(k) \/ Chat!PersistFails(k) \/ Chat!Enqueue(k) \/ Chat!Reply(k)
  BY <1>1, <1>2, HistoryOfPosts
<1>3. CASE \E w \in Chat!Writers : Chat!Persist(w)
  BY <1>1, <1>3, HistoryPersists
<1>4. CASE Chat!Turn \/ Chat!Dispatch \/ Chat!ForeignTurn
  BY <1>1, <1>4, HistoryOfTurns
<1>5. CASE UNCHANGED chatVars
  BY <1>1, <1>5, HistoryKept DEF chatVars, FoldInv, TimesAreNumbers
<1> QED
  BY <1>2, <1>3, <1>4, <1>5 DEF Chat!Next

\* HistoryStands (mainchat.go, deriveChatHistory and maybeCompactChat): while the view fits
\* the cap, a message the agent is no longer given is in the summary or was stored behind a
\* folded message with a later time, for any budget, cap and tail.
THEOREM MainChatIsRemembered == Spec => []HistoryStands
<1>1. Init => FoldInv
  <2> SUFFICES ASSUME Init PROVE FoldInv
    OBVIOUS
  <2>1. ChatInv
    BY ChatStarts DEF Init
  <2>2. store = <<>> /\ now = 0 /\ folded = {} /\ \A w \in Chat!Writers : out[w] = <<>>
    BY DEF Init, Chat!Init, Chat!Rest
  <2> QED
    BY <2>1, <2>2 DEF FoldInv, TimesAreNumbers, SummariesTell
<1>2. FoldInv /\ [Next]_frontendVars => FoldInv'
  <2> SUFFICES ASSUME FoldInv, [Next]_frontendVars PROVE FoldInv'
    OBVIOUS
  <2>1. [Chat!Next]_chatVars
    BY ChatSteps DEF frontendVars
  <2> QED
    BY <2>1, FoldKept
<1>3. FoldInv => HistoryStands
  BY HistoryHolds
<1> QED
  BY <1>1, <1>2, <1>3, PTL DEF Spec
=============================================================================
