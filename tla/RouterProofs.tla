---------------------------- MODULE RouterProofs ----------------------------
(***************************************************************************)
(* Proofs about Router, and about Relay on top of it, for any sends,       *)
(* sessions, stops, relayed sends, queue bound and channel capacity.       *)
(* RouterInv is inductive; the properties of Router.tla follow from it,    *)
(* and with it every step of the router is a step of SendLane.  RelayInv   *)
(* is inductive on top of RouterInv, and what a relay posts as its reply   *)
(* is the turn's own.                                                      *)
(***************************************************************************)
EXTENDS Relay, TLAPS

USE SendsAssumption

-----------------------------------------------------------------------------
(* Sequences as the queue uses them.                                       *)

\* Appending keeps the elements and puts the new one last.
LEMMA AppendFacts ==
    ASSUME NEW q \in Seq(Sends), NEW t \in Sends
    PROVE  /\ Append(q, t) \in Seq(Sends)
           /\ Len(Append(q, t)) = Len(q) + 1
           /\ \A i \in 1..Len(q) : Append(q, t)[i] = q[i]
           /\ Append(q, t)[Len(q) + 1] = t
OBVIOUS

\* Taking the head off shifts the others forward by one.
LEMMA TailFacts ==
    ASSUME NEW q \in Seq(Sends), q # <<>>
    PROVE  /\ Head(q) = q[1]
           /\ Head(q) \in Sends
           /\ 1 \in 1..Len(q)
           /\ Tail(q) \in Seq(Sends)
           /\ Len(Tail(q)) = Len(q) - 1
           /\ \A i \in 1..Len(Tail(q)) : Tail(q)[i] = q[i + 1] /\ i + 1 \in 1..Len(q)
           /\ \A i \in 1..Len(q) : i # 1 => i - 1 \in 1..Len(Tail(q)) /\ Tail(q)[i - 1] = q[i]
OBVIOUS

LEMMA EmptyFacts ==
    /\ <<>> \in Seq(Sends)
    /\ Len(<<>>) = 0
    /\ \A q \in Seq(Sends) : q # <<>> <=> Len(q) # 0
OBVIOUS

-----------------------------------------------------------------------------
\* Every variable keeps its type.
LEMMA TypeStep == TypeOK /\ [Next]_vars => TypeOK'
<1> SUFFICES ASSUME TypeOK, [Next]_vars PROVE TypeOK'
  OBVIOUS
<1> USE DEF TypeOK, PCs, Unreleased, Owning, Over, At, Go
<1>1. CASE UNCHANGED vars
  BY <1>1 DEF vars
<1>2. ASSUME NEW t \in Sends, Check(t) \/ Advance(t) PROVE TypeOK'
  <2>0. SessionOf[t] \in Sessions
    OBVIOUS
  <2>1. CASE Check(t)
    BY <2>1 DEF Check
  <2>2. CASE Claim(t)
    BY <2>2, <2>0 DEF Claim, Stamp
  <2>3. CASE Queue(t)
    <3> DEFINE s == SessionOf[t]
    <3>1. Append(queue[s], t) \in Seq(Sends)
      BY <2>0, AppendFacts
    <3> QED
      BY <2>3, <2>0, <3>1 DEF Queue, Stamp
  <2>4. CASE QueueFull(t) \/ Start(t) \/ SendOk(t) \/ PublishFailure(t)
    BY <2>4 DEF QueueFull, Start, SendOk, PublishFailure
  <2>5. CASE SendFail(t) \/ Idle(t)
    BY <2>5, <2>0 DEF SendFail, Idle, MarkSendIdle
  <2>6. CASE PublishExit(t) \/ StreamClosed(t) \/ PromotedFound(t) \/ PromotedVanished(t)
    BY <2>6 DEF PublishExit, StreamClosed, PromotedFound, PromotedVanished
  <2>7. CASE ReleaseAndPromote(t)
    <3> DEFINE s == SessionOf[t]
    <3>1. queue[s] # <<>> /\ queue[s] \in Seq(Sends)
      BY <2>7, <2>0 DEF ReleaseAndPromote, Promotes
    <3>2. Head(queue[s]) \in Sends /\ Tail(queue[s]) \in Seq(Sends)
      BY <3>1, TailFacts
    <3> QED
      BY <2>7, <2>0, <3>2 DEF ReleaseAndPromote
  <2>8. CASE ReleaseOnly(t)
    BY <2>8, <2>0 DEF ReleaseOnly, Freed
  <2> QED
    BY <1>2, <2>1, <2>2, <2>3, <2>4, <2>5, <2>6, <2>7, <2>8 DEF Advance
<1>3. ASSUME NEW o \in Ops,
             \/ Operate(o)
             \/ \E s \in Sessions : CancelSend(o, s) \/ \E k \in OpKinds : StopLive(o, s, k)
      PROVE TypeOK'
  <2>0. op[o] \in OpType
    OBVIOUS
  <2>1. CASE FlushSendQueue(o)
    <3>1. op'[o] \in OpType /\ op' = [op EXCEPT ![o] = op'[o]]
      BY <2>1, <2>0 DEF FlushSendQueue, Becomes, OpType
    <3>2. op'[o].session \in Sessions
      BY <2>1, <2>0 DEF FlushSendQueue, Becomes, OpType
    <3>3. queue' \in [Sessions -> Seq(Sends)]
      BY <2>1, EmptyFacts DEF FlushSendQueue
    <3>4. pc' \in [Sends -> PCs]
      BY <2>1 DEF FlushSendQueue
    <3> QED
      BY <2>1, <3>1, <3>2, <3>3, <3>4 DEF FlushSendQueue
  <2>2. CASE ReadToken(o) \/ CancelToken(o) \/ RemoveSession(o)
    <3>1. op[o].session \in Sessions
      BY <2>2 DEF ReadToken, CancelToken, RemoveSession
    <3>2. op'[o] \in OpType /\ op' = [op EXCEPT ![o] = op'[o]] /\ op'[o].session \in Sessions
      <4>1. CASE ReadToken(o)
        BY <4>1, <2>0, <3>1 DEF ReadToken, Becomes, OpType
      <4>2. CASE CancelToken(o)
        BY <4>2, <2>0, <3>1 DEF CancelToken, Becomes, OpType
      <4>3. CASE RemoveSession(o)
        BY <4>3, <2>0, <3>1 DEF RemoveSession, Becomes, OpType
      <4> QED
        BY <2>2, <4>1, <4>2, <4>3
    <3>3. op[o].tok \in Sends \cup {None}
      BY <2>0 DEF OpType
    <3> QED
      BY <2>2, <3>2, <3>3 DEF ReadToken, CancelToken, RemoveSession
  <2>3. ASSUME NEW s \in Sessions, CancelSend(o, s) PROVE TypeOK'
    <3>1. op'[o] \in OpType /\ op' = [op EXCEPT ![o] = op'[o]] /\ op'[o].session \in Sessions
      BY <2>3 DEF CancelSend, Becomes, OpType, OpKinds, Accepted
    <3> QED
      BY <2>3, <3>1 DEF CancelSend
  <2>4. ASSUME NEW s \in Sessions, NEW k \in OpKinds, StopLive(o, s, k) PROVE TypeOK'
    <3>1. op'[o] \in OpType /\ op' = [op EXCEPT ![o] = op'[o]] /\ op'[o].session \in Sessions
      BY <2>4 DEF StopLive, Becomes, OpType, OpKinds, Accepted
    <3> QED
      BY <2>4, <3>1 DEF StopLive
  <2> QED
    BY <1>3, <2>1, <2>2, <2>3, <2>4 DEF Operate
<1>4. ASSUME NEW s \in Sessions, Appear(s) \/ Vanish(s) PROVE TypeOK'
  BY <1>4 DEF Appear, Vanish
<1> QED
  BY <1>1, <1>2, <1>3, <1>4 DEF Next

-----------------------------------------------------------------------------
(* The steps of the router as the lanes see them.                          *)

LaneTypes ==
    /\ active \in [Sessions -> Sends \cup {None}]
    /\ queue \in [Sessions -> Seq(Sends)]
    /\ pc \in [Sends -> PCs]

\* A send moves on by itself: nothing but its own place changes.
Moves == {<<"new", "locking">>, <<"new", "rejected">>, <<"locking", "rejected">>,
          <<"promoted", "claimed">>, <<"promoted", "releasing">>,
          <<"claimed", "sending">>, <<"sending", "streaming">>,
          <<"streaming", "exited">>, <<"streaming", "releasing">>,
          <<"draining", "releasing">>, <<"failing", "releasing">>}

Move(t) ==
    /\ <<pc[t], pc'[t]>> \in Moves
    /\ pc' = [pc EXCEPT ![t] = pc'[t]]
    /\ UNCHANGED <<active, queue, ticket, tickets>>

\* A turn is over and clears activeSend, promoting nobody.
Clear(t) ==
    /\ \/ pc[t] = "sending" /\ pc'[t] = "failing"
       \/ pc[t] = "exited" /\ pc'[t] = "draining"
    /\ pc' = [pc EXCEPT ![t] = pc'[t]]
    /\ MarkSendIdle(t)
    /\ UNCHANGED <<queue, ticket, tickets>>

SendStep(t) ==
    \/ Move(t) \/ Claim(t) \/ Queue(t) \/ Clear(t)
    \/ ReleaseOnly(t) \/ ReleaseAndPromote(t)

\* Every step of a send is one of six.
LEMMA SendStepCases ==
    ASSUME LaneTypes, NEW t \in Sends, Check(t) \/ Advance(t)
    PROVE  SendStep(t)
<1> USE DEF LaneTypes, SendStep, Move, Moves, At, Go
<1>1. CASE Check(t)
  <2>1. pc[t] = "new" /\ pc'[t] \in {"locking", "rejected"}
    BY <1>1 DEF Check
  <2>2. pc' = [pc EXCEPT ![t] = pc'[t]]
    BY <1>1 DEF Check
  <2> QED
    BY <1>1, <2>1, <2>2 DEF Check
<1>2. CASE QueueFull(t)
  BY <1>2 DEF QueueFull
<1>3. CASE Start(t)
  BY <1>3 DEF Start
<1>4. CASE SendOk(t)
  BY <1>4 DEF SendOk
<1>5. CASE PublishFailure(t)
  BY <1>5 DEF PublishFailure
<1>6. CASE PublishExit(t)
  BY <1>6 DEF PublishExit
<1>7. CASE StreamClosed(t)
  BY <1>7 DEF StreamClosed
<1>8. CASE PromotedFound(t)
  BY <1>8 DEF PromotedFound
<1>9. CASE PromotedVanished(t)
  BY <1>9 DEF PromotedVanished
<1>10. CASE SendFail(t)
  BY <1>10 DEF SendFail, Clear
<1>11. CASE Idle(t)
  BY <1>11 DEF Idle, Clear
<1>12. CASE Claim(t) \/ Queue(t) \/ ReleaseOnly(t) \/ ReleaseAndPromote(t)
  BY <1>12 DEF SendStep
<1> QED
  BY <1>1, <1>2, <1>3, <1>4, <1>5, <1>6, <1>7, <1>8, <1>9, <1>10, <1>11, <1>12
     DEF Advance

\* A flush of the queue of s, as the lanes see it: the queued sends of s, and
\* only they, are dropped.
Flush(s) ==
    /\ queue' = [queue EXCEPT ![s] = <<>>]
    /\ pc' = [t \in Sends |->
                IF pc[t] = "queued" /\ SessionOf[t] = s THEN "dropped" ELSE pc[t]]
    /\ UNCHANGED <<active, ticket, tickets>>

LEMMA FlushCase ==
    ASSUME LaneTypes, QueueExact, NEW o \in Ops, op[o].session \in Sessions,
           FlushSendQueue(o)
    PROVE  Flush(op[o].session)
<1> DEFINE s == op[o].session
<1>1. \A t \in Sends : (\E i \in DOMAIN queue[s] : queue[s][i] = t)
                          <=> (pc[t] = "queued" /\ SessionOf[t] = s)
  BY DEF LaneTypes, QueueExact
<1> QED
  BY <1>1 DEF FlushSendQueue, Flush

\* Every step of the router moves one send, flushes one queue or leaves the
\* lanes alone.
LEMMA StepCases ==
    ASSUME TypeOK, QueueExact, [Next]_vars
    PROVE  \/ \E t \in Sends : SendStep(t)
           \/ \E s \in Sessions : Flush(s)
           \/ UNCHANGED <<active, queue, pc, ticket, tickets>>
<1>0. LaneTypes
  BY DEF TypeOK, LaneTypes
<1>1. CASE UNCHANGED vars
  BY <1>1 DEF vars
<1>2. ASSUME NEW t \in Sends, Check(t) \/ Advance(t) PROVE SendStep(t)
  BY <1>0, <1>2, SendStepCases
<1>3. ASSUME NEW o \in Ops, FlushSendQueue(o) PROVE \E s \in Sessions : Flush(s)
  <2>1. op[o].session \in Sessions
    BY <1>3 DEF FlushSendQueue, TypeOK
  <2> QED
    BY <1>0, <1>3, <2>1, FlushCase
<1>4. ASSUME NEW o \in Ops,
             \/ ReadToken(o) \/ CancelToken(o) \/ RemoveSession(o)
             \/ \E s \in Sessions : CancelSend(o, s) \/ \E k \in OpKinds : StopLive(o, s, k)
      PROVE  UNCHANGED <<active, queue, pc, ticket, tickets>>
  BY <1>4 DEF ReadToken, CancelToken, RemoveSession, CancelSend, StopLive
<1>5. ASSUME NEW s \in Sessions, Appear(s) \/ Vanish(s)
      PROVE  UNCHANGED <<active, queue, pc, ticket, tickets>>
  BY <1>5 DEF Appear, Vanish
<1> QED
  BY <1>1, <1>2, <1>3, <1>4, <1>5 DEF Next, Operate

-----------------------------------------------------------------------------
\* Only the owner of activeSend clears it.
LEMMA ActiveStep == RouterInv /\ [Next]_vars => ActiveOwned'
<1> SUFFICES ASSUME RouterInv, [Next]_vars PROVE ActiveOwned'
  OBVIOUS
<1>0. TypeOK /\ LaneTypes /\ ActiveOwned /\ QueueExact
  BY DEF RouterInv, TypeOK, LaneTypes
<1>1. ASSUME NEW t \in Sends, SendStep(t) PROVE ActiveOwned'
  <2>0. SessionOf[t] \in Sessions
    OBVIOUS
  <2> USE <1>0, <2>0 DEF LaneTypes, ActiveOwned, Owning, At, Go
  <2>1. CASE Move(t)
    <3>1. /\ pc'[t] \in Owning => pc[t] \in Owning
          /\ pc[t] \in Owning => pc'[t] \in Owning \cup {"releasing"}
          /\ pc[t] # "releasing"
      BY <2>1 DEF Move, Moves
    <3> QED
      BY <2>1, <3>1 DEF Move
  <2>2. CASE Claim(t)
    BY <2>2 DEF Claim, Busy
  <2>3. CASE Queue(t)
    BY <2>3 DEF Queue
  <2>4. CASE Clear(t)
    <3>1. pc[t] \in Owning /\ pc'[t] \in {"failing", "draining"}
      BY <2>4 DEF Clear
    <3>2. active' = [active EXCEPT ![SessionOf[t]] = None]
      BY <2>4, <3>1 DEF Clear, MarkSendIdle
    <3>3. \A u \in Sends : u # t => pc'[u] = pc[u]
      BY <2>4 DEF Clear
    <3>4. \A r \in Sessions : active'[r] # None =>
            active'[r] = active[r] /\ active[r] # t /\ active[r] \in Sends
      BY <3>1, <3>2
    <3>5. \A u \in Sends : u # t /\ pc[u] \in Owning => SessionOf[u] # SessionOf[t]
      BY <3>1
    <3>6. pc'[t] \notin Owning
      BY <3>1
    <3> HIDE DEF Owning
    <3>7. \A r \in Sessions : active'[r] # None =>
            SessionOf[active'[r]] = r /\ pc'[active'[r]] \in Owning \cup {"releasing"}
      BY <3>3, <3>4
    <3>8. \A u \in Sends : pc'[u] \in Owning => active'[SessionOf[u]] = u
      BY <3>2, <3>3, <3>5, <3>6
    <3> QED
      BY <3>7, <3>8
  <2>5. CASE ReleaseOnly(t)
    BY <2>5 DEF ReleaseOnly, Freed
  <2>6. CASE ReleaseAndPromote(t)
    <3> DEFINE s == SessionOf[t]
               n == Head(queue[s])
    <3>1. n \in Sends /\ SessionOf[n] = s /\ pc[n] = "queued"
      BY <2>6, TailFacts DEF ReleaseAndPromote, Promotes, QueueExact
    <3>2. active[s] \in {t, None} /\ active' = [active EXCEPT ![s] = n]
      BY <2>6 DEF ReleaseAndPromote, Promotes, Freed
    <3>3. pc[t] = "releasing" /\ n # t /\ pc'[n] = "promoted" /\ pc'[t] = "done"
      BY <2>6, <3>1 DEF ReleaseAndPromote
    <3>4. \A u \in Sends : u # t /\ u # n => pc'[u] = pc[u]
      BY <2>6 DEF ReleaseAndPromote
    <3>5. \A u \in Sends : u # t /\ u # n /\ pc[u] \in Owning => SessionOf[u] # s
      BY <3>2, <3>3
    <3>6. \A r \in Sessions : r # s => active'[r] = active[r]
      BY <3>2
    <3>7. \A r \in Sessions : r # s /\ active[r] # None => active[r] \notin {t, n}
      BY <3>1
    <3>8. pc'[n] \in Owning /\ pc'[t] \notin Owning
      BY <3>3
    <3> HIDE DEF Owning, n, s
    <3>9. \A r \in Sessions : active'[r] # None =>
            SessionOf[active'[r]] = r /\ pc'[active'[r]] \in Owning \cup {"releasing"}
      BY <3>1, <3>2, <3>4, <3>6, <3>7, <3>8
    <3>10. \A u \in Sends : pc'[u] \in Owning => active'[SessionOf[u]] = u
      BY <3>1, <3>2, <3>4, <3>5, <3>8 DEF s
    <3> QED
      BY <3>9, <3>10
  <2> QED
    BY <1>1, <2>1, <2>2, <2>3, <2>4, <2>5, <2>6 DEF SendStep
<1>2. ASSUME NEW s \in Sessions, Flush(s) PROVE ActiveOwned'
  BY <1>0, <1>2 DEF Flush, LaneTypes, ActiveOwned, Owning
<1>3. CASE UNCHANGED <<active, queue, pc, ticket, tickets>>
  BY <1>0, <1>3 DEF ActiveOwned
<1> QED
  BY <1>0, <1>1, <1>2, <1>3, StepCases

\* Whoever leaves a non-empty queue behind still owes it a release.
LEMMA StrandStep == RouterInv /\ [Next]_vars => NoStrandedQueue'
<1> SUFFICES ASSUME RouterInv, [Next]_vars PROVE NoStrandedQueue'
  OBVIOUS
<1>0. TypeOK /\ LaneTypes /\ ActiveOwned /\ QueueExact /\ NoStrandedQueue
  BY DEF RouterInv, TypeOK, LaneTypes
<1>1. ASSUME NEW t \in Sends, SendStep(t) PROVE NoStrandedQueue'
  <2>0. SessionOf[t] \in Sessions
    OBVIOUS
  <2> USE <1>0, <2>0 DEF LaneTypes, NoStrandedQueue, Unreleased, Owning, At, Go
  <2>1. CASE Move(t)
    <3>1. pc[t] \in Unreleased => pc'[t] \in Unreleased
      BY <2>1 DEF Move, Moves
    <3>2. \A u \in Sends : u # t => pc'[u] = pc[u]
      BY <2>1 DEF Move
    <3>3. queue' = queue
      BY <2>1 DEF Move
    <3> HIDE DEF Unreleased
    <3> QED
      BY <3>1, <3>2, <3>3
  <2>2. CASE Claim(t)
    BY <2>2 DEF Claim
  <2>3. CASE Queue(t)
    <3> DEFINE s == SessionOf[t]
    <3>1. \E u \in Sends : SessionOf[u] = s /\ pc[u] \in Unreleased
      BY <2>3 DEF Queue, Busy, ActiveOwned
    <3> QED
      BY <2>3, <3>1 DEF Queue
  <2>4. CASE Clear(t)
    <3>1. pc'[t] \in Unreleased /\ queue' = queue
      BY <2>4 DEF Clear
    <3>2. \A u \in Sends : u # t => pc'[u] = pc[u]
      BY <2>4 DEF Clear
    <3> HIDE DEF Unreleased
    <3> QED
      BY <3>1, <3>2
  <2>5. CASE ReleaseOnly(t)
    <3> DEFINE s == SessionOf[t]
    <3>1. queue[s] # <<>> =>
            \E u \in Sends \ {t} : SessionOf[u] = s /\ pc[u] \in Unreleased
      BY <2>5 DEF ReleaseOnly, Promotes, Freed, ActiveOwned
    <3> QED
      BY <2>5, <3>1 DEF ReleaseOnly
  <2>6. CASE ReleaseAndPromote(t)
    <3> DEFINE s == SessionOf[t]
               n == Head(queue[s])
    <3>1. n \in Sends /\ SessionOf[n] = s /\ pc[n] = "queued"
      BY <2>6, TailFacts DEF ReleaseAndPromote, Promotes, QueueExact
    <3>2. n # t /\ pc'[n] = "promoted"
      BY <2>6, <3>1 DEF ReleaseAndPromote
    <3>3. \A u \in Sends : u # t /\ u # n => pc'[u] = pc[u]
      BY <2>6 DEF ReleaseAndPromote
    <3>4. \A r \in Sessions : r # s => queue'[r] = queue[r]
      BY <2>6 DEF ReleaseAndPromote
    <3>5. pc'[n] \in Unreleased
      BY <3>2
    <3> HIDE DEF Unreleased, n, s
    <3> QED
      BY <3>1, <3>2, <3>3, <3>4, <3>5 DEF s
  <2> QED
    BY <1>1, <2>1, <2>2, <2>3, <2>4, <2>5, <2>6 DEF SendStep
<1>2. ASSUME NEW s \in Sessions, Flush(s) PROVE NoStrandedQueue'
  BY <1>0, <1>2 DEF Flush, LaneTypes, NoStrandedQueue, Unreleased, Owning
<1>3. CASE UNCHANGED <<active, queue, pc, ticket, tickets>>
  BY <1>0, <1>3 DEF NoStrandedQueue
<1> QED
  BY <1>0, <1>1, <1>2, <1>3, StepCases

-----------------------------------------------------------------------------
(* The queue and the tickets.                                              *)

\* Sends is the only set of values in a queue.
LEMMA QueueElements ==
    ASSUME LaneTypes, NEW s \in Sessions
    PROVE  /\ Len(queue[s]) \in Nat
           /\ \A i \in 1..Len(queue[s]) : queue[s][i] \in Sends
BY DEF LaneTypes

\* The queue of each session stays exact: the send whose step it is joins at
\* the end with the highest ticket, or leaves from the front.
LEMMA QueueStep == RouterInv /\ [Next]_vars => QueueExact'
<1> SUFFICES ASSUME RouterInv, [Next]_vars PROVE QueueExact'
  OBVIOUS
<1>0. TypeOK /\ LaneTypes /\ QueueExact /\ TicketOrder
  BY DEF RouterInv, TypeOK, LaneTypes
<1>t. ticket \in [Sends -> Nat] /\ tickets \in Nat
  BY <1>0 DEF TypeOK
<1>1. ASSUME NEW t \in Sends, SendStep(t) PROVE QueueExact'
  <2>0. SessionOf[t] \in Sessions
    OBVIOUS
  <2>q. \A r \in Sessions : Len(queue[r]) \in Nat /\ \A i \in 1..Len(queue[r]) : queue[r][i] \in Sends
    BY <1>0, QueueElements
  <2>1. ASSUME queue' = queue, ticket' = ticket \/ ticket' = [ticket EXCEPT ![t] = tickets + 1],
               \A u \in Sends : u # t => pc'[u] = pc[u],
               pc[t] # "queued", pc'[t] # "queued"
        PROVE QueueExact'
    <3>1. \A r \in Sessions : \A i \in 1..Len(queue[r]) :
            queue[r][i] # t /\ pc'[queue[r][i]] = "queued" /\ SessionOf[queue[r][i]] = r
      BY <1>0, <2>q, <2>1 DEF QueueExact
    <3>2. \A u \in Sends : u # t => ticket'[u] = ticket[u]
      BY <2>1, <1>t
    <3>3. \A r \in Sessions : \A i \in 1..Len(queue[r]) : ticket'[queue[r][i]] = ticket[queue[r][i]]
      BY <2>q, <3>1, <3>2
    <3> QED
      BY <1>0, <2>1, <3>1, <3>3 DEF QueueExact
  <2>2. CASE Move(t)
    <3>1. pc[t] # "queued" /\ pc'[t] # "queued"
      BY <2>2 DEF Move, Moves
    <3> QED
      BY <1>0, <2>1, <2>2, <3>1 DEF Move, LaneTypes
  <2>3. CASE Claim(t)
    BY <1>0, <2>1, <2>3 DEF Claim, Stamp, At, Go, LaneTypes
  <2>4. CASE Clear(t)
    BY <1>0, <2>1, <2>4 DEF Clear, LaneTypes
  <2>5. CASE ReleaseOnly(t)
    BY <1>0, <2>1, <2>5 DEF ReleaseOnly, At, Go, LaneTypes
  <2>6. CASE Queue(t)
    <3> DEFINE s == SessionOf[t]
    <3>1. /\ pc[t] = "locking" /\ pc'[t] = "queued"
          /\ \A u \in Sends : u # t => pc'[u] = pc[u] /\ ticket'[u] = ticket[u]
          /\ ticket'[t] = tickets + 1
          /\ queue'[s] = Append(queue[s], t)
          /\ \A r \in Sessions : r # s => queue'[r] = queue[r]
      BY <1>0, <1>t, <2>0, <2>6 DEF Queue, At, Go, Stamp, LaneTypes
    <3>2. /\ queue[s] \in Seq(Sends)
          /\ Len(queue'[s]) = Len(queue[s]) + 1
          /\ \A i \in 1..Len(queue[s]) : queue'[s][i] = queue[s][i]
          /\ queue'[s][Len(queue[s]) + 1] = t
      BY <1>0, <2>0, <3>1, AppendFacts DEF LaneTypes
    <3>3. \A r \in Sessions : \A i \in 1..Len(queue[r]) :
            /\ queue[r][i] # t
            /\ pc'[queue[r][i]] = "queued"
            /\ SessionOf[queue[r][i]] = r
            /\ ticket'[queue[r][i]] = ticket[queue[r][i]]
            /\ ticket[queue[r][i]] < tickets + 1
            /\ ticket[queue[r][i]] \in Nat
      BY <1>0, <1>t, <2>q, <3>1 DEF QueueExact, TicketOrder
    <3>4. \A r \in Sessions : \A i \in 1..Len(queue'[r]) :
            pc'[queue'[r][i]] = "queued" /\ SessionOf[queue'[r][i]] = r
      <4> TAKE r \in Sessions
      <4>1. CASE r = s
        BY <2>q, <3>1, <3>2, <3>3, <4>1
      <4>2. CASE r # s
        BY <3>1, <3>3, <4>2
      <4> QED
        BY <4>1, <4>2
    <3>5. \A u \in Sends : pc'[u] = "queued" =>
            \E i \in 1..Len(queue'[SessionOf[u]]) : queue'[SessionOf[u]][i] = u
      <4> SUFFICES ASSUME NEW u \in Sends, pc'[u] = "queued"
                   PROVE \E i \in 1..Len(queue'[SessionOf[u]]) : queue'[SessionOf[u]][i] = u
        OBVIOUS
      <4>1. CASE u = t
        <5>1. Len(queue[s]) + 1 \in 1..Len(queue'[s])
          BY <2>q, <3>2
        <5> QED
          BY <3>2, <4>1, <5>1
      <4>2. CASE u # t
        <5>1. PICK i \in 1..Len(queue[SessionOf[u]]) : queue[SessionOf[u]][i] = u
          BY <1>0, <3>1, <4>2 DEF QueueExact
        <5>2. SessionOf[u] \in Sessions
          OBVIOUS
        <5>3. CASE SessionOf[u] = s
          <6>1. i \in 1..Len(queue'[s]) /\ queue'[s][i] = u
            BY <2>q, <3>2, <5>1, <5>2, <5>3
          <6> QED
            BY <5>3, <6>1
        <5>4. CASE SessionOf[u] # s
          BY <3>1, <5>1, <5>2, <5>4
        <5> QED
          BY <5>3, <5>4
      <4> QED
        BY <4>1, <4>2
    <3>6. \A r \in Sessions : \A i, j \in 1..Len(queue'[r]) :
            i < j => ticket'[queue'[r][i]] < ticket'[queue'[r][j]]
      <4> SUFFICES ASSUME NEW r \in Sessions, NEW i \in 1..Len(queue'[r]),
                          NEW j \in 1..Len(queue'[r]), i < j
                   PROVE ticket'[queue'[r][i]] < ticket'[queue'[r][j]]
        OBVIOUS
      <4>1. CASE r # s
        BY <1>0, <3>1, <3>3, <4>1 DEF QueueExact
      <4>2. CASE r = s /\ j \in 1..Len(queue[s])
        <5>1. i \in 1..Len(queue[s])
          BY <2>q, <3>2, <4>2
        <5>2. ticket[queue[s][i]] < ticket[queue[s][j]]
          BY <1>0, <2>0, <4>2, <5>1 DEF QueueExact
        <5>3. queue'[r][i] = queue[s][i] /\ queue'[r][j] = queue[s][j]
          BY <3>2, <4>2, <5>1
        <5>4. ticket'[queue[s][i]] = ticket[queue[s][i]] /\ ticket'[queue[s][j]] = ticket[queue[s][j]]
          BY <2>0, <3>3, <4>2, <5>1
        <5> QED
          BY <5>2, <5>3, <5>4
      <4>3. CASE r = s /\ j = Len(queue[s]) + 1
        <5>1. i \in 1..Len(queue[s])
          BY <2>q, <3>2, <4>3
        <5>2. queue'[r][i] = queue[s][i] /\ queue'[r][j] = t
          BY <3>2, <4>3, <5>1
        <5>3. ticket'[queue[s][i]] = ticket[queue[s][i]] /\ ticket[queue[s][i]] < tickets + 1
          BY <2>0, <3>3, <5>1
        <5> QED
          BY <3>1, <5>2, <5>3
      <4> QED
        BY <2>q, <2>0, <3>2, <4>1, <4>2, <4>3
    <3> QED
      BY <3>4, <3>5, <3>6 DEF QueueExact
  <2>7. CASE ReleaseAndPromote(t)
    <3> DEFINE s == SessionOf[t]
               n == Head(queue[s])
    <3>1. queue[s] # <<>> /\ queue[s] \in Seq(Sends)
      BY <1>0, <2>0, <2>7 DEF ReleaseAndPromote, Promotes, LaneTypes
    <3>2. /\ n = queue[s][1] /\ n \in Sends /\ 1 \in 1..Len(queue[s])
          /\ Len(Tail(queue[s])) = Len(queue[s]) - 1
          /\ \A i \in 1..Len(Tail(queue[s])) :
               Tail(queue[s])[i] = queue[s][i + 1] /\ i + 1 \in 1..Len(queue[s])
          /\ \A i \in 1..Len(queue[s]) : i # 1 =>
               i - 1 \in 1..Len(Tail(queue[s])) /\ Tail(queue[s])[i - 1] = queue[s][i]
      BY <3>1, TailFacts
    <3>3. pc[n] = "queued" /\ SessionOf[n] = s
      BY <1>0, <2>0, <3>2 DEF QueueExact
    <3>4. /\ pc[t] = "releasing" /\ pc'[t] = "done" /\ pc'[n] = "promoted"
          /\ \A u \in Sends : u # t /\ u # n => pc'[u] = pc[u]
          /\ queue'[s] = Tail(queue[s])
          /\ \A r \in Sessions : r # s => queue'[r] = queue[r]
          /\ ticket' = ticket
      BY <1>0, <2>0, <2>7, <3>2, <3>3 DEF ReleaseAndPromote, At, LaneTypes
    <3>5. \A i \in 1..Len(queue[s]) : i # 1 => queue[s][i] # n
      <4> SUFFICES ASSUME NEW i \in 1..Len(queue[s]), i # 1 PROVE queue[s][i] # n
        OBVIOUS
      <4>1. ticket[queue[s][1]] < ticket[queue[s][i]]
        BY <1>0, <2>0, <2>q, <3>2 DEF QueueExact
      <4> QED
        BY <1>t, <3>2, <4>1
    <3>6. \A r \in Sessions : r # s => \A i \in 1..Len(queue[r]) : queue[r][i] # n
      BY <1>0, <3>3 DEF QueueExact
    <3>7. \A r \in Sessions : \A i \in 1..Len(queue[r]) :
            queue[r][i] # t /\ pc[queue[r][i]] = "queued" /\ SessionOf[queue[r][i]] = r
      BY <1>0, <3>4 DEF QueueExact
    <3>s. s \in Sessions /\ Len(queue[s]) \in Nat
      BY <2>0, <2>q
    <3>t. \A i \in 1..Len(queue'[s]) :
            /\ i \in Nat /\ i + 1 # 1
            /\ queue'[s][i] = queue[s][i + 1] /\ i + 1 \in 1..Len(queue[s])
      BY <3>2, <3>4, <3>s
    <3> HIDE DEF s, n
    <3>8. \A r \in Sessions : \A i \in 1..Len(queue'[r]) :
            pc'[queue'[r][i]] = "queued" /\ SessionOf[queue'[r][i]] = r
      <4> SUFFICES ASSUME NEW r \in Sessions, NEW i \in 1..Len(queue'[r])
                   PROVE pc'[queue'[r][i]] = "queued" /\ SessionOf[queue'[r][i]] = r
        OBVIOUS
      <4>1. CASE r = s
        <5>1. queue'[s][i] = queue[s][i + 1] /\ i + 1 \in 1..Len(queue[s]) /\ i + 1 # 1
          BY <3>s, <3>t, <4>1
        <5>2. queue[s][i + 1] \in Sends /\ queue[s][i + 1] # n /\ queue[s][i + 1] # t
          BY <2>q, <3>s, <3>5, <3>7, <5>1
        <5>3. pc[queue[s][i + 1]] = "queued" /\ SessionOf[queue[s][i + 1]] = s
          BY <3>s, <3>7, <5>1
        <5> QED
          BY <3>4, <4>1, <5>1, <5>2, <5>3
      <4>2. CASE r # s
        BY <2>q, <3>4, <3>6, <3>7, <4>2
      <4> QED
        BY <4>1, <4>2
    <3>9. \A u \in Sends : pc'[u] = "queued" =>
            \E i \in 1..Len(queue'[SessionOf[u]]) : queue'[SessionOf[u]][i] = u
      <4> SUFFICES ASSUME NEW u \in Sends, pc'[u] = "queued"
                   PROVE \E i \in 1..Len(queue'[SessionOf[u]]) : queue'[SessionOf[u]][i] = u
        OBVIOUS
      <4>1. u # n /\ u # t /\ pc[u] = "queued"
        BY <3>4
      <4>2. PICK i \in 1..Len(queue[SessionOf[u]]) : queue[SessionOf[u]][i] = u
        BY <1>0, <4>1 DEF QueueExact
      <4>3. CASE SessionOf[u] = s
        <5>1. i # 1
          BY <3>2, <4>1, <4>2, <4>3
        <5>2. i - 1 \in 1..Len(queue'[s]) /\ queue'[s][i - 1] = u
          BY <3>2, <3>4, <4>2, <4>3, <5>1
        <5> QED
          BY <4>3, <5>2
      <4>4. CASE SessionOf[u] # s
        BY <3>4, <4>2, <4>4
      <4> QED
        BY <4>3, <4>4
    <3>10. \A r \in Sessions : \A i, j \in 1..Len(queue'[r]) :
            i < j => ticket'[queue'[r][i]] < ticket'[queue'[r][j]]
      <4> SUFFICES ASSUME NEW r \in Sessions, NEW i \in 1..Len(queue'[r]),
                          NEW j \in 1..Len(queue'[r]), i < j
                   PROVE ticket'[queue'[r][i]] < ticket'[queue'[r][j]]
        OBVIOUS
      <4>1. CASE r # s
        BY <1>0, <3>4, <4>1 DEF QueueExact
      <4>2. CASE r = s
        <5>1. /\ queue'[s][i] = queue[s][i + 1] /\ i + 1 \in 1..Len(queue[s])
              /\ queue'[s][j] = queue[s][j + 1] /\ j + 1 \in 1..Len(queue[s])
              /\ i + 1 < j + 1
          BY <3>s, <3>t, <4>2
        <5>2. ticket[queue[s][i + 1]] < ticket[queue[s][j + 1]]
          BY <1>0, <4>2, <5>1 DEF QueueExact
        <5> QED
          BY <3>4, <4>2, <5>1, <5>2
      <4> QED
        BY <4>1, <4>2
    <3> QED
      BY <3>8, <3>9, <3>10 DEF QueueExact
  <2> QED
    BY <1>1, <2>2, <2>3, <2>4, <2>5, <2>6, <2>7 DEF SendStep
<1>2. ASSUME NEW s \in Sessions, Flush(s) PROVE QueueExact'
  <2>1. /\ queue'[s] = <<>> /\ Len(queue'[s]) = 0
        /\ \A r \in Sessions : r # s => queue'[r] = queue[r]
        /\ ticket' = ticket
        /\ \A u \in Sends : pc'[u] = IF pc[u] = "queued" /\ SessionOf[u] = s
                                     THEN "dropped" ELSE pc[u]
    BY <1>0, <1>2, EmptyFacts DEF Flush, LaneTypes
  <2>2. \A r \in Sessions : Len(queue[r]) \in Nat /\ \A i \in 1..Len(queue[r]) : queue[r][i] \in Sends
    BY <1>0, QueueElements
  <2>3. \A u \in Sends : pc'[u] = "queued" => pc[u] = "queued" /\ SessionOf[u] # s
    BY <2>1
  <2>4. \A r \in Sessions : \A i \in 1..Len(queue'[r]) :
          r # s /\ queue'[r] = queue[r] /\ i \in 1..Len(queue[r])
    BY <2>1
  <2> QED
    BY <1>0, <2>1, <2>2, <2>3, <2>4 DEF QueueExact
<1>3. CASE UNCHANGED <<active, queue, pc, ticket, tickets>>
  BY <1>0, <1>3 DEF QueueExact
<1> QED
  BY <1>0, <1>1, <1>2, <1>3, StepCases

\* Tickets only grow, and a send leaves the queue only from its front.
LEMMA TicketStep == RouterInv /\ [Next]_vars => TicketOrder'
<1> SUFFICES ASSUME RouterInv, [Next]_vars PROVE TicketOrder'
  OBVIOUS
<1>0. TypeOK /\ LaneTypes /\ ActiveOwned /\ QueueExact /\ TicketOrder
  BY DEF RouterInv, TypeOK, LaneTypes
<1>t. ticket \in [Sends -> Nat] /\ tickets \in Nat
  BY <1>0 DEF TypeOK
<1>k. \A t \in Sends : ticket[t] \in Nat
  BY <1>t
<1>1. ASSUME NEW t \in Sends, SendStep(t) PROVE TicketOrder'
  <2>0. SessionOf[t] \in Sessions
    OBVIOUS
  <2>1. CASE Move(t)
    <3>1. /\ pc[t] # "queued" /\ pc'[t] # "queued"
          /\ pc'[t] \in {"promoted", "claimed"} => pc[t] = "promoted"
          /\ pc'[t] \in Running \cup {"draining"} =>
               pc[t] = "claimed" \/ pc[t] \in Running \cup {"draining"}
          /\ pc'[t] \notin {"new", "locking", "rejected"} =>
               pc[t] \notin {"new", "locking", "rejected"}
      BY <2>1 DEF Move, Moves, Running
    <3>2. \A u \in Sends : u # t => pc'[u] = pc[u]
      BY <1>0, <2>1 DEF Move, LaneTypes
    <3>3. ticket' = ticket /\ tickets' = tickets
      BY <2>1 DEF Move
    <3>4. \A u \in Sends : Same(t, u) /\ pc[t] = "claimed" => pc[u] \notin {"promoted", "claimed"}
      BY <1>0 DEF Same, ActiveOwned, Owning
    <3>5. \A u, v \in Sends :
            /\ Same(u, v)
            /\ pc'[u] \in {"promoted", "claimed"}
            /\ pc'[v] \in Running \cup {"draining"}
            => ticket[v] < ticket[u]
      <4> SUFFICES ASSUME NEW u \in Sends, NEW v \in Sends, Same(u, v),
                          pc'[u] \in {"promoted", "claimed"},
                          pc'[v] \in Running \cup {"draining"}
                   PROVE ticket[v] < ticket[u]
        OBVIOUS
      <4>1. u # v
        BY DEF Same
      <4>2. pc[u] \in {"promoted", "claimed"}
        BY <3>1, <3>2
      <4>3. pc[v] \in Running \cup {"draining"} \/ (v = t /\ pc[t] = "claimed")
        BY <3>1, <3>2
      <4>4. ~(v = t /\ pc[t] = "claimed")
        BY <3>4, <4>1, <4>2 DEF Same
      <4> QED
        BY <1>0, <4>2, <4>3, <4>4 DEF TicketOrder
    <3>6. \A u \in Sends : ticket[u] <= tickets /\ (Submitted(u)' => ticket[u] # 0)
      BY <1>0, <3>1, <3>2 DEF TicketOrder, Submitted
    <3>7. \A u, v \in Sends : Same(u, v) /\ pc'[u] = "queued" /\ Submitted(v)' /\ pc'[v] # "queued"
            => ticket[v] < ticket[u]
      BY <1>0, <3>1, <3>2 DEF TicketOrder, Submitted
    <3> QED
      BY <3>3, <3>5, <3>6, <3>7 DEF TicketOrder, Same
  <2>2. CASE Claim(t) \/ Queue(t)
    <3>1. /\ pc[t] = "locking"
          /\ pc'[t] \in {"queued", "claimed"}
          /\ \A u \in Sends : u # t => pc'[u] = pc[u] /\ ticket'[u] = ticket[u]
          /\ tickets' = tickets + 1
          /\ ticket'[t] = tickets + 1
      BY <1>0, <1>t, <2>2 DEF Claim, Queue, At, Go, Stamp, LaneTypes
    <3>2. pc'[t] = "claimed" => queue[SessionOf[t]] = <<>>
      BY <1>0, <2>2 DEF Claim, Queue, Busy, At, Go, LaneTypes
    <3>3. \A u \in Sends : Same(t, u) /\ pc'[t] = "claimed" => pc[u] # "queued"
      <4> SUFFICES ASSUME NEW u \in Sends, Same(t, u), queue[SessionOf[t]] = <<>>,
                          pc[u] = "queued"
                   PROVE FALSE
        BY <3>2
      <4>1. SessionOf[u] = SessionOf[t]
        BY DEF Same
      <4>2. PICK i \in 1..Len(queue[SessionOf[u]]) : queue[SessionOf[u]][i] = u
        BY <1>0 DEF QueueExact
      <4> QED
        BY <4>1, <4>2, EmptyFacts
    <3>4. \A u \in Sends : u # t => ticket[u] < tickets + 1 /\ ticket'[u] < ticket'[t]
      BY <1>0, <1>t, <1>k, <3>1 DEF TicketOrder
    <3>5. \A u \in Sends : ticket'[u] <= tickets' /\ (Submitted(u)' => ticket'[u] # 0)
      BY <1>0, <1>t, <1>k, <3>1, <3>4 DEF TicketOrder, Submitted
    <3>6. \A u, v \in Sends : Same(u, v) /\ pc'[u] = "queued" /\ Submitted(v)' /\ pc'[v] # "queued"
            => ticket'[v] < ticket'[u]
      <4> SUFFICES ASSUME NEW u \in Sends, NEW v \in Sends, Same(u, v), pc'[u] = "queued",
                          Submitted(v)', pc'[v] # "queued"
                   PROVE ticket'[v] < ticket'[u]
        OBVIOUS
      <4>1. CASE u = t
        BY <3>4, <4>1 DEF Same
      <4>2. CASE v = t
        BY <3>1, <3>3, <4>2 DEF Same
      <4>3. CASE u # t /\ v # t
        BY <1>0, <3>1, <4>3 DEF TicketOrder, Submitted
      <4> QED
        BY <4>1, <4>2, <4>3
    <3>7. \A u, v \in Sends :
            /\ Same(u, v)
            /\ pc'[u] \in {"promoted", "claimed"}
            /\ pc'[v] \in Running \cup {"draining"}
            => ticket'[v] < ticket'[u]
      <4> SUFFICES ASSUME NEW u \in Sends, NEW v \in Sends, Same(u, v),
                          pc'[u] \in {"promoted", "claimed"},
                          pc'[v] \in Running \cup {"draining"}
                   PROVE ticket'[v] < ticket'[u]
        OBVIOUS
      <4>1. v # t
        BY <3>1 DEF Running
      <4>2. CASE u = t
        BY <3>4, <4>1, <4>2
      <4>3. CASE u # t
        BY <1>0, <3>1, <4>1, <4>3 DEF TicketOrder
      <4> QED
        BY <4>2, <4>3
    <3> QED
      BY <3>5, <3>6, <3>7 DEF TicketOrder, Same
  <2>3. CASE Clear(t) \/ ReleaseOnly(t)
    <3>1. /\ pc[t] \in {"sending", "exited", "releasing"}
          /\ pc'[t] \in {"failing", "draining", "done"}
          /\ pc'[t] = "draining" => pc[t] = "exited"
          /\ \A u \in Sends : u # t => pc'[u] = pc[u]
          /\ ticket' = ticket /\ tickets' = tickets
      BY <1>0, <2>3 DEF Clear, ReleaseOnly, At, Go, LaneTypes
    <3>2. \A u \in Sends : /\ Submitted(u)' = Submitted(u)
                           /\ (pc'[u] = "queued") = (pc[u] = "queued")
                           /\ pc'[u] \in {"promoted", "claimed"} => pc[u] \in {"promoted", "claimed"}
                           /\ pc'[u] \in Running \cup {"draining"} => pc[u] \in Running \cup {"draining"}
      BY <3>1 DEF Submitted, Running
    <3> QED
      BY <1>0, <3>1, <3>2 DEF TicketOrder, Same
  <2>4. CASE ReleaseAndPromote(t)
    <3> DEFINE s == SessionOf[t]
               n == Head(queue[s])
    <3>1. queue[s] # <<>> /\ queue[s] \in Seq(Sends)
      BY <1>0, <2>0, <2>4 DEF ReleaseAndPromote, Promotes, LaneTypes
    <3>2. n = queue[s][1] /\ n \in Sends /\ 1 \in 1..Len(queue[s]) /\ Len(queue[s]) \in Nat
      BY <3>1, TailFacts
    <3>3. pc[n] = "queued" /\ SessionOf[n] = s
      BY <1>0, <2>0, <3>2 DEF QueueExact
    <3>4. /\ pc[t] = "releasing" /\ pc'[t] = "done" /\ pc'[n] = "promoted"
          /\ \A u \in Sends : u # t /\ u # n => pc'[u] = pc[u]
          /\ ticket' = ticket /\ tickets' = tickets
      BY <1>0, <2>0, <2>4, <3>2, <3>3 DEF ReleaseAndPromote, At, LaneTypes
    <3>5. \A u \in Sends : u # n /\ SessionOf[u] = s /\ pc[u] = "queued" => ticket[n] < ticket[u]
      <4> SUFFICES ASSUME NEW u \in Sends, u # n, SessionOf[u] = s, pc[u] = "queued"
                   PROVE ticket[n] < ticket[u]
        OBVIOUS
      <4>1. PICK i \in 1..Len(queue[s]) : queue[s][i] = u
        BY <1>0 DEF QueueExact
      <4>2. 1 < i
        BY <3>2, <4>1
      <4> QED
        BY <1>0, <2>0, <3>2, <4>1, <4>2 DEF QueueExact
    <3> HIDE DEF n, s
    <3>6. \A u \in Sends : Submitted(u)' => Submitted(u)
      BY <3>2, <3>3, <3>4 DEF Submitted
    <3>7. \A u, v \in Sends : Same(u, v) /\ pc'[u] = "queued" /\ Submitted(v)' /\ pc'[v] # "queued"
            => ticket[v] < ticket[u]
      <4> SUFFICES ASSUME NEW u \in Sends, NEW v \in Sends, Same(u, v), pc'[u] = "queued",
                          Submitted(v)', pc'[v] # "queued"
                   PROVE ticket[v] < ticket[u]
        OBVIOUS
      <4>1. u # n /\ u # t /\ pc[u] = "queued"
        BY <3>4
      <4>2. CASE v = n
        BY <3>3, <3>5, <4>1, <4>2 DEF Same
      <4>3. CASE v # n
        <5>1. pc[v] # "queued" /\ Submitted(v)
          BY <3>4, <3>6, <4>3
        <5> QED
          BY <1>0, <4>1, <5>1 DEF TicketOrder
      <4> QED
        BY <4>2, <4>3
    <3>8. \A u, v \in Sends :
            /\ Same(u, v)
            /\ pc'[u] \in {"promoted", "claimed"}
            /\ pc'[v] \in Running \cup {"draining"}
            => ticket[v] < ticket[u]
      <4> SUFFICES ASSUME NEW u \in Sends, NEW v \in Sends, Same(u, v),
                          pc'[u] \in {"promoted", "claimed"},
                          pc'[v] \in Running \cup {"draining"}
                   PROVE ticket[v] < ticket[u]
        OBVIOUS
      <4>1. v # n /\ v # t /\ pc[v] \in Running \cup {"draining"}
        BY <3>4 DEF Running
      <4>2. pc[v] # "queued" /\ Submitted(v)
        BY <4>1 DEF Running, Submitted
      <4>3. CASE u = n
        BY <1>0, <3>3, <4>2, <4>3 DEF TicketOrder
      <4>4. CASE u # n
        <5>1. pc[u] \in {"promoted", "claimed"}
          BY <3>4, <4>4
        <5> QED
          BY <1>0, <4>1, <5>1 DEF TicketOrder
      <4> QED
        BY <4>3, <4>4
    <3> QED
      BY <1>0, <3>4, <3>6, <3>7, <3>8 DEF TicketOrder, Same
  <2> QED
    BY <1>1, <2>1, <2>2, <2>3, <2>4 DEF SendStep
<1>2. ASSUME NEW s \in Sessions, Flush(s) PROVE TicketOrder'
  <2>1. /\ ticket' = ticket /\ tickets' = tickets
        /\ \A u \in Sends : pc'[u] = IF pc[u] = "queued" /\ SessionOf[u] = s
                                     THEN "dropped" ELSE pc[u]
    BY <1>2 DEF Flush
  <2>2. \A u \in Sends : /\ Submitted(u)' => Submitted(u)
                         /\ pc'[u] = "queued" => pc[u] = "queued" /\ SessionOf[u] # s
                         /\ pc'[u] \in {"promoted", "claimed"} => pc[u] \in {"promoted", "claimed"}
                         /\ pc'[u] \in Running \cup {"draining"} => pc[u] \in Running \cup {"draining"}
    BY <2>1 DEF Submitted, Running
  <2>3. \A u, v \in Sends : Same(u, v) /\ pc'[u] = "queued" /\ Submitted(v)' /\ pc'[v] # "queued"
          => ticket[v] < ticket[u]
    <3> SUFFICES ASSUME NEW u \in Sends, NEW v \in Sends, Same(u, v), pc'[u] = "queued",
                        Submitted(v)', pc'[v] # "queued"
                 PROVE ticket[v] < ticket[u]
      OBVIOUS
    <3>1. SessionOf[v] # s
      BY <2>2 DEF Same
    <3> QED
      BY <1>0, <2>1, <2>2, <3>1 DEF TicketOrder
  <2> QED
    BY <1>0, <2>1, <2>2, <2>3 DEF TicketOrder, Same
<1>3. CASE UNCHANGED <<active, queue, pc, ticket, tickets>>
  BY <1>0, <1>3 DEF TicketOrder, Submitted, Same
<1> QED
  BY <1>0, <1>1, <1>2, <1>3, StepCases

-----------------------------------------------------------------------------
(* The stops.                                                              *)

Accepting == Over \cup Owning \cup {"queued"}

\* No send ever goes back: over stays over, and only a queued send is queued.
LEMMA NoWayBack ==
    ASSUME RouterInv, [Next]_vars, NEW t \in Sends
    PROVE  /\ pc[t] \in Over => pc'[t] \in Over
           /\ pc[t] \in Over \cup Owning => pc'[t] \in Over \cup Owning
           /\ pc[t] \in Accepting => pc'[t] \in Accepting
<1>0. TypeOK /\ LaneTypes /\ QueueExact
  BY DEF RouterInv, TypeOK, LaneTypes
<1> USE DEF Over, Owning, Accepting
<1>1. ASSUME NEW u \in Sends, SendStep(u)
      PROVE  \/ pc'[t] = pc[t]
             \/ pc[t] \in {"new", "locking"}
             \/ pc[t] = "queued" /\ pc'[t] = "promoted"
             \/ <<pc[t], pc'[t]>> \in Moves
             \/ pc[t] \in {"sending", "exited", "releasing"}
                  /\ pc'[t] \in {"failing", "draining", "done"}
  <2>1. CASE Move(u)
    BY <1>0, <2>1 DEF Move, LaneTypes
  <2>2. CASE Claim(u) \/ Queue(u)
    BY <1>0, <2>2 DEF Claim, Queue, At, Go, LaneTypes
  <2>3. CASE Clear(u) \/ ReleaseOnly(u)
    BY <1>0, <2>3 DEF Clear, ReleaseOnly, At, Go, LaneTypes
  <2>4. CASE ReleaseAndPromote(u)
    <3> DEFINE n == Head(queue[SessionOf[u]])
    <3>1. n \in Sends /\ pc[n] = "queued"
      BY <1>0, <2>4, TailFacts DEF ReleaseAndPromote, Promotes, QueueExact, LaneTypes
    <3> QED
      BY <1>0, <2>4, <3>1 DEF ReleaseAndPromote, At, LaneTypes
  <2> QED
    BY <1>1, <2>1, <2>2, <2>3, <2>4 DEF SendStep
<1>2. ASSUME NEW u \in Sends, SendStep(u)
      PROVE  /\ pc[t] \in Over => pc'[t] \in Over
             /\ pc[t] \in Over \cup Owning => pc'[t] \in Over \cup Owning
             /\ pc[t] \in Accepting => pc'[t] \in Accepting
  BY <1>1, <1>2 DEF Moves
<1>3. ASSUME NEW s \in Sessions, Flush(s)
      PROVE  pc'[t] = pc[t] \/ (pc[t] = "queued" /\ pc'[t] = "dropped")
  BY <1>3 DEF Flush
<1> QED
  BY <1>0, <1>2, <1>3, StepCases

\* A cancelled context stays cancelled.
LEMMA CancelledGrows == [Next]_vars => cancelled \subseteq cancelled'
<1> SUFFICES ASSUME [Next]_vars PROVE cancelled \subseteq cancelled'
  OBVIOUS
<1>1. ASSUME NEW t \in Sends, Check(t) \/ Advance(t) PROVE cancelled \subseteq cancelled'
  <2>1. CASE ReleaseAndPromote(t) \/ ReleaseOnly(t)
    BY <2>1 DEF ReleaseAndPromote, ReleaseOnly
  <2>2. CASE ~(ReleaseAndPromote(t) \/ ReleaseOnly(t))
    BY <1>1, <2>2 DEF Advance, Check, Claim, Queue, QueueFull, Start, SendOk, SendFail,
          PublishFailure, Idle, PromotedFound, PromotedVanished, PublishExit, StreamClosed
  <2> QED
    BY <2>1, <2>2
<1>2. ASSUME NEW o \in Ops,
             \/ Operate(o)
             \/ \E s \in Sessions : CancelSend(o, s) \/ \E k \in OpKinds : StopLive(o, s, k)
      PROVE  cancelled \subseteq cancelled'
  BY <1>2 DEF Operate, FlushSendQueue, ReadToken, CancelToken, RemoveSession, CancelSend, StopLive
<1>3. ASSUME NEW s \in Sessions, Appear(s) \/ Vanish(s) PROVE cancelled \subseteq cancelled'
  BY <1>3 DEF Appear, Vanish
<1> QED
  BY <1>1, <1>2, <1>3 DEF Next, vars

\* What a stop must have achieved, of one send, where it stands.
Achieved(r, t) ==
    /\ SessionOf[t] = r.session
    /\ r.kind \in {"pause", "delete"} =>
         CASE r.at = "flush" -> pc[t] \in Over \cup Owning \cup {"queued"}
           [] r.at = "read" -> pc[t] \in Over \cup Owning
           [] r.at = "cancel" -> pc[t] \in Over \/ t = r.tok
           [] OTHER -> pc[t] \in Over \/ t \in cancelled

\* Each stop keeps what it has achieved, and each of its steps achieves the
\* next thing: the flush empties the queue, so whoever is left owns the
\* session when the token is read.
LEMMA StopStep == RouterInv /\ [Next]_vars => StopProgress'
<1> SUFFICES ASSUME RouterInv, [Next]_vars, NEW o \in Ops, op'[o].at # "idle",
                    NEW t \in op'[o].before
             PROVE  Achieved(op[o], t)'
  BY DEF StopProgress, Achieved
<1>0. /\ TypeOK /\ ActiveOwned /\ QueueExact
      /\ op[o].at # "idle" => \A u \in op[o].before : Achieved(op[o], u)
  BY DEF RouterInv, StopProgress, Achieved
<1>1. op[o] \in OpType /\ \A u \in op[o].before : u \in Sends
  BY <1>0 DEF TypeOK, OpType
<1>2. CASE op'[o] = op[o]
  <2>1. t \in Sends /\ t \in op[o].before /\ op[o].at # "idle"
    BY <1>1, <1>2
  <2>2. Achieved(op[o], t)
    BY <1>0, <2>1
  <2>3. /\ pc[t] \in Over => pc'[t] \in Over
        /\ pc[t] \in Over \cup Owning => pc'[t] \in Over \cup Owning
        /\ pc[t] \in Over \cup Owning \cup {"queued"} =>
             pc'[t] \in Over \cup Owning \cup {"queued"}
        /\ t \in cancelled => t \in cancelled'
    BY <2>1, NoWayBack, CancelledGrows DEF Accepting
  <2> QED
    BY <1>2, <2>2, <2>3 DEF Achieved
<1>3. ASSUME NEW s \in Sessions,
             \/ CancelSend(o, s)
             \/ \E k \in OpKinds : StopLive(o, s, k)
      PROVE  Achieved(op[o], t)'
  <2>1. /\ op'[o].session = s /\ op'[o].at = "flush"
        /\ t \in Accepted(s) /\ pc' = pc
    BY <1>0, <1>3 DEF CancelSend, StopLive, Becomes, TypeOK
  <2> QED
    BY <2>1 DEF Achieved, Accepted
<1>4. CASE FlushSendQueue(o)
  <2> DEFINE s == op[o].session
  <2>1. /\ op[o].at = "flush" /\ s \in Sessions
        /\ op'[o].session = s /\ op'[o].kind = op[o].kind /\ op'[o].before = op[o].before
        /\ op'[o].at = IF op[o].kind = "cancel" THEN "cancel" ELSE "read"
    BY <1>0, <1>1, <1>4 DEF FlushSendQueue, Becomes, TypeOK, OpType
  <2>2. t \in Sends /\ Achieved(op[o], t)
    BY <1>0, <1>1, <2>1
  <2>3. Flush(s)
    BY <1>0, <1>4, <2>1, FlushCase DEF TypeOK, LaneTypes
  <2>4. pc'[t] = IF pc[t] = "queued" /\ SessionOf[t] = s THEN "dropped" ELSE pc[t]
    BY <2>2, <2>3 DEF Flush
  <2>5. SessionOf[t] = s
    BY <2>2 DEF Achieved
  <2>6. CASE op[o].kind = "cancel"
    BY <2>1, <2>5, <2>6 DEF Achieved
  <2>7. CASE op[o].kind # "cancel"
    <3>1. op[o].kind \in {"pause", "delete"}
      BY <1>1, <2>7 DEF OpType, OpKinds
    <3>2. pc[t] \in Over \cup Owning \cup {"queued"}
      BY <2>1, <2>2, <3>1 DEF Achieved
    <3>3. pc'[t] \in Over \cup Owning
      BY <2>4, <2>5, <3>2 DEF Over
    <3>4. op'[o].at = "read"
      BY <2>1, <2>7
    <3> QED
      BY <2>1, <2>5, <3>3, <3>4 DEF Achieved
  <2> QED
    BY <2>6, <2>7
<1>5. CASE ReadToken(o)
  <2> DEFINE s == op[o].session
  <2>1. /\ op[o].at = "read" /\ s \in Sessions /\ pc' = pc
        /\ op'[o].session = s /\ op'[o].kind = op[o].kind /\ op'[o].before = op[o].before
        /\ op'[o].at = "cancel" /\ op'[o].tok = active[s]
    BY <1>0, <1>1, <1>5 DEF ReadToken, Becomes, TypeOK, OpType
  <2>2. t \in Sends /\ Achieved(op[o], t)
    BY <1>0, <1>1, <2>1
  <2>3. SessionOf[t] = s
    BY <2>2 DEF Achieved
  <2>4. op[o].kind \in {"pause", "delete"} => pc[t] \in Over \cup Owning
    BY <2>1, <2>2 DEF Achieved
  <2>5. pc[t] \in Owning => t = active[s]
    BY <1>0, <2>2, <2>3 DEF ActiveOwned
  <2> QED
    BY <2>1, <2>3, <2>4, <2>5 DEF Achieved
<1>6. CASE CancelToken(o)
  <2>1. /\ op[o].at = "cancel" /\ pc' = pc
        /\ op'[o].session = op[o].session /\ op'[o].kind = op[o].kind
        /\ op'[o].before = op[o].before
        /\ op'[o].at \in {"remove", "returned"}
        /\ cancelled' = cancelled \cup ({op[o].tok} \ {None})
    BY <1>0, <1>1, <1>6 DEF CancelToken, Becomes, TypeOK, OpType
  <2>2. t \in Sends /\ t # None /\ Achieved(op[o], t)
    BY <1>0, <1>1, <2>1
  <2> QED
    BY <2>1, <2>2 DEF Achieved
<1>7. CASE RemoveSession(o)
  <2>1. /\ op[o].at = "remove" /\ pc' = pc /\ cancelled' = cancelled
        /\ op'[o].session = op[o].session /\ op'[o].kind = op[o].kind
        /\ op'[o].before = op[o].before /\ op'[o].at = "returned"
    BY <1>0, <1>1, <1>7 DEF RemoveSession, Becomes, TypeOK, OpType
  <2>2. Achieved(op[o], t)
    BY <1>0, <2>1
  <2> QED
    BY <2>1, <2>2 DEF Achieved
<1>8. ASSUME NEW p \in Ops, p # o,
             \/ Operate(p)
             \/ \E s \in Sessions : CancelSend(p, s) \/ \E k \in OpKinds : StopLive(p, s, k)
      PROVE  op'[o] = op[o]
  BY <1>0, <1>8 DEF Operate, FlushSendQueue, ReadToken, CancelToken, RemoveSession,
                    CancelSend, StopLive, Becomes, TypeOK
<1>9. ASSUME NEW u \in Sends, Check(u) \/ Advance(u) PROVE op' = op
  BY <1>9 DEF Advance, Check, Claim, Queue, QueueFull, Start, SendOk, SendFail,
              PublishFailure, Idle, ReleaseAndPromote, ReleaseOnly, PromotedFound,
              PromotedVanished, PublishExit, StreamClosed
<1>10. CASE \E s \in Sessions : Appear(s) \/ Vanish(s)
  BY <1>2, <1>10 DEF Appear, Vanish
<1>11. CASE UNCHANGED vars
  BY <1>2, <1>11 DEF vars
<1> QED
  BY <1>2, <1>3, <1>4, <1>5, <1>6, <1>7, <1>8, <1>9, <1>10, <1>11 DEF Next, Operate

-----------------------------------------------------------------------------
(* The theorems.                                                           *)

\* The router starts in the invariant.
LEMMA InitInv == Init => RouterInv
<1> SUFFICES ASSUME Init PROVE RouterInv
  OBVIOUS
<1> USE DEF Init
<1>1. TypeOK
  BY EmptyFacts DEF TypeOK, PCs, OpType, OpKinds, NoOp
<1>2. ActiveOwned /\ NoStrandedQueue
  BY DEF ActiveOwned, NoStrandedQueue, Owning
<1>3. QueueExact
  BY EmptyFacts DEF QueueExact
<1>4. TicketOrder
  BY DEF TicketOrder, Submitted
<1>5. StopProgress
  BY DEF StopProgress, NoOp
<1> QED
  BY <1>1, <1>2, <1>3, <1>4, <1>5 DEF RouterInv

\* RouterInv holds in every reachable state, whatever the sends, sessions,
\* stops and queue bound: the strengthening the properties below rest on.
THEOREM RouterInvariant == Spec => []RouterInv
<1>1. RouterInv /\ [Next]_vars => RouterInv'
  BY TypeStep, ActiveStep, StrandStep, QueueStep, TicketStep, StopStep DEF RouterInv
<1> QED
  BY <1>1, InitInv, PTL DEF Spec

\* Every variable of the router keeps its type.
THEOREM RouterTypes == Spec => []TypeOK
BY RouterInvariant, PTL DEF RouterInv

\* Turns of one session never overlap: enqueueSend's serialization claim.
THEOREM Serialized == Spec => []TurnsSerialized
<1>1. RouterInv => TurnsSerialized
  BY DEF RouterInv, ActiveOwned, TurnsSerialized, Same
<1> QED
  BY <1>1, RouterInvariant, PTL

\* A waiting send always has a turn in front of it that owes a releaseSend.
THEOREM NeverStranded == Spec => []NoStrandedQueue
BY RouterInvariant, PTL DEF RouterInv

\* Sends start in the order sendMu accepted them.
THEOREM Fifo == Spec => []StartedInOrder
<1>1. RouterInv => StartedInOrder
  <2> SUFFICES ASSUME RouterInv, NEW t \in Sends, NEW u \in Sends, Same(t, u),
                      ticket[t] < ticket[u], pc[u] \in Running \cup {"draining"},
                      pc[t] \in {"queued", "promoted", "claimed"}
               PROVE  FALSE
    BY DEF StartedInOrder
  <2>1. pc[u] # "queued" /\ Submitted(u)
    BY DEF Running, Submitted
  <2>2. ticket[u] < ticket[t]
    BY <2>1 DEF RouterInv, TicketOrder
  <2>3. ticket[t] \in Nat /\ ticket[u] \in Nat
    BY DEF RouterInv, TypeOK
  <2> QED
    BY <2>2, <2>3
<1> QED
  BY <1>1, RouterInvariant, PTL

\* When PauseSession or DeleteSession returns, nothing it found still runs
\* uncancelled.
THEOREM StopsReach == Spec => []StopReachesEverySend
<1>1. RouterInv => StopReachesEverySend
  BY DEF RouterInv, StopProgress, StopReachesEverySend
<1> QED
  BY <1>1, RouterInvariant, PTL

-----------------------------------------------------------------------------
(* The router implements the lane.                                         *)

Fresh == {t \in Sends : pc[t] \in {"new", "locking"}}

\* Each step of the router is a step of the lane or leaves it alone: a claim
\* serves, a push joins, markSendIdle finishes, releaseSend hands over or
\* finishes, a flush drops.
LEMMA LaneStep == RouterInv /\ [Next]_vars => [Lane!Next]_Lane!lane
<1> SUFFICES ASSUME RouterInv, [Next]_vars PROVE [Lane!Next]_Lane!lane
  OBVIOUS
<1>0. TypeOK /\ LaneTypes /\ ActiveOwned /\ QueueExact
  BY DEF RouterInv, TypeOK, LaneTypes
<1>1. ASSUME NEW t \in Sends, SendStep(t) PROVE [Lane!Next]_Lane!lane
  <2>0. SessionOf[t] \in Sessions
    OBVIOUS
  <2>1. CASE Move(t)
    <3>1. \A u \in Sends : u # t => pc'[u] = pc[u]
      BY <1>0, <2>1 DEF Move, LaneTypes
    <3>2. active' = active /\ queue' = queue
      BY <2>1 DEF Move
    <3>3. CASE pc'[t] = "rejected"
      <4>1. pc[t] \in {"new", "locking"}
        BY <2>1, <3>3 DEF Move, Moves
      <4>2. Fresh' = Fresh \ {t} /\ t \in Fresh
        BY <3>1, <3>3, <4>1 DEF Fresh
      <4>3. Lane!Refuse(t)
        BY <3>2, <4>2 DEF Lane!Refuse, Fresh
      <4> QED
        BY <4>3 DEF Lane!Next
    <3>4. CASE pc'[t] # "rejected"
      <4>1. pc[t] \in {"new", "locking"} <=> pc'[t] \in {"new", "locking"}
        BY <2>1, <3>4 DEF Move, Moves
      <4>2. Fresh' = Fresh
        BY <3>1, <4>1 DEF Fresh
      <4> QED
        BY <3>2, <4>2 DEF Lane!lane, Fresh
    <3> QED
      BY <3>3, <3>4
  <2>2. CASE Claim(t)
    <3>1. pc[t] = "locking" /\ pc'[t] = "claimed" /\ \A u \in Sends : u # t => pc'[u] = pc[u]
      BY <1>0, <2>2 DEF Claim, At, Go, LaneTypes
    <3>2. Fresh' = Fresh \ {t} /\ t \in Fresh
      BY <3>1 DEF Fresh
    <3>3. Lane!ServeNow(t)
      BY <2>2, <3>2 DEF Claim, Busy, Lane!ServeNow, Fresh
    <3> QED
      BY <3>3 DEF Lane!Next
  <2>3. CASE Queue(t)
    <3>1. pc[t] = "locking" /\ pc'[t] = "queued" /\ \A u \in Sends : u # t => pc'[u] = pc[u]
      BY <1>0, <2>3 DEF Queue, At, Go, LaneTypes
    <3>2. Fresh' = Fresh \ {t} /\ t \in Fresh
      BY <3>1 DEF Fresh
    <3>3. Lane!Join(t)
      BY <2>3, <3>2 DEF Queue, Lane!Join, Fresh
    <3> QED
      BY <3>3 DEF Lane!Next
  <2>4. CASE Clear(t)
    <3>1. /\ pc[t] \in {"sending", "exited"} /\ pc'[t] \in {"failing", "draining"}
          /\ \A u \in Sends : u # t => pc'[u] = pc[u]
          /\ queue' = queue
      BY <1>0, <2>4 DEF Clear, LaneTypes
    <3>2. Fresh' = Fresh
      BY <3>1 DEF Fresh
    <3>3. active[SessionOf[t]] = t
      BY <1>0, <3>1 DEF ActiveOwned, Owning
    <3>4. active' = [active EXCEPT ![SessionOf[t]] = None]
      BY <2>4, <3>3 DEF Clear, MarkSendIdle
    <3>5. Lane!Finish(SessionOf[t])
      BY <3>1, <3>2, <3>3, <3>4 DEF Lane!Finish, Fresh
    <3> QED
      BY <2>0, <3>5 DEF Lane!Next
  <2>5. CASE ReleaseOnly(t)
    <3> DEFINE s == SessionOf[t]
    <3>1. /\ pc[t] = "releasing" /\ pc'[t] = "done" /\ queue' = queue
          /\ \A u \in Sends : u # t => pc'[u] = pc[u]
          /\ active' = [active EXCEPT ![s] = Freed(t)]
      BY <1>0, <2>5 DEF ReleaseOnly, At, Go, LaneTypes
    <3>2. Fresh' = Fresh
      BY <3>1 DEF Fresh
    <3>3. CASE active[s] = t
      <4>1. Lane!Finish(s)
        BY <3>1, <3>2, <3>3 DEF Lane!Finish, Fresh, Freed
      <4> QED
        BY <2>0, <4>1 DEF Lane!Next
    <3>4. CASE active[s] # t
      <4>1. active' = active
        BY <1>0, <2>0, <3>1, <3>4 DEF Freed, LaneTypes
      <4> QED
        BY <3>1, <3>2, <4>1 DEF Lane!lane, Fresh
    <3> QED
      BY <3>3, <3>4
  <2>6. CASE ReleaseAndPromote(t)
    <3> DEFINE s == SessionOf[t]
               n == Head(queue[s])
    <3>1. queue[s] # <<>>
      BY <2>6 DEF ReleaseAndPromote, Promotes
    <3>2. n \in Sends /\ pc[n] = "queued"
      BY <1>0, <2>0, <3>1, TailFacts DEF QueueExact, LaneTypes
    <3>3. /\ pc[t] = "releasing" /\ pc'[t] = "done" /\ pc'[n] = "promoted"
          /\ \A u \in Sends : u # t /\ u # n => pc'[u] = pc[u]
      BY <1>0, <2>6, <3>2 DEF ReleaseAndPromote, At, LaneTypes
    <3>4. Fresh' = Fresh
      BY <3>2, <3>3 DEF Fresh
    <3>5. Lane!Handover(s)
      BY <2>6, <3>1, <3>4 DEF ReleaseAndPromote, Lane!Handover, Fresh
    <3> QED
      BY <2>0, <3>5 DEF Lane!Next
  <2> QED
    BY <1>1, <2>1, <2>2, <2>3, <2>4, <2>5, <2>6 DEF SendStep
<1>2. ASSUME NEW s \in Sessions, Flush(s) PROVE [Lane!Next]_Lane!lane
  <2>1. Fresh' = Fresh /\ active' = active /\ queue' = [queue EXCEPT ![s] = <<>>]
    BY <1>2 DEF Flush, Fresh
  <2>2. CASE queue[s] # <<>>
    <3>1. Lane!Drop(s)
      BY <2>1, <2>2 DEF Lane!Drop, Fresh
    <3> QED
      BY <3>1 DEF Lane!Next
  <2>3. CASE queue[s] = <<>>
    <3>1. queue' = queue
      BY <1>0, <2>1, <2>3 DEF LaneTypes
    <3> QED
      BY <2>1, <3>1 DEF Lane!lane, Fresh
  <2> QED
    BY <2>2, <2>3
<1>3. CASE UNCHANGED <<active, queue, pc, ticket, tickets>>
  BY <1>3 DEF Lane!lane, Fresh
<1> QED
  BY <1>0, <1>1, <1>2, <1>3, StepCases

\* Router is a SendLane: what SendLane allows is all a frontend can observe of
\* activeSend and the queues.
THEOREM RouterIsLane == Spec => ImplementsLane
<1>1. Init => Lane!Init
  BY DEF Init, Lane!Init
<1> QED
  BY <1>1, RouterInvariant, LaneStep, PTL DEF Spec, Lane!Spec, ImplementsLane

-----------------------------------------------------------------------------
(* Relay.                                                                  *)

USE RelayAssumption

-----------------------------------------------------------------------------
(* Inboxes.                                                                *)

\* An event that is delivered comes last.
LEMMA Delivered ==
    ASSUME NEW q \in Seq(Event), NEW e \in Event
    PROVE  /\ Append(q, e) \in Seq(Event)
           /\ Len(Append(q, e)) = Len(q) + 1
           /\ \A i \in 1..Len(q) : Append(q, e)[i] = q[i]
           /\ Append(q, e)[Len(q) + 1] = e
           /\ {Append(q, e)[i] : i \in DOMAIN Append(q, e)} = {q[i] : i \in DOMAIN q} \cup {e}
<1> DEFINE r == Append(q, e)
<1>1. r \in Seq(Event) /\ Len(r) = Len(q) + 1 /\ r[Len(q) + 1] = e
  OBVIOUS
<1>2. \A i \in 1..Len(q) : r[i] = q[i]
  OBVIOUS
<1>3. DOMAIN r = 1..(Len(q) + 1) /\ DOMAIN q = 1..Len(q) /\ Len(q) \in Nat
  OBVIOUS
<1>4. \A i \in 1..(Len(q) + 1) : i \in 1..Len(q) \/ i = Len(q) + 1
  BY <1>3
<1>5. ASSUME NEW x PROVE x \in {r[i] : i \in DOMAIN r} => x \in {q[i] : i \in DOMAIN q} \cup {e}
  BY <1>1, <1>2, <1>3, <1>4
<1>6. ASSUME NEW x PROVE x \in {q[i] : i \in DOMAIN q} => x \in {r[i] : i \in DOMAIN r}
  <2>1. \A i \in DOMAIN q : i \in DOMAIN r
    BY <1>3
  <2> QED
    BY <1>2, <1>3, <2>1
<1>7. e \in {r[i] : i \in DOMAIN r}
  <2>1. Len(q) + 1 \in DOMAIN r
    BY <1>3
  <2> QED
    BY <1>1, <2>1
<1> HIDE DEF r
<1>8. {r[i] : i \in DOMAIN r} = {q[i] : i \in DOMAIN q} \cup {e}
  BY <1>5, <1>6, <1>7
<1> QED
  BY <1>1, <1>2, <1>8 DEF r

\* Reading takes the head; the rest moves up.
LEMMA ReadOne ==
    ASSUME NEW q \in Seq(Event), q # <<>>
    PROVE  /\ Head(q) = q[1] /\ Head(q) \in Event /\ 1 \in DOMAIN q
           /\ Tail(q) \in Seq(Event)
           /\ Len(Tail(q)) = Len(q) - 1 /\ Len(q) \in Nat
           /\ \A i \in 1..Len(Tail(q)) : Tail(q)[i] = q[i + 1] /\ i + 1 \in 1..Len(q)
           /\ \A i \in 1..Len(q) : i # 1 => i - 1 \in 1..Len(Tail(q)) /\ Tail(q)[i - 1] = q[i]
           /\ {Tail(q)[i] : i \in DOMAIN Tail(q)} \subseteq {q[i] : i \in DOMAIN q}
<1>1. /\ Head(q) = q[1] /\ Head(q) \in Event /\ 1 \in DOMAIN q
      /\ Tail(q) \in Seq(Event)
      /\ Len(Tail(q)) = Len(q) - 1 /\ Len(q) \in Nat
  OBVIOUS
<1>2. \A i \in 1..Len(Tail(q)) : Tail(q)[i] = q[i + 1] /\ i + 1 \in 1..Len(q)
  OBVIOUS
<1>3. \A i \in 1..Len(q) : i # 1 => i - 1 \in 1..Len(Tail(q)) /\ Tail(q)[i - 1] = q[i]
  OBVIOUS
<1>4. DOMAIN Tail(q) = 1..Len(Tail(q)) /\ DOMAIN q = 1..Len(q)
  BY <1>1
<1> QED
  BY <1>1, <1>2, <1>3, <1>4

-----------------------------------------------------------------------------
(* Steps.                                                                  *)

\* A turn publishes an event of the type, and the router takes its step.
Speaks(t, type) ==
    \/ type = "part" /\ pc[t] = "streaming" /\ UNCHANGED vars
    \/ type = "error" /\ pc[t] \in {"streaming", "draining"} /\ UNCHANGED vars
    \/ type = "exit" /\ PublishExit(t)
    \/ type = "error" /\ PublishFailure(t)

\* The sends of S are dropped from the queue or find their session gone.
Aborted(S) ==
    \A t \in S : /\ pc[t] \in {"queued", "promoted"}
                 /\ pc'[t] \in {"dropped", "releasing"}

\* Every step is one of the router, and one of five of the relays.
LEMMA RelaySteps ==
    ASSUME RTypeOK, RouterInv, [RNext]_allVars
    PROVE  /\ [Next]_vars
           /\ \/ UNCHANGED relayVars
              \/ \E t \in Sends, type \in EventTypes : Speaks(t, type) /\ Publish(t, type)
              \/ \E t \in Sends : RStart(t)
              \/ \E S \in SUBSET Sends : Aborted(S) /\ Abort(S)
              \/ \E c \in Relayed : (Collect(c) \/ Expire(c))
<1> USE DEF EventTypes
<1>1. CASE UNCHANGED allVars
  BY <1>1 DEF allVars
<1>2. ASSUME NEW t \in Sends, RPart(t) \/ RError(t)
      PROVE  UNCHANGED vars /\ \E type \in EventTypes : Speaks(t, type) /\ Publish(t, type)
  BY <1>2 DEF RPart, RError, Speaks, At
<1>3. ASSUME NEW t \in Sends, RExit(t) \/ RFailure(t)
      PROVE  Next /\ \E type \in EventTypes : Speaks(t, type) /\ Publish(t, type)
  BY <1>3 DEF RExit, RFailure, Speaks, Next, Advance
<1>4. ASSUME NEW t \in Sends, RStart(t) PROVE Next
  BY <1>4 DEF RStart, Next, Advance
<1>5. ASSUME NEW t \in Sends, RClosed(t) PROVE Next /\ UNCHANGED relayVars
  BY <1>5 DEF RClosed, Next, Advance
<1>6. ASSUME NEW t \in Sends, RVanished(t)
      PROVE  Next /\ \E S \in SUBSET Sends : Aborted(S) /\ Abort(S)
  <2>1. Next
    BY <1>6 DEF RVanished, Next, Advance
  <2>2. Aborted({t})
    BY <1>6 DEF RVanished, PromotedVanished, Aborted, At, Go, RTypeOK, TypeOK
  <2> QED
    BY <1>6, <2>1, <2>2 DEF RVanished
<1>7. ASSUME NEW t \in Sends, Silent(t) PROVE Next
  BY <1>7 DEF Silent, Next, Advance
<1>8. ASSUME NEW o \in Ops, RFlush(o)
      PROVE  Next /\ \E S \in SUBSET Sends : Aborted(S) /\ Abort(S)
  <2>1. Next
    BY <1>8 DEF RFlush, Next, Operate
  <2>2. op[o].session \in Sessions
    BY <1>8 DEF RFlush, FlushSendQueue, RTypeOK, TypeOK
  <2>3. ASSUME NEW t \in InQueue(op[o].session) PROVE pc[t] = "queued" /\ pc'[t] = "dropped"
    <3> DEFINE q == queue[op[o].session]
    <3>1. t \in Sends /\ \E i \in DOMAIN q : q[i] = t
      BY DEF InQueue
    <3>2. q \in Seq(Sends)
      BY <2>2 DEF RTypeOK, TypeOK
    <3>3. \E i \in 1..Len(q) : q[i] = t
      BY <3>1, <3>2
    <3>4. pc[t] = "queued"
      BY <2>2, <3>3 DEF RouterInv, QueueExact
    <3>5. pc'[t] = "dropped"
      BY <1>8, <3>1 DEF RFlush, FlushSendQueue
    <3> QED
      BY <3>4, <3>5
  <2>4. InQueue(op[o].session) \in SUBSET Sends
    BY DEF InQueue
  <2>5. Aborted(InQueue(op[o].session))
    BY <2>3 DEF Aborted
  <2> QED
    BY <1>8, <2>1, <2>4, <2>5 DEF RFlush
<1>9. ASSUME NEW o \in Ops, SilentOp(o) PROVE Next
  BY <1>9 DEF SilentOp, Next, Operate
<1>10. ASSUME NEW s \in Sessions, Appear(s) \/ Vanish(s) PROVE Next
  BY <1>10 DEF Next
<1>11. ASSUME NEW c \in Relayed, Collect(c) \/ Expire(c) PROVE UNCHANGED vars
  BY <1>11 DEF Collect, Expire
<1> QED
  BY <1>1, <1>2, <1>3, <1>4, <1>5, <1>6, <1>7, <1>8, <1>9, <1>10, <1>11 DEF RNext, TurnStep

\* The ways of a send.
Ways == Moves \cup {<<"locking", "claimed">>, <<"locking", "queued">>, <<"queued", "promoted">>,
                    <<"queued", "dropped">>, <<"sending", "failing">>, <<"exited", "draining">>,
                    <<"releasing", "done">>}

LEMMA PcStep ==
    ASSUME RouterInv, [Next]_vars, NEW t \in Sends
    PROVE  pc'[t] = pc[t] \/ <<pc[t], pc'[t]>> \in Ways
<1>0. TypeOK /\ LaneTypes /\ QueueExact
  BY DEF RouterInv, TypeOK, LaneTypes
<1> USE DEF Ways
<1>1. ASSUME NEW u \in Sends, SendStep(u) PROVE pc'[t] = pc[t] \/ <<pc[t], pc'[t]>> \in Ways
  <2>1. CASE Move(u)
    BY <1>0, <2>1 DEF Move, LaneTypes
  <2>2. CASE Claim(u) \/ Queue(u)
    BY <1>0, <2>2 DEF Claim, Queue, At, Go, LaneTypes
  <2>3. CASE Clear(u) \/ ReleaseOnly(u)
    BY <1>0, <2>3 DEF Clear, ReleaseOnly, At, Go, LaneTypes
  <2>4. CASE ReleaseAndPromote(u)
    <3> DEFINE n == Head(queue[SessionOf[u]])
    <3>1. n \in Sends /\ pc[n] = "queued"
      BY <1>0, <2>4, TailFacts DEF ReleaseAndPromote, Promotes, QueueExact, LaneTypes
    <3> QED
      BY <1>0, <2>4, <3>1 DEF ReleaseAndPromote, At, LaneTypes
  <2> QED
    BY <1>1, <2>1, <2>2, <2>3, <2>4 DEF SendStep
<1>2. ASSUME NEW s \in Sessions, Flush(s)
      PROVE  pc'[t] = pc[t] \/ (pc[t] = "queued" /\ pc'[t] = "dropped")
  BY <1>2 DEF Flush
<1> QED
  BY <1>0, <1>1, <1>2, StepCases

\* Only a send that takes its place gets a ticket, and it is the latest.
LEMMA TicketDrawn ==
    ASSUME RouterInv, [Next]_vars, NEW t \in Sends
    PROVE  \/ ticket'[t] = ticket[t]
           \/ pc[t] = "locking" /\ ticket'[t] = tickets + 1
<1>0. TypeOK /\ LaneTypes /\ QueueExact
  BY DEF RouterInv, TypeOK, LaneTypes
<1>1. ASSUME NEW u \in Sends, SendStep(u)
      PROVE  \/ ticket'[t] = ticket[t]
             \/ pc[t] = "locking" /\ ticket'[t] = tickets + 1
  BY <1>0, <1>1 DEF SendStep, Move, Clear, Claim, Queue, ReleaseOnly, ReleaseAndPromote, Stamp, At, TypeOK
<1>2. ASSUME NEW s \in Sessions, Flush(s) PROVE ticket'[t] = ticket[t]
  BY <1>2 DEF Flush
<1> QED
  BY <1>0, <1>1, <1>2, StepCases

\* A turn that has started stays so, and keeps its ticket.
LEMMA StartedStays ==
    ASSUME RouterInv, [Next]_vars, NEW t \in Sends, pc[t] \in Started
    PROVE  pc'[t] \in Started /\ ticket'[t] = ticket[t] /\ ticket[t] \in Nat
<1>1. pc'[t] \in Started
  BY PcStep DEF Ways, Moves, Started, Running
<1>2. ticket'[t] = ticket[t]
  BY TicketDrawn DEF Started, Running
<1>3. ticket[t] \in Nat
  BY DEF RouterInv, TypeOK
<1> QED
  BY <1>1, <1>2, <1>3

-----------------------------------------------------------------------------
(* YoungerWaits.                                                           *)

LEMMA YoungerStep ==
    ASSUME RouterInv, YoungerWaits, [Next]_vars
    PROVE  YoungerWaits'
<1>0. /\ TypeOK /\ LaneTypes /\ QueueExact /\ ActiveOwned /\ TicketOrder
      /\ ticket \in [Sends -> Nat] /\ tickets \in Nat
  BY DEF RouterInv, TypeOK, LaneTypes
<1>1. ASSUME NEW t \in Sends, pc'[t] \in {"new", "locking", "rejected"} PROVE ticket'[t] = 0
  <2>1. pc[t] \in {"new", "locking", "rejected"}
    BY <1>1, PcStep DEF Ways, Moves
  <2>2. ticket[t] = 0
    BY <2>1 DEF YoungerWaits, Submitted
  <2>3. ASSUME NEW u \in Sends, SendStep(u) PROVE ticket'[t] = ticket[t]
    BY <1>0, <1>1, <2>3 DEF SendStep, Move, Clear, Claim, Queue, ReleaseOnly, ReleaseAndPromote,
                            Stamp, At, Go, LaneTypes
  <2>4. ASSUME NEW s \in Sessions, Flush(s) PROVE ticket'[t] = ticket[t]
    BY <2>4 DEF Flush
  <2> QED
    BY <1>0, <2>2, <2>3, <2>4, StepCases
<1>2. ASSUME NEW t \in Sends, NEW u \in Sends, Same(t, u), pc'[t] \in Owning,
             ticket'[t] < ticket'[u]
      PROVE  pc'[u] \in {"queued", "dropped"}
  <2> USE DEF Owning
  <2>1. pc[t] \in Owning /\ ticket[t] < ticket[u] => pc[u] \in {"queued", "dropped"}
    BY <1>2 DEF YoungerWaits
  <2>2. t # u /\ SessionOf[t] = SessionOf[u] /\ SessionOf[t] \in Sessions
    BY <1>2 DEF Same
  <2>3. pc[t] \in Owning => active[SessionOf[t]] = t
    BY <1>0 DEF ActiveOwned
  <2>4. ASSUME NEW w \in Sends, SendStep(w) PROVE pc'[u] \in {"queued", "dropped"}
    <3>1. CASE Move(w)
      BY <1>0, <1>2, <2>1, <2>2, <3>1 DEF Move, Moves, LaneTypes
    <3>2. CASE Claim(w)
      <4>1. w # u => ticket'[u] = ticket[u] /\ pc'[u] = pc[u]
        BY <1>0, <3>2 DEF Claim, Stamp, Go, LaneTypes
      <4>2. CASE w = t
        <5>1. ticket'[t] = tickets + 1
          BY <1>0, <3>2, <4>2 DEF Claim, Stamp
        <5>2. ticket[u] <= tickets /\ ticket[u] \in Nat
          BY <1>0 DEF TicketOrder
        <5> QED
          BY <1>0, <1>2, <2>2, <4>1, <4>2, <5>1, <5>2
      <4>3. CASE w # t
        <5>1. pc'[t] = pc[t] /\ ticket'[t] = ticket[t]
          BY <1>0, <3>2, <4>3 DEF Claim, Stamp, Go, LaneTypes
        <5>2. active[SessionOf[t]] = t /\ t # None
          BY <1>2, <2>3, <5>1
        <5>3. w # u
          BY <2>2, <3>2, <5>2 DEF Claim, Busy
        <5> QED
          BY <1>2, <2>1, <4>1, <5>1, <5>3
      <4> QED
        BY <4>2, <4>3
    <3>3. CASE Queue(w)
      <4>1. w # t
        BY <1>0, <1>2, <3>3 DEF Queue, Go, LaneTypes
      <4>2. pc'[t] = pc[t] /\ ticket'[t] = ticket[t]
        BY <1>0, <3>3, <4>1 DEF Queue, Stamp, Go, LaneTypes
      <4>3. CASE w = u
        BY <1>0, <3>3, <4>3 DEF Queue, Go, LaneTypes
      <4>4. CASE w # u
        BY <1>0, <1>2, <2>1, <3>3, <4>2, <4>4 DEF Queue, Stamp, Go, LaneTypes
      <4> QED
        BY <4>3, <4>4
    <3>4. CASE Clear(w) \/ ReleaseOnly(w)
      BY <1>0, <1>2, <2>1, <2>2, <3>4 DEF Clear, ReleaseOnly, At, Go, LaneTypes
    <3>5. CASE ReleaseAndPromote(w)
      <4> DEFINE s == SessionOf[w]
                 n == Head(queue[s])
      <4>1. n \in Sends /\ pc[n] = "queued" /\ SessionOf[n] = s
        BY <1>0, <3>5, TailFacts DEF ReleaseAndPromote, Promotes, QueueExact, LaneTypes
      <4>2. /\ pc' = [pc EXCEPT ![w] = "done", ![n] = "promoted"] /\ pc[w] = "releasing"
            /\ ticket' = ticket /\ (active[s] = w \/ active[s] = None)
        BY <3>5 DEF ReleaseAndPromote, Promotes, Freed, At
      <4> HIDE DEF n
      <4>3. t # w
        BY <1>0, <1>2, <4>1, <4>2 DEF LaneTypes
      <4>4. CASE t = n
        <5>1. pc[u] # "queued" => ~Submitted(u) \/ ticket[u] < ticket[t]
          BY <1>0, <1>2, <4>1, <4>4 DEF TicketOrder, Same
        <5>2. ~Submitted(u) => ticket[u] = 0
          BY DEF YoungerWaits
        <5>3. ticket[t] < ticket[u] /\ ticket[t] \in Nat /\ ticket[u] \in Nat
          BY <1>0, <1>2, <4>2
        <5>4. pc[u] = "queued"
          BY <5>1, <5>2, <5>3
        <5> QED
          BY <1>0, <2>2, <4>1, <4>2, <4>4, <5>4 DEF LaneTypes
      <4>5. CASE t # n
        <5>1. pc'[t] = pc[t]
          BY <1>0, <4>1, <4>2, <4>3, <4>5 DEF LaneTypes
        <5>2. active[SessionOf[t]] = t
          BY <1>2, <2>3, <5>1
        <5>3. u # n
          BY <2>2, <4>1, <4>2, <4>3, <5>2
        <5>4. pc[u] \in {"queued", "dropped"}
          BY <1>2, <2>1, <4>2, <5>1
        <5> QED
          BY <1>0, <4>1, <4>2, <5>3, <5>4 DEF LaneTypes
      <4> QED
        BY <4>4, <4>5
    <3> QED
      BY <2>4, <3>1, <3>2, <3>3, <3>4, <3>5 DEF SendStep
  <2>5. ASSUME NEW s \in Sessions, Flush(s) PROVE pc'[u] \in {"queued", "dropped"}
    BY <1>2, <2>1, <2>5 DEF Flush
  <2> QED
    BY <1>0, <1>2, <2>1, <2>4, <2>5, StepCases
<1> QED
  BY <1>1, <1>2 DEF YoungerWaits, Submitted, Same

-----------------------------------------------------------------------------
(* RTypeOK, OneOutcome, OlderOver.                                         *)

\* Whoever has not started has no collector and has called onDone only if it
\* was dropped.
LEMMA Unstarted ==
    ASSUME OneOutcome, NEW c \in Relayed, pc[c] \notin Started
    PROVE  collector[c] = "none" /\ (pc[c] # "dropped" => onDone[c] = 0)
BY DEF OneOutcome

\* Collect ends on the event or takes its text.
LEMMA CollectCases ==
    ASSUME RTypeOK, NEW c \in Relayed, Collect(c)
    PROVE  /\ inbox[c][1] \in Event /\ 1 \in 1..Len(inbox[c])
           /\ collector[c] = "collecting"
           /\ UNCHANGED <<vars, emitted, lost>>
           /\ \/ /\ Ends(inbox[c][1])
                 /\ collector' = [collector EXCEPT ![c] = "done"]
                 /\ endedBy' = [endedBy EXCEPT ![c] = inbox[c][1]]
                 /\ onDone' = [onDone EXCEPT ![c] = @ + 1]
                 /\ inbox' = [inbox EXCEPT ![c] = <<>>]
                 /\ UNCHANGED taken
              \/ /\ ~Ends(inbox[c][1])
                 /\ taken' = [taken EXCEPT ![c] = @ \cup {inbox[c][1].from}]
                 /\ inbox' = [inbox EXCEPT ![c] = Tail(@)]
                 /\ UNCHANGED <<collector, endedBy, onDone>>
<1>1. inbox[c] \in Seq(Event) /\ inbox[c] # <<>>
  BY DEF RTypeOK, Collect
<1>2. Head(inbox[c]) = inbox[c][1] /\ inbox[c][1] \in Event /\ 1 \in 1..Len(inbox[c])
  BY <1>1, ReadOne
<1> QED
  BY <1>2 DEF Collect

LEMMA RTypeStep == RTypeOK /\ OneOutcome /\ RouterInv /\ [RNext]_allVars => RTypeOK'
<1> SUFFICES ASSUME RTypeOK, OneOutcome, RouterInv, [RNext]_allVars PROVE RTypeOK'
  OBVIOUS
<1>1. TypeOK'
  BY RelaySteps, TypeStep DEF RTypeOK
<1>2. CASE UNCHANGED relayVars
  BY <1>1, <1>2 DEF RTypeOK, relayVars
<1>3. ASSUME NEW t \in Sends, NEW type \in EventTypes, Publish(t, type) PROVE RTypeOK'
  <2> DEFINE e == [type |-> type, from |-> t]
  <2>1. e \in Event
    BY DEF Event
  <2>2. ASSUME NEW c \in Relayed
        PROVE  inbox'[c] \in Seq(Event) /\ Len(inbox'[c]) <= ChanCap
    <3>1. inbox[c] \in Seq(Event) /\ Len(inbox[c]) \in Nat /\ Len(inbox[c]) <= ChanCap
      BY DEF RTypeOK
    <3>2. inbox'[c] = IF Subscribed(c, t) /\ HasRoom(c) THEN Append(inbox[c], e) ELSE inbox[c]
      BY <1>3 DEF Publish
    <3> HIDE DEF e
    <3> QED
      BY <2>1, <3>1, <3>2, Delivered DEF HasRoom
  <2>3. inbox' \in [Relayed -> Seq(Event)]
    <3>1. inbox' = [c \in Relayed |-> inbox'[c]]
      BY <1>3 DEF Publish
    <3> QED
      BY <2>2, <3>1
  <2>4. emitted' \in [Sends -> SUBSET EventTypes] /\ lost' \in [Relayed -> SUBSET EventTypes]
    BY <1>3 DEF Publish, RTypeOK
  <2> QED
    BY <1>1, <1>3, <2>2, <2>3, <2>4 DEF Publish, RTypeOK
<1>4. ASSUME NEW t \in Sends, RStart(t) PROVE RTypeOK'
  BY <1>1, <1>4 DEF RStart, RTypeOK
<1>5. ASSUME NEW S \in SUBSET Sends, Aborted(S), Abort(S) PROVE RTypeOK'
  <2>1. ASSUME NEW c \in Relayed PROVE onDone'[c] \in 0..1
    <3>1. CASE c \in S
      <4>1. onDone[c] = 0
        BY <1>5, <3>1, Unstarted DEF Aborted, Started, Running
      <4> QED
        BY <1>5, <3>1, <4>1 DEF Abort
    <3>2. CASE c \notin S
      BY <1>5, <3>2 DEF Abort, RTypeOK
    <3> QED
      BY <3>1, <3>2
  <2>2. onDone' \in [Relayed -> 0..1]
    <3>1. onDone' = [c \in Relayed |-> onDone'[c]]
      BY <1>5 DEF Abort
    <3> QED
      BY <2>1, <3>1
  <2> QED
    BY <1>1, <1>5, <2>2 DEF Abort, RTypeOK
<1>6. ASSUME NEW c \in Relayed, Collect(c) PROVE RTypeOK'
  <2> DEFINE e == inbox[c][1]
  <2>1. inbox[c] \in Seq(Event) /\ inbox[c] # <<>> /\ Len(inbox[c]) <= ChanCap
    BY <1>6 DEF RTypeOK, Collect
  <2>2. e \in Event /\ Tail(inbox[c]) \in Seq(Event) /\ Len(Tail(inbox[c])) <= ChanCap
    BY <2>1, ReadOne
  <2>3. e.from \in Sends /\ e \in [type : EventTypes, from : Sends \cup {None}]
    BY <2>2 DEF Event
  <2>4. onDone[c] = 0
    BY <1>6 DEF Collect, OneOutcome
  <2>5. <<>> \in Seq(Event) /\ Len(<<>>) <= ChanCap
    OBVIOUS
  <2> HIDE DEF e
  <2>6. CASE /\ collector' = [collector EXCEPT ![c] = "done"] /\ endedBy' = [endedBy EXCEPT ![c] = e]
             /\ onDone' = [onDone EXCEPT ![c] = @ + 1] /\ inbox' = [inbox EXCEPT ![c] = <<>>]
             /\ UNCHANGED <<taken, emitted, lost>>
    BY <1>1, <2>3, <2>4, <2>5, <2>6 DEF RTypeOK
  <2>7. CASE /\ taken' = [taken EXCEPT ![c] = @ \cup {e.from}] /\ inbox' = [inbox EXCEPT ![c] = Tail(@)]
             /\ UNCHANGED <<collector, endedBy, onDone, emitted, lost>>
    BY <1>1, <2>2, <2>3, <2>7 DEF RTypeOK
  <2> QED
    BY <1>6, <2>6, <2>7, CollectCases DEF e
<1>7. ASSUME NEW c \in Relayed, Expire(c) PROVE RTypeOK'
  <2>1. onDone[c] = 0
    BY <1>7 DEF Expire, OneOutcome
  <2> QED
    BY <1>1, <1>7, <2>1 DEF Expire, RTypeOK
<1> QED
  BY <1>2, <1>3, <1>4, <1>5, <1>6, <1>7, RelaySteps

LEMMA OneOutcomeStep == RTypeOK /\ OneOutcome /\ RouterInv /\ [RNext]_allVars => OneOutcome'
<1> SUFFICES ASSUME RTypeOK, OneOutcome, RouterInv, [RNext]_allVars, NEW c \in Relayed
             PROVE  /\ collector'[c] = "none" => inbox'[c] = <<>> /\ taken'[c] = {} /\ endedBy'[c] = NoEvent
                    /\ collector'[c] # "none" => pc'[c] \in Started
                    /\ collector'[c] = "collecting" => onDone'[c] = 0 /\ endedBy'[c] = NoEvent
                    /\ pc'[c] \notin Started \cup {"dropped"} => onDone'[c] = 0
  BY DEF OneOutcome, NoEvent
<1>1. [Next]_vars
  BY RelaySteps
<1>2. /\ pc[c] \in Started => pc'[c] \in Started
      /\ pc'[c] \notin Started \cup {"dropped"} => pc[c] \notin Started \cup {"dropped"}
  <2>1. pc'[c] = pc[c] \/ <<pc[c], pc'[c]>> \in Ways
    BY <1>1, PcStep
  <2> QED
    BY <2>1 DEF Ways, Moves, Started, Running
<1>3. /\ collector[c] = "none" => inbox[c] = <<>> /\ taken[c] = {} /\ endedBy[c] = NoEvent
      /\ collector[c] # "none" => pc[c] \in Started
      /\ collector[c] = "collecting" => onDone[c] = 0 /\ endedBy[c] = NoEvent
      /\ pc[c] \notin Started \cup {"dropped"} => onDone[c] = 0
  BY DEF OneOutcome
<1>4. CASE UNCHANGED relayVars
  BY <1>2, <1>3, <1>4 DEF relayVars
<1>5. ASSUME NEW t \in Sends, NEW type \in EventTypes, Publish(t, type)
      PROVE  /\ UNCHANGED <<collector, taken, endedBy, onDone>>
             /\ collector[c] = "none" => inbox'[c] = inbox[c]
  BY <1>5 DEF Publish, Subscribed
<1>6. ASSUME NEW t \in Sends, RStart(t)
      PROVE  /\ UNCHANGED <<inbox, taken, endedBy, onDone>>
             /\ \/ collector'[c] = collector[c]
                \/ collector'[c] = "collecting" /\ pc[c] = "claimed" /\ pc'[c] = "sending"
  BY <1>6 DEF RStart, Start, At, Go, RTypeOK, TypeOK
<1>7. ASSUME NEW S \in SUBSET Sends, Aborted(S), Abort(S)
      PROVE  /\ UNCHANGED <<collector, inbox, taken, endedBy>>
             /\ \/ onDone'[c] = onDone[c]
                \/ pc[c] \in {"queued", "promoted"} /\ pc'[c] \in {"dropped", "releasing"}
  BY <1>7 DEF Aborted, Abort
<1>8. ASSUME NEW d \in Relayed, Collect(d) \/ Expire(d)
      PROVE  \/ UNCHANGED <<collector[c], inbox[c], taken[c], endedBy[c], onDone[c]>>
             \/ collector[c] = "collecting" /\ collector'[c] \in {"done", "expired"}
             \/ collector[c] = "collecting" /\ UNCHANGED <<collector, endedBy, onDone>>
  <2>1. CASE Collect(d)
    BY <2>1, CollectCases DEF RTypeOK
  <2>2. CASE Expire(d)
    BY <2>2 DEF Expire, RTypeOK
  <2> QED
    BY <1>8, <2>1, <2>2
<1> USE DEF Started, Running
<1>9. CASE \E t \in Sends, type \in EventTypes : Speaks(t, type) /\ Publish(t, type)
  BY <1>2, <1>3, <1>5, <1>9
<1>10. CASE \E t \in Sends : RStart(t)
  BY <1>2, <1>3, <1>6, <1>10
<1>11. CASE \E S \in SUBSET Sends : Aborted(S) /\ Abort(S)
  BY <1>2, <1>3, <1>7, <1>11
<1>12. CASE \E d \in Relayed : Collect(d) \/ Expire(d)
  BY <1>2, <1>3, <1>8, <1>12
<1> QED
  BY <1>4, <1>9, <1>10, <1>11, <1>12, RelaySteps

LEMMA OlderStep ==
    RTypeOK /\ OneOutcome /\ YoungerWaits /\ OlderOver /\ RouterInv /\ [RNext]_allVars => OlderOver'
<1> SUFFICES ASSUME RTypeOK, OneOutcome, YoungerWaits, OlderOver, RouterInv, [RNext]_allVars,
                    NEW c \in Relayed, NEW t \in Sends,
                    collector'[c] # "none", Same(t, c), ticket'[t] # 0, ticket'[t] < ticket'[c]
             PROVE  pc'[t] \in Over
  BY DEF OlderOver, Same
<1>1. [Next]_vars
  BY RelaySteps
<1>2. /\ ticket \in [Sends -> Nat] /\ tickets \in Nat /\ pc \in [Sends -> PCs]
      /\ \A u \in Sends : ticket[u] <= tickets
  BY DEF RouterInv, TypeOK, TicketOrder
<1>3. ASSUME pc[c] \in Started \cup {"claimed"}
      PROVE  ticket[t] < ticket[c] /\ ticket[t] # 0
  <2>1. ticket'[c] = ticket[c]
    BY <1>1, <1>3, TicketDrawn DEF Started, Running
  <2>2. ticket'[t] = ticket[t] \/ ticket'[t] = tickets + 1
    BY <1>1, TicketDrawn
  <2> QED
    BY <1>2, <2>1, <2>2
<1>4. CASE collector[c] # "none"
  <2>1. pc[t] \in Over
    BY <1>3, <1>4 DEF OneOutcome, OlderOver
  <2> QED
    BY <1>1, <2>1, PcStep DEF Ways, Moves, Over
<1>5. CASE collector[c] = "none"
  <2>1. RStart(c)
    <3>1. CASE UNCHANGED relayVars
      BY <1>5, <3>1 DEF relayVars
    <3>2. CASE \E u \in Sends, type \in EventTypes : Publish(u, type)
      BY <1>5, <3>2 DEF Publish
    <3>3. CASE \E S \in SUBSET Sends : Abort(S)
      BY <1>5, <3>3 DEF Abort
    <3>4. ASSUME NEW d \in Relayed, Collect(d) \/ Expire(d) PROVE FALSE
      <4>1. collector'[c] = collector[c] \/ collector[c] = "collecting"
        BY <3>4, CollectCases DEF Expire, RTypeOK
      <4> QED
        BY <1>5, <4>1
    <3>5. ASSUME NEW u \in Sends, RStart(u) PROVE u = c
      BY <1>5, <3>5 DEF RStart
    <3> QED
      BY <3>1, <3>2, <3>3, <3>4, <3>5, RelaySteps
  <2>2. pc[c] = "claimed" /\ pc' = [pc EXCEPT ![c] = "sending"] /\ ticket' = ticket
    BY <2>1 DEF RStart, Start, At, Go
  <2>3. ticket[t] < ticket[c] /\ ticket[t] # 0 /\ t # c /\ SessionOf[t] = SessionOf[c]
    BY <1>3, <2>2 DEF Same
  <2>4. pc[t] \notin {"new", "locking", "rejected"}
    BY <2>3 DEF YoungerWaits, Submitted
  <2>5. pc[t] \notin Owning
    <3>1. ASSUME pc[t] \in Owning PROVE pc[c] \in {"queued", "dropped"}
      BY <2>3, <3>1 DEF YoungerWaits, Same
    <3> QED
      BY <2>2, <3>1
  <2>6. pc[t] # "queued"
    <3>1. ASSUME pc[t] = "queued" PROVE ticket[c] < ticket[t]
      BY <2>2, <2>3, <3>1 DEF RouterInv, TicketOrder, Same, Submitted
    <3> QED
      BY <1>2, <2>3, <3>1
  <2>7. pc[t] \in Over
    BY <1>2, <2>4, <2>5, <2>6 DEF PCs, Unreleased, Owning, Over
  <2> QED
    BY <1>2, <2>2, <2>3, <2>7
<1> QED
  BY <1>4, <1>5

-----------------------------------------------------------------------------
(* What a relay has seen.                                                  *)

LEMMA SeenByNone ==
    ASSUME OneOutcome, NEW c \in Relayed, NEW e \in Seen(c)
    PROVE  collector[c] # "none" /\ pc[c] \in Started
<1>1. collector[c] = "none" => Seen(c) = {}
  BY DEF OneOutcome, Seen
<1> QED
  BY <1>1 DEF OneOutcome

\* The parts of Seen.
LEMMA SeenParts ==
    ASSUME RTypeOK, NEW c \in Relayed
    PROVE  /\ \A i \in 1..Len(inbox[c]) : inbox[c][i] \in Seen(c)
           /\ \A t \in taken[c] : [type |-> "part", from |-> t] \in Seen(c)
           /\ \A e \in Seen(c) :
                \/ \E i \in 1..Len(inbox[c]) : inbox[c][i] = e
                \/ e.type = "part" /\ e.from \in taken[c]
                \/ e = endedBy[c]
<1>1. DOMAIN inbox[c] = 1..Len(inbox[c])
  BY DEF RTypeOK
<1>2. \A i \in DOMAIN inbox[c] : inbox[c][i] \in Seen(c)
  BY DEF Seen
<1>3. \A t \in taken[c] : [type |-> "part", from |-> t] \in Seen(c)
  BY DEF Seen
<1>4. ASSUME NEW e \in Seen(c)
      PROVE  \/ \E i \in DOMAIN inbox[c] : inbox[c][i] = e
             \/ e.type = "part" /\ e.from \in taken[c]
             \/ e = endedBy[c]
  <2>1. \/ e \in {inbox[c][i] : i \in DOMAIN inbox[c]}
        \/ e \in {[type |-> "part", from |-> t] : t \in taken[c]}
        \/ e = endedBy[c]
    BY DEF Seen
  <2>2. CASE e \in {[type |-> "part", from |-> t] : t \in taken[c]}
    BY <2>2
  <2> QED
    BY <2>1, <2>2
<1> QED
  BY <1>1, <1>2, <1>3, <1>4

\* What is new in Seen was published by this step, by a turn of the session, to a
\* collector that is reading.
LEMMA SeenCases ==
    ASSUME RTypeOK, RouterInv, OneOutcome, SeenStarted, [RNext]_allVars,
           NEW c \in Relayed, NEW e \in Seen(c)'
    PROVE  \/ e \in Seen(c)
           \/ /\ e \in Event
              /\ Subscribed(c, e.from)
              /\ Speaks(e.from, e.type)
<1>1. CASE UNCHANGED relayVars
  BY <1>1 DEF relayVars, Seen
<1>2. ASSUME NEW t \in Sends, NEW type \in EventTypes, Speaks(t, type), Publish(t, type)
      PROVE  e \in Seen(c) \/ (e \in Event /\ Subscribed(c, e.from) /\ Speaks(e.from, e.type))
  <2> DEFINE f == [type |-> type, from |-> t]
  <2>1. f \in Event /\ f.type = type /\ f.from = t
    BY DEF Event
  <2>2. inbox[c] \in Seq(Event)
    BY DEF RTypeOK
  <2>3. inbox'[c] = IF Subscribed(c, t) /\ HasRoom(c) THEN Append(inbox[c], f) ELSE inbox[c]
    BY <1>2 DEF Publish
  <2>4. taken'[c] = taken[c] /\ endedBy'[c] = endedBy[c]
    BY <1>2 DEF Publish
  <2> HIDE DEF f
  <2>5. CASE Subscribed(c, t) /\ HasRoom(c)
    <3>1. {inbox'[c][i] : i \in DOMAIN inbox'[c]} = {inbox[c][i] : i \in DOMAIN inbox[c]} \cup {f}
      <4>1. inbox'[c] = Append(inbox[c], f)
        BY <2>3, <2>5
      <4>2. {Append(inbox[c], f)[i] : i \in DOMAIN Append(inbox[c], f)}
              = {inbox[c][i] : i \in DOMAIN inbox[c]} \cup {f}
        BY <2>1, <2>2, Delivered
      <4> QED
        BY <4>1, <4>2, Zenon
    <3>2. e \in Seen(c) \/ e = f
      BY <2>4, <3>1 DEF Seen, NoEvent
    <3> QED
      BY <1>2, <2>1, <2>5, <3>2
  <2>6. CASE ~(Subscribed(c, t) /\ HasRoom(c))
    BY <2>3, <2>4, <2>6 DEF Seen, NoEvent
  <2> QED
    BY <2>5, <2>6
<1>3. ASSUME NEW t \in Sends, RStart(t) PROVE e \in Seen(c)
  BY <1>3 DEF RStart, Seen, NoEvent
<1>4. ASSUME NEW S \in SUBSET Sends, Abort(S) PROVE e \in Seen(c)
  BY <1>4 DEF Abort, Seen, NoEvent
<1>5. ASSUME NEW d \in Relayed, Collect(d) PROVE e \in Seen(c)
  <2>1. CASE d # c
    <3>1. inbox'[c] = inbox[c] /\ taken'[c] = taken[c] /\ endedBy'[c] = endedBy[c]
      BY <1>5, <2>1, CollectCases DEF RTypeOK
    <3> QED
      BY <3>1 DEF Seen, NoEvent
  <2>2. CASE d = c
    <3> DEFINE h == inbox[c][1]
    <3>1. h \in Seen(c) /\ inbox[c] \in Seq(Event) /\ inbox[c] # <<>> /\ h \in Event
      BY <1>5, <2>2, SeenParts, CollectCases DEF Collect, RTypeOK
    <3>2. /\ taken \in [Relayed -> SUBSET Sends] /\ inbox \in [Relayed -> Seq(Event)]
          /\ endedBy \in [Relayed -> [type : EventTypes, from : Sends \cup {None}]]
      BY DEF RTypeOK
    <3>3. CASE Ends(h)
      <4>1. inbox'[c] = <<>> /\ taken'[c] = taken[c] /\ endedBy'[c] = h
        BY <1>5, <2>2, <3>2, <3>3, CollectCases
      <4>2. {inbox'[c][i] : i \in DOMAIN inbox'[c]} = {}
        BY <4>1
      <4> HIDE DEF h
      <4> QED
        BY <3>1, <4>1, <4>2 DEF Seen, NoEvent
    <3>4. CASE ~Ends(h)
      <4>1. inbox'[c] = Tail(inbox[c]) /\ taken'[c] = taken[c] \cup {h.from} /\ endedBy'[c] = endedBy[c]
        BY <1>5, <2>2, <3>2, <3>4, CollectCases
      <4>2. {inbox'[c][i] : i \in DOMAIN inbox'[c]} \subseteq {inbox[c][i] : i \in DOMAIN inbox[c]}
        BY <3>1, <4>1, ReadOne
      <4>3. h = [type |-> "part", from |-> h.from]
        BY <3>1, <3>4 DEF Event, EventTypes, Ends
      <4> HIDE DEF h
      <4> QED
        BY <3>1, <4>1, <4>2, <4>3 DEF Seen, NoEvent
    <3> QED
      BY <3>3, <3>4
  <2> QED
    BY <2>1, <2>2
<1>6. ASSUME NEW d \in Relayed, Expire(d) PROVE e \in Seen(c)
  BY <1>6 DEF Expire, Seen, NoEvent
<1> QED
  BY <1>1, <1>2, <1>3, <1>4, <1>5, <1>6, RelaySteps

\* Who speaks has started and is not through yet.
LEMMA Speaker ==
    ASSUME RTypeOK, NEW t \in Sends, NEW type, Speaks(t, type)
    PROVE  /\ pc[t] \in {"streaming", "draining", "failing"} /\ pc'[t] \in Started
           /\ type \in {"part", "exit"} => pc[t] = "streaming"
<1>1. pc \in [Sends -> PCs]
  BY DEF RTypeOK, TypeOK
<1>2. CASE type = "part" /\ pc[t] = "streaming" /\ UNCHANGED vars
  BY <1>2 DEF vars, Started, Running
<1>3. CASE type = "error" /\ pc[t] \in {"streaming", "draining"} /\ UNCHANGED vars
  BY <1>3 DEF vars, Started, Running
<1>4. CASE type = "exit" /\ PublishExit(t)
  BY <1>1, <1>4 DEF PublishExit, At, Go, Started, Running
<1>5. CASE type = "error" /\ PublishFailure(t)
  BY <1>1, <1>5 DEF PublishFailure, At, Go, Started, Running
<1> QED
  BY <1>2, <1>3, <1>4, <1>5 DEF Speaks

LEMMA SeenStep ==
    RTypeOK /\ RouterInv /\ OneOutcome /\ SeenStarted /\ [RNext]_allVars => SeenStarted'
<1> SUFFICES ASSUME RTypeOK, RouterInv, OneOutcome, SeenStarted, [RNext]_allVars,
                    NEW c \in Relayed, NEW e \in Seen(c)'
             PROVE  e \in Event /\ pc'[e.from] \in Started /\ SessionOf[e.from] = SessionOf[c]
  BY DEF SeenStarted, Event, EventTypes
<1>1. CASE e \in Seen(c)
  <2>1. e \in Event /\ pc[e.from] \in Started /\ SessionOf[e.from] = SessionOf[c]
    BY <1>1 DEF SeenStarted
  <2>2. e.from \in Sends
    BY <2>1 DEF Event
  <2> QED
    BY <2>1, <2>2, RelaySteps, StartedStays
<1>2. CASE e \in Event /\ Subscribed(c, e.from) /\ Speaks(e.from, e.type)
  <2>1. e.from \in Sends
    BY <1>2 DEF Event
  <2> QED
    BY <1>2, <2>1, Speaker DEF Subscribed
<1> QED
  BY <1>1, <1>2, SeenCases

\* Tickets that a relay compares do not change.
LEMMA SeenTickets ==
    ASSUME RTypeOK, RouterInv, SeenStarted, OneOutcome, [RNext]_allVars,
           NEW c \in Relayed, NEW e \in Seen(c)
    PROVE  /\ e.from \in Sends /\ ticket'[e.from] = ticket[e.from] /\ ticket'[c] = ticket[c]
           /\ ticket[e.from] \in Nat /\ ticket[c] \in Nat
<1>1. e \in Event /\ pc[e.from] \in Started /\ pc[c] \in Started
  BY SeenByNone DEF SeenStarted
<1>2. e.from \in Sends
  BY <1>1 DEF Event
<1> QED
  BY <1>1, <1>2, RelaySteps, StartedStays

LEMMA StaleStep ==
    RelayInv /\ RouterInv /\ [RNext]_allVars => NoStaleReply'
<1> SUFFICES ASSUME RelayInv, RouterInv, [RNext]_allVars,
                    NEW c \in Relayed, NEW e \in Seen(c)', e.type \in {"part", "exit"}
             PROVE  ticket'[e.from] >= ticket'[c]
  BY DEF NoStaleReply
<1> USE DEF RelayInv
<1>1. CASE e \in Seen(c)
  BY <1>1, SeenTickets DEF NoStaleReply
<1>2. CASE e \in Event /\ Subscribed(c, e.from) /\ Speaks(e.from, e.type)
  <2> DEFINE t == e.from
  <2>1. t \in Sends /\ SessionOf[c] = SessionOf[t] /\ collector[c] = "collecting" /\ pc[c] \in Started
    BY <1>2 DEF Event, Subscribed, OneOutcome
  <2>2. pc[t] = "streaming"
    BY <1>2, <2>1, Speaker
  <2>3. /\ ticket'[t] = ticket[t] /\ ticket'[c] = ticket[c]
        /\ ticket[t] \in Nat /\ ticket[c] \in Nat
    BY <2>1, <2>2, RelaySteps, StartedStays DEF Started, Running
  <2>4. ticket[t] # 0
    BY <2>1, <2>2 DEF RouterInv, TicketOrder, Submitted
  <2> HIDE DEF t
  <2>5. Same(t, c) => ~(ticket[t] < ticket[c])
    BY <2>1, <2>2, <2>4 DEF OlderOver, Over
  <2>6. t = c \/ Same(t, c)
    BY <2>1 DEF Same
  <2>7. ticket'[t] >= ticket'[c]
    BY <2>3, <2>5, <2>6
  <2> QED
    BY <2>7 DEF t
<1> QED
  BY <1>1, <1>2, SeenCases

-----------------------------------------------------------------------------
(* ExitFirst.                                                              *)

\* What turns have published grows, and so does what was lost.
LEMMA EmittedStep ==
    ASSUME RTypeOK, RouterInv, [RNext]_allVars, NEW t \in Sends
    PROVE  /\ "exit" \in emitted'[t] => "exit" \in emitted[t] \/ (PublishExit(t) /\ Publish(t, "exit"))
           /\ t \in Relayed => lost[t] \subseteq lost'[t]
<1>1. ASSUME NEW u \in Sends, NEW type \in EventTypes, Speaks(u, type), Publish(u, type)
      PROVE  /\ "exit" \in emitted'[t] => "exit" \in emitted[t] \/ (PublishExit(t) /\ Publish(t, "exit"))
             /\ t \in Relayed => lost[t] \subseteq lost'[t]
  <2>1. emitted'[t] = IF t = u THEN emitted[t] \cup {type} ELSE emitted[t]
    BY <1>1 DEF Publish, RTypeOK
  <2>2. type = "exit" => PublishExit(u)
    BY <1>1 DEF Speaks
  <2>3. t \in Relayed => lost[t] \subseteq lost'[t]
    BY <1>1 DEF Publish
  <2>4. CASE t = u /\ type = "exit"
    BY <1>1, <2>2, <2>3, <2>4
  <2>5. CASE ~(t = u /\ type = "exit")
    BY <2>1, <2>3, <2>5
  <2> QED
    BY <2>4, <2>5
<1>2. CASE UNCHANGED relayVars
  BY <1>2 DEF relayVars
<1>3. ASSUME NEW u \in Sends, RStart(u) PROVE UNCHANGED <<emitted, lost>>
  BY <1>3 DEF RStart
<1>4. ASSUME NEW S \in SUBSET Sends, Abort(S) PROVE UNCHANGED <<emitted, lost>>
  BY <1>4 DEF Abort
<1>5. ASSUME NEW d \in Relayed, Collect(d) \/ Expire(d) PROVE UNCHANGED <<emitted, lost>>
  BY <1>5 DEF Collect, Expire
<1> QED
  BY <1>1, <1>2, <1>3, <1>4, <1>5, RelaySteps

LEMMA PublishedStep ==
    RTypeOK /\ RouterInv /\ ExitPublished /\ [RNext]_allVars => ExitPublished'
<1> SUFFICES ASSUME RTypeOK, RouterInv, ExitPublished, [RNext]_allVars,
                    NEW t \in Sends, "exit" \in emitted'[t]
             PROVE  pc'[t] \in {"exited", "draining", "releasing", "done"}
  BY DEF ExitPublished
<1>1. CASE "exit" \in emitted[t]
  <2>1. pc[t] \in {"exited", "draining", "releasing", "done"}
    BY <1>1 DEF ExitPublished
  <2>2. pc'[t] = pc[t] \/ <<pc[t], pc'[t]>> \in Ways
    BY RelaySteps, PcStep
  <2> QED
    BY <2>1, <2>2 DEF Ways, Moves
<1>2. CASE PublishExit(t)
  BY <1>2 DEF PublishExit, Go, RTypeOK, TypeOK
<1> QED
  BY <1>1, <1>2, EmittedStep

\* While a relayed turn runs no younger turn of its session speaks.
LEMMA YoungerSilent ==
    ASSUME RelayInv, RouterInv, NEW c \in Relayed, NEW t \in Sends, NEW type,
           pc[c] \in {"sending", "streaming"}, Subscribed(c, t), Speaks(t, type)
    PROVE  ticket[t] <= ticket[c]
<1>1. ticket[t] \in Nat /\ ticket[c] \in Nat
  BY DEF RouterInv, TypeOK
<1>2. pc[t] \in {"streaming", "draining", "failing"}
  BY Speaker DEF RelayInv
<1>3. Same(c, t) => ~(ticket[c] < ticket[t])
  BY <1>2 DEF RelayInv, YoungerWaits, Owning
<1>4. t = c \/ Same(c, t)
  BY DEF Same, Subscribed
<1> QED
  BY <1>1, <1>3, <1>4

LEMMA NothingYoungerStep ==
    ASSUME RelayInv, RouterInv, [RNext]_allVars, NEW c \in Relayed
    PROVE  NothingYounger(c)'
<1> SUFFICES ASSUME pc'[c] \in {"sending", "streaming"}, NEW e \in Seen(c)'
             PROVE  ticket'[e.from] <= ticket'[c]
  BY DEF NothingYounger, NoneYounger
<1>0. RTypeOK /\ OneOutcome /\ SeenStarted
  BY DEF RelayInv
<1>1. pc[c] \in Started => pc[c] \in {"sending", "streaming"}
  <2>1. pc'[c] = pc[c] \/ <<pc[c], pc'[c]>> \in Ways
    BY <1>0, RelaySteps, PcStep
  <2> QED
    BY <2>1 DEF Ways, Moves, Started, Running
<1>2. CASE e \in Seen(c)
  <2>1. ticket[e.from] <= ticket[c]
    BY <1>0, <1>1, <1>2, SeenByNone DEF RelayInv, ExitFirst, NothingYounger, NoneYounger
  <2> QED
    BY <1>0, <1>2, <2>1, SeenTickets
<1>3. CASE e \in Event /\ Subscribed(c, e.from) /\ Speaks(e.from, e.type)
  <2>1. e.from \in Sends
    BY <1>3 DEF Event
  <2>2. pc[c] \in {"sending", "streaming"}
    BY <1>0, <1>1, <1>3 DEF Subscribed, OneOutcome
  <2>3. ticket[e.from] <= ticket[c]
    BY <1>3, <2>1, <2>2, YoungerSilent
  <2>4. pc[c] \in Started /\ pc[e.from] \in Started
    BY <1>0, <1>3, <2>1, <2>2, Speaker DEF Started, Running
  <2> QED
    BY <1>0, <2>1, <2>3, <2>4, RelaySteps, StartedStays
<1> QED
  BY <1>0, <1>2, <1>3, SeenCases

\* The turn's own exit is delivered.
LEMMA ExitDelivered ==
    ASSUME RelayInv, RouterInv, [RNext]_allVars, NEW c \in Relayed,
           PublishExit(c), Publish(c, "exit"), "exit" \notin lost'[c]
    PROVE  ExitRead(c)'
<1> DEFINE x == [type |-> "exit", from |-> c]
           q == inbox[c]
<1>0. RTypeOK /\ OneOutcome /\ SeenStarted
  BY DEF RelayInv
<1>1. pc[c] = "streaming" /\ NoneYounger(c, Seen(c))
  BY DEF PublishExit, At, RelayInv, ExitFirst, NothingYounger
<1>2. UNCHANGED <<collector, taken, endedBy, onDone>> /\ UNCHANGED ticket
  BY DEF Publish, PublishExit
<1>3. CASE collector[c] = "collecting"
  <2>1. Subscribed(c, c) /\ HasRoom(c)
    BY <1>3 DEF Subscribed, Publish
  <2>2. inbox'[c] = Append(q, x) /\ q \in Seq(Event) /\ Len(q) \in Nat /\ x \in Event
    <3>1. inbox'[c] = Append(inbox[c], [type |-> "exit", from |-> c])
      BY <2>1 DEF Publish
    <3>2. q \in Seq(Event)
      BY <1>0 DEF RTypeOK
    <3>3. x \in Event
      BY DEF Event, EventTypes
    <3> QED
      BY <3>1, <3>2, <3>3
  <2>3. /\ Len(inbox'[c]) = Len(q) + 1 /\ inbox'[c][Len(q) + 1] = x
        /\ \A j \in 1..Len(q) : inbox'[c][j] = q[j]
    BY <2>2, Delivered
  <2>4. \A j \in 1..Len(q) : ticket[q[j].from] <= ticket[c]
    BY <1>0, <1>1, SeenParts DEF NoneYounger
  <2>5. \A j \in 1..Len(q) + 1 : ticket'[inbox'[c][j].from] <= ticket'[c]
    <3>1. ticket[c] \in Nat /\ x.from = c
      BY DEF RouterInv, TypeOK
    <3>2. \A j \in 1..Len(q) + 1 : j \in 1..Len(q) \/ j = Len(q) + 1
      BY <2>2
    <3> HIDE DEF q, x
    <3> QED
      BY <1>2, <2>3, <2>4, <3>1, <3>2
  <2>6. \A t \in taken'[c] : ticket'[t] <= ticket'[c]
    <3>1. ASSUME NEW t \in taken[c] PROVE ticket[t] <= ticket[c]
      <4>1. [type |-> "part", from |-> t] \in Seen(c)
        BY <1>0, SeenParts
      <4>2. [type |-> "part", from |-> t].from = t
        OBVIOUS
      <4> QED
        BY <1>1, <4>1, <4>2 DEF NoneYounger
    <3> QED
      BY <1>2, <3>1
  <2>7. Len(q) + 1 \in 1..Len(inbox'[c])
    BY <2>2, <2>3
  <2>8. \E i \in 1..Len(inbox'[c]) : /\ inbox'[c][i] = x
                                     /\ \A j \in 1..i : ticket'[inbox'[c][j].from] <= ticket'[c]
    BY <2>3, <2>5, <2>7
  <2> QED
    BY <1>2, <1>3, <2>6, <2>8 DEF ExitRead
<1>4. CASE collector[c] # "collecting"
  <2>1. inbox'[c] = inbox[c]
    BY <1>4 DEF Publish, Subscribed
  <2>2. Seen(c)' = Seen(c)
    BY <1>2, <2>1 DEF Seen, NoEvent
  <2> QED
    BY <1>1, <1>2, <1>4, <2>2 DEF ExitRead, NoneYounger
<1> QED
  BY <1>3, <1>4

\* An exit that is delivered stays ahead of the younger turns until it is read.
LEMMA ExitKept ==
    ASSUME RelayInv, RouterInv, [RNext]_allVars, NEW c \in Relayed,
           "exit" \in emitted[c] \ lost[c]
    PROVE  ExitRead(c)'
<1> DEFINE x == [type |-> "exit", from |-> c]
           q == inbox[c]
<1>0. RTypeOK /\ OneOutcome /\ SeenStarted /\ ExitRead(c)
  BY DEF RelayInv, ExitFirst
<1>1. pc[c] # "claimed"
  BY DEF RelayInv, ExitFirst, ExitPublished
<1>2. q \in Seq(Event) /\ Len(q) \in Nat
  BY <1>0 DEF RTypeOK
<1>3. \A e \in Seen(c) : ticket'[e.from] = ticket[e.from] /\ ticket'[c] = ticket[c]
  BY <1>0, SeenTickets
<1>4. \A j \in 1..Len(q) : ticket'[q[j].from] = ticket[q[j].from] /\ ticket'[c] = ticket[c]
  BY <1>0, <1>3, SeenParts
<1>5. ASSUME NEW t \in taken[c]
      PROVE  ticket'[t] = ticket[t] /\ ticket'[c] = ticket[c]
  <2>1. [type |-> "part", from |-> t] \in Seen(c) /\ [type |-> "part", from |-> t].from = t
    BY <1>0, SeenParts
  <2> QED
    BY <1>3, <2>1
<1>6. CASE collector[c] # "collecting"
  <2>1. collector'[c] # "collecting"
    <3>1. CASE UNCHANGED relayVars
      BY <1>6, <3>1 DEF relayVars
    <3>2. ASSUME NEW t \in Sends, NEW type, Publish(t, type) PROVE collector'[c] # "collecting"
      BY <1>6, <3>2 DEF Publish
    <3>3. ASSUME NEW t \in Sends, RStart(t) PROVE collector'[c] # "collecting"
      BY <1>1, <1>6, <3>3 DEF RStart, Start, At
    <3>4. ASSUME NEW S \in SUBSET Sends, Abort(S) PROVE collector'[c] # "collecting"
      BY <1>6, <3>4 DEF Abort
    <3>5. ASSUME NEW d \in Relayed, Collect(d) \/ Expire(d) PROVE collector'[c] # "collecting"
      BY <1>0, <1>6, <3>5, CollectCases DEF Expire, RTypeOK
    <3> QED
      BY <1>0, <3>1, <3>2, <3>3, <3>4, <3>5, RelaySteps
  <2>2. ASSUME NEW e \in Seen(c)' PROVE ticket'[e.from] <= ticket'[c]
    <3>1. e \in Seen(c)
      BY <1>0, <1>6, SeenCases DEF Subscribed
    <3>2. ticket[e.from] <= ticket[c]
      BY <1>0, <1>6, <3>1 DEF ExitRead, NoneYounger
    <3> QED
      BY <1>3, <3>1, <3>2
  <2> QED
    BY <2>1, <2>2 DEF ExitRead, NoneYounger
<1>7. CASE collector[c] = "collecting"
  <2>1. \A t \in taken[c] : ticket[t] <= ticket[c]
    BY <1>0, <1>7 DEF ExitRead
  <2>2. PICK i \in 1..Len(q) : q[i] = x /\ \A j \in 1..i : ticket[q[j].from] <= ticket[c]
    BY <1>0, <1>7 DEF ExitRead
  <2>3. \A j \in 1..i : j \in 1..Len(q)
    BY <1>2
  \* What keeps the inbox up to the exit keeps ExitRead.
  <2>4. ASSUME collector'[c] = "collecting", taken'[c] = taken[c], Len(inbox'[c]) \in Nat,
               Len(inbox'[c]) >= Len(q), \A j \in 1..Len(q) : inbox'[c][j] = q[j]
        PROVE  ExitRead(c)'
    <3>1. \A t \in taken'[c] : ticket'[t] <= ticket'[c]
      BY <1>5, <2>1, <2>4
    <3>2. i \in 1..Len(inbox'[c]) /\ inbox'[c][i] = x
      BY <1>2, <2>2, <2>4
    <3>3. \A j \in 1..i : ticket'[inbox'[c][j].from] <= ticket'[c]
      BY <1>4, <2>2, <2>3, <2>4
    <3> QED
      BY <2>4, <3>1, <3>2, <3>3 DEF ExitRead
  <2>5. ASSUME UNCHANGED <<collector[c], inbox[c], taken[c]>> PROVE ExitRead(c)'
    BY <1>2, <1>7, <2>4, <2>5
  <2>6. ASSUME NEW t \in Sends, NEW type \in EventTypes, Publish(t, type) PROVE ExitRead(c)'
    <3> DEFINE e == [type |-> type, from |-> t]
    <3>1. e \in Event
      BY DEF Event
    <3>2. UNCHANGED <<collector[c], taken[c]>>
      BY <2>6 DEF Publish
    <3>3. inbox'[c] = IF Subscribed(c, t) /\ HasRoom(c) THEN Append(q, e) ELSE q
      BY <2>6 DEF Publish
    <3> HIDE DEF e, q
    <3>4. CASE Subscribed(c, t) /\ HasRoom(c)
      BY <1>2, <1>7, <2>4, <3>1, <3>2, <3>3, <3>4, Delivered
    <3>5. CASE ~(Subscribed(c, t) /\ HasRoom(c))
      BY <2>5, <3>2, <3>3, <3>5 DEF q
    <3> QED
      BY <3>4, <3>5
  <2>7. ASSUME NEW t \in Sends, RStart(t) PROVE ExitRead(c)'
    BY <1>1, <2>5, <2>7 DEF RStart, Start, At
  <2>8. ASSUME NEW S \in SUBSET Sends, Abort(S) PROVE ExitRead(c)'
    BY <2>5, <2>8 DEF Abort
  <2>9. ASSUME NEW d \in Relayed, d # c, Collect(d) \/ Expire(d) PROVE ExitRead(c)'
    <3>1. UNCHANGED <<collector[c], inbox[c], taken[c]>>
      BY <1>0, <2>9, CollectCases DEF Expire, RTypeOK
    <3> QED
      BY <2>5, <3>1
  <2>10. ~Expire(c)
    BY <1>2, <2>2 DEF Expire
  <2>11. ASSUME Collect(c) PROVE ExitRead(c)'
    <3> DEFINE h == q[1]
    <3>1. h \in Event /\ 1 \in 1..i /\ q # <<>> /\ ticket[h.from] <= ticket[c] /\ h \in Seen(c)
      <4>1. h \in Event /\ 1 \in 1..Len(q) /\ q # <<>>
        BY <1>0, <2>11, CollectCases DEF Collect
      <4>2. 1 \in 1..i
        BY <1>2
      <4> QED
        BY <1>0, <2>2, <4>1, <4>2, SeenParts
    <3>2. ticket'[h.from] <= ticket'[c]
      BY <1>3, <3>1
    <3>3. CASE Ends(h)
      <4>1. collector'[c] = "done" /\ inbox'[c] = <<>> /\ taken'[c] = taken[c] /\ endedBy'[c] = h
        BY <1>0, <2>11, <3>3, CollectCases DEF RTypeOK
      <4>2. ASSUME NEW e \in Seen(c)' PROVE ticket'[e.from] <= ticket'[c]
        <5>1. {inbox'[c][k] : k \in DOMAIN inbox'[c]} = {}
          BY <4>1
        <5>2. e \in {[type |-> "part", from |-> t] : t \in taken[c]} \/ e = h
          BY <4>1, <5>1 DEF Seen, NoEvent
        <5>3. ASSUME NEW t \in taken[c], e = [type |-> "part", from |-> t] PROVE e.from = t
          BY <5>3
        <5> QED
          BY <1>5, <2>1, <3>2, <5>2, <5>3
      <4> QED
        BY <4>1, <4>2 DEF ExitRead, NoneYounger
    <3>4. CASE ~Ends(h)
      <4>1. collector'[c] = "collecting" /\ inbox'[c] = Tail(q) /\ taken'[c] = taken[c] \cup {h.from}
        BY <1>0, <1>7, <2>11, <3>4, CollectCases DEF RTypeOK
      <4>2. i # 1
        BY <2>2, <3>4 DEF Ends
      <4>3. /\ i - 1 \in 1..Len(Tail(q)) /\ Tail(q)[i - 1] = q[i]
            /\ \A j \in 1..Len(Tail(q)) : Tail(q)[j] = q[j + 1] /\ j + 1 \in 1..Len(q)
        BY <1>2, <3>1, <4>2, ReadOne
      <4>4. \A j \in 1..(i - 1) : j \in 1..Len(Tail(q)) /\ j + 1 \in 1..i
        BY <1>2, <3>1, <4>3, ReadOne
      <4>5. \A t \in taken'[c] : ticket'[t] <= ticket'[c]
        BY <1>5, <2>1, <3>2, <4>1
      <4>6. \A j \in 1..(i - 1) : ticket'[Tail(q)[j].from] <= ticket'[c]
        BY <1>4, <2>2, <2>3, <4>3, <4>4
      <4> HIDE DEF q, x
      <4>7. \E k \in 1..Len(inbox'[c]) : /\ inbox'[c][k] = x
                                         /\ \A j \in 1..k : ticket'[inbox'[c][j].from] <= ticket'[c]
        BY <2>2, <4>1, <4>3, <4>6
      <4> QED
        BY <4>1, <4>5, <4>7 DEF ExitRead, x
    <3> QED
      BY <3>3, <3>4
  <2> QED
    <3>1. CASE UNCHANGED relayVars
      BY <2>5, <3>1 DEF relayVars
    <3> QED
      BY <1>0, <2>6, <2>7, <2>8, <2>9, <2>10, <2>11, <3>1, RelaySteps
<1> QED
  BY <1>6, <1>7

LEMMA ExitStep == RelayInv /\ RouterInv /\ [RNext]_allVars => ExitFirst'
<1> SUFFICES ASSUME RelayInv, RouterInv, [RNext]_allVars PROVE ExitFirst'
  OBVIOUS
<1>0. RTypeOK /\ ExitPublished
  BY DEF RelayInv, ExitFirst
<1>1. ExitPublished'
  BY <1>0, PublishedStep
<1>2. ASSUME NEW c \in Relayed PROVE ExitRead(c)'
  <2>1. CASE "exit" \notin emitted'[c] \ lost'[c]
    BY <2>1 DEF ExitRead
  <2>2. CASE "exit" \in emitted'[c] \ lost'[c]
    BY <1>0, <2>2, EmittedStep, ExitDelivered, ExitKept
  <2> QED
    BY <2>1, <2>2
<1> QED
  BY <1>1, <1>2, NothingYoungerStep DEF ExitFirst

-----------------------------------------------------------------------------
(* The theorems.                                                           *)

LEMMA RelayInit == RInit => RelayInv
<1> SUFFICES ASSUME RInit PROVE RelayInv
  OBVIOUS
<1>1. RouterInv
  BY InitInv DEF RInit
<1>2. <<>> \in Seq(Event) /\ Len(<<>>) = 0 /\ DOMAIN <<>> = {}
  OBVIOUS
<1>3. RTypeOK
  BY <1>1, <1>2 DEF RInit, RTypeOK, RouterInv, NoEvent, EventTypes
<1>4. \A c \in Relayed : Seen(c) = {}
  BY <1>2 DEF RInit, Seen, NoEvent
<1>5. YoungerWaits /\ OlderOver /\ OneOutcome
  BY DEF RInit, Init, YoungerWaits, OlderOver, OneOutcome, Same, NoEvent
<1>6. SeenStarted /\ NoStaleReply
  BY <1>4 DEF SeenStarted, NoStaleReply
<1>7. ExitFirst
  BY <1>4 DEF RInit, ExitFirst, ExitPublished, NothingYounger, NoneYounger, ExitRead
<1> QED
  BY <1>3, <1>5, <1>6, <1>7 DEF RelayInv

LEMMA RelayStep == RelayInv /\ RouterInv /\ [RNext]_allVars => RelayInv'
<1> SUFFICES ASSUME RelayInv, RouterInv, [RNext]_allVars PROVE RelayInv'
  OBVIOUS
<1>1. RTypeOK /\ OneOutcome /\ YoungerWaits /\ OlderOver /\ SeenStarted
  BY DEF RelayInv
<1>2. YoungerWaits'
  BY <1>1, RelaySteps, YoungerStep
<1> QED
  BY <1>1, <1>2, RTypeStep, OneOutcomeStep, OlderStep, SeenStep, StaleStep, ExitStep DEF RelayInv

\* Whatever the relays do, the router underneath keeps its own invariant.
LEMMA RelayedRouter == RSpec => []RouterInv /\ []RelayInv
<1>1. RInit => RouterInv
  BY InitInv DEF RInit
<1>2. RouterInv /\ RelayInv /\ [RNext]_allVars => RouterInv'
  <2>1. RelayInv => RTypeOK
    BY DEF RelayInv
  <2> QED
    BY <2>1, RelaySteps, TypeStep, ActiveStep, StrandStep, QueueStep, TicketStep, StopStep DEF RouterInv
<1> QED
  BY <1>1, <1>2, RelayInit, RelayStep, PTL DEF RSpec

\* RelayInv holds in every reachable state, whatever the sends, the stops, the
\* relayed ones among the sends and the capacity of their channels: runSend publishes
\* the exit before markSendIdle, so a later turn subscribes after it.
THEOREM RelayInvariant == RSpec => []RelayInv
BY RelayedRouter, PTL

\* The relays only watch: what they and the router do together is a behaviour of the
\* router alone, so its theorems hold beneath them.
THEOREM RelaysOnlyWatch == RSpec => Spec
<1>1. RInit => Init
  BY DEF RInit
<1>2. RouterInv /\ RelayInv /\ [RNext]_allVars => [Next]_vars
  BY RelaySteps DEF RelayInv
<1> QED
  BY <1>1, <1>2, RelayedRouter, PTL DEF RSpec, Spec

\* What SendToSessionRelayed hands to onDone as the reply of its turn is that: nothing
\* of an earlier turn, and nothing of a later one once its exit was delivered
\* (collectTurnText).
THEOREM RepliesAreOwn == RSpec => []ReplyIsOwn
<1>1. RelayInv => ExitClosesReply
  BY DEF RelayInv, ExitFirst, ExitRead, NoneYounger, ExitClosesReply
<1>2. RelayInv => ReplyIsOwn
  BY <1>1 DEF RelayInv, ReplyIsOwn
<1> QED
  BY <1>2, RelayInvariant, PTL
=============================================================================
