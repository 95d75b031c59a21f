------------------------- MODULE ClaudeStreamProofs -------------------------
(***************************************************************************)
(* Proofs about ClaudeStream for any finite set of sessions, any sends and *)
(* any cap: the cap on the pool, that no process is forgotten outside it,  *)
(* and that a prompt which was written gets one answer, its own unless a   *)
(* spontaneous turn raced it.                                              *)
(***************************************************************************)
EXTENDS ClaudeStream, FiniteSetTheorems, SequenceTheorems, TLAPS

PoolTypes ==
    /\ sess \in [Requests -> Sessions]
    /\ spawned \in 0..MaxSpawns
    /\ pool \in [Sessions -> 0..spawned]
    /\ sid \in [Procs -> Sessions \cup {None}]
    /\ exited \in [Procs -> BOOLEAN]

\* A process is one of a session, and in the pool for no other.
SidExact ==
    /\ \A p \in 1..spawned : sid[p] \in Sessions
    /\ \A s \in Pooled : sid[pool[s]] = s

CapInv == PoolTypes /\ SidExact /\ PoolBounded /\ NoneForgotten

-----------------------------------------------------------------------------
(* Steps: what they do to the pool.                                        *)

\* The sessions of S give up their processes, which will be stopped.
GiveUp(S) ==
    /\ S \subseteq Pooled
    /\ pool' = [s \in Sessions |-> IF s \in S THEN 0 ELSE pool[s]]
    /\ stops' = stops \cup {pool[s] : s \in S}
    /\ UNCHANGED <<sess, spawned, sid, exited>>

\* The pool stands still; a process may exit, and one more may be stopped.
PoolStill ==
    /\ UNCHANGED <<sess, spawned, sid, pool, stops>>
    /\ exited' \in [Procs -> BOOLEAN] /\ \A p \in Procs : exited[p] => exited'[p]

LEMMA PoolSteps ==
    ASSUME PoolTypes, [Next]_vars
    PROVE  \/ PoolStill
           \/ \E S \in SUBSET Pooled : GiveUp(S)
           \/ \E r \in Requests : \E S \in SUBSET Pooled : Spawn(r, S)
           \/ \E p \in Procs : DiedRemove(p) /\ UNCHANGED <<sess, exited>>
<1>0. exited \in [Procs -> BOOLEAN]
  BY DEF PoolTypes
<1>1. UNCHANGED <<sess, poolVars, exited>> => PoolStill
  BY <1>0 DEF poolVars, PoolStill
<1>2. CASE UNCHANGED vars
  BY <1>1, <1>2 DEF vars, agentVars
<1>3. ASSUME NEW r \in Requests, EnsureFound(r) \/ AllBusy(r) \/ SendStep(r)
      PROVE  PoolStill
  BY <1>1, <1>3 DEF EnsureFound, AllBusy, SendStep, AppendTurn, Write, WriteFails, Undo, agentVars
<1>4. ASSUME NEW r \in Requests, NEW S \in SUBSET Pooled, SpawnFails(r, S)
      PROVE  GiveUp(S)
  BY <1>4 DEF SpawnFails, Evict, GiveUp, agentVars
<1>5. ASSUME NEW p \in Procs,
             \/ ShowTurn(p) \/ HandleResult(p) \/ AskPermission(p) \/ EndPermission(p)
             \/ CancelPermission(p) \/ DiedSettle(p) \/ Stop(p) \/ TakePrompt(p) \/ TakeTurn(p)
      PROVE  PoolStill
  BY <1>1, <1>5 DEF ShowTurn, HandleResult, AskPermission, EndPermission, CancelPermission,
                    DiedSettle, Stop, TakePrompt, TakeTurn, agentVars
<1>6. ASSUME NEW p \in Procs, Exit(p) PROVE PoolStill
  BY <1>0, <1>6 DEF Exit, poolVars, PoolStill
<1>7. ASSUME NEW p \in Procs, DiedRemove(p) PROVE UNCHANGED <<sess, exited>>
  BY <1>7 DEF DiedRemove, agentVars
<1>8. ASSUME NEW S \in {{s} : s \in Pooled} \cup {Pooled}, Kill(S)
      PROVE  S \in SUBSET Pooled /\ GiveUp(S)
  BY <1>8 DEF Kill, GiveUp, agentVars
<1> QED
  BY <1>2, <1>3, <1>4, <1>5, <1>6, <1>7, <1>8 DEF Next

-----------------------------------------------------------------------------
(* The invariant.                                                          *)

LEMMA CapInit == PoolAssumption /\ Init => CapInv
<1> SUFFICES ASSUME PoolAssumption, Init PROVE CapInv
  OBVIOUS
<1>1. Pooled = {} /\ spawned = 0 /\ MaxLive \in Nat /\ MaxSpawns \in Nat
  BY DEF PoolAssumption, Init, Pooled
<1>2. Cardinality(Pooled) = 0
  BY <1>1, FS_EmptySet
<1> QED
  BY <1>1, <1>2 DEF Init, CapInv, PoolTypes, SidExact, PoolBounded, NoneForgotten

LEMMA CapStep == PoolAssumption /\ CapInv /\ [Next]_vars => CapInv'
<1> SUFFICES ASSUME PoolAssumption, CapInv, [Next]_vars PROVE CapInv'
  OBVIOUS
<1>0. /\ MaxLive \in Nat /\ MaxSpawns \in Nat /\ IsFiniteSet(Sessions)
      /\ spawned \in 0..MaxSpawns /\ pool \in [Sessions -> 0..spawned]
      /\ sess \in [Requests -> Sessions] /\ sid \in [Procs -> Sessions \cup {None}]
      /\ exited \in [Procs -> BOOLEAN]
      /\ \A s \in Sessions : pool[s] # 0 => sid[pool[s]] = s /\ pool[s] \in Procs
      /\ \A p \in 1..spawned : pool[sid[p]] = p \/ p \in stops \/ exited[p]
      /\ \A p \in 1..spawned : p \in Procs /\ sid[p] \in Sessions
  BY DEF PoolAssumption, CapInv, PoolTypes, SidExact, NoneForgotten, Pooled, Procs
<1>1. /\ IsFiniteSet(Pooled) /\ Cardinality(Pooled) \in Nat /\ Cardinality(Pooled) <= MaxLive
      /\ \A S \in SUBSET Pooled : Cardinality(S) <= Cardinality(Pooled)
  <2>1. Pooled \subseteq Sessions
    BY DEF Pooled
  <2> QED
    BY <1>0, <2>1, FS_Subset, FS_CardinalityType DEF CapInv, PoolBounded
<1>2. CASE PoolStill
  BY <1>0, <1>1, <1>2 DEF PoolStill, CapInv, PoolTypes, SidExact, PoolBounded, NoneForgotten, Pooled
<1>3. ASSUME NEW S \in SUBSET Pooled, GiveUp(S) PROVE CapInv'
  <2>1. PoolTypes'
    BY <1>0, <1>3 DEF GiveUp, PoolTypes
  <2>2. Pooled' \subseteq Pooled /\ SidExact'
    BY <1>0, <1>3 DEF GiveUp, Pooled, SidExact
  <2>3. PoolBounded'
    <3>1. Cardinality(Pooled') <= Cardinality(Pooled) /\ Cardinality(Pooled') \in Nat
      BY <1>1, <2>2, FS_Subset, FS_CardinalityType
    <3> QED
      BY <1>0, <1>1, <3>1 DEF PoolBounded
  <2>4. NoneForgotten'
    <3> SUFFICES ASSUME NEW p \in 1..spawned, p \notin stops', ~exited[p]
                 PROVE  pool'[sid[p]] = p
      BY <1>3 DEF GiveUp, NoneForgotten
    <3>1. pool[sid[p]] = p /\ sid[p] \notin S
      BY <1>0, <1>3 DEF GiveUp
    <3>2. sid[p] \in Sessions
      BY <1>0, <3>1
    <3> QED
      BY <1>3, <3>1, <3>2 DEF GiveUp
  <2> QED
    BY <2>1, <2>2, <2>3, <2>4 DEF CapInv
<1>4. ASSUME NEW p \in Procs, DiedRemove(p), UNCHANGED <<sess, exited>> PROVE CapInv'
  <2>1. /\ exited[p] /\ UNCHANGED <<sess, spawned, sid, stops, exited>>
        /\ pool' = [pool EXCEPT ![sid[p]] = IF @ = p THEN 0 ELSE @]
    BY <1>4 DEF DiedRemove
  <2>2. PoolTypes'
    <3>1. 0 \in 0..spawned
      BY <1>0
    <3>2. pool' \in [Sessions -> 0..spawned]
      BY <1>0, <2>1, <3>1
    <3> QED
      BY <1>0, <2>1, <3>2 DEF PoolTypes
  <2>3. Pooled' \subseteq Pooled /\ SidExact'
    BY <1>0, <2>1 DEF Pooled, SidExact
  <2>4. PoolBounded'
    <3>1. Cardinality(Pooled') <= Cardinality(Pooled) /\ Cardinality(Pooled') \in Nat
      BY <1>1, <2>3, FS_Subset, FS_CardinalityType
    <3> QED
      BY <1>0, <1>1, <3>1 DEF PoolBounded
  <2>5. NoneForgotten'
    BY <1>0, <2>1 DEF NoneForgotten
  <2> QED
    BY <2>2, <2>3, <2>4, <2>5 DEF CapInv
<1>5. ASSUME NEW r \in Requests, NEW S \in SUBSET Pooled, Spawn(r, S) PROVE CapInv'
  <2> DEFINE n == spawned + 1
             x == sess[r]
  <2>1. /\ x \in Sessions /\ pool[x] = 0 /\ n \in 1..MaxSpawns /\ spawned' = n
        /\ sid' = [sid EXCEPT ![n] = x]
        /\ pool' = [s \in Sessions |-> IF s = x THEN n ELSE IF s \in S THEN 0 ELSE pool[s]]
        /\ stops' = stops \cup {pool[s] : s \in S} /\ UNCHANGED <<sess, exited>>
        /\ IF Full THEN \E s \in Pooled : S = {s} ELSE S = {}
    <3>1. /\ x \in Sessions /\ pool[x] = 0 /\ UNCHANGED <<sess, exited>>
          /\ spawned < MaxSpawns /\ spawned' = n /\ sid' = [sid EXCEPT ![spawned'] = x]
      BY <1>0, <1>5 DEF Spawn, Absent, agentVars
    <3>2. n \in 1..MaxSpawns
      BY <1>0, <3>1
    <3>3. pool' = [s \in Sessions |-> IF s = x THEN n ELSE IF s \in S THEN 0 ELSE pool[s]]
      <4>1. pool' = [s \in Sessions |-> CASE s = x -> spawned' [] s \in S -> 0 [] OTHER -> pool[s]]
        BY <1>5 DEF Spawn
      <4>2. ASSUME NEW s \in Sessions
            PROVE  (CASE s = x -> spawned' [] s \in S -> 0 [] OTHER -> pool[s])
                     = IF s = x THEN n ELSE IF s \in S THEN 0 ELSE pool[s]
        <5>1. x \notin S
          BY <3>1 DEF Pooled
        <5> HIDE DEF n, x
        <5> QED
          BY <3>1, <5>1
      <4> QED
        BY <4>1, <4>2
    <3>4. /\ stops' = stops \cup {pool[s] : s \in S}
          /\ IF Full THEN \E s \in Pooled : S = {s} ELSE S = {}
      BY <1>5 DEF Spawn, Evict
    <3> QED
      BY <3>1, <3>2, <3>3, <3>4
  <2> HIDE DEF n, x
  <2>2. n = spawned + 1 /\ n \in Procs /\ \A v \in 0..spawned : v \in 0..n /\ v # n
    BY <1>0, <2>1 DEF n, Procs
  <2>3. PoolTypes'
    BY <1>0, <2>1, <2>2 DEF PoolTypes
  <2>4. Pooled' = (Pooled \ S) \cup {x} /\ x \notin Pooled /\ SidExact'
    BY <1>0, <2>1, <2>2 DEF Pooled, SidExact
  <2>5. PoolBounded'
    <3>1. /\ IsFiniteSet(Pooled \ S) /\ Cardinality(Pooled \ S) \in Nat
          /\ Cardinality(Pooled') = Cardinality(Pooled \ S) + 1
      BY <1>1, <2>4, FS_AddElement, FS_Subset, FS_CardinalityType
    <3>2. CASE Full
      <4>1. Cardinality(Pooled \ S) = Cardinality(Pooled) - 1
        BY <1>1, <2>1, <3>2, FS_RemoveElement
      <4> QED
        BY <1>0, <1>1, <2>1, <3>1, <4>1 DEF PoolBounded
    <3>3. CASE ~Full
      <4>1. Pooled \ S = Pooled
        BY <2>1, <3>3
      <4> QED
        BY <1>0, <1>1, <3>1, <3>3, <4>1 DEF PoolBounded, Full
    <3> QED
      BY <3>2, <3>3
  <2>6. NoneForgotten'
    <3> SUFFICES ASSUME NEW p \in 1..n, p \notin stops', ~exited[p]
                 PROVE  pool'[sid'[p]] = p
      BY <2>1 DEF NoneForgotten
    <3>1. CASE p = n
      BY <1>0, <2>1, <2>2, <3>1
    <3>2. CASE p # n
      <4>1. p \in 1..spawned
        BY <1>0, <2>2, <3>2
      <4>2. pool[sid[p]] = p /\ sid[p] \notin S /\ sid'[p] = sid[p]
        BY <1>0, <2>1, <3>2, <4>1
      <4>3. sid[p] \in Sessions /\ sid[p] # x
        BY <1>0, <2>1, <4>1, <4>2
      <4> QED
        BY <2>1, <4>2, <4>3
    <3> QED
      BY <3>1, <3>2
  <2> QED
    BY <2>3, <2>4, <2>5, <2>6 DEF CapInv
<1> QED
  BY <1>2, <1>3, <1>4, <1>5, PoolSteps DEF CapInv

-----------------------------------------------------------------------------
(* Sends: each has a process of its session, and only one of a session is  *)
(* between ensure and the end of its write.                                *)

SendTypes ==
    /\ pc \in [Requests -> PCs]
    /\ proc \in [Requests -> Nat]
    /\ got \in [Requests -> Seq({"own", "other", "exited"})]
    /\ turns \in [Procs -> Seq(Requests \cup {Spont})]

SendInv ==
    /\ SendTypes
    /\ \A r \in Requests : pc[r] \in Sending \cup {"sent"} =>
         proc[r] \in 1..spawned /\ sid[proc[r]] = sess[r]
    /\ \A q, r \in Requests : pc[q] \in Sending /\ pc[r] \in Sending /\ sess[q] = sess[r] => q = r

\* No send moves, and no turn comes or goes.
SendsStill == UNCHANGED <<pc, proc, got, turns>>

\* Nothing happens that a send or a turn could see, but that a process is being stopped.
Quiet ==
    /\ SendsStill /\ UNCHANGED <<died, agentVars, raced>>
    /\ stopping \in [Procs -> BOOLEAN] => \A p \in Procs : stopping[p] => stopping'[p]

AgentStep(p) == DiedRemove(p) \/ TakePrompt(p) \/ TakeTurn(p) \/ Exit(p)

\* A send gets a process, or gives up before it has one.
Ensured(r) ==
    /\ pc[r] = "new" /\ MaySend(r)
    /\ \/ Go(r, "ensured") /\ \E p \in 1..spawned' : sid'[p] = sess[r] /\ proc' = [proc EXCEPT ![r] = p]
       \/ Go(r, "failed") /\ UNCHANGED proc
    /\ UNCHANGED <<got, turnVars, died, agentVars, raced>>

\* A step moves no send, moves one, or moves the turns of one process.
LEMMA SendSteps ==
    ASSUME PoolAssumption, CapInv, [Next]_vars
    PROVE  /\ UNCHANGED sess /\ spawned' \in Nat /\ 1..spawned \subseteq 1..spawned'
           /\ \A p \in 1..spawned : sid'[p] = sid[p]
           /\ \/ Quiet
              \/ \E p \in Procs : AgentStep(p) /\ SendsStill
              \/ \E r \in Requests : Ensured(r) \/ SendStep(r)
              \/ \E p \in Procs : ShowTurn(p) \/ HandleResult(p) \/ DiedSettle(p)
<1>0. /\ spawned \in Nat /\ MaxSpawns \in Nat /\ sid \in [Procs -> Sessions \cup {None}]
      /\ \A s \in Sessions : pool[s] \in 0..spawned /\ (pool[s] # 0 => sid[pool[s]] = s)
      /\ sess \in [Requests -> Sessions]
  BY DEF CapInv, PoolTypes, SidExact, Pooled, PoolAssumption
<1>1. UNCHANGED <<spawned, sid>> \/ \E r \in Requests, S \in SUBSET Pooled : Spawn(r, S)
  BY PoolSteps DEF CapInv, PoolStill, GiveUp, DiedRemove
<1>2. ASSUME NEW r \in Requests, NEW S \in SUBSET Pooled, Spawn(r, S)
      PROVE  /\ spawned' = spawned + 1 /\ spawned' \in Procs /\ sid'[spawned'] = sess[r]
             /\ \A p \in 1..spawned : sid'[p] = sid[p]
             /\ Ensured(r)
  <2>1. /\ spawned < MaxSpawns /\ spawned' = spawned + 1 /\ sid' = [sid EXCEPT ![spawned'] = sess[r]]
        /\ proc' = [proc EXCEPT ![r] = spawned'] /\ Go(r, "ensured")
        /\ UNCHANGED <<got, turnVars, died, agentVars, raced>>
        /\ pc[r] = "new" /\ MaySend(r)
    BY <1>2 DEF Spawn, Absent
  <2>2. spawned' \in Procs /\ spawned' \in 1..spawned' /\ \A p \in 1..spawned : p # spawned'
    BY <1>0, <2>1 DEF Procs
  <2>3. sid'[spawned'] = sess[r] /\ \A p \in 1..spawned : sid'[p] = sid[p]
    <3>1. \A p \in 1..spawned : p \in Procs /\ p # spawned'
      BY <2>2, <1>0, <2>1 DEF Procs
    <3> QED
      BY <1>0, <2>1, <2>2, <3>1
  <2>4. Ensured(r)
    BY <2>1, <2>2, <2>3 DEF Ensured
  <2> QED
    BY <2>1, <2>2, <2>3, <2>4
<1>3. UNCHANGED sess
  BY DEF Next, vars, EnsureFound, AllBusy, SendStep, AppendTurn, Write, WriteFails, Undo, Spawn, SpawnFails,
         ShowTurn, HandleResult, AskPermission, EndPermission, CancelPermission, DiedRemove, DiedSettle,
         Stop, TakePrompt, TakeTurn, Exit, Kill
<1>4. /\ spawned' \in Nat /\ 1..spawned \subseteq 1..spawned'
      /\ \A p \in 1..spawned : sid'[p] = sid[p]
  BY <1>0, <1>1, <1>2
<1>5. ASSUME NEW r \in Requests, EnsureFound(r) PROVE Ensured(r)
  <2>1. UNCHANGED <<spawned, sid, got, turnVars, died, agentVars, raced>>
    BY <1>5 DEF EnsureFound, poolVars
  <2>2. pool[sess[r]] \in 1..spawned /\ sid[pool[sess[r]]] = sess[r]
    BY <1>0, <1>5 DEF EnsureFound
  <2>3. /\ pc[r] = "new" /\ MaySend(r) /\ Go(r, "ensured")
        /\ proc' = [proc EXCEPT ![r] = pool[sess[r]]]
    BY <1>5 DEF EnsureFound
  <2> QED
    BY <2>1, <2>2, <2>3 DEF Ensured
<1>6. ASSUME NEW r \in Requests, NEW S \in SUBSET Pooled, AllBusy(r) \/ SpawnFails(r, S)
      PROVE  Ensured(r)
  BY <1>6 DEF AllBusy, SpawnFails, Absent, Ensured
<1>7. UNCHANGED vars => Quiet
  BY DEF vars, sendVars, turnVars, SendsStill, Quiet
<1>8. ASSUME NEW p \in Procs, AskPermission(p) \/ EndPermission(p) \/ CancelPermission(p) PROVE Quiet
  BY <1>8 DEF AskPermission, EndPermission, CancelPermission, sendVars, turnVars, SendsStill, Quiet
<1>9. ASSUME NEW p \in Procs, Stop(p) PROVE Quiet
  <2>1. stopping \in [Procs -> BOOLEAN] => \A o \in Procs : stopping[o] => stopping'[o]
    BY <1>9 DEF Stop
  <2> QED
    BY <1>9, <2>1 DEF Stop, sendVars, SendsStill, Quiet
<1>10. ASSUME NEW p \in Procs, AgentStep(p) PROVE SendsStill
  BY <1>10 DEF AgentStep, DiedRemove, TakePrompt, TakeTurn, Exit, sendVars, turnVars, SendsStill
<1>11. ASSUME NEW S, Kill(S) PROVE Quiet
  BY <1>11 DEF Kill, sendVars, turnVars, SendsStill, Quiet
<1> QED
  BY <1>2, <1>3, <1>4, <1>5, <1>6, <1>7, <1>8, <1>9, <1>10, <1>11 DEF Next, AgentStep

\* What the sequences of turns and prompts are built with.
LEMMA SeqFacts ==
    ASSUME NEW T, NEW s \in Seq(T)
    PROVE  /\ Len(s) \in Nat /\ (s = <<>> <=> Len(s) = 0)
           /\ \A i \in 1..Len(s) : s[i] \in T
           /\ \A x \in T : /\ Append(s, x) \in Seq(T) /\ Len(Append(s, x)) = Len(s) + 1
                           /\ Append(s, x)[Len(s) + 1] = x
                           /\ \A i \in 1..Len(s) : Append(s, x)[i] = s[i]
           /\ s # <<>> => /\ Head(s) = s[1] /\ Tail(s) \in Seq(T) /\ Len(Tail(s)) = Len(s) - 1
                          /\ \A i \in 1..Len(s) - 1 : Tail(s)[i] = s[i + 1]
                          /\ Front(s) \in Seq(T) /\ Len(Front(s)) = Len(s) - 1
                          /\ \A i \in 1..Len(s) - 1 : Front(s)[i] = s[i]
<1>1. \A x \in T : /\ Append(s, x) \in Seq(T) /\ Len(Append(s, x)) = Len(s) + 1
                   /\ Append(s, x)[Len(s) + 1] = x
                   /\ \A i \in 1..Len(s) : Append(s, x)[i] = s[i]
  OBVIOUS
<1>2. ASSUME s # <<>>
      PROVE  /\ Head(s) = s[1] /\ Tail(s) \in Seq(T) /\ Len(Tail(s)) = Len(s) - 1
             /\ \A i \in 1..Len(s) - 1 : Tail(s)[i] = s[i + 1]
  BY <1>2
<1>3. ASSUME s # <<>>
      PROVE  /\ Front(s) \in Seq(T) /\ Len(Front(s)) = Len(s) - 1
             /\ \A i \in 1..Len(s) - 1 : Front(s)[i] = s[i]
  <2> DEFINE n == Len(s) - 1
  <2>1. n \in Int /\ n >= 0 /\ 1 \in Int /\ n - 1 + 1 = n /\ \A i \in 1..n : s[i] \in T /\ 1 + i - 1 = i
    BY <1>3
  <2> HIDE DEF n
  <2>2. /\ SubSeq(s, 1, n) \in Seq(T) /\ Len(SubSeq(s, 1, n)) = n
        /\ \A i \in 1..n : SubSeq(s, 1, n)[i] = s[i]
    <3>1. /\ SubSeq(s, 1, n) \in Seq(T)
          /\ Len(SubSeq(s, 1, n)) = IF 1 <= n THEN n - 1 + 1 ELSE 0
          /\ \A i \in 1..n - 1 + 1 : SubSeq(s, 1, n)[i] = s[1 + i - 1]
      BY <2>1, SubSeqProperties
    <3> QED
      BY <2>1, <3>1
  <2> QED
    BY <2>2 DEF Front, n
<1> QED
  BY <1>1, <1>2, <1>3

LEMMA SendInvStep == PoolAssumption /\ CapInv /\ SendInv /\ [Next]_vars => SendInv'
<1> SUFFICES ASSUME PoolAssumption, CapInv, SendInv, [Next]_vars PROVE SendInv'
  OBVIOUS
<1>0. /\ spawned \in Nat /\ spawned' \in Nat /\ UNCHANGED sess
      /\ \A p \in 1..spawned : p \in Procs /\ p \in 1..spawned' /\ sid'[p] = sid[p]
      /\ SendTypes
  BY SendSteps DEF CapInv, PoolTypes, PoolAssumption, Procs, SendInv
<1>1. /\ \A r \in Requests : pc[r] \in Sending \cup {"sent"} =>
           proc[r] \in 1..spawned /\ sid[proc[r]] = sess[r]
      /\ \A q, r \in Requests : pc[q] \in Sending /\ pc[r] \in Sending /\ sess[q] = sess[r] => q = r
  BY DEF SendInv
<1>2. CASE UNCHANGED <<pc, proc>> /\ SendTypes'
  BY <1>0, <1>1, <1>2 DEF SendInv
<1>3. ASSUME NEW r \in Requests, Ensured(r) PROVE SendInv'
  <2>1. SendTypes'
    <3>1. proc' \in [Requests -> Nat]
      <4>1. UNCHANGED proc \/ \E p \in Nat : proc' = [proc EXCEPT ![r] = p]
        BY <1>0, <1>3 DEF Ensured
      <4> QED
        BY <1>0, <4>1 DEF SendTypes
    <3>2. pc' \in [Requests -> PCs]
      BY <1>0, <1>3 DEF Ensured, Go, SendTypes, PCs
    <3> QED
      BY <1>0, <1>3, <3>1, <3>2 DEF Ensured, SendTypes, turnVars
  <2>2. /\ \A q \in Requests \ {r} : pc'[q] = pc[q] /\ proc'[q] = proc[q]
        /\ pc'[r] \in {"ensured", "failed"}
        /\ pc'[r] = "ensured" => proc'[r] \in 1..spawned' /\ sid'[proc'[r]] = sess[r]
    BY <1>0, <1>3 DEF Ensured, Go, SendTypes
  <2>3. \A q \in Requests : sess[q] = sess[r] => pc[q] \notin Sending
    BY <1>3 DEF Ensured, MaySend
  <2> QED
    BY <1>0, <1>1, <2>1, <2>2, <2>3 DEF SendInv, Sending
<1>4. ASSUME NEW r \in Requests, SendStep(r) PROVE SendInv'
  <2>1. /\ pc[r] \in Sending /\ UNCHANGED <<proc, got>>
        /\ \E x \in {"appended", "sent", "undo", "failed", "panicked"} : pc' = [pc EXCEPT ![r] = x]
    BY <1>4 DEF SendStep, AppendTurn, Write, WriteFails, Undo, Go, Sending, sendVars
  <2>2. turns' \in [Procs -> Seq(Requests \cup {Spont})]
    <3>1. proc[r] \in Procs /\ turns[proc[r]] \in Seq(Requests \cup {Spont})
      BY <1>0, <1>1, <2>1 DEF SendTypes
    <3>2. CASE AppendTurn(r)
      BY <1>0, <3>1, <3>2, SeqFacts DEF AppendTurn, SendTypes
    <3>3. CASE Undo(r)
      BY <1>0, <3>1, <3>3, SeqFacts DEF Undo, SendTypes
    <3>4. CASE Write(r) \/ WriteFails(r)
      BY <1>0, <3>4 DEF Write, WriteFails, turnVars, SendTypes
    <3> QED
      BY <1>4, <3>2, <3>3, <3>4 DEF SendStep
  <2>3. SendTypes'
    BY <1>0, <2>1, <2>2 DEF SendTypes, PCs
  <2>4. \A q \in Requests : pc'[q] \in Sending \cup {"sent"} => pc[q] \in Sending \cup {"sent"}
    BY <1>0, <2>1 DEF SendTypes
  <2>5. \A q \in Requests : pc'[q] \in Sending => pc[q] \in Sending
    BY <1>0, <2>1 DEF SendTypes, Sending
  <2> QED
    BY <1>0, <1>1, <2>1, <2>3, <2>4, <2>5 DEF SendInv
<1>5. ASSUME NEW p \in Procs, ShowTurn(p) \/ HandleResult(p) \/ DiedSettle(p) PROVE SendInv'
  <2>1. UNCHANGED <<pc, proc>>
    BY <1>5 DEF ShowTurn, HandleResult, DiedSettle, sendVars
  <2>2. turns[p] \in Seq(Requests \cup {Spont}) /\ <<>> \in Seq(Requests \cup {Spont})
        /\ <<Spont>> \in Seq(Requests \cup {Spont})
    BY <1>0 DEF SendTypes
  <2>3. turns' \in [Procs -> Seq(Requests \cup {Spont})]
    <3>1. turns[p] # <<>> => Tail(turns[p]) \in Seq(Requests \cup {Spont})
      BY <2>2, SeqFacts
    <3> QED
      BY <1>0, <1>5, <2>2, <3>1 DEF ShowTurn, HandleResult, DiedSettle, SendTypes
  <2>4. got' \in [Requests -> Seq({"own", "other", "exited"})]
    <3>1. \A r \in Requests, a \in {"own", "other", "exited"} :
            Append(got[r], a) \in Seq({"own", "other", "exited"})
      BY <1>0 DEF SendTypes
    <3>2. UNCHANGED got \/ \E S : \E a \in {"own", "other", "exited"} : Answer(S, a)
      BY <1>5 DEF ShowTurn, HandleResult, DiedSettle, AnswerOldest, sendVars
    <3> QED
      BY <1>0, <3>1, <3>2 DEF Answer, SendTypes
  <2> QED
    BY <1>0, <1>2, <2>1, <2>3, <2>4 DEF SendTypes
<1>6. SendsStill => SendInv'
  BY <1>0, <1>2 DEF SendsStill, SendTypes
<1>7. Quiet => SendsStill
  BY DEF Quiet
<1> QED
  BY <1>3, <1>4, <1>5, <1>6, <1>7, SendSteps

-----------------------------------------------------------------------------
(* Turns: who waits in them, and that what was written waits there.        *)

Unwritten == {"appended", "undo"}
Awaiting == Unwritten \cup {"sent"}

\* Whoever is in the turns of a process has it, was not answered, and is there once.
TurnsOwn ==
    \A p \in Procs : \A i \in 1..Len(turns[p]) : turns[p][i] \in Requests =>
      /\ proc[turns[p][i]] = p /\ pc[turns[p][i]] \in Awaiting /\ got[turns[p][i]] = <<>>
      /\ \A j \in 1..Len(turns[p]) : turns[p][i] = turns[p][j] => i = j

\* A request about to be written is the last, if any but a spontaneous turn is.
UnwrittenLast ==
    \A r \in Requests : LET t == turns[proc[r]] IN
      pc[r] \in Unwritten /\ t # <<>> => t[Len(t)] = r \/ (t[Len(t)] = Spont /\ Len(t) = 1)

\* Who was not answered is there, and nobody is answered twice.
Awaited ==
    \A r \in Requests :
      /\ pc[r] \in Awaiting /\ got[r] = <<>> => \E i \in 1..Len(turns[proc[r]]) : turns[proc[r]][i] = r
      /\ Len(got[r]) <= 1 /\ (pc[r] \in {"new", "ensured"} => got[r] = <<>>)

TurnInv == TurnsOwn /\ UnwrittenLast /\ Awaited

\* A send alone writes to its process.
LEMMA OneWriter ==
    ASSUME SendInv, NEW q \in Requests, NEW r \in Requests, pc[q] \in Sending, pc[r] \in Sending,
           proc[q] = proc[r]
    PROVE  q = r
BY DEF SendInv

\* The turns of a process, where it has one.
LEMMA TurnFacts ==
    ASSUME PoolAssumption, CapInv, SendInv
    PROVE  /\ \A p \in Procs : turns[p] \in Seq(Requests \cup {Spont}) /\ Len(turns[p]) \in Nat
           /\ \A p \in Procs : turns[p] = <<>> <=> Len(turns[p]) = 0
           /\ \A r \in Requests : pc[r] \in Sending \cup {"sent"} => proc[r] \in Procs
           /\ Spont \notin Requests
           /\ \A r \in Requests : got[r] \in Seq({"own", "other", "exited"}) /\ Len(got[r]) \in Nat
<1>1. spawned \in 0..MaxSpawns /\ MaxSpawns \in Nat
  BY DEF PoolAssumption, CapInv, PoolTypes
<1>2. \A r \in Requests : pc[r] \in Sending \cup {"sent"} => proc[r] \in Procs
  BY <1>1 DEF SendInv, Procs
<1>3. \A p \in Procs : turns[p] \in Seq(Requests \cup {Spont})
  BY DEF SendInv, SendTypes
<1>4. \A r \in Requests : got[r] \in Seq({"own", "other", "exited"})
  BY DEF SendInv, SendTypes
<1> QED
  BY <1>2, <1>3, <1>4, SeqFacts DEF PoolAssumption

LEMMA EnsuredTurns ==
    ASSUME PoolAssumption, CapInv, SendInv, TurnInv, NEW r \in Requests, Ensured(r)
    PROVE  TurnInv'
<1>1. /\ pc[r] = "new" /\ pc'[r] \in {"ensured", "failed"} /\ UNCHANGED <<got, turns>>
      /\ \A q \in Requests \ {r} : pc'[q] = pc[q] /\ proc'[q] = proc[q]
  BY DEF Ensured, Go, SendInv, SendTypes, turnVars
<1>2. pc[r] \notin Awaiting /\ got[r] = <<>>
  BY <1>1 DEF Awaiting, Unwritten, TurnInv, Awaited
<1>3. TurnsOwn'
  BY <1>1, <1>2 DEF TurnInv, TurnsOwn
<1>4. UnwrittenLast'
  BY <1>1 DEF TurnInv, UnwrittenLast, Unwritten
<1>5. Awaited'
  BY <1>1, <1>2 DEF TurnInv, Awaited, Awaiting, Unwritten
<1> QED
  BY <1>3, <1>4, <1>5 DEF TurnInv

LEMMA AppendTurns ==
    ASSUME PoolAssumption, CapInv, SendInv, TurnInv, NEW r \in Requests, AppendTurn(r)
    PROVE  TurnInv'
<1> DEFINE p == proc[r]
           n == Len(turns[p])
<1>1. /\ pc[r] = "ensured" /\ pc'[r] = "appended" /\ UNCHANGED <<proc, got>>
      /\ \A q \in Requests \ {r} : pc'[q] = pc[q]
      /\ turns' = [turns EXCEPT ![p] = Append(turns[p], r)]
  BY DEF AppendTurn, Go, SendInv, SendTypes
<1>2. p \in Procs /\ turns \in [Procs -> Seq(Requests \cup {Spont})]
  BY <1>1, TurnFacts DEF Sending, SendInv, SendTypes
<1>3. /\ n \in Nat /\ Len(turns'[p]) = n + 1 /\ turns'[p][n + 1] = r
      /\ \A i \in 1..n : turns'[p][i] = turns[p][i]
      /\ \A o \in Procs \ {p} : turns'[o] = turns[o]
  BY <1>1, <1>2, SeqFacts
<1>4. pc[r] \notin Awaiting /\ got[r] = <<>>
  BY <1>1 DEF Awaiting, Unwritten, TurnInv, Awaited
<1>5. \A o \in Procs : \A i \in 1..Len(turns[o]) : turns[o][i] # r
  BY <1>4 DEF TurnInv, TurnsOwn
<1>6. \A q \in Requests \ {r} : pc[q] \in Unwritten => proc[q] # p /\ proc[q] \in Procs
  BY <1>1, OneWriter, TurnFacts DEF Sending, Unwritten
<1> HIDE DEF p, n
<1>7. TurnsOwn'
  <2> SUFFICES ASSUME NEW o \in Procs, NEW i \in 1..Len(turns'[o]), turns'[o][i] \in Requests
               PROVE  /\ proc[turns'[o][i]] = o /\ pc'[turns'[o][i]] \in Awaiting /\ got[turns'[o][i]] = <<>>
                      /\ \A j \in 1..Len(turns'[o]) : turns'[o][i] = turns'[o][j] => i = j
    BY <1>1 DEF TurnsOwn
  <2>1. CASE o # p
    BY <1>1, <1>3, <1>5, <2>1 DEF TurnInv, TurnsOwn
  <2>2. CASE o = p /\ i # n + 1
    <3>1. i \in 1..n /\ turns'[o][i] = turns[o][i] /\ turns[o][i] # r
      BY <1>3, <1>5, <2>2 DEF n
    <3>2. \A j \in 1..n + 1 : j = n + 1 \/ j \in 1..n
      BY <1>3
    <3> QED
      BY <1>1, <1>3, <1>5, <2>2, <3>1, <3>2 DEF TurnInv, TurnsOwn, n
  <2>3. CASE o = p /\ i = n + 1
    <3>1. \A j \in 1..n + 1 : j = n + 1 \/ (j \in 1..n /\ turns'[p][j] # r)
      BY <1>2, <1>3, <1>5 DEF n
    <3> QED
      BY <1>1, <1>3, <1>4, <2>3, <3>1 DEF Awaiting, Unwritten, p
  <2> QED
    BY <2>1, <2>2, <2>3
<1>8. UnwrittenLast'
  <2> SUFFICES ASSUME NEW q \in Requests, pc'[q] \in Unwritten, turns'[proc[q]] # <<>>
               PROVE  \/ turns'[proc[q]][Len(turns'[proc[q]])] = q
                      \/ turns'[proc[q]][Len(turns'[proc[q]])] = Spont /\ Len(turns'[proc[q]]) = 1
    BY <1>1 DEF UnwrittenLast
  <2>1. CASE q = r
    BY <1>3, <2>1 DEF p
  <2>2. CASE q # r
    BY <1>1, <1>3, <1>6, <2>2 DEF TurnInv, UnwrittenLast
  <2> QED
    BY <2>1, <2>2
<1>9. Awaited'
  <2> SUFFICES ASSUME NEW q \in Requests
               PROVE  /\ pc'[q] \in Awaiting /\ got[q] = <<>> => \E i \in 1..Len(turns'[proc[q]]) : turns'[proc[q]][i] = q
                      /\ Len(got[q]) <= 1 /\ (pc'[q] \in {"new", "ensured"} => got[q] = <<>>)
    BY <1>1 DEF Awaited
  <2>1. CASE q = r
    BY <1>1, <1>3, <1>4, <2>1 DEF p, TurnInv, Awaited
  <2>2. CASE q # r
    <3>1. ASSUME pc[q] \in Awaiting, got[q] = <<>>
          PROVE  \E i \in 1..Len(turns'[proc[q]]) : turns'[proc[q]][i] = q
      <4>1. PICK i \in 1..Len(turns[proc[q]]) : turns[proc[q]][i] = q
        BY <3>1 DEF TurnInv, Awaited
      <4>2. proc[q] \in Procs
        BY <3>1, TurnFacts DEF Awaiting, Unwritten, Sending
      <4>3. CASE proc[q] # p
        BY <1>3, <4>1, <4>2, <4>3
      <4>4. CASE proc[q] = p
        <5>1. i \in 1..n /\ i \in 1..n + 1
          BY <1>3, <4>1, <4>4 DEF n
        <5> QED
          BY <1>3, <4>1, <4>4, <5>1
      <4> QED
        BY <4>3, <4>4
    <3> QED
      BY <1>1, <2>2, <3>1 DEF TurnInv, Awaited
  <2> QED
    BY <2>1, <2>2
<1> QED
  BY <1>7, <1>8, <1>9 DEF TurnInv

LEMMA WriteTurns ==
    ASSUME PoolAssumption, CapInv, SendInv, TurnInv, NEW r \in Requests, Write(r) \/ WriteFails(r)
    PROVE  TurnInv'
<1>1. /\ pc[r] = "appended" /\ pc'[r] \in {"sent", "undo"} /\ UNCHANGED <<proc, got, turns>>
      /\ \A q \in Requests \ {r} : pc'[q] = pc[q]
  BY DEF Write, WriteFails, Go, SendInv, SendTypes, turnVars
<1>2. \A q \in Requests : /\ pc[q] \in Awaiting <=> pc'[q] \in Awaiting
                          /\ pc'[q] \in Unwritten => pc[q] \in Unwritten
                          /\ pc'[q] \in {"new", "ensured"} => pc[q] \in {"new", "ensured"}
  BY <1>1 DEF Awaiting, Unwritten
<1>3. TurnsOwn'
  BY <1>1, <1>2 DEF TurnInv, TurnsOwn
<1>4. UnwrittenLast'
  BY <1>1, <1>2 DEF TurnInv, UnwrittenLast
<1>5. Awaited'
  BY <1>1, <1>2 DEF TurnInv, Awaited
<1> QED
  BY <1>3, <1>4, <1>5 DEF TurnInv

LEMMA UndoTurns ==
    ASSUME PoolAssumption, CapInv, SendInv, TurnInv, NEW r \in Requests, Undo(r)
    PROVE  TurnInv'
<1> DEFINE p == proc[r]
           n == Len(turns[p])
<1>1. /\ pc[r] = "undo" /\ pc'[r] \in {"failed", "panicked"} /\ UNCHANGED <<proc, got>>
      /\ \A q \in Requests \ {r} : pc'[q] = pc[q]
      /\ turns' = [turns EXCEPT ![p] = IF turns[p] = <<>> THEN turns[p] ELSE Front(turns[p])]
  BY DEF Undo, Go, SendInv, SendTypes
<1>2. /\ p \in Procs /\ turns \in [Procs -> Seq(Requests \cup {Spont})] /\ n \in Nat
      /\ turns[p] = <<>> <=> n = 0
      /\ Spont \notin Requests
  BY <1>1, TurnFacts DEF Sending, SendInv, SendTypes
<1>3. \A o \in Procs \ {p} : turns'[o] = turns[o]
  BY <1>1, <1>2
<1>4. \A q \in Requests \ {r} : pc[q] \in Unwritten => proc[q] # p /\ proc[q] \in Procs
  BY <1>1, OneWriter, TurnFacts DEF Sending, Unwritten
<1>5. \A o \in Procs : \A i \in 1..Len(turns[o]) : turns[o][i] = r => o = p
  BY DEF TurnInv, TurnsOwn
<1>6. n # 0 => turns[p][n] = r \/ (turns[p][n] = Spont /\ n = 1)
  BY <1>1, <1>2 DEF TurnInv, UnwrittenLast, Unwritten
<1>7. /\ Len(turns'[p]) = IF n = 0 THEN 0 ELSE n - 1
      /\ \A i \in 1..Len(turns'[p]) : turns'[p][i] = turns[p][i] /\ i \in 1..n /\ i # n
  <2>1. CASE n = 0
    BY <1>1, <1>2, <2>1
  <2>2. CASE n # 0
    <3>1. turns'[p] = Front(turns[p]) /\ Len(Front(turns[p])) = n - 1
          /\ \A i \in 1..n - 1 : Front(turns[p])[i] = turns[p][i]
      BY <1>1, <1>2, <2>2, SeqFacts
    <3> QED
      BY <1>2, <2>2, <3>1
  <2> QED
    BY <2>1, <2>2
<1>8. \A i \in 1..Len(turns'[p]) : turns'[p][i] # r
  <2> SUFFICES ASSUME NEW i \in 1..Len(turns'[p]), turns'[p][i] = r PROVE FALSE
    OBVIOUS
  <2>1. turns[p][i] = r /\ i \in 1..n /\ i # n
    BY <1>7
  <2>2. n \in Nat /\ n # 1 /\ n # 0 /\ n \in 1..n
    <3> HIDE DEF n
    <3> QED
      BY <1>2, <2>1
  <2>3. turns[p][n] = r
    BY <1>6, <2>2
  <2> QED
    BY <1>2, <2>1, <2>2, <2>3 DEF TurnInv, TurnsOwn, n
<1> HIDE DEF p, n
<1>9. TurnsOwn'
  <2> SUFFICES ASSUME NEW o \in Procs, NEW i \in 1..Len(turns'[o]), turns'[o][i] \in Requests
               PROVE  /\ proc[turns'[o][i]] = o /\ pc'[turns'[o][i]] \in Awaiting /\ got[turns'[o][i]] = <<>>
                      /\ \A j \in 1..Len(turns'[o]) : turns'[o][i] = turns'[o][j] => i = j
    BY <1>1 DEF TurnsOwn
  <2>1. CASE o # p
    BY <1>1, <1>3, <1>5, <2>1 DEF TurnInv, TurnsOwn
  <2>2. CASE o = p
    BY <1>1, <1>2, <1>7, <1>8, <2>2 DEF TurnInv, TurnsOwn, n
  <2> QED
    BY <2>1, <2>2
<1>10. UnwrittenLast'
  <2>1. pc'[r] \notin Unwritten
    BY <1>1 DEF Unwritten
  <2> QED
    BY <1>1, <1>3, <1>4, <2>1 DEF TurnInv, UnwrittenLast
<1>11. Awaited'
  <2> SUFFICES ASSUME NEW q \in Requests
               PROVE  /\ pc'[q] \in Awaiting /\ got[q] = <<>> => \E i \in 1..Len(turns'[proc[q]]) : turns'[proc[q]][i] = q
                      /\ Len(got[q]) <= 1 /\ (pc'[q] \in {"new", "ensured"} => got[q] = <<>>)
    BY <1>1 DEF Awaited
  <2>1. CASE q = r
    BY <1>1, <2>1 DEF TurnInv, Awaited, Awaiting, Unwritten
  <2>2. CASE q # r
    <3>1. ASSUME pc[q] \in Awaiting, got[q] = <<>>
          PROVE  \E i \in 1..Len(turns'[proc[q]]) : turns'[proc[q]][i] = q
      <4>1. PICK i \in 1..Len(turns[proc[q]]) : turns[proc[q]][i] = q
        BY <3>1 DEF TurnInv, Awaited
      <4>2. proc[q] \in Procs
        BY <3>1, TurnFacts DEF Awaiting, Unwritten, Sending
      <4>3. CASE proc[q] # p
        BY <1>3, <4>1, <4>2, <4>3
      <4>4. CASE proc[q] = p
        <5>1. i \in 1..n /\ n # 0 /\ turns[p][i] = q
          BY <1>2, <4>1, <4>4 DEF n
        <5>2. i # n
          BY <1>2, <1>6, <2>2, <5>1
        <5>3. i \in 1..Len(turns'[p])
          BY <1>2, <1>7, <5>1, <5>2
        <5> QED
          BY <1>7, <4>4, <5>1, <5>3
      <4> QED
        BY <4>3, <4>4
    <3> QED
      BY <1>1, <2>2, <3>1 DEF TurnInv, Awaited
  <2> QED
    BY <2>1, <2>2
<1> QED
  BY <1>9, <1>10, <1>11 DEF TurnInv

LEMMA ShowTurns ==
    ASSUME PoolAssumption, CapInv, SendInv, TurnInv, NEW p \in Procs, ShowTurn(p)
    PROVE  TurnInv'
<1>1. UNCHANGED <<pc, proc, got>>
  BY DEF ShowTurn, sendVars
<1>2. CASE turns[p] # <<>>
  BY <1>1, <1>2 DEF ShowTurn, TurnInv, TurnsOwn, UnwrittenLast, Awaited
<1>3. CASE turns[p] = <<>>
  <2>1. turns' = [turns EXCEPT ![p] = <<Spont>>]
    BY <1>3 DEF ShowTurn
  <2>2. /\ turns'[p] = <<Spont>> /\ Len(turns'[p]) = 1 /\ turns'[p][1] = Spont
        /\ \A o \in Procs \ {p} : turns'[o] = turns[o]
        /\ Len(turns[p]) = 0 /\ Spont \notin Requests
    BY <1>3, <2>1, TurnFacts DEF SendInv, SendTypes
  <2>3. TurnsOwn'
    BY <1>1, <2>2 DEF TurnInv, TurnsOwn
  <2>4. \A r \in Requests : pc[r] \in Awaiting => proc[r] \in Procs
    BY TurnFacts DEF Awaiting, Unwritten, Sending
  <2>5. UnwrittenLast'
    BY <1>1, <2>2, <2>4 DEF TurnInv, UnwrittenLast, Awaiting
  <2>6. Awaited'
    <3>1. ASSUME NEW q \in Requests, pc[q] \in Awaiting, got[q] = <<>>
          PROVE  \E i \in 1..Len(turns'[proc[q]]) : turns'[proc[q]][i] = q
      <4>1. PICK i \in 1..Len(turns[proc[q]]) : turns[proc[q]][i] = q
        BY <3>1 DEF TurnInv, Awaited
      <4>2. proc[q] \in Procs \ {p}
        BY <2>2, <2>4, <3>1, <4>1
      <4> QED
        BY <2>2, <4>1, <4>2
    <3> QED
      BY <1>1, <3>1 DEF TurnInv, Awaited
  <2> QED
    BY <2>3, <2>5, <2>6 DEF TurnInv
<1> QED
  BY <1>2, <1>3

\* A result takes the oldest turn and answers it.
LEMMA ResultTurns ==
    ASSUME PoolAssumption, CapInv, SendInv, TurnInv, NEW p \in Procs, HandleResult(p)
    PROVE  TurnInv'
<1> DEFINE n == Len(turns[p])
<1>1. UNCHANGED <<pc, proc>>
  BY DEF HandleResult
<1>2. CASE turns[p] = <<>>
  <2>1. UNCHANGED <<got, turns>>
    BY <1>2 DEF HandleResult
  <2> QED
    BY <1>1, <2>1 DEF TurnInv, TurnsOwn, UnwrittenLast, Awaited
<1>3. CASE turns[p] # <<>>
  <2> DEFINE h == turns[p][1]
  <2>0. n \in Nat /\ n # 0 /\ turns[p] \in Seq(Requests \cup {Spont})
    BY <1>3, TurnFacts
  <2>1. /\ \A i \in 1..n - 1 : Tail(turns[p])[i] = turns[p][i + 1]
        /\ Len(Tail(turns[p])) = n - 1 /\ Head(turns[p]) = h
    BY <1>3, <2>0, SeqFacts
  <2>2. /\ Len(turns'[p]) = n - 1
        /\ \A i \in 1..n - 1 : turns'[p][i] = turns[p][i + 1] /\ i + 1 \in 1..n /\ i + 1 # 1
        /\ \A o \in Procs \ {p} : turns'[o] = turns[o]
        /\ turns'[p] \in Seq(Requests \cup {Spont})
    <3>1. turns'[p] = Tail(turns[p]) /\ \A o \in Procs \ {p} : turns'[o] = turns[o]
      BY <1>3 DEF HandleResult, SendInv, SendTypes
    <3>2. \A i \in 1..n - 1 : i + 1 \in 1..n /\ i + 1 # 1
      BY <2>0
    <3>3. Tail(turns[p]) \in Seq(Requests \cup {Spont})
      BY <1>3, <2>0, SeqFacts
    <3> HIDE DEF n
    <3> QED
      BY <2>1, <3>1, <3>2, <3>3
  <2>3. \E a \in {"own", "other"} :
          got' = [r \in Requests |-> IF r \in {h} THEN Append(got[r], a) ELSE got[r]]
    BY <1>3, <2>1 DEF HandleResult, AnswerOldest, Answer
  <2>4. h \in Requests => proc[h] = p /\ pc[h] \in Awaiting /\ got[h] = <<>>
    BY <2>0 DEF TurnInv, TurnsOwn
  <2>5. /\ \A q \in Requests : q # h => got'[q] = got[q]
        /\ h \in Requests => Len(got'[h]) = 1 /\ got'[h] # <<>>
    <3>1. PICK a \in {"own", "other"} :
            got' = [r \in Requests |-> IF r \in {h} THEN Append(got[r], a) ELSE got[r]]
      BY <2>3
    <3> HIDE DEF h, n
    <3>2. ASSUME h \in Requests PROVE Len(got'[h]) = 1 /\ got'[h] # <<>>
      <4>1. got'[h] = Append(got[h], a) /\ got[h] = <<>>
        BY <2>4, <3>1, <3>2
      <4>2. Len(Append(<<>>, a)) = 1 /\ Append(<<>>, a) # <<>>
        OBVIOUS
      <4> QED
        BY <4>1, <4>2
    <3>3. \A q \in Requests : q # h => got'[q] = got[q]
      BY <3>1
    <3> QED
      BY <3>2, <3>3
  <2>6. \A o \in Procs : \A i \in 1..Len(turns'[o]) : turns'[o][i] \in Requests => turns'[o][i] # h
    <3> SUFFICES ASSUME NEW o \in Procs, NEW i \in 1..Len(turns'[o]), turns'[o][i] = h, h \in Requests
                 PROVE  FALSE
      OBVIOUS
    <3>1. CASE o # p
      BY <2>2, <2>4, <3>1 DEF TurnInv, TurnsOwn
    <3>2. CASE o = p
      <4>1. turns[p][i + 1] = h /\ i + 1 \in 1..n /\ i + 1 # 1 /\ 1 \in 1..n
        BY <2>0, <2>2, <3>2
      <4> QED
        BY <4>1 DEF TurnInv, TurnsOwn
    <3> QED
      BY <3>1, <3>2
  <2> HIDE DEF n, h
  <2>7. TurnsOwn'
    <3> SUFFICES ASSUME NEW o \in Procs, NEW i \in 1..Len(turns'[o]), turns'[o][i] \in Requests
                 PROVE  /\ proc[turns'[o][i]] = o /\ pc[turns'[o][i]] \in Awaiting /\ got'[turns'[o][i]] = <<>>
                        /\ \A j \in 1..Len(turns'[o]) : turns'[o][i] = turns'[o][j] => i = j
      BY <1>1 DEF TurnsOwn
    <3>1. turns'[o][i] # h /\ got'[turns'[o][i]] = got[turns'[o][i]]
      BY <2>5, <2>6
    <3>2. CASE o # p
      BY <2>2, <3>1, <3>2 DEF TurnInv, TurnsOwn
    <3>3. CASE o = p
      <4>1. i \in 1..n - 1 /\ turns'[p][i] = turns[p][i + 1] /\ i + 1 \in 1..n
        BY <2>2, <3>3
      <4>2. \A j \in 1..n - 1 : turns[p][i + 1] = turns[p][j + 1] => i + 1 = j + 1
        BY <2>2, <3>3, <4>1 DEF TurnInv, TurnsOwn, n
      <4>3. proc[turns[p][i + 1]] = p /\ pc[turns[p][i + 1]] \in Awaiting /\ got[turns[p][i + 1]] = <<>>
        BY <3>3, <4>1 DEF TurnInv, TurnsOwn, n
      <4>4. \A j \in 1..n - 1 : turns'[p][i] = turns'[p][j] => i = j
        BY <2>0, <2>2, <4>1, <4>2
      <4> QED
        BY <2>2, <3>1, <3>3, <4>1, <4>3, <4>4
    <3> QED
      BY <3>2, <3>3
  <2>8. UnwrittenLast'
    <3> SUFFICES ASSUME NEW q \in Requests, pc[q] \in Unwritten, turns'[proc[q]] # <<>>
                 PROVE  \/ turns'[proc[q]][Len(turns'[proc[q]])] = q
                        \/ turns'[proc[q]][Len(turns'[proc[q]])] = Spont /\ Len(turns'[proc[q]]) = 1
      BY <1>1 DEF UnwrittenLast
    <3>1. proc[q] \in Procs
      BY TurnFacts DEF Unwritten, Sending
    <3>2. CASE proc[q] # p
      BY <2>2, <3>1, <3>2 DEF TurnInv, UnwrittenLast
    <3>3. CASE proc[q] = p
      <4>1. turns'[p] \in Seq(Requests \cup {Spont})
        BY <2>2
      <4>2. n - 1 # 0 /\ n - 1 \in 1..n - 1
        BY <2>0, <2>2, <3>3, <4>1, SeqFacts
      <4>3. turns'[p][n - 1] = turns[p][n] /\ n # 1
        BY <2>0, <2>2, <4>2
      <4> QED
        BY <1>3, <2>2, <3>3, <4>3 DEF TurnInv, UnwrittenLast, n
    <3> QED
      BY <3>2, <3>3
  <2>9. Awaited'
    <3> SUFFICES ASSUME NEW q \in Requests
                 PROVE  /\ pc[q] \in Awaiting /\ got'[q] = <<>> => \E i \in 1..Len(turns'[proc[q]]) : turns'[proc[q]][i] = q
                        /\ Len(got'[q]) <= 1 /\ (pc[q] \in {"new", "ensured"} => got'[q] = <<>>)
      BY <1>1 DEF Awaited
    <3>1. CASE q = h
      <4>1. Len(got'[q]) = 1 /\ got'[q] # <<>> /\ pc[q] \notin {"new", "ensured"}
        BY <2>4, <2>5, <3>1 DEF Awaiting, Unwritten
      <4> QED
        BY <4>1
    <3>2. CASE q # h
      <4>1. ASSUME pc[q] \in Awaiting, got[q] = <<>>
            PROVE  \E i \in 1..Len(turns'[proc[q]]) : turns'[proc[q]][i] = q
        <5>1. PICK i \in 1..Len(turns[proc[q]]) : turns[proc[q]][i] = q
          BY <4>1 DEF TurnInv, Awaited
        <5>2. proc[q] \in Procs
          BY <4>1, TurnFacts DEF Awaiting, Unwritten, Sending
        <5>3. CASE proc[q] # p
          BY <2>2, <5>1, <5>2, <5>3
        <5>4. CASE proc[q] = p
          <6>1. i \in 1..n /\ i # 1
            BY <3>2, <5>1, <5>4 DEF n, h
          <6>2. i - 1 \in 1..n - 1 /\ (i - 1) + 1 = i
            BY <2>0, <6>1
          <6> QED
            BY <2>2, <5>1, <5>4, <6>2
        <5> QED
          BY <5>3, <5>4
      <4> QED
        BY <2>5, <3>2, <4>1 DEF TurnInv, Awaited
    <3> QED
      BY <3>1, <3>2
  <2> QED
    BY <2>7, <2>8, <2>9 DEF TurnInv
<1> QED
  BY <1>2, <1>3

\* A process that is over has answered all of its turns.
LEMMA SettleTurns ==
    ASSUME PoolAssumption, CapInv, SendInv, TurnInv, NEW p \in Procs, DiedSettle(p)
    PROVE  TurnInv'
<1>1. /\ UNCHANGED <<pc, proc>> /\ turns' = [turns EXCEPT ![p] = <<>>]
      /\ got' = [r \in Requests |-> IF r \in Range(turns[p]) THEN Append(got[r], "exited") ELSE got[r]]
  BY DEF DiedSettle, Answer
<1>2. turns'[p] = <<>> /\ Len(turns'[p]) = 0 /\ \A o \in Procs \ {p} : turns'[o] = turns[o]
  BY <1>1 DEF SendInv, SendTypes
<1>3. \A q \in Requests : q \in Range(turns[p]) <=> \E i \in 1..Len(turns[p]) : turns[p][i] = q
  BY TurnFacts DEF Range
<1>4. \A q \in Requests : q \in Range(turns[p]) =>
        proc[q] = p /\ pc[q] \in Awaiting /\ got[q] = <<>> /\ Len(got'[q]) = 1 /\ got'[q] # <<>>
  BY <1>1, <1>3 DEF TurnInv, TurnsOwn
<1>5. \A q \in Requests : q \notin Range(turns[p]) => got'[q] = got[q]
  BY <1>1
<1>6. \A q \in Requests : pc[q] \in Awaiting => proc[q] \in Procs
  BY TurnFacts DEF Awaiting, Unwritten, Sending
<1>7. TurnsOwn'
  <2> SUFFICES ASSUME NEW o \in Procs, NEW i \in 1..Len(turns'[o]), turns'[o][i] \in Requests
               PROVE  /\ proc[turns'[o][i]] = o /\ pc[turns'[o][i]] \in Awaiting /\ got'[turns'[o][i]] = <<>>
                      /\ \A j \in 1..Len(turns'[o]) : turns'[o][i] = turns'[o][j] => i = j
    BY <1>1 DEF TurnsOwn
  <2>1. o # p /\ turns'[o] = turns[o]
    BY <1>2
  <2> QED
    BY <1>4, <1>5, <2>1 DEF TurnInv, TurnsOwn
<1>8. UnwrittenLast'
  BY <1>1, <1>2, <1>6 DEF TurnInv, UnwrittenLast, Awaiting
<1>9. Awaited'
  <2> SUFFICES ASSUME NEW q \in Requests
               PROVE  /\ pc[q] \in Awaiting /\ got'[q] = <<>> => \E i \in 1..Len(turns'[proc[q]]) : turns'[proc[q]][i] = q
                      /\ Len(got'[q]) <= 1 /\ (pc[q] \in {"new", "ensured"} => got'[q] = <<>>)
    BY <1>1 DEF Awaited
  <2>1. CASE q \in Range(turns[p])
    <3>1. Len(got'[q]) = 1 /\ got'[q] # <<>> /\ pc[q] \notin {"new", "ensured"}
      BY <1>4, <2>1 DEF Awaiting, Unwritten
    <3> QED
      BY <3>1
  <2>2. CASE q \notin Range(turns[p])
    <3>1. ASSUME pc[q] \in Awaiting, got[q] = <<>>
          PROVE  proc[q] # p /\ \E i \in 1..Len(turns[proc[q]]) : turns[proc[q]][i] = q
      BY <1>3, <2>2, <3>1 DEF TurnInv, Awaited
    <3> QED
      BY <1>2, <1>5, <1>6, <2>2, <3>1 DEF TurnInv, Awaited
  <2> QED
    BY <2>1, <2>2
<1> QED
  BY <1>7, <1>8, <1>9 DEF TurnInv

LEMMA TurnInvStep == PoolAssumption /\ CapInv /\ SendInv /\ TurnInv /\ [Next]_vars => TurnInv'
<1>1. ASSUME TurnInv, SendsStill PROVE TurnInv'
  BY <1>1 DEF SendsStill, TurnInv, TurnsOwn, UnwrittenLast, Awaited
<1>2. Quiet => SendsStill
  BY DEF Quiet
<1> QED
  BY <1>1, <1>2, SendSteps, EnsuredTurns, AppendTurns, WriteTurns, UndoTurns, ShowTurns, ResultTurns,
     SettleTurns DEF SendStep

-----------------------------------------------------------------------------
(* Results: the turns of a process that never raced match what it was told.*)

AgentTypes ==
    /\ stopping \in [Procs -> BOOLEAN]
    /\ died \in [Procs -> {"no", "removed", "settled"}]
    /\ stdin \in [Procs -> Seq(Requests)]
    /\ agent \in [Procs -> Requests \cup {None, Spont}]
    /\ marked \in [Procs -> BOOLEAN]
    /\ raced \subseteq Procs

\* The turn the process executes comes first, if it shows; who is about to write, last.
Lead(p) == IF agent[p] \in Requests \/ (agent[p] = Spont /\ marked[p]) THEN 1 ELSE 0
Writes(p) == {r \in Requests : pc[r] \in Unwritten /\ proc[r] = p}
Trail(p) == IF Writes(p) = {} THEN 0 ELSE 1

\* Between the two stands what is written and not taken up, while the process lives.
Matched(p) ==
    /\ Len(turns[p]) >= Lead(p) + Trail(p)
    /\ Lead(p) = 1 => turns[p][1] = agent[p]
    /\ \A r \in Writes(p) : turns[p][Len(turns[p])] = r
    /\ ~exited[p] => /\ Len(turns[p]) = Lead(p) + Len(stdin[p]) + Trail(p)
                     /\ \A i \in 1..Len(stdin[p]) : stdin[p][i] = turns[p][i + Lead(p)]

ProcOwn(p) ==
    /\ marked[p] => agent[p] # None
    /\ died[p] # "no" => exited[p]
    /\ died[p] = "settled" => stopping[p]
    /\ died[p] = "settled" =>
         \A i \in 1..Len(turns[p]) : turns[p][i] \in Requests => pc[turns[p][i]] # "sent"
    /\ p \in raced \/ died[p] = "settled" \/ Matched(p)

\* Who got the result of another was not told that it had been sent, or the process raced.
OthersExcused ==
    \A r \in Requests : "other" \in Range(got[r]) =>
      \/ proc[r] \in raced
      \/ pc[r] # "sent" /\ proc[r] \in Procs /\ died[proc[r]] = "settled"

OwnInv ==
    /\ AgentTypes
    /\ \A p \in Procs : ProcOwn(p)
    /\ OthersExcused

\* What is not touched stays in order.
LEMMA ProcFrame ==
    ASSUME NEW p, ProcOwn(p), raced \subseteq raced',
           marked'[p] = marked[p], agent'[p] = agent[p], died'[p] = died[p], turns'[p] = turns[p],
           stdin'[p] = stdin[p], exited'[p] = exited[p], stopping[p] => stopping'[p],
           Writes(p)' = Writes(p),
           \A r \in Requests : (\E i \in 1..Len(turns[p]) : turns[p][i] = r) => pc'[r] = pc[r]
    PROVE  ProcOwn(p)'
<1>1. Lead(p)' = Lead(p) /\ Trail(p)' = Trail(p)
  BY DEF Lead, Trail
<1>2. Matched(p) => Matched(p)'
  BY <1>1 DEF Matched
<1> QED
  BY <1>2 DEF ProcOwn

\* A process has one writer.
LEMMA Writer ==
    ASSUME SendInv, NEW r \in Requests, pc[r] \in Sending
    PROVE  Writes(proc[r]) = IF pc[r] \in Unwritten THEN {r} ELSE {}
<1>1. \A q \in Writes(proc[r]) : q = r
  BY OneWriter DEF Writes, Unwritten, Sending
<1> QED
  BY <1>1 DEF Writes

LEMMA AgentTypesStep == PoolAssumption /\ CapInv /\ SendInv /\ AgentTypes /\ [Next]_vars => AgentTypes'
<1> SUFFICES ASSUME PoolAssumption, CapInv, SendInv, AgentTypes, [Next]_vars PROVE AgentTypes'
  OBVIOUS
<1> USE DEF AgentTypes
<1>1. CASE UNCHANGED <<stopping, died, stdin, agent, marked, raced>>
  BY <1>1
<1>2. ASSUME NEW r \in Requests,
             \/ EnsureFound(r) \/ AllBusy(r) \/ AppendTurn(r) \/ WriteFails(r) \/ Undo(r)
             \/ \E S \in SUBSET Pooled : Spawn(r, S) \/ SpawnFails(r, S)
      PROVE  UNCHANGED <<stopping, died, stdin, agent, marked, raced>>
  BY <1>2 DEF EnsureFound, AllBusy, AppendTurn, WriteFails, Undo, Spawn, SpawnFails, turnVars, agentVars
<1>3. ASSUME NEW r \in Requests, Write(r) PROVE AgentTypes'
  <2>1. proc[r] \in Procs
    BY <1>3, TurnFacts DEF Write, Sending
  <2>2. Append(stdin[proc[r]], r) \in Seq(Requests)
    BY <2>1, SeqFacts
  <2> QED
    BY <1>3, <2>1, <2>2 DEF Write, turnVars
<1>4. ASSUME NEW p \in Procs, AskPermission(p) \/ EndPermission(p) \/ CancelPermission(p)
      PROVE  UNCHANGED <<stopping, died, stdin, agent, marked, raced>>
  BY <1>4 DEF AskPermission, EndPermission, CancelPermission, turnVars, agentVars
<1>5. ASSUME NEW p \in Procs, ShowTurn(p) \/ HandleResult(p) PROVE AgentTypes'
  BY <1>5 DEF ShowTurn, HandleResult, turnVars
<1>6. ASSUME NEW p \in Procs, DiedRemove(p) \/ DiedSettle(p) \/ Stop(p) PROVE AgentTypes'
  BY <1>6 DEF DiedRemove, DiedSettle, Stop, turnVars, agentVars
<1>7. ASSUME NEW p \in Procs, TakePrompt(p) PROVE AgentTypes'
  <2>1. Head(stdin[p]) \in Requests /\ Tail(stdin[p]) \in Seq(Requests)
    BY <1>7, SeqFacts, HeadTailProperties DEF TakePrompt
  <2> QED
    BY <1>7, <2>1 DEF TakePrompt, turnVars
<1>8. ASSUME NEW p \in Procs, TakeTurn(p) PROVE AgentTypes'
  BY <1>8 DEF TakeTurn, turnVars
<1>9. ASSUME NEW p \in Procs, Exit(p) PROVE AgentTypes'
  BY <1>9 DEF Exit, turnVars
<1>10. ASSUME NEW S, Kill(S) PROVE UNCHANGED <<stopping, died, stdin, agent, marked, raced>>
  BY <1>10 DEF Kill, turnVars, agentVars
<1>11. UNCHANGED vars => UNCHANGED <<stopping, died, stdin, agent, marked, raced>>
  BY DEF vars, turnVars, agentVars
<1> QED
  BY <1>1, <1>2, <1>3, <1>4, <1>5, <1>6, <1>7, <1>8, <1>9, <1>10, <1>11 DEF Next, SendStep

\* An action of one process, or of a send that has it, leaves the others in order.
LEMMA OtherProcs ==
    ASSUME TurnInv, OwnInv, NEW p, NEW o \in Procs, o # p, raced \subseteq raced', UNCHANGED proc,
           marked'[o] = marked[o], agent'[o] = agent[o], died'[o] = died[o], turns'[o] = turns[o],
           stdin'[o] = stdin[o], exited'[o] = exited[o], stopping[o] => stopping'[o],
           \A q \in Requests : proc[q] # p => pc'[q] = pc[q]
    PROVE  ProcOwn(o)'
<1>1. Writes(o)' = Writes(o)
  BY DEF Writes
<1>2. \A r \in Requests : (\E i \in 1..Len(turns[o]) : turns[o][i] = r) => pc'[r] = pc[r]
  BY DEF TurnInv, TurnsOwn
<1>3. ProcOwn(o)
  BY DEF OwnInv
<1> QED
  BY <1>1, <1>2, <1>3, ProcFrame

\* Nobody is answered: who got the result of another stays excused.
LEMMA OthersKept ==
    ASSUME OwnInv, UNCHANGED got, raced \subseteq raced',
           \A p \in Procs : died[p] = "settled" => died'[p] = "settled",
           \A r \in Requests : "other" \in Range(got[r]) =>
             /\ proc'[r] = proc[r]
             /\ pc'[r] = "sent" => pc[r] = "sent" \/ died[proc[r]] # "settled"
    PROVE  OthersExcused'
BY DEF OwnInv, OthersExcused

LEMMA StillOwn ==
    ASSUME PoolAssumption, CapInv, SendInv, TurnInv, OwnInv, Quiet
    PROVE  (\A p \in Procs : ProcOwn(p)') /\ OthersExcused'
<1>1. ASSUME NEW p \in Procs PROVE ProcOwn(p)'
  <2>1. Writes(p)' = Writes(p)
    BY DEF Writes, SendsStill, Quiet
  <2> QED
    BY <2>1, ProcFrame DEF OwnInv, AgentTypes, SendsStill, Quiet, agentVars
<1> QED
  BY <1>1, OthersKept DEF SendsStill, Quiet

LEMMA EnsuredOwn ==
    ASSUME PoolAssumption, CapInv, SendInv, TurnInv, OwnInv, NEW r \in Requests, Ensured(r)
    PROVE  (\A p \in Procs : ProcOwn(p)') /\ OthersExcused'
<1>1. /\ pc[r] = "new" /\ pc'[r] \in {"ensured", "failed"} /\ UNCHANGED <<got, turnVars, died, agentVars, raced>>
      /\ \A q \in Requests \ {r} : pc'[q] = pc[q] /\ proc'[q] = proc[q]
  BY DEF Ensured, Go, SendInv, SendTypes
<1>2. pc[r] \notin Awaiting /\ got[r] = <<>> /\ Range(got[r]) = {}
  <2>1. pc[r] \notin Awaiting /\ got[r] = <<>>
    BY <1>1 DEF Awaiting, Unwritten, TurnInv, Awaited
  <2> QED
    BY <2>1 DEF Range
<1>3. ASSUME NEW p \in Procs PROVE ProcOwn(p)'
  <2>1. Writes(p)' = Writes(p)
    BY <1>1 DEF Writes, Unwritten
  <2>2. \A q \in Requests : (\E i \in 1..Len(turns[p]) : turns[p][i] = q) => pc'[q] = pc[q]
    BY <1>1, <1>2 DEF TurnInv, TurnsOwn
  <2> QED
    BY <1>1, <2>1, <2>2, ProcFrame DEF OwnInv, turnVars, agentVars
<1> QED
  BY <1>1, <1>2, <1>3, OthersKept

LEMMA AppendOwn ==
    ASSUME PoolAssumption, CapInv, SendInv, TurnInv, OwnInv, NEW r \in Requests, NEW p \in Procs,
           proc[r] = p, AppendTurn(r)
    PROVE  (\A o \in Procs : ProcOwn(o)') /\ OthersExcused'
<1> DEFINE n == Len(turns[p])
<1>1. /\ pc[r] = "ensured" /\ pc'[r] = "appended" /\ UNCHANGED <<proc, got>>
      /\ \A q \in Requests \ {r} : pc'[q] = pc[q]
      /\ turns' = [turns EXCEPT ![p] = Append(turns[p], r)]
      /\ UNCHANGED <<stopping, died, exited, stdin, agent, marked, raced>>
  BY DEF AppendTurn, Go, SendInv, SendTypes, agentVars
<1>2. turns \in [Procs -> Seq(Requests \cup {Spont})] /\ Len(stdin[p]) \in Nat
  BY SeqFacts DEF SendInv, SendTypes, OwnInv, AgentTypes
<1>3. /\ n \in Nat /\ Len(turns'[p]) = n + 1 /\ turns'[p][n + 1] = r
      /\ \A i \in 1..n : turns'[p][i] = turns[p][i]
      /\ \A o \in Procs \ {p} : turns'[o] = turns[o]
  BY <1>1, <1>2, SeqFacts
<1>4. Writes(p) = {} /\ Writes(p)' = {r}
  <2>1. Writes(p) = {}
    BY <1>1, Writer DEF Sending, Unwritten
  <2> QED
    BY <1>1, <2>1 DEF Writes, Unwritten
<1>5. Lead(p)' = Lead(p) /\ Lead(p) \in {0, 1} /\ Trail(p) = 0 /\ Trail(p)' = 1
  BY <1>1, <1>4 DEF Lead, Trail
<1>6. ASSUME Matched(p) PROVE Matched(p)'
  <2> HIDE DEF n
  <2>1. n >= Lead(p) /\ n + 1 >= Lead(p) + 1
    BY <1>3, <1>5, <1>6 DEF Matched, n
  <2>2. Lead(p) = 1 => turns'[p][1] = agent[p]
    <3>1. Lead(p) = 1 => 1 \in 1..n
      BY <1>3, <2>1
    <3> QED
      BY <1>3, <1>6, <3>1 DEF Matched
  <2>3. ASSUME ~exited[p]
        PROVE  /\ n + 1 = Lead(p) + Len(stdin[p]) + 1
               /\ \A i \in 1..Len(stdin[p]) : stdin[p][i] = turns'[p][i + Lead(p)]
    <3>1. n = Lead(p) + Len(stdin[p])
      BY <1>2, <1>5, <1>6, <2>3 DEF Matched, n
    <3>2. \A i \in 1..Len(stdin[p]) : i + Lead(p) \in 1..n
      BY <1>2, <1>3, <1>5, <3>1
    <3> QED
      BY <1>2, <1>3, <1>5, <1>6, <2>3, <3>1, <3>2 DEF Matched
  <2> QED
    BY <1>1, <1>3, <1>4, <1>5, <2>1, <2>2, <2>3 DEF Matched
<1>7. ProcOwn(p)'
  <2>1. ProcOwn(p)
    BY <1>2 DEF OwnInv
  <2>2. ASSUME NEW i \in 1..n + 1, turns'[p][i] \in Requests, died[p] = "settled"
        PROVE  pc'[turns'[p][i]] # "sent"
    <3>1. i = n + 1 \/ i \in 1..n
      BY <1>3
    <3> QED
      BY <1>1, <1>3, <2>1, <2>2, <3>1 DEF ProcOwn
  <2> QED
    BY <1>1, <1>3, <1>6, <2>1, <2>2 DEF ProcOwn
<1> HIDE DEF n
<1>8. \A o \in Procs : ProcOwn(o)'
  <2>1. \A q \in Requests : proc[q] # p => pc'[q] = pc[q]
    BY <1>1
  <2> QED
    BY <1>1, <1>3, <1>7, <2>1, OtherProcs
<1>9. OthersExcused'
  BY <1>1, OthersKept
<1> QED
  BY <1>8, <1>9

LEMMA WriteOwn ==
    ASSUME PoolAssumption, CapInv, SendInv, TurnInv, OwnInv, NEW r \in Requests, NEW p \in Procs,
           proc[r] = p, Write(r)
    PROVE  (\A o \in Procs : ProcOwn(o)') /\ OthersExcused'
<1> DEFINE n == Len(turns[p])
           m == Len(stdin[p])
<1>1. /\ pc[r] = "appended" /\ pc'[r] = "sent" /\ UNCHANGED <<proc, got, turns>>
      /\ \A q \in Requests \ {r} : pc'[q] = pc[q]
      /\ stdin' = [stdin EXCEPT ![p] = Append(stdin[p], r)]
      /\ ~stopping[p] /\ ~exited[p]
      /\ UNCHANGED <<stopping, died, exited, agent, marked, raced>>
  BY DEF Write, Go, SendInv, SendTypes, turnVars
<1>2. stdin[p] \in Seq(Requests) /\ stdin \in [Procs -> Seq(Requests)] /\ n \in Nat
  BY TurnFacts DEF OwnInv, AgentTypes
<1>3. /\ m \in Nat /\ Len(stdin'[p]) = m + 1 /\ stdin'[p][m + 1] = r
      /\ \A i \in 1..m : stdin'[p][i] = stdin[p][i]
      /\ \A o \in Procs \ {p} : stdin'[o] = stdin[o]
  BY <1>1, <1>2, SeqFacts
<1>4. Writes(p) = {r} /\ Writes(p)' = {}
  <2>1. Writes(p) = {r}
    BY <1>1, Writer DEF Sending, Unwritten
  <2> QED
    BY <1>1, <2>1 DEF Writes, Unwritten
<1>5. Lead(p)' = Lead(p) /\ Lead(p) \in {0, 1} /\ Trail(p) = 1 /\ Trail(p)' = 0
  BY <1>1, <1>4 DEF Lead, Trail
<1> HIDE DEF n, m
<1>6. ASSUME Matched(p) PROVE Matched(p)'
  <2>1. n = Lead(p) + m + 1 /\ turns[p][n] = r
    BY <1>1, <1>4, <1>5, <1>6 DEF Matched, n, m
  <2>2. \A i \in 1..m + 1 : stdin'[p][i] = turns[p][i + Lead(p)]
    <3> SUFFICES ASSUME NEW i \in 1..m + 1 PROVE stdin'[p][i] = turns[p][i + Lead(p)]
      OBVIOUS
    <3>1. CASE i \in 1..m
      BY <1>1, <1>3, <1>6, <3>1 DEF Matched, m
    <3>2. CASE i = m + 1
      <4>1. i + Lead(p) = n
        BY <1>3, <1>5, <2>1, <3>2
      <4> QED
        BY <1>3, <2>1, <3>2, <4>1
    <3> QED
      BY <1>3, <3>1, <3>2
  <2>3. n >= Lead(p) + 0 /\ n = Lead(p) + (m + 1) + 0
    BY <1>3, <1>5, <2>1
  <2> QED
    BY <1>1, <1>3, <1>4, <1>5, <1>6, <2>2, <2>3 DEF Matched, n
<1>7. ProcOwn(p) /\ died[p] # "settled"
  BY <1>1 DEF OwnInv, ProcOwn
<1>8. ProcOwn(p)'
  BY <1>1, <1>6, <1>7 DEF ProcOwn
<1>9. \A o \in Procs : ProcOwn(o)'
  BY <1>1, <1>3, <1>8, OtherProcs
<1>10. OthersExcused'
  <2>1. \A q \in Requests : pc'[q] = "sent" => pc[q] = "sent" \/ died[proc[q]] # "settled"
    BY <1>1, <1>7
  <2> QED
    BY <1>1, <2>1, OthersKept
<1> QED
  BY <1>9, <1>10

LEMMA WriteFailsOwn ==
    ASSUME PoolAssumption, CapInv, SendInv, TurnInv, OwnInv, NEW r \in Requests, WriteFails(r)
    PROVE  (\A o \in Procs : ProcOwn(o)') /\ OthersExcused'
<1>1. /\ pc[r] = "appended" /\ pc'[r] = "undo" /\ UNCHANGED <<proc, got, turns>>
      /\ \A q \in Requests \ {r} : pc'[q] = pc[q]
      /\ UNCHANGED <<stopping, died, exited, stdin, agent, marked, raced>>
  BY DEF WriteFails, Go, SendInv, SendTypes, turnVars, agentVars
<1>2. ASSUME NEW o \in Procs PROVE ProcOwn(o)'
  <2>1. Writes(o)' = Writes(o) /\ Lead(o)' = Lead(o)
    BY <1>1 DEF Writes, Unwritten, Lead
  <2>2. Matched(o) => Matched(o)'
    BY <1>1, <2>1 DEF Matched, Trail
  <2>3. \A q \in Requests : pc'[q] = "sent" => pc[q] = "sent"
    BY <1>1
  <2>4. ProcOwn(o)
    BY DEF OwnInv
  <2> QED
    BY <1>1, <2>2, <2>3, <2>4 DEF ProcOwn
<1>3. OthersExcused'
  BY <1>1, OthersKept
<1> QED
  BY <1>2, <1>3

LEMMA UndoOwn ==
    ASSUME PoolAssumption, CapInv, SendInv, TurnInv, OwnInv, NEW r \in Requests, NEW p \in Procs,
           proc[r] = p, Undo(r)
    PROVE  (\A o \in Procs : ProcOwn(o)') /\ OthersExcused'
<1> DEFINE n == Len(turns[p])
           m == Len(stdin[p])
<1>1. /\ pc[r] = "undo" /\ pc'[r] \in {"failed", "panicked"} /\ UNCHANGED <<proc, got>>
      /\ \A q \in Requests \ {r} : pc'[q] = pc[q]
      /\ turns' = [turns EXCEPT ![p] = IF turns[p] = <<>> THEN turns[p] ELSE Front(turns[p])]
      /\ UNCHANGED <<stopping, died, exited, stdin, agent, marked, raced>>
  BY DEF Undo, Go, SendInv, SendTypes, agentVars
<1>2. /\ turns \in [Procs -> Seq(Requests \cup {Spont})] /\ n \in Nat /\ m \in Nat
      /\ turns[p] = <<>> <=> n = 0
  BY TurnFacts, SeqFacts DEF SendInv, SendTypes, OwnInv, AgentTypes
<1>3. \A o \in Procs \ {p} : turns'[o] = turns[o]
  BY <1>1, <1>2
<1>4. Writes(p) = {r} /\ Writes(p)' = {}
  <2>1. Writes(p) = {r}
    BY <1>1, Writer DEF Sending, Unwritten
  <2> QED
    BY <1>1, <2>1 DEF Writes, Unwritten
<1>5. Lead(p)' = Lead(p) /\ Lead(p) \in {0, 1} /\ Trail(p) = 1 /\ Trail(p)' = 0
  BY <1>1, <1>4 DEF Lead, Trail
<1>6. /\ Len(turns'[p]) = IF n = 0 THEN 0 ELSE n - 1
      /\ \A i \in 1..Len(turns'[p]) : turns'[p][i] = turns[p][i] /\ i \in 1..n
  <2>1. CASE n = 0
    BY <1>1, <1>2, <2>1
  <2>2. CASE n # 0
    <3>1. turns'[p] = Front(turns[p]) /\ Len(Front(turns[p])) = n - 1
          /\ \A i \in 1..n - 1 : Front(turns[p])[i] = turns[p][i]
      BY <1>1, <1>2, <2>2, SeqFacts
    <3> QED
      BY <1>2, <2>2, <3>1
  <2> QED
    BY <2>1, <2>2
<1> HIDE DEF n, m
<1>7. ASSUME Matched(p) PROVE Matched(p)'
  <2>1. n >= Lead(p) + 1 /\ n # 0 /\ Len(turns'[p]) = n - 1 /\ n - 1 >= Lead(p) + 0
    BY <1>2, <1>5, <1>6, <1>7 DEF Matched, n
  <2>2. Lead(p) = 1 => turns'[p][1] = agent[p]
    <3>1. Lead(p) = 1 => 1 \in 1..n - 1
      BY <1>2, <2>1
    <3> QED
      BY <1>6, <1>7, <2>1, <3>1 DEF Matched
  <2>3. ASSUME ~exited[p]
        PROVE  /\ n - 1 = Lead(p) + m + 0
               /\ \A i \in 1..m : stdin[p][i] = turns'[p][i + Lead(p)]
    <3>1. n = Lead(p) + m + 1
      BY <1>5, <1>7, <2>3 DEF Matched, n, m
    <3>2. n - 1 = Lead(p) + m + 0 /\ \A i \in 1..m : i + Lead(p) \in 1..n - 1
      BY <1>2, <1>5, <3>1
    <3> QED
      BY <1>6, <1>7, <2>1, <2>3, <3>2 DEF Matched, m
  <2> QED
    BY <1>1, <1>4, <1>5, <2>1, <2>2, <2>3 DEF Matched, m
<1>8. ProcOwn(p)'
  <2>1. ProcOwn(p) /\ \A q \in Requests : pc'[q] = "sent" => pc[q] = "sent"
    BY <1>1 DEF OwnInv
  <2> QED
    BY <1>1, <1>6, <1>7, <2>1 DEF ProcOwn, n
<1>9. \A o \in Procs : ProcOwn(o)'
  BY <1>1, <1>3, <1>8, OtherProcs
<1>10. OthersExcused'
  BY <1>1, OthersKept
<1> QED
  BY <1>9, <1>10

LEMMA ShowOwn ==
    ASSUME PoolAssumption, CapInv, SendInv, TurnInv, OwnInv, NEW p \in Procs, ShowTurn(p)
    PROVE  (\A o \in Procs : ProcOwn(o)') /\ OthersExcused'
<1>1. /\ UNCHANGED <<pc, proc, got, stopping, died, exited, stdin, agent>>
      /\ agent[p] # None /\ ~marked[p] /\ marked'[p] = TRUE
      /\ \A o \in Procs \ {p} : marked'[o] = marked[o] /\ turns'[o] = turns[o]
      /\ raced \subseteq raced'
  BY DEF ShowTurn, sendVars, OwnInv, AgentTypes, SendInv, SendTypes
<1>2. /\ Len(turns[p]) \in Nat /\ (turns[p] = <<>> <=> Len(turns[p]) = 0) /\ Spont \notin Requests
      /\ Len(stdin[p]) \in Nat /\ agent[p] \in Requests \cup {None, Spont}
  BY TurnFacts, SeqFacts DEF OwnInv, AgentTypes
<1>3. Writes(p)' = Writes(p) /\ Trail(p)' = Trail(p) /\ Trail(p) \in {0, 1} /\ Lead(p)' = 1 /\ Lead(p) \in {0, 1}
  BY <1>1, <1>2 DEF Writes, Trail, Lead
<1>4. turns[p] # <<>> => turns' = turns
  BY DEF ShowTurn
<1>5. turns[p] = <<>> => Len(turns'[p]) = 1 /\ turns'[p][1] = Spont
  BY DEF ShowTurn, SendInv, SendTypes
<1>6. ProcOwn(p)
  BY DEF OwnInv
<1>7. ASSUME Matched(p), p \notin raced' PROVE Matched(p)'
  <2>1. CASE turns[p] # <<>>
    <3>1. agent[p] \in Requests /\ Lead(p) = 1
      BY <1>1, <1>2, <1>7, <2>1 DEF ShowTurn, Lead
    <3> QED
      BY <1>1, <1>3, <1>4, <1>7, <2>1, <3>1 DEF Matched
  <2>2. CASE turns[p] = <<>>
    <3>1. Lead(p) = 0 /\ Trail(p) = 0 /\ Writes(p) = {} /\ (~exited[p] => Len(stdin[p]) = 0)
      <4>1. 0 >= Lead(p) + Trail(p) /\ (~exited[p] => 0 = Lead(p) + Len(stdin[p]) + Trail(p))
        BY <1>2, <1>7, <2>2 DEF Matched
      <4>2. Lead(p) = 0 /\ Trail(p) = 0 /\ (~exited[p] => Len(stdin[p]) = 0)
        BY <1>2, <1>3, <4>1
      <4> QED
        BY <4>2 DEF Trail
    <3>2. agent[p] = Spont
      BY <1>1, <1>2, <3>1 DEF Lead
    <3>3. ~exited[p] => 1 = 1 + Len(stdin[p]) + 0 /\ 1..Len(stdin[p]) = {}
      BY <3>1
    <3>4. Lead(p)' = 1 /\ Trail(p)' = 0 /\ Writes(p)' = {} /\ turns'[p][1] = agent'[p] /\ Len(turns'[p]) = 1
      BY <1>1, <1>3, <1>5, <2>2, <3>1, <3>2
    <3> QED
      BY <1>1, <3>3, <3>4 DEF Matched
  <2> QED
    BY <2>1, <2>2
<1>8. ProcOwn(p)'
  <2>1. ASSUME died[p] = "settled", NEW i \in 1..Len(turns'[p]), turns'[p][i] \in Requests
        PROVE  pc[turns'[p][i]] # "sent"
    <3>1. turns[p] # <<>>
      BY <1>2, <1>5, <2>1
    <3> QED
      BY <1>4, <1>6, <2>1, <3>1 DEF ProcOwn
  <2> QED
    BY <1>1, <1>6, <1>7, <2>1 DEF ProcOwn
<1>9. \A o \in Procs : ProcOwn(o)'
  BY <1>1, <1>8, OtherProcs
<1>10. OthersExcused'
  BY <1>1, OthersKept
<1> QED
  BY <1>9, <1>10

\* A result is that of the oldest turn, or the process raced or is over.
LEMMA ResultOwn ==
    ASSUME PoolAssumption, CapInv, SendInv, TurnInv, OwnInv, NEW p \in Procs, HandleResult(p)
    PROVE  (\A o \in Procs : ProcOwn(o)') /\ OthersExcused'
<1> DEFINE n == Len(turns[p])
           h == turns[p][1]
<1>1. /\ UNCHANGED <<pc, proc, stopping, died, exited, stdin, raced>>
      /\ agent[p] # None /\ marked[p] /\ agent'[p] = None /\ marked'[p] = FALSE
      /\ \A o \in Procs \ {p} : marked'[o] = marked[o] /\ agent'[o] = agent[o] /\ turns'[o] = turns[o]
  BY DEF HandleResult, OwnInv, AgentTypes, SendInv, SendTypes
<1>2. /\ n \in Nat /\ (turns[p] = <<>> <=> n = 0) /\ turns[p] \in Seq(Requests \cup {Spont})
      /\ Len(stdin[p]) \in Nat /\ agent[p] \in Requests \cup {None, Spont} /\ None \notin Requests /\ None # Spont
  BY TurnFacts, SeqFacts DEF OwnInv, AgentTypes, PoolAssumption
<1>3. /\ Writes(p)' = Writes(p) /\ Trail(p)' = Trail(p) /\ Trail(p) \in {0, 1}
      /\ Lead(p) = 1 /\ Lead(p)' = 0
  BY <1>1, <1>2 DEF Writes, Trail, Lead
<1>4. ProcOwn(p)
  BY DEF OwnInv
<1>5. turns[p] # <<>> => /\ Len(turns'[p]) = n - 1
                         /\ \A i \in 1..n - 1 : turns'[p][i] = turns[p][i + 1] /\ i + 1 \in 1..n
  <2> SUFFICES ASSUME turns[p] # <<>>
               PROVE  /\ Len(turns'[p]) = n - 1
                      /\ \A i \in 1..n - 1 : turns'[p][i] = turns[p][i + 1] /\ i + 1 \in 1..n
    OBVIOUS
  <2>1. turns'[p] = Tail(turns[p])
    BY DEF HandleResult, SendInv, SendTypes
  <2>2. Len(Tail(turns[p])) = n - 1 /\ \A i \in 1..n - 1 : Tail(turns[p])[i] = turns[p][i + 1]
    BY <1>2, SeqFacts
  <2> QED
    BY <1>2, <2>1, <2>2
<1>6. turns[p] = <<>> => UNCHANGED <<turns, got>>
  BY DEF HandleResult
<1>7. ASSUME turns[p] # <<>>, NEW q \in Requests, "other" \in Range(got'[q]), "other" \notin Range(got[q])
      PROVE  q = h /\ h # agent[p]
  <2>1. /\ h = Head(turns[p])
        /\ got' = [r \in Requests |-> IF r \in {h} THEN Append(got[r], IF h = agent[p] THEN "own" ELSE "other")
                                                    ELSE got[r]]
    BY <1>2, <1>7, SeqFacts DEF HandleResult, AnswerOldest, Answer
  <2>2. q = h
    BY <1>7, <2>1
  <2>3. got[h] = <<>>
    BY <1>2, <1>7, <2>2 DEF TurnInv, TurnsOwn
  <2>4. h = agent[p] => got'[q] = Append(<<>>, "own")
    BY <2>1, <2>2, <2>3
  <2>5. Range(Append(<<>>, "own")) = {"own"}
    BY DEF Range
  <2> QED
    BY <1>7, <2>2, <2>4, <2>5
<1> HIDE DEF n, h
<1>8. ASSUME Matched(p) PROVE turns[p] # <<>> /\ h = agent[p] /\ Matched(p)'
  <2>1. n >= 1 + Trail(p) /\ turns[p] # <<>> /\ h = agent[p]
    BY <1>2, <1>3, <1>8 DEF Matched, n, h
  <2>2. Len(turns'[p]) = n - 1 /\ n - 1 >= 0 + Trail(p)
    BY <1>2, <1>3, <1>5, <2>1
  <2>3. ASSUME NEW r \in Writes(p) PROVE turns'[p][n - 1] = r
    <3>1. Trail(p) = 1
      BY <2>3 DEF Trail
    <3>2. n - 1 \in 1..n - 1 /\ (n - 1) + 1 = n
      BY <1>2, <2>2, <3>1
    <3>3. turns[p][n] = r
      BY <1>8, <2>3 DEF Matched, n
    <3> QED
      BY <1>5, <2>1, <3>2, <3>3
  <2>4. ASSUME ~exited[p]
        PROVE  /\ n - 1 = 0 + Len(stdin[p]) + Trail(p)
               /\ \A i \in 1..Len(stdin[p]) : stdin[p][i] = turns'[p][i + 0]
    <3>1. n = 1 + Len(stdin[p]) + Trail(p) /\ \A i \in 1..Len(stdin[p]) : stdin[p][i] = turns[p][i + 1]
      BY <1>3, <1>8, <2>4 DEF Matched, n
    <3>2. /\ n - 1 = 0 + Len(stdin[p]) + Trail(p)
          /\ \A i \in 1..Len(stdin[p]) : i \in 1..n - 1 /\ i + 0 = i
      BY <1>2, <1>3, <3>1
    <3> QED
      BY <1>5, <2>1, <3>1, <3>2
  <2> QED
    BY <1>1, <1>3, <2>1, <2>2, <2>3, <2>4 DEF Matched
<1>9. ProcOwn(p)'
  <2>1. ASSUME died[p] = "settled", NEW i \in 1..Len(turns'[p]), turns'[p][i] \in Requests
        PROVE  pc[turns'[p][i]] # "sent"
    BY <1>4, <1>5, <1>6, <2>1 DEF ProcOwn, n
  <2> QED
    BY <1>1, <1>4, <1>8, <2>1 DEF ProcOwn
<1>10. \A o \in Procs : ProcOwn(o)'
  BY <1>1, <1>9, OtherProcs
<1>11. OthersExcused'
  <2> SUFFICES ASSUME NEW q \in Requests, "other" \in Range(got'[q])
               PROVE  proc[q] \in raced \/ (pc[q] # "sent" /\ proc[q] \in Procs /\ died[proc[q]] = "settled")
    BY <1>1 DEF OthersExcused
  <2>1. CASE "other" \in Range(got[q])
    BY <2>1 DEF OwnInv, OthersExcused
  <2>2. CASE "other" \notin Range(got[q])
    <3>1. turns[p] # <<>> /\ q = h /\ h # agent[p]
      BY <1>6, <1>7, <2>2
    <3>2. proc[q] = p /\ 1 \in 1..n
      BY <1>2, <3>1 DEF TurnInv, TurnsOwn, n, h
    <3> QED
      BY <1>4, <1>8, <3>1, <3>2 DEF ProcOwn, n, h
  <2> QED
    BY <2>1, <2>2
<1> QED
  BY <1>10, <1>11

LEMMA AgentOwn ==
    ASSUME PoolAssumption, CapInv, SendInv, TurnInv, OwnInv, NEW p \in Procs, AgentStep(p), SendsStill
    PROVE  (\A o \in Procs : ProcOwn(o)') /\ OthersExcused'
<1>1. /\ UNCHANGED <<pc, proc, got, turns, stopping, raced>>
      /\ \A o \in Procs \ {p} : /\ marked'[o] = marked[o] /\ agent'[o] = agent[o] /\ died'[o] = died[o]
                                /\ stdin'[o] = stdin[o] /\ exited'[o] = exited[o]
      /\ died'[p] = IF DiedRemove(p) THEN "removed" ELSE died[p]
      /\ DiedRemove(p) => died[p] = "no" /\ exited[p]
  <2>1. UNCHANGED <<pc, proc, got, turns, stopping, raced>>
    BY DEF AgentStep, DiedRemove, TakePrompt, TakeTurn, Exit, turnVars, SendsStill
  <2>2. CASE DiedRemove(p)
    BY <2>1, <2>2 DEF DiedRemove, agentVars, OwnInv, AgentTypes
  <2>3. CASE TakePrompt(p)
    BY <2>1, <2>3 DEF TakePrompt, DiedRemove, OwnInv, AgentTypes
  <2>4. CASE TakeTurn(p)
    BY <2>1, <2>4 DEF TakeTurn, DiedRemove, OwnInv, AgentTypes
  <2>5. CASE Exit(p)
    BY <2>1, <2>5 DEF Exit, DiedRemove, OwnInv, AgentTypes, CapInv, PoolTypes
  <2> QED
    BY <2>2, <2>3, <2>4, <2>5 DEF AgentStep
<1>2. Writes(p)' = Writes(p) /\ Trail(p)' = Trail(p) /\ Trail(p) \in {0, 1}
  BY <1>1 DEF Writes, Trail
<1>3. /\ Len(turns[p]) \in Nat /\ stdin[p] \in Seq(Requests) /\ Len(stdin[p]) \in Nat
      /\ {None, Spont} \cap Requests = {} /\ None # Spont
  BY TurnFacts, SeqFacts DEF OwnInv, AgentTypes, PoolAssumption
<1>4. ProcOwn(p)
  BY DEF OwnInv
<1>5. CASE DiedRemove(p)
  <2>1. /\ died'[p] = "removed" /\ died[p] = "no" /\ exited[p]
        /\ UNCHANGED <<exited, stdin, agent, marked>>
    BY <1>1, <1>5 DEF DiedRemove, agentVars
  <2>2. Lead(p)' = Lead(p)
    BY <2>1 DEF Lead
  <2>3. Matched(p) => Matched(p)'
    BY <1>1, <1>2, <2>1, <2>2 DEF Matched
  <2>4. ProcOwn(p)'
    BY <1>1, <1>4, <2>1, <2>3 DEF ProcOwn
  <2> QED
    BY <1>1, <2>1, <2>4, OtherProcs, OthersKept
<1>6. CASE TakePrompt(p)
  <2>1. /\ ~exited[p] /\ agent[p] = None /\ stdin[p] # <<>>
        /\ agent'[p] = Head(stdin[p]) /\ stdin'[p] = Tail(stdin[p]) /\ UNCHANGED <<exited, died, marked>>
    BY <1>6 DEF TakePrompt, Live, OwnInv, AgentTypes
  <2>2. /\ Len(stdin[p]) # 0 /\ Head(stdin[p]) = stdin[p][1] /\ stdin[p][1] \in Requests
        /\ Len(Tail(stdin[p])) = Len(stdin[p]) - 1
        /\ \A i \in 1..Len(stdin[p]) - 1 : Tail(stdin[p])[i] = stdin[p][i + 1]
    <3>1. Len(stdin[p]) # 0 /\ 1 \in 1..Len(stdin[p])
      BY <1>3, <2>1
    <3> QED
      BY <1>3, <2>1, <3>1, SeqFacts
  <2>3. Lead(p) = 0 /\ Lead(p)' = 1
    BY <1>3, <2>1, <2>2 DEF Lead
  <2>4. ASSUME Matched(p) PROVE Matched(p)'
    <3>1. /\ Len(turns[p]) = 0 + Len(stdin[p]) + Trail(p)
          /\ \A i \in 1..Len(stdin[p]) : stdin[p][i] = turns[p][i + 0]
      BY <2>1, <2>3, <2>4 DEF Matched
    <3>2. /\ 1 \in 1..Len(stdin[p]) /\ 1 + 0 = 1
          /\ Len(turns[p]) >= 1 + Trail(p) /\ Len(turns[p]) = 1 + (Len(stdin[p]) - 1) + Trail(p)
          /\ \A i \in 1..Len(stdin[p]) - 1 : i + 1 \in 1..Len(stdin[p]) /\ (i + 1) + 0 = i + 1
      BY <1>2, <1>3, <2>2, <3>1
    <3>3. turns[p][1] = agent'[p]
      BY <2>1, <2>2, <3>1, <3>2
    <3>4. \A i \in 1..Len(stdin[p]) - 1 : Tail(stdin[p])[i] = turns[p][i + 1]
      BY <2>2, <3>1, <3>2
    <3> QED
      BY <1>1, <1>2, <2>1, <2>2, <2>3, <2>4, <3>2, <3>3, <3>4 DEF Matched
  <2>5. agent'[p] # None
    BY <1>3, <2>1, <2>2
  <2>6. ProcOwn(p)'
    BY <1>1, <1>4, <2>1, <2>4, <2>5 DEF ProcOwn
  <2> QED
    BY <1>1, <2>1, <2>6, OtherProcs, OthersKept
<1>7. CASE TakeTurn(p)
  <2>1. agent[p] = None /\ agent'[p] = Spont /\ UNCHANGED <<exited, died, stdin, marked>>
    BY <1>7 DEF TakeTurn, OwnInv, AgentTypes
  <2>2. ~marked[p]
    BY <1>4, <2>1 DEF ProcOwn, OwnInv, AgentTypes
  <2>3. Lead(p) = 0 /\ Lead(p)' = 0
    BY <1>3, <2>1, <2>2 DEF Lead
  <2>4. Matched(p) => Matched(p)'
    BY <1>1, <1>2, <2>1, <2>3 DEF Matched
  <2>5. ProcOwn(p)'
    BY <1>1, <1>3, <1>4, <2>1, <2>4 DEF ProcOwn
  <2> QED
    BY <1>1, <2>1, <2>5, OtherProcs, OthersKept
<1>8. CASE Exit(p)
  <2>1. exited'[p] = TRUE /\ UNCHANGED <<died, agent, marked>>
    BY <1>8 DEF Exit, CapInv, PoolTypes
  <2>2. Lead(p)' = Lead(p)
    BY <2>1 DEF Lead
  <2>3. Matched(p) => Matched(p)'
    BY <1>1, <1>2, <2>1, <2>2 DEF Matched
  <2>4. ProcOwn(p)'
    BY <1>1, <1>4, <2>1, <2>3 DEF ProcOwn
  <2> QED
    BY <1>1, <2>1, <2>4, OtherProcs, OthersKept
<1> QED
  BY <1>5, <1>6, <1>7, <1>8 DEF AgentStep

LEMMA SettleOwn ==
    ASSUME PoolAssumption, CapInv, SendInv, TurnInv, OwnInv, NEW p \in Procs, DiedSettle(p)
    PROVE  (\A o \in Procs : ProcOwn(o)') /\ OthersExcused'
<1>1. /\ UNCHANGED <<pc, proc, exited, stdin, agent, marked, raced>>
      /\ died[p] = "removed" /\ died'[p] = "settled" /\ stopping'[p] = TRUE /\ turns'[p] = <<>>
      /\ got' = [r \in Requests |-> IF r \in Range(turns[p]) THEN Append(got[r], "exited") ELSE got[r]]
      /\ \A o \in Procs \ {p} : turns'[o] = turns[o] /\ died'[o] = died[o] /\ stopping'[o] = stopping[o]
  BY DEF DiedSettle, Answer, agentVars, OwnInv, AgentTypes, SendInv, SendTypes
<1>2. ProcOwn(p)'
  <2>1. ProcOwn(p) /\ Len(turns'[p]) = 0
    BY <1>1 DEF OwnInv
  <2> QED
    BY <1>1, <2>1 DEF ProcOwn
<1>3. \A o \in Procs : ProcOwn(o)'
  BY <1>1, <1>2, OtherProcs
<1>4. \A r \in Requests : "other" \in Range(got'[r]) => "other" \in Range(got[r])
  <2> SUFFICES ASSUME NEW r \in Requests, "other" \in Range(got'[r]), r \in Range(turns[p])
               PROVE  FALSE
    BY <1>1
  <2>1. got[r] = <<>>
    BY TurnFacts DEF Range, TurnInv, TurnsOwn
  <2>2. got'[r] = Append(<<>>, "exited")
    BY <1>1, <2>1
  <2>3. Range(Append(<<>>, "exited")) = {"exited"}
    BY DEF Range
  <2> QED
    BY <2>2, <2>3
<1>5. OthersExcused'
  <2>1. \A o \in Procs : died[o] = "settled" => died'[o] = "settled"
    BY <1>1
  <2> QED
    BY <1>1, <1>4, <2>1 DEF OwnInv, OthersExcused
<1> QED
  BY <1>3, <1>5

LEMMA OwnInvStep == PoolAssumption /\ CapInv /\ SendInv /\ TurnInv /\ OwnInv /\ [Next]_vars => OwnInv'
<1> SUFFICES ASSUME PoolAssumption, CapInv, SendInv, TurnInv, OwnInv, [Next]_vars PROVE OwnInv'
  OBVIOUS
<1> DEFINE Kept == (\A p \in Procs : ProcOwn(p)') /\ OthersExcused'
<1>1. AgentTypes'
  BY AgentTypesStep DEF OwnInv
<1>2. Quiet => Kept
  BY StillOwn
<1>3. ASSUME NEW p \in Procs, AgentStep(p) /\ SendsStill PROVE Kept
  BY <1>3, AgentOwn
<1>4. ASSUME NEW r \in Requests, Ensured(r) PROVE Kept
  BY <1>4, EnsuredOwn
<1>5. ASSUME NEW r \in Requests, SendStep(r) PROVE Kept
  <2>1. proc[r] \in Procs
    BY <1>5, TurnFacts DEF SendStep, AppendTurn, Write, WriteFails, Undo, Sending
  <2>2. CASE AppendTurn(r)
    BY <2>1, <2>2, AppendOwn
  <2>3. CASE Write(r)
    BY <2>1, <2>3, WriteOwn
  <2>4. CASE WriteFails(r)
    BY <2>4, WriteFailsOwn
  <2>5. CASE Undo(r)
    BY <2>1, <2>5, UndoOwn
  <2> QED
    BY <1>5, <2>2, <2>3, <2>4, <2>5 DEF SendStep
<1>6. ASSUME NEW p \in Procs, ShowTurn(p) \/ HandleResult(p) \/ DiedSettle(p) PROVE Kept
  BY <1>6, ShowOwn, ResultOwn, SettleOwn
<1>7. Kept
  BY <1>2, <1>3, <1>4, <1>5, <1>6, SendSteps
<1> QED
  BY <1>1, <1>7 DEF OwnInv

-----------------------------------------------------------------------------
(* The rest of the types.                                                  *)

RestTypes ==
    /\ proc \in [Requests -> 0..spawned]
    /\ stops \subseteq 1..spawned
    /\ prompt \in [Procs -> {"none", "open", "over"}]

LEMMA RestTypesStep == PoolAssumption /\ CapInv /\ SendInv /\ RestTypes /\ [Next]_vars => RestTypes'
<1> SUFFICES ASSUME PoolAssumption, CapInv, SendInv, RestTypes, [Next]_vars PROVE RestTypes'
  OBVIOUS
<1>0. /\ spawned \in Nat /\ spawned' \in Nat /\ 1..spawned \subseteq 1..spawned' /\ spawned <= spawned'
      /\ \A s \in Pooled : pool[s] \in 1..spawned
  <2>1. /\ spawned \in Nat /\ \A s \in Pooled : pool[s] \in 1..spawned
    BY DEF CapInv, PoolTypes, Pooled, PoolAssumption
  <2>2. spawned' \in Nat /\ 1..spawned \subseteq 1..spawned'
    BY SendSteps
  <2>3. spawned <= spawned'
    <3>1. spawned # 0 => spawned \in 1..spawned
      BY <2>1
    <3> QED
      BY <2>1, <2>2, <3>1
  <2> QED
    BY <2>1, <2>2, <2>3
<1>1. proc' \in [Requests -> 0..spawned']
  <2>1. UNCHANGED proc \/ \E r \in Requests, p \in 1..spawned' : proc' = [proc EXCEPT ![r] = p]
    BY SendSteps DEF Quiet, SendsStill, Ensured, SendStep, AppendTurn, Write, WriteFails, Undo, ShowTurn,
                     HandleResult, DiedSettle, sendVars
  <2> QED
    BY <1>0, <2>1 DEF RestTypes
<1>2. stops' \subseteq 1..spawned'
  <2>1. UNCHANGED stops \/ \E S \in SUBSET Pooled : stops' = stops \cup {pool[s] : s \in S}
    BY PoolSteps DEF CapInv, PoolStill, GiveUp, Spawn, Evict, DiedRemove
  <2>2. stops \subseteq 1..spawned'
    BY <1>0 DEF RestTypes
  <2>3. \A S \in SUBSET Pooled : {pool[s] : s \in S} \subseteq 1..spawned'
    <3> SUFFICES ASSUME NEW S \in SUBSET Pooled, NEW s \in S PROVE pool[s] \in 1..spawned'
      OBVIOUS
    <3>1. s \in Pooled
      OBVIOUS
    <3> QED
      BY <1>0, <3>1
  <2> QED
    BY <2>1, <2>2, <2>3
<1>3. prompt' \in [Procs -> {"none", "open", "over"}]
  <2> USE DEF RestTypes
  <2>1. CASE UNCHANGED prompt
    BY <2>1
  <2>2. ASSUME NEW r \in Requests,
               \/ EnsureFound(r) \/ AllBusy(r) \/ SendStep(r)
               \/ \E S \in SUBSET Pooled : Spawn(r, S) \/ SpawnFails(r, S)
        PROVE  UNCHANGED prompt
    BY <2>2 DEF EnsureFound, AllBusy, Spawn, SpawnFails, SendStep, AppendTurn, Write, WriteFails, Undo
  <2>3. ASSUME NEW p \in Procs,
               \/ ShowTurn(p) \/ HandleResult(p) \/ DiedRemove(p) \/ Stop(p)
               \/ TakePrompt(p) \/ TakeTurn(p) \/ Exit(p)
        PROVE  UNCHANGED prompt
    BY <2>3 DEF ShowTurn, HandleResult, DiedRemove, Stop, TakePrompt, TakeTurn, Exit
  <2>4. ASSUME NEW p \in Procs, AskPermission(p) PROVE prompt' \in [Procs -> {"none", "open", "over"}]
    BY <2>4 DEF AskPermission
  <2>5. ASSUME NEW p \in Procs, EndPermission(p) \/ CancelPermission(p)
        PROVE  prompt' \in [Procs -> {"none", "open", "over"}]
    BY <2>5 DEF EndPermission, CancelPermission
  <2>6. ASSUME NEW p \in Procs, DiedSettle(p) PROVE prompt' \in [Procs -> {"none", "open", "over"}]
    BY <2>6 DEF DiedSettle
  <2>7. ASSUME NEW S, Kill(S) PROVE UNCHANGED prompt
    BY <2>7 DEF Kill
  <2>8. UNCHANGED vars => UNCHANGED prompt
    BY DEF vars
  <2> QED
    BY <2>1, <2>2, <2>3, <2>4, <2>5, <2>6, <2>7, <2>8 DEF Next
<1> QED
  BY <1>1, <1>2, <1>3 DEF RestTypes

-----------------------------------------------------------------------------
(* The theorems.                                                           *)

StreamInv == CapInv /\ SendInv /\ TurnInv /\ OwnInv /\ RestTypes

LEMMA StreamInit == PoolAssumption /\ Init => StreamInv
<1> SUFFICES ASSUME PoolAssumption, Init PROVE StreamInv
  OBVIOUS
<1>1. CapInv
  BY CapInit
<1>2. /\ \A r \in Requests : pc[r] = "new" /\ proc[r] = 0 /\ got[r] = <<>> /\ Len(got[r]) = 0
      /\ \A p \in Procs : turns[p] = <<>> /\ Len(turns[p]) = 0 /\ stdin[p] = <<>> /\ Len(stdin[p]) = 0
  BY DEF Init
<1>3. SendInv
  BY <1>2 DEF Init, SendInv, SendTypes, PCs, Sending
<1>4. TurnInv
  BY <1>2 DEF TurnInv, TurnsOwn, UnwrittenLast, Awaited, Awaiting, Unwritten
<1>5. OwnInv
  <2>1. AgentTypes
    BY DEF Init, AgentTypes
  <2>2. ASSUME NEW p \in Procs PROVE ProcOwn(p)
    <3>1. Writes(p) = {} /\ agent[p] = None /\ ~marked[p] /\ died[p] = "no"
      BY <1>2 DEF Init, Writes, Unwritten
    <3>2. Lead(p) = 0 /\ Trail(p) = 0
      BY <3>1 DEF Lead, Trail, PoolAssumption
    <3> QED
      BY <1>2, <3>1, <3>2 DEF ProcOwn, Matched
  <2>3. OthersExcused
    BY <1>2 DEF OthersExcused, Range
  <2> QED
    BY <2>1, <2>2, <2>3 DEF OwnInv
<1>6. RestTypes
  BY DEF Init, RestTypes
<1> QED
  BY <1>1, <1>3, <1>4, <1>5, <1>6 DEF StreamInv

LEMMA StreamStep == PoolAssumption /\ StreamInv /\ [Next]_vars => StreamInv'
BY CapStep, SendInvStep, TurnInvStep, OwnInvStep, RestTypesStep DEF StreamInv

LEMMA StreamPool == PoolAssumption /\ StreamInv => PoolExact
<1> SUFFICES ASSUME PoolAssumption, StreamInv PROVE PoolExact
  OBVIOUS
<1>1. /\ \A r \in Requests : Range(got[r]) \subseteq {"own", "other", "exited"}
      /\ \A p \in Procs : Range(turns[p]) \subseteq Requests \cup {Spont}
      /\ \A p \in Procs : Range(stdin[p]) \subseteq Requests
  <2>1. ASSUME NEW T, NEW s \in Seq(T) PROVE Range(s) \subseteq T
    BY DEF Range
  <2> QED
    BY <2>1 DEF StreamInv, SendInv, SendTypes, OwnInv, AgentTypes
<1> QED
  BY <1>1 DEF StreamInv, CapInv, PoolTypes, SendInv, SendTypes, OwnInv, AgentTypes, RestTypes, TypeOK,
              PoolExact

LEMMA StreamResults == PoolAssumption /\ StreamInv => ResultsReach
<1> SUFFICES ASSUME PoolAssumption, StreamInv, NEW r \in Requests
             PROVE  /\ Len(got[r]) <= 1
                    /\ pc[r] = "sent" /\ got[r] = <<>> => r \in Range(turns[proc[r]])
                    /\ pc[r] = "sent" /\ "other" \in Range(got[r]) => proc[r] \in raced
  BY DEF ResultsReach, AcceptedIsAwaited, OwnResult
<1>1. Len(got[r]) <= 1
  BY DEF StreamInv, TurnInv, Awaited
<1>2. ASSUME pc[r] = "sent", got[r] = <<>> PROVE r \in Range(turns[proc[r]])
  <2>1. proc[r] \in Procs /\ turns[proc[r]] \in Seq(Requests \cup {Spont})
    BY <1>2, TurnFacts DEF StreamInv
  <2>2. \E i \in 1..Len(turns[proc[r]]) : turns[proc[r]][i] = r
    BY <1>2 DEF StreamInv, TurnInv, Awaited, Awaiting
  <2> QED
    BY <2>1, <2>2 DEF Range
<1>3. pc[r] = "sent" /\ "other" \in Range(got[r]) => proc[r] \in raced
  BY DEF StreamInv, OwnInv, OthersExcused
<1> QED
  BY <1>1, <1>2, <1>3

\* In every state of the pool a process is the one of its session, one send of a session
\* writes at a time, the turns are the requests that are awaited, and those of a process
\* that never raced stand in the order it was told of them (ensure, Send, handleLine, died).
THEOREM StreamInvariant == ASSUME PoolAssumption PROVE Spec => []StreamInv
<1>1. Init => StreamInv
  BY StreamInit
<1>2. StreamInv /\ [Next]_vars => StreamInv'
  BY StreamStep
<1> QED
  BY <1>1, <1>2, PTL DEF Spec

\* --max-live-sessions is a hard cap, and a process beyond it has exited or is being
\* stopped, whatever dies, fails to start or is killed (ensure, stop, died).
THEOREM CapHolds == ASSUME PoolAssumption PROVE Spec => []PoolExact
<1>1. StreamInv => PoolExact
  BY StreamPool
<1> QED
  BY <1>1, StreamInvariant, PTL

\* A prompt that was written is awaited until it is answered, once, and by the result of
\* its own turn, unless a Send landed before a spontaneous turn showed (Send, handleLine).
THEOREM ResultsAreOwn == ASSUME PoolAssumption PROVE Spec => []ResultsReach
<1>1. StreamInv => ResultsReach
  BY StreamResults
<1> QED
  BY <1>1, StreamInvariant, PTL
=============================================================================
