---------------------------- MODULE ClaudeProofs ----------------------------
(***************************************************************************)
(* Proofs about the two sides of Claude that MCClaude puts together.  Of   *)
(* the process pool, what ClaudeStreamProofs proves is carried to the sum: *)
(* the steps of the one are stutters of the other.  Of the manager of      *)
(* prompts (Hook), for any requests, tool calls, sessions and answers,     *)
(* HookInv is inductive, and its properties follow from it.                *)
(***************************************************************************)
EXTENDS MCClaude, TLAPS

-----------------------------------------------------------------------------
(* The pool (ClaudeStream).                                                *)

\* The pool with what is proved of it; its definitions are those of Pool.
Facts == INSTANCE ClaudeStreamProofs WITH Sessions <- Logs, Requests <- Prompts, pc <- at

\* Pool and Facts are two instances of one module: they mean the same.
LEMMA SameInit == Pool!Init <=> Facts!Init
BY DEF Pool!Init, Facts!Init, Pool!Procs, Facts!Procs

\* Neither moves without the other.
LEMMA SameVars == poolVars' = poolVars <=> Facts!vars' = Facts!vars
BY DEF poolVars, Facts!sendVars, Facts!poolVars, Facts!turnVars, Facts!agentVars, Facts!vars

\* A step of one is a step of the other, action by action.
LEMMA SameNext == Pool!Next <=> Facts!Next
<1> USE DEF Pool!Go, Facts!Go, Pool!Pooled, Facts!Pooled, Pool!Idle, Facts!Idle, Pool!Sending, Facts!Sending, Pool!MaySend, Facts!MaySend, Pool!Absent, Facts!Absent, Pool!Full, Facts!Full, Pool!Evict, Facts!Evict, Pool!Procs, Facts!Procs, Pool!Range, Facts!Range, Pool!Front, Facts!Front, Pool!Cardinality, Facts!Cardinality, Pool!Answer, Facts!Answer, Pool!AnswerOldest, Facts!AnswerOldest, Pool!Live, Facts!Live, Pool!sendVars, Facts!sendVars, Pool!poolVars, Facts!poolVars, Pool!turnVars, Facts!turnVars, Pool!agentVars, Facts!agentVars, Pool!vars, Facts!vars
<1>1. \A r : Pool!EnsureFound(r) <=> Facts!EnsureFound(r)
  BY DEF Pool!EnsureFound, Facts!EnsureFound
<1>2. \A r : Pool!AllBusy(r) <=> Facts!AllBusy(r)
  BY DEF Pool!AllBusy, Facts!AllBusy
<1>3. \A r : Pool!AppendTurn(r) <=> Facts!AppendTurn(r)
  BY DEF Pool!AppendTurn, Facts!AppendTurn
<1>4. \A r : Pool!Write(r) <=> Facts!Write(r)
  BY DEF Pool!Write, Facts!Write
<1>5. \A r : Pool!WriteFails(r) <=> Facts!WriteFails(r)
  BY DEF Pool!WriteFails, Facts!WriteFails
<1>6. \A r : Pool!Undo(r) <=> Facts!Undo(r)
  BY DEF Pool!Undo, Facts!Undo
<1>7. \A r, S : Pool!Spawn(r, S) <=> Facts!Spawn(r, S)
  BY DEF Pool!Spawn, Facts!Spawn
<1>8. \A r, S : Pool!SpawnFails(r, S) <=> Facts!SpawnFails(r, S)
  BY DEF Pool!SpawnFails, Facts!SpawnFails
<1>9. \A p : Pool!ShowTurn(p) <=> Facts!ShowTurn(p)
  BY DEF Pool!ShowTurn, Facts!ShowTurn
<1>10. \A p : Pool!HandleResult(p) <=> Facts!HandleResult(p)
  BY DEF Pool!HandleResult, Facts!HandleResult
<1>11. \A p : Pool!AskPermission(p) <=> Facts!AskPermission(p)
  BY DEF Pool!AskPermission, Facts!AskPermission
<1>12. \A p : Pool!EndPermission(p) <=> Facts!EndPermission(p)
  BY DEF Pool!EndPermission, Facts!EndPermission
<1>13. \A p : Pool!CancelPermission(p) <=> Facts!CancelPermission(p)
  BY DEF Pool!CancelPermission, Facts!CancelPermission
<1>14. \A p : Pool!DiedRemove(p) <=> Facts!DiedRemove(p)
  BY DEF Pool!DiedRemove, Facts!DiedRemove
<1>15. \A p : Pool!DiedSettle(p) <=> Facts!DiedSettle(p)
  BY DEF Pool!DiedSettle, Facts!DiedSettle
<1>16. \A p : Pool!Stop(p) <=> Facts!Stop(p)
  BY DEF Pool!Stop, Facts!Stop
<1>17. \A p : Pool!TakePrompt(p) <=> Facts!TakePrompt(p)
  BY DEF Pool!TakePrompt, Facts!TakePrompt
<1>18. \A p : Pool!TakeTurn(p) <=> Facts!TakeTurn(p)
  BY DEF Pool!TakeTurn, Facts!TakeTurn
<1>19. \A p : Pool!Exit(p) <=> Facts!Exit(p)
  BY DEF Pool!Exit, Facts!Exit
<1>20. \A S : Pool!Kill(S) <=> Facts!Kill(S)
  BY DEF Pool!Kill, Facts!Kill
<1> QED
  BY <1>1, <1>2, <1>3, <1>4, <1>5, <1>6, <1>7, <1>8, <1>9, <1>10, <1>11, <1>12, <1>13, <1>14, <1>15, <1>16, <1>17, <1>18, <1>19, <1>20 DEF Pool!SendStep, Facts!SendStep, Pool!Next, Facts!Next

\* What is said of the pool is the same of both.
LEMMA SamePool == Pool!PoolExact <=> Facts!PoolExact
BY DEF Pool!Cardinality, Facts!Cardinality, Pool!Range, Facts!Range, Pool!PCs, Facts!PCs, Pool!TypeOK, Facts!TypeOK, Pool!PoolBounded, Facts!PoolBounded, Pool!NoneForgotten, Facts!NoneForgotten, Pool!PoolExact, Facts!PoolExact, Pool!AcceptedIsAwaited, Facts!AcceptedIsAwaited, Pool!OwnResult, Facts!OwnResult, Pool!ResultsReach, Facts!ResultsReach, Pool!Pooled, Facts!Pooled, Pool!Procs, Facts!Procs

\* So is what is said of the results.
LEMMA SameResults == Pool!ResultsReach <=> Facts!ResultsReach
BY DEF Pool!Cardinality, Facts!Cardinality, Pool!Range, Facts!Range, Pool!PCs, Facts!PCs, Pool!TypeOK, Facts!TypeOK, Pool!PoolBounded, Facts!PoolBounded, Pool!NoneForgotten, Facts!NoneForgotten, Pool!PoolExact, Facts!PoolExact, Pool!AcceptedIsAwaited, Facts!AcceptedIsAwaited, Pool!OwnResult, Facts!OwnResult, Pool!ResultsReach, Facts!ResultsReach, Pool!Pooled, Facts!Pooled, Pool!Procs, Facts!Procs

\* What the run looks at are behaviours of either part.
LEMMA RunIsEither == ClaudeSpec => Either
<1>1. ClaudeInit => EitherInit
  BY DEF ClaudeInit
<1>2. [ClaudeNext]_claudeVars => [EitherNext]_claudeVars
  BY DEF ClaudeNext, EitherNext, HookStep
<1> QED
  BY <1>1, <1>2, PTL DEF ClaudeSpec, Either

\* The inductive invariant of the pool holds of the composition.
LEMMA EitherKeepsPool == Either => []Facts!StreamInv
<1>1. Facts!PoolAssumption
  BY ClaudeAssumption DEF Pool!PoolAssumption, Facts!PoolAssumption, Pool!IsFiniteSet, Facts!IsFiniteSet
<1>2. EitherInit => Facts!StreamInv
  BY <1>1, SameInit, Facts!StreamInit DEF EitherInit
<1>3. [EitherNext]_claudeVars => [Facts!Next]_(Facts!vars)
  BY SameNext, SameVars DEF EitherNext, PoolStep, claudeVars
<1>4. Facts!StreamInv /\ [EitherNext]_claudeVars => Facts!StreamInv'
  BY <1>1, <1>3, Facts!StreamStep
<1> QED
  BY <1>2, <1>4, PTL DEF Either

\* PoolExact (ensure, stop, died): the pool of Claude's processes is within its cap, and
\* what runs beyond it is being stopped.
THEOREM PoolStaysExact == Either => []PoolExact
<1>1. Facts!PoolAssumption
  BY ClaudeAssumption DEF Pool!PoolAssumption, Facts!PoolAssumption, Pool!IsFiniteSet, Facts!IsFiniteSet
<1>2. Facts!StreamInv => PoolExact
  BY <1>1, SamePool, Facts!StreamPool DEF PoolExact
<1> QED
  BY <1>2, EitherKeepsPool, PTL

\* ResultsReach (handleLine, died): a prompt that was written is awaited until it is
\* answered, once, and by the result of its own turn unless a spontaneous turn raced it.
THEOREM ResultsReachTheirSend == Either => []ResultsReach
<1>1. Facts!PoolAssumption
  BY ClaudeAssumption DEF Pool!PoolAssumption, Facts!PoolAssumption, Pool!IsFiniteSet, Facts!IsFiniteSet
<1>2. Facts!StreamInv => ResultsReach
  BY <1>1, SameResults, Facts!StreamResults DEF ResultsReach
<1> QED
  BY <1>2, EitherKeepsPool, PTL

-----------------------------------------------------------------------------
(* The manager of prompts (Hook).                                          *)

USE HookAssumption

\* Every step keeps the types.
LEMMA TypeStep == TypeOK /\ JoinsItsCall /\ [Next]_vars => TypeOK'
<1> SUFFICES ASSUME TypeOK, JoinsItsCall, [Next]_vars PROVE TypeOK'
  OBVIOUS
<1> USE DEF TypeOK, PCs, Go, Decisions
<1>1. CASE UNCHANGED vars
  BY <1>1 DEF vars, autoVars
<1>2. ASSUME NEW r \in Requests, SubmitFirst(r) \/ SubmitJoin(r) \/ Step(r) \/ EndContext(r)
      PROVE  TypeOK'
  <2>1. CASE SubmitFirst(r)
    BY <2>1 DEF SubmitFirst, autoVars
  <2>2. CASE SubmitJoin(r)
    BY <2>2 DEF SubmitJoin, autoVars
  <2>3. CASE SettleQuick(r)
    BY <2>3 DEF SettleQuick, autoVars
  <2>4. CASE AskUser(r) \/ Register(r)
    BY <2>4 DEF AskUser, Register, autoVars
  <2>5. CASE TakeAnswer(r)
    <3>1. answer[r] \in Decisions \cup {"error", None}
      OBVIOUS
    <3>2. result' \in [Requests -> Decisions \cup {"error", None}]
      BY <2>5, <3>1 DEF TakeAnswer
    <3>3. answer' \in [Requests -> Decisions \cup {None}] /\ pc' \in [Requests -> PCs]
      BY <2>5 DEF TakeAnswer
    <3> QED
      BY <2>5, <3>2, <3>3 DEF TakeAnswer, autoVars
  <2>6. CASE Abandon(r) \/ Leave(r) \/ JoinAbandon(r)
    BY <2>6 DEF Abandon, Leave, JoinAbandon, autoVars
  <2>7. CASE JoinDone(r)
    <3>1. owner[r] \in Requests
      BY <2>7 DEF JoinDone, JoinsItsCall
    <3> QED
      BY <2>7, <3>1 DEF JoinDone, autoVars
  <2>8. CASE EndContext(r)
    BY <2>8 DEF EndContext, autoVars
  <2> QED
    BY <1>2, <2>1, <2>2, <2>3, <2>4, <2>5, <2>6, <2>7, <2>8 DEF Step
<1>3. ASSUME NEW c \in Calls, Forget(c) PROVE TypeOK'
  BY <1>3 DEF Forget, autoVars
<1>4. ASSUME NEW p \in Responders,
             Offer(p) \/ \E r \in Requests, d \in Decisions : Lookup(p, r, d)
      PROVE  TypeOK'
  <2>1. ASSUME NEW r \in Requests, NEW d \in Decisions, Lookup(p, r, d) PROVE TypeOK'
    BY <2>1 DEF Lookup, autoVars
  <2>2. CASE Offer(p)
    BY <2>2 DEF Offer, autoVars
  <2> QED
    BY <1>4, <2>1, <2>2
<1>5. ASSUME NEW s \in Sessions, NEW saved \in BOOLEAN, SetAutoApprove(s, saved) PROVE TypeOK'
  <2>1. auto' \subseteq Sessions /\ wanted' \subseteq Sessions
    BY <1>5 DEF SetAutoApprove, Persist
  <2>2. disk' \subseteq Sessions /\ unsaved' \in BOOLEAN
    BY <1>5, <2>1 DEF SetAutoApprove, Persist
  <2>3. toggles' \in 0..MaxToggles
    BY <1>5 DEF SetAutoApprove, Persist
  <2> QED
    BY <1>5, <2>1, <2>2, <2>3 DEF SetAutoApprove, Persist
<1>6. CASE Restart
  <2>1. pc' \in [Requests -> PCs] /\ owner' \in [Requests -> Requests \cup {None}]
    BY <1>6 DEF Restart
  <2>2. dedup' \in [Calls -> Requests \cup {None}] /\ pending' \subseteq Requests
    BY <1>6 DEF Restart
  <2>3. answer' \in [Requests -> Decisions \cup {None}] /\ ended' \subseteq Requests
    BY <1>6 DEF Restart
  <2>4. result' \in [Requests -> Decisions \cup {"error", None}]
    BY <1>6 DEF Restart
  <2>5. call' \in [Responders -> [at : {"new", "found", "accepted", "refused"},
                                  req : Requests \cup {None}, says : Decisions]]
    BY <1>6 DEF Restart
  <2>6. /\ auto' \subseteq Sessions /\ disk' \subseteq Sessions /\ wanted' \subseteq Sessions
        /\ unsaved' \in BOOLEAN /\ toggles' \in 0..MaxToggles /\ settled' \subseteq Requests
    BY <1>6 DEF Restart
  <2> QED
    BY <2>1, <2>2, <2>3, <2>4, <2>5, <2>6
<1> QED
  BY <1>1, <1>2, <1>3, <1>4, <1>5, <1>6 DEF Next

-----------------------------------------------------------------------------
\* What is shown waits, and what waits is shown.
LEMMA PendingStep == TypeOK /\ PendingIsExact /\ [Next]_vars => PendingIsExact'
<1> SUFFICES ASSUME TypeOK, PendingIsExact, [Next]_vars PROVE PendingIsExact'
  OBVIOUS
<1> USE DEF PendingIsExact, Go
<1>0. pc \in [Requests -> PCs] /\ pending \subseteq Requests
  BY DEF TypeOK
<1>1. ASSUME UNCHANGED <<pc, pending>> PROVE PendingIsExact'
  BY <1>1
<1>2. ASSUME NEW r \in Requests, SubmitFirst(r) \/ SubmitJoin(r) \/ Step(r) \/ EndContext(r)
      PROVE  PendingIsExact'
  <2>1. CASE SubmitFirst(r) \/ SubmitJoin(r)
    BY <1>0, <2>1 DEF SubmitFirst, SubmitJoin
  <2>2. CASE SettleQuick(r) \/ AskUser(r) \/ Register(r)
    BY <1>0, <2>2 DEF SettleQuick, AskUser, Register
  <2>3. CASE TakeAnswer(r) \/ Abandon(r) \/ Leave(r)
    BY <1>0, <2>3 DEF TakeAnswer, Abandon, Leave
  <2>4. CASE JoinDone(r) \/ JoinAbandon(r)
    BY <1>0, <2>4 DEF JoinDone, JoinAbandon
  <2>5. CASE EndContext(r)
    BY <1>1, <2>5 DEF EndContext
  <2> QED
    BY <1>2, <2>1, <2>2, <2>3, <2>4, <2>5 DEF Step
<1>3. CASE Restart
  BY <1>3 DEF Restart
<1>4. CASE UNCHANGED vars \/ (\E c \in Calls : Forget(c))
  BY <1>1, <1>4 DEF vars, Forget
<1>5. CASE \E p \in Responders : \/ \E r \in Requests, d \in Decisions : Lookup(p, r, d)
                                 \/ Offer(p)
  BY <1>1, <1>5 DEF Lookup, Offer
<1>6. CASE \E s \in Sessions, saved \in BOOLEAN : SetAutoApprove(s, saved)
  BY <1>1, <1>6 DEF SetAutoApprove, Persist
<1> QED
  BY <1>2, <1>3, <1>4, <1>5, <1>6 DEF Next

\* A joined request waits for one of its own call.
LEMMA JoinStep == TypeOK /\ JoinsItsCall /\ DedupExact /\ [Next]_vars => JoinsItsCall'
<1> SUFFICES ASSUME TypeOK, JoinsItsCall, DedupExact, [Next]_vars PROVE JoinsItsCall'
  OBVIOUS
<1> USE DEF JoinsItsCall, SameCall, Go
<1>0. /\ pc \in [Requests -> PCs] /\ owner \in [Requests -> Requests \cup {None}]
      /\ dedup \in [Calls -> Requests \cup {None}]
  BY DEF TypeOK
<1>1. ASSUME UNCHANGED <<pc, owner>> PROVE JoinsItsCall'
  BY <1>1
<1>2. ASSUME NEW r \in Requests, SubmitFirst(r) \/ SubmitJoin(r) \/ Step(r) \/ EndContext(r)
      PROVE  JoinsItsCall'
  <2>1. CASE SubmitFirst(r)
    BY <1>0, <2>1 DEF SubmitFirst
  <2>2. CASE SubmitJoin(r)
    <3>1. CallOf[r] \in Calls /\ dedup[CallOf[r]] # None
      BY <2>2 DEF SubmitJoin
    <3>2. CallOf[dedup[CallOf[r]]] = CallOf[r]
      BY <3>1 DEF DedupExact
    <3> QED
      BY <1>0, <2>2, <3>1, <3>2 DEF SubmitJoin
  <2>3. CASE SettleQuick(r) \/ AskUser(r) \/ Register(r)
    BY <1>0, <2>3 DEF SettleQuick, AskUser, Register
  <2>4. CASE TakeAnswer(r) \/ Abandon(r) \/ Leave(r)
    BY <1>0, <2>4 DEF TakeAnswer, Abandon, Leave
  <2>5. CASE JoinDone(r) \/ JoinAbandon(r)
    BY <1>0, <2>5 DEF JoinDone, JoinAbandon
  <2>6. CASE EndContext(r)
    BY <1>1, <2>6 DEF EndContext
  <2> QED
    BY <1>2, <2>1, <2>2, <2>3, <2>4, <2>5, <2>6 DEF Step
<1>3. CASE Restart
  BY <1>0, <1>3 DEF Restart
<1>4. CASE UNCHANGED vars \/ (\E c \in Calls : Forget(c))
  BY <1>1, <1>4 DEF vars, Forget
<1>5. CASE \E p \in Responders : \/ \E r \in Requests, d \in Decisions : Lookup(p, r, d)
                                 \/ Offer(p)
  BY <1>1, <1>5 DEF Lookup, Offer
<1>6. CASE \E s \in Sessions, saved \in BOOLEAN : SetAutoApprove(s, saved)
  BY <1>1, <1>6 DEF SetAutoApprove, Persist
<1> QED
  BY <1>2, <1>3, <1>4, <1>5, <1>6 DEF Next

\* The request that decides a call is the one dedup names.
LEMMA DedupStep == TypeOK /\ DedupExact /\ [Next]_vars => DedupExact'
<1> SUFFICES ASSUME TypeOK, DedupExact, [Next]_vars PROVE DedupExact'
  OBVIOUS
<1> USE DEF DedupExact, Deciding, Go
<1>0. pc \in [Requests -> PCs] /\ dedup \in [Calls -> Requests \cup {None}]
  BY DEF TypeOK
<1>1. ASSUME UNCHANGED <<pc, dedup>> PROVE DedupExact'
  BY <1>1
<1>2. ASSUME NEW r \in Requests, SubmitFirst(r) \/ SubmitJoin(r) \/ Step(r) \/ EndContext(r)
      PROVE  DedupExact'
  <2>1. CASE SubmitFirst(r)
    <3>1. \A q \in Requests : q # r /\ CallOf[q] # None /\ pc[q] \in Deciding => CallOf[q] # CallOf[r]
      BY <2>1 DEF SubmitFirst
    <3>2. \A q \in Requests : pc'[q] = IF q = r THEN "deciding" ELSE pc[q]
      BY <1>0, <2>1 DEF SubmitFirst
    <3>3. \A c \in Calls : dedup'[c] = IF c = CallOf[r] THEN r ELSE dedup[c]
      BY <2>1 DEF SubmitFirst
    <3> QED
      BY <3>1, <3>2, <3>3
  <2>2. CASE SubmitJoin(r)
    BY <1>0, <2>2 DEF SubmitJoin
  <2>3. CASE SettleQuick(r) \/ AskUser(r) \/ Register(r)
    BY <1>0, <2>3 DEF SettleQuick, AskUser, Register
  <2>4. CASE TakeAnswer(r) \/ Abandon(r) \/ Leave(r)
    BY <1>0, <2>4 DEF TakeAnswer, Abandon, Leave
  <2>5. CASE JoinDone(r) \/ JoinAbandon(r)
    BY <1>0, <2>5 DEF JoinDone, JoinAbandon
  <2>6. CASE EndContext(r)
    BY <1>1, <2>6 DEF EndContext
  <2> QED
    BY <1>2, <2>1, <2>2, <2>3, <2>4, <2>5, <2>6 DEF Step
<1>3. CASE Restart
  BY <1>0, <1>3 DEF Restart
<1>4. ASSUME NEW c \in Calls, Forget(c) PROVE DedupExact'
  BY <1>0, <1>4 DEF Forget
<1>5. CASE \E p \in Responders : \/ \E r \in Requests, d \in Decisions : Lookup(p, r, d)
                                 \/ Offer(p)
  BY <1>1, <1>5 DEF Lookup, Offer
<1>6. CASE \E s \in Sessions, saved \in BOOLEAN : SetAutoApprove(s, saved)
  BY <1>1, <1>6 DEF SetAutoApprove, Persist
<1>7. CASE UNCHANGED vars
  BY <1>1, <1>7 DEF vars
<1> QED
  BY <1>2, <1>3, <1>4, <1>5, <1>6, <1>7 DEF Next

-----------------------------------------------------------------------------
\* What waits in a response channel was accepted from a responder.
LEMMA AnswerStep == TypeOK /\ PendingIsExact /\ AnswersBacked /\ [Next]_vars => AnswersBacked'
<1> SUFFICES ASSUME TypeOK, PendingIsExact, AnswersBacked, [Next]_vars PROVE AnswersBacked'
  OBVIOUS
<1> USE DEF AnswersBacked, Backed
<1>0. /\ answer \in [Requests -> Decisions \cup {None}]
      /\ pending \subseteq Requests
      /\ call \in [Responders -> [at : {"new", "found", "accepted", "refused"},
                                  req : Requests \cup {None}, says : Decisions]]
  BY DEF TypeOK
<1>1. ASSUME UNCHANGED <<answer, call>> PROVE AnswersBacked'
  BY <1>1 DEF Valid
<1>2. ASSUME NEW r \in Requests, SubmitFirst(r) \/ SubmitJoin(r) \/ Step(r) \/ EndContext(r)
      PROVE  AnswersBacked'
  <2>1. CASE TakeAnswer(r)
    <3>1. \A q \in Requests : answer'[q] = IF q = r THEN None ELSE answer[q]
      BY <1>0, <2>1 DEF TakeAnswer
    <3> QED
      BY <2>1, <3>1 DEF TakeAnswer, Valid
  <2>2. CASE SubmitFirst(r) \/ SubmitJoin(r) \/ EndContext(r) \/ SettleQuick(r) \/ AskUser(r)
    BY <1>1, <2>2 DEF SubmitFirst, SubmitJoin, EndContext, SettleQuick, AskUser
  <2>3. CASE Register(r) \/ Abandon(r) \/ Leave(r) \/ JoinDone(r) \/ JoinAbandon(r)
    BY <1>1, <2>3 DEF Register, Abandon, Leave, JoinDone, JoinAbandon
  <2> QED
    BY <1>2, <2>1, <2>2, <2>3 DEF Step
<1>3. CASE Restart
  <2>1. \A p \in Responders :
          /\ call'[p].req = call[p].req
          /\ call'[p].says = call[p].says
          /\ call'[p].at = IF call[p].at = "found" THEN "refused" ELSE call[p].at
    BY <1>0, <1>3 DEF Restart
  <2>2. \A q \in Requests : answer'[q] = None
    BY <1>3 DEF Restart
  <2> QED
    BY <2>1, <2>2 DEF Valid
<1>4. ASSUME NEW p \in Responders, NEW r \in Requests, NEW d \in Decisions, Lookup(p, r, d)
      PROVE  AnswersBacked'
  <2>1. \A q \in Responders :
          call'[q] = IF q = p THEN [at |-> IF Valid(r, d) THEN "found" ELSE "refused",
                                    req |-> r, says |-> d] ELSE call[q]
    BY <1>0, <1>4 DEF Lookup
  <2>2. call[p].at = "new" /\ UNCHANGED answer
    BY <1>4 DEF Lookup
  <2>3. ASSUME NEW q \in Requests, answer[q] # None
        PROVE  \E w \in Responders : /\ call'[w].req = q
                                     /\ call'[w].at = "accepted"
                                     /\ call'[w].says = answer[q]
    <3>1. PICK w \in Responders : call[w].req = q /\ call[w].at = "accepted" /\ call[w].says = answer[q]
      BY <2>3
    <3>2. w # p
      BY <3>1, <2>2
    <3> QED
      BY <2>1, <3>1, <3>2
  <2>4. \A q \in Responders :
          call'[q].at \in {"found", "accepted"} =>
            call'[q].req \in Requests /\ Valid(call'[q].req, call'[q].says)
    BY <2>1
  <2> QED
    BY <2>2, <2>3, <2>4 DEF Valid
<1>5. ASSUME NEW p \in Responders, Offer(p) PROVE AnswersBacked'
  <2> DEFINE r == call[p].req
  <2>0. r \in Requests /\ call[p].at = "found" /\ Valid(r, call[p].says)
    BY <1>5 DEF Offer
  <2>1. CASE answer[r] = None
    <3>1. \A q \in Responders :
            /\ call'[q].req = call[q].req
            /\ call'[q].says = call[q].says
            /\ call'[q].at = IF q = p THEN "accepted" ELSE call[q].at
      BY <1>0, <1>5, <2>1 DEF Offer
    <3>2. \A q \in Requests : answer'[q] = IF q = r THEN call[p].says ELSE answer[q]
      BY <1>0, <1>5, <2>0, <2>1 DEF Offer
    <3> QED
      BY <2>0, <3>1, <3>2 DEF Valid
  <2>2. CASE answer[r] # None
    <3>1. \A q \in Responders :
            /\ call'[q].req = call[q].req
            /\ call'[q].says = call[q].says
            /\ call'[q].at = IF q = p THEN "refused" ELSE call[q].at
      BY <1>0, <1>5, <2>2 DEF Offer
    <3>2. UNCHANGED answer
      BY <1>5, <2>2 DEF Offer
    <3> QED
      BY <2>0, <3>1, <3>2 DEF Valid
  <2> QED
    BY <2>1, <2>2
<1>6. CASE \E s \in Sessions, saved \in BOOLEAN : SetAutoApprove(s, saved)
  BY <1>1, <1>6 DEF SetAutoApprove, Persist
<1>7. CASE UNCHANGED vars \/ (\E c \in Calls : Forget(c))
  BY <1>1, <1>7 DEF vars, Forget
<1> QED
  BY <1>2, <1>3, <1>4, <1>5, <1>6, <1>7 DEF Next

\* Questions are not settled by auto-approve; approvals are offered ones.
LEMMA ScopeStep == TypeOK /\ AnswersBacked /\ GrantsInScope /\ [Next]_vars => GrantsInScope'
<1> SUFFICES ASSUME TypeOK, AnswersBacked, GrantsInScope, [Next]_vars PROVE GrantsInScope'
  OBVIOUS
<1> USE DEF GrantsInScope
<1>0. answer \in [Requests -> Decisions \cup {None}] /\ settled \subseteq Requests
  BY DEF TypeOK
<1>1. ASSUME UNCHANGED <<answer, settled>> PROVE GrantsInScope'
  BY <1>1
<1>2. ASSUME NEW r \in Requests, SubmitFirst(r) \/ SubmitJoin(r) \/ Step(r) \/ EndContext(r)
      PROVE  GrantsInScope'
  <2>1. CASE TakeAnswer(r)
    <3>1. \A q \in Requests : answer'[q] = IF q = r THEN None ELSE answer[q]
      BY <1>0, <2>1 DEF TakeAnswer
    <3>2. UNCHANGED settled
      BY <2>1 DEF TakeAnswer
    <3> QED
      BY <3>1, <3>2
  <2>2. CASE SettleQuick(r)
    BY <2>2 DEF SettleQuick, QuickDecide
  <2>3. CASE SubmitFirst(r) \/ SubmitJoin(r) \/ EndContext(r) \/ AskUser(r)
    BY <1>1, <2>3 DEF SubmitFirst, SubmitJoin, EndContext, AskUser
  <2>4. CASE Register(r) \/ Abandon(r) \/ Leave(r) \/ JoinDone(r) \/ JoinAbandon(r)
    BY <1>1, <2>4 DEF Register, Abandon, Leave, JoinDone, JoinAbandon
  <2> QED
    BY <1>2, <2>1, <2>2, <2>3, <2>4 DEF Step
<1>3. CASE Restart
  BY <1>3 DEF Restart
<1>4. ASSUME NEW p \in Responders, Offer(p) PROVE GrantsInScope'
  <2>1. Valid(call[p].req, call[p].says)
    BY <1>4 DEF Offer, AnswersBacked
  <2> QED
    BY <1>0, <1>4, <2>1 DEF Offer, Valid
<1>5. CASE \E p \in Responders, r \in Requests, d \in Decisions : Lookup(p, r, d)
  BY <1>1, <1>5 DEF Lookup
<1>6. CASE \E s \in Sessions, saved \in BOOLEAN : SetAutoApprove(s, saved)
  BY <1>1, <1>6 DEF SetAutoApprove, Persist
<1>7. CASE UNCHANGED vars \/ (\E c \in Calls : Forget(c))
  BY <1>1, <1>7 DEF vars, Forget
<1> QED
  BY <1>2, <1>3, <1>4, <1>5, <1>6, <1>7 DEF Next

-----------------------------------------------------------------------------
(* Grants.  Backing never goes away: a responder that was accepted stays so, *)
(* and auto-approve's settlements are kept.                                  *)

BackedGrant(r, d) ==
    \E q \in Requests :
        /\ SameCall(r, q)
        /\ \/ q \in settled
           \/ \E p \in Responders : call[p].req = q /\ call[p].at = "accepted" /\ call[p].says = d

Keeps ==
    /\ settled \subseteq settled'
    /\ \A p \in Responders : call[p].at = "accepted" =>
         call'[p].at = "accepted" /\ call'[p].req = call[p].req /\ call'[p].says = call[p].says

\* What backs a grant is not taken back.
LEMMA BackingKept == TypeOK /\ [Next]_vars => Keeps
<1> SUFFICES ASSUME TypeOK, [Next]_vars PROVE Keeps
  OBVIOUS
<1>0. call \in [Responders -> [at : {"new", "found", "accepted", "refused"},
                               req : Requests \cup {None}, says : Decisions]]
  BY DEF TypeOK
<1>a. ASSUME UNCHANGED <<settled, call>> PROVE Keeps
  BY <1>a DEF Keeps
<1>1. ASSUME NEW r \in Requests, SubmitFirst(r) \/ SubmitJoin(r) \/ Step(r) \/ EndContext(r)
      PROVE  Keeps
  <2>1. CASE SettleQuick(r)
    BY <2>1 DEF SettleQuick, Keeps
  <2>2. CASE SubmitFirst(r) \/ SubmitJoin(r) \/ EndContext(r) \/ AskUser(r) \/ TakeAnswer(r)
    BY <1>a, <2>2 DEF SubmitFirst, SubmitJoin, EndContext, AskUser, TakeAnswer
  <2>3. CASE Register(r) \/ Abandon(r) \/ Leave(r) \/ JoinDone(r) \/ JoinAbandon(r)
    BY <1>a, <2>3 DEF Register, Abandon, Leave, JoinDone, JoinAbandon
  <2> QED
    BY <1>1, <2>1, <2>2, <2>3 DEF Step
<1>2. CASE Restart
  BY <1>0, <1>2 DEF Restart, Keeps
<1>3. ASSUME NEW p \in Responders, NEW r \in Requests, NEW d \in Decisions, Lookup(p, r, d) PROVE Keeps
  BY <1>0, <1>3 DEF Lookup, Keeps
<1>4. ASSUME NEW p \in Responders, Offer(p) PROVE Keeps
  <2>1. CASE answer[call[p].req] = None
    BY <1>0, <1>4, <2>1 DEF Offer, Keeps
  <2>2. CASE answer[call[p].req] # None
    BY <1>0, <1>4, <2>2 DEF Offer, Keeps
  <2> QED
    BY <2>1, <2>2
<1>5. CASE \E s \in Sessions, saved \in BOOLEAN : SetAutoApprove(s, saved)
  BY <1>a, <1>5 DEF SetAutoApprove, Persist
<1>6. CASE UNCHANGED vars \/ (\E c \in Calls : Forget(c))
  BY <1>a, <1>6 DEF vars, Forget
<1> QED
  BY <1>1, <1>2, <1>3, <1>4, <1>5, <1>6 DEF Next

\* So a grant that was backed is backed after the step.
LEMMA GrantKept ==
    ASSUME TypeOK, [Next]_vars, NEW r \in Requests, NEW d, BackedGrant(r, d)
    PROVE  \E q \in Requests :
             /\ SameCall(r, q)
             /\ \/ q \in settled'
                \/ \E p \in Responders : call'[p].req = q /\ call'[p].at = "accepted" /\ call'[p].says = d
BY BackingKept DEF BackedGrant, Keeps

\* So every grant is backed after a step.
LEMMA GrantStep ==
    TypeOK /\ JoinsItsCall /\ AnswersBacked /\ GrantsAreBacked /\ [Next]_vars => GrantsAreBacked'
<1> SUFFICES ASSUME TypeOK, JoinsItsCall, AnswersBacked, GrantsAreBacked, [Next]_vars,
                    NEW r \in Requests, result'[r] \in {"allow", "always"}
             PROVE  \E q \in Requests :
                      /\ SameCall(r, q)
                      /\ \/ q \in settled'
                         \/ \E p \in Responders : /\ call'[p].req = q
                                                  /\ call'[p].at = "accepted"
                                                  /\ call'[p].says = result'[r]
  BY DEF GrantsAreBacked, Granted
<1>0. /\ result \in [Requests -> Decisions \cup {"error", None}]
      /\ answer \in [Requests -> Decisions \cup {None}]
  BY DEF TypeOK
<1>1. ASSUME NEW q \in Requests, result[q] \in {"allow", "always"} PROVE BackedGrant(q, result[q])
  BY <1>1 DEF GrantsAreBacked, Granted, BackedGrant
<1>2. CASE result'[r] = result[r]
  BY <1>1, <1>2, GrantKept
<1>3. ASSUME NEW q \in Requests, Step(q), result'[r] # result[r]
      PROVE  BackedGrant(r, result'[r]) \/ (r \in settled' /\ SameCall(r, r))
  <2>1. CASE SettleQuick(q)
    BY <1>0, <1>3, <2>1 DEF SettleQuick, SameCall
  <2>2. CASE TakeAnswer(q)
    <3>1. q = r /\ answer[r] # None /\ result'[r] = answer[r]
      BY <1>0, <1>3, <2>2 DEF TakeAnswer
    <3>2. Backed(r, answer[r])
      BY <3>1 DEF AnswersBacked
    <3> QED
      BY <3>1, <3>2 DEF Backed, BackedGrant, SameCall
  <2>3. CASE JoinDone(q)
    <3>1. q = r /\ owner[r] # None /\ SameCall(r, owner[r]) /\ result'[r] = result[owner[r]]
      BY <1>0, <1>3, <2>3 DEF JoinDone, JoinsItsCall
    <3>2. owner[r] \in Requests
      BY <3>1 DEF TypeOK
    <3>3. BackedGrant(owner[r], result[owner[r]])
      BY <1>1, <3>1, <3>2
    <3> QED
      BY <3>1, <3>2, <3>3 DEF BackedGrant, SameCall
  <2>4. CASE Abandon(q) \/ JoinAbandon(q)
    BY <1>0, <1>3, <2>4 DEF Abandon, JoinAbandon
  <2>5. CASE AskUser(q) \/ Register(q) \/ Leave(q)
    BY <1>3, <2>5 DEF AskUser, Register, Leave
  <2> QED
    BY <1>3, <2>1, <2>2, <2>3, <2>4, <2>5 DEF Step
<1>4. ASSUME NEW q \in Requests, SubmitFirst(q) \/ SubmitJoin(q) \/ EndContext(q)
      PROVE  result' = result
  BY <1>4 DEF SubmitFirst, SubmitJoin, EndContext
<1>5. CASE Restart
  <2>1. result'[r] = result[r] \/ result'[r] = "error"
    BY <1>0, <1>5 DEF Restart
  <2> QED
    BY <1>2, <2>1
<1>6. CASE \E p \in Responders : \/ \E q \in Requests, d \in Decisions : Lookup(p, q, d)
                                 \/ Offer(p)
  BY <1>2, <1>6 DEF Lookup, Offer
<1>7. CASE \E s \in Sessions, saved \in BOOLEAN : SetAutoApprove(s, saved)
  BY <1>2, <1>7 DEF SetAutoApprove, Persist
<1>8. CASE UNCHANGED vars \/ (\E c \in Calls : Forget(c))
  BY <1>2, <1>8 DEF vars, Forget
<1>9. ASSUME NEW q \in Requests, Step(q) PROVE \E w \in Requests :
                      /\ SameCall(r, w)
                      /\ \/ w \in settled'
                         \/ \E p \in Responders : /\ call'[p].req = w
                                                  /\ call'[p].at = "accepted"
                                                  /\ call'[p].says = result'[r]
  <2>1. CASE result'[r] # result[r]
    <3>1. BackedGrant(r, result'[r]) \/ (r \in settled' /\ SameCall(r, r))
      BY <1>3, <1>9, <2>1
    <3> QED
      BY <3>1, GrantKept
  <2> QED
    BY <1>2, <2>1
<1> QED
  BY <1>2, <1>4, <1>5, <1>6, <1>7, <1>8, <1>9 DEF Next

\* The file holds what the user last chose, unless its write failed.
LEMMA AutoStep == SavedIsWanted /\ AutoApproveKept /\ [Next]_vars => SavedIsWanted' /\ AutoApproveKept'
<1> SUFFICES ASSUME SavedIsWanted, AutoApproveKept, [Next]_vars PROVE SavedIsWanted' /\ AutoApproveKept'
  OBVIOUS
<1> USE DEF SavedIsWanted, AutoApproveKept
<1>1. ASSUME UNCHANGED autoVars PROVE SavedIsWanted' /\ AutoApproveKept'
  BY <1>1 DEF autoVars
<1>2. ASSUME NEW r \in Requests, SubmitFirst(r) \/ SubmitJoin(r) \/ Step(r) \/ EndContext(r)
      PROVE  UNCHANGED autoVars
  BY <1>2 DEF SubmitFirst, SubmitJoin, EndContext, Step, SettleQuick, AskUser, Register,
              TakeAnswer, Abandon, Leave, JoinDone, JoinAbandon
<1>3. CASE Restart
  BY <1>3 DEF Restart
<1>4. CASE \E p \in Responders : \/ \E r \in Requests, d \in Decisions : Lookup(p, r, d)
                                 \/ Offer(p)
  BY <1>1, <1>4 DEF Lookup, Offer
<1>5. ASSUME NEW s \in Sessions, NEW saved \in BOOLEAN, SetAutoApprove(s, saved)
      PROVE  SavedIsWanted' /\ AutoApproveKept'
  <2>1. CASE saved
    BY <1>5, <2>1 DEF SetAutoApprove, Persist
  <2>2. CASE ~saved
    BY <1>5, <2>2 DEF SetAutoApprove, Persist
  <2> QED
    BY <2>1, <2>2
<1>6. CASE UNCHANGED vars \/ (\E c \in Calls : Forget(c))
  BY <1>1, <1>6 DEF vars, Forget
<1> QED
  BY <1>1, <1>2, <1>3, <1>4, <1>5, <1>6 DEF Next

-----------------------------------------------------------------------------
\* At first nothing is asked.
LEMMA InitInv == Init => HookInv
<1> SUFFICES ASSUME Init PROVE HookInv
  OBVIOUS
<1>1. TypeOK
  <2>1. call \in [Responders -> [at : {"new", "found", "accepted", "refused"},
                               req : Requests \cup {None}, says : Decisions]]
    BY DEF Init, NoCall, Decisions
  <2>2. /\ pc \in [Requests -> PCs]
        /\ owner \in [Requests -> Requests \cup {None}]
        /\ dedup \in [Calls -> Requests \cup {None}]
    BY DEF Init, PCs
  <2>3. /\ answer \in [Requests -> Decisions \cup {None}]
        /\ result \in [Requests -> Decisions \cup {"error", None}]
    BY DEF Init
  <2>4. /\ pending = {} /\ ended = {} /\ settled = {} /\ auto = {} /\ disk = {} /\ wanted = {}
        /\ unsaved = FALSE /\ toggles = 0
    BY DEF Init
  <2>5. toggles \in 0..MaxToggles
    BY <2>4
  <2> QED
    BY <2>1, <2>2, <2>3, <2>4, <2>5 DEF TypeOK
<1>2. \A r \in Requests : pc[r] = "new" /\ answer[r] = None /\ result[r] = None /\ owner[r] = None
  BY DEF Init
<1>3. PendingIsExact /\ JoinsItsCall
  BY <1>2 DEF Init, PendingIsExact, JoinsItsCall
<1>4. DedupExact
  BY <1>2 DEF Init, DedupExact, Deciding
<1>5. AnswersBacked
  BY <1>2 DEF Init, AnswersBacked, NoCall
<1>6. GrantsInScope /\ GrantsAreBacked
  BY <1>2 DEF Init, GrantsInScope, GrantsAreBacked, Granted
<1>7. SavedIsWanted /\ AutoApproveKept
  BY DEF Init, SavedIsWanted, AutoApproveKept
<1> QED
  BY <1>1, <1>3, <1>4, <1>5, <1>6, <1>7 DEF HookInv

\* Every step keeps the invariant.
LEMMA HookKept == HookInv /\ [Next]_vars => HookInv'
BY TypeStep, PendingStep, JoinStep, DedupStep, AnswerStep, ScopeStep, GrantStep, AutoStep DEF HookInv

\* hook.Manager keeps HookInv: entries and waiters agree, joined requests wait
\* for their own tool call, and every answer and grant has its source.
THEOREM HookInvariant == Spec => []HookInv
BY InitInv, HookKept, PTL DEF Spec

\* Nothing is granted that nobody granted, however submits, answers,
\* withdrawals, flips of auto-approve and restarts interleave.
THEOREM NothingGrantedUnasked == Spec => []GrantsAreBacked
<1>1. HookInv => GrantsAreBacked
  BY DEF HookInv
<1> QED
  BY <1>1, HookInvariant, PTL

\* AutoApproveKept (SetAutoApprove, loadAutoApprove): unless a write of the file failed,
\* the sessions on auto-approve are those the user put there, across restarts.
THEOREM AutoApproveSurvives == Spec => []AutoApproveKept
<1>1. HookInv => AutoApproveKept
  BY DEF HookInv
<1> QED
  BY <1>1, HookInvariant, PTL

\* A question is never settled by auto-approve, nor a repeated approval given
\* where none was offered.
THEOREM GrantsStayInScope == Spec => []GrantsInScope
<1>1. HookInv => GrantsInScope
  BY DEF HookInv
<1> QED
  BY <1>1, HookInvariant, PTL

\* One prompt per tool call, since dedup names who decides it.
LEMMA OnePrompt == HookInv => OnePromptPerCall
<1> SUFFICES ASSUME HookInv, NEW r \in pending, NEW q \in pending,
                    CallOf[r] # None, CallOf[r] = CallOf[q]
             PROVE  r = q
  BY DEF OnePromptPerCall
<1>1. r \in Requests /\ q \in Requests
  BY DEF HookInv, TypeOK
<1>2. pc[r] \in Deciding /\ pc[q] \in Deciding
  BY DEF HookInv, PendingIsExact, Deciding
<1> QED
  BY <1>1, <1>2 DEF HookInv, DedupExact

\* One tool call has one prompt before the user at most (Submit).
THEOREM PromptedOnce == Spec => []OnePromptPerCall
BY OnePrompt, HookInvariant, PTL

\* All this holds beside the pool: grants have a source and stay in scope, a call has
\* one prompt, and auto-approve is the user's, in every behaviour of either part.
THEOREM HookStaysSound ==
    Either => [](GrantsAreBacked /\ GrantsInScope /\ OnePromptPerCall /\ AutoApproveKept)
<1>1. EitherInit => HookInv
  BY InitInv DEF EitherInit
<1>2. HookInv /\ [EitherNext]_claudeVars => HookInv'
  <2>1. [EitherNext]_claudeVars => [Next]_vars
    BY DEF EitherNext, PoolStep, claudeVars
  <2> QED
    BY <2>1, HookKept
<1>3. HookInv => GrantsAreBacked /\ GrantsInScope /\ OnePromptPerCall /\ AutoApproveKept
  BY OnePrompt DEF HookInv
<1> QED
  BY <1>1, <1>2, <1>3, PTL DEF Either
=============================================================================
