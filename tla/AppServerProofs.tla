--------------------------- MODULE AppServerProofs ---------------------------
(***************************************************************************)
(* Proofs about AppServer for any threads, calls, scenarios and bound on   *)
(* the workers ever made: the cap on the pool and its slots, and that an   *)
(* accepted turn gets one result, its own.                                 *)
(***************************************************************************)
EXTENDS AppServer, FiniteSetTheorems, TLAPS

USE PoolAssumption DEF Calls, Ids

-----------------------------------------------------------------------------
(* Types.                                                                  *)

\* What TypeOK says of the calls and the pool, of the workers, and of the clients.
SlotTypes ==
    /\ thread \in [Calls -> Threads] /\ naming \in SUBSET Turners /\ max \in Nat
    /\ [thread |-> thread, naming |-> naming, max |-> max] \in Scenarios
    /\ pc \in [Calls -> PCs]
    /\ made \in 0..MaxWorkers /\ hand \in [Calls -> 0..made] /\ workers \in [Threads -> 0..made]

WorkerTypes ==
    /\ resuming \in [Ids -> BOOLEAN] /\ busy \in [Ids -> BOOLEAN]
    /\ model \in [Ids -> Turners \cup {None}]

ClientTypes ==
    /\ running \in [Ids -> BOOLEAN] /\ active \in [Ids -> BOOLEAN]
    /\ stream \in [Ids -> Turners \cup {None}] /\ server \in [Ids -> Turners \cup {None}]
    /\ request \in SUBSET Turners
    /\ result \in [Turners -> {"none", "own", "other", "failed", "interrupted"}]
    /\ finishes \in [Turners -> Nat]

Types == SlotTypes /\ WorkerTypes /\ ClientTypes /\ excused \in SUBSET Turners

LEMMA TypesSplit == TypeOK <=> Types /\ starting \in 0..Cardinality(Calls)
<1>1. ASSUME [thread |-> thread, naming |-> naming, max |-> max] \in Scenarios
      PROVE  thread \in [Calls -> Threads] /\ naming \in SUBSET Turners /\ max \in Nat
  <2> DEFINE s == [thread |-> thread, naming |-> naming, max |-> max]
  <2>1. s \in [thread : [Calls -> Threads], naming : SUBSET Turners, max : Nat \ {0}]
    BY <1>1
  <2>2. s.thread = thread /\ s.naming = naming /\ s.max = max
    OBVIOUS
  <2> HIDE DEF s
  <2> QED
    BY <2>1, <2>2
<1> QED
  BY <1>1 DEF TypeOK, Types, SlotTypes, WorkerTypes, ClientTypes

\* A call that holds a worker holds one of Ids.
LEMMA Holds ==
    ASSUME Types, RolesOK, NEW c \in Calls, pc[c] \in Holding
    PROVE  hand[c] \in Ids
BY DEF Types, SlotTypes, RolesOK

-----------------------------------------------------------------------------
(* Steps: what they do to the process of a client.                         *)

\* What is left alone keeps its type.
LEMMA SameTypes ==
    ASSUME Types
    PROVE  /\ UNCHANGED <<inputs, pc, hand, workers, made>> => SlotTypes'
           /\ UNCHANGED workerVars => WorkerTypes'
           /\ UNCHANGED clientVars => ClientTypes'
           /\ UNCHANGED excused => excused' \in SUBSET Turners
BY DEF Types, SlotTypes, WorkerTypes, ClientTypes, inputs, workerVars, clientVars

\* A call goes somewhere, holding what it held or something else.
LEMMA GoTypes ==
    ASSUME Types, NEW c \in Calls, NEW x \in PCs, Go(c, x), UNCHANGED inputs
    PROVE  /\ UNCHANGED <<hand, workers, made>> => SlotTypes'
           /\ \A w \in 0..made : Take(c, w) /\ UNCHANGED <<workers, made>> => SlotTypes'
           /\ \A t \in Threads, v \in 0..made :
                workers' = [workers EXCEPT ![t] = v] /\ UNCHANGED <<hand, made>> => SlotTypes'
           /\ \A w \in 0..made, t \in Threads, v \in 0..made :
                /\ Take(c, w) /\ UNCHANGED made
                /\ workers' = [workers EXCEPT ![t] = v]
                => SlotTypes'
<1> USE DEF Types, SlotTypes, Go, Take, inputs
<1>1. pc' \in [Calls -> PCs]
  OBVIOUS
<1>2. ASSUME NEW w \in 0..made, Take(c, w) PROVE hand' \in [Calls -> 0..made]
  BY <1>2
<1>3. ASSUME NEW t \in Threads, NEW v \in 0..made, workers' = [workers EXCEPT ![t] = v]
      PROVE  workers' \in [Threads -> 0..made]
  BY <1>3
<1> QED
  BY <1>1, <1>2, <1>3

\* A new worker is one of Ids.
LEMMA MadeTypes ==
    ASSUME Types, NEW c \in Calls, NEW x \in PCs, Go(c, x), UNCHANGED inputs,
           made < MaxWorkers, made' = made + 1, Take(c, made'),
           workers' \in {workers, [workers EXCEPT ![thread[c]] = made']}
    PROVE  SlotTypes' /\ made' \in Ids
<1> USE DEF Types, SlotTypes, Go, Take, inputs
<1>1. made' \in 0..MaxWorkers /\ made' \in Ids /\ \A w \in 0..made : w \in 0..made'
  OBVIOUS
<1>2. pc' \in [Calls -> PCs]
  OBVIOUS
<1>3. hand' \in [Calls -> 0..made']
  BY <1>1
<1>4. workers' \in [Threads -> 0..made']
  BY <1>1
<1> QED
  BY <1>1, <1>2, <1>3, <1>4

\* A result is one of five, and counted.
LEMMA FinishTypes ==
    ASSUME Types, NEW S, NEW r \in {"own", "other", "failed", "interrupted"}, Finish(S, r)
    PROVE  /\ result' \in [Turners -> {"none", "own", "other", "failed", "interrupted"}]
           /\ finishes' \in [Turners -> Nat]
BY DEF Finish, Types, ClientTypes

\* A shutdown changes the client alone.
LEMMA FailProcessTypes ==
    ASSUME Types, NEW w \in Ids, FailProcess(w)
    PROVE  ClientTypes'
BY DEF FailProcess, Finish, Types, ClientTypes

LEMMA ShutdownTypes ==
    ASSUME Types, NEW w \in Ids, Shutdown(w)
    PROVE  ClientTypes'
<1>1. CASE running[w]
  BY <1>1, FailProcessTypes DEF Shutdown
<1>2. CASE ~running[w]
  BY <1>2, SameTypes DEF Shutdown
<1> QED
  BY <1>1, <1>2

LEMMA TypesStep == Types /\ RolesOK /\ [Next]_vars => Types'
<1> SUFFICES ASSUME Types, RolesOK, [Next]_vars
             PROVE  SlotTypes' /\ WorkerTypes' /\ ClientTypes' /\ excused' \in SUBSET Turners
  BY DEF Types
<1> DEFINE Good == SlotTypes' /\ WorkerTypes' /\ ClientTypes' /\ excused' \in SUBSET Turners
<1>0. /\ made \in Nat /\ 0 \in 0..made /\ PCs = PCs \cup Reserving \cup Ended
      /\ \A c \in Calls : thread[c] \in Threads /\ workers[thread[c]] \in 0..made /\ hand[c] \in 0..made
      /\ \A t \in Threads : workers[t] \in 0..made
  BY DEF Types, SlotTypes, PCs
<1> USE DEF PCs, Reserving, Ended
<1>1. CASE UNCHANGED vars
  BY <1>1, SameTypes DEF vars, callVars, slotVars
<1>2. ASSUME NEW c \in Calls, NewThread(c) \/ Begin(c) \/ AllBusy(c) PROVE Good
  BY <1>2, SameTypes, GoTypes DEF NewThread, Begin, AllBusy, slotVars
<1>3. ASSUME NEW c \in Calls, Unlist(c) PROVE Good
  <2>1. PICK x \in PCs : Go(c, x)
    BY <1>3 DEF Unlist
  <2> QED
    BY <1>0, <1>3, <2>1, SameTypes, GoTypes DEF Unlist
<1>4. ASSUME NEW c \in Calls, Reserve(c) PROVE Good
  <2>1. CASE Go(c, "reserved") /\ UNCHANGED <<hand, workers>>
    BY <1>4, <2>1, SameTypes, GoTypes DEF Reserve
  <2>2. ASSUME NEW t \in Threads, Take(c, workers[t]), workers' = [workers EXCEPT ![t] = 0],
               Go(c, "evicting")
        PROVE  Good
    BY <1>0, <1>4, <2>2, SameTypes, GoTypes DEF Reserve
  <2> QED
    BY <1>4, <2>1, <2>2 DEF Reserve, Victims, Evictable, Live
<1>5. ASSUME NEW c \in Calls, StopVictim(c) \/ StopOverridden(c) \/ Drop(c) PROVE Good
  <2>1. hand[c] \in Ids
    BY <1>5, Holds DEF StopVictim, StopOverridden, Drop, Holding, Stopping
  <2>2. ClientTypes'
    BY <1>5, <2>1, ShutdownTypes DEF StopVictim, StopOverridden, Drop
  <2>3. SlotTypes'
    <3>1. PICK x \in PCs : Go(c, x)
      BY <1>5 DEF StopVictim, StopOverridden, Drop
    <3> QED
      BY <1>0, <1>5, <3>1, GoTypes DEF StopVictim, StopOverridden, Drop, slotVars
  <2> QED
    BY <1>5, <2>2, <2>3, SameTypes DEF StopVictim, StopOverridden, Drop
<1>6. ASSUME NEW c \in Calls, Launch(c) PROVE Good
  <2>1. SlotTypes' /\ made' \in Ids
    BY <1>6, MadeTypes DEF Launch
  <2>2. ClientTypes'
    BY <1>6, <2>1 DEF Launch, Types, ClientTypes
  <2> QED
    BY <1>6, <2>1, <2>2, SameTypes DEF Launch
<1>7. ASSUME NEW c \in Calls, Launched(c) \/ LaunchFails(c) \/ InstallLate(c) PROVE Good
  BY <1>0, <1>7, SameTypes, GoTypes DEF Launched, LaunchFails, InstallLate
<1>8. ASSUME NEW c \in Calls, Lookup(c) PROVE Good
  <2>1. c \in Turners
    BY <1>8 DEF Lookup, RolesOK, OfTurns
  <2>2. WorkerTypes'
    BY <1>8, <2>1 DEF Lookup, Types, WorkerTypes
  <2>3. SlotTypes'
    <3>1. PICK x \in PCs : Go(c, x)
      BY <1>8 DEF Lookup
    <3> QED
      BY <1>0, <1>8, <3>1, GoTypes DEF Lookup
  <2> QED
    BY <1>8, <2>2, <2>3, SameTypes DEF Lookup
<1>9. ASSUME NEW c \in Calls, Woken(c) \/ WaitCancelled(c) PROVE Good
  BY <1>0, <1>9, SameTypes, GoTypes DEF Woken, WaitCancelled, slotVars
<1>10. ASSUME NEW c \in Calls, Install(c) PROVE Good
  <2>1. SlotTypes' /\ made' \in Ids
    BY <1>10, MadeTypes DEF Install
  <2>2. WorkerTypes'
    BY <1>10, <2>1 DEF Install, Types, WorkerTypes
  <2> QED
    BY <1>10, <2>1, <2>2, SameTypes DEF Install
<1>11. ASSUME NEW c \in Calls, ResumeStart(c) \/ Ensure(c) PROVE Good
  <2>1. ClientTypes'
    BY <1>11 DEF ResumeStart, Ensure, Types, ClientTypes
  <2> QED
    BY <1>11, <2>1, SameTypes, GoTypes DEF ResumeStart, Ensure, slotVars
<1>12. ASSUME NEW c \in Calls, NEW ok \in BOOLEAN, ResumeDone(c, ok) PROVE Good
  <2>1. PICK x \in PCs : Go(c, x)
    BY <1>12 DEF ResumeDone
  <2>2. SlotTypes'
    BY <1>0, <1>12, <2>1, GoTypes DEF ResumeDone
  <2>3. WorkerTypes'
    BY <1>12 DEF ResumeDone, Types, WorkerTypes
  <2> QED
    BY <1>12, <2>2, <2>3, SameTypes DEF ResumeDone
<1>13. ASSUME NEW c \in Calls, Claim(c) PROVE Good
  <2>1. c \in Turners
    BY <1>13 DEF Claim, RolesOK, OfTurns
  <2>2. SlotTypes'
    BY <1>0, <1>13, GoTypes DEF Claim, slotVars
  <2>3. WorkerTypes'
    BY <1>13 DEF Claim, Types, WorkerTypes
  <2>4. excused' \in SUBSET Turners
    BY <1>13, <2>1 DEF Claim, Types
  <2> QED
    BY <1>13, <2>2, <2>3, <2>4, SameTypes DEF Claim
<1>14. ASSUME NEW c \in Calls, Register(c) PROVE Good
  <2>1. c \in Turners
    BY <1>14 DEF Register, RolesOK, OfTurns, Using
  <2>2. ClientTypes'
    BY <1>14, <2>1 DEF Register, Types, ClientTypes
  <2> QED
    BY <1>14, <2>2, SameTypes, GoTypes DEF Register, slotVars
<1>15. ASSUME NEW c \in Calls, Accepted(c) PROVE Good
  BY <1>15, SameTypes, GoTypes DEF Accepted, slotVars
<1>16. ASSUME NEW c \in Calls, Done(c) PROVE Good
  <2>1. WorkerTypes'
    BY <1>16 DEF Done, Types, WorkerTypes
  <2> QED
    BY <1>16, <2>1, SameTypes, GoTypes DEF Done, slotVars
<1>17. ASSUME NEW c \in Calls, Refused(c) PROVE Good
  <2>1. WorkerTypes' /\ ClientTypes'
    BY <1>17 DEF Refused, Types, WorkerTypes, ClientTypes
  <2> QED
    BY <1>17, <2>1, SameTypes, GoTypes DEF Refused, slotVars
<1>18. ASSUME NEW c \in Calls, KillReads(c) \/ KillReadsAgain(c) \/ KillWoken(c) PROVE Good
  BY <1>18, SameTypes, GoTypes DEF KillReads, KillReadsAgain, KillWoken, slotVars
<1>19. ASSUME NEW c \in Calls, KillTurn(c) PROVE Good
  <2>1. ClientTypes'
    <3>1. result' \in [Turners -> {"none", "own", "other", "failed", "interrupted"}]
          /\ finishes' \in [Turners -> Nat]
      BY <1>19, FinishTypes DEF KillTurn
    <3> QED
      BY <1>19, <3>1 DEF KillTurn, Types, ClientTypes
  <2> QED
    BY <1>19, <2>1, SameTypes, GoTypes DEF KillTurn, slotVars
<1>20. ASSUME NEW c \in Turners, ServerTake(c) PROVE Good
  <2>1. ClientTypes'
    BY <1>20 DEF ServerTake, Types, ClientTypes
  <2> QED
    BY <1>20, <2>1, SameTypes DEF ServerTake, callVars, slotVars
<1>21. ASSUME NEW w \in Ids, Crash(w) PROVE Good
  BY <1>21, SameTypes, FailProcessTypes DEF Crash, callVars, slotVars
<1>22. ASSUME NEW w \in Ids, TurnStarted(w) \/ TurnCompleted(w) PROVE Good
  <2>1. ClientTypes'
    <3>1. CASE TurnStarted(w)
      BY <3>1 DEF TurnStarted, Types, ClientTypes
    <3>2. CASE TurnCompleted(w)
      <4>1. Finish(Stream(w), IF stream[w] = server[w] THEN "own" ELSE "other")
        BY <3>2 DEF TurnCompleted
      <4>2. result' \in [Turners -> {"none", "own", "other", "failed", "interrupted"}]
            /\ finishes' \in [Turners -> Nat]
        BY <4>1, FinishTypes
      <4> QED
        BY <3>2, <4>2 DEF TurnCompleted, Types, ClientTypes
    <3> QED
      BY <1>22, <3>1, <3>2
  <2> QED
    BY <1>22, <2>1, SameTypes DEF TurnStarted, TurnCompleted, callVars, slotVars
<1> QED
  BY <1>1, <1>2, <1>3, <1>4, <1>5, <1>6, <1>7, <1>8, <1>9, <1>10, <1>11, <1>12, <1>13, <1>14,
     <1>15, <1>16, <1>17, <1>18, <1>19, <1>20, <1>21, <1>22 DEF Next, Step

-----------------------------------------------------------------------------
(* RolesOK.                                                                *)

\* One call goes somewhere it may be, with a worker if one is needed there.
LEMMA GoRoles ==
    ASSUME Types, RolesOK, NEW c \in Calls, NEW x, Go(c, x),
           x \in OfTurns => c \in Turners
    PROVE  /\ UNCHANGED hand /\ (x \in Holding => hand[c] # 0) => RolesOK'
           /\ \A w : Take(c, w) /\ (x \in Holding => w # 0) => RolesOK'
BY DEF Types, SlotTypes, RolesOK, Go, Take

LEMMA RolesStep == Types /\ RolesOK /\ [Next]_vars => RolesOK'
<1> SUFFICES ASSUME Types, RolesOK, [Next]_vars PROVE RolesOK'
  OBVIOUS
<1> USE DEF OfTurns, Holding, Using, Stopping
<1>0. /\ \A c \in Calls : pc[c] \in OfTurns => c \in Turners
      /\ \A c \in Calls : pc[c] \in Holding => hand[c] # 0
  BY DEF RolesOK
<1>1. CASE UNCHANGED <<pc, hand>>
  BY <1>1 DEF RolesOK
<1>2. ASSUME NEW c \in Calls, NewThread(c) \/ Begin(c) \/ AllBusy(c) PROVE RolesOK'
  BY <1>2, GoRoles DEF NewThread, Begin, AllBusy
<1>3. ASSUME NEW c \in Calls, Unlist(c) PROVE RolesOK'
  BY <1>3, GoRoles DEF Unlist
<1>4. ASSUME NEW c \in Calls, Reserve(c) PROVE RolesOK'
  BY <1>4, GoRoles DEF Reserve, Victims, Evictable, Live
<1>5. ASSUME NEW c \in Calls, StopVictim(c) \/ Drop(c) PROVE RolesOK'
  BY <1>5, GoRoles DEF StopVictim, Drop
<1>6. ASSUME NEW c \in Calls, StopOverridden(c) \/ Woken(c) PROVE RolesOK'
  BY <1>0, <1>6, GoRoles DEF StopOverridden, Woken
<1>7. ASSUME NEW c \in Calls, Launch(c) \/ Install(c) PROVE RolesOK'
  <2>1. made' # 0
    BY <1>7 DEF Types, SlotTypes, Launch, Install
  <2> QED
    BY <1>7, <2>1, GoRoles DEF Launch, Install
<1>8. ASSUME NEW c \in Calls, Launched(c) \/ LaunchFails(c) \/ InstallLate(c) PROVE RolesOK'
  BY <1>0, <1>8, GoRoles DEF Launched, LaunchFails, InstallLate
<1>9. ASSUME NEW c \in Calls, Lookup(c) PROVE RolesOK'
  BY <1>0, <1>9, GoRoles DEF Lookup
<1>10. ASSUME NEW c \in Calls, WaitCancelled(c) PROVE RolesOK'
  BY <1>10, GoRoles DEF WaitCancelled
<1>11. ASSUME NEW c \in Calls, ResumeStart(c) \/ Ensure(c) \/ Register(c) \/ Accepted(c) \/ Done(c) PROVE RolesOK'
  BY <1>0, <1>11, GoRoles DEF ResumeStart, Ensure, Register, Accepted, Done
<1>12. ASSUME NEW c \in Calls, NEW ok \in BOOLEAN, ResumeDone(c, ok) PROVE RolesOK'
  BY <1>0, <1>12, GoRoles DEF ResumeDone
<1>13. ASSUME NEW c \in Calls, Claim(c) PROVE RolesOK'
  BY <1>0, <1>13, GoRoles DEF Claim
<1>14. ASSUME NEW c \in Calls, Refused(c) PROVE RolesOK'
  BY <1>14, GoRoles DEF Refused
<1>15. ASSUME NEW c \in Calls, KillReads(c) \/ KillReadsAgain(c) \/ KillWoken(c) \/ KillTurn(c) PROVE RolesOK'
  BY <1>0, <1>15, GoRoles DEF KillReads, KillReadsAgain, KillWoken, KillTurn
<1>16. (\E c \in Turners : ServerTake(c)) \/ (\E w \in Ids : Crash(w) \/ TurnStarted(w) \/ TurnCompleted(w))
         => UNCHANGED <<pc, hand>>
  BY DEF ServerTake, Crash, TurnStarted, TurnCompleted, callVars
<1> QED
  BY <1>1, <1>2, <1>3, <1>4, <1>5, <1>6, <1>7, <1>8, <1>9, <1>10, <1>11, <1>12, <1>13, <1>14,
     <1>15, <1>16 DEF Next, Step, vars, callVars

-----------------------------------------------------------------------------
(* The cap and the slots.                                                  *)

\* Who holds a slot.
Slots == {c \in Calls : pc[c] \in Reserving}

\* Live and Slots are finite, and what they become with one more or one less.
LEMMA Counts ==
    ASSUME Types
    PROVE  /\ IsFiniteSet(Live) /\ Cardinality(Live) \in Nat
           /\ IsFiniteSet(Slots) /\ Cardinality(Slots) \in Nat
           /\ Cardinality(Slots) <= Cardinality(Calls) /\ Cardinality(Calls) \in Nat
           /\ \A S \in SUBSET Live : Cardinality(S) <= Cardinality(Live) /\ Cardinality(S) \in Nat
           /\ \A t : Cardinality(Live \cup {t}) <= Cardinality(Live) + 1 /\ Cardinality(Live \cup {t}) \in Nat
                     /\ \A S \in SUBSET (Live \cup {t}) :
                          Cardinality(S) <= Cardinality(Live \cup {t}) /\ Cardinality(S) \in Nat
           /\ \A t \in Live : Cardinality(Live \ {t}) = Cardinality(Live) - 1
           /\ \A c \in Calls \ Slots : Cardinality(Slots \cup {c}) = Cardinality(Slots) + 1
           /\ \A c \in Slots : Cardinality(Slots \ {c}) = Cardinality(Slots) - 1
<1>1. IsFiniteSet(Live) /\ IsFiniteSet(Slots) /\ IsFiniteSet(Calls)
  BY FS_Subset DEF Live, Slots
<1>2. \A t : IsFiniteSet(Live \cup {t})
  BY <1>1, FS_AddElement
<1>3. ASSUME NEW t PROVE Cardinality(Live \cup {t}) <= Cardinality(Live) + 1
  <2>1. Cardinality(Live) \in Nat
    BY <1>1, FS_CardinalityType
  <2>2. CASE t \in Live
    <3>1. Live \cup {t} = Live
      BY <2>2
    <3>2. Cardinality(Live \cup {t}) = Cardinality(Live)
      BY <3>1, Zenon
    <3> QED
      BY <2>1, <3>2
  <2>3. CASE t \notin Live
    <3>1. Cardinality(Live \cup {t}) = Cardinality(Live) + 1
      BY <1>1, <2>3, FS_AddElement
    <3> QED
      BY <2>1, <3>1
  <2> QED
    BY <2>2, <2>3
<1>4. /\ \A t \in Live : Cardinality(Live \ {t}) = Cardinality(Live) - 1
      /\ \A c \in Slots : Cardinality(Slots \ {c}) = Cardinality(Slots) - 1
  BY <1>1, FS_RemoveElement
<1>5. \A c \in Calls \ Slots : Cardinality(Slots \cup {c}) = Cardinality(Slots) + 1
  BY <1>1, FS_AddElement
<1>6. \A S \in SUBSET Live : Cardinality(S) <= Cardinality(Live) /\ Cardinality(S) \in Nat
  BY <1>1, FS_Subset, FS_CardinalityType
<1>7. \A t : \A S \in SUBSET (Live \cup {t}) :
         Cardinality(S) <= Cardinality(Live \cup {t}) /\ Cardinality(S) \in Nat
  BY <1>2, FS_Subset, FS_CardinalityType
<1>8. Cardinality(Slots) <= Cardinality(Calls)
  BY <1>1, FS_Subset DEF Slots
<1> QED
  BY <1>1, <1>2, <1>3, <1>4, <1>5, <1>6, <1>7, <1>8, FS_CardinalityType

\* A step leaves the slots alone and installs no worker, or takes a slot, or gives
\* one back for at most one worker.
LEMMA SlotSteps ==
    ASSUME Types, RolesOK, [Next]_vars
    PROVE  /\ max' = max
           /\ \/ /\ starting' = starting /\ Slots' = Slots /\ Live' \subseteq Live
              \/ \E c \in Calls \ Slots :
                   /\ starting' = starting + 1 /\ Slots' = Slots \cup {c}
                   /\ \/ HasSlot /\ Live' = Live
                      \/ \E t \in Live : Live' = Live \ {t}
              \/ \E c \in Slots : \E t \in Threads :
                   /\ starting' = starting - 1 /\ Slots' = Slots \ {c}
                   /\ Live' \subseteq Live \cup {t}
<1> DEFINE Quiet == starting' = starting /\ Slots' = Slots /\ Live' \subseteq Live
           Back(c) == /\ starting' = starting - 1 /\ Slots' = Slots \ {c} /\ c \in Slots
                      /\ \E t \in Threads : Live' \subseteq Live \cup {t}
           Out(c) == Slots' = Slots \ {c}
<1>0. pc \in [Calls -> PCs] /\ workers \in [Threads -> 0..made] /\ thread \in [Calls -> Threads]
  BY DEF Types, SlotTypes
<1>1. ASSUME NEW c \in Calls, NEW x, Go(c, x)
      PROVE  /\ x \in Reserving <=> pc[c] \in Reserving => Slots' = Slots
             /\ x \in Reserving /\ pc[c] \notin Reserving => Slots' = Slots \cup {c} /\ c \in Calls \ Slots
             /\ x \notin Reserving /\ pc[c] \in Reserving => Slots' = Slots \ {c} /\ c \in Slots
  BY <1>0, <1>1 DEF Go, Slots
<1>2. UNCHANGED workers => Live' = Live
  BY DEF Live
<1>3. ASSUME NEW t \in Threads, workers' = [workers EXCEPT ![t] = 0]
      PROVE  Live' \subseteq Live /\ (t \in Live => Live' = Live \ {t})
  BY <1>0, <1>3 DEF Live
<1>4. ASSUME NEW t \in Threads, NEW v, workers' = [workers EXCEPT ![t] = v]
      PROVE  Live' \subseteq Live \cup {t}
  BY <1>0, <1>4 DEF Live
<1> USE DEF Reserving
<1>5. CASE UNCHANGED vars
  BY <1>5 DEF vars, slotVars, callVars, inputs, Slots, Live
<1>6. ASSUME NEW c \in Calls, NewThread(c) \/ Begin(c) \/ AllBusy(c) PROVE Quiet /\ max' = max
  BY <1>1, <1>2, <1>6 DEF NewThread, Begin, AllBusy, slotVars, inputs
<1>7. ASSUME NEW c \in Calls, Unlist(c) PROVE Quiet /\ max' = max
  BY <1>0, <1>1, <1>3, <1>7 DEF Unlist, inputs
<1>8. ASSUME NEW c \in Calls, Reserve(c)
      PROVE  /\ max' = max /\ c \in Calls \ Slots
             /\ starting' = starting + 1 /\ Slots' = Slots \cup {c}
             /\ (HasSlot /\ Live' = Live) \/ \E t \in Live : Live' = Live \ {t}
  <2>1. Victims \subseteq Live /\ Live \subseteq Threads
    BY DEF Victims, Evictable, Live
  <2> QED
    BY <1>1, <1>2, <1>3, <1>8, <2>1 DEF Reserve, inputs
<1>9. ASSUME NEW c \in Calls, StopVictim(c) \/ StopOverridden(c) \/ Drop(c) PROVE Quiet /\ max' = max
  BY <1>1, <1>2, <1>9 DEF StopVictim, StopOverridden, Drop, slotVars, inputs
<1>10. ASSUME NEW c \in Calls, Launch(c) PROVE Quiet /\ max' = max
  BY <1>1, <1>2, <1>10 DEF Launch, inputs
<1>11. ASSUME NEW c \in Calls, Launched(c) \/ LaunchFails(c) \/ InstallLate(c) \/ Install(c)
       PROVE  Back(c) /\ max' = max
  BY <1>0, <1>1, <1>2, <1>4, <1>11 DEF Launched, LaunchFails, InstallLate, Install, inputs
<1>12. ASSUME NEW c \in Calls, Lookup(c) PROVE Quiet /\ max' = max
  BY <1>0, <1>1, <1>2, <1>3, <1>12 DEF Lookup, inputs
<1>13. ASSUME NEW c \in Calls, Woken(c) \/ WaitCancelled(c) \/ ResumeStart(c) \/ Ensure(c) PROVE Quiet /\ max' = max
  BY <1>1, <1>2, <1>13 DEF Woken, WaitCancelled, ResumeStart, Ensure, slotVars, inputs
<1>14. ASSUME NEW c \in Calls, NEW ok \in BOOLEAN, ResumeDone(c, ok) PROVE Quiet /\ max' = max
  <2>1. PICK x : Go(c, x) /\ x \notin Reserving /\ pc[c] \notin Reserving
    BY <1>14 DEF ResumeDone
  <2>2. Slots' = Slots
    BY <1>1, <2>1
  <2>3. Live' \subseteq Live
    BY <1>0, <1>2, <1>3, <1>14 DEF ResumeDone
  <2> QED
    BY <1>14, <2>2, <2>3 DEF ResumeDone, inputs
<1>15. ASSUME NEW c \in Calls, Claim(c) \/ Register(c) \/ Accepted(c) \/ Refused(c) \/ Done(c) PROVE Quiet /\ max' = max
  BY <1>1, <1>2, <1>15 DEF Claim, Register, Accepted, Refused, Done, slotVars, inputs
<1>16. ASSUME NEW c \in Calls, KillReads(c) \/ KillReadsAgain(c) \/ KillWoken(c) \/ KillTurn(c) PROVE Quiet /\ max' = max
  BY <1>1, <1>2, <1>16 DEF KillReads, KillReadsAgain, KillWoken, KillTurn, slotVars, inputs
<1>17. (\E c \in Turners : ServerTake(c)) \/ (\E w \in Ids : Crash(w) \/ TurnStarted(w) \/ TurnCompleted(w))
         => Quiet /\ max' = max
  BY DEF ServerTake, Crash, TurnStarted, TurnCompleted, callVars, slotVars, inputs, Slots, Live
<1> HIDE DEF Quiet, Back
<1>18. \/ Quiet /\ max' = max
       \/ \E c \in Calls : Reserve(c)
       \/ \E c \in Calls : Back(c) /\ max' = max
       \/ UNCHANGED vars
  BY <1>6, <1>7, <1>9, <1>10, <1>11, <1>12, <1>13, <1>14, <1>15, <1>16, <1>17 DEF Next, Step
<1> QED
  BY <1>5, <1>8, <1>18 DEF Quiet, Back

LEMMA PoolStep ==
    Types /\ RolesOK /\ PoolBounded /\ SlotsExact /\ [Next]_vars =>
      PoolBounded' /\ SlotsExact' /\ starting' \in 0..Cardinality(Calls)
<1> SUFFICES ASSUME Types, RolesOK, PoolBounded, SlotsExact, [Next]_vars
             PROVE  PoolBounded' /\ SlotsExact' /\ starting' \in 0..Cardinality(Calls)
  OBVIOUS
<1>1. max \in Nat /\ starting = Cardinality(Slots) /\ Cardinality(Live) + starting <= max
  BY DEF Types, SlotTypes, PoolBounded, SlotsExact, Slots
<1>2. Types'
  BY TypesStep
<1>3. /\ Cardinality(Slots') <= Cardinality(Calls) /\ Cardinality(Slots') \in Nat
      /\ Cardinality(Live') \in Nat /\ Cardinality(Calls) \in Nat
  <2>1. IsFiniteSet(Slots') /\ IsFiniteSet(Live') /\ Slots' \subseteq Calls /\ IsFiniteSet(Calls)
    BY FS_Subset DEF Slots, Live
  <2> QED
    BY <2>1, FS_Subset, FS_CardinalityType
<1>4. starting' = Cardinality(Slots') /\ Cardinality(Live') + starting' <= max'
  <2>1. CASE starting' = starting /\ Slots' = Slots /\ Live' \subseteq Live
    <3>1. Cardinality(Live') <= Cardinality(Live)
      BY <2>1, Counts
    <3> QED
      BY <1>1, <1>3, <2>1, <3>1, SlotSteps, Counts
  <2>2. ASSUME NEW c \in Calls \ Slots, starting' = starting + 1, Slots' = Slots \cup {c},
               \/ HasSlot /\ Live' = Live
               \/ \E t \in Live : Live' = Live \ {t}
        PROVE  starting' = Cardinality(Slots') /\ Cardinality(Live') + starting' <= max'
    <3>1. Cardinality(Slots') = Cardinality(Slots) + 1
      BY <2>2, Counts
    <3>2. HasSlot /\ Live' = Live => Cardinality(Live') + starting' <= max
      BY <1>1, <2>2, Counts DEF HasSlot
    <3>3. (\E t \in Live : Live' = Live \ {t}) => Cardinality(Live') = Cardinality(Live) - 1
      BY Counts
    <3> QED
      BY <1>1, <2>2, <3>1, <3>2, <3>3, SlotSteps, Counts
  <2>3. ASSUME NEW c \in Slots, NEW t \in Threads, starting' = starting - 1, Slots' = Slots \ {c},
               Live' \subseteq Live \cup {t}
        PROVE  starting' = Cardinality(Slots') /\ Cardinality(Live') + starting' <= max'
    <3>1. Cardinality(Slots') = Cardinality(Slots) - 1
      BY <2>3, Counts
    <3>2. Cardinality(Live') <= Cardinality(Live) + 1
      <4>1. /\ Cardinality(Live \cup {t}) <= Cardinality(Live) + 1 /\ Cardinality(Live \cup {t}) \in Nat
            /\ Cardinality(Live') <= Cardinality(Live \cup {t})
        BY <2>3, Counts
      <4>2. Cardinality(Live) \in Nat
        BY Counts
      <4> QED
        BY <1>3, <4>1, <4>2
    <3>3. Cardinality(Live) \in Nat /\ Cardinality(Slots) \in Nat
      BY Counts
    <3>4. max' = max
      BY SlotSteps
    <3> QED
      BY <1>1, <1>3, <2>3, <3>1, <3>2, <3>3, <3>4
  <2> QED
    BY <2>1, <2>2, <2>3, SlotSteps
<1> QED
  BY <1>3, <1>4 DEF PoolBounded, SlotsExact, Slots

-----------------------------------------------------------------------------
(* Turns and their results.                                                *)

\* Who uses a worker or has sent its turn/start stays where it is, and nobody
\* becomes a user.
Still ==
    \A d \in Calls : pc[d] \in Using \cup Sent \/ pc'[d] \in Using => pc'[d] = pc[d] /\ hand'[d] = hand[d]

\* A step leaves the turns alone, or fails a process, or kills a turn, or is one of
\* the turn's own or of its server's.
LEMMA UseSteps ==
    ASSUME Types, RolesOK, [Next]_vars
    PROVE  \/ Still /\ UNCHANGED <<busy, stream, request, server, result, finishes, excused>>
           \/ Still /\ UNCHANGED <<busy, excused>> /\ \E w \in Ids : FailProcess(w)
           \/ Still /\ \E c \in Calls : KillTurn(c) /\ hand[c] \in Ids
           \/ \E c \in Turners : \/ Claim(c) \/ Ensure(c) \/ Register(c) \/ Accepted(c)
                                 \/ Refused(c) \/ Done(c) \/ ServerTake(c)
           \/ \E w \in Ids : TurnCompleted(w)
<1> DEFINE Alone == UNCHANGED <<busy, stream, request, server, result, finishes, excused>>
<1> USE DEF Using, Sent
<1>0. pc \in [Calls -> PCs] /\ hand \in [Calls -> 0..made]
  BY DEF Types, SlotTypes
<1>1. ASSUME NEW c \in Calls, NEW x, Go(c, x), x \notin Using, pc[c] \notin Using \cup Sent,
             UNCHANGED hand \/ \E w : Take(c, w)
      PROVE  Still
  BY <1>0, <1>1 DEF Go, Take, Still
<1>2. UNCHANGED <<pc, hand>> => Still
  BY DEF Still
<1>3. CASE UNCHANGED vars
  BY <1>2, <1>3 DEF vars, callVars, clientVars, workerVars
<1>4. ASSUME NEW c \in Calls, NewThread(c) \/ Begin(c) \/ AllBusy(c) PROVE Still /\ Alone
  BY <1>1, <1>4 DEF NewThread, Begin, AllBusy, clientVars, workerVars
<1>5. ASSUME NEW c \in Calls, Unlist(c) PROVE Still /\ Alone
  BY <1>1, <1>5 DEF Unlist, clientVars, workerVars
<1>6. ASSUME NEW c \in Calls, Reserve(c) PROVE Still /\ Alone
  BY <1>1, <1>6 DEF Reserve, clientVars, workerVars
<1>7. ASSUME NEW c \in Calls, StopVictim(c) \/ StopOverridden(c) \/ Drop(c)
      PROVE  Still /\ UNCHANGED <<busy, excused>> /\ (Alone \/ FailProcess(hand[c])) /\ hand[c] \in Ids
  <2>1. Still
    BY <1>1, <1>7 DEF StopVictim, StopOverridden, Drop
  <2>2. hand[c] \in Ids
    BY <1>7, Holds DEF StopVictim, StopOverridden, Drop, Holding, Stopping
  <2>3. Shutdown(hand[c]) /\ UNCHANGED <<busy, excused>>
    BY <1>7 DEF StopVictim, StopOverridden, Drop, workerVars
  <2> QED
    BY <2>1, <2>2, <2>3 DEF Shutdown, clientVars
<1>8. ASSUME NEW c \in Calls, Launch(c) \/ Install(c) \/ ResumeStart(c) PROVE Still /\ Alone
  BY <1>1, <1>8 DEF Launch, Install, ResumeStart, clientVars, workerVars
<1>9. ASSUME NEW c \in Calls, Launched(c) \/ LaunchFails(c) \/ InstallLate(c) PROVE Still /\ Alone
  BY <1>1, <1>9 DEF Launched, LaunchFails, InstallLate, clientVars, workerVars
<1>10. ASSUME NEW c \in Calls, Lookup(c) PROVE Still /\ Alone
  BY <1>1, <1>10 DEF Lookup, clientVars
<1>11. ASSUME NEW c \in Calls, Woken(c) \/ WaitCancelled(c) PROVE Still /\ Alone
  BY <1>1, <1>11 DEF Woken, WaitCancelled, clientVars, workerVars
<1>12. ASSUME NEW c \in Calls, NEW ok \in BOOLEAN, ResumeDone(c, ok) PROVE Still /\ Alone
  BY <1>1, <1>12 DEF ResumeDone, clientVars
<1>13. ASSUME NEW c \in Calls, KillReads(c) \/ KillReadsAgain(c) \/ KillWoken(c) PROVE Still /\ Alone
  BY <1>1, <1>13 DEF KillReads, KillReadsAgain, KillWoken, clientVars, workerVars
<1>14. ASSUME NEW c \in Calls, KillTurn(c) PROVE Still /\ hand[c] \in Ids
  <2>1. Still
    BY <1>1, <1>14 DEF KillTurn
  <2> QED
    BY <1>14, <2>1, Holds DEF KillTurn, Holding, Stopping
<1>15. ASSUME NEW c \in Calls,
              Claim(c) \/ Ensure(c) \/ Register(c) \/ Accepted(c) \/ Refused(c) \/ Done(c)
       PROVE  c \in Turners
  BY <1>15 DEF Claim, Ensure, Register, Accepted, Refused, Done, RolesOK, OfTurns
<1>16. ASSUME NEW w \in Ids, Crash(w) PROVE Still /\ UNCHANGED <<busy, excused>> /\ FailProcess(w)
  BY <1>2, <1>16 DEF Crash, callVars, workerVars
<1>17. ASSUME NEW w \in Ids, TurnStarted(w) PROVE Still /\ Alone
  BY <1>2, <1>17 DEF TurnStarted, callVars, workerVars
<1> HIDE DEF Alone
<1>18. \/ Still /\ Alone
       \/ Still /\ UNCHANGED <<busy, excused>> /\ \E w \in Ids : FailProcess(w)
       \/ \E c \in Calls : KillTurn(c)
       \/ \E c \in Calls : Claim(c) \/ Ensure(c) \/ Register(c) \/ Accepted(c) \/ Refused(c) \/ Done(c)
       \/ \E c \in Turners : ServerTake(c)
       \/ \E w \in Ids : TurnCompleted(w)
       \/ UNCHANGED vars
  BY <1>4, <1>5, <1>6, <1>7, <1>8, <1>9, <1>10, <1>11, <1>12, <1>13, <1>16, <1>17 DEF Next, Step
<1> QED
  BY <1>3, <1>14, <1>15, <1>18 DEF Alone

\* What a turn's own step does to its place.
LEMMA Holder ==
    ASSUME Types, RolesOK, NEW c \in Turners, pc[c] \in Using \cup {"ready"}
    PROVE  hand[c] \in Ids /\ c \in Calls /\ c # None
BY Holds DEF Holding

LEMMA OneUserStep == Types /\ RolesOK /\ OneUser /\ [Next]_vars => OneUser'
<1> SUFFICES ASSUME Types, RolesOK, OneUser, [Next]_vars PROVE OneUser'
  OBVIOUS
<1>0. /\ pc \in [Calls -> PCs] /\ hand \in [Calls -> 0..made] /\ busy \in [Ids -> BOOLEAN]
      /\ \A c \in Turners : c \in Calls
      /\ \A c \in Turners : pc[c] \in Using => busy[hand[c]] /\ hand[c] \in Ids
      /\ \A c, d \in Turners : pc[c] \in Using /\ pc[d] \in Using /\ hand[c] = hand[d] => c = d
  BY Holder DEF Types, SlotTypes, WorkerTypes, OneUser
<1>1. CASE Still /\ UNCHANGED busy
  BY <1>0, <1>1 DEF Still, OneUser
<1>2. ASSUME NEW c \in Turners, Claim(c) PROVE OneUser'
  <2>1. hand[c] \in Ids
    BY <1>2, Holder DEF Claim
  <2>2. CASE busy[hand[c]] \/ ClientBusy(hand[c])
    BY <1>0, <1>2, <2>2 DEF Claim, Go, Take, OneUser, Using
  <2>3. CASE ~(busy[hand[c]] \/ ClientBusy(hand[c]))
    <3>1. pc' = [pc EXCEPT ![c] = "claimed"] /\ hand' = hand /\ busy' = [busy EXCEPT ![hand[c]] = TRUE]
      BY <1>2, <2>3 DEF Claim, Go
    <3>2. ~busy[hand[c]]
      BY <2>3
    <3>3. \A d \in Turners : pc'[d] \in Using => d = c \/ (pc[d] \in Using /\ hand[d] # hand[c])
      BY <1>0, <3>1, <3>2
    <3> QED
      BY <1>0, <2>1, <3>1, <3>3 DEF OneUser
  <2> QED
    BY <2>2, <2>3
<1>3. ASSUME NEW c \in Turners, Ensure(c) \/ Register(c) \/ Accepted(c) PROVE OneUser'
  <2>1. pc[c] \in Using /\ UNCHANGED <<hand, busy>> /\ \E x \in Using : pc' = [pc EXCEPT ![c] = x]
    BY <1>3 DEF Ensure, Register, Accepted, Go, Using, workerVars
  <2> QED
    BY <1>0, <2>1 DEF OneUser
<1>4. ASSUME NEW c \in Turners, Refused(c) \/ Done(c) PROVE OneUser'
  <2>1. /\ pc[c] \in Using /\ UNCHANGED hand /\ \E x \in {"failed", "done"} : pc' = [pc EXCEPT ![c] = x]
        /\ busy' = busy \/ busy' = [busy EXCEPT ![hand[c]] = FALSE]
    BY <1>4 DEF Refused, Done, Go, Using
  <2>2. \A d \in Turners : pc'[d] \in Using => d # c /\ pc[d] \in Using /\ hand[d] # hand[c]
    BY <1>0, <2>1 DEF Using
  <2>3. \A d \in Turners : pc'[d] \in Using => busy'[hand[d]]
    BY <1>0, <2>1, <2>2
  <2> QED
    BY <1>0, <2>1, <2>2, <2>3 DEF OneUser
<1>5. ASSUME NEW c \in Turners, ServerTake(c) PROVE OneUser'
  BY <1>0, <1>5 DEF ServerTake, callVars, workerVars, OneUser
<1>6. ASSUME NEW w \in Ids, TurnCompleted(w) PROVE OneUser'
  BY <1>0, <1>6 DEF TurnCompleted, callVars, workerVars, OneUser
<1>7. ASSUME NEW c \in Calls, KillTurn(c) PROVE UNCHANGED busy
  BY <1>7 DEF KillTurn, workerVars
<1> QED
  BY <1>1, <1>2, <1>3, <1>4, <1>5, <1>6, <1>7, UseSteps

\* Whoever closes the stream of a worker gives its turn the result it lacked.
LEMMA CloseStream ==
    ASSUME Types, RolesOK, StreamOwned, Still, NEW w \in Ids,
           NEW r \in {"own", "other", "failed", "interrupted"},
           Finish(Stream(w), r), stream' = [stream EXCEPT ![w] = None]
    PROVE  StreamOwned'
<1>0. /\ stream \in [Ids -> Turners \cup {None}]
      /\ \A c \in Turners : c \in Calls /\ c # None
  BY DEF Types, ClientTypes
<1>1. \A c \in Turners : pc[c] \in {"registered", "accepted"} => hand[c] \in Ids
  BY Holds DEF Holding, Using
<1>2. /\ \A v \in Ids : stream[v] # None =>
           /\ stream[v] \in Turners /\ hand[stream[v]] = v
           /\ pc[stream[v]] \in {"registered", "accepted"} /\ result[stream[v]] = "none"
      /\ \A c \in Turners : pc[c] \in {"registered", "accepted"} /\ result[c] = "none" => stream[hand[c]] = c
      /\ \A c \in Turners : result[c] # "none" => pc[c] \in Sent
      /\ \A c \in Turners : finishes[c] = IF result[c] = "none" THEN 0 ELSE 1
  BY <1>0 DEF StreamOwned
<1>3. /\ \A c \in Turners : c = stream[w] => result'[c] = r /\ finishes'[c] = finishes[c] + 1
      /\ \A c \in Turners : c # stream[w] => result'[c] = result[c] /\ finishes'[c] = finishes[c]
  BY <1>0 DEF Finish, Stream
<1>4. \A c \in Turners : pc[c] \in Using \cup Sent \/ pc'[c] \in Using => pc'[c] = pc[c] /\ hand'[c] = hand[c]
  BY <1>0 DEF Still
<1>5. ASSUME NEW v \in Ids, stream'[v] # None
      PROVE  /\ hand'[stream'[v]] = v /\ pc'[stream'[v]] \in {"registered", "accepted"}
             /\ result'[stream'[v]] = "none"
  <2>1. v # w /\ stream'[v] = stream[v]
    BY <1>0, <1>5
  <2>2. stream[v] # stream[w]
    BY <1>2, <1>5, <2>1
  <2> QED
    BY <1>2, <1>3, <1>4, <1>5, <2>1, <2>2 DEF Using
<1>6. ASSUME NEW c \in Turners
      PROVE  /\ pc'[c] \in {"registered", "accepted"} /\ result'[c] = "none" => stream'[hand'[c]] = c
             /\ result'[c] # "none" => pc'[c] \in Sent
             /\ finishes'[c] = IF result'[c] = "none" THEN 0 ELSE 1
  <2>1. CASE c = stream[w]
    BY <1>0, <1>2, <1>3, <1>4, <2>1 DEF Using, Sent
  <2>2. CASE c # stream[w]
    <3>1. result'[c] = result[c] /\ finishes'[c] = finishes[c]
      BY <1>3, <2>2
    <3>2. result'[c] # "none" => pc'[c] \in Sent
      BY <1>2, <1>4, <3>1
    <3>3. ASSUME pc'[c] \in {"registered", "accepted"}, result'[c] = "none"
          PROVE  stream'[hand'[c]] = c
      <4>1. pc'[c] = pc[c] /\ hand'[c] = hand[c] /\ hand[c] \in Ids
        BY <1>1, <1>4, <3>3 DEF Using
      <4>2. stream[hand[c]] = c /\ hand[c] # w
        BY <1>2, <2>2, <3>1, <3>3, <4>1
      <4> QED
        BY <1>0, <4>1, <4>2
    <3> QED
      BY <1>2, <3>1, <3>2, <3>3
  <2> QED
    BY <2>1, <2>2
<1> QED
  BY <1>5, <1>6 DEF StreamOwned

LEMMA StreamStep == Types /\ RolesOK /\ OneUser /\ StreamOwned /\ [Next]_vars => StreamOwned'
<1> SUFFICES ASSUME Types, RolesOK, OneUser, StreamOwned, [Next]_vars PROVE StreamOwned'
  OBVIOUS
<1>0. /\ stream \in [Ids -> Turners \cup {None}] /\ pc \in [Calls -> PCs] /\ hand \in [Calls -> 0..made]
      /\ \A c \in Turners : c \in Calls /\ c # None
  BY DEF Types, SlotTypes, ClientTypes
<1>1. \A c \in Turners : pc[c] \in Using => hand[c] \in Ids
  BY Holder
<1>2. /\ \A v \in Ids : stream[v] # None =>
           /\ stream[v] \in Turners /\ hand[stream[v]] = v
           /\ pc[stream[v]] \in {"registered", "accepted"} /\ result[stream[v]] = "none"
      /\ \A c \in Turners : pc[c] \in {"registered", "accepted"} /\ result[c] = "none" => stream[hand[c]] = c
      /\ \A c \in Turners : result[c] # "none" => pc[c] \in Sent
      /\ \A c \in Turners : finishes[c] = IF result[c] = "none" THEN 0 ELSE 1
  BY <1>0 DEF StreamOwned
<1>3. \A c, d \in Turners : pc[c] \in Using /\ pc[d] \in Using /\ hand[c] = hand[d] => c = d
  BY DEF OneUser
<1>4. CASE Still /\ UNCHANGED <<stream, result, finishes>>
  BY <1>0, <1>2, <1>4 DEF Still, StreamOwned, Using
<1>5. ASSUME NEW w \in Ids, FailProcess(w), Still PROVE StreamOwned'
  BY <1>5, CloseStream DEF FailProcess
<1>6. ASSUME NEW c \in Calls, KillTurn(c), hand[c] \in Ids, Still PROVE StreamOwned'
  BY <1>6, CloseStream DEF KillTurn
<1>7. ASSUME NEW w \in Ids, TurnCompleted(w) PROVE StreamOwned'
  <2>1. Still
    BY <1>7 DEF TurnCompleted, callVars, Still
  <2> QED
    BY <1>7, <2>1, CloseStream DEF TurnCompleted
<1>8. ASSUME NEW c \in Turners, NEW x, Go(c, x), UNCHANGED hand \/ \E w : Take(c, w)
      PROVE  /\ pc'[c] = x
             /\ \A d \in Turners \ {c} : pc'[d] = pc[d] /\ hand'[d] = hand[d]
  BY <1>0, <1>8 DEF Go, Take
<1>9. ASSUME NEW c \in Turners, Claim(c) PROVE StreamOwned'
  <2>1. /\ pc[c] = "ready" /\ UNCHANGED <<stream, result, finishes>> /\ pc'[c] \in {"failed", "claimed"}
        /\ \A d \in Turners \ {c} : pc'[d] = pc[d] /\ hand'[d] = hand[d]
    BY <1>8, <1>9 DEF Claim, clientVars
  <2>2. result[c] = "none" /\ \A v \in Ids : stream[v] # c
    BY <1>0, <1>2, <2>1 DEF Sent
  <2> QED
    BY <1>2, <2>1, <2>2 DEF StreamOwned
<1>10. ASSUME NEW c \in Turners, Ensure(c) PROVE StreamOwned'
  <2>1. /\ pc[c] = "claimed" /\ UNCHANGED <<stream, result, finishes>> /\ pc'[c] = "ensured"
        /\ \A d \in Turners \ {c} : pc'[d] = pc[d] /\ hand'[d] = hand[d]
    BY <1>8, <1>10 DEF Ensure
  <2>2. result[c] = "none" /\ \A v \in Ids : stream[v] # c
    BY <1>0, <1>2, <2>1 DEF Sent
  <2> QED
    BY <1>2, <2>1, <2>2 DEF StreamOwned
<1>11. ASSUME NEW c \in Turners, Accepted(c) PROVE StreamOwned'
  <2>1. /\ pc[c] = "registered" /\ UNCHANGED <<hand, stream, result, finishes>> /\ pc'[c] = "accepted"
        /\ \A d \in Turners \ {c} : pc'[d] = pc[d]
    BY <1>8, <1>11 DEF Accepted, clientVars
  <2> QED
    BY <1>2, <2>1 DEF StreamOwned, Sent
<1>12. ASSUME NEW c \in Turners, Done(c) PROVE StreamOwned'
  <2>1. /\ pc[c] = "accepted" /\ result[c] # "none" /\ pc'[c] = "done"
        /\ UNCHANGED <<hand, stream, result, finishes>>
        /\ \A d \in Turners \ {c} : pc'[d] = pc[d]
    BY <1>8, <1>12 DEF Done, clientVars
  <2> QED
    BY <1>2, <2>1 DEF StreamOwned, Sent
<1>13. ASSUME NEW c \in Turners, Register(c) PROVE StreamOwned'
  <2>1. /\ pc[c] = "ensured" /\ UNCHANGED <<hand, result, finishes>> /\ pc'[c] = "registered"
        /\ stream' = [stream EXCEPT ![hand[c]] = c]
        /\ \A d \in Turners \ {c} : pc'[d] = pc[d]
    BY <1>8, <1>13 DEF Register
  <2>2. hand[c] \in Ids /\ result[c] = "none"
    BY <1>1, <1>2, <2>1 DEF Using, Sent
  <2>3. \A d \in Turners \ {c} : pc[d] \in {"registered", "accepted"} => hand[d] # hand[c] /\ hand[d] \in Ids
    BY <1>1, <1>3, <2>1 DEF Using
  <2>4. \A v \in Ids : v # hand[c] => stream'[v] = stream[v] /\ stream[v] # c
    BY <1>0, <1>2, <2>1
  <2>5. stream'[hand[c]] = c
    BY <1>0, <2>1, <2>2
  <2> QED
    BY <1>2, <2>1, <2>2, <2>3, <2>4, <2>5 DEF StreamOwned, Sent
<1>14. ASSUME NEW c \in Turners, Refused(c) PROVE StreamOwned'
  <2>1. /\ pc[c] \in {"claimed", "ensured", "registered"} /\ pc'[c] = "failed"
        /\ UNCHANGED <<hand, result, finishes>>
        /\ stream' = IF pc[c] = "registered" THEN [stream EXCEPT ![hand[c]] = None] ELSE stream
        /\ \A d \in Turners \ {c} : pc'[d] = pc[d]
    BY <1>8, <1>14 DEF Refused
  <2>2. \A d \in Turners \ {c} : pc[d] \in {"registered", "accepted"} => hand[d] # hand[c] /\ hand[d] \in Ids
    BY <1>1, <1>3, <2>1 DEF Using
  <2>3. \A v \in Ids : stream'[v] # None => stream'[v] = stream[v] /\ stream[v] # c
    BY <1>0, <1>2, <2>1
  <2>4. \A v \in Ids : v # hand[c] => stream'[v] = stream[v]
    BY <1>0, <2>1
  <2> QED
    BY <1>2, <2>1, <2>2, <2>3, <2>4 DEF StreamOwned, Sent
<1>15. ASSUME NEW c \in Turners, ServerTake(c) PROVE StreamOwned'
  BY <1>4, <1>15 DEF ServerTake, callVars, Still
<1> QED
  BY <1>4, <1>5, <1>6, <1>7, <1>9, <1>10, <1>11, <1>12, <1>13, <1>14, <1>15, UseSteps

\* The server is given nothing new, and no turn another's result.
LEMMA NothingNew ==
    ASSUME Types, ServerOwned, excused \subseteq excused', request' \subseteq request,
           \A w \in Ids : server'[w] \in {server[w], None},
           \A c \in Turners :
             /\ pc[c] \in Using \cup Sent => hand'[c] = hand[c]
             /\ pc[c] \in Sent => pc'[c] \in Sent
             /\ pc'[c] \in Using => pc[c] \in Using /\ hand[c] \in Ids
             /\ pc[c] \in Using /\ c \notin excused => result'[c] = result[c] \/ result'[c] # "other"
    PROVE  ServerOwned'
<1>1. /\ \A c \in request : pc[c] \in Sent /\ c \in Turners
      /\ \A c \in Turners : pc[c] \in Using /\ c \notin excused =>
           /\ server[hand[c]] \in {None, c}
           /\ \A d \in request : hand[d] = hand[c] => d = c
           /\ result[c] # "other"
  BY DEF ServerOwned, Types, ClientTypes
<1>2. \A c \in request' : pc'[c] \in Sent /\ hand'[c] = hand[c] /\ c \in request
  BY <1>1
<1>3. ASSUME NEW c \in Turners, pc'[c] \in Using, c \notin excused'
      PROVE  /\ server'[hand'[c]] \in {None, c}
             /\ \A d \in request' : hand'[d] = hand'[c] => d = c
             /\ result'[c] # "other"
  <2>1. pc[c] \in Using /\ c \notin excused /\ hand'[c] = hand[c] /\ hand[c] \in Ids
    BY <1>3
  <2> QED
    BY <1>1, <1>2, <2>1
<1> QED
  BY <1>2, <1>3 DEF ServerOwned

LEMMA ServerStep ==
    Types /\ RolesOK /\ OneUser /\ StreamOwned /\ ServerOwned /\ [Next]_vars => ServerOwned'
<1> SUFFICES ASSUME Types, RolesOK, OneUser, StreamOwned, ServerOwned, [Next]_vars PROVE ServerOwned'
  OBVIOUS
<1>0. /\ stream \in [Ids -> Turners \cup {None}] /\ server \in [Ids -> Turners \cup {None}]
      /\ pc \in [Calls -> PCs] /\ hand \in [Calls -> 0..made] /\ request \subseteq Turners
      /\ \A c \in Turners : c \in Calls /\ c # None
  BY DEF Types, SlotTypes, ClientTypes
<1>1. \A c \in Turners : pc[c] \in Using => hand[c] \in Ids
  BY Holder
<1>2. /\ \A c \in request : pc[c] \in Sent
      /\ \A c \in Turners : pc[c] \in Using /\ c \notin excused =>
           /\ server[hand[c]] \in {None, c}
           /\ \A d \in request : hand[d] = hand[c] => d = c
           /\ result[c] # "other"
  BY DEF ServerOwned
<1>3. \A c, d \in Turners : pc[c] \in Using /\ pc[d] \in Using /\ hand[c] = hand[d] => c = d
  BY DEF OneUser
<1>4. Still => \A c \in Turners : /\ pc[c] \in Using \cup Sent => hand'[c] = hand[c]
                                  /\ pc[c] \in Sent => pc'[c] \in Sent
                                  /\ pc'[c] \in Using => pc[c] \in Using /\ hand[c] \in Ids
  <2> SUFFICES ASSUME Still, NEW c \in Turners
               PROVE  /\ pc[c] \in Using \cup Sent => hand'[c] = hand[c]
                      /\ pc[c] \in Sent => pc'[c] \in Sent
                      /\ pc'[c] \in Using => pc[c] \in Using /\ hand[c] \in Ids
    OBVIOUS
  <2>1. pc[c] \in Using \cup Sent \/ pc'[c] \in Using => pc'[c] = pc[c] /\ hand'[c] = hand[c]
    BY <1>0 DEF Still
  <2> QED
    BY <1>1, <2>1
<1>5. CASE Still /\ UNCHANGED <<request, server, result, excused>>
  BY <1>4, <1>5, NothingNew
<1>6. ASSUME NEW w \in Ids, FailProcess(w), Still, UNCHANGED excused PROVE ServerOwned'
  <2>1. request' \subseteq request /\ \A v \in Ids : server'[v] \in {server[v], None}
    BY <1>0, <1>6 DEF FailProcess
  <2>2. \A c \in Turners : result'[c] = result[c] \/ result'[c] # "other"
    BY <1>6 DEF FailProcess, Finish
  <2> QED
    BY <1>4, <1>6, <2>1, <2>2, NothingNew
<1>7. ASSUME NEW c \in Calls, KillTurn(c), Still PROVE ServerOwned'
  <2>1. \A d \in Turners : result'[d] = result[d] \/ result'[d] # "other"
    BY <1>7 DEF KillTurn, Finish
  <2> QED
    BY <1>4, <1>7, <2>1, NothingNew DEF KillTurn
<1>8. ASSUME NEW w \in Ids, TurnCompleted(w) PROVE ServerOwned'
  <2>1. Still
    BY <1>8 DEF TurnCompleted, callVars, Still
  <2>2. ASSUME NEW c \in Turners, pc[c] \in Using, c \notin excused
        PROVE  result'[c] = result[c] \/ result'[c] # "other"
    <3>1. CASE c = stream[w]
      <4>1. hand[c] = w
        BY <1>0, <3>1 DEF StreamOwned
      <4>2. server[w] = c
        BY <1>2, <1>8, <2>2, <4>1 DEF TurnCompleted
      <4>3. result'[c] = "own"
        BY <1>0, <1>8, <3>1, <4>2 DEF TurnCompleted, Finish, Stream
      <4> QED
        BY <4>3
    <3>2. CASE c # stream[w]
      BY <1>0, <1>8, <3>2 DEF TurnCompleted, Finish, Stream
    <3> QED
      BY <3>1, <3>2
  <2>3. UNCHANGED <<request, excused>> /\ \A v \in Ids : server'[v] \in {server[v], None}
    BY <1>0, <1>8 DEF TurnCompleted
  <2> QED
    BY <1>4, <2>1, <2>2, <2>3, NothingNew
<1>9. ASSUME NEW c \in Turners, NEW x, Go(c, x), UNCHANGED hand \/ \E w : Take(c, w)
      PROVE  /\ pc'[c] = x
             /\ \A d \in Turners \ {c} : pc'[d] = pc[d] /\ hand'[d] = hand[d]
  BY <1>0, <1>9 DEF Go, Take
<1>10. ASSUME NEW c \in Turners, Ensure(c) \/ Accepted(c) \/ Refused(c) \/ Done(c) PROVE ServerOwned'
  <2>1. /\ UNCHANGED <<hand, request, server, result, excused>> /\ pc[c] \in Using
        /\ pc[c] \in Sent => pc'[c] \in Sent
        /\ \A d \in Turners \ {c} : pc'[d] = pc[d]
    BY <1>9, <1>10 DEF Ensure, Accepted, Refused, Done, clientVars, Using, Sent
  <2> QED
    BY <1>1, <2>1, NothingNew
<1>11. ASSUME NEW c \in Turners, Claim(c) PROVE ServerOwned'
  <2> DEFINE w == hand[c]
  <2>1. /\ pc[c] = "ready" /\ UNCHANGED <<request, server, result>> /\ excused \subseteq excused'
        /\ pc'[c] \in {"failed", "claimed"}
        /\ \A d \in Turners \ {c} : pc'[d] = pc[d] /\ hand'[d] = hand[d]
    BY <1>9, <1>11 DEF Claim, clientVars
  <2>2. result[c] = "none" /\ c \notin request /\ pc[c] \notin Using \cup Sent
    BY <1>2, <2>1 DEF StreamOwned, Sent, Using
  <2>3. CASE pc'[c] = "failed"
    BY <1>1, <2>1, <2>2, <2>3, NothingNew DEF Using
  <2>4. CASE pc'[c] = "claimed"
    <3>1. hand' = hand /\ ~active[w]
      BY <1>9, <1>11, <2>4 DEF Claim, ClientBusy
    <3>2. c \notin excused' => server[w] = None /\ \A d \in request : hand[d] # w
      BY <1>11, <3>1 DEF Claim
    <3>3. ASSUME NEW d \in Turners, pc'[d] \in Using, d \notin excused'
          PROVE  /\ server'[hand'[d]] \in {None, d}
                 /\ \A e \in request' : hand'[e] = hand'[d] => e = d
                 /\ result'[d] # "other"
      BY <1>2, <2>1, <2>2, <3>1, <3>2, <3>3
    <3>4. \A d \in request' : pc'[d] \in Sent
      BY <1>0, <1>2, <2>1, <2>2
    <3> QED
      BY <3>3, <3>4 DEF ServerOwned
  <2> QED
    BY <2>1, <2>3, <2>4
<1>12. ASSUME NEW c \in Turners, Register(c) PROVE ServerOwned'
  <2>1. /\ pc[c] = "ensured" /\ UNCHANGED <<hand, server, result, excused>> /\ pc'[c] = "registered"
        /\ request' \subseteq request \cup {c}
        /\ \A d \in Turners \ {c} : pc'[d] = pc[d]
    BY <1>9, <1>12 DEF Register
  <2>2. \A d \in Turners \ {c} : pc[d] \in Using => hand[d] # hand[c]
    BY <1>3, <2>1 DEF Using
  <2>3. \A d \in request' : pc'[d] \in Sent
    BY <1>0, <1>2, <2>1 DEF Sent
  <2>4. ASSUME NEW d \in Turners, pc'[d] \in Using, d \notin excused'
        PROVE  /\ server'[hand'[d]] \in {None, d}
               /\ \A e \in request' : hand'[e] = hand'[d] => e = d
               /\ result'[d] # "other"
    <3>1. pc[d] \in Using
      BY <2>1, <2>4 DEF Using
    <3> QED
      BY <1>2, <2>1, <2>2, <2>4, <3>1
  <2> QED
    BY <2>3, <2>4 DEF ServerOwned
<1>13. ASSUME NEW c \in Turners, ServerTake(c) PROVE ServerOwned'
  <2>1. /\ c \in request /\ server' = [server EXCEPT ![hand[c]] = c] /\ request' \subseteq request
        /\ UNCHANGED <<pc, hand, result, excused>>
    BY <1>13 DEF ServerTake, callVars
  <2>2. ASSUME NEW d \in Turners, pc[d] \in Using, d \notin excused
        PROVE  server'[hand[d]] \in {None, d}
    <3>1. hand[d] = hand[c] => d = c
      BY <1>2, <2>1, <2>2
    <3> QED
      BY <1>0, <1>1, <1>2, <2>1, <2>2, <3>1
  <2> QED
    BY <1>2, <2>1, <2>2 DEF ServerOwned
<1> QED
  BY <1>5, <1>6, <1>7, <1>8, <1>10, <1>11, <1>12, <1>13, UseSteps

-----------------------------------------------------------------------------
(* The theorems.                                                           *)

LEMMA PoolInit == Init => PoolInv
<1> SUFFICES ASSUME Init PROVE PoolInv
  OBVIOUS
<1>1. PICK s \in Scenarios : thread = s.thread /\ naming = s.naming /\ max = s.max
  BY DEF Init
<1>2. s \in [thread : [Calls -> Threads], naming : SUBSET Turners, max : Nat \ {0}]
  BY <1>1
<1>3. [thread |-> thread, naming |-> naming, max |-> max] \in Scenarios
  BY <1>1, <1>2
<1>4. /\ Types /\ max \in Nat
  <2>1. thread \in [Calls -> Threads] /\ naming \in SUBSET Turners /\ max \in Nat
    BY <1>1, <1>2
  <2>2. SlotTypes
    BY <1>3, <2>1 DEF Init, SlotTypes, PCs
  <2>3. WorkerTypes /\ ClientTypes /\ excused \in SUBSET Turners
    BY DEF Init, WorkerTypes, ClientTypes
  <2> QED
    BY <2>1, <2>2, <2>3 DEF Types
<1>5. Cardinality(Live) = 0 /\ Cardinality({c \in Calls : pc[c] \in Reserving}) = 0
  <2>1. Live = {} /\ {c \in Calls : pc[c] \in Reserving} = {}
    BY DEF Init, Live, Reserving
  <2> QED
    BY <2>1, FS_EmptySet
<1>6. PoolExact
  <2>1. 0 \in 0..Cardinality(Calls)
    BY FS_CardinalityType
  <2>2. starting = 0
    BY DEF Init
  <2> QED
    BY <1>4, <1>5, <2>1, <2>2, TypesSplit DEF PoolExact, PoolBounded, SlotsExact
<1>7. RolesOK /\ OneUser
  BY DEF Init, RolesOK, OneUser, OfTurns, Holding, Using, Stopping
<1>8. StreamOwned /\ ServerOwned
  BY DEF Init, StreamOwned, ServerOwned, Using, Sent
<1> QED
  BY <1>6, <1>7, <1>8 DEF PoolInv

LEMMA PoolInvStep == PoolInv /\ [Next]_vars => PoolInv'
<1> SUFFICES ASSUME PoolInv, [Next]_vars PROVE PoolInv'
  OBVIOUS
<1>1. Types /\ PoolBounded /\ SlotsExact /\ RolesOK /\ OneUser /\ StreamOwned /\ ServerOwned
  BY TypesSplit DEF PoolInv, PoolExact
<1>2. Types' /\ RolesOK' /\ OneUser' /\ StreamOwned' /\ ServerOwned'
  BY <1>1, TypesStep, RolesStep, OneUserStep, StreamStep, ServerStep
<1>3. PoolBounded' /\ SlotsExact' /\ starting' \in 0..Cardinality(Calls)
  BY <1>1, PoolStep
<1>4. TypeOK'
  <2>1. (Types /\ starting \in 0..Cardinality(Calls) => TypeOK)'
    BY TypesSplit, PTL
  <2> QED
    BY <1>2, <1>3, <2>1
<1> QED
  BY <1>2, <1>3, <1>4 DEF PoolInv, PoolExact

LEMMA PoolResults == PoolInv => ResultsReach
<1> SUFFICES ASSUME PoolInv PROVE ResultsReach
  OBVIOUS
<1>1. StreamOwned /\ ServerOwned
  BY DEF PoolInv
<1>2. FinishedOnce /\ AcceptedIsAwaited
  BY <1>1 DEF StreamOwned, FinishedOnce, AcceptedIsAwaited
<1>3. OwnResult
  BY <1>1 DEF ServerOwned, OwnResult, Using
<1> QED
  BY <1>2, <1>3 DEF ResultsReach

\* In every state of the pool the slots are counted right, a busy worker has one turn,
\* a stream is that of a turn which waits, and the server has nothing of another turn
\* for one that was not let in behind it (Manager.reserve, StartTurnWithModel,
\* Client.dispatch).
THEOREM PoolInvariant == Spec => []PoolInv
BY PoolInit, PoolInvStep, PTL DEF Spec

\* Workers and workers being started together never exceed the cap, whatever fails,
\* dies or is killed, and each slot reserved is given back (Manager.reserve and
\* finishStart).
THEOREM CapHolds == Spec => []PoolExact
<1>1. PoolInv => PoolExact
  BY DEF PoolInv
<1> QED
  BY <1>1, PoolInvariant, PTL

\* A turn is finished at most once, is registered while it is awaited, and ends with its
\* own completion unless it was let in behind an abandoned turn/start
\* (Client.StartTurn, finish and dispatch).
THEOREM ResultsAreOwn == Spec => []ResultsReach
BY PoolResults, PoolInvariant, PTL
=============================================================================
