--------------------------- MODULE SessionsProofs ---------------------------
(***************************************************************************)
(* Proofs about the session side: the store of decisions, the start of a   *)
(* session, the watcher of foreign turns, the ACP runtimes, the pi pool,   *)
(* the session list. Each has a section: an inductive invariant in named   *)
(* parts, a lemma for each kind of step that can disturb it, and the       *)
(* theorem of the run's property. A step of another part is a stutter of   *)
(* this one (MetaSteps, StartSteps, WatchSteps, AgentSteps, PiSteps,       *)
(* CacheSteps).                                                            *)
(***************************************************************************)
EXTENDS MCSessions, TLAPS, FiniteSetTheorems

(* ---------------- the store of decisions (SessionMeta) ---------------- *)
\* What the store remembers is what the user said last, whatever was lost of the
\* file, and the file is the store unless a write was lost.
Entries == [archived : {"none", "archived", "shown"}, pinned : BOOLEAN, title : Int, window : Int]

MetaInv ==
    /\ now \in Int /\ lastInput \in Int
    /\ mem \in Entries /\ disk \in Entries
    /\ wish \in [word : {"none", "archive", "show"}, at : Int]
    /\ wish.at <= now /\ lastInput <= now
    /\ ~lost => disk = mem
    /\ wish.word = "archive" => mem.archived = "archived"
    /\ wish.word = "show" =>
         \/ mem.archived = "shown"
         \/ mem.archived = "none" /\ (wish.at - lastInput <= AutoAfter \/ AutoAfter = 0)

\* Nothing is remembered and nothing was said.
LEMMA MetaStart == Meta!Init => MetaInv
  BY DEF Meta!Init, Meta!Empty, MetaInv, Entries


\* A change writes the entry it made, or is cut off and loses it.
LEMMA MetaChange ==
  ASSUME MetaInv, NEW o \in BOOLEAN, NEW m \in Entries, Meta!Change(m, o)
  PROVE  mem' = m /\ disk' \in Entries /\ (~lost' => disk' = mem')
BY DEF MetaInv, Meta!Change, Meta!Persist

\* Each step of the store keeps the invariant.
LEMMA MetaKept == MetaInv /\ [Meta!Next]_metaVars => MetaInv'
<1> SUFFICES ASSUME MetaInv, [Meta!Next]_metaVars PROVE MetaInv'
  OBVIOUS
<1> USE SessionsAssumption DEF MetaInv
<1>1. CASE UNCHANGED metaVars
  BY <1>1 DEF metaVars
<1>2. ASSUME NEW o \in BOOLEAN, Meta!Archive(o) PROVE MetaInv'
  <2>1. [mem EXCEPT !.archived = "archived"] \in Entries
    BY DEF Entries
  <2>2. mem' = [mem EXCEPT !.archived = "archived"] /\ disk' \in Entries /\ (~lost' => disk' = mem')
    BY <1>2, <2>1, MetaChange DEF Meta!Archive
  <2>3. mem'.archived = "archived"
    BY <2>2 DEF Entries
  <2> QED
    BY <1>2, <2>1, <2>2, <2>3 DEF Meta!Archive
<1>3. ASSUME NEW o \in BOOLEAN, Meta!Unarchive(o) PROVE MetaInv'
  <2> DEFINE kept == IF Meta!Stale THEN "shown" ELSE "none"
  <2>1. [mem EXCEPT !.archived = kept] \in Entries
    BY DEF Entries
  <2>2. mem' = [mem EXCEPT !.archived = kept] /\ disk' \in Entries /\ (~lost' => disk' = mem')
    BY <1>3, <2>1, MetaChange DEF Meta!Unarchive
  <2>3. mem'.archived = kept
    BY <2>2 DEF Entries
  <2> QED
    BY <1>3, <2>1, <2>2, <2>3 DEF Meta!Unarchive, Meta!Stale
<1>4. ASSUME NEW o \in BOOLEAN, Meta!Pin(o) \/ Meta!Unpin(o) PROVE MetaInv'
  BY <1>4 DEF Meta!Pin, Meta!Unpin, Meta!Change, Meta!Persist, Entries
<1>5. ASSUME NEW o \in BOOLEAN, Meta!Forget(o) PROVE MetaInv'
  <2>1. Meta!Empty \in Entries
    BY DEF Entries, Meta!Empty
  <2>2. mem' = Meta!Empty /\ disk' \in Entries /\ (~lost' => disk' = mem')
    BY <1>5, <2>1, MetaChange DEF Meta!Forget
  <2> QED
    BY <1>5, <2>1, <2>2 DEF Meta!Forget
<1>6. ASSUME NEW o \in BOOLEAN, NEW n \in Int, Meta!Rename(n, o) PROVE MetaInv'
  BY <1>6 DEF Meta!Rename, Meta!Persist, Entries
<1>7. ASSUME NEW o \in BOOLEAN, NEW n \in Int, Meta!SaveContextWindow(n, o) PROVE MetaInv'
  BY <1>7 DEF Meta!SaveContextWindow, Meta!Change, Meta!Persist, Entries
<1>8. CASE Meta!Restart
  BY <1>8 DEF Meta!Restart, Entries
<1>9. CASE Meta!Tick
  BY <1>9 DEF Meta!Tick, Entries
<1>10. 0..1 \subseteq Int /\ \A n \in 0..1 : n + 1 \in Int
  OBVIOUS
<1> QED
  BY <1>1, <1>2, <1>3, <1>4, <1>5, <1>6, <1>7, <1>8, <1>9, <1>10 DEF Meta!Next
\* The property follows from the invariant.
LEMMA MetaHolds == MetaInv => Meta!DecisionHolds
  BY SessionsAssumption DEF MetaInv, Meta!DecisionHolds, Meta!IsArchived, Meta!Stale, Entries

\* A step of another part is a stutter of the store.
LEMMA MetaSteps == SessionsNext => [Meta!Next]_metaVars
BY DEF SessionsNext, PiStep, AgentStep, CacheStep, WatchStep, StartStep, MetaStep

\* What the user decided on archiving stands across restarts.
THEOREM MetaDecisionHolds == SessionsSpec => []DecisionHolds
<1>1. SessionsInit => MetaInv
  BY MetaStart DEF SessionsInit
<1>2. MetaInv /\ [SessionsNext]_sessionsVars => MetaInv'
  BY MetaKept, MetaSteps DEF sessionsVars
<1>3. MetaInv => DecisionHolds
  BY MetaHolds DEF DecisionHolds
<1> QED
  BY <1>1, <1>2, <1>3, PTL DEF SessionsSpec

(* ---------------- the start of a session (SessionStart) ---------------- *)
\* While the stream of a registered session is open its overlay entry is there, a
\* running one with the token; and a form that wants a reply has collected all text.
StartInv ==
    /\ form \in Starting!Forms
    /\ start \in {"new", "started", "registered", "failed"}
    /\ creating \in {"none", "running", "idle"}
    /\ answer \in {"none", "id", "reply", "partial", "error"}
    /\ start \in {"new", "failed"} => ~open
    /\ start = "started" => open
    /\ start # "registered" => creating = "none" /\ ~token
    /\ start = "registered" /\ open => creating # "none" /\ answer \in {"none", "id"}
    /\ start \in {"new", "started"} => answer = "none"
    /\ start = "failed" => answer = "error"
    /\ ~open => creating = "none" /\ ~token
    /\ creating = "running" => token
    /\ form # "start" => buf = seen
    /\ answer \in {"reply", "partial"} => form # "start"
    /\ answer = "error" /\ start # "failed" => buf = <<>> /\ expired
    /\ form = "start" /\ start = "registered" => answer = "id"

\* Nothing has been started.
LEMMA StartStarts == Starting!Init => StartInv
BY DEF Starting!Init, StartInv, Starting!Forms

\* Each step of a start, of its backend and of the expiry keeps the invariant.
LEMMA StartKept == StartInv /\ [Starting!Next]_startVars => StartInv'
<1> SUFFICES ASSUME StartInv, [Starting!Next]_startVars PROVE StartInv'
  OBVIOUS
<1> USE DEF StartInv, Starting!Forms
<1>1. CASE UNCHANGED startVars
  BY <1>1 DEF startVars
<1>2. CASE Starting!Refuse \/ Starting!BackendStart
  BY <1>2 DEF Starting!Refuse, Starting!BackendStart
<1>3. CASE Starting!Register
  BY <1>3 DEF Starting!Register
<1>4. CASE Starting!WriteLog \/ Starting!Ingest \/ Starting!Expire
  BY <1>4 DEF Starting!WriteLog, Starting!Ingest, Starting!Expire
<1>5. CASE Starting!Stream
  <2>1. UNCHANGED <<form, start, open, known, expired, answer>> /\ start = "registered" /\ open
    BY <1>5 DEF Starting!Stream
  <2>2. form # "start" => buf' = seen'
    BY <1>5 DEF Starting!Stream, Starting!Collects
  <2>3. \/ UNCHANGED <<token, creating>>
        \/ ~token' /\ creating # "none" /\ creating' = "idle"
    BY <1>5 DEF Starting!Stream
  <2> QED
    BY <2>1, <2>2, <2>3
<1>6. CASE Starting!Close
  BY <1>6 DEF Starting!Close, Starting!releaseSend, Starting!Replied
<1> QED
  BY <1>1, <1>2, <1>3, <1>4, <1>5, <1>6 DEF Starting!Next

\* The property follows from the invariant.
LEMMA StartServes == StartInv => Starting!StartIsServed
<1> SUFFICES ASSUME StartInv PROVE Starting!StartIsServed
  OBVIOUS
<1>1. Len(Starting!listSessions) <= 1
  BY DEF Starting!listSessions
<1> QED
  BY <1>1 DEF StartInv, Starting!StartIsServed, Starting!GetSession, Starting!Forms

\* A step of another part is a stutter of the start.
LEMMA StartSteps == SessionsNext => [Starting!Next]_startVars
BY DEF SessionsNext, PiStep, AgentStep, CacheStep, WatchStep, StartStep, MetaStep

\* From the answer to its caller on, a new session resolves, is listed once and running
\* while its first turn is, and its caller is told the text that was streamed.
THEOREM NewSessionIsServed == SessionsSpec => []StartIsServed
<1>1. SessionsInit => StartInv
  BY StartStarts DEF SessionsInit
<1>2. StartInv /\ [SessionsNext]_sessionsVars => StartInv'
  BY StartKept, StartSteps DEF sessionsVars
<1>3. StartInv => StartIsServed
  BY StartServes DEF StartIsServed
<1> QED
  BY <1>1, <1>2, <1>3, PTL DEF SessionsSpec

(* ---------------- the watcher of foreign turns (ForeignWatch) ---------------- *)
LogLines == [owner : {"foreign", "usher"}, type : {"text", "end"}]

WatchPlaces == [pc : {"idle", "check", "last", "commit", "publish", "relay"}, size : Nat, base : Int]

WatchType ==
    /\ slog \in Seq(LogLines)
    /\ base \in Int /\ base >= -1 /\ base <= Len(slog)
    /\ collected \in SUBSET Nat /\ accounted \in SUBSET Nat /\ relayed \in Seq(Nat)
    /\ watch \in WatchPlaces

\* Where the watcher's goroutine is: between its locks it keeps the size of its poll and
\* the baseline it saw; from the commit on, the lines it has yet to relay.
WatchPlace ==
    /\ watch.pc # "idle" => watch.size \in 1..Len(slog)
    /\ watch.pc \in {"last", "commit", "publish", "relay"} => watch.base \in 0..(watch.size - 1)
    /\ watch.pc \in {"publish", "relay"} => watch.size <= base

Relaying == watch.pc \in {"publish", "relay"}
IsRelayed(n) == \E i \in 1..Len(relayed) : relayed[i] = n

\* What was relayed or accounted for lies below the baseline; a collector is ahead of it
\* only while its send runs.
BelowBase ==
    /\ \A n \in accounted : n \in 1..base
    /\ \A n \in collected : n \in 1..Len(slog) /\ (send # "running" => n <= base)
    /\ \A n \in Nat : IsRelayed(n) => n \in 1..base /\ (Relaying => n <= watch.base)

InOrder == \A i, j \in 1..Len(relayed) : i < j => relayed[i] < relayed[j]

\* Neither a relayed line nor one that is next is anyone else's.
NobodyElses == \A n \in Nat : IsRelayed(n) \/ n \in Watcher!InFlight => n \notin collected \cup accounted

AllTold == \A n \in 1..base : slog[n].type = "text" =>
               IsRelayed(n) \/ n \in accounted \/ n \in Watcher!InFlight

WatchInv == WatchType /\ WatchPlace /\ BelowBase /\ InOrder /\ NobodyElses /\ AllTold

\* The log is empty and no watch runs.
LEMMA WatchStarts == Watcher!Init => WatchInv
BY DEF Watcher!Init, Watcher!Resting, WatchInv, WatchType, WatchPlaces, WatchPlace, BelowBase, InOrder, NobodyElses,
       AllTold, IsRelayed, Relaying, Watcher!InFlight

\* What was relayed, as the elements of the sequence.
LEMMA RelayedAre == ASSUME WatchType, NEW n PROVE n \in Watcher!ToSet(relayed) <=> IsRelayed(n)
BY DEF WatchType, IsRelayed, Watcher!ToSet

\* The property follows from the invariant.
LEMMA WatchHolds == WatchInv => Watcher!RelayedOnce
<1> SUFFICES ASSUME WatchInv PROVE Watcher!RelayedOnce
  OBVIOUS
<1>1. \A n \in Watcher!ToSet(relayed) : n \in Nat
  BY DEF WatchInv, WatchType, Watcher!ToSet
<1>2. Watcher!ToSet(relayed) \cap (collected \cup accounted) = {}
  BY <1>1, RelayedAre DEF WatchInv, NobodyElses
<1>3. \A n \in 1..base : slog[n].type = "text" =>
         n \in Watcher!ToSet(relayed) \cup accounted \cup Watcher!InFlight
  BY RelayedAre DEF WatchInv, AllTold
<1> QED
  BY <1>2, <1>3 DEF WatchInv, InOrder, Watcher!RelayedOnce

\* What was relayed or is about to be is not beyond the baseline.
LEMMA AtMostBase ==
  ASSUME WatchInv, NEW n \in Nat, IsRelayed(n) \/ n \in Watcher!InFlight PROVE n <= base
<1> USE DEF WatchInv, WatchType
<1>1. CASE IsRelayed(n)
  BY <1>1 DEF BelowBase
<1>2. CASE n \in Watcher!InFlight
  BY <1>2 DEF WatchPlace, Watcher!InFlight, Watcher!Region
<1> QED
  BY <1>1, <1>2

\* A line of the agent changes nothing below the baseline.
LEMMA WatchLine ==
  ASSUME WatchInv, NEW owner \in {"foreign", "usher"}, NEW type \in {"text", "end"},
         Watcher!Append1(owner, type)
  PROVE  WatchInv'
<1> USE DEF WatchInv
<1>1. slog' = Append(slog, [owner |-> owner, type |-> type]) /\ [owner |-> owner, type |-> type] \in LogLines
  BY DEF Watcher!Append1, LogLines
<1>2. slog' \in Seq(LogLines) /\ Len(slog') = Len(slog) + 1 /\ \A n \in 1..Len(slog) : slog'[n] = slog[n]
  BY <1>1 DEF WatchType
<1>3. UNCHANGED <<send, base, watch, accounted, relayed>>
  BY DEF Watcher!Append1
<1>4. /\ collected \subseteq collected' /\ collected' \subseteq collected \cup {Len(slog) + 1}
      /\ send # "running" => collected' = collected
  BY DEF Watcher!Append1
<1>5. Watcher!InFlight' = Watcher!InFlight /\ Relaying' = Relaying /\ \A n : IsRelayed(n)' = IsRelayed(n)
  BY <1>3 DEF Watcher!Region, Watcher!InFlight, IsRelayed, Relaying
<1>6. \A n \in Nat : IsRelayed(n) \/ n \in Watcher!InFlight => n # Len(slog) + 1
  BY AtMostBase DEF WatchType
<1>7. WatchType'
  BY <1>2, <1>3, <1>4 DEF WatchType
<1>8. WatchPlace'
  BY <1>2, <1>3 DEF WatchType, WatchPlace
<1>9. BelowBase'
  <2>1. \A n \in accounted' : n \in 1..base'
    BY <1>3 DEF BelowBase
  <2>2. \A n \in collected' : n \in 1..Len(slog') /\ (send' # "running" => n <= base')
    <3> TAKE n \in collected'
    <3>1. CASE n \in collected
      BY <3>1, <1>2, <1>3 DEF WatchType, BelowBase
    <3>2. CASE n \notin collected
      BY <3>2, <1>2, <1>3, <1>4 DEF WatchType
    <3> QED
      BY <3>1, <3>2
  <2>3. \A n \in Nat : IsRelayed(n)' => n \in 1..base' /\ (Relaying' => n <= watch'.base)
    BY <1>3, <1>5 DEF BelowBase
  <2> QED
    BY <2>1, <2>2, <2>3 DEF BelowBase
<1>10. NobodyElses' /\ InOrder'
  BY <1>3, <1>4, <1>5, <1>6 DEF NobodyElses, InOrder
<1>11. AllTold'
  <2>1. \A n \in 1..base : n \in 1..Len(slog)
    BY DEF WatchType
  <2> QED
    BY <2>1, <1>2, <1>3, <1>5 DEF AllTold
<1> QED
  BY <1>7, <1>8, <1>9, <1>10, <1>11

\* A send that ends, or is released, accounts for the growth up to the end of the log.
LEMMA WatchBump ==
  ASSUME WatchInv, Watcher!bumpForeignBase, UNCHANGED <<slog, watch, collected, relayed>>
  PROVE  WatchInv'
<1> USE DEF WatchInv
<1>1. base' = Len(slog) /\ Len(slog) \in Nat
  BY DEF Watcher!bumpForeignBase, WatchType
<1>2. accounted' = accounted \cup ((IF base < 0 THEN 1 ELSE base + 1)..Len(slog))
  BY DEF Watcher!bumpForeignBase
<1>3. accounted' \in SUBSET Nat /\ \A n \in accounted' : n \in 1..base' /\ (n \in accounted \/ n > base)
  <2>1. base \in Int /\ base >= -1 /\ base <= Len(slog) /\ \A n \in accounted : n \in 1..base
    BY DEF WatchType, BelowBase
  <2>2. \A n \in accounted' : n \in accounted \/ n \in (IF base < 0 THEN 1 ELSE base + 1)..Len(slog)
    BY <1>2
  <2>3. \A n \in accounted' : n \in 1..Len(slog) /\ (n \in accounted \/ n > base)
    BY <1>1, <2>1, <2>2
  <2> QED
    BY <1>1, <2>3
<1>4. \A n \in 1..Len(slog) : n \in accounted' \/ n <= base
  BY <1>1, <1>2 DEF WatchType
<1>5. Watcher!InFlight' = Watcher!InFlight /\ Relaying' = Relaying /\ \A n : IsRelayed(n)' = IsRelayed(n)
  BY DEF Watcher!Region, Watcher!InFlight, IsRelayed, Relaying
<1>6. \A n \in Nat : IsRelayed(n) \/ n \in Watcher!InFlight => n <= base
  BY AtMostBase
<1>7. WatchType' /\ WatchPlace' /\ InOrder'
  BY <1>1, <1>3 DEF WatchType, WatchPlace, InOrder
<1>8. BelowBase'
  BY <1>1, <1>3, <1>5 DEF WatchType, BelowBase
<1>9. NobodyElses'
  BY <1>1, <1>3, <1>5, <1>6 DEF WatchType, NobodyElses
<1>10. AllTold'
  BY <1>1, <1>2, <1>4, <1>5 DEF WatchType, AllTold
<1> QED
  BY <1>7, <1>8, <1>9, <1>10

\* A step of the watcher that only moves its own place.
LEMMA WatchMoves ==
  ASSUME WatchInv, UNCHANGED <<slog, send, base, collected, accounted, relayed>>,
         WatchType', WatchPlace', Watcher!InFlight' = Watcher!InFlight,
         Relaying' => Relaying /\ watch'.base = watch.base
  PROVE  WatchInv'
<1> USE DEF WatchInv
<1>1. \A n : IsRelayed(n)' = IsRelayed(n)
  BY DEF IsRelayed
<1>2. BelowBase'
  BY <1>1 DEF BelowBase
<1>3. InOrder' /\ NobodyElses'
  BY <1>1 DEF InOrder, NobodyElses
<1>4. AllTold'
  BY <1>1 DEF AllTold
<1> QED
  BY <1>2, <1>3, <1>4

\* The next line of the region is given to the handler, when it is a reply.
LEMMA WatchRelay == ASSUME WatchInv, Watcher!Relay PROVE WatchInv'
<1> USE DEF WatchInv
<1> DEFINE n == watch.base + 1
<1>1. UNCHANGED <<slog, send, base, collected, accounted>> /\ watch.pc = "relay" /\ Relaying
  BY DEF Watcher!Relay, Relaying
<1>2. relayed' = IF slog[n].type = "text" THEN Append(relayed, n) ELSE relayed
  BY DEF Watcher!Relay
<1>3. watch' = IF n = watch.size THEN Watcher!Resting ELSE [watch EXCEPT !.base = n]
  BY DEF Watcher!Relay
<1>4. n \in 1..watch.size /\ watch.size \in 1..Len(slog) /\ watch.size <= base /\ n \in Nat
  BY <1>1 DEF WatchPlace, WatchType, WatchPlaces
<1> HIDE DEF n
<1>5. relayed' \in Seq(Nat) /\ \A m \in Nat : IsRelayed(m)' <=> IsRelayed(m) \/ (m = n /\ slog[n].type = "text")
  <2>1. CASE slog[n].type = "text"
    BY <1>2, <1>4, <2>1 DEF WatchType, IsRelayed
  <2>2. CASE slog[n].type # "text"
    BY <1>2, <2>2 DEF WatchType, IsRelayed
  <2> QED
    BY <2>1, <2>2
<1>6. WatchType' /\ WatchPlace' /\ (Relaying' => watch'.base = n)
  <2>1. CASE n = watch.size
    <3>1. watch' = Watcher!Resting
      BY <1>3, <2>1
    <3>2. watch'.pc = "idle" /\ watch' \in WatchPlaces
      BY <3>1 DEF Watcher!Resting, WatchPlaces
    <3> QED
      BY <1>1, <1>5, <3>2 DEF WatchType, WatchPlace, Relaying
  <2>2. CASE n # watch.size
    <3>1. watch' = [watch EXCEPT !.base = n]
      BY <1>3, <2>2
    <3>2. watch' \in WatchPlaces /\ watch'.pc = "relay" /\ watch'.size = watch.size /\ watch'.base = n
      BY <1>1, <1>4, <3>1 DEF WatchType, WatchPlaces
    <3> QED
      BY <1>1, <1>4, <1>5, <2>2, <3>2 DEF WatchType, WatchPlace, Relaying
  <2> QED
    BY <2>1, <2>2
<1>7. Watcher!InFlight = n..watch.size /\ Watcher!InFlight' = (n + 1)..watch.size
  BY <1>1, <1>3, <1>4 DEF Watcher!InFlight, Watcher!Region, WatchType, WatchPlaces, Watcher!Resting, n
<1>8. \A m \in Nat : IsRelayed(m) => m < n
  BY <1>1, <1>4 DEF BelowBase, WatchType, WatchPlaces, n
<1>9. BelowBase'
  <2>1. \A m \in Nat : IsRelayed(m)' => m \in 1..base /\ m <= n
    BY <1>1, <1>4, <1>5, <1>8 DEF BelowBase, WatchType
  <2> QED
    BY <1>1, <1>6, <2>1 DEF BelowBase
<1>10. InOrder'
  <2>1. CASE slog[n].type = "text"
    <3>1. \A i \in 1..Len(relayed) : relayed[i] < n
      BY <1>8 DEF WatchType, IsRelayed
    <3> QED
      BY <1>2, <1>4, <2>1, <3>1 DEF WatchType, InOrder
  <2>2. CASE slog[n].type # "text"
    BY <1>2, <2>2 DEF InOrder
  <2> QED
    BY <2>1, <2>2
<1>11. NobodyElses'
  BY <1>1, <1>4, <1>5, <1>7 DEF NobodyElses
<1>12. AllTold'
  <2> SUFFICES ASSUME NEW m \in 1..base, slog[m].type = "text"
               PROVE  IsRelayed(m)' \/ m \in accounted \/ m \in Watcher!InFlight'
    BY <1>1 DEF AllTold
  <2>1. m \in Nat
    BY DEF WatchType
  <2>2. IsRelayed(m) \/ m \in accounted \/ m \in n..watch.size
    BY <1>7 DEF AllTold
  <2> QED
    BY <1>4, <1>5, <1>7, <2>1, <2>2
<1> QED
  BY <1>6, <1>9, <1>10, <1>11, <1>12

\* Each step of the log, of the sends and of the watcher keeps the invariant.
LEMMA WatchKept == WatchInv /\ [Watcher!Next]_watchVars => WatchInv'
<1> SUFFICES ASSUME WatchInv, [Watcher!Next]_watchVars PROVE WatchInv'
  OBVIOUS
<1> USE DEF WatchInv
<1> DEFINE Same == UNCHANGED <<slog, collected, relayed, accounted, base, watch>>
<1>1. ASSUME Same, send' = "running" \/ send # "running" PROVE WatchInv'
  <2>1. WatchType' /\ WatchPlace' /\ InOrder'
    BY <1>1 DEF WatchType, WatchPlace, InOrder
  <2>2. Watcher!InFlight' = Watcher!InFlight /\ Relaying' = Relaying /\ \A n : IsRelayed(n)' = IsRelayed(n)
    BY <1>1 DEF Watcher!Region, Watcher!InFlight, IsRelayed, Relaying
  <2> QED
    BY <1>1, <2>1, <2>2 DEF BelowBase, NobodyElses, AllTold
<1>2. CASE UNCHANGED watchVars
  BY <1>1, <1>2 DEF watchVars
<1>3. ASSUME NEW type \in {"text", "end"}, Watcher!ForeignLine(type) \/ Watcher!OwnLine(type)
      PROVE  WatchInv'
  BY <1>3, WatchLine DEF Watcher!ForeignLine, Watcher!OwnLine
<1>4. CASE Watcher!Claim \/ Watcher!Subscribe
  BY <1>1, <1>4 DEF Watcher!Claim, Watcher!Subscribe
<1>5. CASE Watcher!Release
  BY <1>5, WatchBump DEF Watcher!Release
<1>6. ASSUME NEW c \in BOOLEAN, Watcher!Exit(c) PROVE WatchInv'
  BY <1>6, WatchBump DEF Watcher!Exit
<1>7. CASE Watcher!Stat
  <2>1. UNCHANGED <<slog, send, base, collected, accounted, relayed>> /\ ~Relaying
    BY <1>7 DEF Watcher!Stat, Relaying
  <2>2. Len(slog) > 0 /\ watch' = [pc |-> "check", size |-> Len(slog), base |-> 0]
    BY <1>7 DEF Watcher!Stat
  <2>3. watch' \in WatchPlaces /\ watch'.pc = "check" /\ watch'.size = Len(slog)
    BY <2>2 DEF WatchType, WatchPlaces
  <2>4. WatchType' /\ WatchPlace' /\ ~Relaying'
    BY <2>1, <2>2, <2>3 DEF WatchType, WatchPlace, Relaying
  <2> QED
    BY <2>1, <2>4, WatchMoves DEF Watcher!InFlight, Relaying
<1>8. CASE Watcher!Check
  <2>1. UNCHANGED <<slog, send, collected, relayed>> /\ watch.pc = "check" /\ ~Relaying
    BY <1>8 DEF Watcher!Check, Relaying
  <2>2. watch' = IF base < 0 \/ Watcher!Busy \/ watch.size <= base THEN Watcher!Resting
                 ELSE [pc |-> "last", size |-> watch.size, base |-> base]
    BY <1>8 DEF Watcher!Check
  <2>3. /\ watch' \in WatchPlaces
        /\ \/ watch'.pc = "idle"
           \/ watch'.pc = "last" /\ watch'.size = watch.size /\ watch'.base = base /\ base \in 0..(watch.size - 1)
    <3>1. CASE base < 0 \/ Watcher!Busy \/ watch.size <= base
      BY <2>2, <3>1 DEF Watcher!Resting, WatchPlaces
    <3>2. CASE ~(base < 0 \/ Watcher!Busy \/ watch.size <= base)
      <4>1. watch' = [pc |-> "last", size |-> watch.size, base |-> base]
        BY <2>2, <3>2
      <4> QED
        BY <3>2, <4>1 DEF WatchType, WatchPlaces
    <3> QED
      BY <3>1, <3>2
  <2>4. ~Relaying'
    BY <2>3 DEF Relaying
  <2>5. CASE base >= 0
    <3>1. UNCHANGED <<base, accounted>>
      BY <1>8, <2>5 DEF Watcher!Check, WatchType
    <3>2. WatchType' /\ WatchPlace'
      BY <2>1, <2>3, <3>1 DEF WatchType, WatchPlace
    <3> QED
      BY <2>1, <2>4, <3>1, <3>2, WatchMoves DEF Watcher!InFlight, Relaying
  <2>6. CASE base = -1
    <3>1. base' = watch.size /\ accounted' = accounted \cup (1..watch.size) /\ watch' = Watcher!Resting
      BY <1>8, <2>6 DEF Watcher!Check
    <3>2. watch.size \in 1..Len(slog)
      BY <2>1 DEF WatchPlace
    <3>3. accounted' = 1..watch.size
      BY <2>6, <3>1 DEF BelowBase
    <3>4. WatchType' /\ WatchPlace'
      <4>1. watch'.pc = "idle"
        BY <3>1 DEF Watcher!Resting
      <4> QED
        BY <2>1, <2>3, <3>1, <3>2, <3>3, <4>1 DEF WatchType, WatchPlace
    <3>5. \A n \in Nat : ~IsRelayed(n) /\ ~IsRelayed(n)'
      BY <2>1, <2>6 DEF BelowBase, IsRelayed
    <3>6. BelowBase'
      BY <2>1, <2>6, <3>1, <3>2, <3>3, <3>5 DEF BelowBase, WatchType
    <3>7. NobodyElses' /\ AllTold' /\ InOrder'
      BY <2>1, <2>4, <3>1, <3>3, <3>5 DEF InOrder, NobodyElses, AllTold, Watcher!InFlight, Relaying
    <3> QED
      BY <3>4, <3>6, <3>7
  <2> QED
    BY <2>5, <2>6 DEF WatchType
<1>9. CASE Watcher!LastLine
  <2>1. UNCHANGED <<slog, send, base, collected, accounted, relayed>> /\ ~Relaying
    BY <1>9 DEF Watcher!LastLine, Relaying
  <2>2. watch.pc = "last" /\ watch' \in {Watcher!Resting, [watch EXCEPT !.pc = "commit"]}
    BY <1>9 DEF Watcher!LastLine
  <2>3. WatchType' /\ WatchPlace' /\ ~Relaying'
    BY <2>1, <2>2 DEF WatchType, WatchPlaces, WatchPlace, Relaying, Watcher!Resting
  <2> QED
    BY <2>1, <2>3, WatchMoves DEF Watcher!InFlight, Relaying
<1>10. CASE Watcher!Commit
  <2>1. UNCHANGED <<slog, send, collected, accounted, relayed>> /\ watch.pc = "commit" /\ ~Relaying
    BY <1>10 DEF Watcher!Commit, Relaying
  <2>2. CASE ~Watcher!StillForeign
    <3>1. base' = base /\ watch' = Watcher!Resting
      BY <1>10, <2>2 DEF Watcher!Commit
    <3>2. WatchType' /\ WatchPlace' /\ ~Relaying'
      BY <2>1, <3>1 DEF WatchType, WatchPlaces, WatchPlace, Relaying, Watcher!Resting
    <3> QED
      BY <2>1, <3>1, <3>2, WatchMoves DEF Watcher!InFlight, Relaying
  <2>3. CASE Watcher!StillForeign
    <3>1. base = watch.base /\ send # "running"
      BY <2>3 DEF Watcher!StillForeign, Watcher!Busy
    <3>2. base' = watch.size /\ watch' = [watch EXCEPT !.pc = "publish"]
      BY <1>10, <2>3 DEF Watcher!Commit
    <3>3. watch.size \in 1..Len(slog) /\ watch.base \in 0..(watch.size - 1)
      BY <2>1 DEF WatchPlace
    <3>4. WatchType' /\ WatchPlace' /\ Relaying'
      <4>1. watch' \in WatchPlaces /\ watch'.pc = "publish" /\ watch'.size = watch.size /\ watch'.base = watch.base
        BY <3>2 DEF WatchType, WatchPlaces
      <4> QED
        BY <2>1, <3>2, <3>3, <4>1 DEF WatchType, WatchPlace, Relaying
    <3>5. Watcher!InFlight = {} /\ Watcher!InFlight' = (base + 1)..watch.size
      BY <2>1, <3>1, <3>2 DEF Watcher!InFlight, Watcher!Region, WatchType, WatchPlaces
    <3>6. \A n : IsRelayed(n)' = IsRelayed(n)
      BY <2>1 DEF IsRelayed
    <3>7. watch'.base = base
      BY <3>1, <3>2 DEF WatchType, WatchPlaces
    <3>8. BelowBase'
      BY <2>1, <3>1, <3>2, <3>3, <3>6, <3>7 DEF BelowBase, WatchType
    <3>9. NobodyElses'
      <4>1. \A n \in collected \cup accounted : n <= base
        BY <3>1 DEF BelowBase
      <4> QED
        BY <2>1, <3>1, <3>3, <3>5, <3>6, <4>1 DEF NobodyElses
    <3>10. AllTold' /\ InOrder'
      BY <2>1, <3>1, <3>2, <3>3, <3>5, <3>6 DEF AllTold, InOrder, WatchType
    <3> QED
      BY <3>4, <3>8, <3>9, <3>10
  <2> QED
    BY <2>2, <2>3
<1>11. CASE Watcher!Publish
  <2>1. UNCHANGED <<slog, send, base, collected, accounted, relayed>>
    BY <1>11 DEF Watcher!Publish
  <2>2. watch.pc = "publish" /\ watch' = [watch EXCEPT !.pc = "relay"]
    BY <1>11 DEF Watcher!Publish
  <2>3. WatchType' /\ WatchPlace' /\ Relaying /\ watch'.base = watch.base /\ watch'.size = watch.size /\ watch'.pc = "relay"
    BY <2>1, <2>2 DEF WatchType, WatchPlaces, WatchPlace, Relaying
  <2> QED
    BY <2>1, <2>2, <2>3, WatchMoves DEF Watcher!InFlight, Watcher!Region, Relaying
<1>12. CASE Watcher!Relay
  BY <1>12, WatchRelay
<1> QED
  BY <1>2, <1>3, <1>4, <1>5, <1>6, <1>7, <1>8, <1>9, <1>10, <1>11, <1>12 DEF Watcher!Next, Watcher!Watcher

\* A step of another part is a stutter of the watcher.
LEMMA WatchSteps == SessionsNext => [Watcher!Next]_watchVars
BY DEF SessionsNext, PiStep, AgentStep, CacheStep, WatchStep, StartStep, MetaStep

\* A reply of a turn usher did not start reaches the main chat once, in the order of the
\* log, and none is lost.
THEOREM ForeignRepliesAreRelayedOnce == SessionsSpec => []RelayedOnce
<1>1. SessionsInit => WatchInv
  BY WatchStarts DEF SessionsInit
<1>2. WatchInv /\ [SessionsNext]_sessionsVars => WatchInv'
  BY WatchKept, WatchSteps DEF sessionsVars
<1>3. WatchInv => RelayedOnce
  BY WatchHolds DEF RelayedOnce
<1> QED
  BY <1>1, <1>2, <1>3, PTL DEF SessionsSpec

(* ---------------- the ACP runtimes (Acp) ---------------- *)
Kid == [state : {"none", "alive", "killed", "gone"}, ctx : Int, in : BOOLEAN, busy : BOOLEAN,
        end : {"none", "released", "cancelled", "crash", "evicted", "failed", "killed"}]

AgentTurn == [pc : {"idle", "look", "spawn", "attach", "found", "turn", "exit", "closed"}, n : Int,
              kid : Agent!Kids \cup {0}, cancelled : BOOLEAN, result : {"none", "ok", "error"},
              updates : Seq({"text", "tool", "progress"}), out : Seq({"shown", "error", "exit"}),
              told : BOOLEAN, dropped : BOOLEAN]

AgentType ==
    /\ turn \in AgentTurn /\ kids \in [Agent!Kids -> Kid] /\ acpWorker \in Agent!Kids \cup {0}
    /\ ask \in Agent!Kids \cup {0}

\* The turn has the process it is about, and no worker while it looks for one.
TurnHasKid ==
    /\ turn.pc \in {"found", "attach", "turn", "exit"} => turn.kid \in Agent!Kids
    /\ turn.pc \in {"spawn", "attach"} => acpWorker = 0

\* What is evicted has its pipe closed, and is not the process of a prompt.
EvictedIsClosed ==
    /\ \A k \in Agent!Kids : kids[k].in => kids[k].end # "evicted"
    /\ Agent!Prompted => kids[turn.kid].end # "evicted"

BusyIsTurn == \A k \in Agent!Kids : kids[k].busy <=> turn.pc \in {"turn", "exit"} /\ k = turn.kid

ClosedIsTold ==
    turn.pc = "closed" =>
      turn.told \/ turn.cancelled \/ turn.dropped \/ \E i \in 1..Len(turn.out) : turn.out[i] # "shown"

\* No worker was used before itself, so the least recently used of one is that one.
OlderIsStrict == \A w : <<w, w>> \notin older

AgentInv == /\ AgentType /\ TurnHasKid /\ Agent!NoneLeft /\ EvictedIsClosed /\ BusyIsTurn
            /\ ClosedIsTold /\ OlderIsStrict /\ ~misled

\* 0 stands for no child.
LEMMA NoKidIsZero == 0 \notin Agent!Kids
BY SessionsAssumption DEF Agent!Kids

\* There is no child and no turn.
LEMMA AgentStarts == Agent!Init => AgentInv
BY DEF Agent!Init, Agent!NoTurn, Agent!NoKid, Agent!Kids, AgentInv, AgentType, AgentTurn, Kid, TurnHasKid,
       Agent!NoneLeft, EvictedIsClosed, BusyIsTurn, ClosedIsTold, OlderIsStrict, Agent!Prompted

\* The properties of the runtime follow from the invariant.
LEMMA AgentHolds == AgentInv => /\ Agent!NoneLeft /\ Agent!EvictionSpares
                                /\ Agent!EndIsTold /\ Agent!DecisionStands
<1> SUFFICES ASSUME AgentInv
             PROVE /\ Agent!NoneLeft /\ Agent!EvictionSpares
                                /\ Agent!EndIsTold /\ Agent!DecisionStands
  OBVIOUS
<1>1. turn.pc = "closed" /\ turn.out = <<>> => turn.told \/ turn.cancelled \/ turn.dropped
  BY DEF AgentInv, ClosedIsTold
<1>2. Agent!Has => turn.pc \in {"turn", "exit"}
  BY DEF AgentInv, Agent!Has, AgentType, BusyIsTurn
<1> QED
  BY <1>1, <1>2 DEF AgentInv, Agent!EvictionSpares, Agent!EndIsTold, Agent!DecisionStands, EvictedIsClosed

\* A use of a worker makes it the youngest: the order by use stays strict.
LEMMA UsedIsStrict == ASSUME OlderIsStrict, NEW w, Agent!Used(w) PROVE OlderIsStrict'
BY DEF OlderIsStrict, Agent!Used

\* A close takes a child out of the pool and says why; it does not stop it yet.
LEMMA AgentClose ==
  ASSUME AgentType, NEW k \in Agent!Kids \cup {0}, NEW why \in {"evicted", "failed", "killed"},
         Agent!Close(k, why)
  PROVE  /\ kids' \in [Agent!Kids -> Kid]
         /\ \A j \in Agent!Kids : /\ kids'[j].state = kids[j].state /\ kids'[j].busy = kids[j].busy
                                  /\ j # k => kids'[j] = kids[j]
                                  /\ j = k => ~kids'[j].in /\ kids'[j].end = why
BY ZenonT(30) DEF AgentType, Agent!Close, Kid

\* The end of a turn's context kills the children that were spawned under it.
LEMMA AgentCtxEnds ==
  ASSUME AgentType, NEW why \in {"released", "cancelled"}, Agent!CtxEnds(why)
  PROVE  /\ kids' \in [Agent!Kids -> Kid]
         /\ \A j \in Agent!Kids : /\ kids'[j].state = "alive" => kids[j].state = "alive"
                                  /\ kids'[j].busy = kids[j].busy /\ kids'[j].in = kids[j].in
                                  /\ kids'[j].end = "evicted" => kids[j].end = "evicted"
<1> DEFINE hit(j) == kids[j].ctx = turn.n /\ kids[j].state = "alive"
           end(j) == IF kids[j].end = "none" THEN why ELSE kids[j].end
           killed(j) == [kids[j] EXCEPT !.state = "killed", !.end = end(j)]
<1>1. kids' = [j \in Agent!Kids |-> IF hit(j) THEN killed(j) ELSE kids[j]]
  BY DEF Agent!CtxEnds
<1>2. ASSUME NEW j \in Agent!Kids
      PROVE  /\ killed(j) \in Kid /\ killed(j).state = "killed" /\ killed(j).end \in {why, kids[j].end}
             /\ killed(j).busy = kids[j].busy /\ killed(j).in = kids[j].in
  <2>1. kids[j] \in Kid /\ end(j) \in {"released", "cancelled", "crash", "evicted", "failed", "killed"}
    BY DEF AgentType, Kid
  <2> HIDE DEF end
  <2>2. killed(j) \in Kid /\ killed(j).state = "killed" /\ killed(j).end = end(j)
        /\ killed(j).busy = kids[j].busy /\ killed(j).in = kids[j].in
    BY <2>1 DEF Kid
  <2> QED
    BY <2>2 DEF end
<1> HIDE DEF hit, killed
<1>3. kids' \in [Agent!Kids -> Kid]
  BY <1>1, <1>2 DEF AgentType
<1>4. \A j \in Agent!Kids : kids'[j] = kids[j] \/ kids'[j] = killed(j)
  BY <1>1
<1> QED
  BY <1>2, <1>3, <1>4

\* A step that changes neither the processes nor the place of the turn.
LEMMA AgentSame ==
  ASSUME AgentInv, UNCHANGED <<kids, acpWorker, older>>, ~misled', AgentType', turn'.pc = turn.pc, turn'.kid = turn.kid,
         turn'.result = "none" => turn.result = "none", ClosedIsTold'
  PROVE  AgentInv'
BY DEF AgentInv, TurnHasKid, Agent!NoneLeft, EvictedIsClosed, BusyIsTurn, OlderIsStrict, Agent!Prompted

\* A cap that takes a worker while this session's is in a turn takes the other one's.
LEMMA BusyIsSpared ==
  ASSUME AgentInv, other # "busy", acpWorker # 0, kids[acpWorker].busy,
         Agent!evictIdle(Agent!Live(acpWorker, "idle")) # {}
  PROVE  0 \in Agent!evictIdle(Agent!Live(acpWorker, "idle"))
<1> DEFINE live == Agent!Live(acpWorker, "idle")
           idle == {v \in live : ~Agent!Busy(v)}
           oldest(w) == \A v \in idle : ~Agent!Older(v, w)
<1>1. live = {acpWorker, 0}
  BY DEF Agent!Live
<1>2. idle = {0}
  BY <1>1 DEF Agent!Busy
<1>3. Agent!evictIdle(live) = {CHOOSE w \in idle : oldest(w)}
  BY DEF Agent!evictIdle
<1>4. oldest(0)
  BY <1>2 DEF AgentInv, OlderIsStrict, Agent!Older
<1> HIDE DEF live, oldest
<1>5. (CHOOSE w \in idle : oldest(w)) \in idle
  BY <1>2, <1>4
<1>6. 0 \in Agent!evictIdle(live)
  BY <1>2, <1>3, <1>5
<1> QED
  BY <1>6 DEF live

\* The error of a turn goes to its stream, or is dropped.
LEMMA EmitErrs ==
  ASSUME turn \in AgentTurn
  PROVE  /\ Agent!emitErr \in AgentTurn /\ Agent!emitErr.kid = turn.kid /\ Agent!emitErr.pc = turn.pc
         /\ Agent!emitErr.dropped \/ \E i \in 1..Len(Agent!emitErr.out) : Agent!emitErr.out[i] # "shown"
<1>1. CASE Agent!Room
  <2>1. Agent!emitErr = [turn EXCEPT !.out = Append(@, "error")]
    BY <1>1 DEF Agent!emitErr
  <2>2. Append(turn.out, "error") \in Seq({"shown", "error", "exit"}) /\ Len(Append(turn.out, "error")) = Len(turn.out) + 1
        /\ Append(turn.out, "error")[Len(turn.out) + 1] = "error" /\ Len(turn.out) \in Nat
    BY DEF AgentTurn
  <2>3. Agent!emitErr \in AgentTurn /\ Agent!emitErr.kid = turn.kid /\ Agent!emitErr.pc = turn.pc
        /\ Agent!emitErr.out = Append(turn.out, "error")
    BY <2>1, <2>2 DEF AgentTurn
  <2> QED
    BY <2>2, <2>3
<1>2. CASE ~Agent!Room
  BY <1>2 DEF Agent!emitErr, AgentTurn
<1> QED
  BY <1>1, <1>2

\* Each step of the runtime, of its turn and of its children keeps the invariant.
LEMMA AgentKept == AgentInv /\ [Agent!Next]_agentVars => AgentInv'
<1> SUFFICES ASSUME AgentInv, [Agent!Next]_agentVars PROVE AgentInv'
  OBVIOUS
<1>1. CASE UNCHANGED agentVars
  BY <1>1 DEF agentVars, AgentInv, AgentType, TurnHasKid, Agent!NoneLeft, EvictedIsClosed, BusyIsTurn,
              ClosedIsTold, OlderIsStrict, Agent!Prompted
<1>2. ASSUME NEW k \in Agent!Kids, Agent!Reap(k) \/ Agent!Crash(k) PROVE AgentInv'
  <2>1. /\ kids' \in [Agent!Kids -> Kid]
        /\ \A j \in Agent!Kids : /\ j # k => kids'[j] = kids[j]
                                 /\ kids'[j].busy = kids[j].busy
                                 /\ j = k => /\ kids'[j].state = "gone" /\ ~kids'[j].in
                                             /\ kids'[j].end \in {kids[j].end, "crash"}
    BY <1>2 DEF Agent!Reap, Agent!Crash, AgentInv, AgentType, Kid
  <2>2. UNCHANGED <<turn, acpWorker, other, older, ask, misled>>
    BY <1>2 DEF Agent!Reap, Agent!Crash
  <2> QED
    BY <2>1, <2>2 DEF AgentInv, AgentType, TurnHasKid, Agent!NoneLeft, EvictedIsClosed, BusyIsTurn,
                      ClosedIsTold, OlderIsStrict, Agent!Prompted
<1>3. CASE Agent!Begin
  <2>1. /\ turn' \in AgentTurn /\ turn'.pc = "look" /\ turn.pc = "idle"
    <3>1. Agent!NoTurn \in AgentTurn /\ turn.n + 1 \in Int
      BY DEF Agent!NoTurn, AgentInv, AgentType, AgentTurn
    <3>2. turn' = [Agent!NoTurn EXCEPT !.pc = "look", !.n = turn.n + 1] /\ turn.pc = "idle"
      BY <1>3 DEF Agent!Begin
    <3> QED
      BY <3>1, <3>2 DEF AgentTurn
  <2>2. UNCHANGED <<kids, acpWorker, other, older, ask, misled>>
    BY <1>3 DEF Agent!Begin
  <2> QED
    BY <2>1, <2>2 DEF AgentInv, AgentType, TurnHasKid, Agent!NoneLeft, EvictedIsClosed, BusyIsTurn,
                      ClosedIsTold, OlderIsStrict, Agent!Prompted
<1>4. CASE Agent!workerFor
  <2>1. /\ turn' \in AgentTurn /\ turn.pc = "look"
        /\ \/ turn'.pc = "spawn" /\ acpWorker' = 0 /\ (acpWorker = 0 \/ kids[acpWorker].state = "gone")
           \/ turn'.pc = "found" /\ turn'.kid = acpWorker /\ acpWorker' = acpWorker /\ acpWorker # 0
    BY <1>4, ZenonT(30) DEF Agent!workerFor, Agent!Gone, AgentInv, AgentType, AgentTurn
  <2>2. UNCHANGED <<kids, other, older, ask, misled>>
    BY <1>4 DEF Agent!workerFor
  <2> QED
    BY <2>1, <2>2 DEF AgentInv, AgentType, TurnHasKid, Agent!NoneLeft, EvictedIsClosed, BusyIsTurn,
                      ClosedIsTold, OlderIsStrict, Agent!Prompted
<1>5. ASSUME NEW k \in Agent!Kids, Agent!spawnWorker(k) PROVE AgentInv'
  <2>1. turn' \in AgentTurn /\ turn.pc = "spawn" /\ turn'.pc = "attach" /\ turn'.kid = k
    BY <1>5 DEF Agent!spawnWorker, AgentInv, AgentType, AgentTurn
  <2>2. /\ kids' \in [Agent!Kids -> Kid] /\ ~kids[k].busy
        /\ \A j \in Agent!Kids : /\ j # k => kids'[j] = kids[j]
                                 /\ j = k => ~kids'[j].busy /\ kids'[j].end = "none"
    <3> DEFINE state == IF turn.cancelled THEN "killed" ELSE "alive"
               kid == [Agent!NoKid EXCEPT !.state = state, !.ctx = turn.n, !.in = TRUE]
    <3>1. Agent!NoKid \in Kid /\ turn.n \in Int /\ state \in {"killed", "alive"}
      BY DEF Agent!NoKid, Kid, AgentInv, AgentType, AgentTurn
    <3>2. kid \in Kid /\ ~kid.busy /\ kid.end = "none"
      BY <3>1 DEF Agent!NoKid, Kid
    <3>3. kids' = [kids EXCEPT ![k] = kid] /\ kids[k] = Agent!NoKid
      BY <1>5 DEF Agent!spawnWorker
    <3>4. ~kids[k].busy
      BY <3>3 DEF Agent!NoKid
    <3> QED
      BY <3>2, <3>3, <3>4 DEF AgentInv, AgentType
  <2>3. UNCHANGED <<acpWorker, other, ask, misled>> /\ Agent!Used(k)
    BY <1>5 DEF Agent!spawnWorker
  <2>4. OlderIsStrict'
    BY <2>3, UsedIsStrict DEF AgentInv
  <2> QED
    BY <2>1, <2>2, <2>3, <2>4 DEF AgentInv, AgentType, TurnHasKid, Agent!NoneLeft, EvictedIsClosed, BusyIsTurn,
                      ClosedIsTold, Agent!Prompted
<1>6. CASE Agent!SpawnFails
  <2>1. turn' \in AgentTurn /\ turn.pc = "spawn" /\ turn'.pc = "closed" /\ turn'.told
    BY <1>6 DEF Agent!SpawnFails, AgentInv, AgentType, AgentTurn
  <2>2. UNCHANGED <<kids, acpWorker, other, older, ask, misled>>
    BY <1>6 DEF Agent!SpawnFails
  <2> QED
    BY <2>1, <2>2 DEF AgentInv, AgentType, TurnHasKid, Agent!NoneLeft, EvictedIsClosed, BusyIsTurn,
                      ClosedIsTold, OlderIsStrict, Agent!Prompted
<1>7. CASE Agent!Attach
  <2> DEFINE evicted == Agent!evictIdle(Agent!Live(turn.kid, other))
  <2>1. turn' \in AgentTurn /\ turn.pc = "attach" /\ turn'.pc = "found" /\ turn'.kid = turn.kid /\ turn.kid \in Agent!Kids
    BY <1>7 DEF Agent!Attach, AgentInv, AgentType, AgentTurn, TurnHasKid
  <2>2. UNCHANGED <<older, ask, misled>>
    BY <1>7 DEF Agent!Attach
  <2>3. CASE turn.kid \in evicted
    <3>1. acpWorker' = 0 /\ Agent!Close(turn.kid, "evicted")
      BY <1>7, <2>3 DEF Agent!Attach
    <3> QED
      BY <2>1, <2>2, <3>1, AgentClose DEF AgentInv, AgentType, TurnHasKid, Agent!NoneLeft, EvictedIsClosed, BusyIsTurn,
                      ClosedIsTold, OlderIsStrict, Agent!Prompted
  <2>4. CASE turn.kid \notin evicted
    <3>1. acpWorker' = turn.kid /\ UNCHANGED kids
      BY <1>7, <2>4 DEF Agent!Attach
    <3> QED
      <4> USE <2>1, <2>2, <3>1 DEF AgentInv
      <4>1. AgentType' /\ TurnHasKid'
        BY DEF AgentType, TurnHasKid
      <4>2. Agent!NoneLeft'
        BY NoKidIsZero DEF TurnHasKid, Agent!NoneLeft
      <4>3. EvictedIsClosed' /\ BusyIsTurn'
        BY DEF EvictedIsClosed, BusyIsTurn, Agent!Prompted
      <4>4. ClosedIsTold' /\ OlderIsStrict'
        BY DEF ClosedIsTold, OlderIsStrict
      <4> QED
        BY <4>1, <4>2, <4>3, <4>4
  <2> QED
    BY <2>3, <2>4
<1>8. CASE Agent!AttachFails
  <2>1. turn' \in AgentTurn /\ turn.pc = "attach" /\ turn'.pc = "closed" /\ turn'.told /\ turn.kid \in Agent!Kids
    BY <1>8 DEF Agent!AttachFails, AgentInv, AgentType, AgentTurn, TurnHasKid
  <2>2. UNCHANGED <<acpWorker, older, ask, misled>> /\ Agent!Close(turn.kid, "failed")
    BY <1>8 DEF Agent!AttachFails
  <2> QED
    BY <2>1, <2>2, AgentClose DEF AgentInv, AgentType, TurnHasKid, Agent!NoneLeft, EvictedIsClosed, BusyIsTurn,
                      ClosedIsTold, OlderIsStrict, Agent!Prompted
<1>9. CASE Agent!OtherTurn
  <2> DEFINE evicted == IF other = "none" THEN Agent!evictIdle(Agent!Live(acpWorker, "idle")) ELSE {}
  <2>1. UNCHANGED <<turn, ask, misled>> /\ Agent!Used(0) /\ other # "busy" /\ 0 \notin evicted
    BY <1>9 DEF Agent!OtherTurn
  <2>2. OlderIsStrict'
    BY <2>1, UsedIsStrict DEF AgentInv
  <2>3. CASE evicted = {}
    <3>1. UNCHANGED <<acpWorker, kids>>
      BY <1>9, <2>3 DEF Agent!OtherTurn
    <3> QED
      BY <2>1, <2>2, <3>1 DEF AgentInv, AgentType, TurnHasKid, Agent!NoneLeft, EvictedIsClosed, BusyIsTurn,
                      ClosedIsTold, OlderIsStrict, Agent!Prompted
  <2>4. CASE evicted # {}
    <3>1. acpWorker' = 0 /\ Agent!Close(acpWorker, "evicted")
      BY <1>9, <2>4 DEF Agent!OtherTurn
    <3>2. acpWorker # 0 => ~kids[acpWorker].busy
      BY <2>1, <2>4, BusyIsSpared
    <3>3. acpWorker # 0 => acpWorker \in Agent!Kids
      BY DEF AgentInv, AgentType
    <3> QED
      <4>1. /\ kids' \in [Agent!Kids -> Kid]
            /\ \A j \in Agent!Kids : /\ kids'[j].state = kids[j].state /\ kids'[j].busy = kids[j].busy
                                     /\ j # acpWorker => kids'[j] = kids[j]
                                     /\ j = acpWorker => ~kids'[j].in /\ ~kids[j].busy
        BY <3>1, <3>2, <3>3, AgentClose, NoKidIsZero DEF AgentInv, AgentType
      <4> USE <2>1, <3>1, <4>1 DEF AgentInv
      <4>2. AgentType' /\ TurnHasKid' /\ BusyIsTurn'
        BY DEF AgentType, TurnHasKid, BusyIsTurn
      <4>3. Agent!NoneLeft'
        BY DEF Agent!NoneLeft
      <4>4. EvictedIsClosed'
        BY DEF EvictedIsClosed, BusyIsTurn, Agent!Prompted, TurnHasKid
      <4>5. ClosedIsTold'
        BY DEF ClosedIsTold
      <4> QED
        BY <2>2, <4>2, <4>3, <4>4, <4>5
  <2> QED
    BY <2>3, <2>4
<1>10. CASE Agent!OtherDone
  <2>1. UNCHANGED <<turn, kids, acpWorker, ask, misled>> /\ Agent!Used(0)
    BY <1>10 DEF Agent!OtherDone
  <2>2. OlderIsStrict'
    BY <2>1, UsedIsStrict DEF AgentInv
  <2> QED
    BY <2>1, <2>2 DEF AgentInv, AgentType, TurnHasKid, Agent!NoneLeft, EvictedIsClosed, BusyIsTurn,
                      ClosedIsTold, OlderIsStrict, Agent!Prompted
<1>11. ASSUME NEW fails \in BOOLEAN, Agent!runTurn(fails) PROVE AgentInv'
  <2>1. turn.pc = "found" /\ turn.kid \in Agent!Kids
    BY <1>11 DEF Agent!runTurn, AgentInv, TurnHasKid
  <2>2. turn' = [turn EXCEPT !.pc = "turn", !.result = IF fails THEN "error" ELSE "none"]
    BY <1>11 DEF Agent!runTurn
  <2>3. turn' \in AgentTurn /\ turn'.pc = "turn" /\ turn'.kid = turn.kid /\ (fails => turn'.result = "error")
    BY <2>2 DEF AgentInv, AgentType, AgentTurn
  <2>4. ~fails => kids[turn.kid].in
    BY <1>11 DEF Agent!runTurn, Agent!Writable
  <2>5. kids' = [kids EXCEPT ![turn.kid].busy = TRUE]
    BY <1>11 DEF Agent!runTurn
  <2>6. /\ kids' \in [Agent!Kids -> Kid]
        /\ \A j \in Agent!Kids : /\ kids'[j].state = kids[j].state /\ kids'[j].in = kids[j].in
                                 /\ kids'[j].end = kids[j].end
                                 /\ kids'[j].busy <=> kids[j].busy \/ j = turn.kid
    BY <2>1, <2>5, ZenonT(30) DEF AgentInv, AgentType, Kid
  <2>7. UNCHANGED <<acpWorker, older, ask, misled>>
    BY <1>11 DEF Agent!runTurn
  <2> QED
    BY <2>1, <2>3, <2>4, <2>6, <2>7 DEF AgentInv, AgentType, TurnHasKid, Agent!NoneLeft, EvictedIsClosed, BusyIsTurn,
                      ClosedIsTold, OlderIsStrict, Agent!Prompted
<1>12. ASSUME NEW kind \in {"text", "tool", "progress"}, Agent!ReadUpdate(kind) PROVE AgentInv'
  <2>1. turn' \in AgentTurn /\ turn'.pc = turn.pc /\ turn.pc = "turn" /\ turn'.kid = turn.kid /\ turn'.result = turn.result
    <3>1. turn' = [turn EXCEPT !.updates = Append(@, kind)] /\ turn.pc = "turn"
      BY <1>12 DEF Agent!ReadUpdate, Agent!Prompted
    <3>2. turn \in AgentTurn /\ Append(turn.updates, kind) \in Seq({"text", "tool", "progress"})
      BY DEF AgentInv, AgentType, AgentTurn
    <3> QED
      BY <3>1, <3>2 DEF AgentTurn
  <2> QED
    BY <1>12, <2>1, AgentSame DEF Agent!ReadUpdate, AgentInv, AgentType, ClosedIsTold
<1>13. CASE Agent!CallEnds \/ \E result \in {"ok", "error"} : Agent!ReadResponse(result)
  <2>1. turn' \in AgentTurn /\ turn'.pc = turn.pc /\ turn.pc = "turn" /\ turn'.kid = turn.kid /\ turn'.result # "none"
    BY <1>13 DEF Agent!CallEnds, Agent!ReadResponse, Agent!Prompted, AgentInv, AgentType, AgentTurn
  <2> QED
    BY <1>13, <2>1, AgentSame DEF Agent!CallEnds, Agent!ReadResponse, AgentInv, AgentType, ClosedIsTold
<1>14. CASE Agent!Show
  <2>1. turn' \in AgentTurn /\ turn'.pc = turn.pc /\ turn.pc = "turn" /\ turn'.kid = turn.kid /\ turn'.result = turn.result
    <3> DEFINE ev == Agent!translateUpdate(Head(turn.updates))
    <3>1. turn' = [turn EXCEPT !.updates = Tail(@), !.out = @ \o ev] /\ turn.pc = "turn" /\ turn.updates # <<>>
      BY <1>14 DEF Agent!Show
    <3>2. ev \in Seq({"shown", "error", "exit"})
      <4>1. ev = <<"shown">> \/ ev = <<>>
        BY DEF Agent!translateUpdate
      <4>2. <<"shown">> \in Seq({"shown", "error", "exit"}) /\ <<>> \in Seq({"shown", "error", "exit"})
        OBVIOUS
      <4> QED
        BY <4>1, <4>2
    <3> HIDE DEF ev
    <3>3. /\ turn \in AgentTurn /\ Tail(turn.updates) \in Seq({"text", "tool", "progress"})
          /\ turn.out \o ev \in Seq({"shown", "error", "exit"})
      BY <3>1, <3>2 DEF AgentInv, AgentType, AgentTurn
    <3> QED
      BY <3>1, <3>3 DEF AgentTurn
  <2> QED
    BY <1>14, <2>1, AgentSame DEF Agent!Show, AgentInv, AgentType, ClosedIsTold
<1>15. ASSUME NEW k \in Agent!Kids, Agent!Request(k) PROVE AgentInv'
  BY <1>15, AgentSame DEF Agent!Request, AgentInv, AgentType, ClosedIsTold
<1>16. ASSUME NEW options, NEW decision, Agent!Decide(options, decision) PROVE AgentInv'
  <2>1. ~misled' /\ UNCHANGED <<turn, kids, acpWorker, older>> /\ ask' = 0
    <3>1. Agent!Offered(options, decision) => Agent!chosenOption(options, decision) = decision
      BY DEF Agent!chosenOption
    <3> QED
      BY <1>16, <3>1 DEF Agent!Decide, AgentInv
  <2> QED
    BY <2>1, AgentSame DEF AgentInv, AgentType, ClosedIsTold
<1>17. CASE Agent!promptDone
  <2> DEFINE t == IF turn.result = "error" /\ ~turn.cancelled THEN Agent!emitErr ELSE turn
  <2>1. turn.pc = "turn" /\ turn' = [t EXCEPT !.pc = "exit"]
    BY <1>17 DEF Agent!promptDone
  <2>2. t \in AgentTurn /\ t.kid = turn.kid
    BY EmitErrs DEF AgentInv, AgentType
  <2>3. turn' \in AgentTurn /\ turn'.pc = "exit" /\ turn'.kid = turn.kid
    BY <2>1, <2>2 DEF AgentTurn
  <2>4. UNCHANGED <<kids, acpWorker, older, ask, misled>>
    BY <1>17 DEF Agent!promptDone
  <2> QED
    BY <2>1, <2>3, <2>4 DEF AgentInv, AgentType, TurnHasKid, Agent!NoneLeft, EvictedIsClosed, BusyIsTurn,
                      ClosedIsTold, OlderIsStrict, Agent!Prompted
<1>18. CASE Agent!EmitExit \/ Agent!CtxDone \/ Agent!ChildDone
  <2> SUFFICES ASSUME NEW t \in AgentTurn, Agent!Leave(t), turn.pc \in {"turn", "exit"}, t.kid = turn.kid,
                      t.cancelled \/ t.dropped \/ \E i \in 1..Len(t.out) : t.out[i] # "shown"
               PROVE  AgentInv'
    <3> USE DEF AgentInv, AgentType
    <3>1. CASE Agent!EmitExit
      <4> DEFINE t == [turn EXCEPT !.out = Append(@, "exit")]
      <4>1. /\ Append(turn.out, "exit") \in Seq({"shown", "error", "exit"}) /\ Len(turn.out) \in Nat
            /\ Len(Append(turn.out, "exit")) = Len(turn.out) + 1
            /\ Append(turn.out, "exit")[Len(turn.out) + 1] = "exit"
        BY DEF AgentTurn
      <4>2. t \in AgentTurn /\ t.kid = turn.kid /\ t.out = Append(turn.out, "exit")
        BY <4>1 DEF AgentTurn
      <4>3. \E i \in 1..Len(t.out) : t.out[i] # "shown"
        BY <4>1, <4>2
      <4>4. turn.pc = "exit" /\ (Agent!Leave(t) \/ (turn.cancelled /\ Agent!Leave(turn)))
        BY <3>1 DEF Agent!EmitExit
      <4> HIDE DEF t
      <4> QED
        BY <4>2, <4>3, <4>4
    <3>2. CASE Agent!CtxDone
      BY <3>2 DEF Agent!CtxDone
    <3>3. CASE Agent!ChildDone
      BY <3>3, EmitErrs DEF Agent!ChildDone
    <3> QED
      BY <1>18, <3>1, <3>2, <3>3
  <2>1. turn' \in AgentTurn /\ turn'.pc = "closed" /\ turn'.out = t.out /\ turn'.cancelled = t.cancelled
        /\ turn'.dropped = t.dropped /\ turn'.kid = turn.kid
    <3>1. turn' = [t EXCEPT !.pc = "closed", !.updates = <<>>] /\ <<>> \in Seq({"text", "tool", "progress"})
      BY DEF Agent!Leave
    <3> QED
      BY <3>1 DEF AgentTurn
  <2>2. turn.kid \in Agent!Kids
    BY DEF AgentInv, TurnHasKid
  <2>3. kids' = [kids EXCEPT ![turn.kid].busy = FALSE]
    BY DEF Agent!Leave
  <2>4. /\ kids' \in [Agent!Kids -> Kid]
        /\ \A j \in Agent!Kids : /\ kids'[j].state = kids[j].state /\ kids'[j].in = kids[j].in
                                 /\ kids'[j].end = kids[j].end
                                 /\ kids'[j].busy <=> kids[j].busy /\ j # turn.kid
    BY <2>2, <2>3 DEF AgentInv, AgentType, Kid
  <2>5. UNCHANGED <<acpWorker, other, ask, misled>> /\ OlderIsStrict'
    BY UsedIsStrict DEF Agent!Leave, AgentInv
  <2>6. ClosedIsTold'
    BY <2>1 DEF ClosedIsTold
  <2> USE DEF AgentInv
  <2>7. AgentType' /\ TurnHasKid'
    BY <2>1, <2>4, <2>5 DEF AgentType, TurnHasKid
  <2>8. Agent!NoneLeft' /\ EvictedIsClosed' /\ BusyIsTurn'
    BY <2>1, <2>2, <2>4, <2>5 DEF Agent!NoneLeft, EvictedIsClosed, BusyIsTurn, Agent!Prompted
  <2> QED
    BY <2>5, <2>6, <2>7, <2>8
<1>19. CASE Agent!Take
  <2>1. turn' = [turn EXCEPT !.out = Tail(@), !.told = @ \/ Head(turn.out) # "shown"] /\ turn.out # <<>>
    BY <1>19 DEF Agent!Take
  <2>2. turn.out \in Seq({"shown", "error", "exit"})
    BY DEF AgentInv, AgentType, AgentTurn
  <2>3. /\ Tail(turn.out) \in Seq({"shown", "error", "exit"})
        /\ \A i \in 1..Len(turn.out) : i = 1 \/ (i - 1 \in 1..Len(Tail(turn.out)) /\ Tail(turn.out)[i - 1] = turn.out[i])
    BY <2>1, <2>2
  <2>4. /\ turn' \in AgentTurn /\ turn'.pc = turn.pc /\ turn'.kid = turn.kid /\ turn'.result = turn.result
        /\ turn'.cancelled = turn.cancelled /\ turn'.dropped = turn.dropped /\ turn'.out = Tail(turn.out)
        /\ turn'.told <=> turn.told \/ turn.out[1] # "shown"
    <3> DEFINE told == turn.told \/ Head(turn.out) # "shown"
    <3>1. turn' = [turn EXCEPT !.out = Tail(turn.out), !.told = told] /\ told \in BOOLEAN /\ turn \in AgentTurn
      BY <2>1 DEF AgentInv, AgentType
    <3>2. told <=> turn.told \/ turn.out[1] # "shown"
      BY <2>1, <2>2
    <3> HIDE DEF told
    <3> QED
      BY <3>1, <3>2, <2>3 DEF AgentTurn
  <2>5. ClosedIsTold'
    BY <2>3, <2>4 DEF AgentInv, ClosedIsTold
  <2>6. UNCHANGED <<kids, acpWorker, older, ask, misled>>
    BY <1>19 DEF Agent!Take
  <2> QED
    BY <2>4, <2>5, <2>6, AgentSame DEF AgentInv, AgentType
<1>20. CASE Agent!releaseSend \/ Agent!CancelSend
  <2>1. /\ kids' \in [Agent!Kids -> Kid]
        /\ \A j \in Agent!Kids : /\ kids'[j].state = "alive" => kids[j].state = "alive"
                                 /\ kids'[j].busy = kids[j].busy /\ kids'[j].in = kids[j].in
                                 /\ kids'[j].end = "evicted" => kids[j].end = "evicted"
    BY <1>20, AgentCtxEnds DEF Agent!releaseSend, Agent!CancelSend, AgentInv
  <2>2. UNCHANGED <<acpWorker, older, ask, misled>>
    BY <1>20 DEF Agent!releaseSend, Agent!CancelSend
  <2>3. CASE Agent!releaseSend
    <3>1. turn' \in AgentTurn /\ turn'.pc = "idle" /\ turn.pc = "closed"
      <4>1. Agent!NoTurn \in AgentTurn /\ Agent!NoTurn.pc = "idle" /\ turn.n \in Int
        BY DEF Agent!NoTurn, AgentInv, AgentType, AgentTurn
      <4> QED
        BY <2>3, <4>1 DEF Agent!releaseSend, AgentTurn
    <3> QED
      BY <2>1, <2>2, <3>1 DEF AgentInv, AgentType, TurnHasKid, Agent!NoneLeft, EvictedIsClosed, BusyIsTurn,
                      ClosedIsTold, OlderIsStrict, Agent!Prompted
  <2>4. CASE Agent!CancelSend
    <3>1. /\ turn' \in AgentTurn /\ turn'.pc = turn.pc /\ turn.pc # "closed" /\ turn'.kid = turn.kid
          /\ turn'.result = turn.result
      BY <2>4 DEF Agent!CancelSend, AgentInv, AgentType, AgentTurn
    <3> QED
      BY <2>1, <2>2, <3>1 DEF AgentInv, AgentType, TurnHasKid, Agent!NoneLeft, EvictedIsClosed, BusyIsTurn,
                      ClosedIsTold, OlderIsStrict, Agent!Prompted
  <2> QED
    BY <1>20, <2>3, <2>4
<1>21. CASE Agent!Kill
  <2>1. UNCHANGED <<turn, older, ask, misled>> /\ acpWorker # 0 /\ acpWorker' = 0 /\ Agent!Close(acpWorker, "killed")
    BY <1>21 DEF Agent!Kill
  <2>2. acpWorker \in Agent!Kids
    BY <2>1 DEF AgentInv, AgentType
  <2>3. /\ kids' \in [Agent!Kids -> Kid]
        /\ \A j \in Agent!Kids : /\ kids'[j].state = kids[j].state /\ kids'[j].busy = kids[j].busy
                                 /\ j # acpWorker => kids'[j] = kids[j]
                                 /\ j = acpWorker => ~kids'[j].in /\ kids'[j].end # "evicted"
    BY <2>1, <2>2, AgentClose DEF AgentInv, AgentType
  <2> QED
    BY <2>1, <2>3 DEF AgentInv, AgentType, TurnHasKid, Agent!NoneLeft, EvictedIsClosed, BusyIsTurn,
                      ClosedIsTold, OlderIsStrict, Agent!Prompted
<1> QED
  BY <1>1, <1>2, <1>3, <1>4, <1>5, <1>6, <1>7, <1>8, <1>9, <1>10, <1>11, <1>12, <1>13, <1>14, <1>15, <1>16,
     <1>17, <1>18, <1>19, <1>20, <1>21 DEF Agent!Next, Agent!Turn

\* A step of another part is a stutter of the ACP runtimes.
LEMMA AgentSteps == SessionsNext => [Agent!Next]_agentVars
BY DEF SessionsNext, PiStep, AgentStep, CacheStep, WatchStep, StartStep, MetaStep

\* No child process of an agent is left behind, and the cap on live ones never takes
\* the process of a turn that has its prompt.
THEOREM AgentChildrenAreAccounted == SessionsSpec => []ChildrenAccounted
<1>1. SessionsInit => AgentInv
  BY AgentStarts DEF SessionsInit
<1>2. AgentInv /\ [SessionsNext]_sessionsVars => AgentInv'
  BY AgentKept, AgentSteps DEF sessionsVars
<1>3. AgentInv => ChildrenAccounted
  BY AgentHolds DEF ChildrenAccounted
<1> QED
  BY <1>1, <1>2, <1>3, PTL DEF SessionsSpec

\* A turn of an ACP agent that was not cancelled is told its end, and a decision reaches
\* the agent as the option of its kind.
THEOREM AgentTurnsAreTold == SessionsSpec => []EndIsTold
<1>1. SessionsInit => AgentInv
  BY AgentStarts DEF SessionsInit
<1>2. AgentInv /\ [SessionsNext]_sessionsVars => AgentInv'
  BY AgentKept, AgentSteps DEF sessionsVars
<1>3. AgentInv => EndIsTold
  BY AgentHolds DEF EndIsTold
<1> QED
  BY <1>1, <1>2, <1>3, PTL DEF SessionsSpec

-----------------------------------------------------------------------------
(* ---------------- the pi pool (PiRuntime) ---------------- *)

PiType ==
    /\ sess \in [Sends -> Sessions]
    /\ pc \in [Sends -> {"new", "over", "failed"} \cup Running]
    /\ worker \in [Sends -> 0..spawned]
    /\ dialog \in [Sends -> Sends \cup {None}]
    /\ endedBy \in [Sends -> Sends \cup {None, "exit", "cancelled"}]
    /\ cancelled \subseteq Sends
    /\ pool \in [Sessions -> 0..spawned]
    /\ spawned \in 0..MaxSpawns
    /\ busy \in [Procs -> BOOLEAN]
    /\ stops \subseteq 1..spawned
    /\ events \in [Procs -> Seq(Event)] /\ held \in [Procs -> Seq(Event)]
    /\ \A p \in Procs : Len(events[p]) <= EventCap /\ Len(held[p]) <= 1
    /\ closed \in [Procs -> BOOLEAN]
    /\ exited \in [Procs -> BOOLEAN]
    /\ stdin \in [Procs -> Seq(Sends)]
    /\ agent \in [Procs -> Sends \cup {None}]
    /\ ui \in [Procs -> {"none", "open", "over"}]

PoolFits == IsFiniteSet(Pooled) /\ Cardinality(Pooled) <= MaxLive

\* A process serves one session for good, and a session has one send that runs.
OneSession ==
    /\ \A q, t \in Sends : worker[q] = worker[t] /\ worker[q] # 0 => sess[q] = sess[t]
    /\ \A s \in Sessions : pool[s] # 0 => \E q \in Sends : worker[q] = pool[s] /\ sess[q] = s
    /\ \A q \in Sends : /\ pc[q] = "new" => worker[q] = 0
                        /\ pc[q] \in Running => worker[q] # 0
    /\ \A q, t \in Sends : sess[q] = sess[t] /\ pc[q] \in Running /\ pc[t] \in Running => q = t

\* A worker of the pool is busy when a turn owns it, and owned when it is busy; one that
\* is not in the pool yet is not busy.
BusyOwned ==
    /\ \A s \in Pooled : busy[pool[s]] <=> \E q \in Sends : worker[q] = pool[s] /\ pc[q] \in Turn
    /\ \A q \in Sends : pc[q] = "adding" => ~busy[worker[q]]
    /\ \A p \in Procs : p > spawned => ~busy[p]

\* The processes that are named have been spawned.
LEMMA PiProcs == ASSUME PiType PROVE /\ spawned \in Nat /\ MaxSpawns \in Nat
                                     /\ \A q \in Sends : worker[q] \in Nat /\ (worker[q] # 0 => worker[q] \in Procs)
                                     /\ \A s \in Sessions : pool[s] \in Nat /\ (pool[s] # 0 => pool[s] \in Procs)
<1>1. MaxSpawns \in Nat /\ spawned \in Nat /\ spawned <= MaxSpawns
  BY PiAssumption DEF PiType
<1>2. \A n \in 0..spawned : n \in Nat /\ (n # 0 => n \in Procs)
  BY <1>1 DEF Procs
<1> QED
  BY <1>1, <1>2 DEF PiType

\* A worker in the pool serves the session it is pooled for.
LEMMA PooledServes ==
  ASSUME PiType, OneSession, NEW s \in Sessions, NEW q \in Sends, pool[s] = worker[q], worker[q] # 0
  PROVE  sess[q] = s
BY DEF OneSession

\* A process keeps its session while no new one is handed out.
LEMMA OneSessionKept ==
  ASSUME PiType, OneSession, UNCHANGED <<sess, worker>>,
         \A s \in Sessions : pool'[s] \in {0, pool[s]},
         \A q \in Sends : /\ pc'[q] = "new" => pc[q] = "new"
                          /\ pc'[q] \in Running => pc[q] \in Running
  PROVE  OneSession'
BY DEF OneSession

\* The flags are right while the turns and the workers stay as they are.
LEMMA BusyKept ==
  ASSUME PiType, PiType', OneSession, BusyOwned, UNCHANGED <<worker, spawned, busy>>,
         \A s \in Sessions : pool'[s] \in {0, pool[s]},
         \A q \in Sends : /\ pc'[q] \in Turn <=> pc[q] \in Turn
                          /\ pc'[q] = "adding" => pc[q] = "adding"
  PROVE  BusyOwned'
BY DEF BusyOwned, Pooled

\* The end of a turn frees its worker, or finds it out of the pool.
LEMMA BusyFreed ==
  ASSUME PiType, PiType', OneSession, BusyOwned, UNCHANGED <<worker, spawned>>,
         NEW q \in Sends, pc[q] \in Turn, pc'[q] \notin Running,
         \A t \in Sends : t # q => pc'[t] = pc[t],
         \A s \in Sessions : pool'[s] \in {0, pool[s]},
         \/ busy' = [busy EXCEPT ![worker[q]] = FALSE]
         \/ busy' = busy /\ pool[sess[q]] # worker[q]
  PROVE  BusyOwned'
<1>1. worker[q] # 0 /\ worker[q] \in Procs
  BY PiProcs DEF OneSession, Running, Turn
<1>2. \A s \in Sessions : pool[s] = worker[q] => s = sess[q]
  BY <1>1, PooledServes
<1>3. \A t \in Sends : worker[t] = worker[q] /\ pc[t] \in Running => t = q
  BY <1>1 DEF OneSession, Running, Turn
<1>4. \A p \in Procs : p # worker[q] => busy'[p] = busy[p]
  BY <1>1 DEF PiType
<1>5. pool[sess[q]] = worker[q] => ~busy'[worker[q]]
  BY <1>1 DEF PiType
<1>6. \A p \in Procs : busy'[p] => busy[p]
  BY <1>1 DEF PiType
<1>7. \A t \in Sends : pc'[t] = "adding" => ~busy'[worker[t]]
  BY <1>6, PiProcs DEF BusyOwned, OneSession, Running
<1>8. ASSUME NEW s \in Sessions, pool'[s] # 0
      PROVE  busy'[pool'[s]] <=> \E t \in Sends : worker[t] = pool'[s] /\ pc'[t] \in Turn
  <2>1. pool'[s] = pool[s] /\ s \in Pooled /\ pool[s] \in Procs
    BY <1>8, PiProcs DEF Pooled
  <2>2. CASE pool[s] = worker[q]
    BY <2>1, <2>2, <1>2, <1>3, <1>5 DEF Turn, Running
  <2>3. CASE pool[s] # worker[q]
    BY <2>1, <2>3, <1>4 DEF BusyOwned
  <2> QED
    BY <2>2, <2>3
<1> QED
  BY <1>6, <1>7, <1>8 DEF BusyOwned, Pooled

(* what the process has of a prompt: waiting in its input, being worked on, or told *)
Line(p) == events[p] \o held[p]
InStdin(p, t) == \E i \in 1..Len(stdin[p]) : stdin[p][i] = t
Signal(p, i, t) == i \in 1..Len(Line(p)) /\ Line(p)[i] = [type |-> "settled", of |-> t]
GivenUp(t) == pc[t] = "failed" /\ endedBy[t] = "cancelled"
Waits(t) == pc[t] = "asked" \/ GivenUp(t)
Taken(t) == pc[t] \in {"reading", "asking", "over"} \/ GivenUp(t)

\* A prompt is with one process, in one place: its input, its work, or its signal on the
\* channel, until the turn it belongs to has read that.
PromptsWait ==
    \A p \in Procs, t \in Sends : InStdin(p, t) =>
      /\ worker[t] = p /\ Waits(t) /\ endedBy[t] # t
      /\ \A i, j \in 1..Len(stdin[p]) : stdin[p][i] = t /\ stdin[p][j] = t => i = j
PromptIsTaken ==
    \A p \in Procs, t \in Sends : agent[p] = t =>
      worker[t] = p /\ Taken(t) /\ endedBy[t] # t /\ ~InStdin(p, t)
SignalsWait ==
    \A p \in Procs, t \in Sends, i \in Nat : Signal(p, i, t) =>
      /\ worker[t] = p /\ Taken(t) /\ endedBy[t] # t /\ ~InStdin(p, t) /\ agent[p] # t
      /\ \A j \in Nat : Signal(p, j, t) => i = j
Places == PromptsWait /\ PromptIsTaken /\ SignalsWait

\* An exited process works on nothing, and a turn that has read the exit has read all.
ExitIsLast ==
    /\ \A p \in Procs : /\ exited[p] => stdin[p] = <<>> /\ agent[p] = None
                        /\ closed[p] => exited[p] /\ held[p] = <<>>
    /\ \A t \in Sends : endedBy[t] = "exit" =>
         worker[t] \in Procs /\ closed[worker[t]] /\ events[worker[t]] = <<>>

EndsOnce == \A q \in Sends : /\ pc[q] \notin {"over", "failed"} => endedBy[q] = None
                             /\ pc[q] = "over" => endedBy[q] # None

PiInv == /\ PiType /\ PoolFits /\ OneSession /\ BusyOwned /\ Places /\ ExitIsLast /\ EndsOnce /\ OwnSettled

\* No send has started and no process runs.
LEMMA PiStarts == Init => PiInv
<1> SUFFICES ASSUME Init PROVE PiInv
  OBVIOUS
<1> USE DEF Init
<1>1. PiType
  BY PiAssumption DEF PiType, Procs
<1>2. Pooled = {} /\ PoolFits
  <2>1. Pooled = {}
    BY DEF Pooled
  <2>2. IsFiniteSet({}) /\ Cardinality({}) = 0
    BY FS_EmptySet
  <2> QED
    BY <2>1, <2>2, PiAssumption DEF PoolFits
<1>3. OneSession /\ BusyOwned
  BY <1>2, PiAssumption DEF OneSession, BusyOwned, Running, Turn, Procs
<1>4. \A p \in Procs : Line(p) = <<>> /\ stdin[p] = <<>> /\ agent[p] = None
  BY DEF Line
<1>5. Places
  BY <1>4, PiAssumption DEF Places, PromptsWait, PromptIsTaken, SignalsWait, InStdin, Signal
<1>6. ExitIsLast /\ EndsOnce /\ OwnSettled
  BY PiAssumption DEF ExitIsLast, EndsOnce, OwnSettled
<1> QED
  BY <1>1, <1>2, <1>3, <1>5, <1>6 DEF PiInv

\* The properties of the pool follow from the invariant.
LEMMA PiHolds == PiInv => TypeOK /\ BusyIsOwned /\ OwnSettled
<1> SUFFICES ASSUME PiInv PROVE TypeOK /\ BusyIsOwned
  BY DEF PiInv
<1> USE DEF PiInv
<1>1. TypeOK
  <2>1. \A p \in Procs : \A e \in {events[p][i] : i \in DOMAIN events[p]} : e \in Event
    BY DEF PiType
  <2> QED
    BY <2>1 DEF PiType, PoolFits, TypeOK
<1>2. ASSUME NEW s \in Pooled
      PROVE  Cardinality({q \in Sends : worker[q] = pool[s] /\ pc[q] \in Turn}) = IF busy[pool[s]] THEN 1 ELSE 0
  <2> DEFINE owners == {q \in Sends : worker[q] = pool[s] /\ pc[q] \in Turn}
  <2>1. CASE busy[pool[s]]
    <3>1. PICK q \in Sends : worker[q] = pool[s] /\ pc[q] \in Turn
      BY <2>1 DEF BusyOwned
    <3>2. owners = {q}
      BY <3>1 DEF OneSession, Pooled, Turn, Running
    <3> QED
      BY <2>1, <3>2, FS_Singleton
  <2>2. CASE ~busy[pool[s]]
    <3>1. owners = {}
      BY <2>2 DEF BusyOwned
    <3> QED
      BY <2>2, <3>1, FS_EmptySet
  <2> QED
    BY <2>1, <2>2
<1> QED
  BY <1>1, <1>2 DEF BusyIsOwned


(* ---- frames ---- *)
LEMMA PoolKept ==
  ASSUME PoolFits, \A s \in Sessions : pool'[s] \in {0, pool[s]}
  PROVE  PoolFits'
<1>1. Pooled' \subseteq Pooled
  BY DEF Pooled
<1>2. IsFiniteSet(Pooled) /\ Cardinality(Pooled) <= MaxLive /\ MaxLive \in Nat
  BY PiAssumption DEF PoolFits
<1>3. IsFiniteSet(Pooled') /\ Cardinality(Pooled') <= Cardinality(Pooled)
  BY <1>1, <1>2, FS_Subset
<1>4. Cardinality(Pooled') \in Nat /\ Cardinality(Pooled) \in Nat
  BY <1>2, <1>3, FS_CardinalityType
<1> QED
  BY <1>2, <1>3, <1>4 DEF PoolFits

\* Where the prompts are stays while no pipe and no channel changes.
LEMMA PlacesKept ==
  ASSUME Places, UNCHANGED <<stdin, agent, events, held>>,
         \A t \in Sends : /\ Waits(t) => Waits(t)' \/ \A p \in Procs : ~InStdin(p, t)
                          /\ Taken(t) => Taken(t)'
                          /\ Waits(t) \/ Taken(t) => worker'[t] = worker[t]
                          /\ endedBy'[t] = t => endedBy[t] = t
  PROVE  Places'
<1>1. \A p \in Procs, t \in Sends : InStdin(p, t)' <=> InStdin(p, t)
  BY DEF InStdin
<1>2. \A p \in Procs, t \in Sends, i \in Nat : Signal(p, i, t)' <=> Signal(p, i, t)
  BY DEF Signal, Line
<1>3. PromptsWait'
  BY <1>1 DEF Places, PromptsWait
<1>4. PromptIsTaken'
  BY <1>1 DEF Places, PromptIsTaken
<1>5. SignalsWait'
  BY <1>1, <1>2 DEF Places, SignalsWait
<1> QED
  BY <1>3, <1>4, <1>5 DEF Places

\* The exit of a process is the last it says, while no channel changes.
LEMMA ExitKept ==
  ASSUME ExitIsLast, UNCHANGED <<stdin, agent, events, held, exited, closed>>,
         \A t \in Sends : endedBy'[t] = "exit" => endedBy[t] = "exit" /\ worker'[t] = worker[t]
  PROVE  ExitIsLast'
BY DEF ExitIsLast

\* A turn that ends by an exit or a cancellation ends once, and is not settled by another's.
LEMMA EndsAs ==
  ASSUME PiType, EndsOnce, OwnSettled, NEW q \in Sends, endedBy[q] = None,
         NEW how \in {"exit", "cancelled"}, endedBy' = [endedBy EXCEPT ![q] = how],
         pc' = [pc EXCEPT ![q] = "over"] \/ pc' = [pc EXCEPT ![q] = "failed"]
  PROVE  EndsOnce' /\ OwnSettled'
<1>1. \A t \in Sends : t # q => endedBy'[t] = endedBy[t] /\ pc'[t] = pc[t]
  BY DEF PiType
<1>2. endedBy'[q] = how /\ pc'[q] \in {"over", "failed"} /\ how # None /\ how \notin Sends
  BY PiAssumption DEF PiType
<1>3. EndsOnce'
  BY <1>1, <1>2 DEF EndsOnce
<1>4. \A t \in Sends : endedBy[t] = q => t = q
  BY PiAssumption DEF OwnSettled
<1>5. OwnSettled'
  BY <1>1, <1>2, <1>4 DEF OwnSettled
<1> QED
  BY <1>3, <1>5

\* A turn ends once, while none ends.
LEMMA EndsKept ==
  ASSUME EndsOnce, OwnSettled, UNCHANGED endedBy,
         \A t \in Sends : /\ pc'[t] \notin {"over", "failed"} => pc[t] \notin {"over", "failed"}
                          /\ pc'[t] = "over" => pc[t] = "over"
  PROVE  EndsOnce' /\ OwnSettled'
BY DEF EndsOnce, OwnSettled

\* A request that has failed frees its worker, and a Start gives it up.
LEMMA UnclaimKept ==
  ASSUME PiInv, NEW q \in Sends, pc[q] \in {"claimed", "asked"}, Unclaim(q), UNCHANGED <<sess, worker>>
  PROVE  /\ pc' = [pc EXCEPT ![q] = "failed"] /\ pc' \in [Sends -> {"new", "over", "failed"} \cup Running]
         /\ spawned' = spawned
         /\ pool' \in [Sessions -> 0..spawned] /\ busy' \in [Procs -> BOOLEAN] /\ stops' \subseteq 1..spawned
         /\ PoolFits' /\ OneSession'
<1> USE DEF PiInv
<1>1. /\ pc' = [pc EXCEPT ![q] = "failed"] /\ pc' \in [Sends -> {"new", "over", "failed"} \cup Running]
      /\ spawned' = spawned
  BY DEF Unclaim, Go, PiType
<1>2. worker[q] # 0 /\ worker[q] \in 1..spawned /\ worker[q] \in Procs
  <2>1. worker[q] # 0 /\ worker[q] \in 0..spawned /\ spawned \in Nat
    BY PiProcs DEF OneSession, Running, Turn, PiType
  <2> QED
    BY <2>1, PiProcs
<1>3. pool' \in [Sessions -> 0..spawned] /\ \A s \in Sessions : pool'[s] \in {0, pool[s]}
  <2>1. pool \in [Sessions -> 0..spawned] /\ spawned \in Nat
    BY PiProcs DEF PiType
  <2> QED
    BY <2>1 DEF Unclaim, Remove
<1>4. busy' \in [Procs -> BOOLEAN]
  BY DEF Unclaim, PiType
<1>5. stops' \subseteq 1..spawned
  BY <1>2 DEF Unclaim, PiType
<1>6. PoolFits'
  BY <1>3, PoolKept
<1>7. \A t \in Sends : /\ pc'[t] = "new" => pc[t] = "new"
                       /\ pc'[t] \in Running => pc[t] \in Running
  BY <1>1 DEF PiType, Running, Turn
<1>8. OneSession'
  BY <1>3, <1>7, OneSessionKept
<1> QED
  BY <1>1, <1>3, <1>4, <1>5, <1>6, <1>8

\* A request that failed leaves no worker busy.
LEMMA UnclaimFrees ==
  ASSUME PiInv, PiType', NEW q \in Sends, pc[q] \in {"claimed", "asked"}, Unclaim(q), UNCHANGED <<sess, worker>>
  PROVE  BusyOwned'
<1>1. /\ pc[q] \in Turn /\ pc'[q] \notin Running /\ UNCHANGED spawned
      /\ \A t \in Sends : t # q => pc'[t] = pc[t]
  BY UnclaimKept DEF PiInv, PiType, Turn, Running
<1>2. busy' = [busy EXCEPT ![worker[q]] = FALSE] /\ \A s \in Sessions : pool'[s] \in {0, pool[s]}
  BY PiProcs DEF Unclaim, Remove, PiType, PiInv
<1> QED
  BY <1>1, <1>2, BusyFreed DEF PiInv


(* ---- the steps ---- *)
\* A step by the frames: nothing of a process changes, and no turn is told its end.
LEMMA QuietStep ==
  ASSUME PiInv, PiType', PoolFits', OneSession', BusyOwned',
         UNCHANGED <<stdin, agent, events, held, exited, closed, endedBy>>,
         \A t \in Sends : /\ Waits(t) => Waits(t)' \/ \A p \in Procs : ~InStdin(p, t)
                          /\ Taken(t) => Taken(t)'
                          /\ pc[t] # "new" => worker'[t] = worker[t]
                          /\ pc'[t] \notin {"over", "failed"} => pc[t] \notin {"over", "failed"}
                          /\ pc'[t] = "over" => pc[t] = "over"
  PROVE  PiInv'
<1>1. \A t \in Sends : Waits(t) \/ Taken(t) => pc[t] # "new"
  BY DEF Waits, Taken, GivenUp
<1>2. Places'
  BY <1>1, PlacesKept DEF PiInv
<1>3. ExitIsLast'
  <2>1. \A t \in Sends : endedBy'[t] = "exit" => endedBy[t] = "exit" /\ pc[t] # "new"
    BY PiAssumption DEF PiInv, EndsOnce
  <2> QED
    BY <2>1, ExitKept DEF PiInv
<1>4. EndsOnce' /\ OwnSettled'
  BY EndsKept DEF PiInv
<1> QED
  BY <1>2, <1>3, <1>4 DEF PiInv

\* A send finds its session's worker, or none.
LEMMA LookupKept == ASSUME PiInv, NEW q \in Sends, Lookup(q) PROVE PiInv'
<1> USE DEF PiInv, Lookup, Go, sendVars, poolVars, readVars, piVars
<1>1. /\ worker' = [worker EXCEPT ![q] = pool[sess[q]]] /\ pc' = [pc EXCEPT ![q] = "found"]
      /\ pc[q] = "new" /\ worker[q] = 0 /\ pool[sess[q]] # 0 /\ sess[q] \in Sessions
      /\ \A t \in Sends : sess[t] = sess[q] /\ t # q => pc[t] \notin Running
  BY DEF MaySend, OneSession, PiType
<1>2. PiType'
  BY <1>1 DEF PiType, Running
<1>3. PoolFits'
  BY PoolKept DEF PiType
<1>4. PICK o \in Sends : worker[o] = pool[sess[q]] /\ sess[o] = sess[q]
  BY <1>1 DEF OneSession
<1>5. \A t \in Sends : t # q => worker'[t] = worker[t] /\ pc'[t] = pc[t]
  BY <1>1 DEF PiType
<1>6. worker'[q] = worker[o] /\ pc'[q] = "found" /\ o # q
  BY <1>1, <1>4 DEF PiType
<1>7. OneSession'
  <2>1. \A t \in Sends : worker'[t] = worker'[q] => sess[t] = sess[q]
    BY <1>1, <1>4, <1>5, <1>6 DEF OneSession
  <2>2. \A s \in Sessions : pool[s] # 0 => \E t \in Sends : t # q /\ worker[t] = pool[s] /\ sess[t] = s
    BY <1>1 DEF OneSession
  <2>3. \A t, u \in Sends : worker'[t] = worker'[u] /\ worker'[t] # 0 => sess[t] = sess[u]
    BY <2>1, <1>5 DEF OneSession
  <2>4. \A t \in Sends : (pc'[t] = "new" => worker'[t] = 0) /\ (pc'[t] \in Running => worker'[t] # 0)
    BY <1>1, <1>4, <1>5, <1>6 DEF OneSession
  <2>5. \A t, u \in Sends : sess[t] = sess[u] /\ pc'[t] \in Running /\ pc'[u] \in Running => t = u
    BY <1>1, <1>5 DEF OneSession
  <2> QED
    BY <2>2, <2>3, <2>4, <2>5, <1>5 DEF OneSession
<1>8. BusyOwned'
  <2>1. \A t \in Sends : pc[t] \in Turn => t # q
    BY <1>1 DEF Turn
  <2>2. \A t \in Sends : (pc'[t] \in Turn <=> pc[t] \in Turn) /\ (pc'[t] \in Turn => t # q)
    BY <2>1, <1>5, <1>6 DEF Turn
  <2> QED
    BY <2>1, <2>2, <1>5, <1>6 DEF BusyOwned, Pooled
<1>9. QED
  BY <1>1, <1>2, <1>3, <1>5, <1>7, <1>8, QuietStep DEF Waits, Taken, GivenUp

\* A process is started outside the lock, for one send.
LEMMA SpawnKept == ASSUME PiInv, NEW q \in Sends, Spawn(q) PROVE PiInv'
<1> USE DEF PiInv, Spawn, Go, sendVars, poolVars, readVars, piVars
<1>1. /\ worker' = [worker EXCEPT ![q] = spawned + 1] /\ pc' = [pc EXCEPT ![q] = "adding"]
      /\ pc[q] = "new" /\ worker[q] = 0 /\ spawned \in Nat /\ spawned' = spawned + 1 /\ spawned' \in Procs
      /\ \A t \in Sends : sess[t] = sess[q] /\ t # q => pc[t] \notin Running
  BY PiProcs DEF MaySend, OneSession, Procs, PiType
<1>2. 0..spawned \subseteq 0..(spawned + 1) /\ 1..spawned \subseteq 1..(spawned + 1)
  BY <1>1
<1>3. PiType'
  <2>1. worker' \in [Sends -> 0..spawned']
    BY <1>1, <1>2 DEF PiType
  <2>2. pool' \in [Sessions -> 0..spawned'] /\ stops' \subseteq 1..spawned'
    BY <1>1, <1>2 DEF PiType
  <2>3. spawned' \in 0..MaxSpawns
    BY <1>1, PiAssumption DEF Procs, PiType
  <2>4. pc' \in [Sends -> {"new", "over", "failed"} \cup Running]
    BY <1>1 DEF PiType, Running
  <2> QED
    BY <2>1, <2>2, <2>3, <2>4 DEF PiType
<1>4. PoolFits'
  BY PoolKept DEF PiType
<1>5. \A t \in Sends : t # q => worker'[t] = worker[t] /\ pc'[t] = pc[t]
  BY <1>1 DEF PiType
<1>6. worker'[q] = spawned + 1 /\ pc'[q] = "adding"
  BY <1>1 DEF PiType
<1>7. (\A t \in Sends : worker[t] # spawned + 1) /\ (\A s \in Sessions : pool[s] # spawned + 1)
  BY <1>1 DEF PiType
<1>8. OneSession'
  <2>2. \A s \in Sessions : pool[s] # 0 => \E t \in Sends : t # q /\ worker[t] = pool[s] /\ sess[t] = s
    BY <1>1 DEF OneSession
  <2>3. \A t, u \in Sends : worker'[t] = worker'[u] /\ worker'[t] # 0 => sess[t] = sess[u]
    BY <1>5, <1>6, <1>7 DEF OneSession
  <2>4. \A t \in Sends : (pc'[t] = "new" => worker'[t] = 0) /\ (pc'[t] \in Running => worker'[t] # 0)
    BY <1>1, <1>5, <1>6 DEF OneSession
  <2>5. \A t, u \in Sends : sess[t] = sess[u] /\ pc'[t] \in Running /\ pc'[u] \in Running => t = u
    BY <1>1, <1>5 DEF OneSession
  <2> QED
    BY <2>2, <2>3, <2>4, <2>5, <1>5 DEF OneSession
<1>9. BusyOwned'
  <2>2. \A t \in Sends : (pc'[t] \in Turn <=> pc[t] \in Turn) /\ (pc'[t] \in Turn => t # q)
    BY <1>1, <1>5, <1>6 DEF Turn
  <2>3. ~busy[spawned + 1]
    BY <1>1 DEF BusyOwned
  <2>4. \A p \in Procs : p > spawned + 1 => p > spawned
    BY <1>1 DEF Procs
  <2>5. \A s \in Pooled : busy'[pool'[s]] <=> \E t \in Sends : worker'[t] = pool'[s] /\ pc'[t] \in Turn
    BY <1>1, <2>2, <1>5, <1>6, <1>7 DEF BusyOwned, Pooled, Turn
  <2>6. \A t \in Sends : pc'[t] = "adding" => ~busy'[worker'[t]]
    BY <2>3, <1>5, <1>6 DEF BusyOwned
  <2> QED
    BY <2>3, <2>4, <2>5, <2>6, <1>1 DEF BusyOwned, Pooled
<1> QED
  BY <1>1, <1>3, <1>4, <1>5, <1>8, <1>9, QuietStep DEF Waits, Taken, GivenUp


\* A process that could not be started leaves nothing behind.
LEMMA SpawnFailsKept == ASSUME PiInv, NEW q \in Sends, SpawnFails(q) PROVE PiInv'
<1> USE DEF PiInv, SpawnFails, Go, sendVars, poolVars, readVars, piVars
<1>1. pc[q] = "new" /\ pc' = [pc EXCEPT ![q] = "failed"]
  BY DEF MaySend
<1>2. \A t \in Sends : pc'[t] = IF t = q THEN "failed" ELSE pc[t]
  BY <1>1 DEF PiType
<1>3. PiType'
  BY <1>1 DEF PiType
<1>4. \A s \in Sessions : pool'[s] \in {0, pool[s]}
  BY DEF PiType
<1>5. PoolFits'
  BY <1>4, PoolKept
<1>6. OneSession'
  BY <1>1, <1>2, <1>4, OneSessionKept DEF Running, Turn
<1>7. BusyOwned'
  BY <1>1, <1>2, <1>3, <1>4, BusyKept DEF Turn
<1> QED
  BY <1>1, <1>2, <1>3, <1>5, <1>6, <1>7, QuietStep DEF Waits, Taken, GivenUp

\* A worker joins the pool in the place of an idle one when the pool is full.
LEMMA AddFits == ASSUME PiInv, NEW q \in Sends, NEW V \in SUBSET Sessions, Add(q, V) PROVE PoolFits'
<1> USE DEF PiInv, Add
<1>1. /\ IsFiniteSet(Pooled) /\ Cardinality(Pooled) <= MaxLive /\ MaxLive \in Nat \ {0} /\ sess[q] \in Sessions
      /\ Cardinality(Pooled) \in Nat
  BY PiAssumption, FS_CardinalityType DEF PoolFits, PiType
<1>2. Pooled' \subseteq (Pooled \ V) \cup {sess[q]}
  BY DEF Pooled
<1>3. V \in Victims
  OBVIOUS
<1>4. IsFiniteSet(Pooled \ V) /\ Cardinality(Pooled \ V) <= MaxLive - 1 /\ Cardinality(Pooled \ V) \in Nat
  <2>1. CASE Full
    <3>1. PICK s \in Pooled : V = {s}
      BY <2>1, <1>3 DEF Victims, Evictable
    <3>2. IsFiniteSet(Pooled \ {s}) /\ Cardinality(Pooled \ {s}) = Cardinality(Pooled) - 1
      BY <3>1, <1>1, FS_RemoveElement
    <3>3. Cardinality(Pooled \ {s}) \in Nat
      BY <3>2, FS_CardinalityType
    <3> QED
      BY <3>1, <3>2, <3>3, <1>1
  <2>2. CASE ~Full
    <3>1. V = {} /\ Pooled \ V = Pooled
      BY <2>2, <1>3 DEF Victims
    <3> QED
      BY <3>1, <2>2, <1>1 DEF Full
  <2> QED
    BY <2>1, <2>2
<1> DEFINE S == (Pooled \ V) \cup {sess[q]}
<1>5. IsFiniteSet(S) /\ Cardinality(S) <= Cardinality(Pooled \ V) + 1 /\ Cardinality(S) \in Nat
  <2>1. /\ IsFiniteSet(S)
        /\ Cardinality(S) = IF sess[q] \in Pooled \ V THEN Cardinality(Pooled \ V) ELSE Cardinality(Pooled \ V) + 1
    BY <1>4, FS_AddElement
  <2>2. Cardinality(S) \in Nat
    BY <2>1, FS_CardinalityType
  <2> QED
    BY <2>1, <2>2, <1>4
<1>6. IsFiniteSet(Pooled') /\ Cardinality(Pooled') <= Cardinality(S)
  BY <1>2, <1>5, FS_Subset
<1>7. Cardinality(Pooled') \in Nat
  BY <1>6, FS_CardinalityType
<1> QED
  BY <1>1, <1>4, <1>5, <1>6, <1>7 DEF PoolFits

\* A worker enters the pool, which makes room by stopping an idle one.
LEMMA AddKept == ASSUME PiInv, NEW q \in Sends, NEW V \in SUBSET Sessions, Add(q, V) PROVE PiInv'
<1> USE DEF PiInv, Add, Go, sendVars, poolVars, readVars, piVars
<1>1. /\ pc[q] = "adding" /\ pc' = [pc EXCEPT ![q] = "found"] /\ worker[q] # 0 /\ sess[q] \in Sessions
      /\ pool[sess[q]] = 0 /\ worker[q] \in 0..spawned
  BY DEF OneSession, Running, PiType
<1>2. \A t \in Sends : pc'[t] = IF t = q THEN "found" ELSE pc[t]
  BY <1>1 DEF PiType
<1>3. V \subseteq Pooled /\ \A s \in V : ~busy[pool[s]]
  BY DEF Victims, Evictable, Full
<1>4. \A s \in Sessions : pool'[s] = IF s = sess[q] THEN worker[q] ELSE IF s \in V THEN 0 ELSE pool[s]
  <2>1. pool' = [s \in Sessions |-> CASE s = sess[q] -> worker[q] [] s \in V -> 0 [] OTHER -> pool[s]]
    OBVIOUS
  <2>2. \A s \in V : s # sess[q]
    BY <1>1, <1>3 DEF Pooled
  <2> HIDE DEF PiInv, Add
  <2>3. ASSUME NEW s \in Sessions PROVE pool'[s] = IF s = sess[q] THEN worker[q] ELSE IF s \in V THEN 0 ELSE pool[s]
    <3>1. CASE s = sess[q]
      BY <2>1, <2>2, <3>1
    <3>2. CASE s \in V
      BY <2>1, <2>2, <3>2
    <3>3. CASE s # sess[q] /\ s \notin V
      BY <2>1, <3>3
    <3> QED
      BY <3>1, <3>2, <3>3
  <2> QED
    BY <2>3
<1>5. pool' \in [Sessions -> 0..spawned]
  <2>1. \A s \in Sessions : pool'[s] \in 0..spawned
    BY <1>1, <1>4, PiProcs DEF PiType
  <2>2. pool' = [s \in Sessions |-> pool'[s]]
    OBVIOUS
  <2> QED
    BY <2>1, <2>2
<1>6. stops' \subseteq 1..spawned
  <2>1. \A s \in V : pool[s] \in 0..spawned /\ pool[s] # 0
    BY <1>3 DEF Pooled, PiType
  <2> QED
    BY <2>1, PiProcs DEF PiType
<1>7. PiType'
  BY <1>1, <1>5, <1>6 DEF PiType, Running
<1>8. PoolFits'
  BY AddFits
<1>9. OneSession'
  BY <1>1, <1>2, <1>4 DEF OneSession, Running
<1>10. BusyOwned'
  <2>1. \A t \in Sends : (pc'[t] \in Turn <=> pc[t] \in Turn) /\ (pc'[t] = "adding" => pc[t] = "adding")
    BY <1>1, <1>2 DEF Turn
  <2>2. ~busy[worker[q]] /\ \A t \in Sends : worker[t] = worker[q] => pc[t] \notin Turn
    BY <1>1 DEF BusyOwned, OneSession, Running, Turn
  <2>3. \A s \in Sessions : pool'[s] # 0 => s = sess[q] \/ (s \in Pooled /\ pool'[s] = pool[s])
    BY <1>4 DEF Pooled
  <2> QED
    BY <1>1, <1>4, <2>1, <2>2, <2>3 DEF BusyOwned, Pooled
<1> QED
  BY <1>1, <1>2, <1>7, <1>8, <1>9, <1>10, QuietStep DEF Waits, Taken, GivenUp

\* A worker the pool has no room for, or whose start fails, is stopped.
LEMMA AddFailsKept == ASSUME PiInv, NEW q \in Sends, AddFails(q) PROVE PiInv'
<1> USE DEF PiInv, AddFails, Go, sendVars, poolVars, readVars, piVars
<1>1. pc[q] = "adding" /\ pc' = [pc EXCEPT ![q] = "failed"] /\ worker[q] # 0 /\ worker[q] \in 0..spawned
  BY DEF OneSession, Running, PiType
<1>2. \A t \in Sends : pc'[t] = IF t = q THEN "failed" ELSE pc[t]
  BY <1>1 DEF PiType
<1>3. stops' \subseteq 1..spawned
  <2>1. worker[q] \in 1..spawned
    BY <1>1, PiProcs
  <2> QED
    BY <2>1 DEF PiType
<1>4. PiType'
  BY <1>1, <1>3 DEF PiType
<1>5. \A s \in Sessions : pool'[s] \in {0, pool[s]}
  BY DEF PiType
<1>6. PoolFits'
  BY <1>5, PoolKept
<1>7. OneSession'
  BY <1>1, <1>2, <1>5, OneSessionKept DEF Running, Turn
<1>8. BusyOwned'
  BY <1>1, <1>2, <1>4, <1>5, BusyKept DEF Turn
<1> QED
  BY <1>1, <1>2, <1>4, <1>6, <1>7, <1>8, QuietStep DEF Waits, Taken, GivenUp

\* A worker is claimed for a turn while it is idle and in the pool.
LEMMA ClaimKept == ASSUME PiInv, NEW q \in Sends, Claim(q) PROVE PiInv'
<1> USE DEF PiInv, Claim, Go, sendVars, poolVars, readVars, piVars
<1>1. /\ pc[q] = "found" /\ pc' = [pc EXCEPT ![q] = "claimed"] /\ worker[q] # 0 /\ worker[q] \in Procs
      /\ ~busy[worker[q]] /\ worker[q] \in 0..spawned
  BY PiProcs DEF OneSession, Running, PiType
<1>2. \A t \in Sends : pc'[t] = IF t = q THEN "claimed" ELSE pc[t]
  BY <1>1 DEF PiType
<1>3. busy' = [busy EXCEPT ![worker[q]] = TRUE] /\ busy' \in [Procs -> BOOLEAN]
  BY DEF PiType
<1>4. PiType'
  BY <1>1, <1>3 DEF PiType, Running, Turn
<1>5. \A s \in Sessions : pool'[s] \in {0, pool[s]}
  BY DEF PiType
<1>6. PoolFits'
  BY <1>5, PoolKept
<1>7. OneSession'
  BY <1>1, <1>2, <1>5, OneSessionKept DEF Running, Turn
<1>8. BusyOwned'
  <2>1. \A p \in Procs : busy'[p] <=> (busy[p] \/ p = worker[q])
    BY <1>1, <1>3 DEF PiType
  <2>2. \A t \in Sends : pc'[t] \in Turn <=> (pc[t] \in Turn \/ t = q)
    BY <1>1, <1>2 DEF Turn
  <2>3. \A t \in Sends : worker[t] = worker[q] /\ pc[t] \in Running => t = q
    BY <1>1 DEF OneSession, Running
  <2>4. \A t \in Sends : pc'[t] = "adding" => pc[t] = "adding" /\ t # q /\ worker[t] # worker[q] /\ worker[t] \in Procs
    BY <1>1, <1>2, <2>3, PiProcs DEF Running, OneSession
  <2>5. \A t \in Sends : pc'[t] = "adding" => ~busy'[worker[t]]
    BY <2>1, <2>4 DEF BusyOwned
  <2>6. \A s \in Pooled : busy'[pool[s]] <=> \E t \in Sends : worker[t] = pool[s] /\ pc'[t] \in Turn
    BY <2>1, <2>2, PiProcs DEF BusyOwned, Pooled
  <2>7. \A p \in Procs : p > spawned => p # worker[q]
    BY <1>1, PiProcs DEF Procs
  <2> QED
    BY <2>1, <2>5, <2>6, <2>7 DEF BusyOwned, Pooled
<1> QED
  BY <1>1, <1>2, <1>4, <1>6, <1>7, <1>8, QuietStep DEF Waits, Taken, GivenUp

\* A prompt that could not be written gives its worker back.
LEMMA WriteFailsKept == ASSUME PiInv, NEW q \in Sends, WriteFails(q) PROVE PiInv'
<1> USE DEF WriteFails, readVars, piVars
<1>1. pc[q] = "claimed" /\ Unclaim(q) /\ UNCHANGED <<sess, worker>>
  OBVIOUS
<1>2. /\ pc' = [pc EXCEPT ![q] = "failed"] /\ PoolFits' /\ OneSession' /\ PiType'
  BY <1>1, UnclaimKept DEF PiInv, PiType
<1>3. BusyOwned'
  BY <1>1, <1>2, UnclaimFrees
<1>4. \A t \in Sends : pc'[t] = IF t = q THEN "failed" ELSE pc[t]
  BY <1>2 DEF PiInv, PiType
<1> QED
  BY <1>1, <1>2, <1>3, <1>4, QuietStep DEF Waits, Taken, GivenUp

\* A send that is cancelled before its prompt is taken up gives its worker back.
LEMMA RequestCancelledKept == ASSUME PiInv, NEW q \in Sends, RequestCancelled(q) PROVE PiInv'
<1> USE DEF RequestCancelled, readVars, piVars
<1>1. pc[q] = "asked" /\ Unclaim(q) /\ UNCHANGED <<sess, worker>> /\ endedBy' = [endedBy EXCEPT ![q] = "cancelled"]
  OBVIOUS
<1>2. /\ pc' = [pc EXCEPT ![q] = "failed"] /\ PoolFits' /\ OneSession' /\ PiType'
  BY <1>1, UnclaimKept DEF PiInv, PiType
<1>3. BusyOwned'
  BY <1>1, <1>2, UnclaimFrees
<1>4. \A t \in Sends : /\ pc'[t] = IF t = q THEN "failed" ELSE pc[t]
                       /\ endedBy'[t] = IF t = q THEN "cancelled" ELSE endedBy[t]
  BY <1>1, <1>2 DEF PiInv, PiType
<1>5. Places'
  BY <1>1, <1>4, PiAssumption, PlacesKept DEF PiInv, Waits, Taken, GivenUp
<1>6. ExitIsLast'
  BY <1>1, <1>4, ExitKept DEF PiInv
<1>7. EndsOnce' /\ OwnSettled'
  BY <1>1, <1>2, EndsAs DEF PiInv, EndsOnce
<1> QED
  BY <1>2, <1>3, <1>5, <1>6, <1>7 DEF PiInv


\* A step that leaves the workers to whom they were.
LEMMA OwnersKept ==
  ASSUME PiInv, PiType', UNCHANGED <<sess, worker, poolVars>>,
         \A t \in Sends : /\ pc'[t] = "new" => pc[t] = "new"
                          /\ pc'[t] \in Running => pc[t] \in Running
                          /\ pc'[t] \in Turn <=> pc[t] \in Turn
                          /\ pc'[t] = "adding" => pc[t] = "adding"
  PROVE  PoolFits' /\ OneSession' /\ BusyOwned'
<1>1. \A s \in Sessions : pool'[s] \in {0, pool[s]}
  BY DEF poolVars
<1>2. PoolFits'
  BY <1>1, PoolKept DEF PiInv
<1>3. OneSession'
  BY <1>1, OneSessionKept DEF PiInv
<1>4. BusyOwned'
  BY <1>1, BusyKept DEF PiInv, poolVars
<1> QED
  BY <1>2, <1>3, <1>4

\* A prompt goes into the pipe of the worker that the send owns.
LEMMA RequestKept == ASSUME PiInv, NEW q \in Sends, Request(q) PROVE PiInv'
<1> USE DEF PiInv, Request, Go, poolVars, readVars
<1>1. /\ pc[q] = "claimed" /\ pc' = [pc EXCEPT ![q] = "asked"] /\ worker[q] \in Procs /\ ~exited[worker[q]]
      /\ stdin' = [stdin EXCEPT ![worker[q]] = Append(stdin[worker[q]], q)]
  BY PiProcs DEF OneSession, Running, Turn, PiType
<1> DEFINE w == worker[q]
<1>2. \A t \in Sends : pc'[t] = IF t = q THEN "asked" ELSE pc[t]
  BY <1>1 DEF PiType
<1>3. PiType'
  BY <1>1 DEF PiType, Running, Turn
<1>4. PoolFits' /\ OneSession' /\ BusyOwned'
  BY <1>1, <1>2, <1>3, OwnersKept DEF Running, Turn
<1>5. \A p \in Procs : stdin'[p] = IF p = w THEN Append(stdin[w], q) ELSE stdin[p]
  BY <1>1 DEF PiType
<1>6. stdin[w] \in Seq(Sends)
  BY <1>1 DEF PiType
<1>7. ~Waits(q) /\ ~Taken(q)
  BY <1>1 DEF Waits, Taken, GivenUp
<1>8. \A p \in Procs : ~InStdin(p, q) /\ agent[p] # q /\ \A i \in Nat : ~Signal(p, i, q)
  BY <1>7 DEF Places, PromptsWait, PromptIsTaken, SignalsWait
<1>9. \A t \in Sends : t # q => (Waits(t)' <=> Waits(t)) /\ (Taken(t)' <=> Taken(t))
  BY <1>2 DEF Waits, Taken, GivenUp
<1>10. \A p \in Procs, t \in Sends : t # q =>
         /\ InStdin(p, t)' <=> InStdin(p, t)
         /\ InStdin(p, t) => \A i \in 1..Len(stdin'[p]) : stdin'[p][i] = t => i \in 1..Len(stdin[p]) /\ stdin[p][i] = t
  BY <1>1, <1>5, <1>6 DEF InStdin
<1>11. \A p \in Procs : InStdin(p, q)' =>
         p = w /\ \A i \in 1..Len(stdin'[p]) : stdin'[p][i] = q => i = Len(stdin[w]) + 1
  BY <1>5, <1>6, <1>8 DEF InStdin
<1>12. \A p \in Procs, t \in Sends, i \in Nat : Signal(p, i, t)' <=> Signal(p, i, t)
  BY DEF Signal, Line
<1>13. endedBy[q] = None /\ None \notin Sends
  BY <1>1, PiAssumption DEF EndsOnce
<1>14. PromptsWait'
  <2>1. ASSUME NEW p \in Procs, NEW t \in Sends, InStdin(p, t)', t # q
        PROVE  /\ worker[t] = p /\ Waits(t)' /\ endedBy[t] # t
               /\ \A i, j \in 1..Len(stdin'[p]) : stdin'[p][i] = t /\ stdin'[p][j] = t => i = j
    BY <1>9, <1>10, <2>1 DEF Places, PromptsWait
  <2>2. ASSUME NEW p \in Procs, InStdin(p, q)'
        PROVE  /\ worker[q] = p /\ Waits(q)' /\ endedBy[q] # q
               /\ \A i, j \in 1..Len(stdin'[p]) : stdin'[p][i] = q /\ stdin'[p][j] = q => i = j
    BY <1>2, <1>11, <1>13, <2>2 DEF Waits
  <2> QED
    BY <2>1, <2>2 DEF PromptsWait
<1>15. PromptIsTaken'
  BY <1>8, <1>9, <1>10 DEF Places, PromptIsTaken
<1>16. SignalsWait'
  BY <1>8, <1>9, <1>10, <1>12 DEF Places, SignalsWait
<1>17. ExitIsLast'
  BY <1>1, <1>5 DEF ExitIsLast
<1>18. EndsOnce' /\ OwnSettled'
  BY <1>1, <1>2, EndsKept
<1> QED
  BY <1>3, <1>4, <1>14, <1>15, <1>16, <1>17, <1>18 DEF Places

\* The prompt at the head of a process's input is there once.
LEMMA HeadGoes ==
  ASSUME PiInv, NEW p \in Procs, stdin[p] # <<>>, stdin' = [stdin EXCEPT ![p] = Tail(@)]
  PROVE  /\ stdin' \in [Procs -> Seq(Sends)]
         /\ Head(stdin[p]) \in Sends /\ InStdin(p, Head(stdin[p]))
         /\ \A r \in Procs, t \in Sends : InStdin(r, t)' =>
              /\ InStdin(r, t) /\ t # Head(stdin[p])
              /\ \A i, j \in 1..Len(stdin'[r]) : stdin'[r][i] = t /\ stdin'[r][j] = t => i = j
<1> DEFINE h == Head(stdin[p])
<1>1. /\ stdin[p] \in Seq(Sends) /\ h = stdin[p][1] /\ h \in Sends /\ Len(stdin[p]) \in Nat /\ Len(stdin[p]) > 0
      /\ Tail(stdin[p]) \in Seq(Sends) /\ Len(Tail(stdin[p])) = Len(stdin[p]) - 1
      /\ \A i \in 1..(Len(stdin[p]) - 1) : Tail(stdin[p])[i] = stdin[p][i + 1]
  BY DEF PiInv, PiType
<1>2. stdin' \in [Procs -> Seq(Sends)] /\ \A r \in Procs : stdin'[r] = IF r = p THEN Tail(stdin[p]) ELSE stdin[r]
  BY <1>1 DEF PiInv, PiType
<1>3. InStdin(p, h)
  BY <1>1 DEF InStdin
<1>4. \A r \in Procs, t \in Sends : InStdin(r, t) =>
        worker[t] = r /\ \A i, j \in 1..Len(stdin[r]) : stdin[r][i] = t /\ stdin[r][j] = t => i = j
  BY DEF PiInv, Places, PromptsWait
<1>5. ASSUME NEW r \in Procs, NEW t \in Sends, r = p, InStdin(r, t)'
      PROVE  /\ InStdin(r, t) /\ t # h
             /\ \A i, j \in 1..Len(stdin'[r]) : stdin'[r][i] = t /\ stdin'[r][j] = t => i = j
  <2>1. PICK k \in 1..(Len(stdin[p]) - 1) : Tail(stdin[p])[k] = t
    BY <1>1, <1>2, <1>5 DEF InStdin
  <2>2. k + 1 \in 1..Len(stdin[p]) /\ stdin[p][k + 1] = t
    BY <1>1, <2>1
  <2>3. InStdin(r, t)
    BY <1>5, <2>2 DEF InStdin
  <2>4. t # h
    BY <1>1, <1>4, <1>5, <2>2, <2>3
  <2>5. ASSUME NEW i \in 1..Len(stdin'[r]), NEW j \in 1..Len(stdin'[r]), stdin'[r][i] = t, stdin'[r][j] = t
        PROVE  i = j
    <3>1. /\ i + 1 \in 1..Len(stdin[p]) /\ stdin[p][i + 1] = t
          /\ j + 1 \in 1..Len(stdin[p]) /\ stdin[p][j + 1] = t
      BY <1>1, <1>2, <1>5, <2>5
    <3>2. i + 1 = j + 1
      BY <1>4, <1>5, <2>3, <3>1
    <3> QED
      BY <3>2, <1>1
  <2> QED
    BY <2>3, <2>4, <2>5
<1>6. ASSUME NEW r \in Procs, NEW t \in Sends, r # p, InStdin(r, t)'
      PROVE  /\ InStdin(r, t) /\ t # h
             /\ \A i, j \in 1..Len(stdin'[r]) : stdin'[r][i] = t /\ stdin'[r][j] = t => i = j
  <2>1. stdin'[r] = stdin[r] /\ InStdin(r, t)
    BY <1>2, <1>6 DEF InStdin
  <2> QED
    BY <1>1, <1>3, <1>4, <1>6, <2>1
<1>7. \A r \in Procs, t \in Sends : InStdin(r, t)' =>
        /\ InStdin(r, t) /\ t # h
        /\ \A i, j \in 1..Len(stdin'[r]) : stdin'[r][i] = t /\ stdin'[r][j] = t => i = j
  <2> SUFFICES ASSUME NEW r \in Procs, NEW t \in Sends, InStdin(r, t)'
               PROVE  /\ InStdin(r, t) /\ t # h
                      /\ \A i, j \in 1..Len(stdin'[r]) : stdin'[r][i] = t /\ stdin'[r][j] = t => i = j
    OBVIOUS
  <2>1. CASE r = p
    BY <1>5, <2>1
  <2>2. CASE r # p
    BY <1>6, <2>2
  <2> QED
    BY <2>1, <2>2
<1> QED
  BY <1>1, <1>2, <1>3, <1>7

\* What stands in a pipe is the prompt of a send.
LEMMA HeadIsSend == ASSUME PiInv, NEW p \in Procs, stdin[p] # <<>> PROVE Head(stdin[p]) \in Sends
BY DEF PiInv, PiType

\* The process takes up the prompt at the head of its pipe.
LEMMA TakePromptKept == ASSUME PiInv, NEW p \in Procs, TakePrompt(p) PROVE PiInv'
<1>0. PICK h \in Sends : h = Head(stdin[p])
  BY HeadIsSend DEF TakePrompt
<1>1. /\ UNCHANGED <<sess, worker, dialog, endedBy, cancelled, poolVars, events, held, closed, exited>>
      /\ stdin[p] # <<>> /\ stdin' = [stdin EXCEPT ![p] = Tail(@)] /\ agent[p] = None /\ ~exited[p]
      /\ agent' = [agent EXCEPT ![p] = h] /\ ui' = [ui EXCEPT ![p] = "none"]
      /\ pc' = IF pc[h] = "asked" THEN [pc EXCEPT ![h] = "reading"] ELSE pc
  BY <1>0 DEF TakePrompt, readVars
<1>2. /\ stdin' \in [Procs -> Seq(Sends)] /\ h \in Sends /\ InStdin(p, h)
      /\ \A r \in Procs, t \in Sends : InStdin(r, t)' =>
           /\ InStdin(r, t) /\ t # h
           /\ \A i, j \in 1..Len(stdin'[r]) : stdin'[r][i] = t /\ stdin'[r][j] = t => i = j
  <2>1. /\ stdin' \in [Procs -> Seq(Sends)] /\ InStdin(p, Head(stdin[p]))
        /\ \A r \in Procs, t \in Sends : InStdin(r, t)' =>
             /\ InStdin(r, t) /\ t # Head(stdin[p])
             /\ \A i, j \in 1..Len(stdin'[r]) : stdin'[r][i] = t /\ stdin'[r][j] = t => i = j
    BY <1>1, HeadGoes
  <2> QED
    BY <1>0, <2>1
<1>3. worker[h] = p /\ Waits(h) /\ endedBy[h] # h
  BY <1>2 DEF PiInv, Places, PromptsWait
<1> USE DEF PiInv
<1>4. \A t \in Sends : pc'[t] = IF t = h /\ pc[h] = "asked" THEN "reading" ELSE pc[t]
  BY <1>1, <1>2 DEF PiType
<1>5. \A r \in Procs : agent'[r] = IF r = p THEN h ELSE agent[r]
  BY <1>1 DEF PiType
<1>6. PiType'
  BY <1>1, <1>2 DEF PiType, poolVars, Running, Turn
<1>7. PoolFits' /\ OneSession' /\ BusyOwned'
  BY <1>1, <1>4, <1>6, OwnersKept DEF Running, Turn
<1>8. \A t \in Sends : /\ t # h => (Waits(t)' <=> Waits(t))
                       /\ Taken(t) => Taken(t)'
  BY <1>1, <1>4 DEF Waits, Taken, GivenUp
<1>9. Taken(h)'
  BY <1>1, <1>2, <1>3, <1>4 DEF Waits, Taken, GivenUp
<1>10. \A r \in Procs, t \in Sends, i \in Nat : (Signal(r, i, t)' <=> Signal(r, i, t)) /\ (Signal(r, i, h) => r # p)
  <2>1. \A r \in Procs, t \in Sends, i \in Nat : Signal(r, i, t)' <=> Signal(r, i, t)
    BY <1>1 DEF Signal, Line
  <2>2. \A i \in Nat : ~Signal(p, i, h)
    BY <1>2 DEF Places, SignalsWait
  <2> QED
    BY <2>1, <2>2
<1>11. PromptsWait'
  <2>1. ASSUME NEW r \in Procs, NEW t \in Sends, InStdin(r, t)'
        PROVE  /\ worker[t] = r /\ Waits(t)' /\ endedBy[t] # t
               /\ \A i, j \in 1..Len(stdin'[r]) : stdin'[r][i] = t /\ stdin'[r][j] = t => i = j
    <3>1. /\ InStdin(r, t) /\ t # h
          /\ \A i, j \in 1..Len(stdin'[r]) : stdin'[r][i] = t /\ stdin'[r][j] = t => i = j
      BY <1>0, <1>2, <2>1
    <3>2. worker[t] = r /\ Waits(t) /\ endedBy[t] # t
      BY <3>1 DEF Places, PromptsWait
    <3> QED
      BY <1>8, <3>1, <3>2
  <2>2. worker' = worker /\ endedBy' = endedBy
    BY <1>1
  <2> QED
    BY <2>1, <2>2 DEF PromptsWait
<1>12. PromptIsTaken'
  <2>1. ASSUME NEW r \in Procs, NEW t \in Sends, agent'[r] = t
        PROVE  worker[t] = r /\ Taken(t)' /\ endedBy[t] # t /\ ~InStdin(r, t)'
    <3>1. CASE r = p
      <4>1. t = h /\ r = p
        BY <1>5, <2>1, <3>1
      <4>2. ~InStdin(p, h)'
        BY <1>2
      <4> QED
        BY <1>1, <1>3, <1>9, <4>1, <4>2 DEF InStdin, Taken, GivenUp
    <3>2. CASE r # p
      BY <1>2, <1>5, <1>8, <2>1, <3>2 DEF Places, PromptIsTaken
    <3> QED
      BY <3>1, <3>2
  <2> QED
    BY <1>1, <2>1 DEF PromptIsTaken
<1>13. SignalsWait'
  <2>1. ASSUME NEW r \in Procs, NEW t \in Sends, NEW i \in Nat, Signal(r, i, t)'
        PROVE  /\ worker'[t] = r /\ Taken(t)' /\ endedBy'[t] # t /\ ~InStdin(r, t)' /\ agent'[r] # t
               /\ \A j \in Nat : Signal(r, j, t)' => i = j
    <3>1. Signal(r, i, t) /\ (t = h => r # p)
      BY <1>10, <2>1
    <3>2. /\ worker[t] = r /\ Taken(t) /\ endedBy[t] # t /\ ~InStdin(r, t) /\ agent[r] # t
          /\ \A j \in Nat : Signal(r, j, t) => i = j
      BY <3>1 DEF Places, SignalsWait
    <3>3. agent'[r] # t /\ ~InStdin(r, t)' /\ Taken(t)'
      BY <1>2, <1>5, <1>8, <3>1, <3>2
    <3>4. \A j \in Nat : Signal(r, j, t)' => i = j
      BY <1>10, <3>2
    <3> QED
      BY <1>1, <3>2, <3>3, <3>4
  <2> QED
    BY <2>1 DEF SignalsWait
<1>14. ExitIsLast'
  <2>1. \A r \in Procs : stdin[r] = <<>> /\ r # p => stdin'[r] = <<>>
    BY <1>1 DEF PiType
  <2> QED
    BY <1>1, <1>5, <2>1 DEF ExitIsLast
<1>15. EndsOnce' /\ OwnSettled'
  BY <1>1, <1>4, EndsKept
<1> QED
  BY <1>6, <1>7, <1>11, <1>12, <1>13, <1>14, <1>15 DEF Places

\* The process refuses a prompt: its answer is an event of that send.
LEMMA RefuseKept == ASSUME PiInv, NEW p \in Procs, Refuse(p) PROVE PiInv'
<1>0. PICK h \in Sends : h = Head(stdin[p])
  BY HeadIsSend DEF Refuse
<1>1. /\ UNCHANGED <<sess, worker, dialog, endedBy, cancelled, events, held, closed, exited, agent, ui>>
      /\ stdin[p] # <<>> /\ stdin' = [stdin EXCEPT ![p] = Tail(@)] /\ ~exited[p]
      /\ (pc[h] = "asked" /\ Unclaim(h)) \/ (UNCHANGED <<pc, poolVars>> /\ pc[h] # "asked")
  BY <1>0 DEF Refuse, readVars
<1>2. /\ stdin' \in [Procs -> Seq(Sends)] /\ h \in Sends
      /\ \A r \in Procs, t \in Sends : InStdin(r, t)' =>
           /\ InStdin(r, t) /\ t # h
           /\ \A i, j \in 1..Len(stdin'[r]) : stdin'[r][i] = t /\ stdin'[r][j] = t => i = j
  <2>1. /\ stdin' \in [Procs -> Seq(Sends)] /\ InStdin(p, Head(stdin[p]))
        /\ \A r \in Procs, t \in Sends : InStdin(r, t)' =>
             /\ InStdin(r, t) /\ t # Head(stdin[p])
             /\ \A i, j \in 1..Len(stdin'[r]) : stdin'[r][i] = t /\ stdin'[r][j] = t => i = j
    BY <1>1, HeadGoes
  <2> QED
    BY <1>0, <2>1
<1>3. /\ \A t \in Sends : pc'[t] = IF t = h /\ pc[h] = "asked" THEN "failed" ELSE pc[t]
      /\ PiType' /\ PoolFits' /\ OneSession' /\ BusyOwned'
  <2>1. CASE pc[h] = "asked" /\ Unclaim(h)
    <3>1. /\ pc' = [pc EXCEPT ![h] = "failed"] /\ PoolFits' /\ OneSession' /\ PiType'
      BY <1>1, <1>2, <2>1, UnclaimKept DEF PiInv, PiType
    <3>2. BusyOwned'
      BY <1>1, <1>2, <2>1, <3>1, UnclaimFrees
    <3> QED
      BY <2>1, <3>1, <3>2 DEF PiInv, PiType
  <2>2. CASE UNCHANGED <<pc, poolVars>> /\ pc[h] # "asked"
    <3>1. PiType'
      BY <1>1, <1>2, <2>2 DEF PiInv, PiType, poolVars
    <3>2. PoolFits' /\ OneSession' /\ BusyOwned'
      BY <1>1, <2>2, <3>1, OwnersKept
    <3> QED
      BY <2>2, <3>1, <3>2
  <2> QED
    BY <1>1, <2>1, <2>2
<1> USE DEF PiInv
<1>4. \A t \in Sends : /\ t # h => (Waits(t)' <=> Waits(t))
                       /\ Taken(t) => Taken(t)'
  BY <1>1, <1>3 DEF Waits, Taken, GivenUp
<1>5. \A r \in Procs, t \in Sends, i \in Nat : Signal(r, i, t)' <=> Signal(r, i, t)
  BY <1>1 DEF Signal, Line
<1>6. PromptsWait'
  <2>1. ASSUME NEW r \in Procs, NEW t \in Sends, InStdin(r, t)'
        PROVE  /\ worker[t] = r /\ Waits(t)' /\ endedBy[t] # t
               /\ \A i, j \in 1..Len(stdin'[r]) : stdin'[r][i] = t /\ stdin'[r][j] = t => i = j
    <3>1. /\ InStdin(r, t) /\ t # h
          /\ \A i, j \in 1..Len(stdin'[r]) : stdin'[r][i] = t /\ stdin'[r][j] = t => i = j
      BY <1>0, <1>2, <2>1
    <3>2. worker[t] = r /\ Waits(t) /\ endedBy[t] # t
      BY <3>1 DEF Places, PromptsWait
    <3> QED
      BY <1>4, <3>1, <3>2
  <2>2. worker' = worker /\ endedBy' = endedBy
    BY <1>1
  <2> QED
    BY <2>1, <2>2 DEF PromptsWait
<1>7. PromptIsTaken'
  BY <1>1, <1>2, <1>4 DEF Places, PromptIsTaken
<1>8. SignalsWait'
  BY <1>1, <1>2, <1>4, <1>5 DEF Places, SignalsWait
<1>9. ExitIsLast'
  <2>1. \A r \in Procs : stdin[r] = <<>> /\ r # p => stdin'[r] = <<>>
    BY <1>1 DEF PiType
  <2> QED
    BY <1>1, <2>1 DEF ExitIsLast
<1>10. EndsOnce' /\ OwnSettled'
  BY <1>1, <1>3, EndsKept
<1> QED
  BY <1>3, <1>6, <1>7, <1>8, <1>9, <1>10 DEF Places


\* What a process says goes to the end of what is on its way.
LEMMA LineGrows ==
  ASSUME PiInv, NEW p \in Procs, NEW e \in Event, Emit(p, e)
  PROVE  /\ events' \in [Procs -> Seq(Event)] /\ held' \in [Procs -> Seq(Event)]
         /\ \A r \in Procs : Len(events'[r]) <= EventCap /\ Len(held'[r]) <= 1
         /\ \A r \in Procs : r # p => events'[r] = events[r] /\ held'[r] = held[r]
         /\ \A r \in Procs, t \in Sends, i \in Nat :
              Signal(r, i, t)' => \/ Signal(r, i, t)
                                  \/ r = p /\ e = [type |-> "settled", of |-> t] /\ i = Len(events[p]) + 1
<1> USE DEF PiInv
<1>1. /\ events[p] \in Seq(Event) /\ held[p] = <<>> /\ Len(events[p]) <= EventCap /\ EventCap \in Nat \ {0}
      /\ Len(events[p]) \in Nat
  BY PiAssumption DEF Emit, PiType
<1>2. \/ /\ Len(events[p]) < EventCap
         /\ events' = [events EXCEPT ![p] = Append(events[p], e)] /\ held' = held
      \/ events' = events /\ held' = [held EXCEPT ![p] = <<e>>]
  BY DEF Emit
<1>3. Append(events[p], e) \in Seq(Event) /\ Len(Append(events[p], e)) = Len(events[p]) + 1
  BY <1>1
<1>4. events' \in [Procs -> Seq(Event)] /\ held' \in [Procs -> Seq(Event)]
  <2>1. <<e>> \in Seq(Event)
    OBVIOUS
  <2> QED
    BY <2>1, <1>2, <1>3 DEF PiType
<1>5. \A r \in Procs : r # p => events'[r] = events[r] /\ held'[r] = held[r]
  BY <1>2 DEF PiType
<1>6. \/ events'[p] = Append(events[p], e) /\ held'[p] = <<>> /\ Len(events[p]) < EventCap
      \/ events'[p] = events[p] /\ held'[p] = <<e>>
  BY <1>1, <1>2 DEF PiType
<1>7. \A r \in Procs : Len(events'[r]) <= EventCap /\ Len(held'[r]) <= 1
  <2>1. Len(events'[p]) <= EventCap /\ Len(held'[p]) <= 1
    <3>1. CASE events'[p] = Append(events[p], e) /\ held'[p] = <<>> /\ Len(events[p]) < EventCap
      <4>1. Len(events'[p]) = Len(events[p]) + 1
        BY <1>3, <3>1
      <4>2. Len(held'[p]) = 0
        BY <3>1
      <4> QED
        BY <1>1, <3>1, <4>1, <4>2
    <3>2. CASE events'[p] = events[p] /\ held'[p] = <<e>>
      <4>1. Len(held'[p]) = 1
        BY <3>2
      <4>2. Len(events'[p]) <= EventCap
        BY <1>1, <3>2
      <4> QED
        BY <4>1, <4>2
    <3> QED
      BY <1>6, <3>1, <3>2
  <2> QED
    BY <2>1, <1>5 DEF PiType
<1>8. ASSUME NEW t \in Sends, NEW i \in Nat, Signal(p, i, t)'
      PROVE  Signal(p, i, t) \/ (e = [type |-> "settled", of |-> t] /\ i = Len(events[p]) + 1)
  <2>1. events'[p] \o held'[p] = Append(events[p], e)
    <3>1. Append(events[p], e) \o <<>> = Append(events[p], e)
      BY <1>3
    <3>2. events[p] \o <<e>> = Append(events[p], e)
      BY <1>1
    <3> QED
      BY <1>6, <3>1, <3>2
  <2>2. events[p] \o held[p] = events[p]
    BY <1>1
  <2> QED
    BY <1>1, <1>8, <2>1, <2>2 DEF Signal, Line
<1>9. \A r \in Procs, t \in Sends, i \in Nat : r # p /\ Signal(r, i, t)' => Signal(r, i, t)
  BY <1>5 DEF Signal, Line
<1>10. ASSUME NEW r \in Procs, NEW t \in Sends, NEW i \in Nat, Signal(r, i, t)'
       PROVE  Signal(r, i, t) \/ (r = p /\ e = [type |-> "settled", of |-> t] /\ i = Len(events[p]) + 1)
  <2>1. CASE r # p
    BY <1>9, <1>10, <2>1
  <2>2. CASE r = p
    BY <1>8, <1>10, <2>2
  <2> QED
    BY <2>1, <2>2
<1> QED
  BY <1>4, <1>5, <1>7, <1>10

\* The process asks: the dialog is of the turn it executes.
LEMMA AskKept == ASSUME PiInv, NEW p \in Procs, Ask(p) PROVE PiInv'
<1> DEFINE e == [type |-> "ask", of |-> agent[p]]
<1> USE DEF PiInv
<1>1. /\ UNCHANGED <<sess, sendVars, cancelled, poolVars, closed, exited, stdin, agent>>
      /\ ui' = [ui EXCEPT ![p] = "open"] /\ ~exited[p] /\ Emit(p, e) /\ e \in Event
  BY DEF Ask, Emit, Event, PiType
<1>2. \A t \in Sends : e # [type |-> "settled", of |-> t]
  <2>1. e.type = "ask"
    OBVIOUS
  <2> QED
    BY <2>1
<1> HIDE DEF e
<1>3. /\ events' \in [Procs -> Seq(Event)] /\ held' \in [Procs -> Seq(Event)]
      /\ \A r \in Procs : Len(events'[r]) <= EventCap /\ Len(held'[r]) <= 1
      /\ \A r \in Procs : r # p => events'[r] = events[r] /\ held'[r] = held[r]
      /\ \A r \in Procs, t \in Sends, i \in Nat : Signal(r, i, t)' => Signal(r, i, t)
  BY <1>1, <1>2, LineGrows
<1>4. PiType'
  BY <1>1, <1>3 DEF PiType, sendVars, poolVars
<1>5. PoolFits' /\ OneSession' /\ BusyOwned'
  BY <1>1, <1>4, OwnersKept DEF sendVars
<1>6. /\ \A t \in Sends : (Waits(t)' <=> Waits(t)) /\ (Taken(t)' <=> Taken(t))
      /\ \A r \in Procs, t \in Sends : InStdin(r, t)' <=> InStdin(r, t)
  BY <1>1 DEF Waits, Taken, GivenUp, InStdin, sendVars
<1>7. Places'
  <2>1. PromptsWait'
    BY <1>1, <1>6 DEF Places, PromptsWait, sendVars
  <2>2. PromptIsTaken'
    BY <1>1, <1>6 DEF Places, PromptIsTaken, sendVars
  <2>3. SignalsWait'
    <3>1. ASSUME NEW r \in Procs, NEW t \in Sends, NEW i \in Nat, Signal(r, i, t)'
          PROVE  /\ worker[t] = r /\ Taken(t) /\ endedBy[t] # t /\ ~InStdin(r, t) /\ agent[r] # t
                 /\ \A j \in Nat : Signal(r, j, t)' => i = j
      <4>1. Signal(r, i, t) /\ \A j \in Nat : Signal(r, j, t)' => Signal(r, j, t)
        BY <1>3, <3>1
      <4> QED
        BY <4>1 DEF Places, SignalsWait
    <3>2. worker' = worker /\ endedBy' = endedBy /\ agent' = agent
      BY <1>1 DEF sendVars
    <3> QED
      BY <1>6, <3>1, <3>2 DEF SignalsWait
  <2> QED
    BY <2>1, <2>2, <2>3 DEF Places
<1>8. ExitIsLast'
  BY <1>1, <1>3 DEF ExitIsLast, sendVars
<1>9. EndsOnce' /\ OwnSettled'
  BY <1>1 DEF EndsOnce, OwnSettled, sendVars
<1> QED
  BY <1>4, <1>5, <1>7, <1>8, <1>9

\* The process settles the turn it executes.
LEMMA SettleKept == ASSUME PiInv, NEW p \in Procs, Settle(p) PROVE PiInv'
<1>0. PICK a \in Sends : a = agent[p]
  BY DEF PiInv, PiType, Settle
<1> DEFINE e == [type |-> "settled", of |-> a]
<1> USE DEF PiInv
<1>1. /\ UNCHANGED <<sess, sendVars, cancelled, poolVars, closed, exited, stdin, ui>>
      /\ agent' = [agent EXCEPT ![p] = None] /\ ~exited[p] /\ Emit(p, e) /\ e \in Event
  BY <1>0 DEF Settle, Emit, Event
<1>2. \A t \in Sends : e = [type |-> "settled", of |-> t] => t = a
  <2>1. e.of = a
    OBVIOUS
  <2>2. \A t \in Sends : [type |-> "settled", of |-> t].of = t
    OBVIOUS
  <2> QED
    BY <2>1, <2>2
<1> HIDE DEF e
<1>3. /\ events' \in [Procs -> Seq(Event)] /\ held' \in [Procs -> Seq(Event)]
      /\ \A r \in Procs : Len(events'[r]) <= EventCap /\ Len(held'[r]) <= 1
      /\ \A r \in Procs : r # p => events'[r] = events[r] /\ held'[r] = held[r]
      /\ \A r \in Procs, t \in Sends, i \in Nat :
           Signal(r, i, t)' => Signal(r, i, t) \/ (r = p /\ t = a /\ i = Len(events[p]) + 1)
  BY <1>1, <1>2, LineGrows
<1>4. \A r \in Procs : agent'[r] = IF r = p THEN None ELSE agent[r]
  BY <1>1 DEF PiType
<1>5. PiType'
  BY <1>1, <1>3 DEF PiType, sendVars, poolVars
<1>6. PoolFits' /\ OneSession' /\ BusyOwned'
  BY <1>1, <1>5, OwnersKept DEF sendVars
<1>7. /\ \A t \in Sends : (Waits(t)' <=> Waits(t)) /\ (Taken(t)' <=> Taken(t))
      /\ \A r \in Procs, t \in Sends : InStdin(r, t)' <=> InStdin(r, t)
  BY <1>1 DEF Waits, Taken, GivenUp, InStdin, sendVars
<1>8. PromptsWait'
  BY <1>1, <1>7 DEF Places, PromptsWait, sendVars
<1>9. PromptIsTaken'
  BY <1>1, <1>4, <1>7, PiAssumption DEF Places, PromptIsTaken, sendVars
<1>10. /\ worker[a] = p /\ Taken(a) /\ endedBy[a] # a /\ ~InStdin(p, a)
       /\ \A r \in Procs, i \in Nat : ~Signal(r, i, a)
       /\ \A r \in Procs : agent'[r] # a
  BY <1>0, <1>4, PiAssumption DEF Places, PromptIsTaken, SignalsWait
<1>11. SignalsWait'
  <2>1. ASSUME NEW r \in Procs, NEW t \in Sends, NEW i \in Nat, Signal(r, i, t)', t = a
        PROVE  /\ worker[t] = r /\ Taken(t) /\ endedBy[t] # t /\ ~InStdin(r, t) /\ agent'[r] # t
               /\ \A j \in Nat : Signal(r, j, t)' => i = j
    BY <1>3, <1>10, <2>1
  <2>2. ASSUME NEW r \in Procs, NEW t \in Sends, NEW i \in Nat, Signal(r, i, t)', t # a
        PROVE  /\ worker[t] = r /\ Taken(t) /\ endedBy[t] # t /\ ~InStdin(r, t) /\ agent'[r] # t
               /\ \A j \in Nat : Signal(r, j, t)' => i = j
    <3>1. Signal(r, i, t) /\ \A j \in Nat : Signal(r, j, t)' => Signal(r, j, t)
      BY <1>3, <2>2
    <3> QED
      BY <3>1, <1>4, PiAssumption DEF Places, SignalsWait
  <2>3. worker' = worker /\ endedBy' = endedBy
    BY <1>1 DEF sendVars
  <2> QED
    BY <1>7, <2>1, <2>2, <2>3 DEF SignalsWait
<1>12. ExitIsLast'
  BY <1>1, <1>3, <1>4 DEF ExitIsLast, sendVars
<1>13. EndsOnce' /\ OwnSettled'
  BY <1>1 DEF EndsOnce, OwnSettled, sendVars
<1> QED
  BY <1>5, <1>6, <1>8, <1>9, <1>11, <1>12, <1>13 DEF Places

\* An abort withdraws the dialog of the turn.
LEMMA AbortKept == ASSUME PiInv, NEW p \in Procs, Abort(p) PROVE PiInv'
<1> USE DEF Abort, sendVars, readVars
<1>1. PiType'
  BY DEF PiInv, PiType, poolVars
<1>2. PoolFits' /\ OneSession' /\ BusyOwned'
  BY <1>1, OwnersKept
<1> QED
  BY <1>1, <1>2, QuietStep DEF Waits, Taken, GivenUp

\* A send's context ends.
LEMMA CancelKept == ASSUME PiInv, NEW q \in Sends, Cancel(q) PROVE PiInv'
<1> USE DEF Cancel, sendVars, readVars, piVars
<1>1. PiType'
  BY DEF PiInv, PiType, poolVars
<1>2. PoolFits' /\ OneSession' /\ BusyOwned'
  BY <1>1, OwnersKept
<1> QED
  BY <1>1, <1>2, QuietStep DEF Waits, Taken, GivenUp

\* A session is killed: its worker leaves the pool and is stopped.
LEMMA KillKept == ASSUME PiInv, NEW s \in Sessions, Kill(s) PROVE PiInv'
<1> USE DEF Kill, sendVars, readVars, piVars
<1>1. \A r \in Sessions : pool'[r] \in {0, pool[r]}
  BY DEF Remove, PiInv, PiType
<1>2. pool' \in [Sessions -> 0..spawned]
  <2>1. pool \in [Sessions -> 0..spawned] /\ spawned \in Nat
    BY PiProcs DEF PiInv, PiType
  <2> QED
    BY <2>1 DEF Remove
<1>3. stops' \subseteq 1..spawned
  <2>1. pool[s] \in 0..spawned /\ pool[s] # 0 /\ spawned \in Nat
    BY PiProcs DEF PiInv, PiType
  <2>2. pool[s] \in 1..spawned
    BY <2>1
  <2> QED
    BY <2>2 DEF PiInv, PiType
<1>4. PiType'
  BY <1>2, <1>3 DEF PiInv, PiType
<1>5. PoolFits' /\ OneSession' /\ BusyOwned'
  BY <1>1, <1>4, PoolKept, OneSessionKept, BusyKept DEF PiInv
<1> QED
  BY <1>4, <1>5, QuietStep DEF Waits, Taken, GivenUp

\* A process exits, with what it has said still to be read.
LEMMA ExitKeeps == ASSUME PiInv, NEW p \in Procs, Exit(p) PROVE PiInv'
<1> USE DEF PiInv, Exit, sendVars, readVars
<1>1. \A r \in Procs : /\ r # p => stdin'[r] = stdin[r] /\ agent'[r] = agent[r] /\ exited'[r] = exited[r]
                       /\ r = p => stdin'[r] = <<>> /\ agent'[r] = None /\ exited'[r]
  BY DEF PiType
<1>2. PiType'
  <2>1. <<>> \in Seq(Sends)
    OBVIOUS
  <2> QED
    BY <2>1 DEF PiType, poolVars
<1>3. PoolFits' /\ OneSession' /\ BusyOwned'
  BY <1>2, OwnersKept
<1>4. /\ \A t \in Sends : (Waits(t)' <=> Waits(t)) /\ (Taken(t)' <=> Taken(t))
      /\ \A r \in Procs, t \in Sends : InStdin(r, t)' => InStdin(r, t) /\ stdin'[r] = stdin[r]
      /\ \A r \in Procs, t \in Sends, i \in Nat : Signal(r, i, t)' <=> Signal(r, i, t)
  <2>1. \A t \in Sends : (Waits(t)' <=> Waits(t)) /\ (Taken(t)' <=> Taken(t))
    BY DEF Waits, Taken, GivenUp
  <2>2. \A r \in Procs, t \in Sends : InStdin(r, t)' => InStdin(r, t) /\ stdin'[r] = stdin[r]
    BY <1>1 DEF InStdin
  <2>3. \A r \in Procs, t \in Sends, i \in Nat : Signal(r, i, t)' <=> Signal(r, i, t)
    BY DEF Signal, Line
  <2> QED
    BY <2>1, <2>2, <2>3
<1>5. PromptsWait'
  BY <1>4 DEF Places, PromptsWait
<1>6. PromptIsTaken'
  BY <1>1, <1>4, PiAssumption DEF Places, PromptIsTaken
<1>7. SignalsWait'
  BY <1>1, <1>4, PiAssumption DEF Places, SignalsWait
<1>8. ExitIsLast'
  BY <1>1 DEF ExitIsLast
<1>9. EndsOnce' /\ OwnSettled'
  BY DEF EndsOnce, OwnSettled
<1> QED
  BY <1>2, <1>3, <1>5, <1>6, <1>7, <1>8, <1>9 DEF Places

\* The reader of a process closes its channel after the last event.
LEMMA CloseEventsKept == ASSUME PiInv, NEW p \in Procs, CloseEvents(p) PROVE PiInv'
<1> USE DEF CloseEvents, readVars, piVars
<1>1. /\ UNCHANGED <<sess, worker, dialog, endedBy, cancelled, events, held, exited, stdin, agent, ui>>
      /\ closed' = [closed EXCEPT ![p] = TRUE] /\ exited[p] /\ held[p] = <<>>
      /\ \/ \E q \in Sends : worker[q] = p /\ pc[q] = "asked" /\ Unclaim(q)
         \/ UNCHANGED <<pc, poolVars>>
  BY DEF FailRequests
<1>2. /\ \A t \in Sends : pc'[t] = pc[t] \/ (worker[t] = p /\ pc[t] = "asked" /\ pc'[t] = "failed")
      /\ PiType' /\ PoolFits' /\ OneSession' /\ BusyOwned'
  <2>1. ASSUME NEW q \in Sends, worker[q] = p, pc[q] = "asked", Unclaim(q)
        PROVE  /\ \A t \in Sends : pc'[t] = pc[t] \/ (worker[t] = p /\ pc[t] = "asked" /\ pc'[t] = "failed")
               /\ PiType' /\ PoolFits' /\ OneSession' /\ BusyOwned'
    <3>1. pc' = [pc EXCEPT ![q] = "failed"] /\ PoolFits' /\ OneSession' /\ PiType'
      BY <1>1, <2>1, UnclaimKept DEF PiInv, PiType
    <3>2. BusyOwned'
      BY <1>1, <2>1, <3>1, UnclaimFrees
    <3> QED
      BY <2>1, <3>1, <3>2 DEF PiInv, PiType
  <2>2. CASE UNCHANGED <<pc, poolVars>>
    <3>1. PiType'
      BY <1>1, <2>2 DEF PiInv, PiType, poolVars
    <3> QED
      BY <1>1, <2>2, <3>1, OwnersKept
  <2> QED
    BY <1>1, <2>1, <2>2
<1>3. \A t \in Sends, r \in Procs : InStdin(r, t) => worker[t] = r /\ stdin[r] # <<>>
  BY DEF PiInv, Places, PromptsWait, InStdin
<1>4. stdin[p] = <<>>
  BY <1>1 DEF PiInv, ExitIsLast
<1>5. Places'
  BY <1>1, <1>2, <1>3, <1>4, PlacesKept DEF PiInv, Waits, Taken, GivenUp
<1>6. ExitIsLast'
  <2>1. \A r \in Procs : closed'[r] <=> closed[r] \/ r = p
    BY <1>1 DEF PiInv, PiType
  <2> QED
    BY <1>1, <2>1 DEF PiInv, ExitIsLast
<1>7. EndsOnce' /\ OwnSettled'
  BY <1>1, <1>2, EndsKept DEF PiInv
<1> QED
  BY <1>2, <1>5, <1>6, <1>7 DEF PiInv


\* The goroutine of a turn frees the worker as it ends.
LEMMA EndTurnKept ==
  ASSUME PiInv, NEW q \in Sends, NEW how \in Sends \cup {"exit", "cancelled"}, pc[q] = "reading", EndTurn(q, how),
         events' \in [Procs -> Seq(Event)], held' \in [Procs -> Seq(Event)], UNCHANGED closed,
         \A r \in Procs : Len(events'[r]) <= EventCap /\ Len(held'[r]) <= 1
  PROVE  /\ PiType' /\ PoolFits' /\ OneSession' /\ BusyOwned'
         /\ pc' = [pc EXCEPT ![q] = "over"] /\ endedBy' = [endedBy EXCEPT ![q] = how]
         /\ \A t \in Sends : pc'[t] = IF t = q THEN "over" ELSE pc[t]
         /\ \A t \in Sends : endedBy'[t] = IF t = q THEN how ELSE endedBy[t]
         /\ UNCHANGED <<sess, worker, dialog, cancelled, pool, spawned, stops, exited, stdin, agent, ui>>
<1> USE DEF PiInv
<1>1. /\ pc' = [pc EXCEPT ![q] = "over"] /\ endedBy' = [endedBy EXCEPT ![q] = how]
      /\ UNCHANGED <<sess, worker, dialog, cancelled, pool, spawned, stops, exited, stdin, agent, ui>>
      /\ \/ busy' = [busy EXCEPT ![worker[q]] = FALSE]
         \/ busy' = busy /\ pool[sess[q]] # worker[q]
  BY DEF EndTurn, Go, piVars
<1>2. busy' \in [Procs -> BOOLEAN]
  BY <1>1 DEF PiType
<1>3. \A t \in Sends : pc'[t] = IF t = q THEN "over" ELSE pc[t]
  BY <1>1 DEF PiType
<1>4. \A t \in Sends : endedBy'[t] = IF t = q THEN how ELSE endedBy[t]
  BY <1>1 DEF PiType
<1>5. PiType'
  <2>1. pc' \in [Sends -> {"new", "over", "failed"} \cup Running]
    BY <1>1 DEF PiType
  <2>2. endedBy' \in [Sends -> Sends \cup {None, "exit", "cancelled"}]
    BY <1>1 DEF PiType
  <2> QED
    BY <1>1, <1>2, <2>1, <2>2 DEF PiType
<1>6. \A s \in Sessions : pool'[s] \in {0, pool[s]}
  BY <1>1 DEF PiType
<1>7. PoolFits'
  BY <1>6, PoolKept
<1>8. OneSession'
  BY <1>1, <1>3, <1>6, OneSessionKept DEF Running, Turn
<1>9. BusyOwned'
  BY <1>1, <1>3, <1>5, <1>6, BusyFreed DEF Running, Turn
<1> QED
  BY <1>1, <1>3, <1>4, <1>5, <1>7, <1>8, <1>9

\* The two parts of a line without its first element.
LEMMA RestOf ==
  ASSUME NEW S, NEW a \in Seq(S), NEW b \in Seq(S), Len(a) > 0
  PROVE  /\ Tail(a) \o b \in Seq(S) /\ Len(Tail(a) \o b) = Len(a) - 1 + Len(b)
         /\ \A i \in 1..Len(Tail(a) \o b) : (Tail(a) \o b)[i] = (a \o b)[i + 1] /\ i + 1 \in 1..Len(a \o b)
         /\ 1 \in 1..Len(a \o b) /\ (a \o b)[1] = a[1] /\ a[1] \in S
<1>1. /\ Len(a) \in Nat /\ Len(b) \in Nat /\ Tail(a) \in Seq(S) /\ Len(Tail(a)) = Len(a) - 1
      /\ \A i \in 1..(Len(a) - 1) : Tail(a)[i] = a[i + 1]
  OBVIOUS
<1>2. /\ Tail(a) \o b \in Seq(S) /\ Len(Tail(a) \o b) = Len(a) - 1 + Len(b)
      /\ Len(a \o b) = Len(a) + Len(b)
  BY <1>1
<1>3. \A i \in 1..(Len(a) + Len(b)) : (a \o b)[i] = IF i <= Len(a) THEN a[i] ELSE b[i - Len(a)]
  BY <1>1
<1>4. \A i \in 1..(Len(a) - 1 + Len(b)) :
        (Tail(a) \o b)[i] = IF i <= Len(a) - 1 THEN Tail(a)[i] ELSE b[i - (Len(a) - 1)]
  BY <1>1
<1>5. ASSUME NEW i \in 1..(Len(a) - 1 + Len(b)) PROVE (Tail(a) \o b)[i] = (a \o b)[i + 1] /\ i + 1 \in 1..(Len(a) + Len(b))
  <2>1. i + 1 \in 1..(Len(a) + Len(b)) /\ (i + 1) - Len(a) = i - (Len(a) - 1)
    BY <1>1
  <2>2. CASE i <= Len(a) - 1
    BY <1>1, <1>3, <1>4, <2>1, <2>2
  <2>3. CASE i > Len(a) - 1
    BY <1>1, <1>3, <1>4, <2>1, <2>3
  <2> QED
    BY <1>1, <2>1, <2>2, <2>3
<1> QED
  BY <1>1, <1>2, <1>3, <1>5

\* A receive takes the first event, and the rest stand in their order.
LEMMA LineShrinks ==
  ASSUME PiInv, NEW p \in Procs, events[p] # <<>>, Receive(p)
  PROVE  /\ events' \in [Procs -> Seq(Event)] /\ held' \in [Procs -> Seq(Event)] /\ UNCHANGED closed
         /\ \A r \in Procs : Len(events'[r]) <= EventCap /\ Len(held'[r]) <= 1
         /\ \A r \in Procs : r # p => events'[r] = events[r] /\ held'[r] = held[r]
         /\ held'[p] = <<>>
         /\ \A r \in Procs, t \in Sends, i \in Nat :
              Signal(r, i, t)' => IF r = p THEN Signal(r, i + 1, t) ELSE Signal(r, i, t)
         /\ events[p][1] \in Event
         /\ events[p][1].type = "settled" => Signal(p, 1, events[p][1].of)
<1> USE DEF PiInv
<1>1. /\ events[p] \in Seq(Event) /\ held[p] \in Seq(Event) /\ Len(events[p]) <= EventCap /\ EventCap \in Nat
      /\ Len(events[p]) \in Nat /\ Len(events[p]) > 0 /\ Len(held[p]) \in Nat /\ Len(held[p]) <= 1
  <2>1. /\ events[p] \in Seq(Event) /\ held[p] \in Seq(Event) /\ Len(events[p]) <= EventCap /\ EventCap \in Nat
        /\ Len(held[p]) <= 1
    BY PiAssumption DEF PiType
  <2>2. Len(events[p]) \in Nat /\ Len(events[p]) > 0 /\ Len(held[p]) \in Nat
    BY <2>1
  <2> QED
    BY <2>1, <2>2
<1> DEFINE rest == Tail(events[p]) \o held[p]
<1>2. events' = [events EXCEPT ![p] = rest] /\ held' = [held EXCEPT ![p] = <<>>] /\ UNCHANGED closed
  BY DEF Receive
<1>3. /\ Tail(events[p]) \in Seq(Event) /\ Len(Tail(events[p])) = Len(events[p]) - 1
      /\ \A i \in 1..(Len(events[p]) - 1) : Tail(events[p])[i] = events[p][i + 1]
  BY <1>1
<1>4. /\ rest \in Seq(Event) /\ Len(rest) = Len(events[p]) - 1 + Len(held[p])
      /\ \A i \in 1..Len(rest) : rest[i] = (events[p] \o held[p])[i + 1] /\ i + 1 \in 1..Len(events[p] \o held[p])
  BY <1>1, <1>3, RestOf, ZenonT(30)
<1> HIDE DEF rest
<1>5. \A r \in Procs : r # p => events'[r] = events[r] /\ held'[r] = held[r]
  BY <1>2 DEF PiType
<1>6. events'[p] = rest /\ held'[p] = <<>>
  BY <1>2 DEF PiType
<1>7. events' \in [Procs -> Seq(Event)] /\ held' \in [Procs -> Seq(Event)]
  BY <1>2, <1>4 DEF PiType
<1>8. \A r \in Procs : Len(events'[r]) <= EventCap /\ Len(held'[r]) <= 1
  <2>1. Len(rest) = Len(events[p]) - 1 + Len(held[p])
    BY <1>4
  <2>2. Len(rest) <= EventCap
    <3>1. \A a, b, c \in Nat : a <= c /\ b <= 1 => a - 1 + b <= c
      OBVIOUS
    <3>2. Len(events[p]) - 1 + Len(held[p]) <= EventCap
      BY <1>1, <3>1
    <3> QED
      BY <2>1, <3>2
  <2>3. Len(events'[p]) <= EventCap /\ Len(held'[p]) <= 1
    BY <1>6, <2>2
  <2> QED
    BY <2>3, <1>5 DEF PiType
<1>9. ASSUME NEW r \in Procs, NEW t \in Sends, NEW i \in Nat, Signal(r, i, t)'
      PROVE  IF r = p THEN Signal(r, i + 1, t) ELSE Signal(r, i, t)
  <2>1. CASE r = p
    <3>1. rest \o <<>> = rest
      BY <1>4
    <3>2. i \in 1..Len(rest) /\ rest[i] = [type |-> "settled", of |-> t]
      BY <1>6, <1>9, <2>1, <3>1 DEF Signal, Line
    <3> QED
      BY <1>4, <2>1, <3>2 DEF Signal, Line
  <2>2. CASE r # p
    BY <1>5, <1>9, <2>2 DEF Signal, Line
  <2> QED
    BY <2>1, <2>2
<1>10. events[p][1] \in Event /\ (events[p][1].type = "settled" => Signal(p, 1, events[p][1].of))
  <2>1. /\ 1 \in 1..Len(events[p] \o held[p]) /\ (events[p] \o held[p])[1] = events[p][1] /\ events[p][1] \in Event
    BY <1>1, RestOf
  <2>2. \A e \in Event : e.type = "settled" => e = [type |-> "settled", of |-> e.of]
    BY DEF Event
  <2> QED
    BY <2>1, <2>2 DEF Signal, Line
<1> QED
  BY <1>2, <1>5, <1>6, <1>7, <1>8, <1>9, <1>10

\* What a receive leaves of a prompt's place, when the prompt it tells is not read again.
LEMMA PlacesRead ==
  ASSUME PiInv, NEW q \in Sends, NEW p \in Procs, worker[q] = p, events[p] # <<>>, Receive(p),
         UNCHANGED <<worker, stdin, agent>>,
         \A t \in Sends : /\ Waits(t) => Waits(t)'
                          /\ Taken(t) => Taken(t)'
                          /\ endedBy'[t] = t => endedBy[t] = t \/ Signal(p, 1, t)
  PROVE  Places'
<1> USE DEF PiInv
<1>1. \A r \in Procs, t \in Sends, i \in Nat :
        Signal(r, i, t)' => IF r = p THEN Signal(r, i + 1, t) ELSE Signal(r, i, t)
  BY LineShrinks
<1>2. \A r \in Procs, t \in Sends : InStdin(r, t)' <=> InStdin(r, t)
  BY DEF InStdin
<1>3. \A t \in Sends, r \in Procs : Signal(p, 1, t) => ~InStdin(r, t) /\ agent[r] # t
  BY DEF Places, PromptsWait, PromptIsTaken, SignalsWait
<1>4. PromptsWait'
  BY <1>2, <1>3 DEF Places, PromptsWait
<1>5. PromptIsTaken'
  BY <1>2, <1>3 DEF Places, PromptIsTaken
<1>6. ASSUME NEW r \in Procs, NEW t \in Sends, NEW i \in Nat, Signal(r, i, t)'
      PROVE  /\ worker[t] = r /\ Taken(t)' /\ endedBy'[t] # t /\ ~InStdin(r, t) /\ agent[r] # t
             /\ \A j \in Nat : Signal(r, j, t)' => i = j
  <2>1. CASE r = p
    <3>1. Signal(p, i + 1, t) /\ i + 1 \in Nat
      BY <1>1, <1>6, <2>1
    <3>2. i + 1 # 1
      BY <1>6 DEF Signal
    <3>3. ~Signal(p, 1, t)
      BY <3>1, <3>2 DEF Places, SignalsWait
    <3>4. \A j \in Nat : Signal(r, j, t)' => i + 1 = j + 1
      BY <1>1, <2>1, <3>1 DEF Places, SignalsWait
    <3>5. \A j \in Nat : i + 1 = j + 1 => i = j
      OBVIOUS
    <3> QED
      BY <2>1, <3>1, <3>3, <3>4, <3>5 DEF Places, SignalsWait
  <2>2. CASE r # p
    <3>1. Signal(r, i, t) /\ \A j \in Nat : Signal(r, j, t)' => Signal(r, j, t)
      BY <1>1, <1>6, <2>2
    <3>2. ~Signal(p, 1, t)
      BY <2>2, <3>1 DEF Places, SignalsWait
    <3> QED
      BY <3>1, <3>2 DEF Places, SignalsWait
  <2> QED
    BY <2>1, <2>2
<1>7. SignalsWait'
  BY <1>2, <1>6 DEF SignalsWait
<1> QED
  BY <1>4, <1>5, <1>7 DEF Places

\* A turn reads that it has settled, which no other turn's event tells it.
LEMMA ReadSettledKept == ASSUME PiInv, NEW q \in Sends, ReadSettled(q) PROVE PiInv'
<1> USE DEF PiInv
<1>1. pc[q] = "reading" /\ worker[q] \in Procs
  BY PiProcs DEF ReadSettled, HasEvent, OneSession, Running, Turn
<1>2. PICK p \in Procs : p = worker[q]
  BY <1>1
<1>3. events[p] # <<>> /\ events[p][1].type = "settled" /\ Receive(p)
  BY <1>2 DEF ReadSettled, HasEvent, FrontEvent
<1>4. /\ events' \in [Procs -> Seq(Event)] /\ held' \in [Procs -> Seq(Event)] /\ UNCHANGED closed
      /\ \A r \in Procs : Len(events'[r]) <= EventCap /\ Len(held'[r]) <= 1
      /\ \A r \in Procs : r # p => events'[r] = events[r] /\ held'[r] = held[r]
      /\ held'[p] = <<>> /\ events[p][1] \in Event /\ Signal(p, 1, events[p][1].of)
  BY <1>3, LineShrinks
<1>5. PICK t \in Sends : t = events[p][1].of
  BY <1>4 DEF Event
<1>6. Signal(p, 1, t) /\ EndTurn(q, t)
  BY <1>2, <1>4, <1>5 DEF ReadSettled, FrontEvent
<1>7. /\ PiType' /\ PoolFits' /\ OneSession' /\ BusyOwned'
      /\ pc' = [pc EXCEPT ![q] = "over"]
      /\ \A u \in Sends : pc'[u] = IF u = q THEN "over" ELSE pc[u]
      /\ \A u \in Sends : endedBy'[u] = IF u = q THEN t ELSE endedBy[u]
      /\ UNCHANGED <<worker, exited, stdin, agent>>
  BY <1>1, <1>4, <1>6, EndTurnKept
<1>8. Places'
  <2>1. \A u \in Sends : /\ Waits(u) => Waits(u)'
                         /\ Taken(u) => Taken(u)'
                         /\ endedBy'[u] = u => endedBy[u] = u \/ Signal(p, 1, u)
    BY <1>1, <1>6, <1>7 DEF Waits, Taken, GivenUp
  <2> QED
    BY <1>2, <1>3, <1>7, <2>1, PlacesRead
<1>9. ExitIsLast'
  <2>1. \A u \in Sends : endedBy'[u] = "exit" => endedBy[u] = "exit" /\ worker[u] # p
    BY <1>3, <1>7, PiAssumption DEF ExitIsLast
  <2>2. \A r \in Procs : held[r] = <<>> => held'[r] = <<>>
    BY <1>4
  <2> QED
    BY <1>4, <1>7, <2>1, <2>2, ZenonT(30) DEF ExitIsLast
<1>10. EndsOnce'
  BY <1>7, PiAssumption DEF EndsOnce
<1>11. OwnSettled'
  <2>1. \A u \in Sends : endedBy[u] = q => u = q
    BY <1>1, PiAssumption DEF OwnSettled, EndsOnce
  <2>2. t # q => endedBy[t] \in {"cancelled"} \cup (Sends \ {t})
    <3> HAVE t # q
    <3>1. worker[t] = p /\ Taken(t) /\ endedBy[t] # t
      BY <1>6 DEF Places, SignalsWait
    <3>2. sess[t] = sess[q]
      BY <1>2, <3>1 DEF OneSession, Procs
    <3>3. pc[t] \notin Running
      BY <1>1, <3>2 DEF OneSession, Running, Turn
    <3>4. pc[t] = "over" \/ endedBy[t] = "cancelled"
      BY <3>1, <3>3 DEF Taken, GivenUp, Running, Turn
    <3>5. endedBy[t] # "exit"
      BY <1>3, <3>1 DEF ExitIsLast
    <3> QED
      BY <3>1, <3>4, <3>5 DEF EndsOnce, PiType
  <2> QED
    BY <1>7, <2>1, <2>2 DEF OwnSettled
<1> QED
  BY <1>7, <1>8, <1>9, <1>10, <1>11


\* A turn reads the dialog its process opened.
LEMMA ReadAskKept == ASSUME PiInv, NEW q \in Sends, ReadAsk(q) PROVE PiInv'
<1> USE DEF PiInv
<1>1. /\ pc[q] = "reading" /\ worker[q] \in Procs /\ pc' = [pc EXCEPT ![q] = "asking"]
      /\ UNCHANGED <<sess, worker, endedBy, cancelled, poolVars, exited, stdin, agent, ui>>
  BY PiProcs DEF ReadAsk, HasEvent, OneSession, Running, Turn, Go, piVars
<1>2. PICK p \in Procs : p = worker[q]
  BY <1>1
<1>3. events[p] # <<>> /\ Receive(p) /\ dialog' = [dialog EXCEPT ![q] = events[p][1].of]
  BY <1>2 DEF ReadAsk, HasEvent, FrontEvent
<1>4. /\ events' \in [Procs -> Seq(Event)] /\ held' \in [Procs -> Seq(Event)] /\ UNCHANGED closed
      /\ \A r \in Procs : Len(events'[r]) <= EventCap /\ Len(held'[r]) <= 1
      /\ \A r \in Procs : r # p => events'[r] = events[r] /\ held'[r] = held[r]
      /\ held'[p] = <<>> /\ events[p][1] \in Event
  BY <1>3, LineShrinks
<1>5. events[p][1].of \in Sends
  BY <1>4 DEF Event
<1>6. \A u \in Sends : pc'[u] = IF u = q THEN "asking" ELSE pc[u]
  BY <1>1 DEF PiType
<1>7. PiType'
  <2>1. dialog' \in [Sends -> Sends \cup {None}]
    BY <1>3, <1>5 DEF PiType
  <2>2. pc' \in [Sends -> {"new", "over", "failed"} \cup Running]
    BY <1>1 DEF PiType, Running, Turn
  <2> QED
    BY <1>1, <1>4, <2>1, <2>2 DEF PiType, poolVars
<1>8. PoolFits' /\ OneSession' /\ BusyOwned'
  BY <1>1, <1>6, <1>7, OwnersKept DEF Running, Turn
<1>9. Places'
  <2>1. \A u \in Sends : /\ Waits(u) => Waits(u)'
                         /\ Taken(u) => Taken(u)'
                         /\ endedBy'[u] = u => endedBy[u] = u \/ Signal(p, 1, u)
    BY <1>1, <1>6 DEF Waits, Taken, GivenUp
  <2> QED
    BY <1>1, <1>2, <1>3, <2>1, PlacesRead
<1>10. ExitIsLast'
  <2>1. \A u \in Sends : endedBy[u] = "exit" => worker[u] # p
    BY <1>3 DEF ExitIsLast
  <2>2. \A r \in Procs : held[r] = <<>> => held'[r] = <<>>
    BY <1>4
  <2> QED
    BY <1>1, <1>4, <2>1, <2>2 DEF ExitIsLast
<1>11. EndsOnce' /\ OwnSettled'
  BY <1>1, <1>6, EndsKept
<1> QED
  BY <1>7, <1>8, <1>9, <1>10, <1>11

\* A dialog is answered by the turn it is for.
LEMMA AnswerKept == ASSUME PiInv, NEW q \in Sends, Answer(q) PROVE PiInv'
<1> USE DEF Answer, readVars
<1>1. pc[q] = "asking" /\ pc' = [pc EXCEPT ![q] = "reading"]
  BY DEF Go
<1>2. \A u \in Sends : pc'[u] = IF u = q THEN "reading" ELSE pc[u]
  BY <1>1 DEF PiInv, PiType
<1>3. PiType'
  <2>1. ui' \in [Procs -> {"none", "open", "over"}]
    BY DEF PiInv, PiType
  <2>2. dialog' \in [Sends -> Sends \cup {None}]
    BY DEF PiInv, PiType
  <2>3. pc' \in [Sends -> {"new", "over", "failed"} \cup Running]
    BY <1>1 DEF PiInv, PiType, Running, Turn
  <2> QED
    BY <2>1, <2>2, <2>3 DEF PiInv, PiType, poolVars
<1>4. PoolFits' /\ OneSession' /\ BusyOwned'
  BY <1>1, <1>2, <1>3, OwnersKept DEF Running, Turn
<1> QED
  BY <1>1, <1>2, <1>3, <1>4, QuietStep DEF Waits, Taken, GivenUp

\* A turn that ends without its signal: the process has exited, or the turn is given up.
LEMMA EndsUnread ==
  ASSUME PiInv, NEW q \in Sends, NEW how \in {"exit", "cancelled"}, pc[q] = "reading", EndTurn(q, how),
         UNCHANGED readVars,
         how = "exit" => closed[worker[q]] /\ events[worker[q]] = <<>>
  PROVE  PiInv'
<1> USE DEF PiInv
<1>1. events' = events /\ held' = held /\ closed' = closed
  BY DEF readVars
<1>2. /\ PiType' /\ PoolFits' /\ OneSession' /\ BusyOwned'
      /\ pc' = [pc EXCEPT ![q] = "over"] /\ endedBy' = [endedBy EXCEPT ![q] = how]
      /\ \A u \in Sends : pc'[u] = IF u = q THEN "over" ELSE pc[u]
      /\ \A u \in Sends : endedBy'[u] = IF u = q THEN how ELSE endedBy[u]
      /\ UNCHANGED <<worker, exited, stdin, agent>>
  <2>1. how \in Sends \cup {"exit", "cancelled"}
    OBVIOUS
  <2>2. /\ events' \in [Procs -> Seq(Event)] /\ held' \in [Procs -> Seq(Event)]
        /\ \A r \in Procs : Len(events'[r]) <= EventCap /\ Len(held'[r]) <= 1
    BY <1>1 DEF PiType
  <2> QED
    BY <1>1, <2>1, <2>2, EndTurnKept
<1>3. Places'
  <2>1. \A u \in Sends : endedBy'[u] = u => endedBy[u] = u
    BY <1>2, PiAssumption
  <2>2. \A u \in Sends : (Waits(u) => Waits(u)') /\ (Taken(u) => Taken(u)')
    BY <1>2 DEF Waits, Taken, GivenUp
  <2> QED
    BY <1>1, <1>2, <2>1, <2>2, PlacesKept
<1>4. ExitIsLast'
  <2>1. worker[q] \in Procs
    BY PiProcs DEF OneSession, Running, Turn
  <2> QED
    BY <1>1, <1>2, <2>1 DEF ExitIsLast
<1>5. EndsOnce' /\ OwnSettled'
  BY <1>2, EndsAs DEF EndsOnce
<1> QED
  BY <1>2, <1>3, <1>4, <1>5

\* Each step of the pool, of the sends and of the processes keeps the invariant.
LEMMA PiKept == PiInv /\ [Next]_vars => PiInv'
<1> SUFFICES ASSUME PiInv, [Next]_vars PROVE PiInv'
  OBVIOUS
<1>1. CASE UNCHANGED vars
  <2> USE <1>1 DEF vars, sendVars, poolVars, readVars, piVars
  <2>1. PiType'
    BY DEF PiInv, PiType
  <2>2. PoolFits' /\ OneSession' /\ BusyOwned'
    BY <2>1, OwnersKept
  <2> QED
    BY <2>1, <2>2, QuietStep DEF Waits, Taken, GivenUp
<1>2. ASSUME NEW q \in Sends, ReadClosed(q) PROVE PiInv'
  BY <1>2, EndsUnread DEF ReadClosed
<1>3. ASSUME NEW q \in Sends, ReadCancelled(q) PROVE PiInv'
  BY <1>3, EndsUnread DEF ReadCancelled
<1>4. ASSUME NEW q \in Sends, Step(q) PROVE PiInv'
  BY <1>2, <1>3, <1>4, AddKept, AddFailsKept, ClaimKept, RequestKept, WriteFailsKept, RequestCancelledKept,
     ReadSettledKept, ReadAskKept, AnswerKept DEF Step
<1>5. ASSUME NEW q \in Sends, Lookup(q) \/ Spawn(q) \/ SpawnFails(q) \/ Answer(q) \/ Cancel(q) PROVE PiInv'
  BY <1>5, LookupKept, SpawnKept, SpawnFailsKept, AnswerKept, CancelKept
<1>6. ASSUME NEW p \in Procs,
             TakePrompt(p) \/ Refuse(p) \/ Ask(p) \/ Settle(p) \/ Abort(p) \/ Exit(p) \/ CloseEvents(p)
      PROVE  PiInv'
  BY <1>6, TakePromptKept, RefuseKept, AskKept, SettleKept, AbortKept, ExitKeeps, CloseEventsKept
<1>7. ASSUME NEW s \in Sessions, Kill(s) PROVE PiInv'
  BY <1>7, KillKept
<1> QED
  BY <1>1, <1>4, <1>5, <1>6, <1>7 DEF Next

\* A step of another part is a stutter of the pi pool.
LEMMA PiSteps == SessionsNext => [Next]_vars
BY DEF SessionsNext, PiStep, AgentStep, CacheStep, WatchStep, StartStep, MetaStep

\* A pi worker is busy exactly while one turn owns it, the pool keeps its cap, and a turn
\* that ends by agent_settled has read its own, or that of a turn that was given up.
THEOREM PiTurnsOwnWorkers == SessionsSpec => []PiTurnsAreOwn
<1>1. SessionsInit => PiInv
  BY PiStarts DEF SessionsInit
<1>2. PiInv /\ [SessionsNext]_sessionsVars => PiInv'
  BY PiKept, PiSteps DEF sessionsVars
<1>3. PiInv => PiTurnsAreOwn
  BY PiHolds DEF PiTurnsAreOwn
<1> QED
  BY <1>1, <1>2, <1>3, PTL DEF SessionsSpec

(* ---------------- the session list (Discovery) ---------------- *)
Entry == [known : BOOLEAN, origin : Cache!Files \cup {Cache!NoPath}, event : Int, usage : Int,
          titled : BOOLEAN, input : Int]
UpsertCall == [pc : {"idle", "look", "read", "write"}, path : Cache!Files \cup {Cache!NoPath}, mtime : Int,
               old : Entry, new : Entry]
IsQueued(event, p) == \E i \in 1..Len(queue) : queue[i] = <<event, p>>

CacheType ==
    /\ layout \in {"mirrors", "twins", "generations"}
    /\ clock \in Nat /\ file \in [Cache!Files -> [mtime : Int, lines : Int]]
    /\ queue \in Seq({"create", "write", "remove"} \X Cache!Files)
    /\ timers \subseteq Cache!Files /\ toScan \subseteq Cache!Files \cup {"watches"}
    /\ listed \in Entry /\ bound \in Cache!Files \cup {Cache!NoPath}
    /\ call \in [Cache!Slots -> UpsertCall] /\ blind \in BOOLEAN
    /\ \A c \in Cache!Slots : IF call[c].pc = "idle" THEN call[c] = Cache!Idle ELSE call[c].path \in Cache!Files

\* A file is not there yet, there, or deleted for good; what succeeds another was made later.
FilesStand ==
    /\ \A p \in Cache!Files :
         /\ file[p].mtime >= 0 /\ file[p].mtime <= clock /\ file[p].lines <= clock
         /\ file[p] = Cache!NoFile \/ file[p] = Cache!Deleted \/ Cache!There(p)
         /\ IsQueued("remove", p) => file[p] = Cache!Deleted
         /\ Cache!There(p) => file[p].lines >= 1
    /\ layout # "mirrors" /\ Cache!There("plain") /\ Cache!There("other") => file["plain"].mtime < file["other"].mtime
    /\ layout = "twins" /\ file["plain"] = Cache!NoFile => file["other"] = Cache!NoFile
    /\ layout = "twins" /\ bound = "other" => file["plain"] = Cache!Deleted
    /\ layout = "twins" => \A c \in Cache!Slots : call[c].path = "other" => file["plain"] = Cache!Deleted
    /\ \A c \in Cache!Slots : call[c].pc # "idle" =>
         file[call[c].path] # Cache!NoFile /\ (c # "watcher" => call[c].path = c)

\* Before the watches there are no events, and before the first file no entry.
ScanFirst ==
    /\ toScan # {} => /\ queue = <<>> /\ timers = {} /\ "watches" \in toScan
                      /\ \A p \in Cache!Files : call[p].pc = "idle"
    /\ Cache!Files \subseteq toScan => ~listed.known /\ bound = Cache!NoPath /\ call["watcher"].pc = "idle"

Twin(p) == IF p = "plain" THEN "other" ELSE "plain"

\* An upsert of the file will begin, or has.
Due(p) == p \in toScan \/ IsQueued("create", p) \/ IsQueued("write", p) \/ p \in timers
Under(p) == \E c \in Cache!Slots : call[c].path = p /\ call[c].pc # "idle"

\* The entry has what the file has.
Holds(entry, p) == entry.usage >= file[p].lines /\ (file[p].lines > 1 => entry.titled)

\* The deletion that is queued will forget the entry of the generation before.
WillForget(p) == layout = "generations" /\ p = "plain" /\ IsQueued("remove", "other")

\* A file an entry may be bound to: it is there, or the event that unbinds it is queued.
Unbinds(p) == \/ Cache!There(p) \/ IsQueued("remove", p)
              \/ layout # "mirrors" /\ p = "plain" /\ (Cache!There("other") \/ IsQueued("remove", "other"))

\* The deletion of a mirror, or of the generation after, has forgotten the id.
Unlisted(p) == layout # "twins" /\ file[Twin(p)] = Cache!Deleted /\ (layout = "generations" => p = "plain")

\* The parts of the entry agree, but while an upsert has its copy of it.
EntryIsOne ==
    /\ listed.known <=> bound # Cache!NoPath
    /\ listed.known => \/ listed.origin = bound
                       \/ \E c \in Cache!Slots : call[c].pc \in {"read", "write"} /\ call[c].path = bound
EntryUnbinds == listed.known => Unbinds(bound)
EntryHolds == listed.known /\ Cache!There(bound) /\ Cache!IsSessionFile(bound) =>
                  Due(bound) \/ Under(bound) \/ Holds(listed, bound) \/ WillForget(bound)

\* A file that counts is listed, or older than the listed one, or will be upserted.
Outdated(p) == listed.known /\ Cache!There(bound) /\ file[bound].mtime >= file[p].mtime
FilesListed ==
    \A p \in Cache!Files : Cache!There(p) /\ Cache!IsSessionFile(p) /\ ~Unlisted(p) =>
      \/ Due(p) \/ Under(p) \/ bound = p \/ Outdated(p)
      \/ layout = "twins" /\ p = "other" /\ IsQueued("remove", "plain")

\* A write of the file behind the upsert of it will be handled when that is over.
Follows(c, p) == IsQueued("write", p) \/ (c # "watcher" /\ p \in timers)

\* The stat of an upsert is that of its file, or an upsert of what was written will follow.
Looks ==
    \A c \in Cache!Slots : call[c].pc = "look" =>
      /\ call[c].mtime <= clock
      /\ Cache!There(call[c].path) => call[c].mtime <= file[call[c].path].mtime
      /\ layout # "mirrors" /\ call[c].path = "plain" /\ Cache!There("other") => call[c].mtime < file["other"].mtime
      /\ Cache!There(call[c].path) /\ Cache!IsSessionFile(call[c].path) /\ ~Unlisted(call[c].path) =>
           call[c].mtime = file[call[c].path].mtime \/ Follows(c, call[c].path)

\* An upsert's copy is the entry still, and what it writes back has what the file has.
Copies ==
    \A c \in Cache!Slots : call[c].pc \in {"read", "write"} =>
      /\ call[c].old = listed
      /\ listed.known => bound = call[c].path /\ call[c].new.known /\ call[c].new.origin = call[c].path
      /\ call[c].pc = "write" =>
           /\ call[c].new.known /\ call[c].new.origin = call[c].path /\ Unbinds(call[c].path)
           /\ Cache!There(call[c].path) /\ Cache!IsSessionFile(call[c].path) =>
                Holds(call[c].new, call[c].path) \/ Follows(c, call[c].path) \/ WillForget(call[c].path)

CacheStands == EntryIsOne /\ EntryUnbinds /\ EntryHolds /\ FilesListed /\ Looks /\ Copies
CacheInv == CacheType /\ FilesStand /\ ScanFirst /\ (~blind => CacheStands)

\* Nothing is listed before the scan.
LEMMA CacheStarts == Cache!Init => CacheInv
<1> SUFFICES ASSUME Cache!Init PROVE CacheInv
  OBVIOUS
<1> USE DEF Cache!Init, Cache!NoFile, Cache!Deleted, Cache!NoSession, Cache!NoPath, Cache!Idle, Cache!Files, Cache!Slots
<1>1. CacheType
  <2>1. listed \in Entry /\ Cache!Idle \in UpsertCall
    BY DEF Entry, UpsertCall
  <2>2. call \in [Cache!Slots -> UpsertCall] /\ \A c \in Cache!Slots : call[c] = Cache!Idle /\ Cache!Idle.pc = "idle"
    BY <2>1
  <2>3. /\ layout \in {"mirrors", "twins", "generations"} /\ clock \in Nat
        /\ file \in [Cache!Files -> [mtime : Int, lines : Int]]
        /\ queue \in Seq({"create", "write", "remove"} \X Cache!Files)
        /\ timers \subseteq Cache!Files /\ toScan \subseteq Cache!Files \cup {"watches"}
        /\ bound \in Cache!Files \cup {Cache!NoPath} /\ blind \in BOOLEAN
    <3>1. \A S : <<>> \in Seq(S)
      OBVIOUS
    <3>2. queue \in Seq({"create", "write", "remove"} \X Cache!Files)
      BY <3>1
    <3>3. file \in [Cache!Files -> [mtime : Int, lines : Int]]
      OBVIOUS
    <3> QED
      BY <3>2, <3>3
  <2> HIDE DEF Cache!Init, Cache!Idle
  <2> QED
    BY <2>1, <2>2, <2>3 DEF CacheType
<1>2. FilesStand
  BY DEF FilesStand, Cache!There, IsQueued
<1>3. ScanFirst
  BY DEF ScanFirst
<1>4. CacheStands
  BY DEF CacheStands, EntryIsOne, EntryUnbinds, EntryHolds, FilesListed, Looks, Copies, Cache!There
<1> QED
  BY <1>1, <1>2, <1>3, <1>4 DEF CacheInv

\* At rest nothing is owed, so what is listed holds what its file has.
LEMMA CacheHolds == CacheInv => Cache!CacheIsTheDisk
<1> SUFFICES ASSUME CacheInv, Cache!Quiet, ~blind PROVE Cache!CacheIsTheDisk
  BY DEF Cache!CacheIsTheDisk
<1>1. CacheType /\ FilesStand /\ CacheStands
  BY DEF CacheInv
<1>2. toScan = {} /\ timers = {} /\ (\A c \in Cache!Slots : call[c].pc = "idle") /\ \A e, p : ~IsQueued(e, p)
  BY DEF Cache!Quiet, Cache!Watching, IsQueued, Cache!Idle
<1>3. \A p \in Cache!Files : ~Due(p) /\ ~Under(p) /\ ~WillForget(p)
  BY <1>2 DEF Due, Under, WillForget
<1>4. bound = Cache!NoPath \/ bound \in Cache!Files
  BY <1>1 DEF CacheType
<1>5. listed.known <=> bound # Cache!NoPath
  BY <1>1 DEF CacheStands, EntryIsOne
<1>6. \A p \in Cache!Files : Cache!There(p) /\ Cache!IsSessionFile(p) /\ ~Unlisted(p) => bound = p \/ Outdated(p)
  BY <1>1, <1>2, <1>3 DEF CacheStands, FilesListed
<1>7. ASSUME NEW p \in Cache!Files, Cache!There(p), layout = "twins" \/ Cache!Deleted \notin {file[q] : q \in Cache!Files}
      PROVE  listed.known
  <2>1. \A q \in Cache!Files : ~Unlisted(q)
    BY <1>7 DEF Unlisted, Twin, Cache!Files
  <2>2. \E q \in Cache!Files : Cache!There(q) /\ Cache!IsSessionFile(q)
    BY <1>1, <1>7 DEF Cache!IsSessionFile, Cache!IsRollout, Cache!IsGeneration, Cache!Files, CacheType
  <2> QED
    BY <2>1, <2>2, <1>6, <1>5 DEF Outdated, Cache!NoPath, Cache!Files
<1>8. ASSUME listed.known
      PROVE  Cache!There(bound) /\ listed.origin = bound /\ listed.usage >= file[bound].lines
             /\ (file[bound].lines > 1 => listed.titled) /\ (layout # "twins" => Cache!Newest(bound))
  <2>1. bound \in Cache!Files /\ listed.origin = bound /\ Unbinds(bound)
    BY <1>8, <1>4, <1>5, <1>1, <1>2 DEF CacheStands, EntryIsOne, EntryUnbinds
  <2>2. Cache!There(bound) /\ Cache!IsSessionFile(bound)
    BY <2>1, <1>1, <1>2, <1>3, <1>6 DEF Unbinds, Cache!IsSessionFile, Cache!IsRollout, Cache!IsGeneration, FilesStand, Cache!There,
       Cache!Files, CacheType, Outdated, Unlisted, Twin, Cache!Deleted
  <2>3. Holds(listed, bound)
    BY <2>1, <2>2, <1>1, <1>3, <1>8 DEF CacheStands, EntryHolds
  <2>4. layout # "twins" => Cache!Newest(bound)
    BY <2>1, <2>2, <1>1, <1>6 DEF Cache!Newest, Cache!IsSessionFile, Cache!IsRollout, Cache!IsGeneration, FilesStand, Cache!There,
       Cache!Files, CacheType, Outdated, Unlisted, Twin, Cache!NoFile, Cache!Deleted
  <2> QED
    BY <2>1, <2>2, <2>3, <2>4 DEF Holds
<1> QED
  BY <1>5, <1>7, <1>8 DEF Cache!CacheIsTheDisk

\* An event at the end of the queue.
LEMMA QueueGrows ==
  ASSUME CacheType, NEW e \in {"create", "write", "remove"}, NEW p \in Cache!Files, queue' = Append(queue, <<e, p>>)
  PROVE  /\ queue' \in Seq({"create", "write", "remove"} \X Cache!Files)
         /\ \A f, q : IsQueued(f, q)' <=> IsQueued(f, q) \/ (f = e /\ q = p)
<1> DEFINE Kinds == {"create", "write", "remove"} \X Cache!Files
<1>1. queue \in Seq(Kinds) /\ <<e, p>> \in Kinds
  BY DEF CacheType
<1> HIDE DEF Kinds
<1>2. queue' \in Seq(Kinds) /\ Len(queue') = Len(queue) + 1 /\ queue'[Len(queue) + 1] = <<e, p>>
      /\ \A i \in 1..Len(queue) : queue'[i] = queue[i]
  BY <1>1
<1>3. Len(queue) \in Nat
  BY <1>1
<1>4. ASSUME NEW f, NEW q PROVE IsQueued(f, q)' <=> IsQueued(f, q) \/ (f = e /\ q = p)
  <2>1. ASSUME IsQueued(f, q)' PROVE IsQueued(f, q) \/ (f = e /\ q = p)
    <3>1. PICK i \in 1..(Len(queue) + 1) : queue'[i] = <<f, q>>
      BY <2>1, <1>2 DEF IsQueued
    <3>2. CASE i = Len(queue) + 1
      BY <3>1, <3>2, <1>2
    <3>3. CASE i # Len(queue) + 1
      <4>1. i \in 1..Len(queue) /\ queue[i] = <<f, q>>
        BY <3>1, <3>3, <1>2, <1>3
      <4> QED
        BY <4>1 DEF IsQueued
    <3> QED
      BY <3>2, <3>3
  <2>2. ASSUME IsQueued(f, q) PROVE IsQueued(f, q)'
    <3>1. PICK i \in 1..Len(queue) : queue[i] = <<f, q>>
      BY <2>2 DEF IsQueued
    <3>2. i \in 1..Len(queue') /\ queue'[i] = <<f, q>>
      BY <3>1, <1>2, <1>3
    <3> QED
      BY <3>2 DEF IsQueued
  <2>3. IsQueued(e, p)'
    <3>1. Len(queue) + 1 \in 1..Len(queue')
      BY <1>2, <1>3
    <3> QED
      BY <3>1, <1>2 DEF IsQueued
  <2> QED
    BY <2>1, <2>2, <2>3
<1> QED
  BY <1>2, <1>4 DEF Kinds

\* The watcher takes the event at the head.
LEMMA QueueShrinks ==
  ASSUME CacheType, queue # <<>>, queue' = Tail(queue)
  PROVE  /\ queue' \in Seq({"create", "write", "remove"} \X Cache!Files)
         /\ Head(queue)[1] \in {"create", "write", "remove"} /\ Head(queue)[2] \in Cache!Files
         /\ IsQueued(Head(queue)[1], Head(queue)[2])
         /\ \A f, q : /\ IsQueued(f, q)' => IsQueued(f, q)
                      /\ IsQueued(f, q) => IsQueued(f, q)' \/ (f = Head(queue)[1] /\ q = Head(queue)[2])
<1> DEFINE Kinds == {"create", "write", "remove"} \X Cache!Files
<1>1. queue \in Seq(Kinds)
  BY DEF CacheType
<1> HIDE DEF Kinds
<1>2. queue' \in Seq(Kinds) /\ Len(queue') = Len(queue) - 1 /\ Len(queue) \in Nat /\ Len(queue) > 0
      /\ Head(queue) = queue[1] /\ queue[1] \in Kinds /\ \A i \in 1..(Len(queue) - 1) : queue'[i] = queue[i + 1]
  BY <1>1
<1>3. queue[1] = <<queue[1][1], queue[1][2]>> /\ queue[1][1] \in {"create", "write", "remove"} /\ queue[1][2] \in Cache!Files
  BY <1>2 DEF Kinds
<1>4. ASSUME NEW f, NEW q, IsQueued(f, q)' PROVE IsQueued(f, q)
  <2>1. PICK i \in 1..(Len(queue) - 1) : queue'[i] = <<f, q>>
    BY <1>2, <1>4 DEF IsQueued
  <2>2. i + 1 \in 1..Len(queue) /\ queue[i + 1] = <<f, q>>
    BY <2>1, <1>2
  <2> QED
    BY <2>2 DEF IsQueued
<1>5. ASSUME NEW f, NEW q, IsQueued(f, q) PROVE IsQueued(f, q)' \/ (f = Head(queue)[1] /\ q = Head(queue)[2])
  <2>1. PICK i \in 1..Len(queue) : queue[i] = <<f, q>>
    BY <1>5 DEF IsQueued
  <2>2. CASE i = 1
    BY <2>1, <2>2, <1>2, <1>3
  <2>3. CASE i # 1
    <3>1. i - 1 \in 1..(Len(queue) - 1) /\ queue'[i - 1] = <<f, q>>
      BY <2>1, <2>3, <1>2
    <3> QED
      BY <3>1, <1>2 DEF IsQueued
  <2> QED
    BY <2>2, <2>3
<1>6. IsQueued(Head(queue)[1], Head(queue)[2])
  <2>1. 1 \in 1..Len(queue) /\ queue[1] = <<Head(queue)[1], Head(queue)[2]>>
    BY <1>2, <1>3
  <2> QED
    BY <2>1 DEF IsQueued
<1>7. queue' \in Seq({"create", "write", "remove"} \X Cache!Files)
  BY <1>2 DEF Kinds
<1>8. Head(queue)[1] \in {"create", "write", "remove"} /\ Head(queue)[2] \in Cache!Files
  BY <1>2, <1>3
<1> QED
  BY <1>4, <1>5, <1>6, <1>7, <1>8

\* A file is made or grows: an upsert of it is owed then.
LEMMA FileWritten ==
  ASSUME CacheInv, NEW p \in Cache!Files, NEW e \in {"create", "write"}, NEW n \in Int, n <= clock + 1, n >= 1,
         file[p] = Cache!NoFile \/ e = "write",
         file[p] # Cache!Deleted, clock' = clock + 1,
         file' = [file EXCEPT ![p] = [mtime |-> clock + 1, lines |-> n]],
         layout = "twins" => p = "plain" \/ Cache!There("plain"),
         layout # "mirrors" /\ p = "plain" => file["other"] = Cache!NoFile,
         Cache!Notify(e, p), UNCHANGED <<layout, timers, listed, bound, call, toScan>>
  PROVE  CacheInv'
<1>1. CacheType /\ FilesStand /\ ScanFirst /\ clock \in Nat
  BY DEF CacheInv, CacheType
<1>2. /\ layout' = layout /\ timers' = timers /\ listed' = listed /\ bound' = bound /\ call' = call /\ toScan' = toScan
      /\ queue' = IF toScan = {} THEN Append(queue, <<e, p>>) ELSE queue
      /\ blind' = (blind \/ (toScan # {} /\ Cache!Files \ toScan # {}))
  BY DEF Cache!Notify, Cache!Watching
<1>3. queue' \in Seq({"create", "write", "remove"} \X Cache!Files)
      /\ \A f, q : IsQueued(f, q)' <=> IsQueued(f, q) \/ (toScan = {} /\ f = e /\ q = p)
  <2>1. CASE toScan = {}
    BY <2>1, <1>1, <1>2, QueueGrows
  <2>2. CASE toScan # {}
    BY <2>2, <1>1, <1>2 DEF IsQueued, CacheType
  <2> QED
    BY <2>1, <2>2
<1>4. \A q \in Cache!Files : file'[q] = IF q = p THEN [mtime |-> clock + 1, lines |-> n] ELSE file[q]
  BY <1>1, <1>2 DEF CacheType
<1>5. CacheType'
  <2>1. file' \in [Cache!Files -> [mtime : Int, lines : Int]]
    BY <1>1, <1>2 DEF CacheType
  <2>2. blind' \in BOOLEAN
    BY <1>2
  <2> QED
    BY <1>1, <1>2, <1>3, <2>1, <2>2 DEF CacheType
<1>6. FilesStand'
  <2>1. ASSUME NEW q \in Cache!Files
        PROVE  /\ file'[q].mtime >= 0 /\ file'[q].mtime <= clock' /\ file'[q].lines <= clock'
               /\ file'[q] = Cache!NoFile \/ file'[q] = Cache!Deleted \/ Cache!There(q)'
               /\ IsQueued("remove", q)' => file'[q] = Cache!Deleted
               /\ Cache!There(q)' => file'[q].lines >= 1
    BY <1>1, <1>2, <1>3, <1>4 DEF FilesStand, Cache!There, CacheType
  <2>2. layout' # "mirrors" /\ Cache!There("plain")' /\ Cache!There("other")' => file'["plain"].mtime < file'["other"].mtime
    BY <1>1, <1>2, <1>4 DEF FilesStand, Cache!There, Cache!Files, Cache!NoFile, CacheType
  <2>3. layout = "twins" => file'["plain"] # Cache!NoFile /\ file["plain"] # Cache!Deleted /\ file'["plain"] # Cache!Deleted
    BY <1>1, <1>2, <1>4 DEF Cache!Files, Cache!NoFile, Cache!Deleted, Cache!There
  <2>4. \A c \in Cache!Slots : call'[c].pc # "idle" => call'[c].path \in Cache!Files
    BY <1>1, <1>2 DEF CacheType
  <2>5. \A c \in Cache!Slots : call'[c].pc # "idle" =>
          file'[call'[c].path] # Cache!NoFile /\ (c # "watcher" => call'[c].path = c)
    BY <2>4, <1>1, <1>2, <1>4 DEF FilesStand, Cache!NoFile, CacheType
  <2>6. layout' = "twins" => \A c \in Cache!Slots : call'[c].path = "other" => file'["plain"] = Cache!Deleted
    BY <2>3, <1>1, <1>2, <1>4 DEF FilesStand, Cache!Files
  <2> QED
    BY <1>1, <1>2, <1>4, <2>1, <2>2, <2>3, <2>5, <2>6 DEF FilesStand, Cache!Files
<1>7. ScanFirst'
  BY <1>1, <1>2 DEF ScanFirst
<1>8. ASSUME ~blind' PROVE CacheStands'
  <2>1. CacheStands /\ (toScan = {} \/ Cache!Files \subseteq toScan)
    BY <1>2, <1>8 DEF CacheInv
  <2>2. Due(p)'
    BY <2>1, <1>2, <1>3 DEF Due
  <2>3. \A q \in Cache!Files : (Due(q) => Due(q)') /\ (Under(q)' <=> Under(q)) /\ (WillForget(q) => WillForget(q)')
    BY <1>2, <1>3 DEF Due, Under, WillForget
  <2>4. \A q \in Cache!Files : /\ Cache!There(q)' <=> Cache!There(q) \/ q = p
                               /\ Cache!IsSessionFile(q)' => Cache!IsSessionFile(q)
                               /\ Unlisted(q)' <=> Unlisted(q)
    BY <1>1, <1>2, <1>4 DEF Cache!There, Cache!IsSessionFile, Cache!IsRollout, Cache!IsGeneration, Unlisted, Twin, Cache!Files, CacheType,
                      Cache!Deleted
  <2>5. EntryIsOne'
    BY <2>1, <1>2 DEF CacheStands, EntryIsOne
  <2>6. \A q \in Cache!Files : Unbinds(q) => Unbinds(q)'
    BY <2>4, <1>2, <1>3 DEF Unbinds, Cache!Files
  <2>7. listed.known => bound \in Cache!Files
    BY <2>1, <1>1 DEF CacheStands, EntryIsOne, CacheType
  <2>8. EntryUnbinds'
    BY <2>1, <2>6, <2>7, <1>2 DEF CacheStands, EntryUnbinds
  <2>9. EntryHolds'
    BY <2>1, <2>2, <2>3, <2>4, <2>7, <1>2, <1>4 DEF CacheStands, EntryHolds, Holds
  <2>10. FilesListed'
    <3>1. ASSUME NEW q \in Cache!Files, Cache!There(q)', Cache!IsSessionFile(q)', ~Unlisted(q)', q # p
          PROVE  \/ Due(q)' \/ Under(q)' \/ bound' = q \/ Outdated(q)'
                 \/ layout' = "twins" /\ q = "other" /\ IsQueued("remove", "plain")'
      <4>1. \/ Due(q) \/ Under(q) \/ bound = q \/ Outdated(q)
            \/ layout = "twins" /\ q = "other" /\ IsQueued("remove", "plain")
        BY <3>1, <2>1, <2>4 DEF CacheStands, FilesListed
      <4>2. Outdated(q) => Outdated(q)'
        BY <3>1, <2>4, <2>7, <1>1, <1>2, <1>4 DEF Outdated, FilesStand, CacheType
      <4> QED
        BY <4>1, <4>2, <2>3, <1>2, <1>3
    <3> QED
      BY <3>1, <2>2 DEF FilesListed
  <2>11. ASSUME NEW c \in Cache!Slots, call[c].pc # "idle"
         PROVE  /\ call'[c] = call[c] /\ call[c].path \in Cache!Files /\ call[c].mtime \in Int
                /\ call[c].path = p => Follows(c, p)'
                /\ \A q : Follows(c, q) => Follows(c, q)'
    <3>1. call'[c] = call[c] /\ call[c].path \in Cache!Files /\ call[c].mtime \in Int
      BY <2>11, <1>1, <1>2 DEF CacheType, UpsertCall
    <3>2. file[call[c].path] # Cache!NoFile
      BY <2>11, <1>1 DEF FilesStand
    <3>3. toScan = {}
      BY <2>1, <2>11, <1>1 DEF ScanFirst, Cache!Slots, Cache!Files
    <3>4. \A q : Follows(c, q) => Follows(c, q)'
      BY <1>2, <1>3 DEF Follows
    <3> QED
      BY <3>1, <3>2, <3>3, <3>4, <1>3 DEF Follows
  <2>12. Looks'
    <3> SUFFICES ASSUME NEW d \in Cache!Slots, call[d].pc = "look"
                 PROVE  (/\ call[d].mtime <= clock
                         /\ Cache!There(call[d].path) => call[d].mtime <= file[call[d].path].mtime
                         /\ layout # "mirrors" /\ call[d].path = "plain" /\ Cache!There("other") => call[d].mtime < file["other"].mtime
                         /\ Cache!There(call[d].path) /\ Cache!IsSessionFile(call[d].path) /\ ~Unlisted(call[d].path) =>
                              call[d].mtime = file[call[d].path].mtime \/ Follows(d, call[d].path))'
      BY <1>2 DEF Looks
    <3>1. /\ call'[d] = call[d] /\ call[d].path \in Cache!Files /\ call[d].mtime \in Int
          /\ call[d].path = p => Follows(d, p)'
          /\ Follows(d, call[d].path) => Follows(d, call[d].path)'
      BY <2>11, <1>2 DEF Follows
    <3>2. /\ call[d].mtime <= clock
          /\ Cache!There(call[d].path) => call[d].mtime <= file[call[d].path].mtime
          /\ layout # "mirrors" /\ call[d].path = "plain" /\ Cache!There("other") => call[d].mtime < file["other"].mtime
          /\ Cache!There(call[d].path) /\ Cache!IsSessionFile(call[d].path) /\ ~Unlisted(call[d].path) =>
               call[d].mtime = file[call[d].path].mtime \/ Follows(d, call[d].path)
      BY <2>1 DEF CacheStands, Looks
    <3>3. call[d].mtime <= clock' /\ (call[d].path = p => call[d].mtime <= file'[call[d].path].mtime)
      BY <3>1, <3>2, <1>1, <1>2, <1>4
    <3>4. layout # "mirrors" /\ call[d].path = "plain" /\ Cache!There("other")' => call[d].mtime < file'["other"].mtime
      <4>1. CASE p = "other"
        BY <4>1, <3>1, <3>2, <1>1, <1>2, <1>4 DEF Cache!Files
      <4>2. CASE p # "other"
        BY <4>2, <3>2, <2>4, <1>4 DEF Cache!Files
      <4> QED
        BY <4>1, <4>2
    <3>5. call[d].path # p => /\ Cache!There(call[d].path)' => Cache!There(call[d].path)
                              /\ Cache!IsSessionFile(call[d].path)' => Cache!IsSessionFile(call[d].path)
                              /\ Unlisted(call[d].path) => Unlisted(call[d].path)'
                              /\ file'[call[d].path] = file[call[d].path]
      BY <3>1, <2>4, <1>2, <1>4
    <3>6. call[d].path = p => Follows(d, call[d].path)'
      BY <3>1, <1>2 DEF Follows
    <3> QED
      BY <3>1, <3>2, <3>3, <3>4, <3>5, <3>6, <1>2
  <2>13. Copies'
    BY <2>1, <2>2, <2>3, <2>4, <2>6, <2>11, <1>2, <1>4 DEF CacheStands, Copies, Holds
  <2> QED
    BY <2>5, <2>8, <2>9, <2>10, <2>12, <2>13 DEF CacheStands
<1> QED
  BY <1>5, <1>6, <1>7, <1>8 DEF CacheInv

\* WriteFile.
LEMMA CacheWrites ==
  ASSUME CacheInv, NEW p \in Cache!Files, Cache!WriteFile(p)
  PROVE  CacheInv'
<1>1. PICK e \in {"create", "write"} : Cache!Notify(e, p) /\ (file[p] = Cache!NoFile \/ e = "write")
  BY DEF Cache!WriteFile, CacheInv, FilesStand
<1>2. clock + 1 \in Int /\ clock + 1 <= clock + 1 /\ clock + 1 >= 1
  BY DEF CacheInv, CacheType
<1>3. /\ file[p] # Cache!Deleted /\ clock' = clock + 1
      /\ file' = [file EXCEPT ![p] = [mtime |-> clock + 1, lines |-> clock + 1]]
      /\ layout = "twins" => p = "plain"
      /\ layout # "mirrors" /\ p = "plain" => file["other"] = Cache!NoFile
      /\ UNCHANGED <<layout, timers, listed, bound, call, toScan>>
  BY DEF Cache!WriteFile
<1> QED
  BY <1>1, <1>2, <1>3, FileWritten

\* Compress.
LEMMA CacheCompresses == CacheInv /\ Cache!Compress => CacheInv'
<1> SUFFICES ASSUME CacheInv, Cache!Compress PROVE CacheInv'
  OBVIOUS
<1>1. /\ "other" \in Cache!Files /\ file["plain"].lines \in Int /\ file["plain"].lines <= clock + 1 /\ file["plain"].lines >= 1
      /\ file["other"] # Cache!Deleted
  BY DEF CacheInv, CacheType, FilesStand, Cache!Files, Cache!Compress, Cache!NoFile, Cache!Deleted
<1> QED
  BY <1>1, FileWritten DEF Cache!Compress

\* DeleteFile.
LEMMA CacheDeletes ==
  ASSUME CacheInv, NEW p \in Cache!Files, Cache!DeleteFile(p)
  PROVE  CacheInv'
<1>1. CacheType /\ FilesStand /\ ScanFirst /\ clock \in Nat
  BY DEF CacheInv, CacheType
<1>2. /\ Cache!There(p) /\ file' = [file EXCEPT ![p] = Cache!Deleted] /\ Cache!Deleted \in [mtime : Int, lines : Int]
      /\ clock' = clock /\ layout' = layout /\ timers' = timers /\ listed' = listed /\ bound' = bound /\ call' = call
      /\ toScan' = toScan
      /\ queue' = IF toScan = {} THEN Append(queue, <<"remove", p>>) ELSE queue
      /\ blind' = (blind \/ (toScan # {} /\ Cache!Files \ toScan # {}))
  BY DEF Cache!DeleteFile, Cache!Notify, Cache!Watching, Cache!Deleted
<1>3. queue' \in Seq({"create", "write", "remove"} \X Cache!Files)
      /\ \A f, q : IsQueued(f, q)' <=> IsQueued(f, q) \/ (toScan = {} /\ f = "remove" /\ q = p)
  <2>1. CASE toScan = {}
    BY <2>1, <1>1, <1>2, QueueGrows
  <2>2. CASE toScan # {}
    BY <2>2, <1>1, <1>2 DEF IsQueued, CacheType
  <2> QED
    BY <2>1, <2>2
<1>4. \A q \in Cache!Files : file'[q] = IF q = p THEN Cache!Deleted ELSE file[q]
  BY <1>1, <1>2 DEF CacheType
<1>5. CacheType'
  <2>1. file' \in [Cache!Files -> [mtime : Int, lines : Int]]
    BY <1>1, <1>2 DEF CacheType
  <2>2. blind' \in BOOLEAN
    BY <1>2
  <2> QED
    BY <1>1, <1>2, <1>3, <2>1, <2>2 DEF CacheType
<1>6. FilesStand'
  <2>1. ASSUME NEW q \in Cache!Files
        PROVE  /\ file'[q].mtime >= 0 /\ file'[q].mtime <= clock' /\ file'[q].lines <= clock'
               /\ file'[q] = Cache!NoFile \/ file'[q] = Cache!Deleted \/ Cache!There(q)'
               /\ IsQueued("remove", q)' => file'[q] = Cache!Deleted
               /\ Cache!There(q)' => file'[q].lines >= 1
    BY <1>1, <1>2, <1>3, <1>4 DEF FilesStand, Cache!There, Cache!Deleted, CacheType
  <2>2. layout' # "mirrors" /\ Cache!There("plain")' /\ Cache!There("other")' => file'["plain"].mtime < file'["other"].mtime
    BY <1>1, <1>2, <1>4 DEF FilesStand, Cache!There, Cache!Files, Cache!Deleted
  <2>3. \A q \in Cache!Files : /\ file'[q] = Cache!NoFile <=> file[q] = Cache!NoFile
                               /\ file[q] = Cache!Deleted => file'[q] = Cache!Deleted
    BY <1>1, <1>2, <1>4 DEF Cache!NoFile, Cache!Deleted, Cache!There
  <2>4. \A c \in Cache!Slots : call'[c].pc # "idle" => call'[c].path \in Cache!Files
    BY <1>1, <1>2 DEF CacheType
  <2>5. \A c \in Cache!Slots : call'[c].pc # "idle" =>
          file'[call'[c].path] # Cache!NoFile /\ (c # "watcher" => call'[c].path = c)
    BY <2>3, <2>4, <1>1, <1>2 DEF FilesStand
  <2>6. layout' = "twins" => \A c \in Cache!Slots : call'[c].path = "other" => file'["plain"] = Cache!Deleted
    BY <2>3, <1>1, <1>2 DEF FilesStand, Cache!Files
  <2> QED
    BY <1>1, <1>2, <2>1, <2>2, <2>3, <2>5, <2>6 DEF FilesStand, Cache!Files
<1>7. ScanFirst'
  BY <1>1, <1>2 DEF ScanFirst
<1>8. ASSUME ~blind' PROVE CacheStands'
  <2>1. CacheStands /\ (toScan = {} \/ Cache!Files \subseteq toScan)
    BY <1>2, <1>8 DEF CacheInv
  <2>2. CASE Cache!Files \subseteq toScan
    <3>1. ~listed'.known /\ bound' = Cache!NoPath /\ \A c \in Cache!Slots : call'[c].pc = "idle"
      BY <2>2, <1>1, <1>2 DEF ScanFirst, Cache!Slots, Cache!Files
    <3>2. \A q \in Cache!Files : Due(q)'
      BY <2>2, <1>2 DEF Due
    <3> QED
      BY <3>1, <3>2 DEF CacheStands, EntryIsOne, EntryUnbinds, EntryHolds, FilesListed, Looks, Copies
  <2>3. CASE toScan = {}
    <3>1. \A f, q : IsQueued(f, q)' <=> IsQueued(f, q) \/ (f = "remove" /\ q = p)
      BY <2>3, <1>3
    <3>2. \A q \in Cache!Files : (Due(q) => Due(q)') /\ (Under(q)' <=> Under(q)) /\ (WillForget(q) => WillForget(q)')
      BY <1>2, <3>1 DEF Due, Under, WillForget
    <3>3. \A q \in Cache!Files : Cache!There(q)' <=> Cache!There(q) /\ q # p
      BY <1>4 DEF Cache!There, Cache!Deleted
    <3>4. \A c \in Cache!Slots, q \in Cache!Files : Follows(c, q) => Follows(c, q)'
      BY <3>1, <1>2 DEF Follows
    <3>5. layout \in {"mirrors", "twins", "generations"} /\ bound \in Cache!Files \cup {Cache!NoPath}
      BY <1>1 DEF CacheType
    <3>6. \A q \in Cache!Files : Unbinds(q) => Unbinds(q)'
      BY <3>1, <3>3, <1>2 DEF Unbinds, Cache!Files
    <3>7. listed.known => bound \in Cache!Files
      BY <2>1, <3>5 DEF CacheStands, EntryIsOne
    \* What counts only now that p is gone is forgotten, or was never upserted.
    <3>8. ASSUME NEW q \in Cache!Files, Cache!There(q)', Cache!IsSessionFile(q)'
          PROVE  q # p /\ Cache!There(q) /\ (Cache!IsSessionFile(q) \/ WillForget(q)' \/ (layout = "twins" /\ q = "other" /\ p = "plain"))
      BY <3>1, <3>3, <3>5, <3>8, <1>2 DEF Cache!IsSessionFile, Cache!IsRollout, Cache!IsGeneration, Cache!Files, WillForget
    <3>9. EntryIsOne'
      BY <2>1, <1>2 DEF CacheStands, EntryIsOne
    <3>10. EntryUnbinds'
      BY <2>1, <3>6, <3>7, <1>2 DEF CacheStands, EntryUnbinds
    <3>11. \A s : \A q \in Cache!Files : q # p /\ Holds(s, q) => Holds(s, q)'
      BY <1>4 DEF Holds
    <3>12. EntryHolds'
      <4> SUFFICES ASSUME listed'.known, Cache!There(bound)', Cache!IsSessionFile(bound)'
                   PROVE  Due(bound)' \/ Under(bound)' \/ Holds(listed, bound)' \/ WillForget(bound)'
        BY <1>2 DEF EntryHolds
      <4>1. bound \in Cache!Files /\ Cache!There(bound)' /\ Cache!IsSessionFile(bound)'
        BY <3>7, <1>2
      <4>2. bound # p /\ Cache!There(bound) /\ (Cache!IsSessionFile(bound) \/ WillForget(bound)')
        BY <4>1, <3>8, <1>1, <1>2 DEF FilesStand, Cache!There, Cache!Deleted
      <4>3. Cache!IsSessionFile(bound) => Due(bound) \/ Under(bound) \/ Holds(listed, bound) \/ WillForget(bound)
        BY <4>2, <2>1, <1>2 DEF CacheStands, EntryHolds
      <4> QED
        BY <4>1, <4>2, <4>3, <3>2, <3>11, <1>2
    <3>13. FilesListed'
      <4> SUFFICES ASSUME NEW q \in Cache!Files, Cache!There(q)', Cache!IsSessionFile(q)', ~Unlisted(q)'
                   PROVE  \/ Due(q)' \/ Under(q)' \/ bound' = q \/ Outdated(q)'
                          \/ layout' = "twins" /\ q = "other" /\ IsQueued("remove", "plain")'
        BY DEF FilesListed
      <4>1. q # p /\ Cache!There(q) /\ (layout = "twins" \/ (layout = "generations" /\ q = "other"))
        BY <3>3, <3>5, <1>2, <1>4 DEF Unlisted, Twin, Cache!Files
      <4>2. CASE layout = "twins" /\ q = "other"
        BY <4>1, <4>2, <3>1, <1>2 DEF Cache!Files
      <4>3. CASE ~(layout = "twins" /\ q = "other")
        <5>1. Cache!IsSessionFile(q) /\ ~Unlisted(q)
          BY <4>1, <4>3 DEF Cache!IsSessionFile, Cache!IsRollout, Cache!IsGeneration, Unlisted, Cache!Files
        <5>2. Due(q) \/ Under(q) \/ bound = q \/ Outdated(q)
          BY <5>1, <4>1, <4>3, <2>1 DEF CacheStands, FilesListed
        <5>3. Outdated(q) => bound = q
          <6>1. ASSUME Outdated(q), bound # q PROVE FALSE
            <7>1. bound = p /\ file[p].mtime >= file[q].mtime /\ Cache!There(p) /\ Cache!There(q)
              BY <6>1, <4>1, <3>7 DEF Outdated, Cache!Files
            <7>2. CASE layout = "twins"
              BY <7>1, <7>2, <4>1, <4>3, <1>1 DEF FilesStand, Cache!Files, Cache!There, Cache!Deleted
            <7>3. CASE layout = "generations" /\ q = "other"
              BY <7>1, <7>3, <4>1, <1>1 DEF FilesStand, Cache!Files, CacheType
            <7> QED
              BY <7>2, <7>3, <4>1
          <6> QED
            BY <6>1
        <5> QED
          BY <5>2, <5>3, <3>2, <1>2
      <4> QED
        BY <4>2, <4>3
    \* An upsert of a twin began when the rollout was gone, and a generation is not followed back.
    <3>14. ASSUME NEW c \in Cache!Slots, call[c].pc # "idle", Cache!There(call[c].path)', Cache!IsSessionFile(call[c].path)'
           PROVE  /\ call[c].path \in Cache!Files /\ call[c].path # p /\ Cache!There(call[c].path)
                  /\ Cache!IsSessionFile(call[c].path) \/ WillForget(call[c].path)'
      <4>1. call[c].path \in Cache!Files
        BY <3>14, <1>1 DEF CacheType
      <4>2. layout = "twins" /\ call[c].path = "other" => file["plain"] = Cache!Deleted
        BY <1>1 DEF FilesStand
      <4> QED
        BY <4>1, <4>2, <3>8, <3>14, <1>2 DEF Cache!There, Cache!Deleted
    <3>15. Looks'
      <4> SUFFICES ASSUME NEW c \in Cache!Slots, call[c].pc = "look"
                   PROVE  /\ call[c].mtime <= clock
                          /\ Cache!There(call[c].path)' => call[c].mtime <= file'[call[c].path].mtime
                          /\ layout # "mirrors" /\ call[c].path = "plain" /\ Cache!There("other")' => call[c].mtime < file'["other"].mtime
                          /\ Cache!There(call[c].path)' /\ Cache!IsSessionFile(call[c].path)' /\ ~Unlisted(call[c].path)' =>
                               call[c].mtime = file'[call[c].path].mtime \/ Follows(c, call[c].path)'
        BY <1>2 DEF Looks
      <4>1. call[c].path \in Cache!Files
        BY <1>1 DEF CacheType
      <4>2. /\ call[c].mtime <= clock
            /\ Cache!There(call[c].path) => call[c].mtime <= file[call[c].path].mtime
            /\ layout # "mirrors" /\ call[c].path = "plain" /\ Cache!There("other") => call[c].mtime < file["other"].mtime
            /\ Cache!There(call[c].path) /\ Cache!IsSessionFile(call[c].path) /\ ~Unlisted(call[c].path) =>
                 call[c].mtime = file[call[c].path].mtime \/ Follows(c, call[c].path)
        BY <2>1 DEF CacheStands, Looks
      <4>3. Cache!There(call[c].path)' /\ Cache!IsSessionFile(call[c].path)' /\ ~Unlisted(call[c].path)' =>
              Cache!There(call[c].path) /\ Cache!IsSessionFile(call[c].path) /\ ~Unlisted(call[c].path)
        <5> SUFFICES ASSUME Cache!There(call[c].path)', Cache!IsSessionFile(call[c].path)', ~Unlisted(call[c].path)'
                     PROVE  Cache!There(call[c].path) /\ Cache!IsSessionFile(call[c].path) /\ ~Unlisted(call[c].path)
          OBVIOUS
        <5>1. call[c].path # p /\ Cache!There(call[c].path) /\ (Cache!IsSessionFile(call[c].path) \/ WillForget(call[c].path)')
          BY <3>14
        <5>2. Unlisted(call[c].path)' \/ layout = "twins" \/ (layout = "generations" /\ call[c].path = "other")
          BY <5>1, <4>1, <3>5, <1>2, <1>4 DEF Unlisted, Twin, Cache!Files
        <5> QED
          BY <5>1, <5>2, <1>2 DEF WillForget, Unlisted
      <4> QED
        BY <4>1, <4>2, <4>3, <3>3, <3>4, <1>2, <1>4 DEF Cache!Files
    <3>16. Copies'
      <4> SUFFICES ASSUME NEW c \in Cache!Slots, call[c].pc \in {"read", "write"}
                   PROVE  /\ call[c].old = listed
                          /\ listed.known => bound = call[c].path /\ call[c].new.known /\ call[c].new.origin = call[c].path
                          /\ call[c].pc = "write" =>
                               /\ call[c].new.known /\ call[c].new.origin = call[c].path /\ Unbinds(call[c].path)'
                               /\ Cache!There(call[c].path)' /\ Cache!IsSessionFile(call[c].path)' =>
                                    Holds(call[c].new, call[c].path)' \/ Follows(c, call[c].path)' \/ WillForget(call[c].path)'
        BY <1>2 DEF Copies
      <4>1. call[c].path \in Cache!Files
        BY <1>1 DEF CacheType
      <4>2. /\ call[c].old = listed
            /\ listed.known => bound = call[c].path /\ call[c].new.known /\ call[c].new.origin = call[c].path
            /\ call[c].pc = "write" =>
                 /\ call[c].new.known /\ call[c].new.origin = call[c].path /\ Unbinds(call[c].path)
                 /\ Cache!There(call[c].path) /\ Cache!IsSessionFile(call[c].path) =>
                      Holds(call[c].new, call[c].path) \/ Follows(c, call[c].path) \/ WillForget(call[c].path)
        BY <2>1 DEF CacheStands, Copies
      <4>3. call[c].path # p /\ Holds(call[c].new, call[c].path) => Holds(call[c].new, call[c].path)'
        BY <4>1, <1>2, <1>4 DEF Holds
      <4> QED
        BY <4>1, <4>2, <4>3, <3>2, <3>4, <3>6, <3>14, <1>2
    <3> QED
      BY <3>9, <3>10, <3>12, <3>13, <3>15, <3>16 DEF CacheStands
  <2> QED
    BY <2>1, <2>2, <2>3
<1> QED
  BY <1>5, <1>6, <1>7, <1>8 DEF CacheInv

\* A step that leaves the disk and its events alone.
LEMMA DiskStays ==
  ASSUME UNCHANGED <<layout, file, queue, timers, toScan>>
  PROVE  /\ \A q : /\ Due(q)' <=> Due(q)
                   /\ WillForget(q)' <=> WillForget(q)
                   /\ Unbinds(q)' <=> Unbinds(q)
                   /\ Unlisted(q)' <=> Unlisted(q)
                   /\ Cache!There(q)' <=> Cache!There(q)
                   /\ Cache!IsSessionFile(q)' <=> Cache!IsSessionFile(q)
         /\ \A c, q : Follows(c, q)' <=> Follows(c, q)
         /\ \A s, q : Holds(s, q)' <=> Holds(s, q)
         /\ \A f, q : IsQueued(f, q)' <=> IsQueued(f, q)
BY DEF Due, WillForget, Unbinds, Unlisted, Cache!There, Cache!IsSessionFile, Cache!IsRollout, Cache!IsGeneration,
       Follows, Holds, IsQueued

\* An upsert begins on the watcher or on the timer of the file, which takes what called for it.
LEMMA UpsertBegins ==
  ASSUME CacheInv, NEW c \in Cache!Slots, NEW p \in Cache!Files, call[c].pc = "idle", c = "watcher" \/ c = p,
         Cache!Begin(c, p), UNCHANGED <<layout, clock, file, listed, bound, blind>>,
         queue' \in Seq({"create", "write", "remove"} \X Cache!Files),
         \A f, q : IsQueued(f, q)' => IsQueued(f, q),
         \A f, q : IsQueued(f, q) => \/ IsQueued(f, q)' \/ (f = "create" /\ q = p)
                                     \/ (f = "remove" /\ q = "plain" /\ p = "other" /\ Cache!HasTwin("plain")),
         timers' \subseteq timers, \A q \in timers : q \in timers' \/ (q = p /\ c = p),
         toScan' \subseteq toScan, \A q \in toScan : q \in toScan' \/ q = p,
         toScan # {} => queue' = <<>> /\ c = "watcher" /\ p \notin toScan'
  PROVE  CacheInv'
<1>1. CacheType /\ FilesStand /\ ScanFirst
  BY DEF CacheInv
<1>2. /\ layout' = layout /\ clock' = clock /\ file' = file /\ listed' = listed /\ bound' = bound /\ blind' = blind
      /\ c # "watcher" => c \in Cache!Files
      /\ "watcher" \notin Cache!Files
  BY DEF Cache!Files
<1> DEFINE begun == [Cache!Idle EXCEPT !.pc = "look", !.path = p, !.mtime = file[p].mtime]
           good == Cache!IsSessionFile(p) /\ Cache!There(p)
<1>3. /\ begun \in UpsertCall /\ begun.pc = "look" /\ begun.path = p /\ begun.mtime = file[p].mtime
      /\ Cache!Idle \in UpsertCall /\ Cache!Idle.pc = "idle" /\ Cache!Idle.path \notin Cache!Files
  <2>1. Cache!NoSession \in Entry
    BY DEF Cache!NoSession, Entry
  <2>2. file[p].mtime \in Int
    BY <1>1 DEF CacheType
  <2>3. Cache!Idle \in UpsertCall /\ Cache!Idle.pc = "idle" /\ Cache!Idle.path \notin Cache!Files
    BY <2>1 DEF Cache!Idle, UpsertCall, Cache!NoPath, Cache!Files
  <2>4. begun \in UpsertCall /\ begun.pc = "look" /\ begun.path = p /\ begun.mtime = file[p].mtime
    BY <2>2, <2>3 DEF UpsertCall
  <2> QED
    BY <2>3, <2>4
<1>4. call' = [call EXCEPT ![c] = IF good THEN begun ELSE Cache!Idle]
  BY DEF Cache!Begin
<1> HIDE DEF begun, good
<1>5. /\ call' \in [Cache!Slots -> UpsertCall] /\ call'[c] = IF good THEN begun ELSE Cache!Idle
      /\ \A d \in Cache!Slots : d # c => call'[d] = call[d]
  BY <1>1, <1>3, <1>4 DEF CacheType
<1>6. CacheType'
  <2>1. \A d \in Cache!Slots : IF call'[d].pc = "idle" THEN call'[d] = Cache!Idle ELSE call'[d].path \in Cache!Files
    BY <1>1, <1>3, <1>5 DEF CacheType
  <2> QED
    BY <1>1, <1>2, <1>5, <2>1 DEF CacheType
<1>7. good => Cache!There(p) /\ Cache!IsSessionFile(p) /\ file[p] # Cache!NoFile
              /\ (layout = "twins" /\ p = "other" => file["plain"] = Cache!Deleted)
  BY <1>1 DEF good, FilesStand, Cache!There, Cache!NoFile, Cache!IsSessionFile, Cache!IsRollout, Cache!Files
<1>8. FilesStand'
  <2>1. \A d \in Cache!Slots : call'[d].pc # "idle" => file[call'[d].path] # Cache!NoFile /\ (d # "watcher" => call'[d].path = d)
    BY <1>1, <1>3, <1>5, <1>7 DEF FilesStand
  <2>2. layout = "twins" => \A d \in Cache!Slots : call'[d].path = "other" => file["plain"] = Cache!Deleted
    BY <1>1, <1>3, <1>5, <1>7 DEF FilesStand, Cache!Files
  <2> QED
    BY <1>1, <1>2, <2>1, <2>2 DEF FilesStand, Cache!There
<1>9. ScanFirst'
  <2>1. toScan' # {} => toScan # {} /\ "watches" \in toScan'
    BY <1>1 DEF ScanFirst, Cache!Files
  <2>2. toScan' # {} => queue' = <<>> /\ timers' = {} /\ \A q \in Cache!Files : call'[q].pc = "idle"
    BY <2>1, <1>1, <1>2, <1>5 DEF ScanFirst, Cache!Slots
  <2>3. ~(Cache!Files \subseteq toScan')
    BY <1>1
  <2> QED
    BY <2>1, <2>2, <2>3 DEF ScanFirst
<1>10. ASSUME ~blind' PROVE CacheStands'
  <2>1. CacheStands
    BY <1>2, <1>10 DEF CacheInv
  <2>2. \A q \in Cache!Files : /\ Cache!There(q)' <=> Cache!There(q)
                               /\ Cache!IsSessionFile(q)' <=> Cache!IsSessionFile(q)
                               /\ Unlisted(q)' <=> Unlisted(q)
                               /\ WillForget(q) => WillForget(q)'
                               /\ Unbinds(q) => Unbinds(q)'
    BY <1>2 DEF Cache!There, Cache!IsSessionFile, Cache!IsRollout, Cache!IsGeneration, Unlisted, WillForget, Unbinds,
                Cache!HasTwin, Cache!Files
  <2>3. \A s, q : Holds(s, q)' <=> Holds(s, q)
    BY <1>2 DEF Holds
  <2>4. \A q \in Cache!Files : /\ Due(q) => Due(q)' \/ q = p
                               /\ Under(q) => Under(q)'
    <3>1. \A q \in Cache!Files : Due(q) => Due(q)' \/ q = p
      BY DEF Due
    <3>2. ASSUME NEW q \in Cache!Files, Under(q) PROVE Under(q)'
      BY <1>5, <3>2 DEF Under
    <3> QED
      BY <3>1, <3>2
  <2>5. good => Under(p)'
    BY <1>3, <1>5 DEF Under
  <2>6. ASSUME NEW d \in Cache!Slots, call'[d].pc # "idle", d # c
        PROVE  /\ call'[d] = call[d] /\ call[d].path \in Cache!Files
               /\ Follows(d, call[d].path) => Follows(d, call[d].path)'
    <3>1. call'[d] = call[d] /\ call[d].path \in Cache!Files /\ (d # "watcher" => call[d].path = d)
      BY <2>6, <1>1, <1>5 DEF CacheType, FilesStand
    <3>2. Follows(d, call[d].path) => IsQueued("write", call[d].path)' \/ (d # "watcher" /\ call[d].path \in timers')
      BY <2>6, <3>1 DEF Follows
    <3> QED
      BY <3>1, <3>2 DEF Follows
  <2>7. EntryIsOne'
    BY <2>1, <1>2, <1>5 DEF CacheStands, EntryIsOne
  <2>8. listed.known => bound \in Cache!Files
    BY <2>1, <1>1 DEF CacheStands, EntryIsOne, CacheType
  <2>9. EntryUnbinds'
    BY <2>1, <2>2, <2>8, <1>2 DEF CacheStands, EntryUnbinds
  <2>10. EntryHolds'
    BY <2>1, <2>2, <2>3, <2>4, <2>5, <2>8, <1>2 DEF CacheStands, EntryHolds, good
  <2>11. FilesListed'
    <3> SUFFICES ASSUME NEW q \in Cache!Files, Cache!There(q)', Cache!IsSessionFile(q)', ~Unlisted(q)'
                 PROVE  \/ Due(q)' \/ Under(q)' \/ bound' = q \/ Outdated(q)'
                        \/ layout' = "twins" /\ q = "other" /\ IsQueued("remove", "plain")'
      BY DEF FilesListed
    <3>1. Cache!There(q) /\ Cache!IsSessionFile(q) /\ ~Unlisted(q)
      BY <2>2
    <3>2. CASE q = p
      BY <3>1, <3>2, <2>5 DEF good
    <3>3. CASE q # p
      <4>1. \/ Due(q) \/ Under(q) \/ bound = q \/ Outdated(q)
            \/ layout = "twins" /\ q = "other" /\ IsQueued("remove", "plain")
        BY <3>1, <2>1 DEF CacheStands, FilesListed
      <4>2. Outdated(q) => Outdated(q)'
        BY <1>2 DEF Outdated, Cache!There
      <4>3. q = "other" /\ IsQueued("remove", "plain") => IsQueued("remove", "plain")'
        BY <3>3
      <4> QED
        BY <4>1, <4>2, <4>3, <3>3, <2>4, <1>2
    <3> QED
      BY <3>2, <3>3
  <2>12. Looks'
    <3> SUFFICES ASSUME NEW d \in Cache!Slots, call'[d].pc = "look"
                 PROVE  (/\ call[d].mtime <= clock
                         /\ Cache!There(call[d].path) => call[d].mtime <= file[call[d].path].mtime
                         /\ layout # "mirrors" /\ call[d].path = "plain" /\ Cache!There("other") => call[d].mtime < file["other"].mtime
                         /\ Cache!There(call[d].path) /\ Cache!IsSessionFile(call[d].path) /\ ~Unlisted(call[d].path) =>
                              call[d].mtime = file[call[d].path].mtime \/ Follows(d, call[d].path))'
      BY DEF Looks
    <3>0. /\ Cache!There(call[d].path)' <=> file[call'[d].path].mtime > 0
          /\ Cache!There("other")' <=> Cache!There("other")
      BY <1>2 DEF Cache!There
    <3>1. CASE d = c
      <4>1. good /\ call'[d].path = p /\ call'[d].mtime = file[p].mtime
        BY <3>1, <1>3, <1>5
      <4> QED
        BY <4>1, <1>1, <1>2, <1>7, <3>0 DEF FilesStand, CacheType
    <3>2. CASE d # c
      <4>1. /\ call'[d] = call[d] /\ call[d].path \in Cache!Files
            /\ Follows(d, call[d].path) => Follows(d, call[d].path)'
        BY <3>2, <2>6
      <4>2. /\ call[d].mtime <= clock
            /\ Cache!There(call[d].path) => call[d].mtime <= file[call[d].path].mtime
            /\ layout # "mirrors" /\ call[d].path = "plain" /\ Cache!There("other") => call[d].mtime < file["other"].mtime
            /\ Cache!There(call[d].path) /\ Cache!IsSessionFile(call[d].path) /\ ~Unlisted(call[d].path) =>
                 call[d].mtime = file[call[d].path].mtime \/ Follows(d, call[d].path)
        BY <4>1, <2>1 DEF CacheStands, Looks
      <4>3. /\ Cache!There(call[d].path)' => Cache!There(call[d].path)
            /\ Cache!IsSessionFile(call[d].path)' => Cache!IsSessionFile(call[d].path)
            /\ Unlisted(call[d].path) => Unlisted(call[d].path)'
            /\ Follows(d, call[d].path) => Follows(d, call[d].path)'
        <5>1. Follows(d, call[d].path) => IsQueued("write", call[d].path)' \/ (d # "watcher" /\ call[d].path \in timers')
          BY <3>2, <4>1, <2>6 DEF Follows
        <5> QED
          BY <4>1, <1>2 DEF Cache!There, Cache!IsSessionFile, Cache!IsRollout, Cache!IsGeneration, Unlisted, Follows
      <4> QED
        BY <4>1, <4>2, <4>3, <3>0, <1>2
    <3> QED
      BY <3>1, <3>2
  <2>13. Copies'
    <3> SUFFICES ASSUME NEW d \in Cache!Slots, call'[d].pc \in {"read", "write"}
                 PROVE  (/\ call[d].old = listed
                         /\ listed.known => bound = call[d].path /\ call[d].new.known /\ call[d].new.origin = call[d].path
                         /\ call[d].pc = "write" =>
                              /\ call[d].new.known /\ call[d].new.origin = call[d].path /\ Unbinds(call[d].path)
                              /\ Cache!There(call[d].path) /\ Cache!IsSessionFile(call[d].path) =>
                                   Holds(call[d].new, call[d].path) \/ Follows(d, call[d].path) \/ WillForget(call[d].path))'
      BY DEF Copies
    <3>1. d # c
      BY <1>3, <1>5
    <3>2. /\ call'[d] = call[d] /\ call[d].path \in Cache!Files
          /\ Follows(d, call[d].path) => Follows(d, call[d].path)'
      BY <3>1, <2>6
    <3>3. /\ call[d].old = listed
          /\ listed.known => bound = call[d].path /\ call[d].new.known /\ call[d].new.origin = call[d].path
          /\ call[d].pc = "write" =>
               /\ call[d].new.known /\ call[d].new.origin = call[d].path /\ Unbinds(call[d].path)
               /\ Cache!There(call[d].path) /\ Cache!IsSessionFile(call[d].path) =>
                    Holds(call[d].new, call[d].path) \/ Follows(d, call[d].path) \/ WillForget(call[d].path)
      BY <3>2, <2>1 DEF CacheStands, Copies
    <3>4. /\ Cache!There(call[d].path)' => Cache!There(call[d].path)
          /\ Cache!IsSessionFile(call[d].path)' => Cache!IsSessionFile(call[d].path)
          /\ Holds(call[d].new, call[d].path) => Holds(call[d].new, call[d].path)'
          /\ WillForget(call[d].path) => WillForget(call[d].path)'
          /\ Unbinds(call[d].path) => Unbinds(call[d].path)'
          /\ Follows(d, call[d].path) => Follows(d, call[d].path)'
      <4>1. Follows(d, call[d].path) => IsQueued("write", call[d].path)' \/ (d # "watcher" /\ call[d].path \in timers')
        BY <3>2 DEF Follows
      <4>2. WillForget(call[d].path) => WillForget(call[d].path)'
        BY <3>2, <2>2 DEF WillForget
      <4>3. Unbinds(call[d].path) => Unbinds(call[d].path)'
        BY <3>2, <2>2 DEF Unbinds
      <4> QED
        BY <4>1, <4>2, <4>3, <3>2, <1>2 DEF Cache!There, Cache!IsSessionFile, Cache!IsRollout, Cache!IsGeneration, Follows, Holds
    <3> QED
      BY <3>2, <3>3, <3>4, <1>2
  <2> QED
    BY <2>7, <2>9, <2>10, <2>11, <2>12, <2>13 DEF CacheStands
<1> QED
  BY <1>6, <1>8, <1>9, <1>10 DEF CacheInv

\* Start walks the files.
LEMMA CacheScans ==
  ASSUME CacheInv, NEW p \in Cache!Files, Cache!scan(p)
  PROVE  CacheInv'
<1>1. CacheType /\ ScanFirst
  BY DEF CacheInv
<1>2. /\ call["watcher"].pc = "idle" /\ "watcher" \in Cache!Slots /\ Cache!Begin("watcher", p)
      /\ UNCHANGED <<layout, clock, file, queue, timers, listed, bound, blind>>
      /\ toScan' = toScan \ {p} /\ toScan # {}
  BY DEF Cache!scan, Cache!Idle, Cache!Slots
<1>3. queue' \in Seq({"create", "write", "remove"} \X Cache!Files) /\ queue' = <<>>
  BY <1>1, <1>2 DEF CacheType, ScanFirst
<1>4. \A f, q : IsQueued(f, q)' <=> IsQueued(f, q)
  BY <1>2 DEF IsQueued
<1> QED
  BY <1>1, <1>2, <1>3, <1>4, UpsertBegins

\* The timer of a file fires.
LEMMA CacheFires ==
  ASSUME CacheInv, NEW p \in Cache!Files, Cache!TimerFires(p)
  PROVE  CacheInv'
<1>1. CacheType /\ ScanFirst
  BY DEF CacheInv
<1>2. /\ call[p].pc = "idle" /\ p \in Cache!Slots /\ Cache!Begin(p, p)
      /\ UNCHANGED <<layout, clock, file, queue, listed, bound, toScan, blind>>
      /\ p \in timers /\ timers' = timers \ {p}
  BY DEF Cache!TimerFires, Cache!Idle, Cache!Slots
<1>3. queue' \in Seq({"create", "write", "remove"} \X Cache!Files) /\ toScan = {}
  BY <1>1, <1>2 DEF CacheType, ScanFirst
<1>4. \A f, q : IsQueued(f, q)' <=> IsQueued(f, q)
  BY <1>2 DEF IsQueued
<1> QED
  BY <1>1, <1>2, <1>3, <1>4, UpsertBegins

\* The watcher handles a file that was made.
LEMMA CacheCreates ==
  ASSUME CacheInv, Cache!handle, Cache!HandleCreate
  PROVE  CacheInv'
<1> DEFINE p == Head(queue)[2]
<1>1. CacheType /\ ScanFirst
  BY DEF CacheInv
<1>2. /\ call["watcher"].pc = "idle" /\ "watcher" \in Cache!Slots /\ Cache!Begin("watcher", p)
      /\ UNCHANGED <<layout, clock, file, timers, listed, bound, toScan, blind>>
      /\ queue # <<>> /\ queue' = Tail(queue) /\ Head(queue)[1] = "create"
  BY DEF Cache!handle, Cache!HandleCreate, Cache!Idle, Cache!Slots
<1>3. /\ queue' \in Seq({"create", "write", "remove"} \X Cache!Files) /\ p \in Cache!Files
      /\ \A f, q : /\ IsQueued(f, q)' => IsQueued(f, q)
                   /\ IsQueued(f, q) => IsQueued(f, q)' \/ (f = "create" /\ q = p)
  BY <1>1, <1>2, QueueShrinks
<1>4. toScan = {}
  BY <1>1, <1>2 DEF ScanFirst
<1> HIDE DEF p
<1> QED
  BY <1>1, <1>2, <1>3, <1>4, UpsertBegins

\* The watcher handles the deletion of a rollout that was compressed.
LEMMA CacheFollowsTwin ==
  ASSUME CacheInv, Cache!handle, Cache!HandleRemove, Cache!HasTwin(Head(queue)[2])
  PROVE  CacheInv'
<1>1. CacheType /\ ScanFirst
  BY DEF CacheInv
<1>2. /\ call["watcher"].pc = "idle" /\ "watcher" \in Cache!Slots /\ Cache!Begin("watcher", "other")
      /\ UNCHANGED <<layout, clock, file, timers, listed, bound, toScan, blind>>
      /\ queue # <<>> /\ queue' = Tail(queue) /\ Head(queue)[1] = "remove"
      /\ Head(queue)[2] = "plain" /\ Cache!HasTwin("plain") /\ "other" \in Cache!Files
  BY DEF Cache!handle, Cache!HandleRemove, Cache!HasTwin, Cache!Idle, Cache!Slots, Cache!Files
<1>3. /\ queue' \in Seq({"create", "write", "remove"} \X Cache!Files)
      /\ \A f, q : /\ IsQueued(f, q)' => IsQueued(f, q)
                   /\ IsQueued(f, q) => IsQueued(f, q)' \/ (f = "remove" /\ q = "plain")
  BY <1>1, <1>2, QueueShrinks
<1>4. toScan = {}
  BY <1>1, <1>2 DEF ScanFirst
<1> QED
  BY <1>1, <1>2, <1>3, <1>4, UpsertBegins

\* The walk is over: file events are handled from now on.
LEMMA CacheWatches ==
  ASSUME CacheInv, Cache!addWatches
  PROVE  CacheInv'
<1>1. CacheType /\ FilesStand /\ ScanFirst
  BY DEF CacheInv
<1>2. /\ toScan = {"watches"} /\ toScan' = {}
      /\ UNCHANGED <<layout, clock, file, queue, timers, listed, bound, call, blind>>
      /\ "watches" \notin Cache!Files
  BY DEF Cache!addWatches, Cache!Files
<1>3. CacheType'
  BY <1>1, <1>2 DEF CacheType
<1>4. FilesStand'
  BY <1>1, <1>2 DEF FilesStand, IsQueued, Cache!There
<1>5. ScanFirst'
  BY <1>1, <1>2 DEF ScanFirst, Cache!Files
<1>6. ASSUME ~blind' PROVE CacheStands'
  <2>1. CacheStands
    BY <1>2, <1>6 DEF CacheInv
  <2>2. \A q \in Cache!Files : Due(q)' <=> Due(q)
    BY <1>2 DEF Due, IsQueued
  <2>3. /\ \A q : /\ Under(q)' <=> Under(q)
                  /\ WillForget(q)' <=> WillForget(q)
                  /\ Unbinds(q)' <=> Unbinds(q)
                  /\ Unlisted(q)' <=> Unlisted(q)
                  /\ Cache!There(q)' <=> Cache!There(q)
                  /\ Cache!IsSessionFile(q)' <=> Cache!IsSessionFile(q)
                  /\ Outdated(q)' <=> Outdated(q)
        /\ \A c, q : Follows(c, q)' <=> Follows(c, q)
        /\ \A s, q : Holds(s, q)' <=> Holds(s, q)
        /\ \A f, q : IsQueued(f, q)' <=> IsQueued(f, q)
    BY <1>2 DEF Under, WillForget, Unbinds, Unlisted, Outdated, Cache!There, Cache!IsSessionFile, Cache!IsRollout,
                Cache!IsGeneration, Follows, Holds, IsQueued
  <2>4. EntryIsOne' /\ EntryUnbinds'
    BY <2>1, <2>3, <1>2 DEF CacheStands, EntryIsOne, EntryUnbinds
  <2>5. EntryHolds'
    <3>1. listed.known => bound \in Cache!Files
      BY <2>1, <1>1 DEF CacheStands, EntryIsOne, CacheType
    <3> QED
      BY <3>1, <2>1, <2>2, <2>3, <1>2 DEF CacheStands, EntryHolds
  <2>6. FilesListed'
    BY <2>1, <2>2, <2>3, <1>2 DEF CacheStands, FilesListed
  <2>7. Looks' /\ Copies'
    BY <2>1, <2>3, <1>2 DEF CacheStands, Looks, Copies
  <2> QED
    BY <2>4, <2>5, <2>6, <2>7 DEF CacheStands
<1> QED
  BY <1>3, <1>4, <1>5, <1>6 DEF CacheInv

\* The watcher handles a write: a timer of the file runs.
LEMMA CacheDebounces ==
  ASSUME CacheInv, Cache!handle, Cache!HandleWrite
  PROVE  CacheInv'
<1> DEFINE p == Head(queue)[2]
<1>1. CacheType /\ FilesStand /\ ScanFirst
  BY DEF CacheInv
<1>2. /\ call["watcher"].pc = "idle" /\ timers' = timers \cup {p}
      /\ UNCHANGED <<layout, clock, file, listed, bound, call, toScan, blind>>
      /\ queue # <<>> /\ queue' = Tail(queue) /\ Head(queue)[1] = "write"
  BY DEF Cache!handle, Cache!HandleWrite, Cache!Idle
<1>3. /\ queue' \in Seq({"create", "write", "remove"} \X Cache!Files) /\ p \in Cache!Files
      /\ \A f, q : /\ IsQueued(f, q)' => IsQueued(f, q)
                   /\ IsQueued(f, q) => IsQueued(f, q)' \/ (f = "write" /\ q = p)
  BY <1>1, <1>2, QueueShrinks
<1>4. toScan = {}
  BY <1>1, <1>2 DEF ScanFirst
<1> HIDE DEF p
<1>5. CacheType'
  BY <1>1, <1>2, <1>3 DEF CacheType
<1>6. FilesStand'
  BY <1>1, <1>2, <1>3 DEF FilesStand, Cache!There
<1>7. ScanFirst'
  BY <1>4, <1>2 DEF ScanFirst, Cache!Files
<1>8. ASSUME ~blind' PROVE CacheStands'
  <2>1. CacheStands
    BY <1>2, <1>8 DEF CacheInv
  <2>2. /\ \A q : IsQueued("remove", q)' <=> IsQueued("remove", q)
        /\ \A q : /\ Due(q) => Due(q)'
                  /\ Under(q)' <=> Under(q)
                  /\ WillForget(q)' <=> WillForget(q)
                  /\ Unbinds(q)' <=> Unbinds(q)
                  /\ Unlisted(q)' <=> Unlisted(q)
                  /\ Cache!There(q)' <=> Cache!There(q)
                  /\ Cache!IsSessionFile(q)' <=> Cache!IsSessionFile(q)
                  /\ Outdated(q)' <=> Outdated(q)
        /\ \A s, q : Holds(s, q)' <=> Holds(s, q)
    <3>1. \A q : IsQueued("remove", q)' <=> IsQueued("remove", q)
      BY <1>3
    <3>2. \A q : Due(q) => Due(q)'
      BY <1>2, <1>3 DEF Due
    <3>3. \A q : /\ Under(q)' <=> Under(q)
                 /\ Unlisted(q)' <=> Unlisted(q)
                 /\ Cache!There(q)' <=> Cache!There(q)
                 /\ Cache!IsSessionFile(q)' <=> Cache!IsSessionFile(q)
                 /\ Outdated(q)' <=> Outdated(q)
      BY <1>2 DEF Under, Unlisted, Outdated, Cache!There, Cache!IsSessionFile, Cache!IsRollout, Cache!IsGeneration
    <3>4. \A s, q : Holds(s, q)' <=> Holds(s, q)
      BY <1>2 DEF Holds
    <3>5. \A q : WillForget(q)' <=> WillForget(q)
      BY <3>1, <1>2 DEF WillForget
    <3>6. \A q : Unbinds(q)' <=> Unbinds(q)
      BY <3>1, <3>3, <1>2 DEF Unbinds
    <3> QED
      BY <3>1, <3>2, <3>3, <3>4, <3>5, <3>6
  <2>3. ASSUME NEW c \in Cache!Slots, call[c].pc # "idle", Follows(c, call[c].path)
        PROVE  Follows(c, call[c].path)'
    <3>1. c # "watcher"
      BY <2>3, <1>2
    <3> QED
      BY <2>3, <3>1, <1>2, <1>3 DEF Follows
  <2>4. EntryIsOne' /\ EntryUnbinds'
    BY <2>1, <2>2, <1>2 DEF CacheStands, EntryIsOne, EntryUnbinds
  <2>5. EntryHolds'
    BY <2>1, <2>2, <1>2 DEF CacheStands, EntryHolds
  <2>6. FilesListed'
    BY <2>1, <2>2, <1>2 DEF CacheStands, FilesListed
  <2>7. Looks'
    BY <2>1, <2>2, <2>3, <1>2 DEF CacheStands, Looks
  <2>8. Copies'
    BY <2>1, <2>2, <2>3, <1>2 DEF CacheStands, Copies
  <2> QED
    BY <2>4, <2>5, <2>6, <2>7, <2>8 DEF CacheStands
<1> QED
  BY <1>5, <1>6, <1>7, <1>8 DEF CacheInv

\* The watcher ignores the deletion of a file that does not count.
LEMMA CacheIgnores ==
  ASSUME CacheInv, Cache!handle, Cache!HandleRemove, ~Cache!HasTwin(Head(queue)[2]), ~Cache!IsSessionFile(Head(queue)[2])
  PROVE  CacheInv'
<1> DEFINE p == Head(queue)[2]
<1>1. CacheType /\ FilesStand /\ ScanFirst
  BY DEF CacheInv
<1>2. /\ call["watcher"].pc = "idle"
      /\ UNCHANGED <<layout, clock, file, timers, listed, bound, call, toScan, blind>>
      /\ queue # <<>> /\ queue' = Tail(queue) /\ Head(queue)[1] = "remove"
  BY DEF Cache!handle, Cache!HandleRemove, Cache!Idle
<1>3. /\ queue' \in Seq({"create", "write", "remove"} \X Cache!Files) /\ p \in Cache!Files /\ IsQueued("remove", p)
      /\ \A f, q : /\ IsQueued(f, q)' => IsQueued(f, q)
                   /\ IsQueued(f, q) => IsQueued(f, q)' \/ (f = "remove" /\ q = p)
  BY <1>1, <1>2, QueueShrinks
<1>4. toScan = {} /\ ~Cache!IsSessionFile(p) /\ ~Cache!HasTwin(p)
  BY <1>1, <1>2 DEF ScanFirst
<1> HIDE DEF p
<1>5. CacheType'
  BY <1>1, <1>2, <1>3 DEF CacheType
<1>6. FilesStand'
  BY <1>1, <1>2, <1>3 DEF FilesStand, Cache!There
<1>7. ScanFirst'
  BY <1>4, <1>2 DEF ScanFirst, Cache!Files
<1>8. ASSUME ~blind' PROVE CacheStands'
  <2>1. CacheStands
    BY <1>2, <1>8 DEF CacheInv
  <2>2. \A q : /\ Due(q) => Due(q)'
               /\ Under(q)' <=> Under(q)
               /\ Unlisted(q)' <=> Unlisted(q)
               /\ Cache!There(q)' <=> Cache!There(q)
               /\ Cache!IsSessionFile(q)' <=> Cache!IsSessionFile(q)
               /\ Outdated(q)' <=> Outdated(q)
    <3>1. \A q : Due(q) => Due(q)'
      BY <1>2, <1>3 DEF Due
    <3> QED
      BY <3>1, <1>2 DEF Under, Unlisted, Outdated, Cache!There, Cache!IsSessionFile, Cache!IsRollout, Cache!IsGeneration
  <2>3. (\A s, q : Holds(s, q)' <=> Holds(s, q)) /\ (\A c, q : Follows(c, q) => Follows(c, q)')
    BY <1>2, <1>3 DEF Holds, Follows
  \* It is the twin of a rollout that is there, or what a generation succeeds.
  <2>4. (layout = "twins" /\ p = "other" /\ Cache!There("plain")) \/ (layout = "generations" /\ p = "plain" /\ Cache!There("other"))
    BY <1>1, <1>3, <1>4 DEF Cache!IsSessionFile, Cache!IsRollout, Cache!IsGeneration, Cache!Files
  <2>5. \A q : WillForget(q) => WillForget(q)'
    BY <2>4, <1>2, <1>3 DEF WillForget
  <2>6. ASSUME NEW q \in Cache!Files, Unbinds(q), ~(layout = "twins" /\ q = "other")
        PROVE  Unbinds(q)'
    <3>1. Cache!There(q)' <=> Cache!There(q)
      BY <2>2
    <3>2. Cache!There("other")' <=> Cache!There("other")
      BY <2>2
    <3> QED
      BY <3>1, <3>2, <2>4, <2>6, <1>2, <1>3 DEF Unbinds, Cache!Files
  <2>7. layout = "twins" => bound # "other" /\ \A c \in Cache!Slots : call[c].path # "other"
    BY <2>4, <1>1 DEF FilesStand, Cache!There, Cache!Deleted
  <2>8. listed.known => bound \in Cache!Files
    BY <2>1, <1>1 DEF CacheStands, EntryIsOne, CacheType
  <2>9. EntryIsOne' /\ EntryUnbinds'
    BY <2>1, <2>6, <2>7, <2>8, <1>2 DEF CacheStands, EntryIsOne, EntryUnbinds
  <2>10. EntryHolds'
    BY <2>1, <2>2, <2>3, <2>5, <1>2 DEF CacheStands, EntryHolds
  <2>11. FilesListed'
    <3>1. layout = "twins" /\ IsQueued("remove", "plain") => IsQueued("remove", "plain")'
      BY <2>4, <1>3
    <3> QED
      BY <3>1, <2>1, <2>2, <1>2 DEF CacheStands, FilesListed
  <2>12. Looks'
    BY <2>1, <2>2, <2>3, <1>2 DEF CacheStands, Looks
  <2>13. Copies'
    <3> SUFFICES ASSUME NEW d \in Cache!Slots, call[d].pc \in {"read", "write"}
                 PROVE  (/\ call[d].old = listed
                         /\ listed.known => bound = call[d].path /\ call[d].new.known /\ call[d].new.origin = call[d].path
                         /\ call[d].pc = "write" =>
                              /\ call[d].new.known /\ call[d].new.origin = call[d].path /\ Unbinds(call[d].path)
                              /\ Cache!There(call[d].path) /\ Cache!IsSessionFile(call[d].path) =>
                                   Holds(call[d].new, call[d].path) \/ Follows(d, call[d].path) \/ WillForget(call[d].path))'
      BY <1>2 DEF Copies
    <3>1. /\ call[d].old = listed
          /\ listed.known => bound = call[d].path /\ call[d].new.known /\ call[d].new.origin = call[d].path
          /\ call[d].pc = "write" =>
               /\ call[d].new.known /\ call[d].new.origin = call[d].path /\ Unbinds(call[d].path)
               /\ Cache!There(call[d].path) /\ Cache!IsSessionFile(call[d].path) =>
                    Holds(call[d].new, call[d].path) \/ Follows(d, call[d].path) \/ WillForget(call[d].path)
      BY <2>1 DEF CacheStands, Copies
    <3>2. call[d].path \in Cache!Files /\ ~(layout = "twins" /\ call[d].path = "other")
      BY <2>7, <1>1 DEF CacheType
    <3> QED
      BY <3>1, <3>2, <2>2, <2>3, <2>5, <2>6, <1>2
  <2> QED
    BY <2>9, <2>10, <2>11, <2>12, <2>13 DEF CacheStands
<1> QED
  BY <1>5, <1>6, <1>7, <1>8 DEF CacheInv

\* The id is forgotten with the file p, and what is listed then is what another upsert brings.
LEMMA IdForgotten ==
  ASSUME CacheInv, NEW p \in Cache!Files, toScan = {}, UNCHANGED <<layout, clock, timers, call, toScan>>,
         file' = [file EXCEPT ![p] = Cache!Deleted],
         listed' = Cache!NoSession, bound' = Cache!NoPath, Cache!Raced({}),
         queue' \in Seq({"create", "write", "remove"} \X Cache!Files),
         \A f, q : IsQueued(f, q)' => IsQueued(f, q) \/ (f = "remove" /\ q = p),
         \A f, q : IsQueued(f, q) => IsQueued(f, q)' \/ (f = "remove" /\ q = p),
         layout = "twins" /\ p = "other" => file["plain"] = Cache!Deleted,
         CacheStands => \A q \in Cache!Files : q # p /\ Cache!There(q) /\ ~Unlisted(q)' /\ Cache!IsSessionFile(q)' =>
                          Due(q) \/ Under(q) \/ (layout = "twins" /\ q = "other" /\ IsQueued("remove", "plain")')
  PROVE  CacheInv'
<1>1. CacheType /\ FilesStand
  BY DEF CacheInv
<1>2. /\ layout' = layout /\ clock' = clock /\ timers' = timers /\ call' = call /\ toScan' = {}
      /\ clock \in Nat /\ blind' = (blind \/ \E c \in Cache!Slots : call[c].pc \in {"read", "write"})
  BY <1>1 DEF Cache!Raced, CacheType
<1>3. \A q \in Cache!Files : file'[q] = IF q = p THEN Cache!Deleted ELSE file[q]
  BY <1>1 DEF CacheType
<1>4. ~listed'.known /\ listed' \in Entry
  BY DEF Cache!NoSession, Entry
<1>5. CacheType'
  <2>1. file' \in [Cache!Files -> [mtime : Int, lines : Int]]
    BY <1>1 DEF CacheType, Cache!Deleted
  <2> QED
    BY <1>1, <1>2, <1>4, <2>1 DEF CacheType
<1>6. FilesStand'
  <2>1. \A q \in Cache!Files :
          /\ file'[q].mtime >= 0 /\ file'[q].mtime <= clock /\ file'[q].lines <= clock
          /\ file'[q] = Cache!NoFile \/ file'[q] = Cache!Deleted \/ Cache!There(q)'
          /\ IsQueued("remove", q)' => file'[q] = Cache!Deleted
          /\ Cache!There(q)' => file'[q].lines >= 1
    BY <1>1, <1>2, <1>3 DEF FilesStand, Cache!There, Cache!Deleted
  <2>2. layout # "mirrors" /\ Cache!There("plain")' /\ Cache!There("other")' => file'["plain"].mtime < file'["other"].mtime
    BY <1>1, <1>3 DEF FilesStand, Cache!There, Cache!Deleted, Cache!Files
  <2>3. layout = "twins" /\ file'["plain"] = Cache!NoFile => file'["other"] = Cache!NoFile
    BY <1>1, <1>3 DEF FilesStand, Cache!Deleted, Cache!NoFile, Cache!Files
  <2>4. layout = "twins" => \A c \in Cache!Slots : call[c].path = "other" => file'["plain"] = Cache!Deleted
    BY <1>1, <1>3 DEF FilesStand, Cache!Files
  <2>5. \A c \in Cache!Slots : call[c].pc # "idle" =>
          file'[call[c].path] # Cache!NoFile /\ (c # "watcher" => call[c].path = c)
    <3>1. \A c \in Cache!Slots : call[c].pc # "idle" => call[c].path \in Cache!Files
      BY <1>1 DEF CacheType
    <3> QED
      BY <3>1, <1>1, <1>3 DEF FilesStand, Cache!Deleted, Cache!NoFile
  <2>6. bound' # "other"
    BY DEF Cache!NoPath
  <2> QED
    BY <2>1, <2>2, <2>3, <2>4, <2>5, <2>6, <1>2 DEF FilesStand
<1>7. ScanFirst'
  BY <1>2 DEF ScanFirst, Cache!Files
<1>8. ASSUME ~blind' PROVE CacheStands'
  <2>1. CacheStands /\ \A c \in Cache!Slots : call[c].pc \notin {"read", "write"}
    BY <1>2, <1>8 DEF CacheInv
  <2>2. EntryIsOne' /\ EntryUnbinds' /\ EntryHolds'
    BY <1>4 DEF EntryIsOne, EntryUnbinds, EntryHolds
  <2>3. Copies'
    BY <2>1, <1>2 DEF Copies
  <2>4. \A q \in Cache!Files : Cache!There(q)' <=> Cache!There(q) /\ q # p
    BY <1>3 DEF Cache!There, Cache!Deleted
  <2>5. (\A q : (Due(q) => Due(q)') /\ (Under(q) => Under(q)')) /\ (\A c, q : Follows(c, q) => Follows(c, q)')
    BY <1>2 DEF Due, Under, Follows
  <2>6. FilesListed'
    <3> SUFFICES ASSUME NEW q \in Cache!Files, Cache!There(q)', Cache!IsSessionFile(q)', ~Unlisted(q)'
                 PROVE  \/ Due(q)' \/ Under(q)'
                        \/ layout' = "twins" /\ q = "other" /\ IsQueued("remove", "plain")'
      BY DEF FilesListed
    <3> QED
      BY <2>1, <2>4, <2>5, <1>2
  <2>7. Looks'
    <3> SUFFICES ASSUME NEW d \in Cache!Slots, call[d].pc = "look"
                 PROVE  (/\ call[d].mtime <= clock
                         /\ Cache!There(call[d].path) => call[d].mtime <= file[call[d].path].mtime
                         /\ layout # "mirrors" /\ call[d].path = "plain" /\ Cache!There("other") => call[d].mtime < file["other"].mtime
                         /\ Cache!There(call[d].path) /\ Cache!IsSessionFile(call[d].path) /\ ~Unlisted(call[d].path) =>
                              call[d].mtime = file[call[d].path].mtime \/ Follows(d, call[d].path))'
      BY <1>2 DEF Looks
    <3>1. call[d].path \in Cache!Files
      BY <1>1 DEF CacheType
    <3>2. /\ call[d].mtime <= clock
          /\ Cache!There(call[d].path) => call[d].mtime <= file[call[d].path].mtime
          /\ layout # "mirrors" /\ call[d].path = "plain" /\ Cache!There("other") => call[d].mtime < file["other"].mtime
          /\ Cache!There(call[d].path) /\ Cache!IsSessionFile(call[d].path) /\ ~Unlisted(call[d].path) =>
               call[d].mtime = file[call[d].path].mtime \/ Follows(d, call[d].path)
      BY <2>1 DEF CacheStands, Looks
    <3>3. /\ Cache!There(call[d].path)' => Cache!There(call[d].path) /\ file'[call[d].path] = file[call[d].path]
          /\ Cache!There("other")' => Cache!There("other") /\ file'["other"] = file["other"]
      <4>1. \A q \in Cache!Files : Cache!There(q)' => Cache!There(q) /\ file'[q] = file[q]
        BY <2>4, <1>3
      <4>2. Cache!There("other")' => Cache!There("other") /\ file'["other"] = file["other"]
        BY <4>1 DEF Cache!Files
      <4>3. Cache!There(call[d].path)' => Cache!There(call[d].path) /\ file'[call[d].path] = file[call[d].path]
        <5>1. Cache!There(call[d].path)' <=> file'[call[d].path].mtime > 0
          BY <1>2 DEF Cache!There
        <5> QED
          BY <5>1, <3>1, <1>3 DEF Cache!There, Cache!Deleted
      <4> QED
        BY <4>2, <4>3
    \* The other file counted when its upsert began, or is unlisted now.
    <3>4. ASSUME Cache!There(call[d].path)', Cache!IsSessionFile(call[d].path)', ~Unlisted(call[d].path)'
          PROVE  Cache!IsSessionFile(call[d].path) /\ ~Unlisted(call[d].path)
      <4>1. call[d].path # p /\ Cache!There(call[d].path)
        BY <3>1, <3>3, <3>4, <1>3, <1>2 DEF Cache!There, Cache!Deleted
      <4>2. layout \in {"mirrors", "twins", "generations"} /\ layout' = layout
        BY <1>1, <1>2 DEF CacheType
      <4>3. CASE layout = "twins"
        <5>1. call[d].path = "other" => ~Cache!There("plain")
          BY <4>3, <1>1 DEF FilesStand, Cache!There, Cache!Deleted
        <5> QED
          BY <4>3, <5>1 DEF Unlisted, Cache!IsSessionFile, Cache!IsRollout
      <4>4. CASE layout = "mirrors"
        BY <4>4, <4>1, <3>1, <3>4, <1>2, <1>3 DEF Unlisted, Twin, Cache!Files
      <4>5. CASE layout = "generations"
        <5>1. call[d].path = "other"
          BY <4>5, <4>1, <3>1, <3>4, <1>2, <1>3 DEF Unlisted, Twin, Cache!Files
        <5> QED
          BY <5>1, <4>5 DEF Unlisted, Cache!IsSessionFile, Cache!IsGeneration
      <4> QED
        BY <4>2, <4>3, <4>4, <4>5
    <3>5. Follows(d, call[d].path) => Follows(d, call[d].path)'
      BY <2>5, <1>2 DEF Follows
    <3> QED
      BY <3>2, <3>3, <3>4, <3>5, <1>2
  <2> QED
    BY <2>2, <2>3, <2>6, <2>7 DEF CacheStands
<1> QED
  BY <1>5, <1>6, <1>7, <1>8 DEF CacheInv

\* The watcher handles the deletion of a file that counts.
LEMMA CacheForgets ==
  ASSUME CacheInv, Cache!handle, Cache!HandleRemove, ~Cache!HasTwin(Head(queue)[2]), Cache!IsSessionFile(Head(queue)[2])
  PROVE  CacheInv'
<1> DEFINE p == Head(queue)[2]
<1>1. CacheType /\ FilesStand /\ ScanFirst
  BY DEF CacheInv
<1>2. /\ UNCHANGED <<layout, clock, file, timers, call, toScan>>
      /\ listed' = Cache!NoSession /\ bound' = Cache!NoPath /\ Cache!Raced({})
      /\ queue # <<>> /\ queue' = Tail(queue) /\ Head(queue)[1] = "remove"
  BY DEF Cache!handle, Cache!HandleRemove, Cache!HandleCreate, Cache!HandleWrite, Cache!Forget
<1>3. /\ queue' \in Seq({"create", "write", "remove"} \X Cache!Files) /\ p \in Cache!Files /\ IsQueued("remove", p)
      /\ \A f, q : /\ IsQueued(f, q)' => IsQueued(f, q)
                   /\ IsQueued(f, q) => IsQueued(f, q)' \/ (f = "remove" /\ q = p)
  BY <1>1, <1>2, QueueShrinks
<1>4. toScan = {} /\ Cache!IsSessionFile(p) /\ ~Cache!HasTwin(p)
  BY <1>1, <1>2 DEF ScanFirst
<1> HIDE DEF p
<1>5. file[p] = Cache!Deleted /\ file' = [file EXCEPT ![p] = Cache!Deleted]
  <2>1. file[p] = Cache!Deleted
    BY <1>1, <1>3 DEF FilesStand
  <2> QED
    BY <2>1, <1>1, <1>2 DEF CacheType
<1>6. layout = "twins" /\ p = "other" => file["plain"] = Cache!Deleted
  <2>1. ASSUME layout = "twins", p = "other" PROVE ~Cache!There("plain") /\ file["plain"] # Cache!NoFile
    BY <2>1, <1>1, <1>4, <1>5 DEF Cache!IsSessionFile, Cache!IsRollout, FilesStand, Cache!NoFile, Cache!Deleted
  <2> QED
    BY <2>1, <1>1 DEF FilesStand, Cache!Files
<1>7. ASSUME NEW q \in Cache!Files, q # p, Cache!There(q), ~Unlisted(q)'
      PROVE  FALSE
  <2>1. layout \in {"mirrors", "twins", "generations"} /\ Twin(q) = p /\ ~Cache!There(p)
    BY <1>1, <1>3, <1>5, <1>7 DEF CacheType, Twin, Cache!Files, Cache!There, Cache!Deleted
  <2>2. layout = "twins" \/ (layout = "generations" /\ q = "other" /\ p = "plain")
    BY <2>1, <1>2, <1>3, <1>5, <1>7 DEF Unlisted, Cache!Files
  <2>3. CASE layout = "twins"
    BY <2>3, <1>3, <1>4, <1>6, <1>7 DEF Cache!HasTwin, Cache!Files, Cache!There, Cache!Deleted
  <2>4. CASE layout = "generations" /\ q = "other" /\ p = "plain"
    BY <2>4, <1>4, <1>7 DEF Cache!IsSessionFile, Cache!IsGeneration
  <2> QED
    BY <2>2, <2>3, <2>4
<1> QED
  BY <1>1, <1>2, <1>3, <1>4, <1>5, <1>6, <1>7, IdForgotten

\* The router deletes the bound file and forgets the id.
LEMMA CacheIdDeleted ==
  ASSUME CacheInv, Cache!DeleteSession
  PROVE  CacheInv'
<1>1. CacheType /\ FilesStand /\ ScanFirst
  BY DEF CacheInv
<1>2. /\ UNCHANGED <<layout, clock, timers, call, toScan>> /\ toScan = {}
      /\ bound # Cache!NoPath /\ file' = [file EXCEPT ![bound] = Cache!Deleted]
      /\ queue' = IF Cache!There(bound) THEN Append(queue, <<"remove", bound>>) ELSE queue
      /\ listed' = Cache!NoSession /\ bound' = Cache!NoPath /\ Cache!Raced({})
  BY DEF Cache!DeleteSession, Cache!Forget, Cache!Watching
<1>3. bound \in Cache!Files /\ layout \in {"mirrors", "twins", "generations"}
  BY <1>1, <1>2 DEF CacheType
<1>4. /\ queue' \in Seq({"create", "write", "remove"} \X Cache!Files)
      /\ \A f, q : IsQueued(f, q)' <=> IsQueued(f, q) \/ (Cache!There(bound) /\ f = "remove" /\ q = bound)
  <2>1. CASE Cache!There(bound)
    BY <2>1, <1>1, <1>2, <1>3, QueueGrows
  <2>2. CASE ~Cache!There(bound)
    BY <2>2, <1>1, <1>2 DEF IsQueued, CacheType
  <2> QED
    BY <2>1, <2>2
<1>5. layout = "twins" /\ bound = "other" => file["plain"] = Cache!Deleted
  BY <1>1 DEF FilesStand
<1>6. ASSUME CacheStands, NEW q \in Cache!Files, q # bound, Cache!There(q), ~Unlisted(q)'
      PROVE  Due(q) \/ Under(q) \/ (layout = "twins" /\ q = "other" /\ IsQueued("remove", "plain")')
  <2>1. Twin(q) = bound /\ file'[bound] = Cache!Deleted
    BY <1>1, <1>2, <1>3, <1>6 DEF CacheType, Twin, Cache!Files
  <2>2. layout = "twins" \/ (layout = "generations" /\ q = "other" /\ bound = "plain")
    BY <2>1, <1>2, <1>3, <1>6 DEF Unlisted, Cache!Files
  <2>3. layout # "mirrors" /\ q = "other" /\ bound = "plain"
    BY <2>2, <1>3, <1>5, <1>6 DEF Cache!Files, Cache!There, Cache!Deleted
  <2>4. CASE layout = "twins" /\ Cache!There("plain")
    BY <2>3, <2>4, <1>4
  <2>5. CASE ~(layout = "twins" /\ Cache!There("plain"))
    <3>1. Cache!IsSessionFile(q) /\ ~Unlisted(q)
      BY <2>2, <2>3, <2>5 DEF Cache!IsSessionFile, Cache!IsRollout, Cache!IsGeneration, Unlisted
    <3>2. \/ Due(q) \/ Under(q) \/ bound = q \/ Outdated(q)
          \/ layout = "twins" /\ q = "other" /\ IsQueued("remove", "plain")
      BY <3>1, <1>6 DEF CacheStands, FilesListed
    <3>3. ~Outdated(q)
      BY <2>3, <1>1, <1>6 DEF Outdated, FilesStand, CacheType, Cache!Files
    <3> QED
      BY <3>2, <3>3, <1>4, <1>6
  <2> QED
    BY <2>4, <2>5
<1> DEFINE p == bound
<1>7. p \in Cache!Files /\ file' = [file EXCEPT ![p] = Cache!Deleted]
  BY <1>2, <1>3
<1>8. /\ \A f, q : IsQueued(f, q)' => IsQueued(f, q) \/ (f = "remove" /\ q = p)
      /\ \A f, q : IsQueued(f, q) => IsQueued(f, q)' \/ (f = "remove" /\ q = p)
  BY <1>4
<1>9. layout = "twins" /\ p = "other" => file["plain"] = Cache!Deleted
  BY <1>5
<1>10. CacheStands => \A q \in Cache!Files : q # p /\ Cache!There(q) /\ ~Unlisted(q)' /\ Cache!IsSessionFile(q)' =>
         Due(q) \/ Under(q) \/ (layout = "twins" /\ q = "other" /\ IsQueued("remove", "plain")')
  BY <1>6
<1>11. UNCHANGED <<layout, clock, timers, call, toScan>> /\ toScan = {} /\ listed' = Cache!NoSession
       /\ bound' = Cache!NoPath /\ Cache!Raced({}) /\ queue' \in Seq({"create", "write", "remove"} \X Cache!Files)
  BY <1>2, <1>4
<1> HIDE DEF p
<1> QED
  BY <1>7, <1>8, <1>9, <1>10, <1>11, IdForgotten

\* A send marks the input, a runtime event the usage: an upsert that has a copy is raced.
LEMMA EntryTouched ==
  ASSUME CacheInv, UNCHANGED <<layout, file, queue, timers, toScan, bound, call>>, Cache!Raced({}),
         listed.known, listed' \in Entry, listed'.known, listed'.origin = listed.origin, listed'.titled = listed.titled,
         listed'.usage >= listed.usage, clock' \in Nat, clock' >= clock
  PROVE  CacheInv'
<1>1. CacheType /\ FilesStand /\ ScanFirst /\ clock \in Nat /\ listed \in Entry
  BY DEF CacheInv, CacheType
<1>2. /\ layout' = layout /\ file' = file /\ queue' = queue /\ timers' = timers /\ toScan' = toScan /\ bound' = bound
      /\ call' = call /\ blind' = (blind \/ \E c \in Cache!Slots : call[c].pc \in {"read", "write"})
  BY <1>1 DEF Cache!Raced, CacheType
<1>3. CacheType'
  BY <1>1, <1>2 DEF CacheType
<1>4. FilesStand'
  <2>1. \A p \in Cache!Files : file[p].mtime \in Int /\ file[p].lines \in Int
    BY <1>1 DEF CacheType
  <2>2. \A p \in Cache!Files : file[p].mtime <= clock' /\ file[p].lines <= clock'
    BY <2>1, <1>1 DEF FilesStand
  <2> QED
    BY <2>2, <1>1, <1>2 DEF FilesStand, IsQueued, Cache!There
<1>5. ScanFirst'
  BY <1>1, <1>2 DEF ScanFirst
<1>6. ASSUME ~blind' PROVE CacheStands'
  <2>1. CacheStands /\ \A c \in Cache!Slots : call[c].pc \notin {"read", "write"}
    BY <1>2, <1>6 DEF CacheInv
  <2>2. Copies'
    BY <2>1, <1>2 DEF Copies
  <2>3. bound \in Cache!Files
    BY <2>1, <1>1 DEF CacheStands, EntryIsOne, CacheType
  <2>4. EntryIsOne' /\ EntryUnbinds'
    BY <2>1, <2>3, <1>2, DiskStays DEF CacheStands, EntryIsOne, EntryUnbinds
  <2>5. EntryHolds'
    <3>1. Holds(listed, bound) => Holds(listed, bound)'
      <4>1. file[bound].lines \in Int /\ listed.usage \in Int /\ listed'.usage \in Int
        BY <2>3, <1>1 DEF CacheType, Entry
      <4> QED
        BY <4>1, <1>2 DEF Holds
    <3>2. Under(bound) => Under(bound)'
      BY <1>2 DEF Under
    <3>3. Due(bound)' <=> Due(bound)
      BY <1>2 DEF Due, IsQueued
    <3>4. WillForget(bound)' <=> WillForget(bound)
      BY <1>2 DEF WillForget, IsQueued
    <3>5. (Cache!There(bound)' <=> Cache!There(bound)) /\ (Cache!IsSessionFile(bound)' <=> Cache!IsSessionFile(bound))
      BY <1>2 DEF Cache!There, Cache!IsSessionFile, Cache!IsRollout, Cache!IsGeneration
    <3> QED
      BY <3>1, <3>2, <3>3, <3>4, <3>5, <2>1, <2>3 DEF CacheStands, EntryHolds
  <2>6. FilesListed'
    <3>1. \A q : (Under(q)' <=> Under(q)) /\ (Outdated(q) => Outdated(q)')
      BY <1>2 DEF Under, Outdated, Cache!There
    <3> QED
      BY <3>1, <2>1, <1>2, DiskStays DEF CacheStands, FilesListed
  <2>7. Looks'
    <3> SUFFICES ASSUME NEW d \in Cache!Slots, call[d].pc = "look"
                 PROVE  (/\ call[d].mtime <= clock
                         /\ Cache!There(call[d].path) => call[d].mtime <= file[call[d].path].mtime
                         /\ layout # "mirrors" /\ call[d].path = "plain" /\ Cache!There("other") => call[d].mtime < file["other"].mtime
                         /\ Cache!There(call[d].path) /\ Cache!IsSessionFile(call[d].path) /\ ~Unlisted(call[d].path) =>
                              call[d].mtime = file[call[d].path].mtime \/ Follows(d, call[d].path))'
      BY <1>2 DEF Looks
    <3>1. call[d].mtime <= clock'
      <4>1. call[d].mtime \in Int
        BY <1>1 DEF CacheType, UpsertCall
      <4> QED
        BY <4>1, <2>1, <1>1 DEF CacheStands, Looks
    <3>2. /\ Cache!There(call[d].path) => call[d].mtime <= file[call[d].path].mtime
          /\ layout # "mirrors" /\ call[d].path = "plain" /\ Cache!There("other") => call[d].mtime < file["other"].mtime
          /\ Cache!There(call[d].path) /\ Cache!IsSessionFile(call[d].path) /\ ~Unlisted(call[d].path) =>
               call[d].mtime = file[call[d].path].mtime \/ Follows(d, call[d].path)
      BY <2>1 DEF CacheStands, Looks
    <3> QED
      BY <3>1, <3>2, <1>2 DEF Cache!There, Cache!IsSessionFile, Cache!IsRollout, Cache!IsGeneration, Unlisted, Follows, IsQueued
  <2> QED
    BY <2>2, <2>4, <2>5, <2>6, <2>7 DEF CacheStands
<1> QED
  BY <1>3, <1>4, <1>5, <1>6 DEF CacheInv

\* The input is marked.
LEMMA CacheMarks ==
  ASSUME CacheInv, Cache!MarkInput
  PROVE  CacheInv'
<1>1. listed \in Entry /\ clock \in Nat
  BY DEF CacheInv, CacheType
<1>2. listed.known /\ clock' = clock + 1 /\ listed' = [listed EXCEPT !.input = clock + 1] /\ Cache!Raced({})
      /\ UNCHANGED <<layout, file, queue, timers, bound, call, toScan>>
  BY DEF Cache!MarkInput
<1>3. listed' \in Entry /\ listed'.known /\ listed'.origin = listed.origin
      /\ listed'.titled = listed.titled /\ listed'.usage = listed.usage /\ listed.usage \in Int
  <2>1. listed' = [known |-> listed.known, origin |-> listed.origin, event |-> listed.event,
                   usage |-> listed.usage, titled |-> listed.titled, input |-> clock + 1]
    BY <1>1, <1>2 DEF Entry
  <2> QED
    BY <2>1, <1>1, <1>2 DEF Entry
<1>4. listed'.usage >= listed.usage /\ clock' \in Nat /\ clock' >= clock
  BY <1>1, <1>2, <1>3
<1> QED
  BY <1>2, <1>3, <1>4, EntryTouched

\* The usage is updated.
LEMMA CacheUpdates ==
  ASSUME CacheInv, Cache!UpdateRuntime
  PROVE  CacheInv'
<1>1. listed \in Entry /\ clock \in Nat
  BY DEF CacheInv, CacheType
<1>2. listed.known /\ listed.usage < clock /\ clock' = clock /\ listed' = [listed EXCEPT !.usage = clock] /\ Cache!Raced({})
      /\ UNCHANGED <<layout, file, queue, timers, bound, call, toScan>>
  BY DEF Cache!UpdateRuntime
<1>3. listed' \in Entry /\ listed'.known /\ listed'.origin = listed.origin
      /\ listed'.titled = listed.titled /\ listed'.usage = clock /\ listed.usage \in Int
  <2>1. listed' = [known |-> listed.known, origin |-> listed.origin, event |-> listed.event,
                   usage |-> clock, titled |-> listed.titled, input |-> listed.input]
    BY <1>1, <1>2 DEF Entry
  <2> QED
    BY <2>1, <1>1, <1>2 DEF Entry
<1>4. listed'.usage >= listed.usage /\ clock' \in Nat /\ clock' >= clock
  BY <1>1, <1>2, <1>3
<1> QED
  BY <1>2, <1>3, <1>4, EntryTouched

\* An upsert that an older mirror began ends: the listed file is no older, or another upsert follows.
LEMMA CacheLeavesMirror ==
  ASSUME CacheInv, NEW c \in Cache!Slots, Cache!Look(c), Cache!IgnoresMirror(call[c])
  PROVE  CacheInv'
<1>1. CacheType /\ FilesStand /\ ScanFirst
  BY DEF CacheInv
<1>2. /\ call[c].pc = "look" /\ call' = [call EXCEPT ![c] = Cache!Idle] /\ bound' = bound /\ blind' = blind
      /\ UNCHANGED <<layout, clock, file, queue, timers, listed, toScan>>
      /\ listed.known /\ bound # call[c].path /\ bound # Cache!NoPath
      /\ Cache!There(bound) /\ call[c].mtime <= file[bound].mtime
  BY DEF Cache!Look, Cache!IgnoresMirror
<1>3. Cache!Idle \in UpsertCall /\ Cache!Idle.pc = "idle" /\ Cache!Idle.path = Cache!NoPath /\ Cache!NoPath \notin Cache!Files
  BY DEF Cache!Idle, UpsertCall, Cache!NoSession, Entry, Cache!NoPath, Cache!Files
<1>4. /\ call' \in [Cache!Slots -> UpsertCall] /\ call'[c] = Cache!Idle
      /\ \A d \in Cache!Slots : d # c => call'[d] = call[d]
  BY <1>1, <1>2, <1>3 DEF CacheType
<1>5. bound \in Cache!Files /\ call[c].path \in Cache!Files
  BY <1>1, <1>2 DEF CacheType
<1>6. CacheType'
  <2>1. \A d \in Cache!Slots : IF call'[d].pc = "idle" THEN call'[d] = Cache!Idle ELSE call'[d].path \in Cache!Files
    BY <1>1, <1>3, <1>4 DEF CacheType
  <2> QED
    BY <1>1, <1>2, <1>4, <2>1 DEF CacheType
<1>7. FilesStand'
  <2>1. \A d \in Cache!Slots : call'[d].pc # "idle" => file[call'[d].path] # Cache!NoFile /\ (d # "watcher" => call'[d].path = d)
    BY <1>1, <1>3, <1>4 DEF FilesStand
  <2>2. layout = "twins" => \A d \in Cache!Slots : call'[d].path = "other" => file["plain"] = Cache!Deleted
    BY <1>1, <1>3, <1>4 DEF FilesStand, Cache!Files
  <2> QED
    BY <1>1, <1>2, <2>1, <2>2 DEF FilesStand, Cache!There, IsQueued
<1>8. ScanFirst'
  <2>1. \A d \in Cache!Slots : call[d].pc = "idle" => call'[d].pc = "idle"
    BY <1>3, <1>4
  <2> QED
    BY <2>1, <1>1, <1>2 DEF ScanFirst, Cache!Slots
<1>9. ASSUME ~blind' PROVE CacheStands'
  <2>1. CacheStands
    BY <1>2, <1>9 DEF CacheInv
  <2>2. \A q : q # call[c].path => (Under(q) => Under(q)')
    BY <1>4 DEF Under
  <2>3. EntryIsOne'
    <3>1. listed.origin = bound \/ \E d \in Cache!Slots : d # c /\ call[d].pc \in {"read", "write"} /\ call[d].path = bound
      BY <2>1, <1>2 DEF CacheStands, EntryIsOne
    <3>2. listed'.origin = bound' \/ \E d \in Cache!Slots : call'[d].pc \in {"read", "write"} /\ call'[d].path = bound'
      BY <3>1, <1>2, <1>4
    <3> QED
      BY <3>2, <2>1, <1>2 DEF CacheStands, EntryIsOne
  <2>4. EntryUnbinds'
    BY <2>1, <1>2, DiskStays DEF CacheStands, EntryUnbinds
  <2>5. EntryHolds'
    BY <2>1, <2>2, <1>2, DiskStays DEF CacheStands, EntryHolds
  <2>6. FilesListed'
    <3> SUFFICES ASSUME NEW q \in Cache!Files, Cache!There(q), Cache!IsSessionFile(q), ~Unlisted(q)
                 PROVE  (\/ Due(q) \/ Under(q) \/ bound = q \/ Outdated(q)
                         \/ layout = "twins" /\ q = "other" /\ IsQueued("remove", "plain"))'
      BY <1>2, DiskStays DEF FilesListed
    <3>1. Outdated(q) => Outdated(q)'
      BY <1>2 DEF Outdated, Cache!There
    <3>2. CASE q # call[c].path
      BY <3>1, <3>2, <2>1, <2>2, <1>2, DiskStays DEF CacheStands, FilesListed
    <3>3. CASE q = call[c].path
      <4>1. call[c].mtime = file[q].mtime \/ Follows(c, q)
        BY <3>3, <2>1, <1>2 DEF CacheStands, Looks
      <4>2. Follows(c, q) => Due(q)
        BY DEF Follows, Due
      <4>3. call[c].mtime = file[q].mtime => Outdated(q)
        BY <1>2 DEF Outdated
      <4> QED
        BY <4>1, <4>2, <4>3, <3>1, <1>2, DiskStays
    <3> QED
      BY <3>2, <3>3
  <2>7. Looks' /\ Copies'
    <3>1. ASSUME NEW d \in Cache!Slots, call'[d].pc # "idle" PROVE d # c /\ call'[d] = call[d]
      BY <3>1, <1>3, <1>4
    <3>2. Looks'
      <4> SUFFICES ASSUME NEW d \in Cache!Slots, call'[d].pc = "look"
                   PROVE  (/\ call[d].mtime <= clock
                           /\ Cache!There(call[d].path) => call[d].mtime <= file[call[d].path].mtime
                           /\ layout # "mirrors" /\ call[d].path = "plain" /\ Cache!There("other") => call[d].mtime < file["other"].mtime
                           /\ Cache!There(call[d].path) /\ Cache!IsSessionFile(call[d].path) /\ ~Unlisted(call[d].path) =>
                                call[d].mtime = file[call[d].path].mtime \/ Follows(d, call[d].path))'
        BY DEF Looks
      <4>1. call'[d] = call[d] /\ call[d].pc = "look"
        BY <3>1
      <4>2. /\ call[d].mtime <= clock
            /\ Cache!There(call[d].path) => call[d].mtime <= file[call[d].path].mtime
            /\ layout # "mirrors" /\ call[d].path = "plain" /\ Cache!There("other") => call[d].mtime < file["other"].mtime
            /\ Cache!There(call[d].path) /\ Cache!IsSessionFile(call[d].path) /\ ~Unlisted(call[d].path) =>
                 call[d].mtime = file[call[d].path].mtime \/ Follows(d, call[d].path)
        BY <4>1, <2>1 DEF CacheStands, Looks
      <4> QED
        BY <4>1, <4>2, <1>2 DEF Cache!There, Cache!IsSessionFile, Cache!IsRollout, Cache!IsGeneration, Unlisted, Follows, IsQueued
    <3>3. Copies'
      <4> SUFFICES ASSUME NEW d \in Cache!Slots, call'[d].pc \in {"read", "write"}
                   PROVE  (/\ call[d].old = listed
                           /\ listed.known => bound = call[d].path /\ call[d].new.known /\ call[d].new.origin = call[d].path
                           /\ call[d].pc = "write" =>
                                /\ call[d].new.known /\ call[d].new.origin = call[d].path /\ Unbinds(call[d].path)
                                /\ Cache!There(call[d].path) /\ Cache!IsSessionFile(call[d].path) =>
                                     Holds(call[d].new, call[d].path) \/ Follows(d, call[d].path) \/ WillForget(call[d].path))'
        BY DEF Copies
      <4>1. call'[d] = call[d] /\ call[d].pc \in {"read", "write"}
        BY <3>1
      <4>2. (/\ call[d].old = listed
             /\ listed.known => bound = call[d].path /\ call[d].new.known /\ call[d].new.origin = call[d].path
             /\ call[d].pc = "write" =>
                  /\ call[d].new.known /\ call[d].new.origin = call[d].path /\ Unbinds(call[d].path)
                  /\ Cache!There(call[d].path) /\ Cache!IsSessionFile(call[d].path) =>
                       Holds(call[d].new, call[d].path) \/ Follows(d, call[d].path) \/ WillForget(call[d].path))
        BY <4>1, <2>1 DEF CacheStands, Copies
      <4> QED
        BY <4>1, <4>2, <1>2 DEF Cache!There, Cache!IsSessionFile, Cache!IsRollout, Cache!IsGeneration, Follows, IsQueued,
                                 Unbinds, WillForget, Holds
    <3> QED
      BY <3>2, <3>3
  <2> QED
    BY <2>3, <2>4, <2>5, <2>6, <2>7 DEF CacheStands
<1> QED
  BY <1>6, <1>7, <1>8, <1>9 DEF CacheInv

\* An upsert takes its copy of the entry, which then is of its file.
LEMMA CacheTakes ==
  ASSUME CacheInv, NEW c \in Cache!Slots, Cache!Look(c), ~Cache!IgnoresMirror(call[c])
  PROVE  CacheInv'
<1> DEFINE u == call[c]
           taken == [listed EXCEPT !.event = u.mtime, !.origin = IF bound = Cache!NoPath THEN @ ELSE u.path]
           copied == [u EXCEPT !.pc = "read", !.old = listed, !.new = taken]
<1>1. CacheType /\ FilesStand /\ ScanFirst
  BY DEF CacheInv
<1>2. /\ u.pc = "look" /\ call' = [call EXCEPT ![c] = copied]
      /\ bound' = IF listed.known /\ bound # Cache!NoPath THEN u.path ELSE bound
      /\ IF bound' = bound THEN blind' = blind ELSE IF Cache!There(u.path) THEN Cache!Raced({c}) ELSE blind' = TRUE
      /\ UNCHANGED <<layout, clock, file, queue, timers, listed, toScan>>
      /\ ~(listed.known /\ bound \notin {Cache!NoPath, u.path} /\ Cache!There(bound) /\ u.mtime <= file[bound].mtime)
  BY DEF Cache!Look, Cache!IgnoresMirror
<1>3. /\ u \in UpsertCall /\ u.path \in Cache!Files /\ listed \in Entry /\ u.mtime \in Int /\ bound \in Cache!Files \cup {Cache!NoPath}
      /\ layout' = layout /\ clock' = clock /\ file' = file /\ queue' = queue /\ timers' = timers /\ listed' = listed /\ toScan' = toScan
  BY <1>1, <1>2 DEF CacheType, UpsertCall
<1>4. taken \in Entry /\ (listed.known => taken.known) /\ (bound # Cache!NoPath => taken.origin = u.path)
  BY <1>3 DEF Entry
<1> HIDE DEF taken
<1>5. copied \in UpsertCall /\ copied.pc = "read" /\ copied.path = u.path /\ copied.old = listed /\ copied.new = taken
  BY <1>3, <1>4 DEF UpsertCall
<1> HIDE DEF copied, u
<1>6. /\ call' \in [Cache!Slots -> UpsertCall] /\ call'[c] = copied
      /\ \A d \in Cache!Slots : d # c => call'[d] = call[d]
  BY <1>1, <1>2, <1>5 DEF CacheType
<1>7. \A d \in Cache!Slots : call'[d].path = call[d].path /\ (call'[d].pc = "idle" <=> call[d].pc = "idle")
  BY <1>2, <1>5, <1>6 DEF u
<1>8. CacheType'
  <2>1. \A d \in Cache!Slots : IF call'[d].pc = "idle" THEN call'[d] = Cache!Idle ELSE call'[d].path \in Cache!Files
    BY <1>1, <1>3, <1>5, <1>6 DEF CacheType
  <2>2. blind' \in BOOLEAN
    BY <1>1, <1>2 DEF CacheType, Cache!Raced
  <2> QED
    BY <1>1, <1>2, <1>3, <1>6, <2>1, <2>2 DEF CacheType
<1>9. FilesStand'
  <2>1. layout = "twins" /\ bound' = "other" => file["plain"] = Cache!Deleted
    BY <1>1, <1>2 DEF FilesStand, u
  <2> QED
    BY <1>1, <1>3, <1>7, <2>1 DEF FilesStand, Cache!There, IsQueued
<1>10. ScanFirst'
  <2>1. Cache!Files \subseteq toScan => bound' = bound
    BY <1>1, <1>2 DEF ScanFirst
  <2> QED
    BY <1>1, <1>3, <1>7, <2>1 DEF ScanFirst, Cache!Slots
<1>11. ASSUME ~blind' PROVE CacheStands'
  <2>1. CacheStands
    <3>1. ~blind
      BY <1>2, <1>11 DEF Cache!Raced
    <3> QED
      BY <3>1 DEF CacheInv
  <2>2. bound' # bound => /\ Cache!There(u.path)
                          /\ \A d \in Cache!Slots : d # c => call[d].pc \notin {"read", "write"}
    BY <1>2, <1>11 DEF Cache!Raced
  <2>3. listed.known <=> bound # Cache!NoPath
    BY <2>1 DEF CacheStands, EntryIsOne
  <2>4. listed.known => bound' = u.path
    BY <1>2, <2>3
  <2>5. \A q : Under(q)' <=> Under(q)
    BY <1>7 DEF Under
  <2>6. EntryIsOne'
    <3>1. listed.known => \E d \in Cache!Slots : call'[d].pc \in {"read", "write"} /\ call'[d].path = bound'
      BY <1>5, <1>6, <2>4
    <3>2. listed.known <=> bound' # Cache!NoPath
      BY <1>2, <1>3, <2>3 DEF Cache!NoPath, Cache!Files
    <3> QED
      BY <3>1, <3>2, <1>3 DEF EntryIsOne
  <2>7. EntryUnbinds'
    <3>1. listed.known => Unbinds(bound')
      BY <2>1, <2>2 , <2>4 DEF CacheStands, EntryUnbinds, Unbinds
    <3>2. ASSUME Unbinds(bound') PROVE Unbinds(bound)'
      <4>1. \A f : IsQueued(f, bound') => IsQueued(f, bound)'
        BY <1>3 DEF IsQueued
      <4>2. IsQueued("remove", "other") => IsQueued("remove", "other")'
        BY <1>3 DEF IsQueued
      <4>3. (Cache!There(bound') => Cache!There(bound)') /\ (Cache!There("other") => Cache!There("other")')
        BY <1>3 DEF Cache!There
      <4> QED
        BY <3>2, <4>1, <4>2, <4>3, <1>3 DEF Unbinds
    <3> QED
      BY <3>1, <3>2, <1>3 DEF EntryUnbinds
  <2>8. EntryHolds'
    <3>1. listed.known => Under(bound)'
      BY <1>5, <1>6, <2>4 DEF Under
    <3> QED
      BY <3>1, <1>3 DEF EntryHolds
  <2>9. FilesListed'
    <3> SUFFICES ASSUME NEW q \in Cache!Files, Cache!There(q), Cache!IsSessionFile(q), ~Unlisted(q)
                 PROVE  (\/ Due(q) \/ Under(q) \/ bound = q \/ Outdated(q)
                         \/ layout = "twins" /\ q = "other" /\ IsQueued("remove", "plain"))'
      BY <1>3, DiskStays DEF FilesListed
    <3>1. \/ Due(q) \/ Under(q) \/ bound = q \/ Outdated(q)
          \/ layout = "twins" /\ q = "other" /\ IsQueued("remove", "plain")
      BY <2>1 DEF CacheStands, FilesListed
    <3>2. CASE bound = q \/ Outdated(q)
      <4>1. CASE bound' = bound
        <5>1. Outdated(q) => Outdated(q)'
          BY <4>1, <1>3 DEF Outdated, Cache!There
        <5> QED
          BY <4>1, <5>1, <3>2
      <4>2. CASE bound' # bound
        <5>1. bound \in Cache!Files /\ listed.known /\ bound' = u.path /\ bound # u.path /\ Cache!There(u.path)
          BY <4>2, <1>2, <1>3, <2>2
        <5>2. Cache!There(bound) /\ file[bound].mtime >= file[q].mtime
          <6>1. file[q].mtime \in Int
            BY <1>1 DEF CacheType
          <6> QED
            BY <6>1, <3>2 DEF Outdated
        <5>3. u.mtime > file[bound].mtime
          <6>1. file[bound].mtime \in Int
            BY <5>1, <1>1 DEF CacheType
          <6> QED
            BY <6>1, <5>1, <5>2, <1>2, <1>3
        <5>4. u.mtime <= file[u.path].mtime
          BY <5>1, <2>1, <1>2 DEF CacheStands, Looks, u
        <5>5. file[u.path].mtime >= file[q].mtime
          <6>1. file[q].mtime \in Int /\ file[bound].mtime \in Int /\ file[u.path].mtime \in Int
            BY <5>1, <1>1, <1>3 DEF CacheType
          <6> QED
            BY <6>1, <5>2, <5>3, <5>4, <1>3
        <5>6. Outdated(q)'
          <6>1. Outdated(q)' <=> listed'.known /\ file'[bound'].mtime > 0 /\ file'[bound'].mtime >= file'[q].mtime
            BY DEF Outdated, Cache!There
          <6> QED
            BY <6>1, <5>1, <5>5, <1>3 DEF Cache!There
        <5> QED
          BY <5>6
      <4> QED
        BY <4>1, <4>2
    <3>3. CASE ~(bound = q \/ Outdated(q))
      BY <3>1, <3>3, <2>5, <1>3, DiskStays
    <3> QED
      BY <3>2, <3>3
  <2>10. Looks'
    <3> SUFFICES ASSUME NEW d \in Cache!Slots, call'[d].pc = "look"
                 PROVE  (/\ call[d].mtime <= clock
                         /\ Cache!There(call[d].path) => call[d].mtime <= file[call[d].path].mtime
                         /\ layout # "mirrors" /\ call[d].path = "plain" /\ Cache!There("other") => call[d].mtime < file["other"].mtime
                         /\ Cache!There(call[d].path) /\ Cache!IsSessionFile(call[d].path) /\ ~Unlisted(call[d].path) =>
                              call[d].mtime = file[call[d].path].mtime \/ Follows(d, call[d].path))'
      BY DEF Looks
    <3>1. call'[d] = call[d] /\ call[d].pc = "look"
      BY <1>5, <1>6
    <3>2. /\ call[d].mtime <= clock
          /\ Cache!There(call[d].path) => call[d].mtime <= file[call[d].path].mtime
          /\ layout # "mirrors" /\ call[d].path = "plain" /\ Cache!There("other") => call[d].mtime < file["other"].mtime
          /\ Cache!There(call[d].path) /\ Cache!IsSessionFile(call[d].path) /\ ~Unlisted(call[d].path) =>
               call[d].mtime = file[call[d].path].mtime \/ Follows(d, call[d].path)
      BY <3>1, <2>1 DEF CacheStands, Looks
    <3> QED
      BY <3>1, <3>2, <1>3 DEF Cache!There, Cache!IsSessionFile, Cache!IsRollout, Cache!IsGeneration, Unlisted, Follows, IsQueued
  <2>11. Copies'
    <3> SUFFICES ASSUME NEW d \in Cache!Slots, call'[d].pc \in {"read", "write"}
                 PROVE  (/\ call[d].old = listed
                         /\ listed.known => bound = call[d].path /\ call[d].new.known /\ call[d].new.origin = call[d].path
                         /\ call[d].pc = "write" =>
                              /\ call[d].new.known /\ call[d].new.origin = call[d].path /\ Unbinds(call[d].path)
                              /\ Cache!There(call[d].path) /\ Cache!IsSessionFile(call[d].path) =>
                                   Holds(call[d].new, call[d].path) \/ Follows(d, call[d].path) \/ WillForget(call[d].path))'
      BY DEF Copies
    <3>1. CASE d = c
      BY <3>1, <1>3, <1>4, <1>5, <1>6, <2>3, <2>4
    <3>2. CASE d # c
      <4>1. call'[d] = call[d] /\ bound' = bound
        BY <3>2, <1>6, <2>2
      <4>2. (/\ call[d].old = listed
             /\ listed.known => bound = call[d].path /\ call[d].new.known /\ call[d].new.origin = call[d].path
             /\ call[d].pc = "write" =>
                  /\ call[d].new.known /\ call[d].new.origin = call[d].path /\ Unbinds(call[d].path)
                  /\ Cache!There(call[d].path) /\ Cache!IsSessionFile(call[d].path) =>
                       Holds(call[d].new, call[d].path) \/ Follows(d, call[d].path) \/ WillForget(call[d].path))
        BY <4>1, <2>1 DEF CacheStands, Copies
      <4> QED
        BY <4>1, <4>2, <1>3 DEF Cache!There, Cache!IsSessionFile, Cache!IsRollout, Cache!IsGeneration, Follows, IsQueued,
                                 Unbinds, WillForget, Holds
    <3> QED
      BY <3>1, <3>2
  <2> QED
    BY <2>6, <2>7, <2>8, <2>9, <2>10, <2>11 DEF CacheStands
<1> QED
  BY <1>8, <1>9, <1>10, <1>11 DEF CacheInv

\* A read of a file adds what it has.
LEMMA FileRead ==
  ASSUME NEW s \in Entry, NEW f \in [mtime : Int, lines : Int]
  PROVE  /\ Cache!Read(s, f) \in Entry /\ Cache!Read(s, f).known = s.known /\ Cache!Read(s, f).origin = s.origin
         /\ f.lines > 0 => Cache!Read(s, f).usage = f.lines
         /\ f.lines > 1 => Cache!Read(s, f).titled
<1> DEFINE usage == IF f.lines > 0 THEN f.lines ELSE s.usage
           titled == s.titled \/ f.lines > 1
           event == Cache!Later(s.event, f.mtime)
<1>1. usage \in Int /\ titled \in BOOLEAN /\ event \in Int
  BY DEF Cache!Later, Entry
<1>2. Cache!Read(s, f) = [s EXCEPT !.usage = usage, !.titled = titled, !.event = event]
  BY DEF Cache!Read
<1>3. (f.lines > 0 => usage = f.lines) /\ (f.lines > 1 => titled)
  OBVIOUS
<1> HIDE DEF usage, titled, event
<1>4. /\ Cache!Read(s, f) \in Entry /\ Cache!Read(s, f).known = s.known /\ Cache!Read(s, f).origin = s.origin
      /\ Cache!Read(s, f).usage = usage /\ Cache!Read(s, f).titled = titled
  BY <1>1, <1>2 DEF Entry
<1> QED
  BY <1>3, <1>4

\* An upsert has read its file.
LEMMA CacheReads ==
  ASSUME CacheInv, NEW c \in Cache!Slots, Cache!ReadMeta(c), call[c].old.known \/ Cache!There(call[c].path)
  PROVE  CacheInv'
<1> DEFINE u == call[c]
           got == IF ~Cache!There(u.path) THEN u.new
                  ELSE IF u.old.known THEN Cache!Read(u.new, file[u.path])
                  ELSE Cache!FirstSight(u, file[u.path])
           full == [u EXCEPT !.pc = "write", !.new = got]
<1>1. CacheType /\ FilesStand /\ ScanFirst
  BY DEF CacheInv
<1>2. /\ u.pc = "read" /\ call' = [call EXCEPT ![c] = full]
      /\ UNCHANGED <<layout, clock, file, queue, timers, listed, bound, toScan, blind>>
  BY DEF Cache!ReadMeta
<1>3. /\ u \in UpsertCall /\ u.path \in Cache!Files /\ u.new \in Entry /\ u.old \in Entry /\ u.mtime \in Int
      /\ file[u.path] \in [mtime : Int, lines : Int]
      /\ layout' = layout /\ clock' = clock /\ file' = file /\ queue' = queue /\ timers' = timers /\ listed' = listed
      /\ bound' = bound /\ toScan' = toScan /\ blind' = blind
  BY <1>1, <1>2 DEF CacheType, UpsertCall
<1>4. /\ got \in Entry
      /\ Cache!There(u.path) => /\ got.usage = file[u.path].lines
                                /\ file[u.path].lines > 1 => got.titled
      /\ u.old.known => got.known = u.new.known /\ got.origin = u.new.origin
      /\ ~u.old.known => got.known /\ got.origin = u.path
  <2> DEFINE first == [Cache!NoSession EXCEPT !.known = TRUE, !.origin = u.path, !.event = u.mtime]
  <2>1. first \in Entry /\ first.known /\ first.origin = u.path
    <3>1. Cache!NoSession \in Entry
      BY DEF Cache!NoSession, Entry
    <3> QED
      BY <3>1, <1>3 DEF Entry
  <2>2. Cache!FirstSight(u, file[u.path]) = Cache!Read(first, file[u.path])
    BY DEF Cache!FirstSight
  <2> HIDE DEF first, u
  <2>3. Cache!There(u.path) => file[u.path].lines > 0
    BY <1>1, <1>3 DEF FilesStand
  <2>4. CASE ~Cache!There(u.path)
    BY <2>4, <1>3 DEF u
  <2>5. CASE Cache!There(u.path) /\ u.old.known
    BY <2>3, <2>5, <1>3, FileRead
  <2>6. CASE Cache!There(u.path) /\ ~u.old.known
    BY <2>1, <2>2, <2>3, <2>6, <1>3, FileRead
  <2> QED
    BY <2>4, <2>5, <2>6
<1> HIDE DEF got
<1>5. full \in UpsertCall /\ full.pc = "write" /\ full.path = u.path /\ full.old = u.old /\ full.new = got
  BY <1>3, <1>4 DEF UpsertCall
<1> HIDE DEF full, u
<1>6. /\ call' \in [Cache!Slots -> UpsertCall] /\ call'[c] = full
      /\ \A d \in Cache!Slots : d # c => call'[d] = call[d]
  BY <1>1, <1>2, <1>5 DEF CacheType
<1>7. \A d \in Cache!Slots : /\ call'[d].path = call[d].path /\ (call'[d].pc = "idle" <=> call[d].pc = "idle")
                             /\ call[d].pc \in {"read", "write"} => call'[d].pc \in {"read", "write"}
  BY <1>2, <1>5, <1>6 DEF u
<1>8. CacheType'
  <2>1. \A d \in Cache!Slots : IF call'[d].pc = "idle" THEN call'[d] = Cache!Idle ELSE call'[d].path \in Cache!Files
    BY <1>1, <1>3, <1>5, <1>6 DEF CacheType
  <2> QED
    BY <1>1, <1>3, <1>6, <2>1 DEF CacheType
<1>9. FilesStand'
  BY <1>1, <1>3, <1>7 DEF FilesStand, Cache!There, IsQueued
<1>10. ScanFirst'
  BY <1>1, <1>3, <1>7 DEF ScanFirst, Cache!Slots
<1>11. ASSUME ~blind' PROVE CacheStands'
  <2>1. CacheStands
    BY <1>3, <1>11 DEF CacheInv
  <2>2. \A q : (Under(q)' <=> Under(q)) /\ (Outdated(q)' <=> Outdated(q))
    BY <1>3, <1>7 DEF Under, Outdated, Cache!There
  <2>3. EntryIsOne'
    <3>1. listed.known => listed.origin = bound \/ \E d \in Cache!Slots : call'[d].pc \in {"read", "write"} /\ call'[d].path = bound
      BY <2>1, <1>7 DEF CacheStands, EntryIsOne
    <3> QED
      BY <3>1, <2>1, <1>3 DEF CacheStands, EntryIsOne
  <2>4. EntryUnbinds'
    BY <2>1, <1>3, DiskStays DEF CacheStands, EntryUnbinds
  <2>5. EntryHolds'
    BY <2>1, <2>2, <1>3, DiskStays DEF CacheStands, EntryHolds
  <2>6. FilesListed'
    BY <2>1, <2>2, <1>3, DiskStays DEF CacheStands, FilesListed
  <2>7. Looks'
    <3> SUFFICES ASSUME NEW d \in Cache!Slots, call'[d].pc = "look"
                 PROVE  (/\ call[d].mtime <= clock
                         /\ Cache!There(call[d].path) => call[d].mtime <= file[call[d].path].mtime
                         /\ layout # "mirrors" /\ call[d].path = "plain" /\ Cache!There("other") => call[d].mtime < file["other"].mtime
                         /\ Cache!There(call[d].path) /\ Cache!IsSessionFile(call[d].path) /\ ~Unlisted(call[d].path) =>
                              call[d].mtime = file[call[d].path].mtime \/ Follows(d, call[d].path))'
      BY DEF Looks
    <3>1. call'[d] = call[d] /\ call[d].pc = "look"
      BY <1>5, <1>6
    <3>2. /\ call[d].mtime <= clock
          /\ Cache!There(call[d].path) => call[d].mtime <= file[call[d].path].mtime
          /\ layout # "mirrors" /\ call[d].path = "plain" /\ Cache!There("other") => call[d].mtime < file["other"].mtime
          /\ Cache!There(call[d].path) /\ Cache!IsSessionFile(call[d].path) /\ ~Unlisted(call[d].path) =>
               call[d].mtime = file[call[d].path].mtime \/ Follows(d, call[d].path)
      BY <3>1, <2>1 DEF CacheStands, Looks
    <3> QED
      BY <3>1, <3>2, <1>3 DEF Cache!There, Cache!IsSessionFile, Cache!IsRollout, Cache!IsGeneration, Unlisted, Follows, IsQueued
  <2>8. Copies'
    <3> SUFFICES ASSUME NEW d \in Cache!Slots, call'[d].pc \in {"read", "write"}
                 PROVE  (/\ call[d].old = listed
                         /\ listed.known => bound = call[d].path /\ call[d].new.known /\ call[d].new.origin = call[d].path
                         /\ call[d].pc = "write" =>
                              /\ call[d].new.known /\ call[d].new.origin = call[d].path /\ Unbinds(call[d].path)
                              /\ Cache!There(call[d].path) /\ Cache!IsSessionFile(call[d].path) =>
                                   Holds(call[d].new, call[d].path) \/ Follows(d, call[d].path) \/ WillForget(call[d].path))'
      BY DEF Copies
    <3>1. CASE d = c
      <4>1. u.old = listed /\ (listed.known => bound = u.path /\ u.new.known /\ u.new.origin = u.path)
        BY <2>1, <1>2 DEF CacheStands, Copies, u
      <4>2. got.known /\ got.origin = u.path
        BY <4>1, <1>4
      <4>3. Unbinds(u.path)
        BY <2>1, <4>1 DEF CacheStands, EntryUnbinds, Unbinds, u
      <4>4. Cache!There(u.path) => Holds(got, u.path)
        BY <1>3, <1>4 DEF Holds
      <4>5. call'[d].path = u.path /\ call'[d].old = u.old /\ call'[d].new = got
        BY <3>1, <1>5, <1>6
      <4>6. /\ Unbinds(u.path) => Unbinds(call[d].path)'
            /\ Cache!There(call[d].path)' => Cache!There(u.path)
            /\ Holds(got, u.path) => Holds(call[d].new, call[d].path)'
        <5>1. IsQueued("remove", u.path) => IsQueued("remove", call[d].path)'
          BY <4>5, <1>3 DEF IsQueued
        <5>2. IsQueued("remove", "other") => IsQueued("remove", "other")'
          BY <1>3 DEF IsQueued
        <5> QED
          BY <4>5, <5>1, <5>2, <1>3 DEF Unbinds, Cache!There, Holds
      <4> QED
        BY <4>1, <4>2, <4>3, <4>4, <4>5, <4>6, <1>3
    <3>2. CASE d # c
      <4>1. call'[d] = call[d]
        BY <3>2, <1>6
      <4>2. (/\ call[d].old = listed
             /\ listed.known => bound = call[d].path /\ call[d].new.known /\ call[d].new.origin = call[d].path
             /\ call[d].pc = "write" =>
                  /\ call[d].new.known /\ call[d].new.origin = call[d].path /\ Unbinds(call[d].path)
                  /\ Cache!There(call[d].path) /\ Cache!IsSessionFile(call[d].path) =>
                       Holds(call[d].new, call[d].path) \/ Follows(d, call[d].path) \/ WillForget(call[d].path))
        BY <4>1, <2>1 DEF CacheStands, Copies
      <4> QED
        BY <4>1, <4>2, <1>3 DEF Cache!There, Cache!IsSessionFile, Cache!IsRollout, Cache!IsGeneration, Follows, IsQueued,
                                 Unbinds, WillForget, Holds
    <3> QED
      BY <3>1, <3>2
  <2> QED
    BY <2>3, <2>4, <2>5, <2>6, <2>7, <2>8 DEF CacheStands
<1> QED
  BY <1>8, <1>9, <1>10, <1>11 DEF CacheInv

\* A new session is not made of a file that is gone.
LEMMA CacheGivesUp ==
  ASSUME CacheInv, NEW c \in Cache!Slots, Cache!ReadMeta(c), ~call[c].old.known, ~Cache!There(call[c].path)
  PROVE  CacheInv'
<1>1. CacheType /\ FilesStand /\ ScanFirst
  BY DEF CacheInv
<1>2. /\ call[c].pc = "read" /\ call' = [call EXCEPT ![c] = Cache!Idle]
      /\ UNCHANGED <<layout, clock, file, queue, timers, listed, bound, toScan, blind>>
  BY DEF Cache!ReadMeta
<1>3. Cache!Idle \in UpsertCall /\ Cache!Idle.pc = "idle" /\ Cache!Idle.path = Cache!NoPath /\ Cache!NoPath \notin Cache!Files
  BY DEF Cache!Idle, UpsertCall, Cache!NoSession, Entry, Cache!NoPath, Cache!Files
<1>4. /\ call' \in [Cache!Slots -> UpsertCall] /\ call'[c] = Cache!Idle
      /\ \A d \in Cache!Slots : d # c => call'[d] = call[d]
  BY <1>1, <1>2, <1>3 DEF CacheType
<1>5. CacheType'
  <2>1. \A d \in Cache!Slots : IF call'[d].pc = "idle" THEN call'[d] = Cache!Idle ELSE call'[d].path \in Cache!Files
    BY <1>1, <1>3, <1>4 DEF CacheType
  <2> QED
    BY <1>1, <1>2, <1>4, <2>1 DEF CacheType
<1>6. FilesStand'
  <2>1. \A d \in Cache!Slots : call'[d].pc # "idle" => file[call'[d].path] # Cache!NoFile /\ (d # "watcher" => call'[d].path = d)
    BY <1>1, <1>3, <1>4 DEF FilesStand
  <2>2. layout = "twins" => \A d \in Cache!Slots : call'[d].path = "other" => file["plain"] = Cache!Deleted
    BY <1>1, <1>3, <1>4 DEF FilesStand, Cache!Files
  <2> QED
    BY <1>1, <1>2, <2>1, <2>2 DEF FilesStand, Cache!There, IsQueued
<1>7. ScanFirst'
  <2>1. \A d \in Cache!Slots : call[d].pc = "idle" => call'[d].pc = "idle"
    BY <1>3, <1>4
  <2> QED
    BY <2>1, <1>1, <1>2 DEF ScanFirst, Cache!Slots
<1>8. ASSUME ~blind' PROVE CacheStands'
  <2>1. CacheStands /\ ~listed.known
    <3>1. CacheStands
      BY <1>2, <1>8 DEF CacheInv
    <3> QED
      BY <3>1, <1>2 DEF CacheStands, Copies
  <2>2. EntryIsOne' /\ EntryUnbinds' /\ EntryHolds'
    BY <2>1, <1>2 DEF CacheStands, EntryIsOne, EntryUnbinds, EntryHolds
  <2>3. FilesListed'
    <3>1. \A q : q # call[c].path => (Under(q) => Under(q)')
      BY <1>4 DEF Under
    <3>2. \A q : Outdated(q) => Outdated(q)'
      BY <1>2 DEF Outdated, Cache!There
    <3> QED
      BY <3>1, <3>2, <2>1, <1>2, DiskStays DEF CacheStands, FilesListed
  <2>4. Looks'
    <3> SUFFICES ASSUME NEW d \in Cache!Slots, call'[d].pc = "look"
                 PROVE  (/\ call[d].mtime <= clock
                         /\ Cache!There(call[d].path) => call[d].mtime <= file[call[d].path].mtime
                         /\ layout # "mirrors" /\ call[d].path = "plain" /\ Cache!There("other") => call[d].mtime < file["other"].mtime
                         /\ Cache!There(call[d].path) /\ Cache!IsSessionFile(call[d].path) /\ ~Unlisted(call[d].path) =>
                              call[d].mtime = file[call[d].path].mtime \/ Follows(d, call[d].path))'
      BY DEF Looks
    <3>1. call'[d] = call[d] /\ call[d].pc = "look"
      BY <1>3, <1>4
    <3>2. /\ call[d].mtime <= clock
          /\ Cache!There(call[d].path) => call[d].mtime <= file[call[d].path].mtime
          /\ layout # "mirrors" /\ call[d].path = "plain" /\ Cache!There("other") => call[d].mtime < file["other"].mtime
          /\ Cache!There(call[d].path) /\ Cache!IsSessionFile(call[d].path) /\ ~Unlisted(call[d].path) =>
               call[d].mtime = file[call[d].path].mtime \/ Follows(d, call[d].path)
      BY <3>1, <2>1 DEF CacheStands, Looks
    <3> QED
      BY <3>1, <3>2, <1>2 DEF Cache!There, Cache!IsSessionFile, Cache!IsRollout, Cache!IsGeneration, Unlisted, Follows, IsQueued
  <2>5. Copies'
    <3> SUFFICES ASSUME NEW d \in Cache!Slots, call'[d].pc \in {"read", "write"}
                 PROVE  (/\ call[d].old = listed
                         /\ listed.known => bound = call[d].path /\ call[d].new.known /\ call[d].new.origin = call[d].path
                         /\ call[d].pc = "write" =>
                              /\ call[d].new.known /\ call[d].new.origin = call[d].path /\ Unbinds(call[d].path)
                              /\ Cache!There(call[d].path) /\ Cache!IsSessionFile(call[d].path) =>
                                   Holds(call[d].new, call[d].path) \/ Follows(d, call[d].path) \/ WillForget(call[d].path))'
      BY DEF Copies
    <3>1. call'[d] = call[d] /\ call[d].pc \in {"read", "write"}
      BY <1>3, <1>4
    <3>2. (/\ call[d].old = listed
           /\ listed.known => bound = call[d].path /\ call[d].new.known /\ call[d].new.origin = call[d].path
           /\ call[d].pc = "write" =>
                /\ call[d].new.known /\ call[d].new.origin = call[d].path /\ Unbinds(call[d].path)
                /\ Cache!There(call[d].path) /\ Cache!IsSessionFile(call[d].path) =>
                     Holds(call[d].new, call[d].path) \/ Follows(d, call[d].path) \/ WillForget(call[d].path))
      BY <3>1, <2>1 DEF CacheStands, Copies
    <3> QED
      BY <3>1, <3>2, <1>2 DEF Cache!There, Cache!IsSessionFile, Cache!IsRollout, Cache!IsGeneration, Follows, IsQueued,
                               Unbinds, WillForget, Holds
  <2> QED
    BY <2>2, <2>3, <2>4, <2>5 DEF CacheStands
<1> QED
  BY <1>5, <1>6, <1>7, <1>8 DEF CacheInv

\* An upsert writes back what it read; another that has a copy is raced.
LEMMA CacheWritesBack ==
  ASSUME CacheInv, NEW c \in Cache!Slots, Cache!WriteBack(c)
  PROVE  CacheInv'
<1> DEFINE u == call[c]
<1>1. CacheType /\ FilesStand /\ ScanFirst
  BY DEF CacheInv
<1>2. /\ u.pc = "write" /\ call' = [call EXCEPT ![c] = Cache!Idle] /\ listed' = u.new
      /\ bound' = IF u.old.known THEN bound ELSE u.path
      /\ Cache!Raced({c}) /\ UNCHANGED <<layout, clock, file, queue, timers, toScan>>
  BY DEF Cache!WriteBack
<1>3. Cache!Idle \in UpsertCall /\ Cache!Idle.pc = "idle" /\ Cache!Idle.path = Cache!NoPath /\ Cache!NoPath \notin Cache!Files
  BY DEF Cache!Idle, UpsertCall, Cache!NoSession, Entry, Cache!NoPath, Cache!Files
<1>4. /\ call' \in [Cache!Slots -> UpsertCall] /\ call'[c] = Cache!Idle
      /\ \A d \in Cache!Slots : d # c => call'[d] = call[d]
  BY <1>1, <1>2, <1>3 DEF CacheType
<1>5. u.path \in Cache!Files /\ u.new \in Entry
  BY <1>1, <1>2 DEF CacheType, UpsertCall
<1>6. CacheType'
  <2>1. \A d \in Cache!Slots : IF call'[d].pc = "idle" THEN call'[d] = Cache!Idle ELSE call'[d].path \in Cache!Files
    BY <1>1, <1>3, <1>4 DEF CacheType
  <2>2. blind' \in BOOLEAN
    BY <1>1, <1>2 DEF CacheType, Cache!Raced
  <2>3. bound' \in Cache!Files \cup {Cache!NoPath} /\ listed' \in Entry
    BY <1>1, <1>2, <1>5 DEF CacheType
  <2> QED
    BY <1>1, <1>2, <1>4, <2>1, <2>2, <2>3 DEF CacheType
<1>7. FilesStand'
  <2>1. \A d \in Cache!Slots : call'[d].pc # "idle" => file[call'[d].path] # Cache!NoFile /\ (d # "watcher" => call'[d].path = d)
    BY <1>1, <1>3, <1>4 DEF FilesStand
  <2>2. layout = "twins" => \A d \in Cache!Slots : call'[d].path = "other" => file["plain"] = Cache!Deleted
    BY <1>1, <1>3, <1>4 DEF FilesStand, Cache!Files
  <2>3. layout = "twins" /\ bound' = "other" => file["plain"] = Cache!Deleted
    BY <1>1, <1>2 DEF FilesStand
  <2> HIDE DEF u
  <2> QED
    BY <1>1, <1>2, <2>1, <2>2, <2>3 DEF FilesStand, Cache!There, IsQueued
<1>8. ScanFirst'
  <2>1. \A d \in Cache!Slots : call[d].pc = "idle" => call'[d].pc = "idle"
    BY <1>3, <1>4
  <2>2. ~(Cache!Files \subseteq toScan)
    <3>1. c = "watcher" \/ c \in Cache!Files
      BY DEF Cache!Slots
    <3> QED
      BY <3>1, <1>1, <1>2 DEF ScanFirst, Cache!Files
  <2> QED
    BY <2>1, <2>2, <1>1, <1>2 DEF ScanFirst, Cache!Slots
<1>9. ASSUME ~blind' PROVE CacheStands'
  <2>1. CacheStands /\ \A d \in Cache!Slots : d # c => call[d].pc \notin {"read", "write"}
    BY <1>2, <1>9 DEF CacheInv, Cache!Raced
  <2>2. /\ u.old = listed /\ (listed.known => bound = u.path)
        /\ u.new.known /\ u.new.origin = u.path /\ Unbinds(u.path)
        /\ Cache!There(u.path) /\ Cache!IsSessionFile(u.path) =>
             Holds(u.new, u.path) \/ Follows(c, u.path) \/ WillForget(u.path)
    BY <2>1, <1>2 DEF CacheStands, Copies
  <2>3. listed' = u.new /\ bound' = u.path /\ (~listed.known => bound = Cache!NoPath)
    BY <2>1, <2>2, <1>2 DEF CacheStands, EntryIsOne
  <2>4. EntryIsOne'
    BY <2>2, <2>3, <1>3, <1>5 DEF EntryIsOne
  <2> HIDE DEF u
  <2>5. /\ Unbinds(bound)' <=> Unbinds(u.path)
        /\ Cache!There(bound)' <=> Cache!There(u.path)
        /\ Cache!IsSessionFile(bound)' <=> Cache!IsSessionFile(u.path)
        /\ Due(bound)' <=> Due(u.path)
        /\ Holds(listed, bound)' <=> Holds(u.new, u.path)
        /\ WillForget(bound)' <=> WillForget(u.path)
    <3>1. \A f : IsQueued(f, bound)' <=> IsQueued(f, u.path)
      BY <2>3, <1>2 DEF IsQueued
    <3>2. IsQueued("remove", "other")' <=> IsQueued("remove", "other")
      BY <1>2 DEF IsQueued
    <3>3. (Cache!There(bound)' <=> Cache!There(u.path)) /\ (Cache!There("other")' <=> Cache!There("other"))
      BY <2>3, <1>2 DEF Cache!There
    <3>4. Cache!IsSessionFile(bound)' <=> Cache!IsSessionFile(u.path)
      BY <2>3, <1>2 DEF Cache!IsSessionFile, Cache!IsRollout, Cache!IsGeneration, Cache!There
    <3>5. Holds(listed, bound)' <=> Holds(u.new, u.path)
      BY <2>3, <1>2 DEF Holds
    <3> QED
      BY <3>1, <3>2, <3>3, <3>4, <3>5, <2>3, <1>2 DEF Unbinds, Due, WillForget
  <2>6. EntryUnbinds'
    BY <2>2, <2>5 DEF EntryUnbinds
  <2>7. EntryHolds'
    <3>1. Follows(c, u.path) => Due(u.path)
      BY DEF Follows, Due
    <3> QED
      BY <3>1, <2>2, <2>5 DEF EntryHolds
  <2>8. FilesListed'
    <3> SUFFICES ASSUME NEW q \in Cache!Files, Cache!There(q), Cache!IsSessionFile(q), ~Unlisted(q)
                 PROVE  (\/ Due(q) \/ Under(q) \/ bound = q \/ Outdated(q)
                         \/ layout = "twins" /\ q = "other" /\ IsQueued("remove", "plain"))'
      BY <1>2, DiskStays DEF FilesListed
    <3>1. CASE q = u.path
      BY <3>1, <2>3
    <3>2. CASE q # u.path
      <4>1. \/ Due(q) \/ Under(q) \/ bound = q \/ Outdated(q)
            \/ layout = "twins" /\ q = "other" /\ IsQueued("remove", "plain")
        BY <2>1 DEF CacheStands, FilesListed
      <4>2. Under(q) => Under(q)'
        BY <3>2, <1>4 DEF Under, u
      <4>3. bound # q
        BY <3>2, <2>2, <2>3, <1>3
      <4>4. ASSUME Outdated(q) PROVE Outdated(q)'
        <5>1. Outdated(q)' <=> listed'.known /\ file'[bound'].mtime > 0 /\ file'[bound'].mtime >= file'[q].mtime
          BY DEF Outdated, Cache!There
        <5>2. listed.known /\ Cache!There(bound) /\ file[bound].mtime >= file[q].mtime /\ bound = u.path
          BY <4>4, <2>2 DEF Outdated
        <5> QED
          BY <5>1, <5>2, <2>2, <2>3, <1>2 DEF Cache!There
      <4> QED
        BY <4>1, <4>2, <4>3, <4>4, <1>2, DiskStays
    <3> QED
      BY <3>1, <3>2
  <2>9. Looks'
    <3> SUFFICES ASSUME NEW d \in Cache!Slots, call'[d].pc = "look"
                 PROVE  (/\ call[d].mtime <= clock
                         /\ Cache!There(call[d].path) => call[d].mtime <= file[call[d].path].mtime
                         /\ layout # "mirrors" /\ call[d].path = "plain" /\ Cache!There("other") => call[d].mtime < file["other"].mtime
                         /\ Cache!There(call[d].path) /\ Cache!IsSessionFile(call[d].path) /\ ~Unlisted(call[d].path) =>
                              call[d].mtime = file[call[d].path].mtime \/ Follows(d, call[d].path))'
      BY DEF Looks
    <3>1. call'[d] = call[d] /\ call[d].pc = "look"
      BY <1>3, <1>4
    <3>2. /\ call[d].mtime <= clock
          /\ Cache!There(call[d].path) => call[d].mtime <= file[call[d].path].mtime
          /\ layout # "mirrors" /\ call[d].path = "plain" /\ Cache!There("other") => call[d].mtime < file["other"].mtime
          /\ Cache!There(call[d].path) /\ Cache!IsSessionFile(call[d].path) /\ ~Unlisted(call[d].path) =>
               call[d].mtime = file[call[d].path].mtime \/ Follows(d, call[d].path)
      BY <3>1, <2>1 DEF CacheStands, Looks
    <3> QED
      BY <3>1, <3>2, <1>2 DEF Cache!There, Cache!IsSessionFile, Cache!IsRollout, Cache!IsGeneration, Unlisted, Follows, IsQueued
  <2>10. Copies'
    <3>1. \A d \in Cache!Slots : call'[d].pc \notin {"read", "write"}
      BY <2>1, <1>3, <1>4
    <3> QED
      BY <3>1 DEF Copies
  <2> QED
    BY <2>4, <2>6, <2>7, <2>8, <2>9, <2>10 DEF CacheStands
<1> QED
  BY <1>6, <1>7, <1>8, <1>9 DEF CacheInv

\* Every step of the session list keeps the invariant.
LEMMA CacheKept == CacheInv /\ [Cache!Next]_cacheVars => CacheInv'
<1> SUFFICES ASSUME CacheInv, [Cache!Next]_cacheVars PROVE CacheInv'
  OBVIOUS
<1>1. CASE UNCHANGED cacheVars
  <2>1. /\ layout' = layout /\ clock' = clock /\ file' = file /\ queue' = queue /\ timers' = timers /\ listed' = listed
        /\ bound' = bound /\ call' = call /\ toScan' = toScan /\ blind' = blind
    BY <1>1 DEF cacheVars
  <2>2. CacheType' <=> CacheType
    BY <2>1 DEF CacheType
  <2>3. FilesStand' <=> FilesStand
    BY <2>1 DEF FilesStand, Cache!There, IsQueued
  <2>4. ScanFirst' <=> ScanFirst
    BY <2>1 DEF ScanFirst
  <2>5. \A q : (Under(q)' <=> Under(q)) /\ (Outdated(q)' <=> Outdated(q))
    BY <2>1 DEF Under, Outdated, Cache!There
  <2>6. (EntryIsOne' <=> EntryIsOne) /\ (EntryUnbinds' <=> EntryUnbinds)
    BY <2>1, DiskStays DEF EntryIsOne, EntryUnbinds
  <2>7. EntryHolds' <=> EntryHolds
    BY <2>1, <2>5, DiskStays DEF EntryHolds
  <2>8. FilesListed' <=> FilesListed
    BY <2>1, <2>5, DiskStays DEF FilesListed
  <2>9. Looks' <=> Looks
    BY <2>1, DiskStays DEF Looks
  <2>10. Copies' <=> Copies
    BY <2>1, DiskStays DEF Copies
  <2> QED
    BY <2>1, <2>2, <2>3, <2>4, <2>6, <2>7, <2>8, <2>9, <2>10 DEF CacheInv, CacheStands
<1>2. CASE Cache!handle
  BY <1>2, CacheCreates, CacheDebounces, CacheFollowsTwin, CacheIgnores, CacheForgets DEF Cache!handle
<1>3. ASSUME NEW c \in Cache!Slots, Cache!Upsert(c) PROVE CacheInv'
  <2>1. CASE Cache!Look(c)
    BY <2>1, CacheLeavesMirror, CacheTakes
  <2>2. CASE Cache!ReadMeta(c)
    BY <2>2, CacheReads, CacheGivesUp
  <2> QED
    BY <1>3, <2>1, <2>2, CacheWritesBack DEF Cache!Upsert
<1> QED
  BY <1>1, <1>2, <1>3, CacheWrites, CacheCompresses, CacheDeletes, CacheFires, CacheScans, CacheWatches,
     CacheIdDeleted, CacheMarks, CacheUpdates DEF Cache!Next, cacheVars

\* A step of another part is a stutter of the session list.
LEMMA CacheSteps == SessionsNext => [Cache!Next]_cacheVars
BY DEF SessionsNext, PiStep, AgentStep, CacheStep, WatchStep, StartStep, MetaStep

\* The session list at rest is what is on disk, whatever raced it but a write-back or a
\* change before the watches.
THEOREM ListIsTheDisk == SessionsSpec => []CacheIsTheDisk
<1>1. SessionsInit => CacheInv
  BY CacheStarts DEF SessionsInit
<1>2. CacheInv /\ [SessionsNext]_sessionsVars => CacheInv'
  <2>1. ASSUME UNCHANGED sessionsVars PROVE UNCHANGED cacheVars
    BY <2>1 DEF sessionsVars
  <2> QED
    BY <2>1, CacheKept, CacheSteps
<1>3. CacheInv => CacheIsTheDisk
  BY CacheHolds DEF CacheIsTheDisk
<1> QED
  BY <1>1, <1>2, <1>3, PTL DEF SessionsSpec
=============================================================================
