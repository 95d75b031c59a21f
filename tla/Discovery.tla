------------------------------ MODULE Discovery ------------------------------
(***************************************************************************)
(* The session cache (internal/discovery) for one session id that two      *)
(* files can hold: the mirrors of the two opencode stores, or a codex      *)
(* rollout and the compressed form that replaces it.  The watcher handles  *)
(* file events in order, a write starts a timer, and each upsert is a stat,*)
(* a look at the cache, a read of the file and a write-back, with the      *)
(* cache's lock held in the second and the last only.                      *)
(***************************************************************************)
EXTENDS Integers, Sequences, FiniteSets

CONSTANTS MaxClock,   \* bound: writes of files, inputs and runtime events
          MaxQueue    \* bound: file events the watcher has not handled

Files == {"plain", "other"}
Slots == {"watcher"} \cup Files    \* the watcher, and the timer of each file
NoPath == "none"

VARIABLES layout,    \* "mirrors", "twins": other is the compressed plain, or
                     \* "generations": other succeeds plain in a directory of dsh
          clock, file, queue, timers,
          sess, bound,    \* the entries of the id in sessions and paths
          call,      \* the upsert each goroutine runs
          toScan,    \* what Start has still to do: files to scan, and the watches
          blind      \* history: the entry was written while an upsert had a copy of it,
                     \* took a file deleted since its stat, or a file changed
                     \* between the scan and the watches

discVars == <<layout, clock, file, queue, timers, sess, bound, call, toScan, blind>>

NoFile == [mtime |-> 0, lines |-> 0]
Deleted == [mtime |-> 0, lines |-> -1]    \* an id is not used again
NoSession == [known |-> FALSE, origin |-> NoPath, event |-> 0, usage |-> 0, titled |-> FALSE, input |-> 0]
Idle == [pc |-> "idle", path |-> NoPath, mtime |-> 0, old |-> NoSession, new |-> NoSession]

There(p) == file[p].mtime > 0

\* A slip of IsSessionFile: the compressed form always counts.
IsSessionFileAlways(p) == TRUE

\* CodexSource: the compressed form counts when the plain one is gone.
IsRollout(p) == p = "other" => ~There("plain")

\* DshSource: the highest generation counts.
IsGeneration(p) == p = "plain" => ~There("other")

IsSessionFile(p) == /\ layout = "twins" => IsRollout(p)
                    /\ layout = "generations" => IsGeneration(p)

Later(a, b) == IF a > b THEN a ELSE b

Init ==
    /\ layout \in {"mirrors", "twins", "generations"}
    /\ clock = 0
    /\ file = [p \in Files |-> NoFile]
    /\ queue = <<>>
    /\ timers = {}
    /\ sess = NoSession
    /\ bound = NoPath
    /\ call = [c \in Slots |-> Idle]
    /\ toScan = Files \cup {"watches"}
    /\ blind = FALSE

\* Whoever writes the cache races the upserts between their look and their write-back.
Raced(writers) == blind' = (blind \/ \E c \in Slots \ writers : call[c].pc \in {"read", "write"})

(* ---------------- Start ---------------- *)
Watching == toScan = {}

\* A change of a file is an event once the watches are there.
Notify(event, p) ==
    /\ queue' = IF Watching THEN Append(queue, <<event, p>>) ELSE queue
    /\ blind' = (blind \/ (~Watching /\ Files \ toScan # {}))

(* ---------------- the agents' files ---------------- *)
\* An append; it creates the file when there is none, with the lines the session has.
WriteFile(p) ==
    /\ clock < MaxClock /\ Len(queue) < MaxQueue
    /\ file[p] # Deleted
    /\ layout = "twins" => p = "plain"
    /\ layout # "mirrors" /\ p = "plain" => file["other"] = NoFile
    /\ clock' = clock + 1
    /\ file' = [file EXCEPT ![p] = [mtime |-> clock + 1, lines |-> clock + 1]]
    /\ Notify(IF There(p) THEN "write" ELSE "create", p)
    /\ UNCHANGED <<layout, timers, sess, bound, call, toScan>>

\* Compression writes the twin beside the plain rollout, which it deletes then.
Compress ==
    /\ layout = "twins" /\ There("plain") /\ file["other"] = NoFile
    /\ clock < MaxClock /\ Len(queue) < MaxQueue
    /\ clock' = clock + 1
    /\ file' = [file EXCEPT !["other"] = [mtime |-> clock + 1, lines |-> file["plain"].lines]]
    /\ Notify("create", "other")
    /\ UNCHANGED <<layout, timers, sess, bound, call, toScan>>

DeleteFile(p) ==
    /\ There(p) /\ Len(queue) < MaxQueue
    /\ file' = [file EXCEPT ![p] = Deleted]
    /\ Notify("remove", p)
    /\ UNCHANGED <<layout, clock, timers, sess, bound, call, toScan>>

(* ---------------- upsert ---------------- *)
\* The id and the stat of the file, before the cache is looked at.
Begin(c, p) ==
    call' = [call EXCEPT ![c] = IF IsSessionFile(p) /\ There(p)
                                THEN [Idle EXCEPT !.pc = "look", !.path = p, !.mtime = file[p].mtime]
                                ELSE Idle]

\* A slip of IgnoresMirror: the file of the last event is followed.
IgnoresNoMirror(u) == FALSE

\* An older mirror is ignored, a newer one takes the binding (in a lock of its own).
IgnoresMirror(u) == sess.known /\ bound \notin {NoPath, u.path} /\ There(bound) /\ u.mtime <= file[bound].mtime

Look(c) ==
    LET u == call[c] IN
    /\ u.pc = "look"
    /\ IF IgnoresMirror(u)
       THEN call' = [call EXCEPT ![c] = Idle] /\ UNCHANGED bound
       ELSE /\ call' = [call EXCEPT ![c] = [@ EXCEPT
                          !.pc = "read", !.old = sess,
                          !.new = [sess EXCEPT !.event = u.mtime,
                                               !.origin = IF bound = NoPath THEN @ ELSE u.path]]]
            /\ bound' = IF sess.known /\ bound # NoPath THEN u.path ELSE bound
    /\ IF bound' = bound THEN UNCHANGED blind
       ELSE IF There(u.path) THEN Raced({c}) ELSE blind' = TRUE
    /\ UNCHANGED <<layout, clock, file, queue, timers, sess, toScan>>

\* What a read of the file adds.  The first line has no prompt yet; the usage of
\* the file replaces the cached one, be it older or not.
Read(new, f) == [new EXCEPT !.usage = IF f.lines > 0 THEN f.lines ELSE @,
                            !.titled = @ \/ f.lines > 1,
                            !.event = Later(@, f.mtime)]

FirstSight(u, f) == Read([NoSession EXCEPT !.known = TRUE, !.origin = u.path, !.event = u.mtime], f)

\* A known session whose file is gone keeps what is cached; a new one is not made.
ReadMeta(c) ==
    LET u == call[c] IN
    /\ u.pc = "read"
    /\ call' = [call EXCEPT ![c] =
                  IF ~u.old.known /\ ~There(u.path) THEN Idle
                  ELSE [@ EXCEPT !.pc = "write",
                                 !.new = IF ~There(u.path) THEN u.new
                                         ELSE IF u.old.known THEN Read(u.new, file[u.path])
                                         ELSE FirstSight(u, file[u.path])]]
    /\ UNCHANGED <<layout, clock, file, queue, timers, sess, bound, toScan, blind>>

WriteBack(c) ==
    LET u == call[c] IN
    /\ u.pc = "write"
    /\ sess' = u.new
    /\ bound' = IF u.old.known THEN bound ELSE u.path
    /\ Raced({c})
    /\ call' = [call EXCEPT ![c] = Idle]
    /\ UNCHANGED <<layout, clock, file, queue, timers, toScan>>

\* Create and write-back of one goroutine.
Upsert(c) == Look(c) \/ ReadMeta(c) \/ WriteBack(c)

(* ---------------- the watcher ---------------- *)
\* Start walks the roots, one upsert a file, and watches their directories then.
scan(p) ==
    /\ p \in toScan /\ call["watcher"] = Idle
    /\ toScan' = toScan \ {p}
    /\ Begin("watcher", p)
    /\ UNCHANGED <<layout, clock, file, queue, timers, sess, bound, blind>>

addWatches ==
    /\ toScan = {"watches"} /\ call["watcher"] = Idle
    /\ toScan' = {}
    /\ UNCHANGED <<layout, clock, file, queue, timers, sess, bound, call, blind>>

\* Remove: the deletion of a rollout whose compressed form is there rebinds to it,
\* any other forgets the id.
Forget == sess' = NoSession /\ bound' = NoPath /\ Raced({})

\* A slip of HasTwin: the deletion of a rollout always forgets.
HasTwinNot(p) == FALSE
HasTwin(p) == layout = "twins" /\ p = "plain" /\ There("other")

HandleCreate ==
    /\ Head(queue)[1] = "create"
    /\ Begin("watcher", Head(queue)[2])
    /\ UNCHANGED <<timers, sess, bound, blind>>

HandleWrite ==
    /\ Head(queue)[1] = "write"
    /\ timers' = timers \cup {Head(queue)[2]}
    /\ UNCHANGED <<sess, bound, call, blind>>

HandleRemove ==
    LET p == Head(queue)[2] IN
    /\ Head(queue)[1] = "remove"
    /\ IF HasTwin(p) THEN Begin("watcher", "other") /\ UNCHANGED <<sess, bound, blind>>
       ELSE /\ UNCHANGED call
            /\ IF IsSessionFile(p) THEN Forget ELSE UNCHANGED <<sess, bound, blind>>
    /\ UNCHANGED timers

handle ==
    /\ queue # <<>> /\ call["watcher"] = Idle
    /\ HandleCreate \/ HandleWrite \/ HandleRemove
    /\ queue' = Tail(queue)
    /\ UNCHANGED <<layout, clock, file, toScan>>

\* The debounce timer of a file, on a goroutine of its own (bound: one of a file runs).
TimerFires(p) ==
    /\ p \in timers /\ call[p] = Idle
    /\ timers' = timers \ {p}
    /\ Begin(p, p)
    /\ UNCHANGED <<layout, clock, file, queue, sess, bound, toScan, blind>>

(* ---------------- the router ---------------- *)
\* DeleteSession deletes the bound file and forgets the id.
DeleteSession ==
    /\ Watching /\ bound # NoPath /\ Len(queue) < MaxQueue
    /\ file' = [file EXCEPT ![bound] = Deleted]
    /\ queue' = IF There(bound) THEN Append(queue, <<"remove", bound>>) ELSE queue
    /\ Forget
    /\ UNCHANGED <<layout, clock, timers, call, toScan>>

\* A send marks the input, a runtime event of its turn the usage.
MarkInput ==
    /\ Watching /\ sess.known /\ clock < MaxClock
    /\ clock' = clock + 1
    /\ sess' = [sess EXCEPT !.input = clock + 1]
    /\ Raced({})
    /\ UNCHANGED <<layout, file, queue, timers, bound, call, toScan>>

UpdateRuntime ==
    /\ Watching /\ sess.known /\ sess.usage < clock
    /\ sess' = [sess EXCEPT !.usage = clock]
    /\ Raced({})
    /\ UNCHANGED <<layout, clock, file, queue, timers, bound, call, toScan>>

Next ==
    \/ \E p \in Files : WriteFile(p) \/ DeleteFile(p) \/ TimerFires(p)
    \/ \E p \in Files : scan(p)
    \/ addWatches \/ Compress \/ handle \/ DeleteSession \/ MarkInput \/ UpdateRuntime
    \/ \E c \in Slots : Upsert(c)

Spec == Init /\ [][Next]_discVars

(* ---------------- properties ---------------- *)
Quiet == Watching /\ queue = <<>> /\ timers = {} /\ \A c \in Slots : call[c] = Idle
Newest(p) == There(p) /\ \A q \in Files : file[q].mtime <= file[p].mtime

\* Where no write-back was raced, no upsert took a file deleted since its stat and
\* the scan missed nothing, the cache at rest is what is on disk: a listed id is bound
\* to a file that is there, its usage no older than the file's, and its backend that of
\* the file; the entry is in both maps or in neither, and in both while there is a
\* file, unless a mirror has been deleted (upsert ignores an older one, Remove does not).
CacheIsTheDisk ==
    Quiet /\ ~blind =>
      /\ sess.known <=> bound # NoPath
      /\ (\E p \in Files : There(p)) /\ (layout = "twins" \/ Deleted \notin {file[p] : p \in Files})
            => sess.known
      /\ sess.known => /\ There(bound) /\ sess.origin = bound
                       /\ sess.usage >= file[bound].lines
                       /\ file[bound].lines > 1 => sess.titled
                       /\ layout # "twins" => Newest(bound)
=============================================================================
