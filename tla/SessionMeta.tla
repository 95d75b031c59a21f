---------------------------- MODULE SessionMeta ----------------------------
(***************************************************************************)
(* The decisions usher keeps per session (internal/sessionmeta): archived  *)
(* or shown, pinned, a title, a context window, in memory and in a file    *)
(* that each change replaces; a failed write is logged, and a crash leaves *)
(* the file of the last write.  An operation holds the store's lock, so it *)
(* is one step; a crash may fall between its two file operations.          *)
(***************************************************************************)
EXTENDS Integers, FiniteSets

CONSTANTS AutoAfter,    \* idle time behind which a session is archived by itself; 0 for never
          MaxTime       \* bound: time

VARIABLES now, lastInput,    \* the clock, and the session's last input
          mem, disk,         \* the store and its file
          wish,              \* history: the user's last word on archiving, and when
          lost               \* history: a write has failed, or been cut by a crash

metaVars == <<now, lastInput, mem, disk, wish, lost>>

Empty == [archived |-> "none", pinned |-> FALSE, title |-> 0, window |-> 0]

Init ==
    /\ now = 1 /\ lastInput = 1
    /\ mem = Empty /\ disk = Empty
    /\ wish = [word |-> "none", at |-> 0]
    /\ lost = FALSE

Stale == AutoAfter > 0 /\ now - lastInput > AutoAfter

\* A slip of IsArchived: the clock decides before the user.
IsArchivedByClock == IF Stale THEN TRUE ELSE mem.archived = "archived"

IsArchived == IF mem.archived # "none" THEN mem.archived = "archived" ELSE Stale

\* persist: the new content to a temporary file, which is renamed when all of it is
\* written; before that the file is the old one.
Persist(m, renamed) ==
    /\ disk' = IF renamed THEN m ELSE disk
    /\ lost' = ~renamed

\* A change that is none is not written.
Change(m, renamed) ==
    /\ mem' = m
    /\ IF m = mem THEN UNCHANGED <<disk, lost>> ELSE Persist(m, renamed)

Archive(o) == /\ Change([mem EXCEPT !.archived = "archived"], o)
              /\ wish' = [word |-> "archive", at |-> now]
              /\ UNCHANGED <<now, lastInput>>

\* A slip of Unarchive: it only forgets that the session was archived.
UnarchiveForgets(o) == /\ Change([mem EXCEPT !.archived = "none"], o)
                       /\ wish' = [word |-> "show", at |-> now]
                       /\ UNCHANGED <<now, lastInput>>

\* Of a fresh session the decision is dropped, a stale one is kept shown.
Unarchive(o) == /\ Change([mem EXCEPT !.archived = IF Stale THEN "shown" ELSE "none"], o)
                /\ wish' = [word |-> "show", at |-> now]
                /\ UNCHANGED <<now, lastInput>>

Pin(o) == Change([mem EXCEPT !.pinned = TRUE], o) /\ UNCHANGED <<now, lastInput, wish>>
Unpin(o) == Change([mem EXCEPT !.pinned = FALSE], o) /\ UNCHANGED <<now, lastInput, wish>>

\* Rename writes in any case, and the empty title goes back to the session's own.
Rename(t, o) == /\ mem' = [mem EXCEPT !.title = t] /\ Persist(mem', o)
                /\ UNCHANGED <<now, lastInput, wish>>

SaveContextWindow(w, o) == /\ w > 0 /\ Change([mem EXCEPT !.window = w], o)
                           /\ UNCHANGED <<now, lastInput, wish>>

Forget(o) == /\ Change(Empty, o)
             /\ wish' = [word |-> "none", at |-> now]
             /\ UNCHANGED <<now, lastInput>>

\* The store is loaded from its file.
Restart == /\ mem' = disk
           /\ wish' = IF lost THEN [word |-> "none", at |-> now] ELSE wish
           /\ lost' = FALSE
           /\ UNCHANGED <<now, lastInput, disk>>

Tick == /\ now < MaxTime /\ now' = now + 1
        /\ lastInput' \in {lastInput, now + 1}
        /\ UNCHANGED <<mem, disk, wish, lost>>

Next ==
    \/ \E o \in BOOLEAN : \/ Archive(o) \/ Unarchive(o) \/ Pin(o) \/ Unpin(o) \/ Forget(o)
                           \/ \E n \in 0..1 : Rename(n, o) \/ SaveContextWindow(n + 1, o)
    \/ Restart \/ Tick

Spec == Init /\ [][Next]_metaVars

(* ---------------- properties ---------------- *)
\* The user's word on archiving holds while the last write went through, across
\* restarts: an archived session stays so until it is shown, and one that was
\* shown is only archived by its own idle time when it was fresh then.
DecisionHolds ==
    ~lost =>
      /\ disk = mem
      /\ wish.word = "archive" => IsArchived
      /\ wish.word = "show" /\ IsArchived => Stale /\ wish.at - lastInput <= AutoAfter
=============================================================================
