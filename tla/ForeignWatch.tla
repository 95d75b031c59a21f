---------------------------- MODULE ForeignWatch ----------------------------
(***************************************************************************)
(* The watcher of turns usher did not start (router/foreignwatch.go) on    *)
(* one session log, against the sends usher runs on the same session: the  *)
(* baseline below which growth is accounted for, the busy bit, and the     *)
(* exit the watcher publishes to whoever is subscribed.                    *)
(***************************************************************************)
EXTENDS Integers, Sequences, SequencesExt

CONSTANTS MaxLog,     \* bound: lines of the log
          MaxSends    \* bound: sends usher starts

VARIABLES slog,       \* the session's log
          turn,       \* usher's send: "none", "claimed", "running", "releasing"
          since,      \* the lines when it was claimed
          sub,        \* its collector is subscribed
          sends,
          base,       \* foreignBase; -1 when the session has none
          watch,      \* the watcher's goroutine
          collected,  \* history: lines the collector of a send has taken
          accounted,  \* history: lines usher's sends or the first sight moved base past
          relayed,    \* history: lines given to the foreign-turn handler, in order
          stray       \* history: a collector ended on the watcher's exit

watchVars == <<slog, turn, since, sub, sends, base, watch, collected, accounted, relayed, stray>>

Resting == [pc |-> "idle", size |-> 0, base |-> 0]

Init ==
    /\ slog = <<>> /\ turn = "none" /\ since = 0 /\ sub = FALSE /\ sends = 0
    /\ base = -1 /\ watch = Resting
    /\ collected = {} /\ accounted = {} /\ relayed = <<>> /\ stray = FALSE

(* ---------------- the agent ---------------- *)
\* A running send tails the log and collects each text it sees.
Append1(owner, type) ==
    /\ Len(slog) < MaxLog
    /\ slog' = Append(slog, [owner |-> owner, type |-> type])
    /\ collected' = IF turn = "running" /\ type = "text" THEN collected \cup {Len(slog) + 1} ELSE collected
    /\ UNCHANGED <<turn, since, sub, sends, base, watch, accounted, relayed, stray>>

\* A turn usher did not start: a background continuation, a prompt typed into the pane.
ForeignLine(type) == Append1("foreign", type)

\* The turn of a send, and what a cancelled one still writes.
OwnLine(type) == sends > 0 /\ turn # "claimed" /\ Append1("usher", type)

(* ---------------- sends ---------------- *)
\* enqueueSend claims the session under sendMu, then pre subscribes the collector.
Claim ==
    /\ turn = "none" /\ sends < MaxSends
    /\ turn' = "claimed" /\ sends' = sends + 1 /\ since' = Len(slog)
    /\ UNCHANGED <<slog, sub, base, watch, collected, accounted, relayed, stray>>

Subscribe ==
    /\ turn = "claimed"
    /\ turn' = "running" /\ sub' = TRUE
    /\ UNCHANGED <<slog, since, sends, base, watch, collected, accounted, relayed, stray>>

\* A slip of bumpForeignBase: the baseline stays where it was.
bumpForeignBaseNot == UNCHANGED <<base, accounted>>

\* bumpForeignBaseLocked: growth up to the size of the file is usher's own.
bumpForeignBase ==
    /\ base' = Len(slog)
    /\ accounted' = accounted \cup ((IF base < 0 THEN 1 ELSE base + 1)..Len(slog))

\* The exit of a turn: its end is in the log, or it was cancelled or failed; the
\* collector has it before markSendIdle clears the busy bit.
Exit(cancelled) ==
    /\ turn = "running"
    /\ cancelled \/ \E n \in (since + 1)..Len(slog) : slog[n].type = "end"
    /\ turn' = "releasing" /\ sub' = FALSE
    /\ bumpForeignBase
    /\ UNCHANGED <<slog, since, sends, watch, collected, relayed, stray>>

\* releaseSend bumps once more.
Release ==
    /\ turn = "releasing"
    /\ turn' = "none"
    /\ bumpForeignBase
    /\ UNCHANGED <<slog, since, sub, sends, watch, collected, relayed, stray>>

(* ---------------- the watcher ---------------- *)
\* activeSend holds a token from the claim to the exit.
Busy == turn \in {"claimed", "running"}

\* A poll: the size of the file, before the lock.
Stat ==
    /\ watch.pc = "idle" /\ Len(slog) > 0 /\ Len(slog) # base
    /\ watch' = [pc |-> "check", size |-> Len(slog), base |-> 0]
    /\ UNCHANGED <<slog, turn, since, sub, sends, base, collected, accounted, relayed, stray>>

\* First sight takes the history as the baseline; growth is looked at when no send
\* of usher is busy.
Check ==
    /\ watch.pc = "check"
    /\ base' = IF base < 0 THEN watch.size ELSE base
    /\ accounted' = IF base < 0 THEN accounted \cup (1..watch.size) ELSE accounted
    /\ watch' = IF base < 0 \/ Busy \/ watch.size <= base THEN Resting
                ELSE [pc |-> "last", size |-> watch.size, base |-> base]
    /\ UNCHANGED <<slog, turn, since, sub, sends, collected, relayed, stray>>

\* lastFileLine up to the size of the poll, classified.
EndsTurn(size) == slog[size].type = "end"

\* Only a log whose last line ends a turn goes on.
LastLine ==
    /\ watch.pc = "last"
    /\ watch' = IF EndsTurn(watch.size) THEN [watch EXCEPT !.pc = "commit"] ELSE Resting
    /\ UNCHANGED <<slog, turn, since, sub, sends, base, collected, accounted, relayed, stray>>

\* A slip of StillForeign: the baseline is not looked at again.
StillForeignIdle == ~Busy
StillForeign == ~Busy /\ base = watch.base

\* The baseline moves before the relay, unless a send has come between.
Commit ==
    /\ watch.pc = "commit"
    /\ base' = IF StillForeign THEN watch.size ELSE base
    /\ watch' = IF StillForeign THEN [watch EXCEPT !.pc = "publish"] ELSE Resting
    /\ UNCHANGED <<slog, turn, since, sub, sends, collected, accounted, relayed, stray>>

\* The parts of the region and an exit for the open views; a collector that has
\* subscribed since the commit takes the exit for its own.
Publish ==
    /\ watch.pc = "publish"
    /\ stray' = (stray \/ sub) /\ sub' = FALSE
    /\ watch' = [watch EXCEPT !.pc = "relay"]
    /\ UNCHANGED <<slog, turn, since, sends, base, collected, accounted, relayed>>

\* The lines of the region, whose turns go to the handler one call after the other.
Region == (watch.base + 1)..watch.size

Relay ==
    /\ watch.pc = "relay"
    /\ LET n == watch.base + 1 IN
         /\ relayed' = IF slog[n].type = "text" THEN Append(relayed, n) ELSE relayed
         /\ watch' = IF n = watch.size THEN Resting ELSE [watch EXCEPT !.base = n]
    /\ UNCHANGED <<slog, turn, since, sub, sends, base, collected, accounted, stray>>

Watcher == Stat \/ Check \/ LastLine \/ Commit \/ Publish \/ Relay

Next ==
    \/ \E type \in {"text", "end"} : ForeignLine(type) \/ OwnLine(type)
    \/ Claim \/ Subscribe \/ Release \/ \E cancelled \in BOOLEAN : Exit(cancelled)
    \/ Watcher

Fairness == WF_watchVars(Watcher) /\ WF_watchVars(Subscribe \/ Release \/ Exit(TRUE))

Spec == Init /\ [][Next]_watchVars /\ Fairness

(* ---------------- properties ---------------- *)
InFlight == IF watch.pc \in {"publish", "relay"} THEN Region ELSE {}

\* No reply reaches the main chat twice: a text is relayed once, in the order of the
\* log, and never when the collector of a send has it; and none is lost: up to the
\* baseline every line is the watcher's or was accounted for by a send.
RelayedOnce ==
    /\ \A i, j \in 1..Len(relayed) : i < j => relayed[i] < relayed[j]
    /\ ToSet(relayed) \cap (collected \cup accounted) = {}
    /\ \A n \in 1..base : slog[n].type = "text" =>
         n \in ToSet(relayed) \cup accounted \cup InFlight

\* "The turn is only done when the last line is the end-of-turn marker", and then it
\* is told: at rest, a log that ends a turn has nothing behind the baseline.
EndedIsTold == []<>(slog = <<>> \/ Last(slog).type # "end" \/ base = Len(slog))
=============================================================================
