------------------------------ MODULE SendLane ------------------------------
(***************************************************************************)
(* What internal/router promises a frontend about the sends of a session:  *)
(* each session has one lane; it serves one send at a time; sends that     *)
(* find the lane occupied wait in a bounded line and are served in the     *)
(* order they joined it; a stop empties the line; nothing is served twice  *)
(* and a line is never left without somebody to serve it.                  *)
(* Router.tla, the detailed model, is shown to implement this module.      *)
(***************************************************************************)
EXTENDS Naturals, Sequences

CONSTANTS Sends, Sessions, SessionOf, MaxQueued, None

VARIABLES
    serving,    \* serving[s]: the send the lane of s serves, or None
    waiting,    \* waiting[s]: the line
    fresh       \* sends nobody has submitted yet

lane == <<serving, waiting, fresh>>

Init ==
    /\ serving = [s \in Sessions |-> None]
    /\ waiting = [s \in Sessions |-> <<>>]
    /\ fresh = Sends

(* A send that finds an idle lane and an empty line is served at once. *)
ServeNow(t) ==
    LET s == SessionOf[t] IN
    /\ t \in fresh
    /\ serving[s] = None
    /\ waiting[s] = <<>>
    /\ serving' = [serving EXCEPT ![s] = t]
    /\ fresh' = fresh \ {t}
    /\ UNCHANGED waiting

(* Otherwise it joins the end of the line, if there is room. *)
Join(t) ==
    LET s == SessionOf[t] IN
    /\ t \in fresh
    /\ Len(waiting[s]) < MaxQueued
    /\ waiting' = [waiting EXCEPT ![s] = Append(@, t)]
    /\ fresh' = fresh \ {t}
    /\ UNCHANGED serving

Refuse(t) ==
    /\ t \in fresh
    /\ fresh' = fresh \ {t}
    /\ UNCHANGED <<serving, waiting>>

(* The served send is over; the next one may not have been picked yet. *)
Finish(s) ==
    /\ serving[s] # None
    /\ serving' = [serving EXCEPT ![s] = None]
    /\ UNCHANGED <<waiting, fresh>>

(* The head of the line, and no other send, takes the lane. *)
Handover(s) ==
    /\ waiting[s] # <<>>
    /\ serving' = [serving EXCEPT ![s] = Head(waiting[s])]
    /\ waiting' = [waiting EXCEPT ![s] = Tail(@)]
    /\ UNCHANGED fresh

Drop(s) ==
    /\ waiting[s] # <<>>
    /\ waiting' = [waiting EXCEPT ![s] = <<>>]
    /\ UNCHANGED <<serving, fresh>>

Next ==
    \/ \E t \in Sends : ServeNow(t) \/ Join(t) \/ Refuse(t)
    \/ \E s \in Sessions : Finish(s) \/ Handover(s) \/ Drop(s)

Spec == Init /\ [][Next]_lane
=============================================================================
