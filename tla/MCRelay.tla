------------------------------ MODULE MCRelay ------------------------------
(***************************************************************************)
(* A small instance of the router and of the relays on it, all sends on    *)
(* one session: in a behaviour of "lane" three sends that are not relayed  *)
(* and a session that comes and goes, in one of "relay" two sends of a     *)
(* session that is there at first, one of them relayed.                    *)
(***************************************************************************)
EXTENDS Relay

CONSTANTS t1, t2, t3, s1, o1

VARIABLE part

OneSession == [t \in Sends |-> s1]

laneVars == <<part, allVars>>

LaneInit ==
    /\ RInit
    /\ part \in {"lane", "relay"}
    /\ part = "relay" => discovered = Sessions

LaneStep == part = "lane" /\ Next /\ UNCHANGED <<part, relayVars>>

RelayStep ==
    /\ part = "relay"
    /\ RNext
    /\ pc'[t3] = "new" /\ discovered' \subseteq discovered
    /\ UNCHANGED part

LaneNext == LaneStep \/ RelayStep

\* The fairness of Router and of Relay, for the behaviours of each.
LaneFair ==
    /\ \A t \in Sends :
         /\ WF_vars(part = "lane" /\ Advance(t))
         /\ t # t3 => WF_allVars(part = "relay" /\ (TurnStep(t) \/ (Silent(t) /\ ~Check(t) /\ UNCHANGED relayVars)))
    /\ \A c \in Relayed : /\ WF_allVars(part = "relay" /\ Collect(c))
                          /\ WF_allVars(part = "relay" /\ Expire(c))

LaneSpec == LaneInit /\ [][LaneNext]_laneVars /\ LaneFair

(* ---------------- properties ---------------- *)
\* EverySendSettles of the lane and EveryRelayAnswered of the relays: no send waits
\* forever, and a relayed one is rejected, answered, or given up at the ceiling.
SendsSettle ==
    []<>(IF part = "lane" THEN \A t \in Sends : Settled(t) ELSE \A c \in Relayed : Answered(c))
=============================================================================
