----------------------------- MODULE ChatStream -----------------------------
(***************************************************************************)
(* The event stream of one chat (web/mainchat.go: appendChat,              *)
(* broadcastChat, subscribeChat, handleMainChatEvents and the list of      *)
(* messages): writers that store and then broadcast, subscribers whose     *)
(* channel is bounded, and the page that opens the stream, lists, reads.   *)
(***************************************************************************)
EXTENDS Integers, Sequences, SequencesExt

CONSTANTS Writers, Pages,
          MaxMessages,      \* bound: messages of the chat
          SubBuffer         \* the buffer of a subscriber

VARIABLES msgs,       \* the chat's file: the kind of each message
          toSend,     \* what each writer has stored and not yet broadcast
          stream,     \* the subscriptions: "none", "opened", "live", "evicted"
          frames,     \* the channel of each
          page        \* history: the messages the page shows

streamVars == <<msgs, toSend, stream, frames, page>>

Nothing == 0

Init ==
    /\ msgs = <<>> /\ toSend = [w \in Writers |-> Nothing]
    /\ stream = [p \in Pages |-> "none"]
    /\ frames = [p \in Pages |-> <<>>] /\ page = [p \in Pages |-> {}]

\* appendChat stores first: a message that is not stored is never shown.  Tool
\* evidence goes to the store alone.
Store(w, kind) ==
    /\ toSend[w] = Nothing /\ Len(msgs) < MaxMessages
    /\ msgs' = Append(msgs, kind)
    /\ toSend' = [toSend EXCEPT ![w] = IF kind = "tool" THEN Nothing ELSE Len(msgs) + 1]
    /\ UNCHANGED <<stream, frames, page>>

\* A slip of full: a subscriber that is behind misses the frame.
fullNever(p) == FALSE
full(p) == Len(frames[p]) = SubBuffer

Subscribed(p) == stream[p] \in {"opened", "live"}

\* broadcastChat: a full subscriber is force-closed instead of skipped.
Broadcast(w) ==
    /\ toSend[w] # Nothing
    /\ frames' = [p \in Pages |-> IF Subscribed(p) /\ Len(frames[p]) < SubBuffer
                                  THEN Append(frames[p], toSend[w]) ELSE frames[p]]
    /\ stream' = [p \in Pages |-> IF Subscribed(p) /\ full(p) THEN "evicted" ELSE stream[p]]
    /\ toSend' = [toSend EXCEPT ![w] = Nothing]
    /\ UNCHANGED <<msgs, page>>

\* The subscription registers before the headers are flushed.
Open(p) ==
    /\ stream[p] = "none"
    /\ stream' = [stream EXCEPT ![p] = "opened"]
    /\ UNCHANGED <<msgs, toSend, frames, page>>

\* handleListMainChatMessages: tool events are filtered out.
visible == {i \in DOMAIN msgs : msgs[i] # "tool"}

\* The page lists the messages on every open.
List(p) ==
    /\ stream[p] = "opened"
    /\ stream' = [stream EXCEPT ![p] = "live"]
    /\ page' = [page EXCEPT ![p] = visible]
    /\ UNCHANGED <<msgs, toSend, frames>>

\* A frame is written to the response; behind an eviction the rest is drained.
Receive(p) ==
    /\ stream[p] \in {"live", "evicted"} /\ frames[p] # <<>>
    /\ page' = [page EXCEPT ![p] = @ \cup {Head(frames[p])}]
    /\ frames' = [frames EXCEPT ![p] = Tail(@)]
    /\ UNCHANGED <<msgs, toSend, stream>>

\* The request ends: the client went away, or the channel is closed and drained.
End(p) ==
    /\ Subscribed(p) \/ (stream[p] = "evicted" /\ frames[p] = <<>>)
    /\ stream' = [stream EXCEPT ![p] = "none"] /\ frames' = [frames EXCEPT ![p] = <<>>]
    /\ page' = [page EXCEPT ![p] = {}]
    /\ UNCHANGED <<msgs, toSend>>

Next ==
    \/ \E w \in Writers : Broadcast(w) \/ \E kind \in {"shown", "tool"} : Store(w, kind)
    \/ \E p \in Pages : Open(p) \/ List(p) \/ Receive(p) \/ End(p)

Spec == Init /\ [][Next]_streamVars

(* ---------------- properties ---------------- *)
\* "Anything after that fetch arrives either in it or on this stream": what a live
\* page does not show is in its channel or still with a writer, and it shows no
\* message the store does not have.
PageIsWhole ==
    \A p \in Pages :
      /\ stream[p] = "live" =>
           visible \subseteq page[p] \cup ToSet(frames[p]) \cup {toSend[w] : w \in Writers}
      /\ page[p] \cup ToSet(frames[p]) \subseteq visible
=============================================================================
