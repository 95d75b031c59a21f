---------------------------- MODULE SessionStart ----------------------------
(***************************************************************************)
(* The start of one session (router: StartSession, CreateSession,          *)
(* CreateSessionRelayed): the backend assigns the id, the busy token and   *)
(* the creating overlay make it addressable until discovery has the file,  *)
(* its first turn streams to the broker and, for the two forms that want   *)
(* a reply, to their caller.                                               *)
(***************************************************************************)
EXTENDS Integers, Sequences, SequencesExt

CONSTANT MaxParts     \* bound: events of the first turn

Forms == {"start", "blocking", "relayed"}

VARIABLES form,       \* how the session is started
          pc,         \* the creating call: "new", "started", "registered", "failed"
          backend,    \* events the agent's stream still has: <<>> when it is at its end
          open,       \* the stream is open
          token,      \* activeSend holds the first turn's token
          creating,   \* the overlay entry: "none", "running", "idle"
          ondisk,     \* the session's file is written
          known,      \* discovery lists it
          expired,    \* the wait's context has ended
          buf,        \* the reply collected
          seen,       \* history: text parts published to the broker
          answer      \* what the caller was told: "none", "id", "reply", "partial", "error"

startVars == <<form, pc, backend, open, token, creating, ondisk, known, expired, buf, seen, answer>>

Events == {"text", "tool", "exit"}
Streams == UNION {[1..n -> Events] : n \in 0..MaxParts}

Init ==
    /\ form \in Forms
    /\ pc = "new" /\ backend \in Streams /\ open = FALSE
    /\ token = FALSE /\ creating = "none" /\ ondisk = FALSE /\ known = FALSE
    /\ expired = FALSE /\ buf = <<>> /\ seen = <<>> /\ answer = "none"

\* validateCreateInputs, resolveCreateBackend and a refused start are told to the caller.
Refuse ==
    /\ pc = "new"
    /\ pc' = "failed" /\ answer' = "error"
    /\ UNCHANGED <<form, backend, open, token, creating, ondisk, known, expired, buf, seen>>

\* The backend's Start returns the id and the stream.
BackendStart ==
    /\ pc = "new"
    /\ pc' = "started" /\ open' = TRUE
    /\ UNCHANGED <<form, backend, token, creating, ondisk, known, expired, buf, seen, answer>>

\* beginNewSession registers the token and the overlay in one section.
Register ==
    /\ pc = "started"
    /\ pc' = "registered" /\ token' = TRUE /\ creating' = "running"
    /\ answer' = IF form = "blocking" THEN answer ELSE "id"
    /\ UNCHANGED <<form, backend, open, ondisk, known, expired, buf, seen>>

\* The agent writes its log, and discovery handles the event.
WriteLog ==
    /\ open /\ ~ondisk
    /\ ondisk' = TRUE
    /\ UNCHANGED <<form, pc, backend, open, token, creating, known, expired, buf, seen, answer>>
Ingest ==
    /\ ondisk /\ ~known
    /\ known' = TRUE
    /\ UNCHANGED <<form, pc, backend, open, token, creating, ondisk, expired, buf, seen, answer>>

\* CreateSession's timeout, the relay's ceiling; StartSession waits for good.
Expire ==
    /\ form # "start" /\ pc = "registered" /\ open /\ ~expired
    /\ expired' = TRUE
    /\ UNCHANGED <<form, pc, backend, open, token, creating, ondisk, known, buf, seen, answer>>

\* A slip of collect: the tools' parts are collected as well.
CollectsAll(ev) == form # "start"
Collects(ev) == form # "start" /\ ev = "text"

\* publishStream of one event; only StartSession clears the busy bit on the exit.
Stream ==
    LET ev == Head(backend) IN
    /\ pc = "registered" /\ open /\ backend # <<>>
    /\ backend' = Tail(backend)
    /\ seen' = IF ev = "text" THEN Append(seen, Len(backend)) ELSE seen
    /\ buf' = IF Collects(ev) THEN Append(buf, Len(backend)) ELSE buf
    /\ IF ev = "exit" /\ form = "start" /\ token
       THEN token' = FALSE /\ creating' = IF creating = "none" THEN "none" ELSE "idle"
       ELSE UNCHANGED <<token, creating>>
    /\ UNCHANGED <<form, pc, open, ondisk, known, expired, answer>>

\* A slip of releaseSend: the overlay entry stays behind.
releaseSendKeeps == token' = FALSE /\ UNCHANGED creating

\* releaseSend of the first turn: token and overlay go.
releaseSend == token' = FALSE /\ creating' = "none"

Replied ==
    IF form = "start" THEN answer
    ELSE IF expired /\ buf = <<>> THEN "error" ELSE IF expired THEN "partial" ELSE "reply"

\* The stream closes at its end, or because the wait's context has ended; the
\* goroutine releases the send and the caller has its reply.
Close ==
    /\ pc = "registered" /\ open /\ (backend = <<>> \/ expired)
    /\ open' = FALSE
    /\ releaseSend
    /\ answer' = Replied
    /\ UNCHANGED <<form, pc, backend, ondisk, known, expired, buf, seen>>

Next == \/ Refuse \/ BackendStart \/ Register \/ WriteLog \/ Ingest \/ Expire \/ Stream \/ Close

Fairness == WF_startVars(Stream \/ Close)

Spec == Init /\ [][Next]_startVars /\ Fairness

(* ---------------- the views of it ---------------- *)
\* GetSession: discovery's entry, or the overlay's.
GetSession == IF known THEN "listed" ELSE IF creating # "none" THEN "creating" ELSE "none"

\* listSessions: an overlay entry is shown while discovery has none.
listSessions == (IF known THEN <<"listed">> ELSE <<>>)
                  \o (IF creating # "none" /\ ~known THEN <<"creating">> ELSE <<>>)

Status == IF token THEN "running" ELSE IF open THEN "live" ELSE "idle"

(* ---------------- properties ---------------- *)
\* From the answer to its caller on, the id of a new session resolves and is listed
\* once, as running while its first turn is; after that turn it is discovery's,
\* which has it when the log was ingested.  Every caller is told how it ended, with
\* exactly the text that was streamed.
StartIsServed ==
    /\ answer \in {"id", "reply", "partial"} /\ (open \/ known) => GetSession # "none"
    /\ Len(listSessions) <= 1
    /\ ~open => creating = "none" /\ ~token
    /\ creating = "running" => token
    /\ answer \in {"reply", "partial"} => buf = seen
    /\ answer = "error" /\ pc # "failed" => buf = <<>> /\ expired

CallersAreTold == (pc = "registered") ~> (~open /\ answer # "none")
=============================================================================
