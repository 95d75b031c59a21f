-------------------------------- MODULE Hook --------------------------------
(***************************************************************************)
(* internal/hook/hook.go: permission prompts and questions of the agents.  *)
(* A request blocks in Submit until somebody answers it through Respond,   *)
(* its own context ends, or the session's blanket auto-approve settles it. *)
(* Requests of the same tool call share one decision (dedup), which lives  *)
(* for a minute after it was taken.  Auto-approve is persisted.            *)
(*                                                                         *)
(* Each critical section (dedupMu, mu, autoMu) and each channel operation  *)
(* is one step.                                                            *)
(***************************************************************************)
EXTENDS Naturals, FiniteSets

CONSTANTS
    Requests,   \* calls of Submit
    Calls,      \* tool calls: a session and a tool use id
    CallOf,     \* the tool call of each request, None without a tool use id
    Sessions,
    SessionOf,  \* the session of each request
    Questions,  \* requests whose tool is AskUserQuestion
    AllowAlways,\* requests whose backend offers a repeated approval
    Responders, \* calls of Respond
    MaxToggles, \* bound: calls of SetAutoApprove
    None

ASSUME HookAssumption ==
    /\ CallOf \in [Requests -> Calls \cup {None}]
    /\ SessionOf \in [Requests -> Sessions]
    /\ \A r, q \in Requests : CallOf[r] # None /\ CallOf[r] = CallOf[q] => SessionOf[r] = SessionOf[q]
    /\ Questions \subseteq Requests
    /\ AllowAlways \subseteq Requests
    /\ MaxToggles \in Nat
    /\ None \notin Requests \cup Calls \cup {"allow", "always", "deny", "error"}

VARIABLES
    pc,         \* where each Submit stands
    owner,      \* the request whose decision a joined request waits for
    dedup,      \* dedup: the request that decides for a tool call
    pending,    \* pending
    answer,     \* the response channel of each entry, of capacity one
    result,     \* what each Submit returned
    ended,      \* requests whose context has ended
    call,       \* the Respond calls
    auto,       \* autoApprove
    disk,       \* the file behind it
    wanted,     \* history: what the user last chose
    unsaved,    \* history: a write of the file has failed
    toggles,    \* history: SetAutoApprove calls so far
    settled     \* history: requests auto-approve settled

autoVars == <<auto, disk, wanted, unsaved, toggles>>
vars == <<pc, owner, dedup, pending, answer, result, ended, call, autoVars, settled>>

Decisions == {"allow", "always", "deny"}
NoCall == [at |-> "new", req |-> None, says |-> "deny"]

Init ==
    /\ pc = [r \in Requests |-> "new"]
    /\ owner = [r \in Requests |-> None]
    /\ dedup = [c \in Calls |-> None]
    /\ pending = {}
    /\ answer = [r \in Requests |-> None]
    /\ result = [r \in Requests |-> None]
    /\ ended = {}
    /\ call = [p \in Responders |-> NoCall]
    /\ auto = {}
    /\ disk = {}
    /\ wanted = {}
    /\ unsaved = FALSE
    /\ toggles = 0
    /\ settled = {}

-----------------------------------------------------------------------------
(* Submit                                                                  *)

Go(r, where) == pc' = [pc EXCEPT ![r] = where]

\* The first request of a tool call decides; one without an id decides for
\* itself.
SubmitFirst(r) ==
    /\ pc[r] = "new"
    /\ CallOf[r] # None => dedup[CallOf[r]] = None
    /\ dedup' = [c \in Calls |-> IF c = CallOf[r] THEN r ELSE dedup[c]]
    /\ Go(r, "deciding")
    /\ UNCHANGED <<owner, pending, answer, result, ended, call, autoVars, settled>>

SubmitJoin(r) ==
    /\ pc[r] = "new"
    /\ CallOf[r] # None
    /\ dedup[CallOf[r]] # None
    /\ owner' = [owner EXCEPT ![r] = dedup[CallOf[r]]]
    /\ Go(r, "joined")
    /\ UNCHANGED <<dedup, pending, answer, result, ended, call, autoVars, settled>>

\* A slip of QuickDecide: questions too.
QuickDecideAll(r) == SessionOf[r] \in auto

\* QuickDecide: a question is never settled without an answer.
QuickDecide(r) == r \notin Questions /\ SessionOf[r] \in auto

SettleQuick(r) ==
    /\ pc[r] = "deciding"
    /\ QuickDecide(r)
    /\ result' = [result EXCEPT ![r] = "allow"]
    /\ settled' = settled \cup {r}
    /\ Go(r, "leaving")
    /\ UNCHANGED <<owner, dedup, pending, answer, ended, call, autoVars>>

AskUser(r) ==
    /\ pc[r] = "deciding"
    /\ ~QuickDecide(r)
    /\ Go(r, "asking")
    /\ UNCHANGED <<owner, dedup, pending, answer, result, ended, call, autoVars, settled>>

\* The entry becomes visible; the subscribers are notified.
Register(r) ==
    /\ pc[r] = "asking"
    /\ pending' = pending \cup {r}
    /\ Go(r, "waiting")
    /\ UNCHANGED <<owner, dedup, answer, result, ended, call, autoVars, settled>>

TakeAnswer(r) ==
    /\ pc[r] = "waiting"
    /\ answer[r] # None
    /\ result' = [result EXCEPT ![r] = answer[r]]
    /\ answer' = [answer EXCEPT ![r] = None]
    /\ Go(r, "leaving")
    /\ UNCHANGED <<owner, dedup, pending, ended, call, autoVars, settled>>

\* A slip of Abandon: an abandoned prompt is waved through.
AbandonAllowed(r) ==
    /\ pc[r] = "waiting"
    /\ r \in ended
    /\ result' = [result EXCEPT ![r] = "allow"]
    /\ Go(r, "leaving")
    /\ UNCHANGED <<owner, dedup, pending, answer, ended, call, autoVars, settled>>

\* Both may be ready: the select takes either.
Abandon(r) ==
    /\ pc[r] = "waiting"
    /\ r \in ended
    /\ result' = [result EXCEPT ![r] = "error"]
    /\ Go(r, "leaving")
    /\ UNCHANGED <<owner, dedup, pending, answer, ended, call, autoVars, settled>>

\* The deferred delete, then close(d.done).
Leave(r) ==
    /\ pc[r] = "leaving"
    /\ pending' = pending \ {r}
    /\ Go(r, "returned")
    /\ UNCHANGED <<owner, dedup, answer, result, ended, call, autoVars, settled>>

\* A slip of JoinDone: it looks the decision up again.
JoinDoneByKey(r) ==
    /\ pc[r] = "joined"
    /\ dedup[CallOf[r]] # None
    /\ pc[dedup[CallOf[r]]] = "returned"
    /\ result' = [result EXCEPT ![r] = result[dedup[CallOf[r]]]]
    /\ Go(r, "returned")
    /\ UNCHANGED <<owner, dedup, pending, answer, ended, call, autoVars, settled>>

JoinDone(r) ==
    /\ pc[r] = "joined"
    /\ pc[owner[r]] = "returned"
    /\ result' = [result EXCEPT ![r] = result[owner[r]]]
    /\ Go(r, "returned")
    /\ UNCHANGED <<owner, dedup, pending, answer, ended, call, autoVars, settled>>

JoinAbandon(r) ==
    /\ pc[r] = "joined"
    /\ r \in ended
    /\ result' = [result EXCEPT ![r] = "error"]
    /\ Go(r, "returned")
    /\ UNCHANGED <<owner, dedup, pending, answer, ended, call, autoVars, settled>>

\* A slip of Forget: the entry goes while its decision is still open.
ForgetOpen(c) ==
    /\ dedup[c] # None
    /\ dedup' = [dedup EXCEPT ![c] = None]
    /\ UNCHANGED <<pc, owner, pending, answer, result, ended, call, autoVars, settled>>

\* time.AfterFunc(time.Minute)
Forget(c) ==
    /\ dedup[c] # None
    /\ pc[dedup[c]] = "returned"
    /\ dedup' = [dedup EXCEPT ![c] = None]
    /\ UNCHANGED <<pc, owner, pending, answer, result, ended, call, autoVars, settled>>

\* The backend withdraws its request, or its process dies.
EndContext(r) ==
    /\ pc[r] \notin {"new", "returned"}
    /\ r \notin ended
    /\ ended' = ended \cup {r}
    /\ UNCHANGED <<pc, owner, dedup, pending, answer, result, call, autoVars, settled>>

-----------------------------------------------------------------------------
(* Respond: the entry is looked up under the lock, the decision is offered  *)
(* to its channel outside of it.                                            *)

Valid(r, d) == d = "always" => r \in AllowAlways

Lookup(p, r, d) ==
    /\ call[p].at = "new"
    /\ r \in pending
    /\ call' = [call EXCEPT ![p] = [at |-> IF Valid(r, d) THEN "found" ELSE "refused",
                                    req |-> r, says |-> d]]
    /\ UNCHANGED <<pc, owner, dedup, pending, answer, result, ended, autoVars, settled>>

\* A slip of Offer: the later answer replaces the one not read yet.
OfferOver(p) ==
    /\ call[p].at = "found"
    /\ answer' = [answer EXCEPT ![call[p].req] = call[p].says]
    /\ call' = [call EXCEPT ![p].at = IF answer[call[p].req] = None THEN "accepted" ELSE "refused"]
    /\ UNCHANGED <<pc, owner, dedup, pending, result, ended, autoVars, settled>>

Offer(p) ==
    /\ call[p].at = "found"
    /\ IF answer[call[p].req] = None
       THEN /\ answer' = [answer EXCEPT ![call[p].req] = call[p].says]
            /\ call' = [call EXCEPT ![p].at = "accepted"]
       ELSE /\ call' = [call EXCEPT ![p].at = "refused"]
            /\ UNCHANGED answer
    /\ UNCHANGED <<pc, owner, dedup, pending, result, ended, autoVars, settled>>

-----------------------------------------------------------------------------
(* Auto-approve                                                            *)

\* Temp file and rename, best effort: a write that fails leaves the old file.
Persist(saved) == IF saved THEN disk' = auto' /\ unsaved' = FALSE
                  ELSE disk' = disk /\ unsaved' = TRUE

\* A slip of SetAutoApprove: the file is written before the map changes.
SetAutoApproveLate(s, saved) ==
    /\ toggles < MaxToggles
    /\ toggles' = toggles + 1
    /\ auto' = IF s \in auto THEN auto \ {s} ELSE auto \cup {s}
    /\ wanted' = auto'
    /\ IF saved THEN disk' = auto /\ unsaved' = FALSE
                ELSE disk' = disk /\ unsaved' = TRUE
    /\ UNCHANGED <<pc, owner, dedup, pending, answer, result, ended, call, settled>>

SetAutoApprove(s, saved) ==
    /\ toggles < MaxToggles
    /\ toggles' = toggles + 1
    /\ auto' = IF s \in auto THEN auto \ {s} ELSE auto \cup {s}
    /\ wanted' = auto'
    /\ Persist(saved)
    /\ UNCHANGED <<pc, owner, dedup, pending, answer, result, ended, call, settled>>

\* usher restarts: what waited is gone with its callers, the flags are read
\* from the file.
Restart ==
    /\ pc' = [r \in Requests |-> IF pc[r] = "new" THEN "new" ELSE "returned"]
    /\ result' = [r \in Requests |->
                    IF pc[r] \in {"new", "returned"} THEN result[r] ELSE "error"]
    /\ ended' = {r \in Requests : pc[r] \notin {"new", "returned"}} \cup ended
    /\ owner' = [r \in Requests |-> None]
    /\ dedup' = [c \in Calls |-> None]
    /\ pending' = {}
    /\ answer' = [r \in Requests |-> None]
    /\ call' = [p \in Responders |->
                  IF call[p].at = "found" THEN [call[p] EXCEPT !.at = "refused"] ELSE call[p]]
    /\ auto' = disk
    /\ UNCHANGED <<disk, wanted, unsaved, toggles, settled>>

-----------------------------------------------------------------------------
Step(r) ==
    \/ SettleQuick(r) \/ AskUser(r) \/ Register(r) \/ TakeAnswer(r)
    \/ Abandon(r) \/ Leave(r) \/ JoinDone(r) \/ JoinAbandon(r)

Next ==
    \/ \E r \in Requests : SubmitFirst(r) \/ SubmitJoin(r) \/ Step(r) \/ EndContext(r)
    \/ \E c \in Calls : Forget(c)
    \/ \E p \in Responders : \/ \E r \in Requests, d \in Decisions : Lookup(p, r, d)
                             \/ Offer(p)
    \/ \E s \in Sessions, saved \in BOOLEAN : SetAutoApprove(s, saved)
    \/ Restart

Spec == Init /\ [][Next]_vars

\* Goroutines run.  Nobody has to answer, and no context has to end.
Fairness == /\ \A r \in Requests : WF_vars(Step(r))
            /\ \A p \in Responders : WF_vars(Offer(p))

FairSpec == Spec /\ Fairness

-----------------------------------------------------------------------------
(* Properties                                                              *)

PCs == {"new", "deciding", "asking", "waiting", "leaving", "joined", "returned"}

\* The manager's state has the shape its Go declarations give it.
TypeOK ==
    /\ pc \in [Requests -> PCs]
    /\ owner \in [Requests -> Requests \cup {None}]
    /\ dedup \in [Calls -> Requests \cup {None}]
    /\ pending \subseteq Requests
    /\ answer \in [Requests -> Decisions \cup {None}]
    /\ result \in [Requests -> Decisions \cup {"error", None}]
    /\ ended \subseteq Requests
    /\ call \in [Responders -> [at : {"new", "found", "accepted", "refused"},
                                req : Requests \cup {None}, says : Decisions]]
    /\ auto \subseteq Sessions
    /\ disk \subseteq Sessions
    /\ wanted \subseteq Sessions
    /\ unsaved \in BOOLEAN
    /\ toggles \in 0..MaxToggles
    /\ settled \subseteq Requests

Granted(r) == result[r] \in {"allow", "always"}

SameCall(r, q) == r = q \/ (CallOf[r] # None /\ CallOf[r] = CallOf[q])

\* Nothing is allowed that nobody allowed: a granted tool call was answered so
\* by a responder whose Respond succeeded, for this request or the one that
\* decided its call, or the session was on auto-approve when it was decided.
GrantsAreBacked ==
    \A r \in Requests : Granted(r) =>
        \E q \in Requests :
            /\ SameCall(r, q)
            /\ \/ q \in settled
               \/ \E p \in Responders : /\ call[p].req = q
                                        /\ call[p].at = "accepted"
                                        /\ call[p].says = result[r]

\* Blanket approval never answers a question, and a repeated approval is only
\* given where the backend offered one.
GrantsInScope ==
    /\ settled \cap Questions = {}
    /\ \A r \in Requests : answer[r] = "always" => r \in AllowAlways

\* While one decision on a tool call is open, no second prompt for the call is
\* put before the user (TestManagerDeduplicatesToolUseID).
OnePromptPerCall ==
    \A r, q \in pending : CallOf[r] # None /\ CallOf[r] = CallOf[q] => r = q

\* Who is shown to the user waits for the user, and who waits is shown.
PendingIsExact ==
    /\ \A r \in Requests : pc[r] = "waiting" => r \in pending
    /\ \A r \in pending : pc[r] \in {"waiting", "leaving"}

\* The trust boundary survives restarts, as long as the file could be written.
AutoApproveKept == ~unsaved => auto = wanted

\* A request that is answered, or whose context ends, does return; so does one
\* that waits for such a decision.  A request is owed its return once and until
\* it comes: there are finitely many, so all come if ever again none is owed.
Ready(r) == r \in ended \/ pc[r] = "leaving" \/ (pc[r] = "waiting" /\ answer[r] # None)
Owed(r) == /\ pc[r] \notin {"new", "returned"}
           /\ Ready(r) \/ (pc[r] = "joined" /\ (pc[owner[r]] = "returned" \/ Ready(owner[r])))
SubmitReturns == []<>(\A r \in Requests : ~Owed(r))

\* Respond "returns an error if the ID is unknown or the entry has already been
\* resolved": of several answers to an interaction one is accepted.
OneAnswerAccepted ==
    \A p, q \in Responders :
        /\ p # q
        /\ call[p].at = "accepted"
        /\ call[q].at = "accepted"
        => call[p].req # call[q].req

-----------------------------------------------------------------------------
(* The inductive invariant behind them (ClaudeProofs.tla).                 *)

Deciding == {"deciding", "asking", "waiting", "leaving"}

\* A joined request waits for one of its own call, and the one that decides a
\* call is the one dedup names.
JoinsItsCall ==
    \A r \in Requests :
        /\ pc[r] = "joined" => owner[r] # None
        /\ owner[r] # None => SameCall(r, owner[r])

DedupExact ==
    /\ \A c \in Calls : dedup[c] # None => CallOf[dedup[c]] = c
    /\ \A r \in Requests : pc[r] \in Deciding /\ CallOf[r] # None => dedup[CallOf[r]] = r

Backed(r, d) ==
    \E p \in Responders : call[p].req = r /\ call[p].at = "accepted" /\ call[p].says = d

AnswersBacked ==
    /\ \A r \in Requests : answer[r] # None => Backed(r, answer[r])
    /\ \A p \in Responders :
         call[p].at \in {"found", "accepted"} =>
            call[p].req \in Requests /\ Valid(call[p].req, call[p].says)

SavedIsWanted == ~unsaved => disk = wanted

HookInv ==
    /\ TypeOK
    /\ PendingIsExact
    /\ JoinsItsCall
    /\ DedupExact
    /\ AnswersBacked
    /\ GrantsInScope
    /\ GrantsAreBacked
    /\ SavedIsWanted
    /\ AutoApproveKept
=============================================================================
