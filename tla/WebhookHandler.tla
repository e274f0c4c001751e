--------------------------- MODULE WebhookHandler ----------------------------
(***************************************************************************)
(* The durable webhook handler (webhook/handler.go and                     *)
(* handler_validation.go): concurrent ServeHTTP goroutines, each with its  *)
(* checks, the set-once nonce store and the admission into the durable     *)
(* inbox, racing with calls of CloseContext.                               *)
(*                                                                         *)
(* The Iris sender, the nonce store and the inbox are external. The sender *)
(* signs every attempt afresh, tries again after 503, 408 or no answer,    *)
(* and drops the message at any other status than 200. The network may     *)
(* deliver a request twice. Metrics and logs are left out.                 *)
(***************************************************************************)
EXTENDS Naturals

CONSTANTS Messages,  \* what the sender has to deliver
          Requests,  \* ServeHTTP calls: bounds the attempts and duplicates
          Closers,   \* calls of CloseContext
          FlawsMet   \* what may be wrong with a message

ASSUME MessagesAssumption == Messages # {}

VARIABLES
    flaw,        \* per message: what makes the handler turn it away for good
    verdict,     \* per message: what the sender concluded
    phase,       \* per request: where ServeHTTP is
    msg,         \* per request: the message it carries
    nonce,       \* per request: its nonce
    signed,      \* the sender's signatures so far: nonces are 1..signed
    listening,   \* requests whose answer the sender waits for
    reqDone,     \* requests whose context has ended
    status,      \* per request: the status written, 0 before
    nonces,      \* nonce store: the recorded nonces
    inbox,       \* the messages committed
    closed,      \* Handler.closed, and closedCh is closed
    admissions,  \* the WaitGroup counter
    waiter,      \* the goroutine beginClose starts: none, waiting, finished
    runDone,     \* runCtx is cancelled
    closer,      \* per CloseContext: where it is, or what it returned
    graceDone    \* CloseContext calls whose context has ended

requestVars == <<phase, msg, nonce, listening, reqDone, status>>
senderVars  == <<flaw, verdict, signed>>
closeVars   == <<closed, waiter, runDone, closer, graceDone>>
vars == <<requestVars, senderVars, nonces, inbox, admissions, closeVars>>

\* In the order of the checks: method, headers, body size, signature, media
\* type, JSON and field limits, message id against its header.
Flaws == {"none", "method", "headers", "size", "signature", "mediaType", "json",
          "messageId"}

ASSUME FlawsAssumption == FlawsMet \subseteq Flaws

Phases == {"idle", "accept", "nonce", "decode", "enter", "entered", "admit", "write",
           "done"}

\* The statuses the sender answers with another attempt (Iris webhook retry).
Retried == {503, 408}

TypeOK ==
    /\ flaw \in [Messages -> Flaws]
    /\ verdict \in [Messages -> {"pending", "delivered", "dead"}]
    /\ phase \in [Requests -> Phases]
    /\ msg \in [Requests -> Messages]
    /\ nonce \in [Requests -> Nat]
    /\ signed \in Nat
    /\ listening \subseteq Requests
    /\ reqDone \subseteq Requests
    /\ status \in [Requests -> {0, 200, 400, 401, 405, 408, 413, 415, 503}]
    /\ nonces \subseteq 1..signed
    /\ inbox \subseteq Messages
    /\ closed \in BOOLEAN
    /\ admissions \in Nat
    /\ waiter \in {"none", "waiting", "finished"}
    /\ runDone \in BOOLEAN
    /\ closer \in [Closers -> {"idle", "select", "expired", "nil", "error"}]
    /\ graceDone \subseteq Closers

Init ==
    /\ flaw \in [Messages -> FlawsMet]
    /\ verdict = [m \in Messages |-> "pending"]
    /\ phase = [r \in Requests |-> "idle"]
    /\ msg = [r \in Requests |-> CHOOSE m \in Messages : TRUE]
    /\ nonce = [r \in Requests |-> 0]
    /\ signed = 0
    /\ listening = {}
    /\ reqDone = {}
    /\ status = [r \in Requests |-> 0]
    /\ nonces = {}
    /\ inbox = {}
    /\ closed = FALSE
    /\ admissions = 0
    /\ waiter = "none"
    /\ runDone = FALSE
    /\ closer = [c \in Closers |-> "idle"]
    /\ graceDone = {}

-----------------------------------------------------------------------------
\* ServeHTTP: the answer of a request is decided, and then written.

Goto(r, p) ==
    /\ phase' = [phase EXCEPT ![r] = p]
    /\ UNCHANGED status

Decide(r, code) ==
    /\ phase' = [phase EXCEPT ![r] = "write"]
    /\ status' = [status EXCEPT ![r] = code]

\* acceptTransport up to the signature. Nothing is recorded for a request that
\* fails here. A body may also arrive too slowly, or be cut off.
EarlyStatus ==
    [method |-> 405, headers |-> 401, size |-> 413, signature |-> 401]

Accept(r) ==
    /\ phase[r] = "accept"
    /\ \/ /\ flaw[msg[r]] \in DOMAIN EarlyStatus
          /\ Decide(r, EarlyStatus[flaw[msg[r]]])
          /\ UNCHANGED <<listening, reqDone>>
       \/ /\ flaw[msg[r]] \notin {"method", "headers"}
          /\ Decide(r, 408)
          /\ UNCHANGED <<listening, reqDone>>
       \/ /\ flaw[msg[r]] \notin {"method", "headers"}
          /\ Decide(r, 400)
          /\ listening' = listening \ {r}
          /\ reqDone' = reqDone \cup {r}
       \/ /\ flaw[msg[r]] \notin DOMAIN EarlyStatus
          /\ Goto(r, "nonce")
          /\ UNCHANGED <<listening, reqDone>>
    /\ UNCHANGED <<msg, nonce, senderVars, nonces, inbox, admissions, closeVars>>

\* Faulty variant: a store that is down looks like a replay.
CheckNonceRejects(r) ==
    /\ phase[r] = "nonce"
    /\ \/ nonce[r] \in nonces /\ Decide(r, 401) /\ UNCHANGED nonces
       \/ nonce[r] \notin nonces /\ nonces' = nonces \cup {nonce[r]} /\ Goto(r, "decode")
       \/ nonces' \in {nonces, nonces \cup {nonce[r]}} /\ Decide(r, 401)
    /\ UNCHANGED <<msg, nonce, listening, reqDone, senderVars, inbox, admissions,
                   closeVars>>

\* checkNonce: one atomic set-once round trip. When it fails or takes longer
\* than nonceTimeout, the nonce may have been recorded all the same.
CheckNonce(r) ==
    /\ phase[r] = "nonce"
    /\ \/ nonce[r] \in nonces /\ Decide(r, 401) /\ UNCHANGED nonces
       \/ nonce[r] \notin nonces /\ nonces' = nonces \cup {nonce[r]} /\ Goto(r, "decode")
       \/ nonces' \in {nonces, nonces \cup {nonce[r]}} /\ Decide(r, 503)
    /\ UNCHANGED <<msg, nonce, listening, reqDone, senderVars, inbox, admissions,
                   closeVars>>

\* The media type, decodeAndValidate and reconcileMessageID.
Decode(r) ==
    /\ phase[r] = "decode"
    /\ \/ flaw[msg[r]] = "mediaType" /\ Decide(r, 415)
       \/ flaw[msg[r]] \in {"json", "messageId"} /\ Decide(r, 400)
       \/ flaw[msg[r]] = "none" /\ Goto(r, "enter")
    /\ UNCHANGED <<msg, nonce, listening, reqDone, senderVars, nonces, inbox,
                   admissions, closeVars>>

\* admitMessage under the read lock.
Enter(r) ==
    /\ phase[r] = "enter"
    /\ \/ closed /\ Decide(r, 503) /\ UNCHANGED admissions
       \/ ~closed /\ Goto(r, "entered") /\ admissions' = admissions + 1
    /\ UNCHANGED <<msg, nonce, listening, reqDone, senderVars, nonces, inbox,
                   closeVars>>

\* Faulty variant: the early return skips admissions.Done.
RecheckKeepsCount(r) ==
    /\ phase[r] = "entered"
    /\ IF closed \/ r \in reqDone THEN Decide(r, 503) ELSE Goto(r, "admit")
    /\ UNCHANGED <<msg, nonce, listening, reqDone, senderVars, nonces, inbox,
                   admissions, closeVars>>

\* Outside the lock: closedCh and the request context are looked at once more.
Recheck(r) ==
    /\ phase[r] = "entered"
    /\ IF closed \/ r \in reqDone
       THEN Decide(r, 503) /\ admissions' = admissions - 1
       ELSE Goto(r, "admit") /\ UNCHANGED admissions
    /\ UNCHANGED <<msg, nonce, listening, reqDone, senderVars, nonces, inbox,
                   closeVars>>

\* Faulty variant: every result of the admitter is acknowledged.
AdmitAcknowledged(r) ==
    /\ phase[r] = "admit"
    /\ \/ inbox' = inbox \cup {msg[r]} /\ Decide(r, 200)
       \/ inbox' \in {inbox, inbox \cup {msg[r]}} /\ Decide(r, 200)
    /\ admissions' = admissions - 1
    /\ UNCHANGED <<msg, nonce, listening, reqDone, senderVars, nonces, closeVars>>

\* AdmitMessage commits (or finds the message committed, ErrAlreadyAdmitted),
\* or fails: on an error, admitTimeout, or a cancelled context. A failure may
\* come after the commit.
Admit(r) ==
    /\ phase[r] = "admit"
    /\ \/ inbox' = inbox \cup {msg[r]} /\ Decide(r, 200)
       \/ inbox' \in {inbox, inbox \cup {msg[r]}} /\ Decide(r, 503)
    /\ admissions' = admissions - 1
    /\ UNCHANGED <<msg, nonce, listening, reqDone, senderVars, nonces, closeVars>>

\* WriteHeader, and the sender's conclusion if it still waits.
Write(r) ==
    /\ phase[r] = "write"
    /\ phase' = [phase EXCEPT ![r] = "done"]
    /\ listening' = listening \ {r}
    /\ verdict' = [verdict EXCEPT ![msg[r]] =
          IF r \notin listening \/ status[r] \in Retried THEN @
          ELSE IF status[r] = 200 THEN "delivered" ELSE "dead"]
    /\ UNCHANGED <<msg, nonce, reqDone, status, flaw, signed, nonces, inbox,
                   admissions, closeVars>>

ServeHTTP(r) ==
    \/ Accept(r) \/ CheckNonce(r) \/ Decode(r)
    \/ Enter(r) \/ Recheck(r) \/ Admit(r) \/ Write(r)

-----------------------------------------------------------------------------
\* CloseContext

\* Faulty variant: the goroutine cancels the admissions instead of waiting.
BeginCloseCancels(c) ==
    /\ closer[c] = "idle"
    /\ closed' = TRUE
    /\ waiter' = IF waiter = "none" THEN "waiting" ELSE waiter
    /\ runDone' = TRUE
    /\ closer' = [closer EXCEPT ![c] = "select"]
    /\ UNCHANGED <<requestVars, senderVars, nonces, inbox, admissions, graceDone>>

\* beginClose, once, under the write lock; a second call finds it done.
BeginClose(c) ==
    /\ closer[c] = "idle"
    /\ closed' = TRUE
    /\ waiter' = IF waiter = "none" THEN "waiting" ELSE waiter
    /\ closer' = [closer EXCEPT ![c] = "select"]
    /\ UNCHANGED <<requestVars, senderVars, nonces, inbox, admissions, runDone,
                   graceDone>>

\* Faulty variant: the goroutine does not wait for the admissions.
WaiterImpatient ==
    /\ waiter = "waiting"
    /\ waiter' = "finished"
    /\ runDone' = TRUE
    /\ UNCHANGED <<requestVars, senderVars, nonces, inbox, admissions, closed,
                   closer, graceDone>>

\* The goroutine: admissions.Wait, runCancel, close(closeDone).
Waiter ==
    /\ waiter = "waiting"
    /\ admissions = 0
    /\ waiter' = "finished"
    /\ runDone' = TRUE
    /\ UNCHANGED <<requestVars, senderVars, nonces, inbox, admissions, closed,
                   closer, graceDone>>

\* The select: closeDone, or the end of the grace context, which cancels the
\* admissions and looks at closeDone once more.
CloseReturns(c) ==
    /\ \/ closer[c] = "select" /\ waiter = "finished"
          /\ closer' = [closer EXCEPT ![c] = "nil"]
          /\ UNCHANGED runDone
       \/ closer[c] = "select" /\ c \in graceDone
          /\ runDone' = TRUE
          /\ closer' = [closer EXCEPT ![c] = "expired"]
       \/ closer[c] = "expired"
          /\ closer' = [closer EXCEPT ![c] = IF waiter = "finished" THEN "nil" ELSE "error"]
          /\ UNCHANGED runDone
    /\ UNCHANGED <<requestVars, senderVars, nonces, inbox, admissions, closed,
                   waiter, graceDone>>

GraceEnds(c) ==
    /\ c \notin graceDone
    /\ graceDone' = graceDone \cup {c}
    /\ UNCHANGED <<requestVars, senderVars, nonces, inbox, admissions, closed,
                   waiter, runDone, closer>>

-----------------------------------------------------------------------------
\* The sender and the network.

\* The next attempt for a message, with a nonce of its own.
Send(r, m) ==
    /\ phase[r] = "idle"
    /\ verdict[m] = "pending"
    /\ \A s \in listening : msg[s] # m
    /\ Goto(r, "accept")
    /\ msg' = [msg EXCEPT ![r] = m]
    /\ nonce' = [nonce EXCEPT ![r] = signed + 1]
    /\ signed' = signed + 1
    /\ listening' = listening \cup {r}
    /\ UNCHANGED <<reqDone, flaw, verdict, nonces, inbox, admissions, closeVars>>

\* A request arrives a second time; nobody waits for that answer.
Duplicate(r, s) ==
    /\ phase[r] = "idle"
    /\ phase[s] # "idle"
    /\ Goto(r, "accept")
    /\ msg' = [msg EXCEPT ![r] = msg[s]]
    /\ nonce' = [nonce EXCEPT ![r] = nonce[s]]
    /\ UNCHANGED <<listening, reqDone, senderVars, nonces, inbox, admissions,
                   closeVars>>

\* The sender's timeout, or a lost connection: the server cancels the request.
SenderTimeout(r) ==
    /\ r \in listening
    /\ listening' = listening \ {r}
    /\ reqDone' = reqDone \cup {r}
    /\ UNCHANGED <<phase, msg, nonce, status, senderVars, nonces, inbox,
                   admissions, closeVars>>

-----------------------------------------------------------------------------
\* Every message has its verdict or no request is left to try with.
Finished ==
    /\ \A r \in Requests : phase[r] \in {"idle", "done"}
    /\ \A c \in Closers : closer[c] \in {"nil", "error"}
    /\ UNCHANGED vars

Next ==
    \/ \E r \in Requests :
          \/ ServeHTTP(r)
          \/ SenderTimeout(r)
          \/ \E m \in Messages : Send(r, m)
          \/ \E s \in Requests : Duplicate(r, s)
    \/ \E c \in Closers : BeginClose(c) \/ CloseReturns(c) \/ GraceEnds(c)
    \/ Waiter
    \/ Finished

Spec == Init /\ [][Next]_vars

(***************************************************************************)
(* Goroutines are scheduled. The nonce store and the admitter get contexts *)
(* with a positive limit (nonceTimeout, admitTimeout) and are assumed to   *)
(* honour them; the body is read to its end or until the read timeout of   *)
(* the server that runs the handler. So every step of ServeHTTP is taken.  *)
(* Nobody need close the handler, and a grace context need not end.        *)
(***************************************************************************)
FairSpec ==
    /\ Spec
    /\ \A r \in Requests : WF_vars(ServeHTTP(r))
    /\ \A c \in Closers : WF_vars(CloseReturns(c))
    /\ WF_vars(Waiter)

-----------------------------------------------------------------------------
\* Properties.

Admitting(r) == phase[r] \in {"entered", "admit"}

(***************************************************************************)
(* 200 means durable: the sender takes a message as delivered only when it *)
(* is committed to the inbox, whatever failed or was cancelled on the way. *)
(***************************************************************************)
DeliveredIsCommitted == \A m \in Messages : verdict[m] = "delivered" => m \in inbox

(***************************************************************************)
(* No message is lost to trouble on the handler's side: the sender gives   *)
(* up on a message only for a flaw of the message itself, never for a      *)
(* failing nonce store, a slow body, a timeout or a shutdown (the 503 of   *)
(* hmacAuthUnavailable and errClosed, the 408 of statusForDecodeError).    *)
(* The exception is a request that the network delivered twice: its copy   *)
(* may use the nonce up first. A timestamp outside the window is a flaw of *)
(* the request ("headers"): WebhookAuth says when a signed one is refused. *)
(***************************************************************************)
DeliveredTwice(m) ==
    \E r, s \in Requests :
        r # s /\ msg[r] = m /\ nonce[r] # 0 /\ nonce[r] = nonce[s]

DeadOnlyIfFlawed ==
    \A m \in Messages : verdict[m] = "dead" => flaw[m] # "none" \/ DeliveredTwice(m)

(***************************************************************************)
(* A nil return of CloseContext is final: once the goroutine of beginClose *)
(* has closed closeDone, no admission runs, none starts, and the inbox     *)
(* does not change any more, given an admitter that commits nothing once   *)
(* it has returned.                                                        *)
(***************************************************************************)
QuietAfterClose ==
    [][waiter = "finished" =>
          /\ \A r \in Requests : ~Admitting(r) /\ ~Admitting(r)'
          /\ UNCHANGED inbox]_vars

(***************************************************************************)
(* Shutdown is graceful: while an admission runs, its context is cancelled *)
(* by the handler only after the grace context of some CloseContext call   *)
(* has ended.                                                              *)
(***************************************************************************)
GraceRespected ==
    runDone /\ (\E r \in Requests : Admitting(r)) =>
        \E c \in Closers : c \in graceDone /\ closer[c] # "idle"

(***************************************************************************)
(* Nobody waits for ever: every request that arrives is answered, whether  *)
(* or not the handler is being closed, and every CloseContext call         *)
(* returns, even with a context that never ends, since no new admission    *)
(* starts and each admission that runs is counted down.                    *)
(***************************************************************************)
EverybodyReturns ==
    /\ \A r \in Requests : phase[r] # "idle" ~> phase[r] = "done"
    /\ \A c \in Closers : closer[c] # "idle" ~> closer[c] \in {"nil", "error"}
=============================================================================
