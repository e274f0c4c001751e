------------------------ MODULE WebhookHandlerProofs -------------------------
(***************************************************************************)
(* Proofs about WebhookHandler for any sets of messages, requests and      *)
(* CloseContext calls. No set need be finite: the admissions that run at a *)
(* time are finitely many because each was counted in.                     *)
(*                                                                         *)
(* The inductive invariant has four parts: the types the argument needs,   *)
(* the WaitGroup and the shutdown, the use of the nonces, and what the     *)
(* answer of a request says about its message.                             *)
(***************************************************************************)
EXTENDS WebhookHandler, FiniteSetTheorems, TLAPS

Types ==
    /\ flaw \in [Messages -> Flaws]
    /\ verdict \in [Messages -> {"pending", "delivered", "dead"}]
    /\ phase \in [Requests -> Phases]
    /\ msg \in [Requests -> Messages]
    /\ nonce \in [Requests -> Nat]
    /\ signed \in Nat
    /\ status \in [Requests -> Nat]
    /\ closer \in [Closers -> {"idle", "select", "expired", "nil", "error"}]

\* The admissions that run: between admissions.Add and admissions.Done.
Active == {r \in Requests : Admitting(r)}

\* The WaitGroup counts the admissions that run. closeDone is closed only after
\* the handler, and without any of them; runCtx is cancelled only then or when
\* a grace context has ended.
CloseInv ==
    /\ IsFiniteSet(Active)
    /\ admissions = Cardinality(Active)
    /\ waiter # "none" => closed
    /\ waiter = "finished" => Active = {}
    /\ runDone => \/ waiter = "finished"
                  \/ \E c \in Closers : c \in graceDone /\ closer[c] # "idle"

\* Another request carries the nonce of r.
Copied(r) == \E s \in Requests : s # r /\ nonce[s] = nonce[r]

\* A nonce is signed before it is sent or recorded, and the one of a request
\* that has not reached the store is recorded only through a copy.
NonceInv ==
    /\ nonces \subseteq 1..signed
    /\ \A r \in Requests :
          /\ nonce[r] <= signed
          /\ phase[r] = "idle" <=> nonce[r] = 0
          /\ phase[r] = "idle" => r \notin listening
          /\ phase[r] \in {"accept", "nonce"} /\ nonce[r] \in nonces => Copied(r)

\* The answer decided for a request: 200 is a commit, and a status the sender
\* gives up at has its reason, as far as the sender still waits.
Answer(r) ==
    phase[r] = "write" =>
        /\ status[r] = 200 => msg[r] \in inbox
        /\ r \in listening /\ status[r] \notin Retried \cup {200} =>
              flaw[msg[r]] # "none" \/ Copied(r)

AnswerInv ==
    /\ \A r \in Requests : Answer(r)
    /\ DeliveredIsCommitted
    /\ DeadOnlyIfFlawed

IInv == Types /\ CloseInv /\ NonceInv /\ AnswerInv

-----------------------------------------------------------------------------
(***************************************************************************)
(* Every step of ServeHTTP, of CloseContext, of the sender and of the      *)
(* network keeps the types.                                                *)
(***************************************************************************)
LEMMA TypesStep == Types /\ [Next]_vars => Types'
<1> SUFFICES ASSUME Types, [Next]_vars PROVE Types'
    OBVIOUS
<1> USE DEF Types, Phases, Goto, Decide, requestVars, senderVars, closeVars
<1>1. ASSUME NEW r \in Requests, Accept(r) PROVE Types'
    <2>1. \A f \in DOMAIN EarlyStatus : EarlyStatus[f] \in Nat
        BY DEF EarlyStatus
    <2> QED
        BY <1>1, <2>1 DEF Accept
<1>2. ASSUME NEW r \in Requests, CheckNonce(r) PROVE Types'
    BY <1>2 DEF CheckNonce
<1>3. ASSUME NEW r \in Requests, Decode(r) PROVE Types'
    BY <1>3 DEF Decode
<1>4. ASSUME NEW r \in Requests, Enter(r) PROVE Types'
    BY <1>4 DEF Enter
<1>5. ASSUME NEW r \in Requests, Recheck(r) PROVE Types'
    BY <1>5 DEF Recheck
<1>6. ASSUME NEW r \in Requests, Admit(r) PROVE Types'
    BY <1>6 DEF Admit
<1>7. ASSUME NEW r \in Requests, Write(r) PROVE Types'
    BY <1>7 DEF Write
<1>8. ASSUME NEW r \in Requests, SenderTimeout(r) PROVE Types'
    BY <1>8 DEF SenderTimeout
<1>9. ASSUME NEW r \in Requests, NEW m \in Messages, Send(r, m) PROVE Types'
    BY <1>9 DEF Send
<1>10. ASSUME NEW r \in Requests, NEW s \in Requests, Duplicate(r, s) PROVE Types'
    BY <1>10 DEF Duplicate
<1>11. ASSUME NEW c \in Closers, BeginClose(c) \/ CloseReturns(c) \/ GraceEnds(c)
       PROVE  Types'
    BY <1>11 DEF BeginClose, CloseReturns, GraceEnds
<1>12. ASSUME Waiter PROVE Types'
    BY <1>12 DEF Waiter
<1>13. ASSUME UNCHANGED vars PROVE Types'
    BY <1>13 DEF vars
<1> QED
    BY <1>1, <1>2, <1>3, <1>4, <1>5, <1>6, <1>7, <1>8, <1>9, <1>10, <1>11, <1>12,
       <1>13 DEF Next, ServeHTTP, Finished

-----------------------------------------------------------------------------
(***************************************************************************)
(* Shutdown: the counter follows the admissions, none enters once the      *)
(* handler is closed, and so none is left when admissions.Wait returns.    *)
(***************************************************************************)
LEMMA CloseStep == Types /\ CloseInv /\ [Next]_vars => CloseInv'
<1> SUFFICES ASSUME Types, CloseInv, [Next]_vars PROVE CloseInv'
    OBVIOUS
<1> USE DEF Types, Phases, Goto, Decide, requestVars, senderVars, closeVars
<1>a. ASSUME Active' = Active, UNCHANGED <<admissions, closeVars>> PROVE CloseInv'
    BY <1>a DEF CloseInv
<1>b. ASSUME NEW r \in Requests, Admitting(r), Active' = Active \ {r},
             admissions' = admissions - 1, UNCHANGED closeVars
      PROVE  CloseInv'
    <2>1. r \in Active
        BY <1>b DEF Active
    <2>2. IsFiniteSet(Active') /\ Cardinality(Active') = Cardinality(Active) - 1
        BY <1>b, <2>1, FS_RemoveElement DEF CloseInv
    <2> QED
        BY <1>b, <2>1, <2>2 DEF CloseInv
<1>1. ASSUME NEW r \in Requests,
             Accept(r) \/ CheckNonce(r) \/ Decode(r) \/ Write(r) \/ SenderTimeout(r)
      PROVE  CloseInv'
    <2>1. Active' = Active
        BY <1>1 DEF Accept, CheckNonce, Decode, Write, SenderTimeout, Active, Admitting
    <2> QED
        BY <1>1, <2>1, <1>a DEF Accept, CheckNonce, Decode, Write, SenderTimeout
<1>2. ASSUME NEW r \in Requests, Enter(r) PROVE CloseInv'
    <2>1. CASE closed
        <3>1. Active' = Active
            BY <1>2, <2>1 DEF Enter, Active, Admitting
        <3> QED
            BY <1>2, <2>1, <3>1, <1>a DEF Enter
    <2>2. CASE ~closed
        <3>1. Active' = Active \cup {r} /\ r \notin Active
            BY <1>2, <2>2 DEF Enter, Active, Admitting
        <3>2. IsFiniteSet(Active') /\ Cardinality(Active') = Cardinality(Active) + 1
            BY <3>1, FS_AddElement DEF CloseInv
        <3> QED
            BY <1>2, <2>2, <3>2 DEF Enter, CloseInv
    <2> QED
        BY <2>1, <2>2
<1>3. ASSUME NEW r \in Requests, Recheck(r) PROVE CloseInv'
    <2>1. CASE closed \/ r \in reqDone
        <3>1. Admitting(r) /\ Active' = Active \ {r}
            BY <1>3, <2>1 DEF Recheck, Active, Admitting
        <3> QED
            BY <1>3, <2>1, <3>1, <1>b DEF Recheck
    <2>2. CASE ~(closed \/ r \in reqDone)
        <3>1. Active' = Active
            BY <1>3, <2>2 DEF Recheck, Active, Admitting
        <3> QED
            BY <1>3, <2>2, <3>1, <1>a DEF Recheck
    <2> QED
        BY <2>1, <2>2
<1>4. ASSUME NEW r \in Requests, Admit(r) PROVE CloseInv'
    <2>1. Admitting(r) /\ Active' = Active \ {r}
        BY <1>4 DEF Admit, Active, Admitting
    <2> QED
        BY <1>4, <2>1, <1>b DEF Admit
<1>5. ASSUME NEW r \in Requests, NEW m \in Messages, Send(r, m) PROVE CloseInv'
    <2>1. Active' = Active
        BY <1>5 DEF Send, Active, Admitting
    <2> QED
        BY <1>5, <2>1, <1>a DEF Send
<1>6. ASSUME NEW r \in Requests, NEW s \in Requests, Duplicate(r, s) PROVE CloseInv'
    <2>1. Active' = Active
        BY <1>6 DEF Duplicate, Active, Admitting
    <2> QED
        BY <1>6, <2>1, <1>a DEF Duplicate
<1>7. ASSUME NEW c \in Closers, BeginClose(c) \/ CloseReturns(c) \/ GraceEnds(c)
      PROVE  CloseInv'
    <2>1. Active' = Active /\ admissions' = admissions
        BY <1>7 DEF BeginClose, CloseReturns, GraceEnds, Active, Admitting
    <2>2. CASE BeginClose(c)
        BY <2>1, <2>2 DEF BeginClose, CloseInv
    <2>3. CASE CloseReturns(c)
        BY <2>1, <2>3 DEF CloseReturns, CloseInv
    <2>4. CASE GraceEnds(c)
        BY <2>1, <2>4 DEF GraceEnds, CloseInv
    <2> QED
        BY <1>7, <2>2, <2>3, <2>4
<1>8. ASSUME Waiter PROVE CloseInv'
    <2>1. Active' = Active /\ admissions' = admissions
        BY <1>8 DEF Waiter, Active, Admitting
    <2>2. Active = {}
        BY <1>8, FS_EmptySet DEF Waiter, CloseInv
    <2> QED
        BY <1>8, <2>1, <2>2 DEF Waiter, CloseInv
<1>9. ASSUME UNCHANGED vars PROVE CloseInv'
    <2>1. Active' = Active
        BY <1>9 DEF vars, Active, Admitting
    <2> QED
        BY <1>9, <2>1, <1>a DEF vars
<1> QED
    BY <1>1, <1>2, <1>3, <1>4, <1>5, <1>6, <1>7, <1>8, <1>9
    DEF Next, ServeHTTP, Finished

-----------------------------------------------------------------------------
(***************************************************************************)
(* A request that has arrived keeps its nonce and its message, the inbox   *)
(* only grows, and what is wrong with a message stays wrong.               *)
(***************************************************************************)
LEMMA ArrivedIsFixed ==
    ASSUME Types, [Next]_vars
    PROVE  /\ \A r \in Requests : phase[r] # "idle" =>
                  nonce'[r] = nonce[r] /\ msg'[r] = msg[r]
           /\ inbox \subseteq inbox'
           /\ flaw' = flaw
<1> DEFINE Fixed == /\ \A r \in Requests : phase[r] # "idle" =>
                          nonce'[r] = nonce[r] /\ msg'[r] = msg[r]
                    /\ inbox \subseteq inbox'
                    /\ flaw' = flaw
<1> USE DEF Types, requestVars, senderVars, closeVars
<1>1. ASSUME NEW r \in Requests, ServeHTTP(r) \/ SenderTimeout(r) PROVE Fixed
    BY <1>1 DEF ServeHTTP, Accept, CheckNonce, Decode, Enter, Recheck, Admit, Write,
                SenderTimeout
<1>2. ASSUME NEW r \in Requests, NEW m \in Messages, Send(r, m) PROVE Fixed
    BY <1>2 DEF Send
<1>3. ASSUME NEW r \in Requests, NEW s \in Requests, Duplicate(r, s) PROVE Fixed
    BY <1>3 DEF Duplicate
<1>4. ASSUME NEW c \in Closers, BeginClose(c) \/ CloseReturns(c) \/ GraceEnds(c)
      PROVE  Fixed
    BY <1>4 DEF BeginClose, CloseReturns, GraceEnds
<1>5. ASSUME Waiter PROVE Fixed
    BY <1>5 DEF Waiter
<1>6. ASSUME UNCHANGED vars PROVE Fixed
    BY <1>6 DEF vars
<1> QED
    BY <1>1, <1>2, <1>3, <1>4, <1>5, <1>6 DEF Next, Finished

(***************************************************************************)
(* Once a request has a copy it has one for ever.                          *)
(***************************************************************************)
LEMMA CopiedIsStable ==
    ASSUME Types, NonceInv, [Next]_vars,
           NEW r \in Requests, phase[r] # "idle", Copied(r)
    PROVE  Copied(r)'
<1>1. PICK s \in Requests : s # r /\ nonce[s] = nonce[r]
    BY DEF Copied
<1>2. phase[s] # "idle"
    BY <1>1 DEF NonceInv
<1>3. nonce'[s] = nonce'[r]
    BY <1>1, <1>2, ArrivedIsFixed
<1> QED
    BY <1>1, <1>3 DEF Copied

(***************************************************************************)
(* The nonces: only checkNonce records one, the sender's next is new, and  *)
(* a request that arrives a second time is a copy.                         *)
(***************************************************************************)
LEMMA NonceStep == Types /\ NonceInv /\ [Next]_vars => NonceInv'
<1> SUFFICES ASSUME Types, NonceInv, [Next]_vars PROVE NonceInv'
    OBVIOUS
<1>0. \A r \in Requests : phase[r] # "idle" /\ Copied(r) => Copied(r)'
    BY CopiedIsStable
<1> USE DEF Types, Phases, Goto, Decide, requestVars, senderVars, closeVars
<1>1. ASSUME NEW r \in Requests,
             Accept(r) \/ Decode(r) \/ Enter(r) \/ Recheck(r) \/ Admit(r) \/ Write(r)
               \/ SenderTimeout(r)
      PROVE  NonceInv'
    <2>1. UNCHANGED <<nonce, nonces, signed>> /\ listening' \subseteq listening
        BY <1>1 DEF Accept, Decode, Enter, Recheck, Admit, Write, SenderTimeout
    <2>2. \A q \in Requests :
              /\ phase'[q] = "idle" <=> phase[q] = "idle"
              /\ phase'[q] \in {"accept", "nonce"} => phase[q] \in {"accept", "nonce"}
        <3>1. CASE SenderTimeout(r)
            BY <3>1 DEF SenderTimeout
        <3>2. CASE Accept(r)
            BY <3>2 DEF Accept
        <3>3. CASE Decode(r) \/ Enter(r)
            BY <3>3 DEF Decode, Enter
        <3>4. CASE Recheck(r) \/ Admit(r) \/ Write(r)
            BY <3>4 DEF Recheck, Admit, Write
        <3> QED
            BY <1>1, <3>1, <3>2, <3>3, <3>4
    <2> QED
        BY <1>0, <2>1, <2>2 DEF NonceInv
<1>2. ASSUME NEW r \in Requests, CheckNonce(r) PROVE NonceInv'
    <2>1. /\ UNCHANGED <<nonce, signed, listening>>
          /\ nonces' \subseteq nonces \cup {nonce[r]}
          /\ phase'[r] \notin {"idle", "accept", "nonce"}
          /\ \A q \in Requests : q # r => phase'[q] = phase[q]
          /\ phase[r] = "nonce"
        BY <1>2 DEF CheckNonce
    <2>2. nonces' \subseteq 1..signed'
        BY <2>1 DEF NonceInv
    <2>3. ASSUME NEW q \in Requests, phase'[q] \in {"accept", "nonce"}, nonce'[q] \in nonces'
          PROVE  Copied(q)'
        <3>1. q # r /\ phase[q] \in {"accept", "nonce"}
            BY <2>1, <2>3
        <3>2. CASE nonce[q] = nonce[r]
            BY <2>1, <3>1, <3>2 DEF Copied
        <3>3. CASE nonce[q] # nonce[r]
            BY <1>0, <2>1, <2>3, <3>1, <3>3 DEF NonceInv
        <3> QED
            BY <3>2, <3>3
    <2> QED
        BY <2>1, <2>2, <2>3 DEF NonceInv
<1>3. ASSUME NEW r \in Requests, NEW m \in Messages, Send(r, m) PROVE NonceInv'
    <2>1. /\ signed' = signed + 1 /\ nonces' = nonces
          /\ nonce'[r] = signed + 1 /\ phase'[r] = "accept" /\ phase[r] = "idle"
          /\ listening' = listening \cup {r}
          /\ \A q \in Requests : q # r => phase'[q] = phase[q] /\ nonce'[q] = nonce[q]
        BY <1>3 DEF Send
    <2>2. nonces' \subseteq 1..signed' /\ nonce'[r] \notin nonces'
        BY <2>1 DEF NonceInv
    <2>3. ASSUME NEW q \in Requests, q # r, phase'[q] \in {"accept", "nonce"},
                 nonce'[q] \in nonces'
          PROVE  Copied(q)'
        BY <1>0, <2>1, <2>3 DEF NonceInv
    <2>4. ASSUME NEW q \in Requests PROVE nonce'[q] <= signed'
        <3>1. nonce[q] \in Nat /\ signed \in Nat /\ nonce[q] <= signed
            BY DEF NonceInv
        <3> QED
            BY <2>1, <3>1
    <2>5. \A q \in Requests : phase'[q] = "idle" <=> nonce'[q] = 0
        BY <2>1 DEF NonceInv
    <2>6. \A q \in Requests : phase'[q] = "idle" => q \notin listening'
        BY <2>1 DEF NonceInv
    <2> QED
        BY <2>2, <2>3, <2>4, <2>5, <2>6 DEF NonceInv
<1>4. ASSUME NEW r \in Requests, NEW s \in Requests, Duplicate(r, s) PROVE NonceInv'
    <2>1. /\ UNCHANGED <<signed, nonces, listening>>
          /\ nonce'[r] = nonce[s] /\ phase'[r] = "accept"
          /\ phase[r] = "idle" /\ phase[s] # "idle"
          /\ \A q \in Requests : q # r => phase'[q] = phase[q] /\ nonce'[q] = nonce[q]
        BY <1>4 DEF Duplicate
    <2>2. Copied(r)'
        BY <2>1 DEF Copied
    <2>3. ASSUME NEW q \in Requests, q # r, phase'[q] \in {"accept", "nonce"},
                 nonce'[q] \in nonces'
          PROVE  Copied(q)'
        BY <1>0, <2>1, <2>3 DEF NonceInv
    <2>4. \A q \in Requests : phase'[q] = "idle" <=> nonce'[q] = 0
        BY <2>1 DEF NonceInv
    <2> QED
        BY <2>1, <2>2, <2>3, <2>4 DEF NonceInv
<1>5. ASSUME UNCHANGED <<phase, nonce, nonces, signed, listening>> PROVE NonceInv'
    BY <1>5 DEF NonceInv, Copied
<1>6. ASSUME NEW c \in Closers, BeginClose(c) \/ CloseReturns(c) \/ GraceEnds(c)
      PROVE  NonceInv'
    BY <1>5, <1>6 DEF BeginClose, CloseReturns, GraceEnds
<1>7. ASSUME Waiter \/ UNCHANGED vars PROVE NonceInv'
    BY <1>5, <1>7 DEF Waiter, vars
<1> QED
    BY <1>1, <1>2, <1>3, <1>4, <1>6, <1>7 DEF Next, ServeHTTP, Finished

-----------------------------------------------------------------------------
(***************************************************************************)
(* Each way to decide an answer: 200 only after a commit, and a status the *)
(* sender gives up at only for a flaw of the message, for a nonce that a   *)
(* copy used up, or when nobody waits.                                     *)
(***************************************************************************)
LEMMA AnswerOfRequest ==
    ASSUME Types, NonceInv, \A q \in Requests : Answer(q), [Next]_vars
    PROVE  \A q \in Requests : Answer(q)'
<1>0. /\ \A q \in Requests : phase[q] # "idle" /\ Copied(q) => Copied(q)'
      /\ \A q \in Requests : phase[q] # "idle" => msg'[q] = msg[q]
      /\ inbox \subseteq inbox'
      /\ flaw' = flaw
    BY CopiedIsStable, ArrivedIsFixed
<1>a. ASSUME NEW q \in Requests, phase'[q] = phase[q], status'[q] = status[q],
             q \in listening' => q \in listening
      PROVE  Answer(q)'
    <2> SUFFICES ASSUME phase[q] = "write" PROVE Answer(q)'
        BY <1>a DEF Answer
    <2>1. msg'[q] = msg[q] /\ flaw' = flaw /\ inbox \subseteq inbox'
        BY <1>0
    <2>2. Copied(q) => Copied(q)'
        BY <1>0
    <2>3. Answer(q)
        OBVIOUS
    <2> QED
        BY <1>a, <2>1, <2>2, <2>3 DEF Answer
<1>b. ASSUME NEW q \in Requests, phase'[q] # "write" PROVE Answer(q)'
    BY <1>b DEF Answer
<1> USE DEF Types, Phases, Goto, Decide, requestVars, senderVars, closeVars
<1>1. ASSUME NEW r \in Requests, ServeHTTP(r) PROVE \A q \in Requests : Answer(q)'
    <2>1. ASSUME NEW q \in Requests, q # r PROVE Answer(q)'
        <3>1. phase'[q] = phase[q] /\ status'[q] = status[q] /\ listening' \subseteq listening
            <4>0. CASE Accept(r)
                BY <2>1, <4>0 DEF Accept
            <4>1. CASE CheckNonce(r) \/ Decode(r)
                BY <2>1, <4>1 DEF CheckNonce, Decode
            <4>2. CASE Enter(r) \/ Recheck(r) \/ Admit(r) \/ Write(r)
                BY <2>1, <4>2 DEF Enter, Recheck, Admit, Write
            <4> QED
                BY <1>1, <4>0, <4>1, <4>2 DEF ServeHTTP
        <3> QED
            BY <3>1, <1>a
    <2> SUFFICES Answer(r)'
        BY <2>1
    <2>2. CASE Accept(r)
        <3>1. "none" \notin DOMAIN EarlyStatus
            BY DEF EarlyStatus
        <3>2. \A f \in DOMAIN EarlyStatus : EarlyStatus[f] # 200
            BY DEF EarlyStatus
        <3>3. UNCHANGED <<msg, flaw>>
            BY <2>2 DEF Accept
        <3>4. CASE flaw[msg[r]] \in DOMAIN EarlyStatus /\ Decide(r, EarlyStatus[flaw[msg[r]]])
            <4>1. status'[r] # 200 /\ flaw'[msg'[r]] # "none"
                BY <3>1, <3>2, <3>3, <3>4
            <4> QED
                BY <4>1 DEF Answer
        <3>5. CASE Decide(r, 408)
            BY <3>5 DEF Answer, Retried
        <3>6. CASE Decide(r, 400) /\ listening' = listening \ {r}
            BY <3>6 DEF Answer
        <3>7. CASE Goto(r, "nonce")
            BY <3>7, <1>b
        <3> QED
            BY <2>2, <3>4, <3>5, <3>6, <3>7 DEF Accept
    <2>3. CASE CheckNonce(r)
        <3>1. nonce[r] \in nonces => Copied(r)'
            BY <1>0, <2>3 DEF CheckNonce, NonceInv
        <3> QED
            BY <2>3, <3>1 DEF CheckNonce, Answer, Retried
    <2>4. CASE Decode(r)
        BY <2>4 DEF Decode, Answer, Retried
    <2>5. CASE Enter(r)
        BY <2>5 DEF Enter, Answer, Retried
    <2>6. CASE Recheck(r)
        BY <2>6 DEF Recheck, Answer, Retried
    <2>7. CASE Admit(r)
        BY <2>7 DEF Admit, Answer, Retried
    <2>8. CASE Write(r)
        BY <2>8, <1>b DEF Write
    <2> QED
        BY <1>1, <2>2, <2>3, <2>4, <2>5, <2>6, <2>7, <2>8 DEF ServeHTTP
<1>2. ASSUME NEW r \in Requests, NEW m \in Messages, Send(r, m)
      PROVE  \A q \in Requests : Answer(q)'
    BY <1>2, <1>a, <1>b DEF Send
<1>3. ASSUME NEW r \in Requests, NEW s \in Requests, Duplicate(r, s)
      PROVE  \A q \in Requests : Answer(q)'
    BY <1>3, <1>a, <1>b DEF Duplicate
<1>4. ASSUME UNCHANGED <<phase, status>>, listening' \subseteq listening
      PROVE  \A q \in Requests : Answer(q)'
    BY <1>4, <1>a
<1>5. ASSUME NEW r \in Requests, SenderTimeout(r) PROVE \A q \in Requests : Answer(q)'
    BY <1>4, <1>5 DEF SenderTimeout
<1>6. ASSUME NEW c \in Closers, BeginClose(c) \/ CloseReturns(c) \/ GraceEnds(c)
      PROVE  \A q \in Requests : Answer(q)'
    BY <1>4, <1>6 DEF BeginClose, CloseReturns, GraceEnds
<1>7. ASSUME Waiter \/ UNCHANGED vars PROVE \A q \in Requests : Answer(q)'
    BY <1>4, <1>7 DEF Waiter, vars
<1> QED
    BY <1>1, <1>2, <1>3, <1>5, <1>6, <1>7 DEF Next, Finished

(***************************************************************************)
(* The sender concludes from the answer it waited for, and from nothing    *)
(* else.                                                                   *)
(***************************************************************************)
LEMMA VerdictFromAnswer ==
    ASSUME Types, [Next]_vars, NEW m \in Messages, verdict'[m] # verdict[m]
    PROVE  \E r \in Requests :
              /\ phase[r] = "write" /\ msg[r] = m /\ r \in listening
              /\ verdict'[m] = "delivered" => status[r] = 200
              /\ verdict'[m] = "dead" => status[r] \notin Retried \cup {200}
<1> USE DEF Types, requestVars, senderVars, closeVars
<1>1. PICK r \in Requests : Write(r)
    BY DEF Next, Finished, vars, ServeHTTP, Accept, CheckNonce, Decode, Enter, Recheck,
           Admit, SenderTimeout, Send, Duplicate, BeginClose, CloseReturns, GraceEnds,
           Waiter
<1>2. msg[r] = m /\ r \in listening /\ status[r] \notin Retried
    BY <1>1 DEF Write
<1>3. verdict'[m] = IF status[r] = 200 THEN "delivered" ELSE "dead"
    BY <1>1, <1>2 DEF Write
<1> QED
    BY <1>1, <1>2, <1>3 DEF Write

(***************************************************************************)
(* A message that was delivered twice stays so.                            *)
(***************************************************************************)
LEMMA DeliveredTwiceIsStable ==
    ASSUME Types, NonceInv, [Next]_vars, NEW m \in Messages, DeliveredTwice(m)
    PROVE  DeliveredTwice(m)'
<1>1. PICK r \in Requests, s \in Requests :
          r # s /\ msg[r] = m /\ nonce[r] # 0 /\ nonce[r] = nonce[s]
    BY DEF DeliveredTwice
<1>2. phase[r] # "idle" /\ phase[s] # "idle"
    BY <1>1 DEF NonceInv
<1>3. msg'[r] = msg[r] /\ nonce'[r] = nonce[r] /\ nonce'[s] = nonce[s]
    BY <1>2, ArrivedIsFixed
<1> QED
    BY <1>1, <1>3 DEF DeliveredTwice

(***************************************************************************)
(* The answers of the handler and the conclusions of the sender.           *)
(***************************************************************************)
LEMMA AnswerStep == Types /\ NonceInv /\ AnswerInv /\ [Next]_vars => AnswerInv'
<1> SUFFICES ASSUME Types, NonceInv, AnswerInv, [Next]_vars PROVE AnswerInv'
    OBVIOUS
<1>1. \A q \in Requests : Answer(q)
    BY DEF AnswerInv
<1>2. \A q \in Requests : Answer(q)'
    BY <1>1, AnswerOfRequest
<1>3. inbox \subseteq inbox' /\ flaw' = flaw
    BY ArrivedIsFixed
<1>4. ASSUME NEW m \in Messages, verdict'[m] = "delivered" PROVE m \in inbox'
    <2>1. CASE verdict'[m] = verdict[m]
        BY <1>3, <1>4, <2>1 DEF AnswerInv, DeliveredIsCommitted
    <2>2. CASE verdict'[m] # verdict[m]
        <3>1. PICK r \in Requests : phase[r] = "write" /\ msg[r] = m /\ status[r] = 200
            BY <1>4, <2>2, VerdictFromAnswer
        <3>2. Answer(r)
            BY <1>1
        <3> QED
            BY <1>3, <3>1, <3>2 DEF Answer
    <2> QED
        BY <2>1, <2>2
<1>5. ASSUME NEW m \in Messages, verdict'[m] = "dead"
      PROVE  flaw'[m] # "none" \/ DeliveredTwice(m)'
    <2>1. flaw[m] # "none" \/ DeliveredTwice(m)
        <3>1. CASE verdict'[m] = verdict[m]
            BY <1>5, <3>1 DEF AnswerInv, DeadOnlyIfFlawed
        <3>2. CASE verdict'[m] # verdict[m]
            <4>1. PICK r \in Requests :
                      /\ phase[r] = "write" /\ msg[r] = m /\ r \in listening
                      /\ status[r] \notin Retried \cup {200}
                BY <1>5, <3>2, VerdictFromAnswer
            <4>2. flaw[m] # "none" \/ Copied(r)
                BY <1>1, <4>1 DEF Answer
            <4>3. nonce[r] # 0
                BY <4>1 DEF NonceInv
            <4> QED
                BY <4>1, <4>2, <4>3 DEF Copied, DeliveredTwice
        <3> QED
            BY <3>1, <3>2
    <2> QED
        BY <1>3, <2>1, DeliveredTwiceIsStable
<1> QED
    BY <1>2, <1>4, <1>5 DEF AnswerInv, DeliveredIsCommitted, DeadOnlyIfFlawed

-----------------------------------------------------------------------------
(***************************************************************************)
(* The handler as NewHandler returns it satisfies the invariant.           *)
(***************************************************************************)
LEMMA InitIInv == Init => IInv
<1> SUFFICES ASSUME Init PROVE IInv
    OBVIOUS
<1>1. Types
    <2>1. (CHOOSE m \in Messages : TRUE) \in Messages
        BY MessagesAssumption
    <2> QED
        BY <2>1, FlawsAssumption DEF Init, Types, Phases
<1>2. CloseInv
    <2>1. Active = {}
        BY DEF Init, Active, Admitting
    <2> QED
        BY <2>1, FS_EmptySet DEF Init, CloseInv
<1>3. NonceInv
    BY DEF Init, NonceInv
<1>4. AnswerInv
    BY DEF Init, AnswerInv, Answer, DeliveredIsCommitted, DeadOnlyIfFlawed
<1> QED
    BY <1>1, <1>2, <1>3, <1>4 DEF IInv

(***************************************************************************)
(* The invariant is inductive.                                             *)
(***************************************************************************)
LEMMA NextIInv == IInv /\ [Next]_vars => IInv'
BY TypesStep, CloseStep, NonceStep, AnswerStep DEF IInv

(***************************************************************************)
(* The invariant holds in every state of the handler.                      *)
(***************************************************************************)
THEOREM Invariance == Spec => []IInv
BY InitIInv, NextIInv, PTL DEF Spec

(***************************************************************************)
(* 200 means durable, for any number of messages, attempts, duplicates and *)
(* CloseContext calls.                                                     *)
(***************************************************************************)
THEOREM DeliveredIsCommittedHolds == Spec => []DeliveredIsCommitted
<1>1. IInv => DeliveredIsCommitted
    BY DEF IInv, AnswerInv
<1> QED
    BY <1>1, Invariance, PTL

(***************************************************************************)
(* The sender gives up on a message only for a flaw of its own or when the *)
(* network delivered one of its requests twice.                            *)
(***************************************************************************)
THEOREM DeadOnlyIfFlawedHolds == Spec => []DeadOnlyIfFlawed
<1>1. IInv => DeadOnlyIfFlawed
    BY DEF IInv, AnswerInv
<1> QED
    BY <1>1, Invariance, PTL

(***************************************************************************)
(* An admission that runs is cancelled by the handler only after a grace   *)
(* context of CloseContext has ended.                                      *)
(***************************************************************************)
THEOREM GraceRespectedHolds == Spec => []GraceRespected
<1>1. IInv => GraceRespected
    BY DEF IInv, CloseInv, Active, GraceRespected
<1> QED
    BY <1>1, Invariance, PTL

(***************************************************************************)
(* Once closeDone is closed no admission runs or starts and the inbox does *)
(* not change.                                                             *)
(***************************************************************************)
THEOREM QuietAfterCloseHolds == Spec => QuietAfterClose
<1> DEFINE Quiet == waiter = "finished" =>
              /\ \A r \in Requests : ~Admitting(r) /\ ~Admitting(r)'
              /\ UNCHANGED inbox
<1>1. ASSUME IInv, IInv', [Next]_vars PROVE [Quiet]_vars
    <2> SUFFICES ASSUME Next, waiter = "finished"
                 PROVE  /\ \A r \in Requests : ~Admitting(r) /\ ~Admitting(r)'
                        /\ UNCHANGED inbox
        BY <1>1
    <2>1. waiter' = "finished"
        BY DEF Next, Finished, vars, requestVars, senderVars, closeVars, ServeHTTP, Accept,
               CheckNonce, Decode, Enter, Recheck, Admit, Write, SenderTimeout, Send,
               Duplicate, BeginClose, CloseReturns, GraceEnds, Waiter
    <2>2. \A r \in Requests : ~Admitting(r) /\ ~Admitting(r)'
        BY <1>1, <2>1 DEF IInv, CloseInv, Active
    <2>3. \A r \in Requests : ~Admit(r)
        BY <2>2 DEF Admit, Admitting
    <2>4. UNCHANGED inbox
        BY <2>3 DEF Next, Finished, vars, requestVars, senderVars, closeVars, ServeHTTP,
               Accept, CheckNonce, Decode, Enter, Recheck, Write, SenderTimeout, Send,
               Duplicate, BeginClose, CloseReturns, GraceEnds, Waiter
    <2> QED
        BY <2>2, <2>4
<1> QED
    BY <1>1, Invariance, PTL DEF Spec, QuietAfterClose
=============================================================================
