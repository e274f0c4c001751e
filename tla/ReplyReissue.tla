---------------------------- MODULE ReplyReissue -----------------------------
(***************************************************************************)
(* The reissue ladder of iris/reply_reissue.go over the replay horizon of  *)
(* iris/reply_admission.go: a caller that holds one reply, sends it under  *)
(* its clientRequestId, and moves to the next generation of the id when    *)
(* Iris says that it failed before the handoff. The caller may crash and   *)
(* start over from the id it stored; requests may be late or duplicated,   *)
(* and Iris forgets an id after the retention.                             *)
(*                                                                         *)
(* The caller is external, and does what README.md tells callers to do; so *)
(* are Iris and the network. A call here is a logical call of ReplyRetry.  *)
(* An id is the sequence of its ":rN" suffixes: the original has none.     *)
(***************************************************************************)
EXTENDS IrisErrors, Sequences

CONSTANTS ReplyReissueMaxGenerations,
          ReplyAdmissionRetention,
          ReplyReplayHorizonMargin,
          MaxCalls,  \* the caller makes at most so many calls
          MaxTime    \* the clock stops there

ASSUME LadderAssumption ==
    /\ ReplyReissueMaxGenerations \in Nat
    /\ ReplyAdmissionRetention \in Nat
    /\ ReplyReplayHorizonMargin \in 0..ReplyAdmissionRetention
    /\ MaxCalls \in Nat /\ MaxTime \in Nat

VARIABLES
    now,     \* time since the reply was first sent
    fits,    \* the longest candidate is a valid clientRequestId
    stores,  \* caller: which id it keeps across a crash
    base,    \* caller: what it takes for the original id
    gen,     \* caller: the generation it is at
    id,      \* caller: the id in use
    calls,   \* caller: how many calls it has made
    pc,      \* caller: send, wait, handle, done
    err,     \* caller: the set of the error of the last call, {} for nil
    net,     \* requests that Iris may still receive
    ledger,  \* Iris: the record of each id, absent for none
    since,   \* Iris: when it was made
    applied  \* Iris: how often the reply was handed to the queue

callerVars == <<base, gen, id, calls, pc, err>>
irisVars   == <<ledger, since, applied>>
vars == <<now, fits, stores, callerVars, net, irisVars>>

Original == <<>>

Generations == 0..ReplyReissueMaxGenerations

Ids == {Original} \cup {<<g>> : g \in 1..ReplyReissueMaxGenerations}

Requests == [id : Ids, call : 1..MaxCalls, at : 0..MaxTime]

TypeOK ==
    /\ now \in 0..MaxTime
    /\ fits \in BOOLEAN
    /\ stores \in {"original", "current"}
    /\ base \in Ids
    /\ gen \in Generations
    /\ id \in Ids
    /\ calls \in 0..MaxCalls
    /\ pc \in {"send", "wait", "handle", "done"}
    /\ \A e \in err : e \in Errors
    /\ net \subseteq Requests
    /\ ledger \in [Ids -> {"absent", "failed", "accepted", "unknown"}]
    /\ since \in [Ids -> 0..MaxTime]
    /\ applied \in 0..MaxCalls

Init ==
    /\ now = 0
    /\ fits \in BOOLEAN
    /\ stores \in {"original", "current"}
    /\ base = Original /\ id = Original /\ gen = 0
    /\ calls = 0
    /\ pc = "send"
    /\ err = {}
    /\ net = {}
    /\ ledger = [i \in Ids |-> "absent"]
    /\ since = [i \in Ids |-> 0]
    /\ applied = 0

-----------------------------------------------------------------------------
\* What the SDK provides

\* Faulty variant: no margin for requests that are under way.
HorizonIsRetention == ReplyAdmissionRetention

ReplyAutomaticReplayHorizon == ReplyAdmissionRetention - ReplyReplayHorizonMargin

\* ReissuedClientRequestID: the candidate, or nothing for an error.
ReissuedClientRequestID(b, generation) ==
    IF \/ generation \notin 1..ReplyReissueMaxGenerations
       \/ b # Original
       \/ ~fits
    THEN {}
    ELSE {<<generation>>}

\* Faulty variant: every conflict is reissued.
IsAnyConflict(e) == ClientRequestIDConflictCode(e) # NoCode

IsPreHandoffClientRequestIDConflict(e) ==
    ClientRequestIDConflictCode(e) = "CLIENT_REQUEST_ID_FAILED"

-----------------------------------------------------------------------------
\* The caller

\* A call within the replay horizon.
Send ==
    /\ pc = "send"
    /\ now <= ReplyAutomaticReplayHorizon
    /\ calls < MaxCalls
    /\ calls' = calls + 1
    /\ net' = net \cup {[id |-> id, call |-> calls + 1, at |-> now]}
    /\ pc' = "wait"
    /\ UNCHANGED <<now, fits, stores, base, gen, id, err, irisVars>>

\* The reply is too old, or the caller gives up and leaves it open what happened.
GiveUp ==
    /\ pc = "send"
    /\ pc' = "done"
    /\ err' = {}
    /\ UNCHANGED <<now, fits, stores, base, gen, id, calls, net, irisVars>>

\* The call ends with ErrTransport; the same id may be sent again.
Lost ==
    /\ pc = "wait"
    /\ pc' = "send"
    /\ err' = {TransportError(OtherError, TRUE)}
    /\ UNCHANGED <<now, fits, stores, base, gen, id, calls, net, irisVars>>

\* The next generation after a failure before the handoff, while there is one;
\* anything else is final.
Handle ==
    LET next == ReissuedClientRequestID(base, gen + 1)
    IN  /\ pc = "handle"
        /\ IF next # {} /\ \E e \in err : IsPreHandoffClientRequestIDConflict(e)
           THEN id' \in next /\ gen' = gen + 1 /\ pc' = "send"
           ELSE pc' = "done" /\ UNCHANGED <<id, gen>>
        /\ UNCHANGED <<now, fits, stores, base, calls, err, net, irisVars>>

\* The caller starts over with the id it stored.
Crash ==
    /\ pc \in {"send", "wait", "handle"}
    /\ base' = IF stores = "original" THEN Original ELSE id
    /\ id' = base'
    /\ gen' = 0
    /\ pc' = "send"
    /\ err' = {}
    /\ UNCHANGED <<now, fits, stores, calls, net, irisVars>>

-----------------------------------------------------------------------------
\* Iris and the network

\* What Iris answers from its record.
Recorded(record) ==
    IF record = "failed" THEN {HTTPError(409, "CLIENT_REQUEST_ID_FAILED")}
    ELSE IF record = "unknown" THEN {HTTPError(409, "CLIENT_REQUEST_ID_OUTCOME_UNKNOWN")}
    ELSE {}

\* A request is served and the record of its id answers it. The answer
\* reaches a caller that still waits for it; the request may come again.
Serve(m) ==
    /\ ledger[m.id] # "absent"
    /\ m.call = calls /\ pc = "wait"
    /\ err' = Recorded(ledger[m.id])
    /\ pc' = "handle"
    /\ UNCHANGED <<now, fits, stores, base, gen, id, calls, net, irisVars>>

\* A request with a new id: the handoff, a failure before it, or a crash of
\* Iris that leaves it open which.
Admit(m) ==
    /\ ledger[m.id] = "absent"
    /\ \/ /\ applied' = applied + 1
          /\ \E r \in {"accepted", "unknown"} : ledger' = [ledger EXCEPT ![m.id] = r]
       \/ /\ UNCHANGED applied
          /\ \E r \in {"failed", "unknown"} : ledger' = [ledger EXCEPT ![m.id] = r]
    /\ since' = [since EXCEPT ![m.id] = now]
    /\ UNCHANGED <<now, fits, stores, callerVars, net>>

\* Records older than the retention are dropped.
Forget(i) ==
    /\ ledger[i] # "absent"
    /\ now > since[i] + ReplyAdmissionRetention
    /\ ledger' = [ledger EXCEPT ![i] = "absent"]
    /\ UNCHANGED <<now, fits, stores, callerVars, net, since, applied>>

\* Time passes; no request stays under way for longer than the margin.
Tick ==
    /\ now < MaxTime
    /\ now' = now + 1
    /\ net' = {m \in net : now' <= m.at + ReplyReplayHorizonMargin}
    /\ UNCHANGED <<fits, stores, callerVars, irisVars>>

Quiet == now = MaxTime /\ pc = "done" /\ UNCHANGED vars

Next ==
    \/ Send
    \/ GiveUp
    \/ Lost
    \/ Handle
    \/ Crash
    \/ \E m \in net : Serve(m) \/ Admit(m)
    \/ \E i \in Ids : Forget(i)
    \/ Tick
    \/ Quiet

Spec == Init /\ [][Next]_vars

-----------------------------------------------------------------------------
\* Properties.

(***************************************************************************)
(* Over the whole ladder, whatever the caller loses in a crash and however *)
(* late its requests arrive, the reply is handed to the queue at most      *)
(* once: a generation is only opened when the one before it is recorded as *)
(* failed, and no request outlives the records (reply_reissue.go,          *)
(* reply_admission.go).                                                    *)
(***************************************************************************)
HandedOffAtMostOnce == applied <= 1

(***************************************************************************)
(* A ladder that ends with the conflict "failed before the handoff" has    *)
(* had no effect and will have none: the caller may report the reply as    *)
(* not delivered (IsUnrecoverableClientRequestIDConflict).                 *)
(***************************************************************************)
FailedLadderIsSilent ==
    /\ pc = "done"
    /\ \E e \in err : ClientRequestIDConflictCode(e) = "CLIENT_REQUEST_ID_FAILED"
    => applied = 0
=============================================================================
