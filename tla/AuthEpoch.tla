------------------------------ MODULE AuthEpoch ------------------------------
(***************************************************************************)
(* Concurrent signed calls of one APIClient that share the cached boot     *)
(* epoch of Iris (internal/client/transport/auth_epoch.go) and the send    *)
(* loop of execute.go that signs a request once more when Iris rejects     *)
(* the epoch it was bound to.                                              *)
(*                                                                         *)
(* Each element of Calls is one logical call in its own goroutine. Iris is *)
(* external: it has a boot epoch that changes at each restart, never       *)
(* repeats, and is checked on every protected request. The client has a    *)
(* signer (a bot token), as every client that touches the cache has.       *)
(***************************************************************************)
EXTENDS Naturals

CONSTANTS Calls,    \* the logical calls
          MaxBoot   \* Iris restarts at most MaxBoot - 1 times

ASSUME MaxBootAssumption == MaxBoot \in Nat \ {0}

VARIABLES
    boot,       \* Iris: the epoch of the current boot
    value,      \* authEpochCache.value; NoEpoch is ""
    loading,    \* authEpochCache.loading; NoChan is nil
    made,       \* channels made so far: they are numbered 1..made
    closed,     \* the closed ones
    pc,         \* where each call is
    ch,         \* the channel a call made or waits on
    got,        \* what a call's own discovery returned, NoEpoch on failure
    used,       \* the epoch bound into the nonce of a call's request
    refreshed,  \* epochRefreshed of the call
    expired,    \* ctx.Err() != nil for the call's request context
    wire,       \* a call's protected request: in flight, or its response
    applied,    \* Iris: how often the operation of a call was performed
    result      \* the class of what the call returned

vars == <<boot, value, loading, made, closed, pc, ch, got, used, refreshed,
          expired, wire, applied, result>>

cacheVars == <<value, loading, made, closed>>
irisVars  == <<boot, applied>>

NoEpoch == 0
NoChan  == 0

Phases == {"lookup", "wait", "fetch", "fetched", "signed", "do", "done"}

Wires == {"none", "request", "ok", "mismatch", "rejected"}

\* The classes of CallOutcome; a call that still runs has "none".
Classes == {"none", "ok", "notSent", "invalid", "http", "transport"}

TypeOK ==
    /\ boot \in Nat \ {0}
    /\ value \in Nat
    /\ loading \in Nat
    /\ made \in Nat
    /\ closed \subseteq 1..made
    /\ pc \in [Calls -> Phases]
    /\ ch \in [Calls -> Nat]
    /\ got \in [Calls -> Nat]
    /\ used \in [Calls -> Nat]
    /\ refreshed \in [Calls -> BOOLEAN]
    /\ expired \in [Calls -> BOOLEAN]
    /\ wire \in [Calls -> Wires]
    /\ applied \in [Calls -> Nat]
    /\ result \in [Calls -> Classes]

Init ==
    /\ boot = 1
    /\ value = NoEpoch
    /\ loading = NoChan
    /\ made = 0
    /\ closed = {}
    /\ pc = [c \in Calls |-> "lookup"]
    /\ ch = [c \in Calls |-> NoChan]
    /\ got = [c \in Calls |-> NoEpoch]
    /\ used = [c \in Calls |-> NoEpoch]
    /\ refreshed = [c \in Calls |-> FALSE]
    /\ expired = [c \in Calls |-> FALSE]
    /\ wire = [c \in Calls |-> "none"]
    /\ applied = [c \in Calls |-> 0]
    /\ result = [c \in Calls |-> "none"]

-----------------------------------------------------------------------------
\* authEpoch: find the epoch to sign with.

Finish(c, r) ==
    /\ pc' = [pc EXCEPT ![c] = "done"]
    /\ result' = [result EXCEPT ![c] = r]

Goto(c, p) ==
    /\ pc' = [pc EXCEPT ![c] = p]
    /\ UNCHANGED result

\* The top of the loop: the context is checked before the cache is locked.
LookupExpired(c) ==
    /\ pc[c] = "lookup"
    /\ expired[c]
    /\ Finish(c, "notSent")
    /\ UNCHANGED <<cacheVars, irisVars, ch, got, used, refreshed, expired, wire>>

LookupHit(c) ==
    /\ pc[c] = "lookup"
    /\ ~expired[c]
    /\ value # NoEpoch
    /\ used' = [used EXCEPT ![c] = value]
    /\ Goto(c, "signed")
    /\ UNCHANGED <<cacheVars, irisVars, ch, got, refreshed, expired, wire>>

LookupWait(c) ==
    /\ pc[c] = "lookup"
    /\ ~expired[c]
    /\ value = NoEpoch
    /\ loading # NoChan
    /\ ch' = [ch EXCEPT ![c] = loading]
    /\ Goto(c, "wait")
    /\ UNCHANGED <<cacheVars, irisVars, got, used, refreshed, expired, wire>>

\* Faulty variant: a second leader starts while the first one is fetching.
LookupLeadUnguarded(c) ==
    /\ pc[c] = "lookup"
    /\ ~expired[c]
    /\ value = NoEpoch
    /\ made' = made + 1
    /\ loading' = made + 1
    /\ ch' = [ch EXCEPT ![c] = made + 1]
    /\ Goto(c, "fetch")
    /\ UNCHANGED <<value, closed, irisVars, got, used, refreshed, expired, wire>>

LookupLead(c) ==
    /\ pc[c] = "lookup"
    /\ ~expired[c]
    /\ value = NoEpoch
    /\ loading = NoChan
    /\ made' = made + 1
    /\ loading' = made + 1
    /\ ch' = [ch EXCEPT ![c] = made + 1]
    /\ Goto(c, "fetch")
    /\ UNCHANGED <<value, closed, irisVars, got, used, refreshed, expired, wire>>

\* The select of a follower: the leader's channel is closed, or its own
\* context ends.
WaitWake(c) ==
    /\ pc[c] = "wait"
    /\ ch[c] \in closed
    /\ Goto(c, "lookup")
    /\ UNCHANGED <<cacheVars, irisVars, ch, got, used, refreshed, expired, wire>>

WaitExpired(c) ==
    /\ pc[c] = "wait"
    /\ expired[c]
    /\ Finish(c, "notSent")
    /\ UNCHANGED <<cacheVars, irisVars, ch, got, used, refreshed, expired, wire>>

\* fetchAuthEpoch: GET /auth/epoch outside the lock. It fails on a network
\* error, an ended context, a status other than 200, an oversized body, or
\* an epoch that is not valid JSON or not 32 hex digits.
FetchServed(c) ==
    /\ pc[c] = "fetch"
    /\ got' = [got EXCEPT ![c] = boot]
    /\ Goto(c, "fetched")
    /\ UNCHANGED <<cacheVars, irisVars, ch, used, refreshed, expired, wire>>

FetchFails(c) ==
    /\ pc[c] = "fetch"
    /\ got' = [got EXCEPT ![c] = NoEpoch]
    /\ Goto(c, "fetched")
    /\ UNCHANGED <<cacheVars, irisVars, ch, used, refreshed, expired, wire>>

\* The return of authEpoch in the leader.
FetchReturns(c) ==
    \/ /\ got[c] # NoEpoch
       /\ used' = [used EXCEPT ![c] = got[c]]
       /\ Goto(c, "signed")
    \/ /\ got[c] = NoEpoch
       /\ Finish(c, "notSent")
       /\ UNCHANGED used

\* Faulty variant: a failed leader returns without closing its channel.
FetchDoneKeepsChannel(c) ==
    /\ pc[c] = "fetched"
    /\ value' = IF got[c] # NoEpoch THEN got[c] ELSE value
    /\ loading' = NoChan
    /\ closed' = IF got[c] # NoEpoch THEN closed \cup {ch[c]} ELSE closed
    /\ FetchReturns(c)
    /\ UNCHANGED <<made, irisVars, ch, got, refreshed, expired, wire>>

\* The leader takes the lock again: it stores a fetched epoch, clears
\* loading and closes its channel, whether or not the fetch succeeded.
FetchDone(c) ==
    /\ pc[c] = "fetched"
    /\ value' = IF got[c] # NoEpoch THEN got[c] ELSE value
    /\ loading' = NoChan
    /\ closed' = closed \cup {ch[c]}
    /\ FetchReturns(c)
    /\ UNCHANGED <<made, irisVars, ch, got, refreshed, expired, wire>>

-----------------------------------------------------------------------------
\* signRequest and the send loop `do`.

\* SetIrisHMACHeaders fails on a target it cannot canonicalise. The target is
\* the same in the replay, so this happens on the first signature or never.
SignFails(c) ==
    /\ pc[c] = "signed"
    /\ ~refreshed[c]
    /\ Finish(c, "invalid")
    /\ UNCHANGED <<cacheVars, irisVars, ch, got, used, refreshed, expired, wire>>

\* The replay has a body that GetBody cannot produce again.
ReplayBodyFails(c) ==
    /\ pc[c] = "signed"
    /\ refreshed[c]
    /\ Finish(c, "notSent")
    /\ UNCHANGED <<cacheVars, irisVars, ch, got, used, refreshed, expired, wire>>

\* client.Do fails before anything is written: the guarded dial tags its
\* failures ErrNotSent, an unguarded dial failure stays outcome-unknown.
DialFails(c) ==
    /\ pc[c] = "signed"
    /\ \E r \in {"notSent", "transport"} : Finish(c, r)
    /\ UNCHANGED <<cacheVars, irisVars, ch, got, used, refreshed, expired, wire>>

Transmit(c) ==
    /\ pc[c] = "signed"
    /\ wire' = [wire EXCEPT ![c] = "request"]
    /\ Goto(c, "do")
    /\ UNCHANGED <<cacheVars, irisVars, ch, got, used, refreshed, expired>>

\* Faulty variant: every failure of client.Do counts as "not sent".
DoFailsAsNotSent(c) ==
    /\ pc[c] = "do"
    /\ Finish(c, "notSent")
    /\ UNCHANGED <<cacheVars, irisVars, ch, got, used, refreshed, expired, wire>>

\* client.Do gives up, on a network error or an ended context. The request
\* may still be on its way, or its response lost.
DoFails(c) ==
    /\ pc[c] = "do"
    /\ Finish(c, "transport")
    /\ UNCHANGED <<cacheVars, irisVars, ch, got, used, refreshed, expired, wire>>

ReceiveOK(c) ==
    /\ pc[c] = "do"
    /\ wire[c] = "ok"
    /\ wire' = [wire EXCEPT ![c] = "none"]
    /\ Finish(c, "ok")
    /\ UNCHANGED <<cacheVars, irisVars, ch, got, used, refreshed, expired>>

\* Any other status than a verified AUTH_EPOCH_MISMATCH, and a mismatch whose
\* body could not be read whole, so that its code is lost (readErrorResponse).
ReceiveHTTPError(c) ==
    /\ pc[c] = "do"
    /\ wire[c] \in {"rejected", "mismatch"}
    /\ wire' = [wire EXCEPT ![c] = "none"]
    /\ Finish(c, "http")
    /\ UNCHANGED <<cacheVars, irisVars, ch, got, used, refreshed, expired>>

\* The error response cannot be closed: the loop stops before refreshing.
CloseFails(c) ==
    /\ pc[c] = "do"
    /\ wire[c] = "mismatch"
    /\ wire' = [wire EXCEPT ![c] = "none"]
    /\ Finish(c, "notSent")
    /\ UNCHANGED <<cacheVars, irisVars, ch, got, used, refreshed, expired>>

\* One re-signature per logical call.
ResignOnce(c) ==
    \/ /\ refreshed[c]
       /\ Finish(c, "notSent")
       /\ UNCHANGED refreshed
    \/ /\ ~refreshed[c]
       /\ refreshed' = [refreshed EXCEPT ![c] = TRUE]
       /\ Goto(c, "lookup")

\* Faulty variant: the cache is cleared without comparing epochs.
ReceiveMismatchClears(c) ==
    /\ pc[c] = "do"
    /\ wire[c] = "mismatch"
    /\ wire' = [wire EXCEPT ![c] = "none"]
    /\ value' = NoEpoch
    /\ ResignOnce(c)
    /\ UNCHANGED <<loading, made, closed, irisVars, ch, got, used, expired>>

\* Faulty variant: the rejected epoch stays cached.
ReceiveMismatchKeeps(c) ==
    /\ pc[c] = "do"
    /\ wire[c] = "mismatch"
    /\ wire' = [wire EXCEPT ![c] = "none"]
    /\ ResignOnce(c)
    /\ UNCHANGED <<cacheVars, irisVars, ch, got, used, expired>>

\* refreshAuthEpoch: forget the rejected epoch unless somebody has replaced
\* it already.
ReceiveMismatch(c) ==
    /\ pc[c] = "do"
    /\ wire[c] = "mismatch"
    /\ wire' = [wire EXCEPT ![c] = "none"]
    /\ value' = IF value = used[c] THEN NoEpoch ELSE value
    /\ ResignOnce(c)
    /\ UNCHANGED <<loading, made, closed, irisVars, ch, got, used, expired>>

-----------------------------------------------------------------------------
\* The environment.

\* The caller cancels, or the timeout shared by discovery and replay passes.
Expire(c) ==
    /\ pc[c] # "done"
    /\ ~expired[c]
    /\ expired' = [expired EXCEPT ![c] = TRUE]
    /\ UNCHANGED <<cacheVars, irisVars, pc, ch, got, used, refreshed, wire, result>>

\* Iris verifies the epoch of a protected request before it acts on it. It
\* may answer with another error at any point, before or after acting.
Serve(c) ==
    /\ wire[c] = "request"
    /\ \/ /\ used[c] = boot
          /\ applied' = [applied EXCEPT ![c] = @ + 1]
          /\ \E r \in {"ok", "rejected"} : wire' = [wire EXCEPT ![c] = r]
       \/ /\ used[c] # boot
          /\ wire' = [wire EXCEPT ![c] = "mismatch"]
          /\ UNCHANGED applied
       \/ /\ wire' = [wire EXCEPT ![c] = "rejected"]
          /\ UNCHANGED applied
    /\ UNCHANGED <<cacheVars, boot, pc, ch, got, used, refreshed, expired, result>>

Restart ==
    /\ boot < MaxBoot
    /\ boot' = boot + 1
    /\ UNCHANGED <<cacheVars, pc, ch, got, used, refreshed, expired, wire,
                   applied, result>>

-----------------------------------------------------------------------------
Lookup(c) == LookupExpired(c) \/ LookupHit(c) \/ LookupWait(c) \/ LookupLead(c)

Fetch(c) == FetchServed(c) \/ FetchFails(c)

Send(c) == SignFails(c) \/ ReplayBodyFails(c) \/ DialFails(c) \/ Transmit(c)

Receive(c) ==
    \/ ReceiveOK(c)
    \/ ReceiveHTTPError(c)
    \/ CloseFails(c)
    \/ ReceiveMismatch(c)

Step(c) ==
    \/ Lookup(c)
    \/ WaitWake(c)
    \/ WaitExpired(c)
    \/ Fetch(c)
    \/ FetchDone(c)
    \/ Send(c)
    \/ Receive(c)
    \/ DoFails(c)

\* All calls have returned: nothing is left to do.
Returned ==
    /\ \A c \in Calls : pc[c] = "done"
    /\ UNCHANGED vars

Next ==
    \/ \E c \in Calls : Step(c) \/ Expire(c) \/ Serve(c)
    \/ Restart
    \/ Returned

Spec == Init /\ [][Next]_vars

(***************************************************************************)
(* Goroutines are scheduled, and every HTTP exchange ends: the request     *)
(* context carries the client's timeout (requestContext). For a caller's   *)
(* own http.Client without one, the end of an exchange is an assumption on *)
(* the caller's context or transport. Contexts need not expire early, Iris *)
(* need not answer, discovery may fail every time.                         *)
(***************************************************************************)
Fairness ==
    \A c \in Calls :
        /\ WF_vars(Lookup(c))
        /\ WF_vars(WaitWake(c))
        /\ WF_vars(Fetch(c))
        /\ WF_vars(FetchDone(c))
        /\ WF_vars(Send(c))
        /\ WF_vars(Receive(c) \/ DoFails(c))

FairSpec == Spec /\ Fairness

-----------------------------------------------------------------------------
\* Properties.

Leading(c) == pc[c] \in {"fetch", "fetched"}

(***************************************************************************)
(* authEpochCache is single-flight: a non-nil loading belongs to exactly   *)
(* one call, which is fetching, is still open, and the cache is empty      *)
(* meanwhile. A second discovery never overlaps the first, and the store   *)
(* of the leader never overwrites an epoch.                                *)
(***************************************************************************)
SingleFlight ==
    /\ \A c \in Calls : Leading(c) =>
          loading = ch[c] /\ loading # NoChan /\ loading \notin closed
    /\ \A c, d \in Calls : Leading(c) /\ Leading(d) => c = d
    /\ loading # NoChan => value = NoEpoch /\ \E c \in Calls : Leading(c)

(***************************************************************************)
(* No wakeup is lost: the channel a follower waits on is the one the       *)
(* current leader is going to close, or is closed already.                 *)
(***************************************************************************)
NoLostWakeup ==
    \A c \in Calls : pc[c] = "wait" =>
        ch[c] # NoChan /\ (ch[c] = loading \/ ch[c] \in closed)

(***************************************************************************)
(* However many calls find the cache empty or stale at once, the client    *)
(* discovers each boot of Iris once: no two calls hold a fetched epoch of  *)
(* the same boot.                                                          *)
(***************************************************************************)
OneDiscoveryPerBoot ==
    \A c, d \in Calls : got[c] # NoEpoch /\ got[c] = got[d] => c = d

(***************************************************************************)
(* refreshAuthEpoch: a late rejection of an old epoch does not disturb the *)
(* calls of the present one. While Iris keeps running, an epoch that is    *)
(* cached and current stays cached.                                        *)
(***************************************************************************)
CurrentEpochKept ==
    [][value = boot /\ boot' = boot => value' = value]_vars

(***************************************************************************)
(* The replay after AUTH_EPOCH_MISMATCH is bound to a newer epoch than the *)
(* rejected one, whichever call cleared the cache and whoever refilled it: *)
(* the one re-signature of a call is never spent on the epoch that was     *)
(* just rejected.                                                          *)
(***************************************************************************)
ReplayIsNewer ==
    [][\A c \in Calls :
          refreshed[c] /\ pc[c] # "signed" /\ pc'[c] = "signed"
              => used'[c] > used[c]]_vars

(***************************************************************************)
(* The class of a returned error tells the truth about the side effect, at *)
(* the return and ever after (CallOutcome): ErrNotSent only when Iris      *)
(* neither did nor will perform the operation, success only when it did,   *)
(* and no call is performed twice in spite of the replay.                  *)
(***************************************************************************)
Outcome == INSTANCE CallOutcome

OutcomeIsTruthful == Outcome!OutcomeSpec

(***************************************************************************)
(* Every call returns if its exchanges end, even when discoveries keep     *)
(* failing: a failed leader releases its followers, who take over one      *)
(* after the other (authEpoch, fetchAuthEpoch).                            *)
(***************************************************************************)
EveryCallReturns == \A c \in Calls : <>(pc[c] = "done")
=============================================================================
