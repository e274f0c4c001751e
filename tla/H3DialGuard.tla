---------------------------- MODULE H3DialGuard ------------------------------
(***************************************************************************)
(* The egress guard of the HTTP/3 transport (h3_dial_guard.go) under       *)
(* concurrent guarded dials (guardedH3DialContext in http3_transport.go):  *)
(* a DNS allowset with a lifetime, one shared background refresh when it   *)
(* has expired, and dials that wait for that refresh only if the expired   *)
(* allowset would deny them.                                               *)
(*                                                                         *)
(* DNS is external. Time is left out but for the moments at which the      *)
(* allowset expires.                                                       *)
(***************************************************************************)
EXTENDS Naturals

CONSTANTS Dials,       \* guarded dials, each in its own goroutine
          IPs,         \* canonical addresses
          MaxExpiries, \* the allowset expires at most so often
          MaxChanges   \* DNS changes at most so often

ASSUME BoundsAssumption == MaxExpiries \in Nat /\ MaxChanges \in Nat

VARIABLES
    dns,         \* external: the addresses of the host
    changes,     \* DNS changes so far
    literal,     \* the host is an IP literal: expiresAt is zero
    allowed,     \* h3DialGuard.allowed
    expired,     \* now is not before expiresAt
    expiries,    \* how often it expired
    refreshDone, \* h3DialGuard.refreshDone; NoChan is nil
    made,        \* channels made so far: they are numbered 1..made
    closed,      \* the closed ones
    workers,     \* the refresh goroutines
    pc,          \* where each dial is
    ip,          \* the address a dial resolved
    ch,          \* what beginRefresh returned to a dial
    ctxDone,     \* dials whose context has ended
    seen         \* a fresh allowset without its address met the dial

guardVars  == <<literal, allowed, expired, expiries, refreshDone, made, closed, workers>>
dnsVars    == <<dns, changes>>
dialVars   == <<pc, ip, ch, ctxDone>>
vars       == <<guardVars, dnsVars, dialVars, seen>>

NoChan == 0

\* A refresh looks DNS up, stores the answer, resets expiry and refreshDone,
\* and closes the channel it found there; `got` is {} after a failure.
Worker(id, at, got) == [id |-> id, at |-> at, got |-> got]

Workers == [id : Nat, at : {"lookup", "store", "finish", "close"}, got : SUBSET IPs]

\* Types; in particular no failed, empty or panicking lookup empties the allowset.
TypeOK ==
    /\ dns \in (SUBSET IPs) \ {{}}
    /\ changes \in Nat
    /\ literal \in BOOLEAN
    /\ allowed \in (SUBSET IPs) \ {{}}
    /\ expired \in BOOLEAN
    /\ expiries \in Nat
    /\ refreshDone \in Nat
    /\ made \in Nat
    /\ closed \subseteq 1..made
    /\ workers \subseteq Workers
    /\ pc \in [Dials -> {"idle", "begin", "check", "wait", "recheck",
                         "dialed", "denied", "notSent"}]
    /\ ip \in [Dials -> IPs]
    /\ ch \in [Dials -> Nat]
    /\ ctxDone \subseteq Dials
    /\ seen \subseteq Dials

\* newH3DialGuardForBaseURL: the literal itself, or the first DNS answer. A
\* failed first lookup makes no guard.
Init ==
    /\ dns \in (SUBSET IPs) \ {{}}
    /\ changes = 0
    /\ literal \in BOOLEAN
    /\ IF literal THEN \E i \in IPs : allowed = {i} /\ dns = {i} ELSE allowed = dns
    /\ expired = FALSE
    /\ expiries = 0
    /\ refreshDone = NoChan
    /\ made = 0
    /\ closed = {}
    /\ workers = {}
    /\ pc = [d \in Dials |-> "idle"]
    /\ ip = [d \in Dials |-> CHOOSE i \in IPs : TRUE]
    /\ ch = [d \in Dials |-> NoChan]
    /\ ctxDone = {}
    /\ seen = {}

-----------------------------------------------------------------------------
\* guardedH3DialContext and allow

Goto(d, p) == pc' = [pc EXCEPT ![d] = p]

\* The context is checked, then the address resolved.
Resolve(d) ==
    /\ pc[d] = "idle"
    /\ \/ Goto(d, "notSent") /\ UNCHANGED ip
       \/ /\ d \notin ctxDone
          /\ \E i \in dns : ip' = [ip EXCEPT ![d] = i]
          /\ Goto(d, "begin")
    /\ UNCHANGED <<guardVars, dnsVars, ch, ctxDone>>

\* The context is checked again.
Cancelled(d) ==
    /\ pc[d] = "begin"
    /\ d \in ctxDone
    /\ Goto(d, "notSent")
    /\ UNCHANGED <<guardVars, dnsVars, ip, ch, ctxDone>>

\* Faulty variant: a second refresh starts beside the first.
BeginRefreshAgain(d) ==
    /\ pc[d] = "begin"
    /\ d \notin ctxDone
    /\ Goto(d, "check")
    /\ \/ /\ literal \/ ~expired
          /\ ch' = [ch EXCEPT ![d] = NoChan]
          /\ UNCHANGED <<refreshDone, made, workers>>
       \/ /\ ~literal /\ expired
          /\ made' = made + 1
          /\ refreshDone' = made + 1
          /\ workers' = workers \cup {Worker(made + 1, "lookup", {})}
          /\ ch' = [ch EXCEPT ![d] = made + 1]
    /\ UNCHANGED <<dnsVars, literal, allowed, expired, expiries, closed, ip, ctxDone>>

\* beginRefresh, under the lock: nothing to do, a refresh to join, or a new
\* one, whose goroutine is detached from the context of the dial.
BeginRefresh(d) ==
    /\ pc[d] = "begin"
    /\ d \notin ctxDone
    /\ Goto(d, "check")
    /\ \/ /\ literal \/ ~expired
          /\ ch' = [ch EXCEPT ![d] = NoChan]
          /\ UNCHANGED <<refreshDone, made, workers>>
       \/ /\ ~literal /\ expired /\ refreshDone # NoChan
          /\ ch' = [ch EXCEPT ![d] = refreshDone]
          /\ UNCHANGED <<refreshDone, made, workers>>
       \/ /\ ~literal /\ expired /\ refreshDone = NoChan
          /\ made' = made + 1
          /\ refreshDone' = made + 1
          /\ workers' = workers \cup {Worker(made + 1, "lookup", {})}
          /\ ch' = [ch EXCEPT ![d] = made + 1]
    /\ UNCHANGED <<dnsVars, literal, allowed, expired, expiries, closed, ip, ctxDone>>

\* Faulty variant: an expired allowset denies at once.
CheckImpatient(d) ==
    /\ pc[d] = "check"
    /\ Goto(d, IF ip[d] \in allowed THEN "dialed" ELSE "denied")
    /\ UNCHANGED <<guardVars, dnsVars, ip, ch, ctxDone>>

\* The first look at the allowset.
Check(d) ==
    /\ pc[d] = "check"
    /\ Goto(d, IF ip[d] \in allowed THEN "dialed"
               ELSE IF ch[d] = NoChan THEN "denied" ELSE "wait")
    /\ UNCHANGED <<guardVars, dnsVars, ip, ch, ctxDone>>

\* The select: the refresh has ended, or the dial's own context has.
WaitRefresh(d) ==
    /\ pc[d] = "wait"
    /\ \/ ch[d] \in closed /\ Goto(d, "recheck")
       \/ d \in ctxDone /\ Goto(d, "denied")
    /\ UNCHANGED <<guardVars, dnsVars, ip, ch, ctxDone>>

Recheck(d) ==
    /\ pc[d] = "recheck"
    /\ Goto(d, IF ip[d] \in allowed THEN "dialed" ELSE "denied")
    /\ UNCHANGED <<guardVars, dnsVars, ip, ch, ctxDone>>

-----------------------------------------------------------------------------
\* refresh

Becomes(w, at, got) == workers' = (workers \ {w}) \cup {Worker(w.id, at, got)}

\* Faulty variant: a panic of the resolver ends the goroutine then and there.
LookupPanics(w) ==
    /\ w.at = "lookup"
    /\ \/ Becomes(w, "store", dns)
       \/ Becomes(w, "store", {})
       \/ workers' = workers \ {w}
    /\ UNCHANGED <<dnsVars, dialVars, literal, allowed, expired, expiries,
                   refreshDone, made, closed>>

\* resolve: an answer, or an error, an empty answer, a timeout. A panic of the
\* resolver skips the store.
Lookup(w) ==
    /\ w.at = "lookup"
    /\ \/ Becomes(w, "store", dns)
       \/ Becomes(w, "store", {})
       \/ Becomes(w, "finish", {})
    /\ UNCHANGED <<dnsVars, dialVars, literal, allowed, expired, expiries,
                   refreshDone, made, closed>>

\* A failed lookup keeps the stale allowset.
Store(w) ==
    /\ w.at = "store"
    /\ allowed' = IF w.got # {} THEN w.got ELSE allowed
    /\ Becomes(w, "finish", w.got)
    /\ UNCHANGED <<dnsVars, dialVars, literal, expired, expiries, refreshDone,
                   made, closed>>

\* The deferred part, under the lock. It takes the channel from the guard, so
\* the worker goes on with that channel's number.
Finish(w) ==
    /\ w.at = "finish"
    /\ expired' = FALSE
    /\ refreshDone' = NoChan
    /\ workers' = (workers \ {w}) \cup {Worker(refreshDone, "close", {})}
    /\ UNCHANGED <<dnsVars, dialVars, literal, allowed, expiries, made, closed>>

Close(w) ==
    /\ w.at = "close"
    /\ closed' = IF w.id # NoChan THEN closed \cup {w.id} ELSE closed
    /\ workers' = workers \ {w}
    /\ UNCHANGED <<dnsVars, dialVars, literal, allowed, expired, expiries,
                   refreshDone, made>>

Refresh(w) == Lookup(w) \/ Store(w) \/ Finish(w) \/ Close(w)

-----------------------------------------------------------------------------
\* The environment

Expire ==
    /\ ~literal
    /\ ~expired
    /\ expiries < MaxExpiries
    /\ expired' = TRUE
    /\ expiries' = expiries + 1
    /\ UNCHANGED <<dnsVars, dialVars, literal, allowed, refreshDone, made, closed,
                   workers>>

ChangeDNS ==
    /\ ~literal
    /\ changes < MaxChanges
    /\ dns' \in (SUBSET IPs) \ {{}, dns}
    /\ changes' = changes + 1
    /\ UNCHANGED <<guardVars, dialVars>>

CtxEnds(d) ==
    /\ d \notin ctxDone
    /\ ctxDone' = ctxDone \cup {d}
    /\ UNCHANGED <<guardVars, dnsVars, pc, ip, ch>>

Returned(d) == pc[d] \in {"dialed", "denied", "notSent"}

\* All dials have returned and no refresh runs.
Quiet ==
    /\ \A d \in Dials : Returned(d)
    /\ workers = {}
    /\ UNCHANGED <<guardVars, dnsVars, dialVars>>

\* The allowset is fresh within its lifetime, which an answer of DNS begins. A
\* lookup that fails lets the old allowset live once more (refresh).
Fresh ==
    /\ allowed # {}
    /\ ~expired \/ \E w \in workers : w.at = "finish" /\ w.got # {}

Deciding(d) == pc[d] \in {"check", "wait", "recheck"}

\* What the dials under way have met, kept for DeniedByFreshAnswer.
Observe ==
    seen' = seen \cup {d \in Dials : Deciding(d)' /\ Fresh' /\ ip'[d] \notin allowed'}

Dial(d) ==
    Resolve(d) \/ Cancelled(d) \/ BeginRefresh(d) \/ Check(d) \/ WaitRefresh(d) \/ Recheck(d)

Next ==
    /\ \/ \E d \in Dials : Dial(d) \/ CtxEnds(d)
       \/ \E w \in workers : Refresh(w)
       \/ Expire
       \/ ChangeDNS
       \/ Quiet
    /\ Observe

Spec == Init /\ [][Next]_vars

\* Goroutines are scheduled and a lookup ends by resolveTimeout. Contexts need
\* not end.
FairSpec ==
    /\ Spec
    /\ \A d \in Dials : WF_vars(Dial(d) /\ Observe)
    /\ WF_vars((\E w \in workers : Refresh(w)) /\ Observe)

-----------------------------------------------------------------------------
\* Properties.

(***************************************************************************)
(* Refreshes are single-flight: at most one goroutine looks up or stores,  *)
(* refreshDone is the channel it was started with (refresh reads it back   *)
(* from the guard instead of keeping its own), and it is still open.       *)
(***************************************************************************)
SingleRefresh ==
    /\ \A w \in workers : w.at # "close" => w.id = refreshDone /\ w.id \notin closed
    /\ \A v, w \in workers : v.at # "close" /\ w.at # "close" => v = w
    /\ refreshDone # NoChan => \E w \in workers : w.at # "close"

(***************************************************************************)
(* The TTL boundary sacrifices no dial: a dial whose context is alive is   *)
(* denied only if, at some moment since it asked, an allowset within its   *)
(* lifetime did not hold its address; never on the word of an expired one  *)
(* (the order of beginRefresh and permits in allow, and the wait for the   *)
(* refresh). An allowset that outlived a failed lookup counts: the guard   *)
(* keeps it for another lifetime.                                          *)
(***************************************************************************)
DeniedByFreshAnswer ==
    \A d \in Dials : pc[d] = "denied" /\ d \notin ctxDone => d \in seen

(***************************************************************************)
(* Every dial is decided, whether lookups succeed, fail or panic.          *)
(***************************************************************************)
DialDecided == \A d \in Dials : <>Returned(d)
=============================================================================
