-------------------------- MODULE H3DialGuardProofs --------------------------
(***************************************************************************)
(* Proofs about H3DialGuard for any sets of dials and addresses and any    *)
(* number of expiries and DNS changes.                                     *)
(*                                                                         *)
(* The inductive invariant has three parts, each proved on top of the ones *)
(* before it: types, the channels of the refreshes, and what a dial under  *)
(* way has met when the allowset does not hold its address.                *)
(***************************************************************************)
EXTENDS H3DialGuard, TLAPS

\* Channels are made once, and a refresh that is about to close its channel
\* has taken it out of the guard.
ChanInv ==
    /\ refreshDone <= made
    /\ \A w \in workers : w.id \in 1..made
    /\ \A w \in workers : w.at = "close" => w.id # refreshDone
    /\ SingleRefresh

\* A dial that has no refresh to wait for, or whose refresh is over, knows of
\* a fresh allowset without its address whenever the present one lacks it.
DenyInv ==
    /\ literal => ~expired
    /\ \A d \in Dials :
          /\ ch[d] <= made
          /\ pc[d] = "recheck" => ch[d] \in closed
          /\ Deciding(d) /\ ip[d] \notin allowed /\ (ch[d] = NoChan \/ ch[d] # refreshDone)
                => d \in seen
    /\ DeniedByFreshAnswer

IInv == TypeOK /\ ChanInv /\ DenyInv

-----------------------------------------------------------------------------
(***************************************************************************)
(* Every variable keeps its type, and no refresh empties the allowset: a   *)
(* failed, empty or panicking lookup leaves it as it was.                  *)
(***************************************************************************)
LEMMA TypeStep == TypeOK /\ ChanInv /\ [Next]_vars => TypeOK'
<1> SUFFICES ASSUME TypeOK, ChanInv, [Next]_vars PROVE TypeOK'
    OBVIOUS
<1> USE DEF TypeOK, Workers, Worker, NoChan, guardVars, dnsVars, dialVars, Goto
<1> CASE Next
    <2>0. seen' \subseteq Dials
        BY DEF Next, Observe
    <2>1. ASSUME NEW d \in Dials, Resolve(d) PROVE TypeOK'
        BY <2>0, <2>1 DEF Resolve
    <2>2. ASSUME NEW d \in Dials, Cancelled(d) PROVE TypeOK'
        BY <2>0, <2>2 DEF Cancelled
    <2>3. ASSUME NEW d \in Dials, BeginRefresh(d) PROVE TypeOK'
        BY <2>0, <2>3 DEF BeginRefresh
    <2>4. ASSUME NEW d \in Dials, Check(d) PROVE TypeOK'
        BY <2>0, <2>4 DEF Check
    <2>5. ASSUME NEW d \in Dials, WaitRefresh(d) PROVE TypeOK'
        BY <2>0, <2>5 DEF WaitRefresh
    <2>6. ASSUME NEW d \in Dials, Recheck(d) PROVE TypeOK'
        BY <2>0, <2>6 DEF Recheck
    <2>7. ASSUME NEW w \in workers, Lookup(w) PROVE TypeOK'
        BY <2>0, <2>7 DEF Lookup, Becomes
    <2>8. ASSUME NEW w \in workers, Store(w) PROVE TypeOK'
        <3>1. w.id \in Nat /\ w.got \in SUBSET IPs
            OBVIOUS
        <3>2. workers' \subseteq Workers
            BY <2>8, <3>1 DEF Store, Becomes
        <3>3. allowed' \in (SUBSET IPs) \ {{}}
            BY <2>8, <3>1 DEF Store
        <3> QED
            BY <2>0, <2>8, <3>2, <3>3 DEF Store
    <2>9. ASSUME NEW w \in workers, Finish(w) PROVE TypeOK'
        <3>1. workers' \subseteq Workers
            BY <2>9 DEF Finish
        <3> QED
            BY <2>0, <2>9, <3>1 DEF Finish
    <2>10. ASSUME NEW w \in workers, Close(w) PROVE TypeOK'
        BY <2>0, <2>10 DEF Close, ChanInv
    <2>11. CASE Expire
        BY <2>0, <2>11 DEF Expire
    <2>12. CASE ChangeDNS
        BY <2>0, <2>12 DEF ChangeDNS
    <2>13. ASSUME NEW d \in Dials, CtxEnds(d) PROVE TypeOK'
        BY <2>0, <2>13 DEF CtxEnds
    <2>14. CASE Quiet
        BY <2>0, <2>14 DEF Quiet
    <2> QED
        BY <2>1, <2>2, <2>3, <2>4, <2>5, <2>6, <2>7, <2>8, <2>9, <2>10, <2>11,
           <2>12, <2>13, <2>14 DEF Next, Dial, Refresh
<1> CASE UNCHANGED vars
    BY DEF vars
<1> QED
    OBVIOUS

(***************************************************************************)
(* A refresh goes from one of its steps to the next without disturbing the *)
(* channels.                                                               *)
(***************************************************************************)
LEMMA RefreshGoesOn ==
    ASSUME TypeOK, ChanInv, UNCHANGED <<refreshDone, made, closed>>,
           NEW w \in workers, w.at # "close",
           NEW at \in {"lookup", "store", "finish"}, NEW got, Becomes(w, at, got)
    PROVE  ChanInv'
<1> DEFINE v == Worker(w.id, at, got)
<1>1. v.id = w.id /\ v.at = at
    BY DEF Worker
<1>2. workers' = (workers \ {w}) \cup {v}
    BY DEF Becomes
<1> HIDE DEF v
<1>3. \A x \in workers \ {w} : x.at = "close"
    BY DEF ChanInv, SingleRefresh
<1> QED
    BY <1>1, <1>2, <1>3 DEF ChanInv, SingleRefresh

(***************************************************************************)
(* Refreshes stay single-flight: a new one starts only when the guard has  *)
(* no channel, and the close of an old one does not hit the new channel.   *)
(***************************************************************************)
LEMMA ChanStep == TypeOK /\ ChanInv /\ [Next]_vars => ChanInv'
<1> SUFFICES ASSUME TypeOK, ChanInv, [Next]_vars PROVE ChanInv'
    OBVIOUS
<1> USE DEF TypeOK, Workers, Worker, NoChan, ChanInv, SingleRefresh, guardVars, dnsVars,
            dialVars
<1>1. CASE UNCHANGED guardVars
    BY <1>1
<1>2. ASSUME NEW d \in Dials, BeginRefresh(d) PROVE ChanInv'
    <2>1. CASE UNCHANGED <<refreshDone, made, workers>>
        BY <1>2, <2>1 DEF BeginRefresh
    <2>2. CASE refreshDone = NoChan /\ refreshDone' = made + 1
        <3> DEFINE v == Worker(made + 1, "lookup", {})
        <3>1. v.id = made + 1 /\ v.at = "lookup"
            OBVIOUS
        <3>2. workers' = workers \cup {v} /\ made' = made + 1 /\ UNCHANGED closed
            BY <1>2, <2>2 DEF BeginRefresh
        <3>3. \A w \in workers : w.at = "close"
            BY <2>2
        <3> HIDE DEF v
        <3> QED
            BY <2>2, <3>1, <3>2, <3>3
    <2> QED
        BY <1>2, <2>1, <2>2 DEF BeginRefresh
<1>3. ASSUME NEW w \in workers, Lookup(w) PROVE ChanInv'
    <2>1. \E at \in {"store", "finish"}, got \in {dns, {}} : Becomes(w, at, got)
        BY <1>3 DEF Lookup
    <2> QED
        BY <1>3, <2>1, RefreshGoesOn DEF Lookup
<1>4. ASSUME NEW w \in workers, Store(w) PROVE ChanInv'
    BY <1>4, RefreshGoesOn DEF Store
<1>5. ASSUME NEW w \in workers, Finish(w) PROVE ChanInv'
    <2> DEFINE v == Worker(refreshDone, "close", {})
    <2>1. v.id = refreshDone /\ v.at = "close"
        OBVIOUS
    <2>2. workers' = (workers \ {w}) \cup {v} /\ refreshDone' = NoChan
          /\ UNCHANGED <<made, closed>>
        BY <1>5 DEF Finish
    <2>3. refreshDone = w.id /\ refreshDone \in 1..made
        BY <1>5 DEF Finish
    <2>4. \A x \in workers \ {w} : x.at = "close"
        BY <1>5 DEF Finish
    <2> HIDE DEF v
    <2> QED
        BY <2>1, <2>2, <2>3, <2>4
<1>6. ASSUME NEW w \in workers, Close(w) PROVE ChanInv'
    BY <1>6 DEF Close
<1>7. CASE Expire
    BY <1>7 DEF Expire
<1> QED
    BY <1>1, <1>2, <1>3, <1>4, <1>5, <1>6, <1>7
       DEF Next, Dial, Refresh, Resolve, Cancelled, Check, WaitRefresh, Recheck, ChangeDNS,
           CtxEnds, Quiet, vars

(***************************************************************************)
(* What lets a dial be denied stays true: the allowset changes, and a      *)
(* refresh ends, only in steps after which the allowset is fresh, and then *)
(* every dial under way has met it.                                        *)
(***************************************************************************)
LEMMA DenyStep == TypeOK /\ ChanInv /\ DenyInv /\ [Next]_vars => DenyInv'
<1> SUFFICES ASSUME TypeOK, ChanInv, DenyInv, [Next]_vars PROVE DenyInv'
    OBVIOUS
<1> USE DEF TypeOK, NoChan, DenyInv, DeniedByFreshAnswer, Deciding, guardVars, dnsVars,
            dialVars, Goto
<1> CASE Next
    <2>0. /\ seen \subseteq seen'
          /\ Fresh' => \A d \in Dials : Deciding(d)' /\ ip'[d] \notin allowed' => d \in seen'
        BY DEF Next, Observe
    <2>1. ASSUME NEW d \in Dials, Resolve(d) PROVE DenyInv'
        BY <2>0, <2>1 DEF Resolve
    <2>2. ASSUME NEW d \in Dials, Cancelled(d) PROVE DenyInv'
        BY <2>0, <2>2 DEF Cancelled
    <2>3. ASSUME NEW d \in Dials, BeginRefresh(d) PROVE DenyInv'
        <3>1. ~expired => Fresh'
            BY <2>3 DEF BeginRefresh, Fresh
        <3>2. refreshDone <= made
            BY DEF ChanInv
        <3> QED
            BY <2>0, <2>3, <3>1, <3>2 DEF BeginRefresh
    <2>4. ASSUME NEW d \in Dials, Check(d) PROVE DenyInv'
        BY <2>0, <2>4 DEF Check
    <2>5. ASSUME NEW d \in Dials, WaitRefresh(d) PROVE DenyInv'
        BY <2>0, <2>5 DEF WaitRefresh
    <2>6. ASSUME NEW d \in Dials, Recheck(d) PROVE DenyInv'
        <3>1. ch[d] \in closed /\ ch[d] # refreshDone
            BY <2>6 DEF Recheck, ChanInv, SingleRefresh
        <3> QED
            BY <2>0, <2>6, <3>1 DEF Recheck
    <2>7. ASSUME NEW w \in workers, Lookup(w) PROVE DenyInv'
        BY <2>0, <2>7 DEF Lookup
    <2>8. ASSUME NEW w \in workers, Store(w) PROVE DenyInv'
        <3>1. CASE w.got = {}
            BY <2>0, <2>8, <3>1 DEF Store
        <3>2. CASE w.got # {}
            <4>1. Worker(w.id, "finish", w.got) \in workers'
                BY <2>8 DEF Store, Becomes
            <4>2. Fresh'
                BY <2>8, <3>2, <4>1 DEF Store, Fresh, Worker
            <4> QED
                BY <2>0, <2>8, <4>2 DEF Store
        <3> QED
            BY <3>1, <3>2
    <2>9. ASSUME NEW w \in workers, Finish(w) PROVE DenyInv'
        <3>1. Fresh'
            BY <2>9 DEF Finish, Fresh
        <3> QED
            BY <2>0, <2>9, <3>1 DEF Finish
    <2>10. ASSUME NEW w \in workers, Close(w) PROVE DenyInv'
        BY <2>0, <2>10 DEF Close
    <2>11. CASE Expire
        BY <2>0, <2>11 DEF Expire
    <2>12. CASE ChangeDNS
        BY <2>0, <2>12 DEF ChangeDNS
    <2>13. ASSUME NEW d \in Dials, CtxEnds(d) PROVE DenyInv'
        BY <2>0, <2>13 DEF CtxEnds
    <2>14. CASE Quiet
        BY <2>0, <2>14 DEF Quiet
    <2> QED
        BY <2>1, <2>2, <2>3, <2>4, <2>5, <2>6, <2>7, <2>8, <2>9, <2>10, <2>11,
           <2>12, <2>13, <2>14 DEF Next, Dial, Refresh
<1> CASE UNCHANGED vars
    BY DEF vars
<1> QED
    OBVIOUS

(***************************************************************************)
(* The invariant holds at the first state and in all that follow.          *)
(***************************************************************************)
LEMMA Invariance == Spec => []IInv
<1>1. Init => IInv
    <2> SUFFICES ASSUME Init PROVE IInv
        OBVIOUS
    <2>1. PICK i \in IPs : TRUE
        BY DEF Init
    <2>2. TypeOK
        BY <2>1 DEF Init, TypeOK, Workers, NoChan
    <2> QED
        BY <2>2 DEF Init, IInv, ChanInv, SingleRefresh, DenyInv, DeniedByFreshAnswer,
                    Deciding, NoChan
<1>2. IInv /\ [Next]_vars => IInv'
    BY TypeStep, ChanStep, DenyStep DEF IInv
<1> QED
    BY <1>1, <1>2, PTL DEF Spec

(***************************************************************************)
(* beginRefresh and refresh keep to one refresh at a time, and the channel *)
(* in the guard is the one that refresh is going to close.                 *)
(***************************************************************************)
THEOREM SingleRefreshHolds == Spec => []SingleRefresh
<1>1. IInv => SingleRefresh
    BY DEF IInv, ChanInv
<1> QED
    BY <1>1, Invariance, PTL

(***************************************************************************)
(* allow denies a dial with a live context only on the word of an allowset *)
(* that was fresh at some moment since the dial asked.                     *)
(***************************************************************************)
THEOREM DeniedByFreshAnswerHolds == Spec => []DeniedByFreshAnswer
<1>1. IInv => DeniedByFreshAnswer
    BY DEF IInv, DenyInv
<1> QED
    BY <1>1, Invariance, PTL
=============================================================================
