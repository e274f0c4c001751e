--------------------------- MODULE AuthEpochProofs ---------------------------
(***************************************************************************)
(* Proofs about AuthEpoch for any set of calls and any number of restarts. *)
(*                                                                         *)
(* The inductive invariant has six parts, each proved on top of the ones   *)
(* before it: types, the channel protocol of the single-flight discovery,  *)
(* the state of the exchange with Iris, the order of the epochs held by    *)
(* cache and calls, what a rejected call may find in the cache, and one    *)
(* discovery per boot. The action properties and the refinement of         *)
(* CallOutcome follow from it.                                             *)
(***************************************************************************)
EXTENDS AuthEpoch, TLAPS

\* The channel of the leader was made, so a new one is never in use.
ChanInv ==
    /\ loading <= made
    /\ SingleFlight
    /\ NoLostWakeup

\* No epoch is ahead of Iris, the cache is never behind a call, and once the
\* cache is empty every epoch in use is an old one.
EpochInv ==
    /\ value <= boot
    /\ value # NoEpoch => \A c \in Calls : used[c] <= value
    /\ value = NoEpoch => \A c \in Calls : used[c] < boot
    /\ \A c \in Calls : used[c] <= boot /\ got[c] <= boot
    /\ \A c, d \in Calls : pc[c] = "fetched" /\ got[c] # NoEpoch => used[d] < got[c]
    /\ \A c \in Calls : wire[c] = "mismatch" => used[c] < boot
    /\ \A c \in Calls : pc[c] # "fetched" => got[c] <= used[c]

\* A call that was rejected and looks for another epoch finds a newer one.
RejectedInv ==
    \A c \in Calls :
        refreshed[c] /\ pc[c] \in {"lookup", "wait", "fetch", "fetched"}
            => value = NoEpoch \/ used[c] < value

\* What the request on the wire and the returned class say of the effect.
ExchangeInv ==
    \A c \in Calls :
        /\ pc[c] \notin {"do", "done"} => wire[c] = "none" /\ applied[c] = 0
        /\ pc[c] # "done" <=> result[c] = "none"
        /\ wire[c] \in {"request", "mismatch"} => applied[c] = 0
        /\ wire[c] = "ok" => applied[c] = 1
        /\ wire[c] = "request" => result[c] \in {"none", "transport"}
        /\ applied[c] \in {0, 1}

-----------------------------------------------------------------------------
(***************************************************************************)
(* Every variable of AuthEpoch keeps its type; in particular only channels *)
(* that were made are closed.                                              *)
(***************************************************************************)
LEMMA TypeStep == TypeOK /\ ChanInv /\ [Next]_vars => TypeOK'
<1> SUFFICES ASSUME TypeOK, ChanInv, [Next]_vars PROVE TypeOK'
    OBVIOUS
<1> USE DEF TypeOK, Phases, Wires, Classes, NoEpoch, NoChan, cacheVars,
            irisVars, Goto, Finish
<1>1. ASSUME NEW c \in Calls, LookupExpired(c) PROVE TypeOK'
    BY <1>1 DEF LookupExpired
<1>2. ASSUME NEW c \in Calls, LookupHit(c) PROVE TypeOK'
    BY <1>2 DEF LookupHit
<1>3. ASSUME NEW c \in Calls, LookupWait(c) PROVE TypeOK'
    BY <1>3 DEF LookupWait
<1>4. ASSUME NEW c \in Calls, LookupLead(c) PROVE TypeOK'
    BY <1>4 DEF LookupLead
<1>5. ASSUME NEW c \in Calls, WaitWake(c) PROVE TypeOK'
    BY <1>5 DEF WaitWake
<1>6. ASSUME NEW c \in Calls, WaitExpired(c) PROVE TypeOK'
    BY <1>6 DEF WaitExpired
<1>7. ASSUME NEW c \in Calls, FetchServed(c) PROVE TypeOK'
    BY <1>7 DEF FetchServed
<1>8. ASSUME NEW c \in Calls, FetchFails(c) PROVE TypeOK'
    BY <1>8 DEF FetchFails
<1>9. ASSUME NEW c \in Calls, FetchDone(c) PROVE TypeOK'
    <2>1. ch[c] \in 1..made
        BY <1>9 DEF FetchDone, ChanInv, SingleFlight, Leading
    <2> QED
        BY <1>9, <2>1 DEF FetchDone, FetchReturns
<1>10. ASSUME NEW c \in Calls, SignFails(c) PROVE TypeOK'
    BY <1>10 DEF SignFails
<1>11. ASSUME NEW c \in Calls, ReplayBodyFails(c) PROVE TypeOK'
    BY <1>11 DEF ReplayBodyFails
<1>12. ASSUME NEW c \in Calls, DialFails(c) PROVE TypeOK'
    BY <1>12 DEF DialFails
<1>13. ASSUME NEW c \in Calls, Transmit(c) PROVE TypeOK'
    BY <1>13 DEF Transmit
<1>14. ASSUME NEW c \in Calls, DoFails(c) PROVE TypeOK'
    BY <1>14 DEF DoFails
<1>15. ASSUME NEW c \in Calls, ReceiveOK(c) PROVE TypeOK'
    BY <1>15 DEF ReceiveOK
<1>16. ASSUME NEW c \in Calls, ReceiveHTTPError(c) PROVE TypeOK'
    BY <1>16 DEF ReceiveHTTPError
<1>17. ASSUME NEW c \in Calls, CloseFails(c) PROVE TypeOK'
    BY <1>17 DEF CloseFails
<1>18. ASSUME NEW c \in Calls, ReceiveMismatch(c) PROVE TypeOK'
    BY <1>18 DEF ReceiveMismatch, ResignOnce
<1>19. ASSUME NEW c \in Calls, Expire(c) PROVE TypeOK'
    BY <1>19 DEF Expire
<1>20. ASSUME NEW c \in Calls, Serve(c) PROVE TypeOK'
    BY <1>20 DEF Serve
<1>21. CASE Restart
    BY <1>21 DEF Restart
<1>22. CASE UNCHANGED vars
    BY <1>22 DEF vars
<1> QED
    BY <1>1, <1>2, <1>3, <1>4, <1>5, <1>6, <1>7, <1>8, <1>9, <1>10,
       <1>11, <1>12, <1>13, <1>14, <1>15, <1>16, <1>17, <1>18, <1>19,
       <1>20, <1>21, <1>22
       DEF Next, Step, Lookup, Fetch, Send, Receive, Returned

(***************************************************************************)
(* Discovery stays single-flight and loses no wakeup from any state that   *)
(* satisfies ChanInv, whatever the calls and Iris do next.                 *)
(***************************************************************************)
LEMMA ChanStep == TypeOK /\ ChanInv /\ [Next]_vars => ChanInv'
<1> SUFFICES ASSUME TypeOK, ChanInv, [Next]_vars PROVE ChanInv'
    OBVIOUS
<1> USE DEF TypeOK, Phases, ChanInv, SingleFlight, NoLostWakeup, Leading,
            NoEpoch, NoChan, cacheVars, irisVars, Goto, Finish
<1>1. ASSUME NEW c \in Calls, LookupExpired(c) PROVE ChanInv'
    BY <1>1 DEF LookupExpired
<1>2. ASSUME NEW c \in Calls, LookupHit(c) PROVE ChanInv'
    BY <1>2 DEF LookupHit
<1>3. ASSUME NEW c \in Calls, LookupWait(c) PROVE ChanInv'
    BY <1>3 DEF LookupWait
<1>4. ASSUME NEW c \in Calls, LookupLead(c) PROVE ChanInv'
    BY <1>4 DEF LookupLead
<1>5. ASSUME NEW c \in Calls, WaitWake(c) PROVE ChanInv'
    BY <1>5 DEF WaitWake
<1>6. ASSUME NEW c \in Calls, WaitExpired(c) PROVE ChanInv'
    BY <1>6 DEF WaitExpired
<1>7. ASSUME NEW c \in Calls, FetchServed(c) PROVE ChanInv'
    BY <1>7 DEF FetchServed
<1>8. ASSUME NEW c \in Calls, FetchFails(c) PROVE ChanInv'
    BY <1>8 DEF FetchFails
<1>9. ASSUME NEW c \in Calls, FetchDone(c) PROVE ChanInv'
    BY <1>9 DEF FetchDone, FetchReturns
<1>10. ASSUME NEW c \in Calls, SignFails(c) PROVE ChanInv'
    BY <1>10 DEF SignFails
<1>11. ASSUME NEW c \in Calls, ReplayBodyFails(c) PROVE ChanInv'
    BY <1>11 DEF ReplayBodyFails
<1>12. ASSUME NEW c \in Calls, DialFails(c) PROVE ChanInv'
    BY <1>12 DEF DialFails
<1>13. ASSUME NEW c \in Calls, Transmit(c) PROVE ChanInv'
    BY <1>13 DEF Transmit
<1>14. ASSUME NEW c \in Calls, DoFails(c) PROVE ChanInv'
    BY <1>14 DEF DoFails
<1>15. ASSUME NEW c \in Calls, ReceiveOK(c) PROVE ChanInv'
    BY <1>15 DEF ReceiveOK
<1>16. ASSUME NEW c \in Calls, ReceiveHTTPError(c) PROVE ChanInv'
    BY <1>16 DEF ReceiveHTTPError
<1>17. ASSUME NEW c \in Calls, CloseFails(c) PROVE ChanInv'
    BY <1>17 DEF CloseFails
<1>18. ASSUME NEW c \in Calls, ReceiveMismatch(c) PROVE ChanInv'
    BY <1>18 DEF ReceiveMismatch, ResignOnce
<1>19. ASSUME NEW c \in Calls, Expire(c) PROVE ChanInv'
    BY <1>19 DEF Expire
<1>20. ASSUME NEW c \in Calls, Serve(c) PROVE ChanInv'
    BY <1>20 DEF Serve
<1>21. CASE Restart
    BY <1>21 DEF Restart
<1>22. CASE UNCHANGED vars
    BY <1>22 DEF vars
<1> QED
    BY <1>1, <1>2, <1>3, <1>4, <1>5, <1>6, <1>7, <1>8, <1>9, <1>10,
       <1>11, <1>12, <1>13, <1>14, <1>15, <1>16, <1>17, <1>18, <1>19,
       <1>20, <1>21, <1>22
       DEF Next, Step, Lookup, Fetch, Send, Receive, Returned

(***************************************************************************)
(* The exchange with Iris: an unanswered or rejected request has had no    *)
(* effect, and none is under way once a definite class is returned.        *)
(***************************************************************************)
LEMMA ExchangeStep == TypeOK /\ ExchangeInv /\ [Next]_vars => ExchangeInv'
<1> SUFFICES ASSUME TypeOK, ExchangeInv, [Next]_vars PROVE ExchangeInv'
    OBVIOUS
<1> USE DEF TypeOK, Phases, Wires, Classes, ExchangeInv, cacheVars, irisVars,
            Goto, Finish
<1>1. ASSUME NEW c \in Calls, LookupExpired(c) PROVE ExchangeInv'
    BY <1>1 DEF LookupExpired
<1>2. ASSUME NEW c \in Calls, LookupHit(c) PROVE ExchangeInv'
    BY <1>2 DEF LookupHit
<1>3. ASSUME NEW c \in Calls, LookupWait(c) PROVE ExchangeInv'
    BY <1>3 DEF LookupWait
<1>4. ASSUME NEW c \in Calls, LookupLead(c) PROVE ExchangeInv'
    BY <1>4 DEF LookupLead
<1>5. ASSUME NEW c \in Calls, WaitWake(c) PROVE ExchangeInv'
    BY <1>5 DEF WaitWake
<1>6. ASSUME NEW c \in Calls, WaitExpired(c) PROVE ExchangeInv'
    BY <1>6 DEF WaitExpired
<1>7. ASSUME NEW c \in Calls, FetchServed(c) PROVE ExchangeInv'
    BY <1>7 DEF FetchServed
<1>8. ASSUME NEW c \in Calls, FetchFails(c) PROVE ExchangeInv'
    BY <1>8 DEF FetchFails
<1>9. ASSUME NEW c \in Calls, FetchDone(c) PROVE ExchangeInv'
    BY <1>9 DEF FetchDone, FetchReturns
<1>10. ASSUME NEW c \in Calls, SignFails(c) PROVE ExchangeInv'
    BY <1>10 DEF SignFails
<1>11. ASSUME NEW c \in Calls, ReplayBodyFails(c) PROVE ExchangeInv'
    BY <1>11 DEF ReplayBodyFails
<1>12. ASSUME NEW c \in Calls, DialFails(c) PROVE ExchangeInv'
    BY <1>12 DEF DialFails
<1>13. ASSUME NEW c \in Calls, Transmit(c) PROVE ExchangeInv'
    BY <1>13 DEF Transmit
<1>14. ASSUME NEW c \in Calls, DoFails(c) PROVE ExchangeInv'
    BY <1>14 DEF DoFails
<1>15. ASSUME NEW c \in Calls, ReceiveOK(c) PROVE ExchangeInv'
    BY <1>15 DEF ReceiveOK
<1>16. ASSUME NEW c \in Calls, ReceiveHTTPError(c) PROVE ExchangeInv'
    BY <1>16 DEF ReceiveHTTPError
<1>17. ASSUME NEW c \in Calls, CloseFails(c) PROVE ExchangeInv'
    BY <1>17 DEF CloseFails
<1>18. ASSUME NEW c \in Calls, ReceiveMismatch(c) PROVE ExchangeInv'
    BY <1>18 DEF ReceiveMismatch, ResignOnce
<1>19. ASSUME NEW c \in Calls, Expire(c) PROVE ExchangeInv'
    BY <1>19 DEF Expire
<1>20. ASSUME NEW c \in Calls, Serve(c) PROVE ExchangeInv'
    BY <1>20 DEF Serve
<1>21. CASE Restart
    BY <1>21 DEF Restart
<1>22. CASE UNCHANGED vars
    BY <1>22 DEF vars
<1> QED
    BY <1>1, <1>2, <1>3, <1>4, <1>5, <1>6, <1>7, <1>8, <1>9, <1>10,
       <1>11, <1>12, <1>13, <1>14, <1>15, <1>16, <1>17, <1>18, <1>19,
       <1>20, <1>21, <1>22
       DEF Next, Step, Lookup, Fetch, Send, Receive, Returned

(***************************************************************************)
(* The epochs held by the cache and the calls stay ordered; this is where  *)
(* the comparison in refreshAuthEpoch and the empty cache during a         *)
(* discovery are used.                                                     *)
(***************************************************************************)
LEMMA EpochStep ==
    TypeOK /\ ChanInv /\ ExchangeInv /\ EpochInv /\ [Next]_vars => EpochInv'
<1> SUFFICES ASSUME TypeOK, ChanInv, ExchangeInv, EpochInv, [Next]_vars
             PROVE  EpochInv'
    OBVIOUS
<1> USE DEF TypeOK, Phases, EpochInv, NoEpoch, NoChan, cacheVars, irisVars,
            Goto, Finish
<1> USE DEF ChanInv, SingleFlight, Leading
<1>1. ASSUME NEW c \in Calls, LookupExpired(c) PROVE EpochInv'
    BY <1>1 DEF LookupExpired
<1>2. ASSUME NEW c \in Calls, LookupHit(c) PROVE EpochInv'
    BY <1>2 DEF LookupHit, ExchangeInv
<1>3. ASSUME NEW c \in Calls, LookupWait(c) PROVE EpochInv'
    BY <1>3 DEF LookupWait
<1>4. ASSUME NEW c \in Calls, LookupLead(c) PROVE EpochInv'
    BY <1>4 DEF LookupLead
<1>5. ASSUME NEW c \in Calls, WaitWake(c) PROVE EpochInv'
    BY <1>5 DEF WaitWake
<1>6. ASSUME NEW c \in Calls, WaitExpired(c) PROVE EpochInv'
    BY <1>6 DEF WaitExpired
<1>7. ASSUME NEW c \in Calls, FetchServed(c) PROVE EpochInv'
    BY <1>7 DEF FetchServed
<1>8. ASSUME NEW c \in Calls, FetchFails(c) PROVE EpochInv'
    BY <1>8 DEF FetchFails
<1>9. ASSUME NEW c \in Calls, FetchDone(c) PROVE EpochInv'
    BY <1>9 DEF FetchDone, FetchReturns, ExchangeInv
<1>10. ASSUME NEW c \in Calls, SignFails(c) PROVE EpochInv'
    BY <1>10 DEF SignFails
<1>11. ASSUME NEW c \in Calls, ReplayBodyFails(c) PROVE EpochInv'
    BY <1>11 DEF ReplayBodyFails
<1>12. ASSUME NEW c \in Calls, DialFails(c) PROVE EpochInv'
    BY <1>12 DEF DialFails
<1>13. ASSUME NEW c \in Calls, Transmit(c) PROVE EpochInv'
    BY <1>13 DEF Transmit
<1>14. ASSUME NEW c \in Calls, DoFails(c) PROVE EpochInv'
    BY <1>14 DEF DoFails
<1>15. ASSUME NEW c \in Calls, ReceiveOK(c) PROVE EpochInv'
    BY <1>15 DEF ReceiveOK
<1>16. ASSUME NEW c \in Calls, ReceiveHTTPError(c) PROVE EpochInv'
    BY <1>16 DEF ReceiveHTTPError
<1>17. ASSUME NEW c \in Calls, CloseFails(c) PROVE EpochInv'
    BY <1>17 DEF CloseFails
<1>18. ASSUME NEW c \in Calls, ReceiveMismatch(c) PROVE EpochInv'
    BY <1>18 DEF ReceiveMismatch, ResignOnce
<1>19. ASSUME NEW c \in Calls, Expire(c) PROVE EpochInv'
    BY <1>19 DEF Expire
<1>20. ASSUME NEW c \in Calls, Serve(c) PROVE EpochInv'
    BY <1>20 DEF Serve
<1>21. CASE Restart
    BY <1>21 DEF Restart
<1>22. CASE UNCHANGED vars
    BY <1>22 DEF vars
<1> QED
    BY <1>1, <1>2, <1>3, <1>4, <1>5, <1>6, <1>7, <1>8, <1>9, <1>10,
       <1>11, <1>12, <1>13, <1>14, <1>15, <1>16, <1>17, <1>18, <1>19,
       <1>20, <1>21, <1>22
       DEF Next, Step, Lookup, Fetch, Send, Receive, Returned

(***************************************************************************)
(* A rejected call keeps looking for an epoch newer than the rejected one. *)
(***************************************************************************)
LEMMA RejectedStep ==
    TypeOK /\ ChanInv /\ EpochInv /\ RejectedInv /\ [Next]_vars => RejectedInv'
<1> SUFFICES ASSUME TypeOK, ChanInv, EpochInv, RejectedInv, [Next]_vars
             PROVE  RejectedInv'
    OBVIOUS
<1> USE DEF TypeOK, Phases, RejectedInv, EpochInv, NoEpoch, NoChan, cacheVars,
            irisVars, Goto, Finish
<1>1. ASSUME NEW c \in Calls, LookupExpired(c) PROVE RejectedInv'
    BY <1>1 DEF LookupExpired
<1>2. ASSUME NEW c \in Calls, LookupHit(c) PROVE RejectedInv'
    BY <1>2 DEF LookupHit
<1>3. ASSUME NEW c \in Calls, LookupWait(c) PROVE RejectedInv'
    BY <1>3 DEF LookupWait
<1>4. ASSUME NEW c \in Calls, LookupLead(c) PROVE RejectedInv'
    BY <1>4 DEF LookupLead
<1>5. ASSUME NEW c \in Calls, WaitWake(c) PROVE RejectedInv'
    BY <1>5 DEF WaitWake
<1>6. ASSUME NEW c \in Calls, WaitExpired(c) PROVE RejectedInv'
    BY <1>6 DEF WaitExpired
<1>7. ASSUME NEW c \in Calls, FetchServed(c) PROVE RejectedInv'
    BY <1>7 DEF FetchServed
<1>8. ASSUME NEW c \in Calls, FetchFails(c) PROVE RejectedInv'
    BY <1>8 DEF FetchFails
<1>9. ASSUME NEW c \in Calls, FetchDone(c) PROVE RejectedInv'
    BY <1>9 DEF FetchDone, FetchReturns
<1>10. ASSUME NEW c \in Calls, SignFails(c) PROVE RejectedInv'
    BY <1>10 DEF SignFails
<1>11. ASSUME NEW c \in Calls, ReplayBodyFails(c) PROVE RejectedInv'
    BY <1>11 DEF ReplayBodyFails
<1>12. ASSUME NEW c \in Calls, DialFails(c) PROVE RejectedInv'
    BY <1>12 DEF DialFails
<1>13. ASSUME NEW c \in Calls, Transmit(c) PROVE RejectedInv'
    BY <1>13 DEF Transmit
<1>14. ASSUME NEW c \in Calls, DoFails(c) PROVE RejectedInv'
    BY <1>14 DEF DoFails
<1>15. ASSUME NEW c \in Calls, ReceiveOK(c) PROVE RejectedInv'
    BY <1>15 DEF ReceiveOK
<1>16. ASSUME NEW c \in Calls, ReceiveHTTPError(c) PROVE RejectedInv'
    BY <1>16 DEF ReceiveHTTPError
<1>17. ASSUME NEW c \in Calls, CloseFails(c) PROVE RejectedInv'
    BY <1>17 DEF CloseFails
<1>18. ASSUME NEW c \in Calls, ReceiveMismatch(c) PROVE RejectedInv'
    BY <1>18 DEF ReceiveMismatch, ResignOnce
<1>19. ASSUME NEW c \in Calls, Expire(c) PROVE RejectedInv'
    BY <1>19 DEF Expire
<1>20. ASSUME NEW c \in Calls, Serve(c) PROVE RejectedInv'
    BY <1>20 DEF Serve
<1>21. CASE Restart
    BY <1>21 DEF Restart
<1>22. CASE UNCHANGED vars
    BY <1>22 DEF vars
<1> QED
    BY <1>1, <1>2, <1>3, <1>4, <1>5, <1>6, <1>7, <1>8, <1>9, <1>10,
       <1>11, <1>12, <1>13, <1>14, <1>15, <1>16, <1>17, <1>18, <1>19,
       <1>20, <1>21, <1>22
       DEF Next, Step, Lookup, Fetch, Send, Receive, Returned

(***************************************************************************)
(* A discovery that succeeds finds an epoch nobody has discovered before.  *)
(***************************************************************************)
LEMMA DiscoveryStep ==
    TypeOK /\ ChanInv /\ EpochInv /\ OneDiscoveryPerBoot /\ [Next]_vars
        => OneDiscoveryPerBoot'
<1> SUFFICES ASSUME TypeOK, ChanInv, EpochInv, OneDiscoveryPerBoot, [Next]_vars
             PROVE  OneDiscoveryPerBoot'
    OBVIOUS
<1> USE DEF OneDiscoveryPerBoot, TypeOK, NoEpoch, cacheVars, irisVars
<1>1. ASSUME NEW c \in Calls, FetchServed(c) PROVE OneDiscoveryPerBoot'
    <2>1. value = NoEpoch
        BY <1>1 DEF FetchServed, ChanInv, SingleFlight, Leading
    <2>2. \A d \in Calls : d # c => got[d] < boot
        BY <1>1, <2>1 DEF FetchServed, ChanInv, SingleFlight, Leading, EpochInv
    <2> QED
        BY <1>1, <2>2 DEF FetchServed
<1>2. ASSUME NEW c \in Calls, FetchFails(c) PROVE OneDiscoveryPerBoot'
    BY <1>2 DEF FetchFails
<1>3. CASE UNCHANGED got
    BY <1>3
<1>4. ASSUME NEW c \in Calls,
             Lookup(c) \/ WaitWake(c) \/ WaitExpired(c) \/ FetchDone(c) \/ Send(c)
      PROVE  UNCHANGED got
    BY <1>4 DEF Lookup, LookupExpired, LookupHit, LookupWait, LookupLead,
        WaitWake, WaitExpired, FetchDone, Send, SignFails, ReplayBodyFails,
        DialFails, Transmit
<1>5. ASSUME NEW c \in Calls, Receive(c) \/ DoFails(c) \/ Expire(c) \/ Serve(c)
      PROVE  UNCHANGED got
    BY <1>5 DEF Receive, ReceiveOK, ReceiveHTTPError, CloseFails, ReceiveMismatch,
        DoFails, Expire, Serve
<1>6. Restart \/ UNCHANGED vars => UNCHANGED got
    BY DEF Restart, vars
<1> QED
    BY <1>1, <1>2, <1>3, <1>4, <1>5, <1>6 DEF Next, Step, Fetch, Returned

-----------------------------------------------------------------------------
IInv ==
    /\ TypeOK
    /\ ChanInv
    /\ ExchangeInv
    /\ EpochInv
    /\ RejectedInv
    /\ OneDiscoveryPerBoot

\* The inductive invariant holds in every reachable state.
LEMMA Invariance == Spec => []IInv
<1>1. Init => IInv
    BY DEF Init, IInv, TypeOK, Phases, Wires, Classes, ChanInv, SingleFlight,
        NoLostWakeup, Leading, ExchangeInv, EpochInv, RejectedInv,
        OneDiscoveryPerBoot, NoEpoch, NoChan
<1>2. IInv /\ [Next]_vars => IInv'
    BY TypeStep, ChanStep, ExchangeStep, EpochStep, RejectedStep, DiscoveryStep
       DEF IInv
<1> QED
    BY <1>1, <1>2, PTL DEF Spec

(***************************************************************************)
(* The state of the client and of the calls is well-typed: in particular   *)
(* authEpoch never closes a nil channel.                                   *)
(***************************************************************************)
THEOREM TypeCorrect == Spec => []TypeOK
<1>1. IInv => TypeOK
    BY DEF IInv
<1> QED
    BY <1>1, Invariance, PTL

(***************************************************************************)
(* Epoch discovery is single-flight for any number of concurrent calls.    *)
(***************************************************************************)
THEOREM SingleFlightHolds == Spec => []SingleFlight
<1>1. IInv => SingleFlight
    BY DEF IInv, ChanInv
<1> QED
    BY <1>1, Invariance, PTL

(***************************************************************************)
(* No follower of a discovery waits on a channel that nobody will close.   *)
(***************************************************************************)
THEOREM NoLostWakeupHolds == Spec => []NoLostWakeup
<1>1. IInv => NoLostWakeup
    BY DEF IInv, ChanInv
<1> QED
    BY <1>1, Invariance, PTL

(***************************************************************************)
(* One successful GET /auth/epoch per boot of Iris, however many calls     *)
(* find the cache empty or their epoch rejected.                           *)
(***************************************************************************)
THEOREM OneDiscoveryPerBootHolds == Spec => []OneDiscoveryPerBoot
<1>1. IInv => OneDiscoveryPerBoot
    BY DEF IInv
<1> QED
    BY <1>1, Invariance, PTL

(***************************************************************************)
(* A cached current epoch is never dropped by a late rejection of an old   *)
(* one and never overwritten by a slow discovery.                          *)
(***************************************************************************)
THEOREM CurrentEpochKeptHolds == Spec => CurrentEpochKept
<1> DEFINE Kept == value = boot /\ boot' = boot => value' = value
<1>1. IInv /\ [Next]_vars => [Kept]_vars
    <2> SUFFICES ASSUME IInv, Next, value = boot, boot' = boot PROVE value' = value
        OBVIOUS
    <2> USE DEF cacheVars, irisVars
    <2>1. ASSUME NEW c \in Calls, FetchDone(c) PROVE value' = value
        BY <2>1 DEF FetchDone, IInv, TypeOK, ChanInv, SingleFlight, Leading, NoEpoch
    <2>2. ASSUME NEW c \in Calls, ReceiveMismatch(c) PROVE value' = value
        BY <2>2 DEF ReceiveMismatch, IInv, TypeOK, EpochInv
    <2>3. ASSUME NEW c \in Calls,
                 Lookup(c) \/ WaitWake(c) \/ WaitExpired(c) \/ Fetch(c) \/ Send(c)
          PROVE  value' = value
        BY <2>3 DEF Lookup, LookupExpired, LookupHit, LookupWait, LookupLead,
            WaitWake, WaitExpired, Fetch, FetchServed, FetchFails, Send, SignFails,
            ReplayBodyFails, DialFails, Transmit
    <2>4. ASSUME NEW c \in Calls,
                 \/ ReceiveOK(c) \/ ReceiveHTTPError(c) \/ CloseFails(c)
                 \/ DoFails(c) \/ Expire(c) \/ Serve(c)
          PROVE  value' = value
        BY <2>4 DEF ReceiveOK, ReceiveHTTPError, CloseFails, DoFails, Expire, Serve
    <2>5. Restart \/ Returned => value' = value
        BY DEF Restart, Returned, vars
    <2> QED
        BY <2>1, <2>2, <2>3, <2>4, <2>5 DEF Next, Step, Receive
<1> QED
    BY <1>1, Invariance, PTL DEF Spec, CurrentEpochKept

(***************************************************************************)
(* The one replay of a call is signed with a newer epoch than the one Iris *)
(* rejected.                                                               *)
(***************************************************************************)
THEOREM ReplayIsNewerHolds == Spec => ReplayIsNewer
<1> DEFINE Newer ==
        \A c \in Calls :
            refreshed[c] /\ pc[c] # "signed" /\ pc'[c] = "signed"
                => used'[c] > used[c]
<1>1. IInv /\ [Next]_vars => [Newer]_vars
    <2> SUFFICES ASSUME IInv, Next, NEW d \in Calls,
                        refreshed[d], pc[d] # "signed", pc'[d] = "signed"
                 PROVE  used'[d] > used[d]
        OBVIOUS
    <2> USE DEF IInv, TypeOK, Phases, Goto, Finish, cacheVars, irisVars
    <2>1. ASSUME NEW c \in Calls, LookupHit(c) PROVE used'[d] > used[d]
        BY <2>1 DEF LookupHit, RejectedInv
    <2>2. ASSUME NEW c \in Calls, FetchDone(c) PROVE used'[d] > used[d]
        BY <2>2 DEF FetchDone, FetchReturns, EpochInv
    <2>3. ASSUME NEW c \in Calls,
                 \/ LookupExpired(c) \/ LookupWait(c) \/ LookupLead(c)
                 \/ WaitWake(c) \/ WaitExpired(c)
          PROVE  FALSE
        BY <2>3 DEF LookupExpired, LookupWait, LookupLead, WaitWake, WaitExpired
    <2>4. ASSUME NEW c \in Calls, Fetch(c) \/ Send(c) PROVE FALSE
        BY <2>4 DEF Fetch, FetchServed, FetchFails, Send, SignFails,
            ReplayBodyFails, DialFails, Transmit
    <2>5. ASSUME NEW c \in Calls, Receive(c) \/ DoFails(c) PROVE FALSE
        BY <2>5 DEF Receive, ReceiveOK, ReceiveHTTPError, CloseFails,
            ReceiveMismatch, ResignOnce, DoFails
    <2>6. ASSUME NEW c \in Calls, Expire(c) \/ Serve(c) PROVE FALSE
        BY <2>6 DEF Expire, Serve
    <2>7. ~Restart /\ ~Returned
        BY DEF Restart, Returned, vars
    <2> QED
        BY <2>1, <2>2, <2>3, <2>4, <2>5, <2>6, <2>7 DEF Next, Step, Lookup
<1> QED
    BY <1>1, Invariance, PTL DEF Spec, ReplayIsNewer

-----------------------------------------------------------------------------
(***************************************************************************)
(* The send loop of `do` keeps the promise of CallOutcome: ErrNotSent and  *)
(* success tell the truth about the side effect, also about what a request *)
(* still on the wire does after the call returned.                         *)
(***************************************************************************)
THEOREM OutcomeHolds == Spec => OutcomeIsTruthful
<1> USE DEF Outcome!outcomeVars
<1>1. Init => Outcome!OutcomeInit
    BY DEF Init, Outcome!OutcomeInit
<1>2. IInv /\ [Next]_vars => [Outcome!OutcomeNext]_(Outcome!outcomeVars)
    <2> SUFFICES ASSUME IInv, [Next]_vars
                 PROVE  Outcome!OutcomeNext \/ UNCHANGED <<applied, result>>
        OBVIOUS
    <2> DEFINE Mapped == Outcome!OutcomeNext \/ UNCHANGED <<applied, result>>
    <2> USE DEF irisVars, cacheVars, Goto, TypeOK, ExchangeInv
    \* A return that agrees with the effect is a Report of the class.
    <2>1. ASSUME NEW c \in Calls, NEW r \in Outcome!Results, Finish(c, r),
                 UNCHANGED applied, pc[c] # "done",
                 r = "ok" => applied[c] = 1,
                 r \in {"notSent", "invalid"} => applied[c] = 0
          PROVE  Mapped
        <3>1. result[c] = "none"
            BY <2>1 DEF IInv
        <3>2. Outcome!Report(c, r)
            BY <2>1, <3>1 DEF Outcome!Report, Finish
        <3> QED
            BY <3>2 DEF Outcome!OutcomeNext
    <2>2. ASSUME NEW c \in Calls, LookupExpired(c) \/ WaitExpired(c) \/ FetchDone(c)
          PROVE  Mapped
        <3>1. UNCHANGED applied /\ pc[c] # "done" /\ applied[c] = 0
            BY <2>2 DEF IInv, LookupExpired, WaitExpired, FetchDone
        <3>2. Finish(c, "notSent") \/ UNCHANGED result
            BY <2>2 DEF LookupExpired, WaitExpired, FetchDone, FetchReturns
        <3> QED
            BY <2>1, <3>1, <3>2 DEF Outcome!Results
    <2>3. ASSUME NEW c \in Calls, Send(c) PROVE Mapped
        <3>1. UNCHANGED applied /\ pc[c] # "done" /\ applied[c] = 0
            BY <2>3 DEF IInv, Send, SignFails, ReplayBodyFails, DialFails, Transmit
        <3>2. \/ Finish(c, "notSent") \/ Finish(c, "invalid")
              \/ Finish(c, "transport") \/ UNCHANGED result
            BY <2>3 DEF Send, SignFails, ReplayBodyFails, DialFails, Transmit
        <3> QED
            BY <2>1, <3>1, <3>2 DEF Outcome!Results
    <2>4. ASSUME NEW c \in Calls, ReceiveOK(c) PROVE Mapped
        <3>1. UNCHANGED applied /\ pc[c] # "done" /\ applied[c] = 1
            BY <2>4 DEF IInv, ReceiveOK
        <3> QED
            BY <2>1, <2>4, <3>1 DEF ReceiveOK, Outcome!Results
    <2>5. ASSUME NEW c \in Calls, ReceiveHTTPError(c) \/ DoFails(c) PROVE Mapped
        <3>1. UNCHANGED applied /\ pc[c] # "done"
            BY <2>5 DEF ReceiveHTTPError, DoFails
        <3>2. Finish(c, "http") \/ Finish(c, "transport")
            BY <2>5 DEF ReceiveHTTPError, DoFails
        <3> QED
            BY <2>1, <3>1, <3>2 DEF Outcome!Results
    <2>6. ASSUME NEW c \in Calls, CloseFails(c) \/ ReceiveMismatch(c) PROVE Mapped
        <3>1. UNCHANGED applied /\ pc[c] # "done" /\ applied[c] = 0
            BY <2>6 DEF IInv, CloseFails, ReceiveMismatch
        <3>2. Finish(c, "notSent") \/ UNCHANGED result
            BY <2>6 DEF CloseFails, ReceiveMismatch, ResignOnce
        <3> QED
            BY <2>1, <3>1, <3>2 DEF Outcome!Results
    \* Only a request on the wire is performed, and its call still runs or
    \* was told that the outcome is unknown.
    <2>7. ASSUME NEW c \in Calls, Serve(c) PROVE Mapped
        <3>1. applied[c] = 0 /\ result[c] \in {"none", "transport"}
            BY <2>7 DEF IInv, Serve
        <3>2. UNCHANGED <<applied, result>> \/ Outcome!Apply(c)
            BY <2>7, <3>1 DEF IInv, Serve, Outcome!Apply
        <3> QED
            BY <3>2 DEF Outcome!OutcomeNext
    <2>8. ASSUME NEW c \in Calls,
                 \/ LookupHit(c) \/ LookupWait(c) \/ LookupLead(c)
                 \/ WaitWake(c) \/ Fetch(c) \/ Expire(c)
          PROVE  Mapped
        BY <2>8 DEF LookupHit, LookupWait, LookupLead, WaitWake, Fetch,
            FetchServed, FetchFails, Expire
    <2>9. Restart \/ UNCHANGED vars => Mapped
        BY DEF Restart, vars
    <2> QED
        BY <2>2, <2>3, <2>4, <2>5, <2>6, <2>7, <2>8, <2>9
           DEF Next, Step, Lookup, Receive, Returned
<1> QED
    BY <1>1, <1>2, Invariance, PTL DEF Spec, OutcomeIsTruthful, Outcome!OutcomeSpec
=============================================================================
