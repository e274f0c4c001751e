-------------------------- MODULE ReplyReissueProofs --------------------------
(***************************************************************************)
(* Proofs about ReplyReissue for any number of generations, any retention, *)
(* any margin within it, and any number of calls and crashes.              *)
(***************************************************************************)
EXTENDS ReplyReissue, TLAPS

\* The id of a generation.
Rung(g) == IF g = 0 THEN Original ELSE <<g>>

\* No record that was made since the reply was first sent is forgotten yet.
Fresh == now <= ReplyAdmissionRetention

\* The last call ended with the conflict "failed before the handoff".
Failed == \E e \in err : ClientRequestIDConflictCode(e) = "CLIENT_REQUEST_ID_FAILED"

\* An id the caller uses, or that Iris knows or may still be sent.
Active(i) == i = id \/ ledger[i] # "absent" \/ \E m \in net : m.id = i

\* A request was sent within the horizon and is under way no longer than the
\* margin, so no request outlives a record.
NetInv ==
    /\ now \in Nat /\ calls \in Nat
    /\ id \in Ids
    /\ ledger \in [Ids -> {"absent", "failed", "accepted", "unknown"}]
    /\ since \in [Ids -> Nat]
    /\ \A m \in net :
          /\ m.id \in Ids /\ m.call \in Nat /\ m.at \in Nat
          /\ m.call <= calls
          /\ m.at <= ReplyAutomaticReplayHorizon
          /\ now <= m.at + ReplyReplayHorizonMargin
    /\ pc = "wait" => \A m \in net : m.call = calls => m.id = id

\* Where the caller is on the ladder. A caller that keeps the id in use never
\* goes back to a lower one, and one whose id is too long never leaves it.
CallerInv ==
    /\ pc \in {"send", "wait", "handle", "done"}
    /\ stores \in {"original", "current"}
    /\ gen \in Generations
    /\ base = Original => id = Rung(gen)
    /\ base # Original => stores = "current"
    /\ stores = "current" =>
          \A g, h \in Generations : id = Rung(g) /\ Active(Rung(h)) => h <= g
    /\ ~fits => \A i \in Ids : Active(i) => i = Original

\* As long as the records are kept, a generation is in use only when all the
\* ones before it are recorded as failed; a reply that was handed off has a
\* record that says so or leaves it open.
LadderInv ==
    /\ applied \in {0, 1}
    /\ Fresh =>
          /\ \A g, h \in Generations :
                h < g /\ Active(Rung(g)) => ledger[Rung(h)] = "failed"
          /\ applied = 1 => \E i \in Ids : ledger[i] \in {"accepted", "unknown"}
          /\ pc = "handle" /\ Failed => ledger[id] = "failed"

\* The reply was not handed off, and no request under way can change that.
Silent ==
    /\ applied = 0
    /\ Fresh => \A m \in net : ledger[m.id] = "failed"

\* The caller has no further generation.
Ended ==
    \/ pc = "done"
    \/ pc = "handle" /\ ReissuedClientRequestID(base, gen + 1) = {}

SilentInv == Ended /\ Failed => Silent

IInv == NetInv /\ CallerInv /\ LadderInv /\ SilentInv

-----------------------------------------------------------------------------
\* Generations and their ids

\* An id is the id of exactly one generation (ReissuedClientRequestID).
LEMMA Rungs ==
    /\ 0 \in Generations /\ Original \in Ids /\ Rung(0) = Original
    /\ \A g \in Generations : Rung(g) \in Ids /\ g \in Nat
    /\ \A g, h \in Generations : Rung(g) = Rung(h) => g = h
    /\ \A i \in Ids : \E g \in Generations : i = Rung(g)
<1>1. /\ 0 \in Generations /\ Original \in Ids /\ Rung(0) = Original
    BY LadderAssumption DEF Generations, Ids, Rung
<1>2. ASSUME NEW g \in Generations PROVE Rung(g) \in Ids /\ g \in Nat
    BY LadderAssumption DEF Generations, Ids, Rung
<1>3. ASSUME NEW g \in Generations, NEW h \in Generations, Rung(g) = Rung(h) PROVE g = h
    BY <1>3 DEF Rung, Original
<1>4. ASSUME NEW i \in Ids PROVE \E g \in Generations : i = Rung(g)
    <2>1. CASE i = Original
        BY <1>1, <2>1
    <2>2. CASE i # Original
        <3>1. PICK g \in 1..ReplyReissueMaxGenerations : i = <<g>>
            BY <2>2 DEF Ids
        <3>2. g \in Generations /\ Rung(g) = <<g>>
            BY LadderAssumption DEF Generations, Rung
        <3> QED
            BY <3>1, <3>2
    <2> QED
        BY <2>1, <2>2
<1> QED
    BY <1>1, <1>2, <1>3, <1>4

\* What the next generation is, if there is one.
LEMMA NextRung ==
    ASSUME NEW i \in ReissuedClientRequestID(base, gen + 1), gen \in Generations
    PROVE  base = Original /\ fits /\ gen + 1 \in Generations /\ i = Rung(gen + 1)
<1>1. gen + 1 \in 1..ReplyReissueMaxGenerations /\ base = Original /\ fits /\ i = <<gen + 1>>
    BY DEF ReissuedClientRequestID
<1> QED
    BY <1>1, LadderAssumption DEF Generations, Rung

\* There is no request under way once a record may have been forgotten
\* (ReplyAutomaticReplayHorizon).
LEMMA NetIsFresh == ASSUME NetInv, NEW m \in net PROVE Fresh
<1>1. /\ now \in Nat /\ m.at \in Nat /\ m.at <= ReplyAutomaticReplayHorizon
      /\ now <= m.at + ReplyReplayHorizonMargin
    BY DEF NetInv
<1> QED
    BY <1>1, LadderAssumption DEF ReplyAutomaticReplayHorizon, Fresh

\* A record that is forgotten is older than the retention.
LEMMA ForgetIsLate == ASSUME NetInv, NEW i \in Ids, Forget(i) PROVE ~Fresh
<1>1. now \in Nat /\ since[i] \in Nat /\ now > since[i] + ReplyAdmissionRetention
    BY DEF NetInv, Forget
<1> QED
    BY <1>1, LadderAssumption DEF Fresh

-----------------------------------------------------------------------------
\* The steps

\* Requests and records keep their types and their ages.
LEMMA NetStep == NetInv /\ CallerInv /\ [Next]_vars => NetInv'
<1> SUFFICES ASSUME NetInv, CallerInv, [Next]_vars PROVE NetInv'
    OBVIOUS
<1>1. ASSUME UNCHANGED <<now, calls, ledger, since, net>>, id' \in Ids, pc' # "wait" \/ UNCHANGED <<id, pc>>
      PROVE  NetInv'
    BY <1>1 DEF NetInv
<1>2. CASE Send
    <2>1. /\ now <= ReplyAutomaticReplayHorizon /\ calls' = calls + 1 /\ pc' = "wait"
          /\ net' = net \cup {[id |-> id, call |-> calls + 1, at |-> now]}
          /\ UNCHANGED <<now, id, ledger, since>>
        BY <1>2 DEF Send, irisVars
    <2>2. ReplyReplayHorizonMargin \in Nat
        BY LadderAssumption
    <2>3. now \in Nat /\ calls \in Nat /\ calls' \in Nat
        BY <2>1 DEF NetInv
    <2>4. ASSUME NEW m \in net'
          PROVE  /\ m.id \in Ids /\ m.call \in Nat /\ m.at \in Nat
                 /\ m.call <= calls'
                 /\ m.at <= ReplyAutomaticReplayHorizon
                 /\ now <= m.at + ReplyReplayHorizonMargin
                 /\ m.call = calls' => m.id = id
        <3>1. CASE m \in net
            <4>1. m.call \in Nat /\ m.call <= calls
                BY <3>1 DEF NetInv
            <4>2. m.call <= calls' /\ m.call # calls'
                BY <2>1, <2>3, <4>1
            <4> QED
                BY <3>1, <4>2 DEF NetInv
        <3>2. CASE m = [id |-> id, call |-> calls + 1, at |-> now]
            <4>1. m.id = id /\ m.call = calls' /\ m.at = now
                BY <2>1, <3>2
            <4>2. now <= now + ReplyReplayHorizonMargin /\ calls' <= calls'
                BY <2>2, <2>3
            <4> QED
                BY <2>1, <2>3, <4>1, <4>2 DEF NetInv
        <3> QED
            BY <2>1, <2>4, <3>1, <3>2
    <2> QED
        BY <2>1, <2>3, <2>4 DEF NetInv
<1>3. CASE GiveUp \/ Lost
    BY <1>1, <1>3 DEF GiveUp, Lost, irisVars, NetInv
<1>4. CASE Handle
    <2>1. UNCHANGED <<now, calls, ledger, since, net>> /\ pc' \in {"send", "done"}
        BY <1>4 DEF Handle, irisVars
    <2>2. id' = id \/ id' \in ReissuedClientRequestID(base, gen + 1)
        BY <1>4 DEF Handle
    <2>3. id' \in Ids
        <3>1. gen \in Generations
            BY DEF CallerInv
        <3> QED
            BY <2>2, <3>1, NextRung, Rungs DEF NetInv
    <2> QED
        BY <1>1, <2>1, <2>3
<1>5. CASE Crash
    <2>1. UNCHANGED <<now, calls, ledger, since, net>> /\ pc' = "send" /\ id' \in {Original, id}
        BY <1>5 DEF Crash, irisVars
    <2> QED
        BY <1>1, <2>1, Rungs DEF NetInv
<1>6. ASSUME NEW m \in net, Serve(m) PROVE NetInv'
    BY <1>1, <1>6 DEF Serve, irisVars, NetInv
<1>7. ASSUME NEW m \in net, Admit(m) PROVE NetInv'
    <2>1. UNCHANGED <<now, calls, id, pc, net>> /\ since' = [since EXCEPT ![m.id] = now]
        BY <1>7 DEF Admit, callerVars
    <2>2. PICK r \in {"accepted", "failed", "unknown"} : ledger' = [ledger EXCEPT ![m.id] = r]
        BY <1>7 DEF Admit
    <2> QED
        BY <2>1, <2>2 DEF NetInv
<1>8. ASSUME NEW i \in Ids, Forget(i) PROVE NetInv'
    BY <1>8 DEF Forget, callerVars, NetInv
<1>9. CASE Tick
    <2>1. /\ now' = now + 1 /\ net' = {m \in net : now' <= m.at + ReplyReplayHorizonMargin}
          /\ UNCHANGED <<calls, id, ledger, since, pc>>
        BY <1>9 DEF Tick, callerVars, irisVars
    <2>2. now' \in Nat
        BY <2>1 DEF NetInv
    <2> QED
        BY <2>1, <2>2 DEF NetInv
<1>10. CASE Quiet \/ UNCHANGED vars
    BY <1>1, <1>10 DEF Quiet, vars, callerVars, irisVars, NetInv
<1> QED
    BY <1>2, <1>3, <1>4, <1>5, <1>6, <1>7, <1>8, <1>9, <1>10 DEF Next

\* A step that neither moves the caller to another id nor adds a request or a
\* record makes no id active.
LEMMA StaysActive ==
    ASSUME id' = id, net' \subseteq net, NEW i, ledger'[i] = ledger[i] \/ ledger'[i] = "absent",
           Active(i)'
    PROVE  Active(i)
    BY DEF Active

\* The caller goes up the ladder (README.md, reply_reissue.go).
LEMMA CallerStep == NetInv /\ CallerInv /\ [Next]_vars => CallerInv'
<1> SUFFICES ASSUME NetInv, CallerInv, [Next]_vars PROVE CallerInv'
    OBVIOUS
<1>1. ASSUME UNCHANGED <<base, gen, id, stores, fits>>, pc' \in {"send", "wait", "handle", "done"},
             \A i \in Ids : Active(i)' => Active(i)
      PROVE  CallerInv'
    BY <1>1, Rungs DEF CallerInv
<1>2. ASSUME UNCHANGED <<base, gen, id, stores, fits, net>>,
             pc' \in {"send", "wait", "handle", "done"},
             \A i \in Ids : ledger'[i] = ledger[i] \/ ledger'[i] = "absent"
      PROVE  CallerInv'
    <2>1. \A i \in Ids : Active(i)' => Active(i)
        BY <1>2, StaysActive
    <2> QED
        BY <1>1, <1>2, <2>1
<1>3. CASE Send
    <2>1. /\ net' = net \cup {[id |-> id, call |-> calls + 1, at |-> now]} /\ pc' = "wait"
          /\ UNCHANGED <<base, gen, id, stores, fits, ledger>>
        BY <1>3 DEF Send, irisVars
    <2>2. ASSUME NEW i \in Ids, Active(i)' PROVE Active(i)
        <3>1. \A m \in net' : m \in net \/ m.id = id
            BY <2>1
        <3> QED
            BY <2>1, <2>2, <3>1 DEF Active
    <2> QED
        BY <1>1, <2>1, <2>2
<1>4. CASE GiveUp \/ Lost
    BY <1>2, <1>4 DEF GiveUp, Lost, irisVars
<1>5. CASE Handle
    <2>1. UNCHANGED <<base, stores, fits, net, ledger>>
        BY <1>5 DEF Handle, irisVars
    <2>2. CASE UNCHANGED <<id, gen>> /\ pc' = "done"
        BY <1>2, <2>1, <2>2
    <2>3. CASE id' \in ReissuedClientRequestID(base, gen + 1) /\ gen' = gen + 1 /\ pc' = "send"
        <3>1. gen \in Generations
            BY DEF CallerInv
        <3>2. base = Original /\ fits /\ gen' \in Generations /\ id' = Rung(gen')
            BY <2>3, <3>1, NextRung
        <3>3. id = Rung(gen)
            BY <3>2 DEF CallerInv
        <3>4. ASSUME stores = "current", NEW g \in Generations, NEW h \in Generations,
                     id' = Rung(g), Active(Rung(h))'
              PROVE  h <= g
            <4>1. g = gen'
                BY <3>2, <3>4, Rungs
            <4>2. CASE Rung(h) = id'
                <5>1. h = g
                    BY <3>4, <4>2, Rungs
                <5> QED
                    BY <5>1, Rungs
            <4>3. CASE Rung(h) # id'
                <5>1. Active(Rung(h))
                    BY <2>1, <3>4, <4>3 DEF Active
                <5>2. h <= gen
                    BY <3>1, <3>3, <3>4, <5>1 DEF CallerInv
                <5> QED
                    BY <2>3, <3>1, <4>1, <5>2, Rungs
            <4> QED
                BY <4>2, <4>3
        <3> QED
            BY <2>1, <2>3, <3>2, <3>4 DEF CallerInv
    <2> QED
        BY <1>5, <2>2, <2>3 DEF Handle
<1>6. CASE Crash
    <2>1. /\ UNCHANGED <<stores, fits, net, ledger>> /\ pc' = "send" /\ gen' = 0 /\ id' = base'
          /\ base' = IF stores = "original" THEN Original ELSE id
        BY <1>6 DEF Crash, irisVars
    <2>2. gen' \in Generations /\ (base' = Original => id' = Rung(gen'))
        BY <2>1, Rungs
    <2>3. CASE stores = "current"
        <3>1. id' = id
            BY <2>1, <2>3
        <3>2. \A i \in Ids : Active(i)' => Active(i)
            BY <2>1, <3>1, StaysActive
        <3> QED
            BY <2>1, <2>2, <2>3, <3>1, <3>2, Rungs DEF CallerInv
    <2>4. CASE stores # "current"
        <3>1. base' \in {Original, id} /\ (base' # Original => stores = "current")
            BY <2>1, <2>4 DEF CallerInv
        <3> QED
            BY <2>1, <2>2, <2>4, <3>1 DEF CallerInv, Active
    <2> QED
        BY <2>3, <2>4
<1>7. ASSUME NEW m \in net, Serve(m) PROVE CallerInv'
    BY <1>2, <1>7 DEF Serve, irisVars
<1>8. ASSUME NEW m \in net, Admit(m) PROVE CallerInv'
    <2>1. UNCHANGED <<base, gen, id, pc, stores, fits, net>> /\ pc' \in {"send", "wait", "handle", "done"}
        BY <1>8 DEF Admit, callerVars, CallerInv
    <2>2. PICK r \in {"accepted", "failed", "unknown"} : ledger' = [ledger EXCEPT ![m.id] = r]
        BY <1>8 DEF Admit
    <2>3. ASSUME NEW i \in Ids, Active(i)' PROVE Active(i)
        <3>1. CASE i = m.id
            BY <3>1 DEF Active
        <3>2. CASE i # m.id
            <4>1. ledger'[i] = ledger[i]
                BY <2>2, <3>2 DEF NetInv
            <4> QED
                BY <2>1, <2>3, <4>1, StaysActive
        <3> QED
            BY <3>1, <3>2
    <2> QED
        BY <1>1, <2>1, <2>3
<1>9. ASSUME NEW j \in Ids, Forget(j) PROVE CallerInv'
    <2>1. UNCHANGED <<base, gen, id, pc, stores, fits, net>> /\ pc' \in {"send", "wait", "handle", "done"}
        BY <1>9 DEF Forget, callerVars, CallerInv
    <2>2. \A i \in Ids : ledger'[i] = ledger[i] \/ ledger'[i] = "absent"
        BY <1>9 DEF Forget, NetInv
    <2> QED
        BY <1>2, <2>1, <2>2
<1>10. CASE Tick
    <2>1. /\ UNCHANGED <<base, gen, id, pc, stores, fits, ledger>> /\ net' \subseteq net
          /\ pc' \in {"send", "wait", "handle", "done"}
        BY <1>10 DEF Tick, callerVars, irisVars, CallerInv
    <2>2. \A i \in Ids : Active(i)' => Active(i)
        BY <2>1, StaysActive
    <2> QED
        BY <1>1, <2>1, <2>2
<1>11. CASE Quiet \/ UNCHANGED vars
    BY <1>2, <1>11 DEF Quiet, vars, callerVars, irisVars, CallerInv
<1> QED
    BY <1>3, <1>4, <1>5, <1>6, <1>7, <1>8, <1>9, <1>10, <1>11 DEF Next

\* What Iris answers from its record is the conflict "failed" only for one.
LEMMA FailedMeansFailed ==
    ASSUME NEW record, err' = Recorded(record), Failed'
    PROVE  record = "failed"
<1>1. record # "failed" => Recorded(record) \subseteq {HTTPError(409, "CLIENT_REQUEST_ID_OUTCOME_UNKNOWN")}
    BY DEF Recorded
<1>2. ClientRequestIDConflictCode(HTTPError(409, "CLIENT_REQUEST_ID_OUTCOME_UNKNOWN")) #
        "CLIENT_REQUEST_ID_FAILED"
    BY DEF ClientRequestIDConflictCode, HTTPError, ConflictCodes, NoCode
<1> QED
    BY <1>1, <1>2 DEF Failed

\* A generation is opened only over failed ones, and a handoff is recorded.
LEMMA LadderStep == NetInv /\ CallerInv /\ LadderInv /\ [Next]_vars => LadderInv'
<1> SUFFICES ASSUME NetInv, CallerInv, LadderInv, [Next]_vars PROVE LadderInv'
    OBVIOUS
<1>1. ASSUME UNCHANGED <<applied, ledger>>, Fresh' => Fresh,
             Fresh /\ pc' = "handle" /\ Failed' => ledger[id'] = "failed",
             \A g \in Generations \ {0} : Active(Rung(g))' => Active(Rung(g))
      PROVE  LadderInv'
    <2>1. ASSUME Fresh', NEW g \in Generations, NEW h \in Generations, h < g, Active(Rung(g))'
          PROVE  ledger'[Rung(h)] = "failed"
        <3>1. g # 0
            BY <2>1, Rungs
        <3> QED
            BY <1>1, <2>1, <3>1 DEF LadderInv
    <2> QED
        BY <1>1, <2>1 DEF LadderInv
<1>2. ASSUME UNCHANGED <<applied, ledger, id, net, now>>,
             Fresh /\ pc' = "handle" /\ Failed' => ledger[id'] = "failed"
      PROVE  LadderInv'
    <2>1. \A g \in Generations \ {0} : Active(Rung(g))' => Active(Rung(g))
        BY <1>2, StaysActive
    <2> QED
        BY <1>1, <1>2, <2>1 DEF Fresh
<1>3. CASE Send
    <2>1. /\ net' = net \cup {[id |-> id, call |-> calls + 1, at |-> now]} /\ pc' = "wait"
          /\ UNCHANGED <<id, now, ledger, applied>>
        BY <1>3 DEF Send, irisVars
    <2>2. ASSUME NEW i, Active(i)' PROVE Active(i)
        <3>1. \A m \in net' : m \in net \/ m.id = id
            BY <2>1
        <3> QED
            BY <2>1, <2>2, <3>1 DEF Active
    <2> QED
        BY <1>1, <2>1, <2>2 DEF Fresh
<1>4. CASE GiveUp \/ Lost
    BY <1>2, <1>4 DEF GiveUp, Lost, irisVars
<1>5. CASE Handle
    <2>1. UNCHANGED <<now, net, ledger, applied>> /\ pc = "handle" /\ pc' \in {"send", "done"}
        BY <1>5 DEF Handle, irisVars
    <2>2. CASE UNCHANGED id
        BY <1>2, <2>1, <2>2
    <2>3. CASE Failed /\ id' \in ReissuedClientRequestID(base, gen + 1) /\ gen' = gen + 1
        <3>1. gen \in Generations
            BY DEF CallerInv
        <3>2. base = Original /\ gen' \in Generations /\ id' = Rung(gen')
            BY <2>3, <3>1, NextRung
        <3>3. id = Rung(gen) /\ Active(id)
            BY <3>2 DEF CallerInv, Active
        <3>4. ASSUME Fresh, NEW g \in Generations, NEW h \in Generations, h < g, Active(Rung(g))'
              PROVE  ledger[Rung(h)] = "failed"
            <4>1. CASE Active(Rung(g))
                BY <3>4, <4>1 DEF LadderInv
            <4>2. CASE ~Active(Rung(g))
                <5>1. Rung(g) = Rung(gen')
                    BY <2>1, <3>2, <3>4, <4>2 DEF Active
                <5>2. g = gen + 1
                    BY <2>3, <3>2, <5>1, Rungs
                <5>3. h < gen \/ h = gen
                    BY <3>1, <3>4, <5>2, Rungs
                <5>4. CASE h < gen
                    BY <3>1, <3>3, <3>4, <5>4 DEF LadderInv
                <5>5. CASE h = gen
                    BY <2>1, <2>3, <3>3, <3>4, <5>5 DEF LadderInv
                <5> QED
                    BY <5>3, <5>4, <5>5
            <4> QED
                BY <4>1, <4>2
        <3>5. Fresh' <=> Fresh
            BY <2>1 DEF Fresh
        <3> QED
            BY <2>1, <3>4, <3>5 DEF LadderInv
    <2> QED
        BY <1>5, <2>2, <2>3 DEF Handle, Failed, IsPreHandoffClientRequestIDConflict
<1>6. CASE Crash
    <2>1. /\ UNCHANGED <<now, net, ledger, applied>> /\ pc' = "send" /\ id' \in {Original, id}
        BY <1>6 DEF Crash, irisVars
    <2>2. ASSUME NEW g \in Generations \ {0}, Active(Rung(g))' PROVE Active(Rung(g))
        <3>1. Rung(g) # Original
            BY Rungs
        <3> QED
            BY <2>1, <2>2, <3>1 DEF Active
    <2> QED
        BY <1>1, <2>1, <2>2 DEF Fresh
<1>7. ASSUME NEW m \in net, Serve(m) PROVE LadderInv'
    <2>1. /\ m.call = calls /\ pc = "wait" /\ err' = Recorded(ledger[m.id])
          /\ UNCHANGED <<now, net, id, ledger, applied>>
        BY <1>7 DEF Serve, irisVars
    <2>2. m.id = id
        BY <2>1 DEF NetInv
    <2> QED
        BY <1>2, <2>1, <2>2, FailedMeansFailed
<1>8. ASSUME NEW m \in net, Admit(m) PROVE LadderInv'
    <2>1. UNCHANGED <<now, net, id, pc, err>> /\ ledger[m.id] = "absent" /\ m.id \in Ids
        BY <1>8 DEF Admit, callerVars, NetInv
    <2>2. PICK r \in {"accepted", "failed", "unknown"} : ledger' = [ledger EXCEPT ![m.id] = r]
        BY <1>8 DEF Admit
    <2>3. Fresh /\ Fresh'
        BY <2>1, NetIsFresh DEF Fresh
    <2>4. PICK k \in Generations : m.id = Rung(k)
        BY <2>1, Rungs
    <2>5. \A i \in Ids : i # m.id => ledger'[i] = ledger[i]
        BY <2>2 DEF NetInv
    <2>6. ASSUME NEW g \in Generations, g # k, ledger[Rung(g)] # "absent"
          PROVE  ledger[Rung(g)] = "failed"
        <3>1. Active(Rung(g)) /\ Active(Rung(k))
            BY <2>4, <2>6 DEF Active
        <3>2. g < k \/ k < g
            BY <2>6, Rungs
        <3>3. CASE g < k
            BY <2>3, <3>1, <3>3 DEF LadderInv
        <3>4. CASE k < g
            BY <2>1, <2>3, <2>4, <3>1, <3>4 DEF LadderInv
        <3> QED
            BY <3>2, <3>3, <3>4
    <2>7. applied = 0
        <3>1. SUFFICES ASSUME NEW i \in Ids, ledger[i] \in {"accepted", "unknown"} PROVE FALSE
            BY <2>3 DEF LadderInv
        <3>2. PICK g \in Generations : i = Rung(g)
            BY Rungs
        <3> QED
            BY <2>1, <2>4, <2>6, <3>1, <3>2
    <2>8. ASSUME NEW g \in Generations, NEW h \in Generations, h < g, Active(Rung(g))'
          PROVE  ledger'[Rung(h)] = "failed"
        <3>1. Active(Rung(g))
            <4>1. CASE g = k
                BY <2>4, <4>1 DEF Active
            <4>2. CASE g # k
                <5>1. Rung(g) \in Ids /\ Rung(g) # m.id
                    BY <2>4, <4>2, Rungs
                <5>2. ledger'[Rung(g)] = ledger[Rung(g)]
                    BY <2>5, <5>1
                <5> QED
                    BY <2>1, <2>8, <5>2, StaysActive
            <4> QED
                BY <4>1, <4>2
        <3>2. ledger[Rung(h)] = "failed"
            BY <2>3, <2>8, <3>1 DEF LadderInv
        <3>3. Rung(h) \in Ids /\ Rung(h) # m.id
            BY <2>1, <3>2, Rungs
        <3> QED
            BY <2>5, <3>2, <3>3
    <2>9. \/ applied' = 1 /\ ledger'[m.id] \in {"accepted", "unknown"}
          \/ applied' = 0
        <3>1. CASE applied' = applied + 1 /\ \E s \in {"accepted", "unknown"} : ledger' = [ledger EXCEPT ![m.id] = s]
            BY <2>1, <2>7, <3>1 DEF NetInv
        <3>2. CASE applied' = applied
            BY <2>7, <3>2
        <3> QED
            BY <1>8, <3>1, <3>2 DEF Admit
    <2>10. pc' = "handle" /\ Failed' => ledger'[id'] = "failed"
        <3>1. SUFFICES ASSUME pc = "handle", Failed PROVE ledger'[id] = "failed"
            BY <2>1 DEF Failed
        <3>2. ledger[id] = "failed" /\ id \in Ids
            BY <2>3, <3>1 DEF LadderInv, NetInv
        <3> QED
            BY <2>1, <2>5, <3>2
    <2> QED
        BY <2>1, <2>8, <2>9, <2>10 DEF LadderInv
<1>9. ASSUME NEW j \in Ids, Forget(j) PROVE LadderInv'
    <2>1. ~Fresh' /\ applied' = applied
        BY <1>9, ForgetIsLate DEF Forget, Fresh
    <2> QED
        BY <2>1 DEF LadderInv
<1>10. CASE Tick
    <2>1. /\ now' = now + 1 /\ net' \subseteq net
          /\ UNCHANGED <<id, pc, err, ledger, applied>>
        BY <1>10 DEF Tick, callerVars, irisVars
    <2>2. Fresh' => Fresh
        BY <2>1, LadderAssumption DEF Fresh, NetInv
    <2>3. \A g \in Generations : Active(Rung(g))' => Active(Rung(g))
        BY <2>1, StaysActive
    <2>4. Failed' => Failed
        BY <2>1 DEF Failed
    <2> QED
        BY <1>1, <2>1, <2>2, <2>3, <2>4 DEF LadderInv
<1>11. CASE Quiet \/ UNCHANGED vars
    <2>1. UNCHANGED <<applied, ledger, id, net, now, pc, err>>
        BY <1>11 DEF Quiet, vars, callerVars, irisVars
    <2> QED
        BY <1>2, <2>1 DEF LadderInv, Failed
<1> QED
    BY <1>3, <1>4, <1>5, <1>6, <1>7, <1>8, <1>9, <1>10, <1>11 DEF Next

\* When there is no further generation, none of a higher rank was ever used.
LEMMA EndOfLadder ==
    ASSUME NetInv, CallerInv, LadderInv, Fresh, ledger[id] = "failed",
           ReissuedClientRequestID(base, gen + 1) = {}
    PROVE  Silent
<1>1. PICK k \in Generations : id = Rung(k)
    BY Rungs DEF NetInv
<1>2. ASSUME NEW i \in Ids, Active(i) PROVE ledger[i] = "failed"
    <2>1. PICK g \in Generations : i = Rung(g)
        BY Rungs
    <2>2. g < k \/ g = k \/ k < g
        BY Rungs
    <2>3. CASE g < k
        <3>1. Active(Rung(k))
            BY <1>1 DEF Active
        <3> QED
            BY <2>1, <2>3, <3>1 DEF LadderInv
    <2>4. CASE g = k
        BY <1>1, <2>1, <2>4
    <2>5. CASE k < g
        <3>1. CASE base # Original
            <4>1. g <= k
                BY <1>1, <1>2, <2>1, <3>1 DEF CallerInv
            <4> QED
                BY <2>5, <4>1, Rungs
        <3>2. CASE base = Original /\ fits
            <4>1. gen \in Generations /\ id = Rung(gen)
                BY <3>2 DEF CallerInv
            <4>2. k = gen
                BY <1>1, <4>1, Rungs
            <4>3. gen + 1 \notin 1..ReplyReissueMaxGenerations
                BY <3>2 DEF ReissuedClientRequestID
            <4> QED
                BY <2>5, <4>1, <4>2, <4>3, LadderAssumption DEF Generations
        <3>3. CASE ~fits
            <4>1. i = Original
                BY <1>2, <3>3 DEF CallerInv
            <4>2. g = 0
                BY <2>1, <4>1, Rungs
            <4>3. k \in Nat
                BY Rungs
            <4> QED
                BY <2>5, <4>2, <4>3
        <3> QED
            BY <3>1, <3>2, <3>3
    <2> QED
        BY <2>2, <2>3, <2>4, <2>5
<1>3. applied = 0
    <2>1. SUFFICES ASSUME NEW i \in Ids, ledger[i] \in {"accepted", "unknown"} PROVE FALSE
        BY DEF LadderInv
    <2>2. Active(i)
        BY <2>1 DEF Active
    <2> QED
        BY <1>2, <2>1, <2>2
<1>4. ASSUME NEW m \in net PROVE ledger[m.id] = "failed"
    <2>1. m.id \in Ids /\ Active(m.id)
        BY DEF NetInv, Active
    <2> QED
        BY <1>2, <2>1
<1> QED
    BY <1>3, <1>4 DEF Silent

\* A ladder that has ended with a failure stays without effect.
LEMMA SilentStep == NetInv /\ CallerInv /\ LadderInv /\ SilentInv /\ [Next]_vars => SilentInv'
<1> SUFFICES ASSUME NetInv, CallerInv, LadderInv, SilentInv, [Next]_vars PROVE SilentInv'
    OBVIOUS
<1>1. ASSUME pc' \notin {"handle", "done"} PROVE SilentInv'
    BY <1>1 DEF SilentInv, Ended
<1>2. ASSUME UNCHANGED <<applied, ledger>>, net' \subseteq net, Fresh' => Fresh, Silent
      PROVE  Silent'
    BY <1>2 DEF Silent
<1>3. ASSUME UNCHANGED <<pc, base, gen, fits, err>> PROVE Ended' /\ Failed' => Ended /\ Failed
    BY <1>3 DEF Ended, Failed, ReissuedClientRequestID
<1>4. CASE Send \/ Lost \/ Crash
    BY <1>1, <1>4 DEF Send, Lost, Crash
<1>5. CASE GiveUp
    BY <1>5 DEF GiveUp, SilentInv, Failed
<1>6. CASE Handle
    <2>1. UNCHANGED <<now, net, err, ledger, applied>> /\ pc = "handle"
        BY <1>6 DEF Handle, irisVars
    <2>2. CASE pc' = "send"
        BY <1>1, <2>2
    <2>3. CASE ReissuedClientRequestID(base, gen + 1) = {}
        <3>1. Failed' => Silent
            BY <2>1, <2>3 DEF SilentInv, Ended, Failed
        <3> QED
            BY <1>2, <2>1, <3>1 DEF SilentInv, Fresh
    <2>4. CASE ~Failed
        BY <2>1, <2>4 DEF SilentInv, Failed
    <2> QED
        BY <1>6, <2>2, <2>3, <2>4 DEF Handle, Failed, IsPreHandoffClientRequestIDConflict
<1>7. ASSUME NEW m \in net, Serve(m) PROVE SilentInv'
    <2>1. /\ m.call = calls /\ pc = "wait" /\ pc' = "handle" /\ err' = Recorded(ledger[m.id])
          /\ UNCHANGED <<now, fits, base, gen, net, ledger, applied>>
        BY <1>7 DEF Serve, irisVars
    <2>2. SUFFICES ASSUME Ended', Failed' PROVE Silent'
        BY DEF SilentInv
    <2>3. ReissuedClientRequestID(base, gen + 1) = {}
        BY <2>1, <2>2 DEF Ended, ReissuedClientRequestID
    <2>4. ledger[m.id] = "failed" /\ m.id = id
        BY <2>1, <2>2, FailedMeansFailed DEF NetInv
    <2>5. Silent
        BY <2>3, <2>4, NetIsFresh, EndOfLadder
    <2> QED
        BY <1>2, <2>1, <2>5 DEF Fresh
<1>8. ASSUME NEW m \in net, Admit(m) PROVE SilentInv'
    <2>1. UNCHANGED <<pc, base, gen, fits, err>> /\ ledger[m.id] = "absent"
        BY <1>8 DEF Admit, callerVars
    <2>2. ~(Ended /\ Failed)
        BY <2>1, NetIsFresh DEF SilentInv, Silent
    <2> QED
        BY <1>3, <2>1, <2>2 DEF SilentInv
<1>9. ASSUME NEW j \in Ids, Forget(j) PROVE SilentInv'
    <2>1. ~Fresh' /\ UNCHANGED <<pc, base, gen, fits, err, applied>>
        BY <1>9, ForgetIsLate DEF Forget, Fresh, callerVars
    <2> QED
        BY <1>3, <2>1 DEF SilentInv, Silent
<1>10. CASE Tick
    <2>1. /\ now' = now + 1 /\ net' \subseteq net
          /\ UNCHANGED <<pc, base, gen, fits, err, ledger, applied>>
        BY <1>10 DEF Tick, callerVars, irisVars
    <2>2. Fresh' => Fresh
        BY <2>1, LadderAssumption DEF Fresh, NetInv
    <2> QED
        BY <1>2, <1>3, <2>1, <2>2 DEF SilentInv
<1>11. CASE Quiet \/ UNCHANGED vars
    <2>1. UNCHANGED <<now, net, pc, base, gen, fits, err, ledger, applied>>
        BY <1>11 DEF Quiet, vars, callerVars, irisVars
    <2> QED
        BY <1>2, <1>3, <2>1 DEF SilentInv, Fresh
<1> QED
    BY <1>4, <1>5, <1>6, <1>7, <1>8, <1>9, <1>10, <1>11 DEF Next

-----------------------------------------------------------------------------
\* The inductive invariant holds.
THEOREM Invariance == Spec => []IInv
<1>1. Init => IInv
    <2> SUFFICES ASSUME Init PROVE IInv
        OBVIOUS
    <2>1. /\ now = 0 /\ calls = 0 /\ id = Original /\ base = Original /\ gen = 0 /\ pc = "send"
          /\ net = {} /\ applied = 0 /\ stores \in {"original", "current"}
          /\ \A i \in Ids : ledger[i] = "absent"
          /\ ledger \in [Ids -> {"absent", "failed", "accepted", "unknown"}]
          /\ since \in [Ids -> Nat]
        BY DEF Init
    <2>2. \A i \in Ids : Active(i) => i = Original
        BY <2>1 DEF Active
    <2>3. ASSUME NEW g \in Generations, Active(Rung(g)) PROVE g = 0
        BY <2>2, <2>3, Rungs
    <2>4. NetInv
        BY <2>1, Rungs DEF NetInv
    <2>5. CallerInv
        <3>1. ASSUME NEW g \in Generations, NEW h \in Generations, Active(Rung(h)) PROVE h <= g
            BY <2>3, <3>1, Rungs
        <3> QED
            BY <2>1, <2>2, <3>1, Rungs DEF CallerInv
    <2>6. LadderInv
        <3>1. ASSUME NEW g \in Generations, NEW h \in Generations, h < g PROVE ~Active(Rung(g))
            BY <2>3, <3>1, Rungs
        <3> QED
            BY <2>1, <3>1 DEF LadderInv
    <2>7. SilentInv
        BY <2>1 DEF SilentInv, Ended
    <2> QED
        BY <2>4, <2>5, <2>6, <2>7 DEF IInv
<1>2. IInv /\ [Next]_vars => IInv'
    BY NetStep, CallerStep, LadderStep, SilentStep DEF IInv
<1> QED
    BY <1>1, <1>2, PTL DEF Spec

(***************************************************************************)
(* The reply is handed to the queue at most once over the whole ladder,    *)
(* for any number of generations, crashes and late or repeated requests,   *)
(* when the horizon leaves the margin (ReplyAutomaticReplayHorizon,        *)
(* IsPreHandoffClientRequestIDConflict).                                   *)
(***************************************************************************)
THEOREM HandedOffAtMostOnceHolds == Spec => []HandedOffAtMostOnce
<1>1. IInv => HandedOffAtMostOnce
    BY DEF IInv, LadderInv, HandedOffAtMostOnce
<1> QED
    BY <1>1, Invariance, PTL

(***************************************************************************)
(* A ladder that ends with "failed before the handoff" has had no effect   *)
(* and will have none, whichever id the caller keeps across a crash        *)
(* (ReissuedClientRequestID, IsUnrecoverableClientRequestIDConflict).      *)
(***************************************************************************)
THEOREM FailedLadderIsSilentHolds == Spec => []FailedLadderIsSilent
<1>1. IInv => FailedLadderIsSilent
    BY DEF IInv, SilentInv, Ended, Failed, Silent, FailedLadderIsSilent
<1> QED
    BY <1>1, Invariance, PTL
=============================================================================
