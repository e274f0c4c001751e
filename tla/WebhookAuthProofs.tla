-------------------------- MODULE WebhookAuthProofs ---------------------------
(***************************************************************************)
(* Proofs about WebhookAuth for any replay window, any skew of the         *)
(* signer's clock, any number of signed requests and any deliveries.       *)
(***************************************************************************)
EXTENDS WebhookAuth, TLAPS

\* What a signature is computed over, as the handler computes it.
CanonicalOf(r) ==
    CanonicalWebhookRequestV3(r.Host, r.Method, CanonicalTarget(r.Target), r.Timestamp, r.Nonce,
                              NormalizeMessageID(r.MessageIDs[1]), r.Body)

\* The fields of a request.
Shaped(r) ==
    r = [Method |-> r.Method, Host |-> r.Host, Target |-> r.Target, MessageIDs |-> r.MessageIDs,
         Timestamp |-> r.Timestamp, Nonce |-> r.Nonce, BodySHA256 |-> r.BodySHA256,
         Versions |-> r.Versions, Signature |-> r.Signature, Body |-> r.Body]

\* A request as it leaves the signer: the handler, at a time inside the window,
\* finds nothing wrong with it.
Proper(l) ==
    /\ Shaped(l)
    /\ l.Method = "POST"
    /\ l.Timestamp \in Int
    /\ l.BodySHA256 = l.Body
    /\ l.Versions = <<"v3">>
    /\ l.Signature = <<"key", CanonicalOf(l)>>
    /\ canonicalWebhookAuthority(l.Host) # Invalid
    /\ CanonicalTarget(l.Target) # Invalid
    /\ MessageIDAccepted(l)

\* Every request signRequest may leave behind.
Letters == {signRequest(x.draft, x.time, x.nonce) : x \in [draft : Drafts, time : Int, nonce : Nat]}

SignedInv ==
    /\ now \in Nat
    /\ letters \in Seq(Letters)
    /\ \A n \in DOMAIN letters : Proper(letters[n]) /\ letters[n].Nonce = n

\* The types of the deliveries.
DeliveryTypes ==
    /\ letter \in [Deliveries -> Nat]
    /\ change \in [Deliveries -> Changes]
    /\ phase \in [Deliveries -> {"idle", "reading", "done"}]
    /\ arrived \in [Deliveries -> Nat]
    /\ checked \in [Deliveries -> Int]
    /\ status \in [Deliveries -> Nat]

\* A delivery is of a letter, its timestamp was inside the window when it
\* arrived, and its nonce is looked up at most once, at the end.
DeliveryOK(d) ==
    /\ phase[d] # "idle" => letter[d] \in DOMAIN letters
    /\ phase[d] # "done" => checked[d] = -1 /\ status[d] = 0
    /\ arrived[d] <= now /\ checked[d] <= now
    /\ phase[d] = "reading" \/ status[d] = 200 =>
          timestampWithinReplayWindow(Received(d).Timestamp, arrived[d])
    /\ status[d] = 200 => SignatureVerified(Received(d)) /\ arrived[d] <= checked[d]

DeliveryInv == DeliveryTypes /\ \A d \in Deliveries : DeliveryOK(d)

\* A nonce is in the store because a delivery that was verified looked it up,
\* and an accepted delivery leaves its own there for as long as it lives.
NonceInv ==
    /\ \A n \in nonces : \E d \in Deliveries :
          /\ checked[d] >= 0
          /\ SignatureVerified(Received(d))
          /\ n.key = NonceKey(Received(d))
    /\ \A d \in Deliveries : status[d] = 200 /\ now <= checked[d] + 2 * Window =>
          \E n \in nonces : n.key = NonceKey(Received(d)) /\ n.expiry = checked[d] + 2 * Window

IInv == SignedInv /\ DeliveryInv /\ NonceInv /\ SignedIsAccepted /\ AcceptedOnceInWindow

-----------------------------------------------------------------------------
\* Requests

\* What may happen to a request on the way leaves its fields; no damage makes a
\* signature, and respelling changes no name.
LEMMA ChangedIs ==
    ASSUME NEW l, Shaped(l), NEW how \in Changes, NEW r, r = Changed(l, how)
    PROVE  /\ r.BodySHA256 = l.BodySHA256
           /\ r.Signature \in {l.Signature, <<>>}
           /\ r.Timestamp \in {l.Timestamp, l.Timestamp + 1}
           /\ how \in Harmless =>
                 /\ r.Method = l.Method /\ r.Timestamp = l.Timestamp /\ r.Nonce = l.Nonce
                 /\ r.Body = l.Body /\ r.Versions = l.Versions /\ r.Signature = l.Signature
                 /\ r.Host.name = l.Host.name /\ r.Target.name = l.Target.name
                 /\ r.MessageIDs = l.MessageIDs \/ r.MessageIDs = <<Odd(l.MessageIDs[1].name)>>
<1>1. CASE how = "none"
    BY <1>1 DEF Changed
<1>2. CASE how = "respelled"
    BY <1>2 DEF Changed, Shaped, Odd
<1>3. CASE how \in {"method", "host", "target", "messageId", "messageIdTwice"}
    BY <1>3 DEF Changed, Shaped, Harmless
<1>4. CASE how \in {"timestamp", "nonce", "body", "noSignature", "version"}
    BY <1>4 DEF Changed, Shaped, Harmless
<1> QED
    BY <1>1, <1>2, <1>3, <1>4 DEF Changes

\* The secrets of the drafts.
LEMMA DraftSecrets == ASSUME NEW d \in Drafts PROVE d.Secret.name \in {"key", Blank}
<1> DEFINE o == Ordinary
<1>1. /\ o = [Method |-> o.Method, URLHost |-> o.URLHost, Host |-> o.Host, Target |-> o.Target,
              MessageIDs |-> o.MessageIDs, Secret |-> o.Secret, Body |-> o.Body]
      /\ o.Secret.name = "key"
    BY DEF Ordinary, Plain
<1> DEFINE others == {o, [o EXCEPT !.Method = "GET"]}
              \cup {[o EXCEPT !.URLHost = p[1], !.Host = p[2]] : p \in Hosts \X Hosts}
              \cup {[o EXCEPT !.Target = t] : t \in {Odd("target"), Plain(Invalid)}}
              \cup {[o EXCEPT !.MessageIDs = ids] :
                       ids \in {<<>>, <<Odd("id")>>, <<Odd(Blank)>>, <<Plain(Invalid)>>,
                                <<Plain("id"), Plain("other id")>>}}
<1>2. Drafts = others \cup {[o EXCEPT !.Secret = s] : s \in {Odd("key"), Odd(Blank)}}
    BY DEF Drafts
<1> HIDE DEF o
<1>3. \A x \in others : x.Secret = o.Secret
    BY <1>1
<1> HIDE DEF others
<1> QED
    BY <1>1, <1>2, <1>3 DEF Odd

\* What signRequest leaves behind passes the handler's checks.
LEMMA SignedIsProper ==
    ASSUME NEW d \in Drafts, Signable(d), NEW t \in Int, NEW n
    PROVE  Proper(signRequest(d, t, n)) /\ signRequest(d, t, n).Nonce = n
<1> DEFINE l == signRequest(d, t, n)
           id == NormalizeMessageID(d.MessageIDs[1])
           host == IF d.Host = Plain(Blank) THEN d.URLHost ELSE d.Host
           text == CanonicalWebhookRequestV3(d.URLHost, d.Method, CanonicalTarget(d.Target), t, n, id, d.Body)
<1>1. l = [Method |-> d.Method, Host |-> host, Target |-> d.Target, MessageIDs |-> <<Plain(id)>>,
           Timestamp |-> t, Nonce |-> n, BodySHA256 |-> d.Body, Versions |-> <<"v3">>,
           Signature |-> <<Canonical(d.Secret), text>>, Body |-> d.Body]
    BY DEF signRequest
<1>2. Canonical(d.Secret) = "key"
    BY DraftSecrets DEF Signable, normalizedSigningSecret, Canonical
<1>3. d.Method = "POST" /\ id \notin {Blank, Invalid} /\ CanonicalTarget(d.Target) # Invalid
    BY DEF Signable, validateSigningRequest, normalizedSigningMessageID
<1>4. /\ canonicalWebhookAuthority(d.URLHost) # Invalid
      /\ canonicalWebhookAuthority(host) = canonicalWebhookAuthority(d.URLHost)
    BY DEF Signable, SignableHost
<1> HIDE DEF l, host, id
<1>5. /\ l.Method = d.Method /\ l.Host = host /\ l.Target = d.Target /\ l.MessageIDs = <<Plain(id)>>
      /\ l.Timestamp = t /\ l.Nonce = n /\ l.BodySHA256 = d.Body /\ l.Versions = <<"v3">>
      /\ l.Signature = <<"key", text>> /\ l.Body = d.Body
    BY <1>1, <1>2
<1>6. Shaped(l)
    BY <1>1 DEF Shaped
<1>7. NormalizeMessageID(l.MessageIDs[1]) = id /\ Len(l.MessageIDs) = 1
    BY <1>5 DEF NormalizeMessageID, Canonical, Plain
<1>8. CanonicalOf(l) = text
    BY <1>4, <1>5, <1>7 DEF CanonicalOf, CanonicalWebhookRequestV3
<1>9. MessageIDAccepted(l)
    BY <1>3, <1>7 DEF MessageIDAccepted
<1>10. Proper(l)
    BY <1>3, <1>4, <1>5, <1>6, <1>8, <1>9 DEF Proper
<1> QED
    BY <1>5, <1>10 DEF l

\* A verified request says what the letter said, and has its nonce key.
LEMMA VerifiedSaysTheSame ==
    ASSUME NEW l, Proper(l), NEW how \in Changes, NEW r, r = Changed(l, how), SignatureVerified(r)
    PROVE  Says(r) = Says(l) /\ NonceKey(r) = NonceKey(l) /\ r.Timestamp = l.Timestamp
<1>1. r.Signature \in {l.Signature, <<>>}
    BY ChangedIs DEF Proper
<1>2. r.Signature = <<"key", CanonicalOf(r)>> /\ l.Signature = <<"key", CanonicalOf(l)>>
    BY DEF SignatureVerified, CanonicalOf, Proper
<1>3. CanonicalOf(r) = CanonicalOf(l)
    BY <1>1, <1>2
<1>4. /\ canonicalWebhookAuthority(r.Host) = canonicalWebhookAuthority(l.Host)
      /\ r.Method = l.Method
      /\ CanonicalTarget(r.Target) = CanonicalTarget(l.Target)
      /\ r.Timestamp = l.Timestamp
      /\ r.Nonce = l.Nonce
      /\ NormalizeMessageID(r.MessageIDs[1]) = NormalizeMessageID(l.MessageIDs[1])
      /\ r.Body = l.Body
    BY <1>3 DEF CanonicalOf, CanonicalWebhookRequestV3
<1> QED
    BY <1>4 DEF Says, NonceKey

\* A letter that comes as it left the signer, or respelled, passes every check
\* but those of its age and its nonce.
LEMMA HarmlessIsVerified ==
    ASSUME NEW l, Proper(l), NEW how \in Harmless, NEW r, r = Changed(l, how)
    PROVE  /\ r.Method = "POST" /\ SignatureVerified(r)
           /\ timestampWithinReplayWindow(l.Timestamp, now) => authorizeHMACHeaders(r)
<1>1. how \in Changes /\ Shaped(l)
    BY DEF Harmless, Changes, Proper
<1>2. /\ r.Nonce = l.Nonce /\ r.BodySHA256 = l.BodySHA256
      /\ r.Method = l.Method /\ r.Timestamp = l.Timestamp /\ r.Body = l.Body
      /\ r.Versions = l.Versions /\ r.Signature = l.Signature
      /\ r.Host.name = l.Host.name /\ r.Target.name = l.Target.name
      /\ r.MessageIDs = l.MessageIDs \/ r.MessageIDs = <<Odd(l.MessageIDs[1].name)>>
    BY <1>1, ChangedIs
<1>3. /\ canonicalWebhookAuthority(r.Host) = canonicalWebhookAuthority(l.Host)
      /\ CanonicalTarget(r.Target) = CanonicalTarget(l.Target)
    BY <1>2 DEF canonicalWebhookAuthority, CanonicalTarget, Canonical
<1>4. Len(r.MessageIDs) = 1 /\ NormalizeMessageID(r.MessageIDs[1]) = NormalizeMessageID(l.MessageIDs[1])
    <2>1. CASE r.MessageIDs = l.MessageIDs
        BY <2>1 DEF Proper, MessageIDAccepted
    <2>2. CASE r.MessageIDs = <<Odd(l.MessageIDs[1].name)>>
        BY <2>2 DEF NormalizeMessageID, Canonical, Odd
    <2> QED
        BY <1>2, <2>1, <2>2
<1>5. CanonicalOf(r) = CanonicalOf(l)
    BY <1>2, <1>3, <1>4 DEF CanonicalOf, CanonicalWebhookRequestV3
<1>6. SignatureVerified(r)
    BY <1>2, <1>3, <1>5 DEF SignatureVerified, CanonicalOf, Proper
<1>7. <<>> # <<"key", CanonicalOf(l)>>
    OBVIOUS
<1>8. timestampWithinReplayWindow(l.Timestamp, now) => authorizeHMACHeaders(r)
    BY <1>2, <1>3, <1>4, <1>7 DEF authorizeHMACHeaders, MessageIDAccepted, Proper
<1> QED
    BY <1>2, <1>6, <1>8 DEF Proper

-----------------------------------------------------------------------------
\* Letters and deliveries

\* A letter stays what it is.
Kept == \A n \in DOMAIN letters : n \in DOMAIN letters' /\ letters'[n] = letters[n]

\* Only signing adds a letter, and time does not go back (SignRequest).
LEMMA SignedStep == SignedInv /\ [Next]_vars => SignedInv' /\ Kept /\ now <= now'
<1> SUFFICES ASSUME SignedInv, [Next]_vars PROVE SignedInv' /\ Kept /\ now <= now'
    OBVIOUS
<1>1. ASSUME UNCHANGED <<now, letters>> PROVE SignedInv' /\ Kept /\ now <= now'
    BY <1>1 DEF SignedInv, Kept
<1>2. CASE SignRequest
    <2>1. PICK d \in Drafts, skew \in (-MaxSkew)..MaxSkew :
             Signable(d) /\ letters' = Append(letters, signRequest(d, now + skew, Len(letters) + 1))
        BY <1>2 DEF SignRequest
    <2> DEFINE l == signRequest(d, now + skew, Len(letters) + 1)
    <2>2. now + skew \in Int /\ Len(letters) + 1 \in Nat
        BY AuthAssumption DEF SignedInv
    <2>3. Proper(l) /\ l.Nonce = Len(letters) + 1
        BY <2>1, <2>2, SignedIsProper
    <2>4. l \in Letters
        <3>1. [draft |-> d, time |-> now + skew, nonce |-> Len(letters) + 1]
                 \in [draft : Drafts, time : Int, nonce : Nat]
            BY <2>2
        <3> DEFINE x == [draft |-> d, time |-> now + skew, nonce |-> Len(letters) + 1]
        <3>2. l = signRequest(x.draft, x.time, x.nonce)
            OBVIOUS
        <3> HIDE DEF x, l
        <3>3. x \in [draft : Drafts, time : Int, nonce : Nat]
            BY <3>1 DEF x
        <3> QED
            BY <3>2, <3>3 DEF Letters
    <2> HIDE DEF l
    <2>5. /\ letters' \in Seq(Letters) /\ Kept
          /\ \A n \in DOMAIN letters' : n \in DOMAIN letters \/ n = Len(letters) + 1
          /\ letters'[Len(letters) + 1] = l
        BY <2>1, <2>4 DEF SignedInv, Kept, l
    <2>6. \A n \in DOMAIN letters' : Proper(letters'[n]) /\ letters'[n].Nonce = n
        BY <2>3, <2>5 DEF SignedInv, Kept
    <2>7. now' = now /\ now \in Nat
        BY <1>2 DEF SignRequest, SignedInv
    <2> QED
        BY <2>5, <2>6, <2>7 DEF SignedInv
<1>3. CASE Tick
    BY <1>3 DEF Tick, SignedInv, Kept
<1>4. ASSUME NEW d \in Deliveries, Serve(d) PROVE UNCHANGED <<now, letters>>
    BY <1>4 DEF Serve, Arrive, BodyFails, SignatureFails, CheckNonce
<1>5. CASE Finished \/ UNCHANGED vars
    BY <1>1, <1>5 DEF Finished, vars
<1> QED
    BY <1>1, <1>2, <1>3, <1>4, <1>5 DEF Next

\* The step leaves the delivery alone.
Unmoved(d) ==
    /\ letter'[d] = letter[d] /\ change'[d] = change[d] /\ phase'[d] = phase[d]
    /\ arrived'[d] = arrived[d] /\ checked'[d] = checked[d] /\ status'[d] = status[d]

\* What a delivery does when it is served: it arrives, or its phase ends.
Begins(d) ==
    /\ phase[d] = "idle" /\ letter'[d] \in DOMAIN letters /\ change'[d] \in Changes
    /\ arrived'[d] = now /\ checked'[d] = checked[d] /\ UNCHANGED nonces
    /\ LET r == Changed(letters[letter'[d]], change'[d])
       IN  \/ r.Method # "POST" /\ status'[d] = 405 /\ phase'[d] = "done"
           \/ r.Method = "POST" /\ ~authorizeHMACHeaders(r) /\ status'[d] = 401 /\ phase'[d] = "done"
           \/ authorizeHMACHeaders(r) /\ status'[d] = status[d] /\ phase'[d] = "reading"

Ends(d) ==
    /\ phase[d] = "reading" /\ phase'[d] = "done"
    /\ letter'[d] = letter[d] /\ change'[d] = change[d] /\ arrived'[d] = arrived[d]
    /\ \/ status'[d] \in {400, 408, 413} /\ checked'[d] = checked[d] /\ UNCHANGED nonces
       \/ ~SignatureVerified(Received(d)) /\ status'[d] = 401 /\ checked'[d] = checked[d] /\ UNCHANGED nonces
       \/ /\ SignatureVerified(Received(d)) /\ checked'[d] = now
          /\ LET key == NonceKey(Received(d))
             IN  \/ Recorded(key) /\ status'[d] = 401 /\ UNCHANGED nonces
                 \/ ~Recorded(key) /\ status'[d] = 200 /\ nonces' = Set(key)
                 \/ status'[d] = 503 /\ nonces' \in {nonces, Set(key)}

\* The other deliveries keep their status and phase.
Others(d) ==
    /\ status' \in [Deliveries -> Nat]
    /\ phase' \in [Deliveries -> {"idle", "reading", "done"}]
    /\ \A e \in Deliveries \ {d} : status'[e] = status[e] /\ phase'[e] = phase[e]

\* An answer ends one delivery.
LEMMA AnswerIs ==
    ASSUME DeliveryTypes, NEW d \in Deliveries, NEW code \in Nat, Answer(d, code)
    PROVE  Others(d) /\ status'[d] = code /\ phase'[d] = "done"
    BY DEF Answer, DeliveryTypes, Others

\* The handler serves one delivery in a step (acceptTransport).
LEMMA ServeIs ==
    ASSUME SignedInv, DeliveryTypes, NEW d \in Deliveries, Serve(d)
    PROVE  /\ DeliveryTypes'
           /\ \A e \in Deliveries \ {d} : Unmoved(e)
           /\ Begins(d) \/ Ends(d)
           /\ UNCHANGED <<now, letters>>
<1>0. now \in Nat /\ DOMAIN letters \subseteq Nat
    BY DEF SignedInv
<1>1. CASE Arrive(d)
    <2>1. PICK n \in DOMAIN letters, how \in Changes :
             LET r == Changed(letters[n], how)
             IN /\ letter' = [letter EXCEPT ![d] = n]
                /\ change' = [change EXCEPT ![d] = how]
                /\ \/ r.Method # "POST" /\ Answer(d, 405)
                   \/ r.Method = "POST" /\ ~authorizeHMACHeaders(r) /\ Answer(d, 401)
                   \/ /\ r.Method = "POST" /\ authorizeHMACHeaders(r)
                      /\ phase' = [phase EXCEPT ![d] = "reading"]
                      /\ UNCHANGED status
        BY <1>1 DEF Arrive
    <2> DEFINE r == Changed(letters[n], how)
    <2>2. /\ phase[d] = "idle" /\ arrived' = [arrived EXCEPT ![d] = now]
          /\ UNCHANGED <<now, letters, checked, nonces>>
        BY <1>1 DEF Arrive
    <2>3. /\ letter' = [letter EXCEPT ![d] = n] /\ change' = [change EXCEPT ![d] = how]
        BY <2>1
    <2>4. /\ letter' \in [Deliveries -> Nat] /\ change' \in [Deliveries -> Changes]
          /\ arrived' \in [Deliveries -> Nat] /\ checked' \in [Deliveries -> Int]
          /\ letter'[d] = n /\ change'[d] = how /\ arrived'[d] = now /\ checked'[d] = checked[d]
          /\ \A e \in Deliveries \ {d} :
                letter'[e] = letter[e] /\ change'[e] = change[e] /\ arrived'[e] = arrived[e]
                /\ checked'[e] = checked[e]
        BY <1>0, <2>2, <2>3 DEF DeliveryTypes
    <2> HIDE DEF r
    <2>5. /\ Others(d)
          /\ \/ r.Method # "POST" /\ status'[d] = 405 /\ phase'[d] = "done"
             \/ r.Method = "POST" /\ ~authorizeHMACHeaders(r) /\ status'[d] = 401 /\ phase'[d] = "done"
             \/ authorizeHMACHeaders(r) /\ status'[d] = status[d] /\ phase'[d] = "reading"
        <3>1. CASE r.Method # "POST" /\ Answer(d, 405)
            BY <3>1, AnswerIs
        <3>2. CASE r.Method = "POST" /\ ~authorizeHMACHeaders(r) /\ Answer(d, 401)
            BY <3>2, AnswerIs
        <3>3. CASE authorizeHMACHeaders(r) /\ phase' = [phase EXCEPT ![d] = "reading"] /\ UNCHANGED status
            BY <3>3 DEF DeliveryTypes, Others
        <3> QED
            BY <2>1, <3>1, <3>2, <3>3 DEF r
    <2>7. Begins(d)
        BY <2>2, <2>4, <2>5 DEF Begins, r
    <2> QED
        BY <2>2, <2>4, <2>5, <2>7 DEF DeliveryTypes, Unmoved, Others
<1>2. CASE BodyFails(d) \/ SignatureFails(d) \/ CheckNonce(d)
    <2>1. phase[d] = "reading" /\ UNCHANGED <<now, letters, letter, change, arrived>>
        BY <1>2 DEF BodyFails, SignatureFails, CheckNonce
    <2>2. Others(d) /\ phase'[d] = "done"
        <3>1. \E code \in {200, 400, 401, 408, 413, 503} : Answer(d, code)
            BY <1>2 DEF BodyFails, SignatureFails, CheckNonce
        <3> QED
            BY <3>1, AnswerIs
    <2>3. /\ checked' \in [Deliveries -> Int]
          /\ \A e \in Deliveries \ {d} : checked'[e] = checked[e]
        BY <1>0, <1>2 DEF BodyFails, SignatureFails, CheckNonce, DeliveryTypes
    <2>4. Ends(d)
        <3>1. CASE BodyFails(d)
            <4>1. PICK code \in {400, 408, 413} : Answer(d, code)
                BY <3>1 DEF BodyFails
            <4>2. status'[d] = code
                BY <4>1, AnswerIs
            <4> QED
                BY <2>1, <2>2, <3>1, <4>2 DEF Ends, BodyFails
        <3>2. CASE SignatureFails(d)
            <4>1. status'[d] = 401
                BY <3>2, AnswerIs DEF SignatureFails
            <4> QED
                BY <2>1, <2>2, <3>2, <4>1 DEF Ends, SignatureFails
        <3>3. CASE CheckNonce(d)
            <4> DEFINE key == NonceKey(Received(d))
            <4>1. /\ SignatureVerified(Received(d)) /\ checked' = [checked EXCEPT ![d] = now]
                  /\ \/ Recorded(key) /\ Answer(d, 401) /\ UNCHANGED nonces
                     \/ ~Recorded(key) /\ Answer(d, 200) /\ nonces' = Set(key)
                     \/ Answer(d, 503) /\ nonces' \in {nonces, Set(key)}
                BY <3>3 DEF CheckNonce
            <4>2. checked'[d] = now
                BY <4>1 DEF DeliveryTypes
            <4> HIDE DEF key
            <4>3. \/ Recorded(key) /\ status'[d] = 401 /\ UNCHANGED nonces
                  \/ ~Recorded(key) /\ status'[d] = 200 /\ nonces' = Set(key)
                  \/ status'[d] = 503 /\ nonces' \in {nonces, Set(key)}
                BY <4>1, AnswerIs
            <4> QED
                BY <2>1, <2>2, <4>1, <4>2, <4>3 DEF Ends, key
        <3> QED
            BY <1>2, <3>1, <3>2, <3>3
    <2> QED
        BY <2>1, <2>2, <2>3, <2>4 DEF DeliveryTypes, Unmoved, Others
<1> QED
    BY <1>1, <1>2 DEF Serve

\* How a delivery comes to be accepted (checkNonce).
LEMMA AcceptedIs ==
    ASSUME NEW d, Ends(d), status'[d] = 200
    PROVE  /\ phase[d] = "reading" /\ letter'[d] = letter[d] /\ change'[d] = change[d]
           /\ SignatureVerified(Received(d)) /\ checked'[d] = now
           /\ ~Recorded(NonceKey(Received(d))) /\ nonces' = Set(NonceKey(Received(d)))
    BY DEF Ends

\* No delivery is accepted when it arrives.
LEMMA BeginsUnanswered == ASSUME NEW d, Begins(d), status[d] = 0 PROVE status'[d] # 200
    BY DEF Begins

\* Only a delivery that was answered has a status, or has had its nonce looked up.
LEMMA AnsweredIsDone ==
    ASSUME DeliveryInv, NEW d \in Deliveries, status[d] # 0 \/ checked[d] >= 0
    PROVE  phase[d] = "done"
<1>1. phase[d] # "done" => checked[d] = -1 /\ status[d] = 0
    BY DEF DeliveryInv, DeliveryOK
<1> QED
    BY <1>1

LetterOf(d) == letters[letter[d]]

\* A delivery that has arrived is of a proper letter, which has a nonce of its own.
LEMMA ReceivedIs ==
    ASSUME SignedInv, DeliveryInv, NEW d \in Deliveries, phase[d] # "idle"
    PROVE  /\ letter[d] \in DOMAIN letters /\ change[d] \in Changes
           /\ Proper(LetterOf(d)) /\ LetterOf(d).Nonce = letter[d]
<1>1. letter[d] \in DOMAIN letters
    BY DEF DeliveryInv, DeliveryOK
<1>2. change[d] \in Changes
    BY DEF DeliveryInv, DeliveryTypes
<1>3. Proper(LetterOf(d)) /\ LetterOf(d).Nonce = letter[d]
    BY <1>1 DEF SignedInv, LetterOf
<1> QED
    BY <1>1, <1>2, <1>3

\* A delivery that was verified says what its letter said.
LEMMA VerifiedIs ==
    ASSUME SignedInv, DeliveryInv, NEW d \in Deliveries, phase[d] # "idle",
           SignatureVerified(Received(d))
    PROVE  /\ Says(Received(d)) = Says(LetterOf(d))
           /\ NonceKey(Received(d)) = NonceKey(LetterOf(d))
           /\ Received(d).Timestamp = LetterOf(d).Timestamp /\ LetterOf(d).Timestamp \in Int
<1>1. Proper(LetterOf(d)) /\ change[d] \in Changes
    BY ReceivedIs
<1>2. Received(d) = Changed(LetterOf(d), change[d])
    BY DEF Received, LetterOf
<1>3. LetterOf(d).Timestamp \in Int
    BY <1>1 DEF Proper
<1> QED
    BY <1>1, <1>2, <1>3, VerifiedSaysTheSame

\* A delivery that was not damaged is verified.
LEMMA HarmlessIs ==
    ASSUME SignedInv, DeliveryInv, NEW d \in Deliveries, phase[d] # "idle", change[d] \in Harmless
    PROVE  SignatureVerified(Received(d))
<1>1. Proper(LetterOf(d))
    BY ReceivedIs
<1>2. Received(d) = Changed(LetterOf(d), change[d])
    BY DEF Received, LetterOf
<1> QED
    BY <1>1, <1>2, HarmlessIsVerified

\* What was received does not change afterwards.
LEMMA ReceivedStays ==
    ASSUME Kept, NEW d, letter[d] \in DOMAIN letters, letter'[d] = letter[d], change'[d] = change[d]
    PROVE  Received(d)' = Received(d) /\ letters'[letter'[d]] = letters[letter[d]]
    BY DEF Received, Kept

\* A step serves one delivery, or leaves all of them alone.
LEMMA StepIs ==
    ASSUME SignedInv, DeliveryTypes, [Next]_vars
    PROVE  /\ DeliveryTypes'
           /\ \/ /\ \A d \in Deliveries : Unmoved(d)
                 /\ nonces' = {n \in nonces : n.expiry >= now'} \/ nonces' = nonces
              \/ \E d \in Deliveries :
                    /\ \A e \in Deliveries \ {d} : Unmoved(e)
                    /\ Begins(d) \/ Ends(d)
                    /\ UNCHANGED <<now, letters>>
<1>1. CASE UNCHANGED deliveryVars /\ (nonces' = {n \in nonces : n.expiry >= now'} \/ nonces' = nonces)
    BY <1>1 DEF deliveryVars, DeliveryTypes, Unmoved
<1>2. CASE \E d \in Deliveries : Serve(d)
    BY <1>2, ServeIs
<1>3. CASE SignRequest \/ Tick \/ Finished \/ UNCHANGED vars
    BY <1>1, <1>3 DEF SignRequest, Tick, Finished, vars
<1> QED
    BY <1>2, <1>3 DEF Next

\* A delivery that was answered stays as it is.
LEMMA DoneStays ==
    ASSUME SignedInv, DeliveryInv, [Next]_vars, NEW d \in Deliveries, phase[d] = "done"
    PROVE  /\ Unmoved(d) /\ Received(d)' = Received(d)
           /\ letters'[letter'[d]] = letters[letter[d]]
<1>1. Unmoved(d)
    <2>1. ~Begins(d) /\ ~Ends(d)
        BY DEF Begins, Ends
    <2> QED
        BY <2>1, StepIs DEF DeliveryInv
<1>2. letter[d] \in DOMAIN letters /\ Kept
    BY SignedStep DEF DeliveryInv, DeliveryOK
<1> QED
    BY <1>1, <1>2, ReceivedStays DEF Unmoved

\* A delivery the step leaves alone is as good as before.
LEMMA UnmovedIsOK ==
    ASSUME SignedInv, SignedInv', DeliveryTypes, Kept, now <= now', NEW d \in Deliveries, Unmoved(d),
           DeliveryOK(d)
    PROVE  DeliveryOK(d)'
<1>1. arrived'[d] <= now' /\ checked'[d] <= now'
    <2>1. now \in Nat /\ now' \in Nat /\ arrived[d] \in Nat /\ checked[d] \in Int
        BY DEF SignedInv, DeliveryTypes
    <2> QED
        BY <2>1 DEF DeliveryOK, Unmoved
<1>2. CASE phase[d] = "idle"
    BY <1>1, <1>2 DEF DeliveryOK, Unmoved
<1>3. CASE phase[d] # "idle"
    <2>1. letter[d] \in DOMAIN letters /\ letter'[d] \in DOMAIN letters'
        BY <1>3 DEF DeliveryOK, Unmoved, Kept
    <2>2. Received(d)' = Received(d)
        BY <2>1, ReceivedStays DEF Unmoved
    <2> QED
        BY <1>1, <2>1, <2>2 DEF DeliveryOK, Unmoved
<1> QED
    BY <1>2, <1>3

\* Headers are checked at the arrival, and the signature before the nonce.
LEMMA DeliveryStep == SignedInv /\ DeliveryInv /\ [Next]_vars => DeliveryInv'
<1> SUFFICES ASSUME SignedInv, DeliveryInv, [Next]_vars PROVE DeliveryInv'
    OBVIOUS
<1>1. SignedInv' /\ Kept /\ now <= now' /\ DeliveryTypes /\ DeliveryTypes'
    BY SignedStep, StepIs DEF DeliveryInv
<1>2. ASSUME NEW d \in Deliveries PROVE DeliveryOK(d)'
    <2>0. /\ DeliveryOK(d) /\ now \in Nat /\ checked[d] \in Int /\ arrived[d] \in Nat
        BY <1>1 DEF DeliveryInv, SignedInv, DeliveryTypes
    <2>1. CASE Unmoved(d)
        BY <1>1, <2>0, <2>1, UnmovedIsOK
    <2>2. CASE Begins(d) /\ UNCHANGED <<now, letters>>
        <3>1. /\ phase'[d] # "idle" /\ letter'[d] \in DOMAIN letters' /\ arrived'[d] = now'
              /\ checked'[d] = -1 /\ status'[d] # 200
              /\ phase'[d] # "done" => status'[d] = 0
            BY <2>0, <2>2 DEF Begins, DeliveryOK
        <3>2. now' \in Nat /\ arrived'[d] <= now' /\ checked'[d] <= now'
            BY <2>0, <2>2, <3>1
        <3>3. phase'[d] = "reading" => timestampWithinReplayWindow(Received(d)'.Timestamp, arrived'[d])
            <4>1. Received(d)' = Changed(letters[letter'[d]], change'[d])
                BY <2>2 DEF Received
            <4>2. phase'[d] = "reading" => authorizeHMACHeaders(Changed(letters[letter'[d]], change'[d]))
                BY <2>2 DEF Begins
            <4> QED
                BY <2>2, <3>1, <4>1, <4>2 DEF authorizeHMACHeaders
        <3> QED
            BY <3>1, <3>2, <3>3 DEF DeliveryOK
    <2>3. CASE Ends(d) /\ UNCHANGED <<now, letters>>
        <3>1. /\ letter[d] \in DOMAIN letters /\ letter'[d] = letter[d] /\ phase'[d] = "done"
              /\ arrived'[d] = arrived[d] /\ arrived[d] <= now /\ checked[d] <= now
              /\ timestampWithinReplayWindow(Received(d).Timestamp, arrived[d])
              /\ checked'[d] \in {checked[d], now}
            BY <2>0, <2>3 DEF Ends, DeliveryOK
        <3>2. Received(d)' = Received(d)
            BY <1>1, <2>3, <3>1, ReceivedStays DEF Ends
        <3>3. status'[d] = 200 => SignatureVerified(Received(d)) /\ checked'[d] = now
            BY <2>3, AcceptedIs
        <3>4. arrived'[d] <= now' /\ checked'[d] <= now'
            BY <2>0, <2>3, <3>1
        <3> QED
            BY <2>3, <3>1, <3>2, <3>3, <3>4 DEF DeliveryOK
    <2> QED
        BY <1>1, <2>1, <2>2, <2>3, StepIs
<1> QED
    BY <1>1, <1>2 DEF DeliveryInv

\* The nonce of an accepted delivery stays in the store for 2 * Window.
LEMMA NonceStep == SignedInv /\ DeliveryInv /\ NonceInv /\ [Next]_vars => NonceInv'
<1> SUFFICES ASSUME SignedInv, DeliveryInv, NonceInv, [Next]_vars PROVE NonceInv'
    OBVIOUS
<1>0. /\ SignedInv' /\ Kept /\ now <= now' /\ DeliveryTypes /\ DeliveryTypes'
      /\ now \in Nat /\ now' \in Nat /\ Window \in Nat \ {0}
    BY SignedStep, StepIs, AuthAssumption DEF DeliveryInv, SignedInv
\* A nonce was there before, or the step sets it.
<1>1. /\ \A n \in nonces' : n \in nonces \/ \E d \in Deliveries :
            /\ Ends(d) /\ UNCHANGED letters /\ checked'[d] = now /\ SignatureVerified(Received(d))
            /\ n.key = NonceKey(Received(d))
      /\ \A n \in nonces : n.expiry >= now' => n \in nonces'
    <2>1. CASE nonces' = {n \in nonces : n.expiry >= now'} \/ nonces' = nonces
        BY <2>1
    <2>2. ASSUME NEW d \in Deliveries, Ends(d), UNCHANGED letters
          PROVE  \/ nonces' = nonces
                 \/ /\ nonces' = Set(NonceKey(Received(d))) /\ checked'[d] = now
                    /\ SignatureVerified(Received(d))
        BY <2>2 DEF Ends
    <2>3. ASSUME NEW d \in Deliveries, Ends(d), UNCHANGED letters, checked'[d] = now,
                 SignatureVerified(Received(d)), nonces' = Set(NonceKey(Received(d)))
          PROVE  <1>1!:
        BY <2>3 DEF Set
    <2>4. \A d \in Deliveries : Begins(d) => nonces' = nonces
        BY DEF Begins
    <2> QED
        BY <1>0, <2>1, <2>2, <2>3, <2>4, StepIs
<1>2. ASSUME NEW n \in nonces'
      PROVE  \E d \in Deliveries : /\ checked'[d] >= 0 /\ SignatureVerified(Received(d))'
                                    /\ n.key = NonceKey(Received(d))'
    <2>1. CASE n \in nonces
        <3>1. PICK d \in Deliveries : /\ checked[d] >= 0 /\ SignatureVerified(Received(d))
                                      /\ n.key = NonceKey(Received(d))
            BY <2>1 DEF NonceInv
        <3>2. phase[d] = "done"
            BY <3>1, AnsweredIsDone
        <3>3. Unmoved(d) /\ Received(d)' = Received(d)
            BY <3>2, DoneStays
        <3> QED
            BY <3>1, <3>3 DEF Unmoved, NonceKey, SignatureVerified
    <2>2. ASSUME NEW d \in Deliveries, Ends(d), checked'[d] = now, SignatureVerified(Received(d)),
                 n.key = NonceKey(Received(d))
          PROVE  /\ checked'[d] >= 0 /\ SignatureVerified(Received(d))'
                 /\ n.key = NonceKey(Received(d))'
        <3>1. letter[d] \in DOMAIN letters
            BY <2>2 DEF Ends, DeliveryInv, DeliveryOK
        <3>2. Received(d)' = Received(d)
            BY <1>0, <2>2, <3>1, ReceivedStays DEF Ends
        <3> QED
            BY <1>0, <2>2, <3>2 DEF NonceKey, SignatureVerified
    <2> QED
        BY <1>1, <2>1, <2>2
<1>3. ASSUME NEW d \in Deliveries, status'[d] = 200, now' <= checked'[d] + 2 * Window
      PROVE  \E n \in nonces' : n.key = NonceKey(Received(d))' /\ n.expiry = checked'[d] + 2 * Window
    <2>1. CASE Unmoved(d)
        <3>1. status[d] = 200 /\ checked'[d] = checked[d] /\ checked[d] \in Int
            BY <1>0, <1>3, <2>1 DEF Unmoved, DeliveryTypes
        <3>2. phase[d] = "done"
            BY <3>1, AnsweredIsDone
        <3>3. Received(d)' = Received(d)
            BY <3>2, DoneStays
        <3>4. now <= checked[d] + 2 * Window
            BY <1>0, <1>3, <3>1
        <3>5. PICK n \in nonces : n.key = NonceKey(Received(d)) /\ n.expiry = checked[d] + 2 * Window
            BY <3>1, <3>4 DEF NonceInv
        <3>6. n.expiry >= now'
            BY <1>0, <1>3, <3>1, <3>5
        <3>7. n \in nonces'
            BY <1>1, <3>6
        <3> QED
            BY <3>1, <3>3, <3>5, <3>7 DEF NonceKey
    <2>2. CASE Ends(d)
        <3>1. checked'[d] = now /\ nonces' = Set(NonceKey(Received(d)))
            BY <1>3, <2>2, AcceptedIs
        <3>2. letter[d] \in DOMAIN letters
            BY <2>2 DEF Ends, DeliveryInv, DeliveryOK
        <3>3. Received(d)' = Received(d)
            BY <1>0, <2>2, <3>2, ReceivedStays DEF Ends
        <3>4. flooredTTL(nonceReplayTTL) = 2 * Window
            BY <1>0 DEF flooredTTL, nonceReplayTTL
        <3>5. [key |-> NonceKey(Received(d)), expiry |-> now + 2 * Window] \in nonces'
            BY <3>1, <3>4 DEF Set
        <3> QED
            BY <3>1, <3>3, <3>5 DEF NonceKey
    <2>3. CASE Begins(d)
        <3>1. status[d] = 0
            BY <2>3 DEF Begins, DeliveryInv, DeliveryOK
        <3> QED
            BY <1>3, <2>3, <3>1, BeginsUnanswered
    <2> QED
        BY <1>0, <2>1, <2>2, <2>3, StepIs
<1> QED
    BY <1>2, <1>3 DEF NonceInv

-----------------------------------------------------------------------------
\* The two ends agree

\* A signed request is turned away for its age or for its nonce only.
LEMMA AcceptStep ==
    SignedInv /\ DeliveryInv /\ NonceInv /\ SignedIsAccepted /\ [Next]_vars => SignedIsAccepted'
<1> SUFFICES ASSUME SignedInv, DeliveryInv, NonceInv, SignedIsAccepted, [Next]_vars,
                    NEW d \in Deliveries, status'[d] \in {401, 405}, change'[d] \in Harmless
             PROVE  \/ ~timestampWithinReplayWindow(letters'[letter'[d]].Timestamp, arrived'[d])
                    \/ \E e \in Deliveries \ {d} : letter'[e] = letter'[d] /\ checked'[e] \in 0..checked'[d]
    BY DEF SignedIsAccepted
<1>0. DeliveryTypes /\ Kept /\ DeliveryOK(d) /\ now \in Nat
    BY SignedStep DEF DeliveryInv, SignedInv
<1>1. CASE Unmoved(d)
    <2>1. status[d] \in {401, 405} /\ change[d] \in Harmless
        BY <1>1 DEF Unmoved
    <2>2. phase[d] = "done"
        BY <2>1, AnsweredIsDone
    <2>3. letters'[letter'[d]] = letters[letter[d]]
        BY <2>2, DoneStays
    <2>4. CASE ~timestampWithinReplayWindow(letters[letter[d]].Timestamp, arrived[d])
        BY <1>1, <2>3, <2>4 DEF Unmoved
    <2>5. ASSUME NEW e \in Deliveries \ {d}, letter[e] = letter[d], checked[e] \in 0..checked[d]
          PROVE  letter'[e] = letter'[d] /\ checked'[e] \in 0..checked'[d]
        <3>1. phase[e] = "done"
            <4>1. checked[e] >= 0
                BY <2>5
            <4> QED
                BY <4>1, AnsweredIsDone
        <3>2. Unmoved(e)
            BY <3>1, DoneStays
        <3> QED
            BY <1>1, <2>5, <3>2 DEF Unmoved
    <2> QED
        BY <2>1, <2>4, <2>5 DEF SignedIsAccepted
<1>2. CASE Begins(d) /\ UNCHANGED letters
    <2> DEFINE l == letters[letter'[d]]
               r == Changed(l, change'[d])
    <2>1. Proper(l) /\ arrived'[d] = now
        BY <1>2 DEF Begins, SignedInv
    <2>2. r.Method = "POST" /\ (timestampWithinReplayWindow(l.Timestamp, now) => authorizeHMACHeaders(r))
        BY <2>1, HarmlessIsVerified
    <2>3. status[d] = 0
        BY <1>0, <1>2 DEF Begins, DeliveryOK
    <2> HIDE DEF r
    <2>4. ~authorizeHMACHeaders(r)
        BY <1>2, <2>2, <2>3 DEF Begins, r
    <2> QED
        BY <1>2, <2>1, <2>2, <2>4
<1>3. CASE Ends(d)
    <2>1. phase[d] = "reading" /\ letter[d] \in DOMAIN letters /\ letter'[d] = letter[d] /\ change'[d] = change[d]
        BY <1>0, <1>3 DEF Ends, DeliveryOK
    <2>2. SignatureVerified(Received(d))
        <3>1. phase[d] # "idle" /\ change[d] \in Harmless
            BY <2>1
        <3> QED
            BY <3>1, HarmlessIs
    <2>3. Recorded(NonceKey(Received(d))) /\ checked'[d] = now
        BY <1>3, <2>2 DEF Ends
    <2>4. PICK n \in nonces : n.key = NonceKey(Received(d))
        BY <2>3 DEF Recorded
    <2>5. PICK e \in Deliveries : /\ checked[e] >= 0 /\ SignatureVerified(Received(e))
                                  /\ n.key = NonceKey(Received(e))
        BY DEF NonceInv
    <2>6. phase[e] = "done" /\ e # d /\ checked[e] \in Int /\ checked[e] <= now
        <3>1. phase[e] = "done"
            BY <2>5, AnsweredIsDone
        <3>2. checked[e] \in Int /\ checked[e] <= now
            BY <1>0 DEF DeliveryInv, DeliveryOK, DeliveryTypes
        <3> QED
            BY <2>1, <3>1, <3>2
    <2>7. letter[e] = letter[d]
        <3>1. LetterOf(d).Nonce = letter[d] /\ NonceKey(Received(d)) = NonceKey(LetterOf(d))
            BY <2>1, <2>2, ReceivedIs, VerifiedIs
        <3>2. LetterOf(e).Nonce = letter[e] /\ NonceKey(Received(e)) = NonceKey(LetterOf(e))
            BY <2>5, <2>6, ReceivedIs, VerifiedIs
        <3>3. NonceKey(LetterOf(d)) = NonceKey(LetterOf(e))
            BY <2>4, <2>5, <3>1, <3>2
        <3>4. LetterOf(d).Nonce = LetterOf(e).Nonce
            BY <3>3 DEF NonceKey
        <3> QED
            BY <3>1, <3>2, <3>4
    <2>8. Unmoved(e)
        BY <2>6, DoneStays
    <2>9. letter'[e] = letter'[d] /\ checked'[e] \in 0..checked'[d]
        BY <1>0, <2>1, <2>3, <2>5, <2>6, <2>7, <2>8 DEF Unmoved
    <2> QED
        BY <2>6, <2>9
<1> QED
    BY <1>0, <1>1, <1>2, <1>3, StepIs

\* A second copy is accepted only when the timestamp is out of the window.
LEMMA SecondIsLate ==
    ASSUME SignedInv, DeliveryInv, NonceInv, NEW d \in Deliveries, NEW e \in Deliveries,
           Ends(d), status'[d] = 200, status[e] = 200, letter[d] = letter[e]
    PROVE  checked'[d] > LetterOf(d).Timestamp + Window
<1>0. DeliveryTypes /\ now \in Nat /\ Window \in Nat
    BY AuthAssumption DEF DeliveryInv, SignedInv
<1>1. /\ phase[d] = "reading" /\ SignatureVerified(Received(d)) /\ checked'[d] = now
      /\ ~Recorded(NonceKey(Received(d)))
    BY AcceptedIs
<1>2. /\ SignatureVerified(Received(e)) /\ arrived[e] <= checked[e]
      /\ timestampWithinReplayWindow(Received(e).Timestamp, arrived[e])
    BY DEF DeliveryInv, DeliveryOK
<1>3. phase[e] = "done"
    BY AnsweredIsDone
<1>4. LetterOf(d) = LetterOf(e)
    BY DEF LetterOf
<1>5. NonceKey(Received(d)) = NonceKey(LetterOf(d))
    BY <1>1, VerifiedIs
<1>6. /\ NonceKey(Received(e)) = NonceKey(LetterOf(e))
      /\ Received(e).Timestamp = LetterOf(e).Timestamp /\ LetterOf(e).Timestamp \in Int
    BY <1>2, <1>3, VerifiedIs
<1>7. ~\E n \in nonces : n.key = NonceKey(Received(e))
    BY <1>1, <1>4, <1>5, <1>6 DEF Recorded
<1>8. ~(now <= checked[e] + 2 * Window)
    BY <1>7 DEF NonceInv
<1>9. arrived[e] \in Nat /\ checked[e] \in Int
    BY <1>0 DEF DeliveryTypes
<1>10. LetterOf(e).Timestamp <= arrived[e] + Window
    BY <1>2, <1>6 DEF timestampWithinReplayWindow
<1>11. now > LetterOf(e).Timestamp + Window
    BY <1>0, <1>2, <1>6, <1>8, <1>9, <1>10
<1> QED
    BY <1>1, <1>4, <1>11

\* So at most one copy is accepted in the window.
LEMMA OnceStep ==
    SignedInv /\ DeliveryInv /\ NonceInv /\ AcceptedOnceInWindow /\ [Next]_vars => AcceptedOnceInWindow'
<1> SUFFICES ASSUME SignedInv, DeliveryInv, NonceInv, AcceptedOnceInWindow, [Next]_vars,
                    NEW d \in Deliveries, NEW e \in Deliveries,
                    d # e, letter'[d] = letter'[e], status'[d] = 200, status'[e] = 200
             PROVE  \E f \in {d, e} : checked'[f] > letters'[letter'[f]].Timestamp + Window
    BY DEF AcceptedOnceInWindow
<1>1. DeliveryTypes
    BY DEF DeliveryInv
\* Each was accepted before, or is accepted in this step.
<1>2. ASSUME NEW x \in Deliveries, status'[x] = 200
      PROVE  \/ /\ status[x] = 200 /\ Unmoved(x)
                /\ letters'[letter'[x]] = letters[letter[x]]
             \/ /\ Ends(x) /\ checked'[x] = now /\ letter'[x] = letter[x]
                /\ letters'[letter'[x]] = letters[letter[x]]
                /\ \A y \in Deliveries \ {x} : Unmoved(y)
    <2>1. CASE Unmoved(x)
        <3>1. status[x] = 200
            BY <1>2, <2>1 DEF Unmoved
        <3>2. phase[x] = "done"
            BY <3>1, AnsweredIsDone
        <3> QED
            BY <2>1, <3>1, <3>2, DoneStays
    <2>2. CASE Ends(x) /\ UNCHANGED letters /\ \A y \in Deliveries \ {x} : Unmoved(y)
        BY <1>2, <2>2, AcceptedIs
    <2>3. CASE Begins(x)
        <3>1. status[x] = 0
            BY <2>3 DEF Begins, DeliveryInv, DeliveryOK
        <3> QED
            BY <1>2, <2>3, <3>1, BeginsUnanswered
    <2> QED
        BY <1>1, <2>1, <2>2, <2>3, StepIs
<1>3. CASE Unmoved(d) /\ Unmoved(e)
    <2>1. status[d] = 200 /\ status[e] = 200 /\ letter[d] = letter[e]
        BY <1>3 DEF Unmoved
    <2>2. letters'[letter'[d]] = letters[letter[d]] /\ letters'[letter'[e]] = letters[letter[e]]
        <3>1. phase[d] = "done" /\ phase[e] = "done"
            BY <2>1, AnsweredIsDone
        <3> QED
            BY <3>1, DoneStays
    <2>3. \E f \in {d, e} : checked[f] > letters[letter[f]].Timestamp + Window
        BY <2>1 DEF AcceptedOnceInWindow
    <2> QED
        BY <1>3, <2>2, <2>3 DEF Unmoved
<1>4. ASSUME NEW x \in Deliveries, NEW y \in Deliveries, x # y, letter'[x] = letter'[y],
             status'[x] = 200, status'[y] = 200, ~Unmoved(x)
      PROVE  checked'[x] > letters'[letter'[x]].Timestamp + Window
    <2>1. /\ Ends(x) /\ checked'[x] = now /\ letter'[x] = letter[x]
          /\ letters'[letter'[x]] = letters[letter[x]] /\ Unmoved(y)
        BY <1>2, <1>4
    <2>2. Ends(x) /\ status'[x] = 200 /\ status[y] = 200 /\ letter[x] = letter[y]
        BY <1>4, <2>1 DEF Unmoved
    <2>3. checked'[x] > LetterOf(x).Timestamp + Window
        BY <2>2, SecondIsLate
    <2> QED
        BY <2>1, <2>3 DEF LetterOf
<1> QED
    BY <1>3, <1>4

-----------------------------------------------------------------------------
\* The inductive invariant holds.
THEOREM Invariance == Spec => []IInv
<1>1. Init => IInv
    <2> SUFFICES ASSUME Init PROVE IInv
        OBVIOUS
    <2>1. SignedInv
        BY DEF Init, SignedInv
    <2>2. DeliveryTypes
        BY DEF Init, DeliveryTypes, Changes
    <2>3. \A d \in Deliveries : /\ phase[d] = "idle" /\ checked[d] = -1 /\ status[d] = 0
                                /\ arrived[d] = 0
        BY DEF Init
    <2>4. now = 0 /\ nonces = {}
        BY DEF Init
    <2>5. \A d \in Deliveries : DeliveryOK(d)
        BY <2>3, <2>4 DEF DeliveryOK
    <2>6. NonceInv
        BY <2>3, <2>4 DEF NonceInv
    <2>7. SignedIsAccepted
        BY <2>3 DEF SignedIsAccepted
    <2>8. AcceptedOnceInWindow
        BY <2>3 DEF AcceptedOnceInWindow
    <2> QED
        BY <2>1, <2>2, <2>5, <2>6, <2>7, <2>8 DEF IInv, DeliveryInv
<1>2. IInv /\ [Next]_vars => IInv'
    BY SignedStep, DeliveryStep, NonceStep, AcceptStep, OnceStep DEF IInv
<1> QED
    BY <1>1, <1>2, PTL DEF Spec

(***************************************************************************)
(* The handler accepts only what was signed, for any window and any        *)
(* deliveries (authorizeHMACHeaders, authorizeHMACBody).                   *)
(***************************************************************************)
THEOREM AcceptedMeansSignedHolds == Spec => []AcceptedMeansSigned
<1>1. IInv => AcceptedMeansSigned
    <2> SUFFICES ASSUME SignedInv, DeliveryInv, NEW d \in Deliveries, status[d] = 200
                 PROVE  /\ Says(Received(d)) = Says(letters[letter[d]])
                        /\ Received(d).Timestamp \in (arrived[d] - Window)..(arrived[d] + Window)
        BY DEF IInv, AcceptedMeansSigned
    <2>1. /\ arrived[d] \in Nat /\ SignatureVerified(Received(d))
          /\ timestampWithinReplayWindow(Received(d).Timestamp, arrived[d])
        BY DEF DeliveryInv, DeliveryOK, DeliveryTypes
    <2>2. phase[d] = "done"
        BY AnsweredIsDone
    <2>3. /\ Says(Received(d)) = Says(LetterOf(d))
          /\ Received(d).Timestamp = LetterOf(d).Timestamp /\ LetterOf(d).Timestamp \in Int
        BY <2>1, <2>2, VerifiedIs
    <2>4. Received(d).Timestamp \in Int
        BY <2>3
    <2> QED
        BY <2>1, <2>3, <2>4, AuthAssumption DEF timestampWithinReplayWindow, LetterOf
<1> QED
    BY <1>1, Invariance, PTL

(***************************************************************************)
(* What SignRequest signs is turned away for good only for its age or its  *)
(* nonce: the two ends compute the same text of every request              *)
(* (canonicalRequestV3, authorizeHMACBody, checkNonce).                    *)
(***************************************************************************)
THEOREM SignedIsAcceptedHolds == Spec => []SignedIsAccepted
<1>1. IInv => SignedIsAccepted
    BY DEF IInv
<1> QED
    BY <1>1, Invariance, PTL

(***************************************************************************)
(* For any window, a nonce that lives for twice the window outlives the    *)
(* timestamp it was seen with (nonceReplayTTL).                            *)
(***************************************************************************)
THEOREM AcceptedOnceInWindowHolds == Spec => []AcceptedOnceInWindow
<1>1. IInv => AcceptedOnceInWindow
    BY DEF IInv
<1> QED
    BY <1>1, Invariance, PTL
=============================================================================
