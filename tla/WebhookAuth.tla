---------------------------- MODULE WebhookAuth ------------------------------
(***************************************************************************)
(* The two ends of a webhook signature: SignRequest (webhooksign/sign.go), *)
(* and the authentication in the handler (webhook/handler_validation.go)   *)
(* with its clock and the Valkey nonce store (valkeydedup).                *)
(*                                                                         *)
(* Between them is a network that delivers a signed request late, more     *)
(* than once, respelled on the way, or damaged. The handler looks at the   *)
(* clock before it reads the body and asks the nonce store after it; any   *)
(* time may pass between the two. What follows an accepted request is in   *)
(* WebhookHandler, and canonical targets are in CanonicalTarget: here a    *)
(* target is a name in one of two spellings. HMAC and SHA-256 are          *)
(* injective: a signature stands for the text it was computed over.        *)
(***************************************************************************)
EXTENDS Integers, Sequences

CONSTANTS Window,      \* Handler.replayWindow, in ticks
          MaxTime,     \* the clock stops there
          MaxSkew,     \* how far the signer's clock may be off
          MaxSigned,   \* signatures made
          Deliveries   \* the requests that reach the handler

ASSUME AuthAssumption ==
    /\ {Window, MaxSigned} \subseteq Nat \ {0}
    /\ {MaxTime, MaxSkew} \subseteq Nat

VARIABLES
    now,      \* the handler's clock, and the store's
    letters,  \* the signed requests; a letter's position is its nonce
    letter,   \* per delivery: the letter that arrived
    change,   \* per delivery: what became of it on the way
    phase,    \* per delivery: idle, reading, done
    arrived,  \* per delivery: when its timestamp was looked at
    checked,  \* per delivery: when its nonce was looked up, -1 if it was not
    status,   \* per delivery: the status written, 200 if accepted, 0 before
    nonces    \* nonce store: the keys and when each expires

deliveryVars == <<letter, change, phase, arrived, checked, status>>
vars == <<now, letters, deliveryVars, nonces>>

-----------------------------------------------------------------------------
\* The text both ends agree on. A text is a name and how it is spelled: blanks
\* around a header, letter case and port zeros of an authority, escapes and
\* order in a query.

Plain(name) == [name |-> name, odd |-> FALSE]
Odd(name) == [name |-> name, odd |-> TRUE]

Invalid == "invalid"

\* The empty text.
Blank == "blank"

\* What trimming and canonical forms make of a text.
Canonical(text) == text.name

NormalizeMessageID(text) == Canonical(text)

canonicalWebhookAuthority(text) ==
    IF text.name = Blank THEN Invalid ELSE Canonical(text)

CanonicalTarget(text) == Canonical(text)

\* Faulty variant: the message id is not covered.
CanonicalWebhookRequestV3Short(authority, method, target, timestamp, nonce, messageID, hash) ==
    <<canonicalWebhookAuthority(authority), method, target, timestamp, nonce, hash>>

CanonicalWebhookRequestV3(authority, method, target, timestamp, nonce, messageID, hash) ==
    <<canonicalWebhookAuthority(authority), method, target, timestamp, nonce, messageID, hash>>

-----------------------------------------------------------------------------
\* The signer.

\* What a caller hands to SignRequest: something in it may be unusual or wrong.
Ordinary ==
    [Method |-> "POST", URLHost |-> Plain("iris"), Host |-> Plain(Blank),
     Target |-> Plain("target"), MessageIDs |-> <<Plain("id")>>, Secret |-> Plain("key"),
     Body |-> "body"]

Hosts == {Plain("iris"), Odd("iris"), Plain("elsewhere"), Plain(Invalid), Plain(Blank)}

Drafts ==
    {Ordinary, [Ordinary EXCEPT !.Method = "GET"]}
    \cup {[Ordinary EXCEPT !.URLHost = p[1], !.Host = p[2]] : p \in Hosts \X Hosts}
    \cup {[Ordinary EXCEPT !.Target = t] : t \in {Odd("target"), Plain(Invalid)}}
    \cup {[Ordinary EXCEPT !.MessageIDs = ids] :
             ids \in {<<>>, <<Odd("id")>>, <<Odd(Blank)>>, <<Plain(Invalid)>>,
                      <<Plain("id"), Plain("other id")>>}}
    \cup {[Ordinary EXCEPT !.Secret = s] : s \in {Odd("key"), Odd(Blank)}}

validateSigningRequest(d) == d.Method = "POST"

normalizedSigningSecret(d) == Canonical(d.Secret) # Blank

normalizedSigningMessageID(d) ==
    /\ Len(d.MessageIDs) = 1
    /\ NormalizeMessageID(d.MessageIDs[1]) \notin {Blank, Invalid}

\* Faulty variant: the Host field of the request is not looked at.
SignableHostURL(d) == canonicalWebhookAuthority(d.URLHost) # Invalid

\* canonicalRequestV3: when both authorities are there, they are the same.
SignableHost(d) ==
    /\ canonicalWebhookAuthority(d.URLHost) # Invalid
    /\ d.Host # Plain(Blank) =>
          canonicalWebhookAuthority(d.Host) = canonicalWebhookAuthority(d.URLHost)

\* signRequest returns nil for this draft.
Signable(d) ==
    /\ validateSigningRequest(d)
    /\ normalizedSigningSecret(d)
    /\ normalizedSigningMessageID(d)
    /\ CanonicalTarget(d.Target) # Invalid
    /\ SignableHost(d)

\* The request signRequest leaves behind, as net/http sends it.
signRequest(d, timestamp, nonce) ==
    LET messageID == NormalizeMessageID(d.MessageIDs[1])
        canonical == CanonicalWebhookRequestV3(d.URLHost, d.Method, CanonicalTarget(d.Target),
                                               timestamp, nonce, messageID, d.Body)
    IN [Method |-> d.Method, Host |-> IF d.Host = Plain(Blank) THEN d.URLHost ELSE d.Host,
        Target |-> d.Target, MessageIDs |-> <<Plain(messageID)>>, Timestamp |-> timestamp,
        Nonce |-> nonce, BodySHA256 |-> d.Body, Versions |-> <<"v3">>,
        Signature |-> <<Canonical(d.Secret), canonical>>, Body |-> d.Body]

SignRequest ==
    /\ Len(letters) < MaxSigned
    /\ \E d \in Drafts, skew \in (-MaxSkew)..MaxSkew :
          /\ Signable(d)
          /\ letters' = Append(letters, signRequest(d, now + skew, Len(letters) + 1))
    /\ UNCHANGED <<now, deliveryVars, nonces>>

-----------------------------------------------------------------------------
\* The network.

\* An intermediary may spell a text differently; anything else is damage.
Changes == {"none", "respelled", "method", "host", "target", "messageId", "messageIdTwice",
            "timestamp", "nonce", "body", "noSignature", "version"}

Harmless == {"none", "respelled"}

Changed(l, how) ==
    CASE how = "none" -> l
      [] how = "respelled" -> [l EXCEPT !.Host = Odd(@.name), !.Target = Odd(@.name),
                                        !.MessageIDs = <<Odd(@[1].name)>>]
      [] how = "method" -> [l EXCEPT !.Method = "GET"]
      [] how = "host" -> [l EXCEPT !.Host = Plain("elsewhere, changed")]
      [] how = "target" -> [l EXCEPT !.Target = Plain("other target")]
      [] how = "messageId" -> [l EXCEPT !.MessageIDs = <<Plain("other id")>>]
      [] how = "messageIdTwice" -> [l EXCEPT !.MessageIDs = @ \o @]
      [] how = "timestamp" -> [l EXCEPT !.Timestamp = @ + 1]
      [] how = "nonce" -> [l EXCEPT !.Nonce = 0]
      [] how = "body" -> [l EXCEPT !.Body = "other body"]
      [] how = "noSignature" -> [l EXCEPT !.Signature = <<>>]
      [] how = "version" -> [l EXCEPT !.Versions = <<>>]

Received(d) == Changed(letters[letter[d]], change[d])

\* Time passes; Valkey drops a key once its expiry has passed.
Tick ==
    /\ now < MaxTime
    /\ now' = now + 1
    /\ nonces' = {n \in nonces : n.expiry >= now'}
    /\ UNCHANGED <<letters, deliveryVars>>

-----------------------------------------------------------------------------
\* The handler.

Answer(d, code) ==
    /\ status' = [status EXCEPT ![d] = code]
    /\ phase' = [phase EXCEPT ![d] = "done"]

timestampWithinReplayWindow(timestamp, at) ==
    at - Window <= timestamp /\ timestamp <= at + Window

\* normalizedMessageIDHeader: valid and present.
MessageIDAccepted(r) ==
    /\ Len(r.MessageIDs) = 1
    /\ NormalizeMessageID(r.MessageIDs[1]) \notin {Blank, Invalid}

authorizeHMACHeaders(r) ==
    /\ r.Versions = <<"v3">>
    /\ r.Signature # <<>>
    /\ timestampWithinReplayWindow(r.Timestamp, now)
    /\ CanonicalTarget(r.Target) # Invalid
    /\ MessageIDAccepted(r)

\* acceptTransport up to the body.
Arrive(d) ==
    /\ phase[d] = "idle"
    /\ \E n \in DOMAIN letters, how \in Changes :
          LET r == Changed(letters[n], how)
          IN /\ letter' = [letter EXCEPT ![d] = n]
             /\ change' = [change EXCEPT ![d] = how]
             /\ \/ r.Method # "POST" /\ Answer(d, 405)
                \/ r.Method = "POST" /\ ~authorizeHMACHeaders(r) /\ Answer(d, 401)
                \/ /\ r.Method = "POST" /\ authorizeHMACHeaders(r)
                   /\ phase' = [phase EXCEPT ![d] = "reading"]
                   /\ UNCHANGED status
    /\ arrived' = [arrived EXCEPT ![d] = now]
    /\ UNCHANGED <<now, letters, checked, nonces>>

\* bufferBodyForHMAC fails: cut off, too slow, or too large.
BodyFails(d) ==
    /\ phase[d] = "reading"
    /\ \E code \in {400, 408, 413} : Answer(d, code)
    /\ UNCHANGED <<now, letters, letter, change, arrived, checked, nonces>>

\* authorizeHMACBody before the nonce: the hash and the signature.
SignatureVerified(r) ==
    /\ r.BodySHA256 = r.Body
    /\ canonicalWebhookAuthority(r.Host) # Invalid
    /\ r.Signature = <<"key", CanonicalWebhookRequestV3(r.Host, r.Method, CanonicalTarget(r.Target),
                                 r.Timestamp, r.Nonce, NormalizeMessageID(r.MessageIDs[1]), r.Body)>>

SignatureFails(d) ==
    /\ phase[d] = "reading"
    /\ ~SignatureVerified(Received(d))
    /\ Answer(d, 401)
    /\ UNCHANGED <<now, letters, letter, change, arrived, checked, nonces>>

\* Faulty variant: the key lives as long as a timestamp of now is accepted.
nonceReplayTTLOneSided == Window

nonceReplayTTL == 2 * Window

flooredTTL(ttl) == IF ttl < 1 THEN 1 ELSE ttl

NonceKey(r) == <<r.Method, CanonicalTarget(r.Target), r.Timestamp, r.Nonce>>

\* IsDuplicate: SET NX PX, one atomic command.
Recorded(key) == \E n \in nonces : n.key = key

Set(key) == nonces \cup {[key |-> key, expiry |-> now + flooredTTL(nonceReplayTTL)]}

\* checkNonce, at a verified signature. A command that fails or outlives
\* nonceTimeout may have been carried out.
CheckNonce(d) ==
    LET key == NonceKey(Received(d))
    IN /\ phase[d] = "reading"
       /\ SignatureVerified(Received(d))
       /\ \/ Recorded(key) /\ Answer(d, 401) /\ UNCHANGED nonces
          \/ ~Recorded(key) /\ Answer(d, 200) /\ nonces' = Set(key)
          \/ /\ Answer(d, 503)
             /\ nonces' \in {nonces} \cup (IF Recorded(key) THEN {} ELSE {Set(key)})
       /\ checked' = [checked EXCEPT ![d] = now]
       /\ UNCHANGED <<now, letters, letter, change, arrived>>

-----------------------------------------------------------------------------
TypeOK ==
    /\ now \in 0..MaxTime
    /\ Len(letters) <= MaxSigned
    /\ letter \in [Deliveries -> 0..MaxSigned]
    /\ change \in [Deliveries -> Changes]
    /\ phase \in [Deliveries -> {"idle", "reading", "done"}]
    /\ arrived \in [Deliveries -> 0..MaxTime]
    /\ checked \in [Deliveries -> -1..MaxTime]
    /\ status \in [Deliveries -> {0, 200, 400, 401, 405, 408, 413, 503}]
    /\ \A n \in nonces : n.expiry >= now

Init ==
    /\ now = 0
    /\ letters = <<>>
    /\ letter = [d \in Deliveries |-> 0]
    /\ change = [d \in Deliveries |-> "none"]
    /\ phase = [d \in Deliveries |-> "idle"]
    /\ arrived = [d \in Deliveries |-> 0]
    /\ checked = [d \in Deliveries |-> -1]
    /\ status = [d \in Deliveries |-> 0]
    /\ nonces = {}

Serve(d) == Arrive(d) \/ BodyFails(d) \/ SignatureFails(d) \/ CheckNonce(d)

Finished ==
    /\ \A d \in Deliveries : phase[d] = "done"
    /\ UNCHANGED vars

Next ==
    \/ SignRequest \/ Tick \/ Finished
    \/ \E d \in Deliveries : Serve(d)

Spec == Init /\ [][Next]_vars

-----------------------------------------------------------------------------
\* What a request says to the handler.
Says(r) ==
    <<canonicalWebhookAuthority(r.Host), r.Method, CanonicalTarget(r.Target), r.Timestamp,
      r.Nonce, NormalizeMessageID(r.MessageIDs[1]), r.Body>>

\* The handler accepts only what was signed: an accepted request says what the
\* letter said when it left the signer, however it is spelled, and its
\* timestamp was inside the window on both sides when it arrived.
AcceptedMeansSigned ==
    \A d \in Deliveries : status[d] = 200 =>
        /\ Says(Received(d)) = Says(letters[letter[d]])
        /\ Received(d).Timestamp \in (arrived[d] - Window)..(arrived[d] + Window)

\* The two ends agree: whatever SignRequest signs without an error, with a
\* clock inside the window, the handler does not turn away for good (401, 405),
\* unless a copy of the same request had its nonce looked up before.
SignedIsAccepted ==
    \A d \in Deliveries : status[d] \in {401, 405} /\ change[d] \in Harmless =>
        \/ ~timestampWithinReplayWindow(letters[letter[d]].Timestamp, arrived[d])
        \/ \E e \in Deliveries \ {d} : letter[e] = letter[d] /\ checked[e] \in 0..checked[d]

\* The nonce outlives the timestamp (nonceReplayTTL): of the copies of one
\* signed request that have their nonce looked up while the timestamp is inside
\* the window, the handler accepts at most one. A body that is still being read
\* when the window ends is the only way to a second one.
AcceptedOnceInWindow ==
    \A d, e \in Deliveries :
        /\ d # e /\ letter[d] = letter[e] /\ status[d] = 200 /\ status[e] = 200
        => \E f \in {d, e} : checked[f] > letters[letter[f]].Timestamp + Window
=============================================================================
