-------------------------- MODULE ReplyRetryProofs ---------------------------
(***************************************************************************)
(* Proofs about ReplyRetry for any number of attempts and any durations,   *)
(* the nanoseconds of the code included: its invariants, and that it       *)
(* implements CallOutcome.                                                 *)
(***************************************************************************)
EXTENDS ReplyRetry, TLAPS

Resigned == IF epochRefreshed THEN 1 ELSE 0

\* An attempt sends one request, and one more if it spends the re-signature.
CountInv ==
    /\ attempt \in 1..maxAttempts
    /\ sent \in Nat
    /\ epochRefreshed \in BOOLEAN
    /\ sent <= attempt + Resigned
    /\ pc \in {"prepare", "build"} => sent < attempt + Resigned
    /\ pc = "resign" => epochRefreshed /\ sent <= attempt
    /\ pc = "prepare" => attempt = 1
    /\ pc = "wait" => attempt # maxAttempts

WaitInv ==
    /\ backoff \in FirstBackoff..Second
    /\ attempt > 1 => backoff > FirstBackoff
    /\ WaitIsInBounds

\* Nothing was handed over, and nothing is under way.
Silent == applied = 0 /\ net = {}

\* The record of the id keeps Iris from ever handing the reply over.
NeverApplied == Recording /\ ledger \in {"failed", "foreign"}

RefusalCodes == {"CLIENT_REQUEST_ID_FAILED", "CLIENT_REQUEST_ID_PAYLOAD_MISMATCH"}

(***************************************************************************)
(* While no outcome is unknown, only the request of the present attempt    *)
(* can have been handed over; what the answers say of it is true.          *)
(***************************************************************************)
OutcomeInv ==
    /\ unknownErr \in Errors \cup {Nil}
    /\ unknownErr # Nil => Is(unknownErr, "ErrTransport")
    /\ hasId \in BOOLEAN
    /\ resp \in Answers
    /\ ledger \in Records
    /\ pc = "prepare" => unknownErr = Nil /\ resp = NoAnswer
    /\ unknownErr = Nil /\ pc \in {"prepare", "build", "resign", "wait"} => Silent
    /\ unknownErr = Nil /\ pc = "do" =>
          /\ net \subseteq {sent}
          /\ resp # NoAnswer => net = {}
          /\ resp # Accepted /\ resp.status < 500 => applied = 0
    /\ resp.code \in RefusalCodes => NeverApplied
    /\ NeverApplied => applied = 0
    /\ Recording /\ ledger = "absent" => applied = 0
    /\ Failed /\ Definite(err) => Silent \/ NeverApplied

-----------------------------------------------------------------------------
\* The arithmetic of RetryDelay.

\* A number below the modulus is its own remainder.
LEMMA ModSmall == ASSUME NEW a \in Nat, NEW b \in Nat, a < b PROVE a % b = a
    OBVIOUS

\* time.Duration arithmetic is exact within its range.
LEMMA WrapSmall == \A x \in 0..MaxDuration : Wrap(x) = x
<1> SUFFICES ASSUME NEW x \in 0..MaxDuration PROVE Wrap(x) = x
    OBVIOUS
<1>1. MaxDuration \in Nat
    BY DurationsAssumption
<1>2. /\ x + MaxDuration + 1 \in Nat /\ 2 * (MaxDuration + 1) \in Nat
      /\ x + MaxDuration + 1 < 2 * (MaxDuration + 1)
    BY <1>1
<1> QED
    BY <1>1, <1>2, ModSmall DEF Wrap

(***************************************************************************)
(* parseRetryAfterHeader gives at least what the header asks for, up to    *)
(* the longest duration, and something only for a header that asks.        *)
(***************************************************************************)
LEMMA ParsedIsAsked ==
    ASSUME NEW h \in [kind : {"seconds", "date", "none"}, n : Int],
           h.kind = "none" => h.n = 0
    PROVE  /\ ParseRetryAfterHeader(h) \in Nat
           /\ ParseRetryAfterHeader(h) >= AtMost(Asked(h), MaxDuration)
<1> USE DurationsAssumption DEF AtMost
<1>1. CASE h.kind = "none" \/ h.n <= 0
    <2>1. h.n * Second <= 0 /\ h.n * Second \in Int
        BY <1>1
    <2> QED
        BY <1>1, <2>1 DEF ParseRetryAfterHeader, Asked
<1>2. CASE h.kind = "date" /\ h.n > 0
    BY <1>2 DEF ParseRetryAfterHeader, Asked
<1>3. CASE h.kind = "seconds" /\ h.n > 0
    <2>1. CASE h.n > MaxInt64 \/ h.n > MaxDuration \div Second
        BY <1>3, <2>1 DEF ParseRetryAfterHeader, Asked
    <2>2. CASE ~(h.n > MaxInt64 \/ h.n > MaxDuration \div Second)
        <3>1. h.n * Second \in 0..MaxDuration
            BY <1>3, <2>2
        <3>2. Wrap(h.n * Second) = h.n * Second
            BY <3>1, WrapSmall
        <3> QED
            BY <1>3, <2>2, <3>1, <3>2 DEF ParseRetryAfterHeader, Asked
    <2> QED
        BY <2>1, <2>2
<1> QED
    BY <1>1, <1>2, <1>3

(***************************************************************************)
(* retryDelayAndRetryAfter chooses a delay that satisfies both the header, *)
(* up to the limit of the client, and half the backoff, and keeps to that  *)
(* limit.                                                                  *)
(***************************************************************************)
LEMMA DelayIsInBounds ==
    ASSUME NEW h \in Headers, NEW fallback \in 1..Second, NEW d \in RetryDelays(h, fallback)
    PROVE  /\ d \in Nat
           /\ d >= AtMost(Asked(h), MaxReplyRetryAfterDelay)
           /\ 2 * d >= fallback - 1
           /\ d <= MaxReplyRetryAfterDelay
<1> USE DurationsAssumption
<1>1. h \in [kind : {"seconds", "date", "none"}, n : Int] /\ (h.kind = "none" => h.n = 0)
    BY DEF Headers, NoHeader
<1> DEFINE ra == ParseRetryAfterHeader(h)
<1>2. ra \in Nat /\ ra >= AtMost(Asked(h), MaxDuration)
    BY <1>1, ParsedIsAsked
<1>3. Asked(h) \in Int
    BY <1>1 DEF Asked
<1>4. CASE ra > 0
    <2>1. d = ClampDuration(ra, fallback, MaxReplyRetryAfterDelay)
        BY <1>4 DEF RetryDelays
    <2> QED
        BY <1>2, <1>3, <1>4, <2>1 DEF ClampDuration, AtMost, AtLeast
<1>5. CASE ra = 0
    <2>1. d \in (fallback \div 2)..(fallback - 1)
        BY <1>5 DEF RetryDelays, HalfJitter
    <2>2. Asked(h) <= 0
        BY <1>2, <1>3, <1>5 DEF AtMost
    <2> QED
        BY <1>3, <2>1, <2>2 DEF AtMost
<1> QED
    BY <1>2, <1>4, <1>5

-----------------------------------------------------------------------------
\* Iris decides about a request without touching the state of the call.
LEMMA IrisLeavesTheCall == ASSUME NEW n, Serve(n) PROVE UNCHANGED <<clientVars, sent>>
<1>1. ASSUME NEW a, Answer(n, a) PROVE UNCHANGED <<clientVars, sent>>
    BY <1>1 DEF Answer
<1> QED
    BY <1>1 DEF Serve, Refuse, Admit, AdmitFails, Conflict

(***************************************************************************)
(* One attempt sends one request, and the call one more for its single     *)
(* re-signature, whatever fails (retryPost, do).                           *)
(***************************************************************************)
LEMMA CountStep == CountInv /\ [Next]_vars => CountInv'
<1> SUFFICES ASSUME CountInv, [Next]_vars PROVE CountInv'
    OBVIOUS
<1> USE ReplyRetryMaxAssumption
        DEF CountInv, Resigned, maxAttempts, callVars, waitVars, clientVars, Return
<1>0. ASSUME NEW e, AttemptFails(e), pc # "prepare", UNCHANGED <<epochRefreshed, sent>>
      PROVE  CountInv'
    BY <1>0 DEF AttemptFails
<1>1. CASE PrepareReply
    BY <1>1 DEF PrepareReply
<1>2. CASE PrepareQuery
    BY <1>2 DEF PrepareQuery
<1>3. CASE BuildFails
    BY <1>3 DEF BuildFails
<1>4. CASE WaitEnds
    BY <1>4 DEF WaitEnds
<1>5. CASE Transmit
    BY <1>5 DEF Transmit
<1>6. CASE DialFails
    BY <1>0, <1>6 DEF DialFails
<1>7. CASE DoFails
    BY <1>0, <1>7 DEF DoFails
<1>8. CASE ReceiveAccepted
    <2>1. CASE \E e \in {OtherError, SentinelError("ErrResponseTooLarge")} :
                  AttemptFails(TransportError(e, hasId))
        BY <1>0, <1>8, <2>1 DEF ReceiveAccepted
    <2>2. CASE Return(Nil) /\ UNCHANGED <<callVars, waitVars>>
        BY <1>8, <2>2 DEF ReceiveAccepted
    <2> QED
        BY <1>8, <2>1, <2>2 DEF ReceiveAccepted
<1>9. CASE ReceiveError
    BY <1>0, <1>9 DEF ReceiveError
<1>10. CASE ReceiveMismatch
    BY <1>10 DEF ReceiveMismatch
<1>11. CASE ResignFails
    BY <1>0, <1>11 DEF ResignFails
<1>12. CASE Expire
    BY <1>12 DEF Expire
<1>13. ASSUME NEW n \in net, Serve(n) PROVE CountInv'
    BY <1>13, IrisLeavesTheCall
<1>14. CASE Returned \/ UNCHANGED vars
    BY <1>14 DEF Returned, vars
<1>15. CASE Step
    BY <1>1, <1>2, <1>3, <1>4, <1>5, <1>6, <1>7, <1>8, <1>9, <1>10, <1>11, <1>15 DEF Step
<1> HIDE DEF CountInv
<1> QED
    BY <1>12, <1>13, <1>14, <1>15 DEF Next

(***************************************************************************)
(* Every wait is in its bounds, and the backoff grows from attempt to      *)
(* attempt up to a second (retryPost, retryDelayAndRetryAfter).            *)
(***************************************************************************)
LEMMA WaitStep == CountInv /\ WaitInv /\ [Next]_vars => WaitInv'
<1> SUFFICES ASSUME CountInv, WaitInv, [Next]_vars PROVE WaitInv'
    OBVIOUS
<1> USE DurationsAssumption
        DEF WaitInv, WaitIsInBounds, callVars, waitVars, clientVars, Return
<1>0. ASSUME NEW e, AttemptFails(e) PROVE WaitInv'
    <2>1. CASE SetTimer(e) /\ pc' = "wait"
        <3>1. header' \in Headers /\ delay' \in RetryDelays(header', backoff)
            BY <2>1 DEF SetTimer, Headers
        <3>2. backoff \in 1..Second
            OBVIOUS
        <3>3. /\ delay' >= AtMost(Asked(header'), MaxReplyRetryAfterDelay)
              /\ 2 * delay' >= backoff - 1
              /\ delay' <= MaxReplyRetryAfterDelay
            BY <3>1, <3>2, DelayIsInBounds
        <3> QED
            BY <1>0, <2>1, <3>3 DEF AttemptFails
    <2>2. CASE pc' = "done"
        BY <1>0, <2>2 DEF AttemptFails
    <2> QED
        BY <1>0, <2>1, <2>2 DEF AttemptFails
<1>1. CASE WaitEnds
    <2>1. CASE backoff' = AtMost(Wrap(backoff * 2), Second) /\ attempt' = attempt + 1
               /\ pc' = "build"
        <3>1. Wrap(backoff * 2) = backoff * 2
            BY WrapSmall
        <3>2. backoff' \in FirstBackoff..Second /\ backoff' > FirstBackoff
            BY <2>1, <3>1 DEF AtMost
        <3> QED
            BY <2>1, <3>2
    <2>2. CASE UNCHANGED <<attempt, backoff>> /\ pc' = "done"
        BY <2>2
    <2> QED
        BY <1>1, <2>1, <2>2 DEF WaitEnds
<1>2. CASE UNCHANGED waitVars /\ (pc' = "wait" => pc = "wait")
    BY <1>2
<1>3. CASE DialFails \/ DoFails \/ ReceiveError \/ ResignFails
    BY <1>0, <1>3 DEF DialFails, DoFails, ReceiveError, ResignFails
<1>4. CASE ReceiveAccepted
    BY <1>0, <1>2, <1>4 DEF ReceiveAccepted
<1>5. CASE PrepareReply \/ PrepareQuery \/ BuildFails \/ Transmit \/ ReceiveMismatch
    BY <1>2, <1>5 DEF PrepareReply, PrepareQuery, BuildFails, Transmit, ReceiveMismatch
<1>6. CASE Expire \/ Returned \/ UNCHANGED vars
    BY <1>2, <1>6 DEF Expire, Returned, vars
<1>7. ASSUME NEW n \in net, Serve(n) PROVE WaitInv'
    BY <1>2, <1>7, IrisLeavesTheCall
<1>8. CASE Step
    BY <1>1, <1>3, <1>4, <1>5, <1>8 DEF Step
<1> HIDE DEF WaitInv
<1> QED
    BY <1>6, <1>7, <1>8 DEF Next

-----------------------------------------------------------------------------
\* The outcome of a call.

\* TransportError.Is adds to what the wrapped error matches.
LEMMA TransportErrorIs ==
    ASSUME NEW e \in Errors, NEW i \in BOOLEAN
    PROVE  /\ TransportError(e, i) \in Errors
           /\ Is(e, "ErrTransport") => Is(TransportError(e, i), "ErrTransport")
           /\ TransportError(e, i).code = e.code
           /\ ~Is(e, "ErrNotSent") => Is(TransportError(e, i), "ErrTransport")
    BY DEF TransportError, Errors, Is, Sentinels

\* errors.Join matches what either error matches.
LEMMA JoinIs ==
    ASSUME NEW e \in Errors, NEW f \in Errors
    PROVE  /\ Join(e, f) \in Errors
           /\ Is(f, "ErrTransport") => Is(Join(e, f), "ErrTransport")
    BY DEF Join, Errors, Is

\* An error of another package matches no sentinel.
LEMMA OtherErrorIs ==
    /\ OtherError \in Errors
    /\ OtherError.is = {}
    /\ OtherError.code = NoCode
    /\ OtherError.status = 0
    BY DEF OtherError, Errors, Codes

\* A sentinel matches itself and carries no answer.
LEMMA SentinelErrorIs ==
    ASSUME NEW s \in Sentinels
    PROVE  /\ SentinelError(s) \in Errors
           /\ SentinelError(s).is = {s}
           /\ SentinelError(s).code = NoCode
           /\ SentinelError(s).status = 0
    BY DEF SentinelError, OtherError, Errors, Codes

\* An answer of Iris as an error.
LEMMA HTTPErrorType ==
    ASSUME NEW s \in Nat, NEW c \in Codes
    PROVE  /\ HTTPError(s, c) \in Errors
           /\ HTTPError(s, c).is = HTTPErrorIs(s, c)
           /\ HTTPError(s, c).code = c
           /\ HTTPError(s, c).status = s
<1>1. HTTPErrorIs(s, c) \subseteq Sentinels
    BY DEF HTTPErrorIs, Sentinels
<1> QED
    BY <1>1 DEF HTTPError, Errors

\* HTTPError.Is calls a status of 500 or more retryable, and nothing else.
LEMMA ServerErrorIs ==
    ASSUME NEW s \in Nat, s >= 500, NEW c \in Codes
    PROVE  HTTPErrorIs(s, c) \subseteq {"ErrRetryable"}
    BY DEF HTTPErrorIs

\* stopReplyRetry changes nothing that errors.Is or errors.As can see.
LEMMA StopReplyRetryIs ==
    ASSUME NEW e \in Errors
    PROVE  /\ StopReplyRetry(e) \in Errors
           /\ StopReplyRetry(e).is = e.is
           /\ StopReplyRetry(e).code = e.code
           /\ StopReplyRetry(e).status = e.status
    BY DEF StopReplyRetry, Errors

\* isRetryableReplyError does not retry such a status, which is not definite either.
LEMMA ServerErrorIsFinal ==
    ASSUME NEW e \in Errors, NEW i \in BOOLEAN, e.status >= 500, e.is \subseteq {"ErrRetryable"}
    PROVE  ~isRetryableReplyError(e, i) /\ ~Definite(e)
<1>1. ~Is(e, "ErrRateLimited") /\ ~Is(e, "ErrTransport") /\ ~Is(e, "ErrNotSent")
    BY DEF Is
<1>2. ~isRetryableReplyError(e, i)
    BY <1>1 DEF isRetryableReplyError, isRetryableTransportError
<1>3. ~Definite(e)
    BY DEF Definite, Errors
<1> QED
    BY <1>2, <1>3

\* The errors of signRequest carry no conflict code and leave no outcome unknown.
LEMMA SignErrorTypes ==
    \A e \in signRequestErrors : e \in Errors /\ e.code = NoCode /\ ~Is(e, "ErrTransport")
<1> SUFFICES ASSUME NEW e \in signRequestErrors
             PROVE  e \in Errors /\ e.code = NoCode /\ "ErrTransport" \notin e.is
    BY DEF Is
<1> DEFINE notSent == SentinelError("ErrNotSent")
<1> DEFINE tooLarge == SentinelError("ErrResponseTooLarge")
<1>1. notSent \in Errors /\ notSent.code = NoCode /\ notSent.status = 0 /\ notSent.is = {"ErrNotSent"}
    BY SentinelErrorIs DEF Sentinels
<1>2. tooLarge \in Errors /\ tooLarge.code = NoCode /\ tooLarge.is = {"ErrResponseTooLarge"}
    BY SentinelErrorIs DEF Sentinels
<1> HIDE DEF notSent, tooLarge
<1>3. CASE e = OtherError
    BY <1>3, OtherErrorIs
<1>4. CASE e = AuthEpochTransportError
    <2>1. e = TransportError(notSent, FALSE)
        BY <1>4 DEF AuthEpochTransportError, notSent
    <2>2. e \in Errors /\ e.code = NoCode
        BY <1>1, <2>1, TransportErrorIs
    <2>3. "ErrTransport" \notin e.is
        BY <1>1, <2>1 DEF TransportError, Errors, Is
    <2> QED
        BY <2>2, <2>3
<1>5. CASE e = notSent
    BY <1>1, <1>5
<1>6. CASE e = Join(notSent, tooLarge)
    BY <1>1, <1>2, <1>6, JoinIs DEF Join
<1>7. ASSUME NEW s \in Nat
      PROVE  /\ DiscoveryHTTPError(s) \in Errors /\ DiscoveryHTTPError(s).code = NoCode
             /\ "ErrTransport" \notin DiscoveryHTTPError(s).is
    <2> DEFINE h == HTTPError(s, NoCode)
    <2>1. h \in Errors /\ h.code = NoCode /\ h.is = HTTPErrorIs(s, NoCode)
        BY HTTPErrorType DEF Codes
    <2>2. "ErrTransport" \notin HTTPErrorIs(s, NoCode)
        BY DEF HTTPErrorIs
    <2>3. DiscoveryHTTPError(s) = Join(notSent, h)
        BY DEF DiscoveryHTTPError, notSent
    <2> HIDE DEF h
    <2> QED
        BY <1>1, <2>1, <2>2, <2>3, JoinIs DEF Join
<1>8. CASE \E s \in {302, 403, 409, 429, 500} : e = DiscoveryHTTPError(s)
    <2>1. \E s \in Nat : e = DiscoveryHTTPError(s)
        BY <1>8
    <2> QED
        BY <1>7, <2>1, Zenon
<1>9. \/ e \in {OtherError, AuthEpochTransportError, notSent, Join(notSent, tooLarge)}
      \/ \E s \in {302, 403, 409, 429, 500} : e = DiscoveryHTTPError(s)
    BY DEF signRequestErrors, AuthEpochErrors, notSent, tooLarge
<1> QED
    BY <1>3, <1>4, <1>5, <1>6, <1>8, <1>9

(***************************************************************************)
(* keepUnknownOutcome returns a definite error only if no outcome was      *)
(* unknown, or if Iris answered with the record of the id.                 *)
(***************************************************************************)
LEMMA UnknownIsKept ==
    ASSUME NEW e \in Errors, NEW u \in Errors \cup {Nil}, hasId \in BOOLEAN,
           u # Nil => Is(u, "ErrTransport"),
           Definite(keepUnknownOutcome(e, u))
    PROVE  /\ keepUnknownOutcome(e, u) = e
           /\ ~Is(e, "ErrTransport")
           /\ u = Nil \/ e.code \in RefusalCodes
<1>1. keepUnknownOutcome(e, u) = e
    BY TransportErrorIs DEF keepUnknownOutcome, Definite
<1>2. u = Nil \/ ClientRequestIDConflictCode(e) # NoCode
    <2> SUFFICES ASSUME u # Nil, ClientRequestIDConflictCode(e) = NoCode PROVE FALSE
        OBVIOUS
    <2>1. keepUnknownOutcome(e, u) = TransportError(u, hasId)
        BY <1>1 DEF keepUnknownOutcome, Definite
    <2> QED
        BY <2>1, TransportErrorIs DEF Definite
<1>3. ClientRequestIDConflictCode(e) # NoCode => e.code \in ConflictCodes
    BY DEF ClientRequestIDConflictCode
<1>4. Definite(e) /\ e.code \in ConflictCodes => e.code \in RefusalCodes
    BY DEF ConflictCodes, Definite, RefusalCodes
<1>5. Definite(e) => ~Is(e, "ErrTransport")
    BY DEF Definite
<1> QED
    BY <1>1, <1>2, <1>3, <1>4, <1>5

(***************************************************************************)
(* A failed attempt keeps the invariant if its error is right about the    *)
(* present request.                                                        *)
(***************************************************************************)
LEMMA FailureIsTruthful ==
    ASSUME OutcomeInv, NEW e \in Errors, AttemptFails(e), pc # "prepare",
           UNCHANGED <<net, irisVars>>, resp' \in {NoAnswer, resp},
           e.code \in RefusalCodes => NeverApplied,
           unknownErr = Nil /\ ~Is(e, "ErrTransport") =>
              Silent \/ (~isRetryableReplyError(e, hasId) /\ ~Definite(e))
    PROVE  OutcomeInv'
<1> USE DEF irisVars, callVars
<1>1. /\ unknownErr' \in Errors \cup {Nil}
      /\ unknownErr' # Nil => Is(unknownErr', "ErrTransport")
      /\ unknownErr' = Nil => unknownErr = Nil /\ ~Is(e, "ErrTransport")
    BY NilAssumption DEF OutcomeInv, AttemptFails
<1>2. /\ hasId' \in BOOLEAN /\ (NeverApplied' <=> NeverApplied)
      /\ (Recording /\ ledger = "absent" => applied = 0)'
    <2>1. UNCHANGED <<path, hasId, ledger>>
        BY DEF AttemptFails
    <2> QED
        BY <2>1 DEF OutcomeInv, NeverApplied, Recording
<1>3. /\ resp' \in Answers
      /\ (resp.code \in RefusalCodes => NeverApplied)'
      /\ (NeverApplied => applied = 0)'
    <2>1. NoAnswer \in Answers /\ NoAnswer.code \notin RefusalCodes
        BY DEF NoAnswer, Answers, Codes, NoCode, RefusalCodes
    <2>2. resp' \in Answers /\ (resp'.code \in RefusalCodes => NeverApplied)
        BY <2>1 DEF OutcomeInv
    <2>3. applied' = applied /\ (NeverApplied => applied = 0)
        BY DEF OutcomeInv
    <2> QED
        BY <1>2, <2>2, <2>3
<1>4. CASE pc' = "wait" /\ isRetryableReplyError(e, hasId)
    BY <1>1, <1>2, <1>3, <1>4 DEF OutcomeInv, Silent, Failed
<1>5. CASE Return(keepUnknownOutcome(e, unknownErr'))
    <2>1. ASSUME Definite(err') PROVE (Silent \/ NeverApplied)'
        <3>1. err' = e /\ ~Is(e, "ErrTransport") /\ (unknownErr' = Nil \/ e.code \in RefusalCodes)
            BY <1>1, <1>5, <2>1, UnknownIsKept DEF OutcomeInv, Return
        <3> QED
            BY <1>1, <1>2, <2>1, <3>1 DEF Silent
    <2> QED
        BY <1>1, <1>2, <1>3, <1>5, <2>1 DEF OutcomeInv, Return, Failed, Definite, Is
<1> QED
    BY <1>4, <1>5 DEF AttemptFails

\* The two ranges of a status.
LEMMA BelowOrAtLeast == ASSUME NEW n \in Nat, ~(n < 500) PROVE n >= 500
    OBVIOUS

(***************************************************************************)
(* The call, step by step: what it builds, sends and receives.             *)
(***************************************************************************)
LEMMA CallStep == OutcomeInv /\ Step => OutcomeInv'
<1> SUFFICES ASSUME OutcomeInv, Step PROVE OutcomeInv'
    OBVIOUS
<1> USE DEF irisVars, callVars, waitVars, Return
<1>1. CASE PrepareReply \/ PrepareQuery
    <2>1. /\ UNCHANGED <<unknownErr, net, sent, resp, ledger, applied>> /\ pc = "prepare"
          /\ pc' \in {"build", "done"} /\ hasId' \in BOOLEAN
        BY <1>1 DEF PrepareReply, PrepareQuery, OutcomeInv
    <2>2. unknownErr' = Nil /\ applied' = 0 /\ net' = {} /\ resp' = NoAnswer
        BY <2>1 DEF OutcomeInv, Silent
    <2>3. NoAnswer \in Answers /\ NoAnswer.code \notin RefusalCodes
        BY DEF NoAnswer, Answers, Codes, NoCode, RefusalCodes
    <2> QED
        BY <2>1, <2>2, <2>3 DEF OutcomeInv, Silent
<1>2. CASE BuildFails \/ WaitEnds
    <2>1. /\ UNCHANGED <<path, hasId, unknownErr, net, sent, resp, ledger, applied>>
          /\ NeverApplied' <=> NeverApplied
          /\ Recording' <=> Recording
          /\ pc \in {"build", "wait"}
        BY <1>2 DEF BuildFails, WaitEnds, NeverApplied, Recording
    <2>2. CASE BuildFails
        <3>1. PICK e \in signRequestErrors : Return(keepUnknownOutcome(e, unknownErr))
            BY <2>2 DEF BuildFails
        <3>2. e \in Errors /\ e.code \notin RefusalCodes
            BY SignErrorTypes DEF NoCode, RefusalCodes
        <3>3. Definite(err') => unknownErr = Nil
            BY <3>1, <3>2, UnknownIsKept DEF OutcomeInv
        <3> QED
            BY <2>1, <3>1, <3>3 DEF OutcomeInv, Silent, Failed, Definite, Is
    <2>3. CASE WaitEnds /\ pc' = "build"
        BY <2>1, <2>3 DEF OutcomeInv, Silent, Failed
    <2>4. CASE Return(retryWaitError(OtherError, unknownErr))
        <3>1. ASSUME unknownErr # Nil PROVE ~Definite(err')
            <4>1. Join(OtherError, unknownErr) \in Errors
                  /\ Is(Join(OtherError, unknownErr), "ErrTransport")
                BY <3>1, JoinIs, OtherErrorIs DEF OutcomeInv
            <4> QED
                BY <2>4, <3>1, <4>1, TransportErrorIs DEF retryWaitError, Definite, OutcomeInv
        <3> QED
            BY <2>1, <2>4, <3>1 DEF OutcomeInv, Silent, Failed, Definite, Is
    <2> QED
        BY <1>2, <2>2, <2>3, <2>4 DEF WaitEnds
<1>3. CASE Transmit
    BY <1>3 DEF Transmit, OutcomeInv, Silent, NeverApplied, Recording, Failed, NoAnswer, Answers,
                Codes, NoCode, RefusalCodes
<1>4. CASE DialFails
    <2>1. PICK e \in {OtherError, SentinelError("ErrNotSent"),
                      Join(SentinelError("ErrNotSent"), SentinelError("ErrH3EgressDenied"))} :
             AttemptFails(TransportError(e, hasId))
        BY <1>4 DEF DialFails
    <2>2. e \in Errors /\ e.code = NoCode
        <3>1. {"ErrNotSent", "ErrH3EgressDenied"} \subseteq Sentinels
            BY DEF Sentinels
        <3>2. CASE e = Join(SentinelError("ErrNotSent"), SentinelError("ErrH3EgressDenied"))
            BY <3>1, <3>2, SentinelErrorIs, JoinIs DEF Join
        <3> QED
            BY <3>1, <3>2, SentinelErrorIs, OtherErrorIs
    <2>3. TransportError(e, hasId) \in Errors /\ TransportError(e, hasId).code \notin RefusalCodes
        BY <2>2, TransportErrorIs DEF OutcomeInv, NoCode, RefusalCodes
    <2> QED
        BY <1>4, <2>1, <2>3, FailureIsTruthful DEF DialFails, OutcomeInv
<1>5. ASSUME NEW e \in {OtherError, SentinelError("ErrResponseTooLarge")},
             AttemptFails(TransportError(e, hasId)), pc = "do", resp' = NoAnswer,
             UNCHANGED <<net, irisVars>>
      PROVE  OutcomeInv'
    <2>1. e \in Errors /\ e.code = NoCode /\ ~Is(e, "ErrNotSent")
        BY SentinelErrorIs, OtherErrorIs DEF Sentinels, Is
    <2>2. /\ TransportError(e, hasId) \in Errors
          /\ TransportError(e, hasId).code \notin RefusalCodes
          /\ Is(TransportError(e, hasId), "ErrTransport")
        BY <2>1, TransportErrorIs DEF OutcomeInv, NoCode, RefusalCodes
    <2> QED
        BY <1>5, <2>2, FailureIsTruthful
<1>6. CASE DoFails
    BY <1>5, <1>6 DEF DoFails
<1>7. CASE ReceiveAccepted
    <2>1. CASE Return(Nil) /\ UNCHANGED <<callVars, waitVars, unknownErr, ctxDone>>
        BY <1>7, <2>1 DEF ReceiveAccepted, OutcomeInv, NeverApplied, Recording, Failed, NoAnswer,
                          Answers, Codes, NoCode, RefusalCodes
    <2> QED
        BY <1>5, <1>7, <2>1 DEF ReceiveAccepted
<1>8. CASE ReceiveError
    <2>1. PICK e \in ResponseErrors : AttemptFails(e) \/ AttemptFails(StopReplyRetry(e))
        BY <1>8 DEF ReceiveError
    <2>2. PICK f \in {e, StopReplyRetry(e)} : AttemptFails(f)
        BY <2>1
    <2>3. resp \notin {NoAnswer, Accepted} /\ resp.status \in Nat /\ resp.code \in Codes
        BY DEF ResponseErrors, OutcomeInv, Answers
    <2>4. PICK c \in {resp.code, NoCode} : e = HTTPError(resp.status, c)
        BY DEF ResponseErrors
    <2>5. /\ e \in Errors
          /\ e.status = resp.status /\ e.code = c /\ e.is = HTTPErrorIs(resp.status, c)
        <3>1. c \in Codes
            BY <2>3, <2>4 DEF Codes
        <3> QED
            BY <2>3, <2>4, <3>1, HTTPErrorType, Zenon
    <2>6. /\ f \in Errors
          /\ f.status = resp.status /\ f.code = c /\ f.is = HTTPErrorIs(resp.status, c)
        BY <2>2, <2>5, StopReplyRetryIs
    <2>7. f.code \in RefusalCodes => NeverApplied
        BY <2>6 DEF OutcomeInv, NoCode, RefusalCodes
    <2>8. CASE resp.status < 500
        <3>1. unknownErr = Nil => Silent
            BY <1>8, <2>3, <2>8 DEF ReceiveError, OutcomeInv, Silent
        <3> QED
            BY <1>8, <2>2, <2>6, <2>7, <3>1, FailureIsTruthful DEF ReceiveError
    <2>9. CASE ~(resp.status < 500)
        <3>1. c \in Codes /\ resp.status >= 500
            BY <2>3, <2>4, <2>9, BelowOrAtLeast DEF Codes
        <3>2. resp.status \in Nat /\ hasId \in BOOLEAN
            BY <2>3 DEF OutcomeInv
        <3>3. ~isRetryableReplyError(f, hasId) /\ ~Definite(f)
            BY <2>6, <3>1, <3>2, ServerErrorIs, ServerErrorIsFinal
        <3> QED
            BY <1>8, <2>2, <2>6, <2>7, <3>3, FailureIsTruthful DEF ReceiveError
    <2> QED
        BY <2>8, <2>9
<1>9. CASE ReceiveMismatch
    <2>1. resp \notin {NoAnswer, Accepted} /\ resp.status = 401
        <3>1. PICK e \in ResponseErrors : e.status = 401
            BY <1>9 DEF ReceiveMismatch, IsEpochMismatch
        <3>2. resp \notin {NoAnswer, Accepted} /\ resp.status \in Nat /\ resp.code \in Codes
            BY <3>1 DEF ResponseErrors, OutcomeInv, Answers
        <3>3. e.status = resp.status
            BY <3>2, HTTPErrorType DEF ResponseErrors, Codes
        <3> QED
            BY <3>1, <3>2, <3>3
    <2>2. unknownErr = Nil => Silent
        <3>1. resp.status < 500 /\ pc = "do"
            BY <1>9, <2>1 DEF ReceiveMismatch
        <3> QED
            BY <2>1, <3>1 DEF OutcomeInv, Silent
    <2>3. NoAnswer \in Answers /\ NoAnswer.code \notin RefusalCodes
        BY DEF NoAnswer, Answers, Codes, NoCode, RefusalCodes
    <2>4. (NeverApplied' <=> NeverApplied) /\ (Recording' <=> Recording)
        BY <1>9 DEF ReceiveMismatch, NeverApplied, Recording
    <2> QED
        BY <1>9, <2>2, <2>3, <2>4 DEF ReceiveMismatch, OutcomeInv, Silent, Failed
<1>10. CASE ResignFails
    <2>1. PICK e \in signRequestErrors : AttemptFails(StopReplyRetry(e))
        BY <1>10 DEF ResignFails
    <2>2. StopReplyRetry(e) \in Errors /\ StopReplyRetry(e).code \notin RefusalCodes
        BY SignErrorTypes, StopReplyRetryIs DEF NoCode, RefusalCodes
    <2> QED
        BY <1>10, <2>1, <2>2, FailureIsTruthful DEF ResignFails, OutcomeInv
<1> QED
    BY <1>1, <1>2, <1>3, <1>4, <1>6, <1>7, <1>8, <1>9, <1>10 DEF Step

\* The answers, by their status and code.
LEMMA AnswerIs ==
    ASSUME NEW t \in Nat, NEW c \in Codes, NEW a, a = [status |-> t, code |-> c]
    PROVE  a \in Answers /\ a.status = t /\ a.code = c
    BY DEF Answers

\* No answer yet, and 202.
LEMMA NamedAnswers ==
    /\ NoAnswer \in Answers /\ NoAnswer.status = 0 /\ NoAnswer.code = NoCode
    /\ Accepted \in Answers /\ Accepted.status = 202 /\ Accepted.code = NoCode
    BY DEF NoAnswer, Accepted, Answers, Codes

\* A conflict is an answer, and not a success.
LEMMA ConflictAnswers == ASSUME NEW a, a.status = 409 PROVE a # Accepted /\ a.status # 0
BY NamedAnswers

\* What Iris answers without looking at the record.
LEMMA RefuseAnswers ==
    ASSUME NEW n, Refuse(n)
    PROVE  /\ UNCHANGED <<ledger, applied>>
           /\ \E a \in Answers : /\ Answer(n, a) /\ a.status \notin {0, 202}
                                /\ a.code \in {NoCode, EpochMismatch}
<1>1. PICK b : /\ Answer(n, b)
               /\ \/ b = [status |-> 401, code |-> EpochMismatch]
                  \/ \E s \in {302, 400, 403, 409, 429, 500} : b = [status |-> s, code |-> NoCode]
    BY DEF Refuse
<1>2. PICK t \in Nat, c \in {NoCode, EpochMismatch} :
         t \notin {0, 202} /\ b = [status |-> t, code |-> c]
    BY <1>1
<1>3. c \in Codes
    BY DEF Codes
<1> DEFINE a == [status |-> t, code |-> c]
<1>4. a \in Answers /\ a.status = t /\ a.code = c
    BY <1>3, AnswerIs
<1>5. Answer(n, a)
    BY <1>1, <1>2
<1>6. UNCHANGED <<ledger, applied>>
    BY DEF Refuse, irisVars
<1> HIDE DEF a
<1> QED
    BY <1>2, <1>4, <1>5, <1>6

\* What the record of an id answers, by its code.
LEMMA RecordedAnswers ==
    ASSUME NEW r \in {"accepted", "failed", "unknown", "foreign"}, NEW a \in Recorded[r]
    PROVE  \/ a = Accepted /\ r = "accepted"
           \/ \E c \in ConflictCodes :
                 /\ a = [status |-> 409, code |-> c]
                 /\ c \in RefusalCodes => r \in {"failed", "foreign"}
<1> USE DEF Recorded, ConflictCodes, RefusalCodes
<1>1. CASE r = "accepted"
    BY <1>1
<1>2. CASE r = "failed"
    BY <1>2
<1>3. CASE r = "unknown"
    BY <1>3
<1>4. CASE r = "foreign"
    BY <1>4
<1> QED
    BY <1>1, <1>2, <1>3, <1>4

(***************************************************************************)
(* Iris, serving the present request or one that the call has given up.    *)
(***************************************************************************)
LEMMA IrisStep == ASSUME OutcomeInv, NEW n \in net, Serve(n) PROVE OutcomeInv'
<1>1. UNCHANGED <<path, hasId, unknownErr, pc, err, sent>> /\ (Recording' <=> Recording)
    BY IrisLeavesTheCall DEF clientVars, callVars, Recording
<1>2. pc # "prepare"
    BY DEF OutcomeInv, Silent
<1>3. ASSUME NEW a \in Answers, Answer(n, a), a # NoAnswer,
             ledger' \in Records,
             a.code \in RefusalCodes => NeverApplied',
             a # Accepted /\ a.status < 500 => applied' = applied,
             NeverApplied => NeverApplied',
             (NeverApplied => applied = 0)',
             (Recording /\ ledger = "absent" => applied = 0)'
      PROVE  OutcomeInv'
    <2>1. net' = net \ {n} /\ resp' = IF pc = "do" /\ n = sent THEN a ELSE resp
        BY <1>3 DEF Answer
    <2>2. resp' \in Answers /\ (resp.code \in RefusalCodes => NeverApplied)'
        BY <1>3, <2>1 DEF OutcomeInv
    <2>3. ASSUME unknownErr = Nil PROVE pc \notin {"prepare", "build", "resign", "wait"}
        BY <2>3 DEF OutcomeInv, Silent
    <2>4. ASSUME unknownErr = Nil, pc = "do"
          PROVE  resp' = a /\ net' = {} /\ applied = 0
        <3>1. n = sent /\ net = {n} /\ resp = NoAnswer
            BY <2>4 DEF OutcomeInv
        <3>2. resp # Accepted /\ resp.status < 500
            BY <3>1, NamedAnswers
        <3> QED
            BY <2>1, <2>4, <3>1, <3>2 DEF OutcomeInv
    <2>5. Failed /\ Definite(err) => NeverApplied'
        BY <1>3 DEF OutcomeInv, Silent
    <2>6. (Failed /\ Definite(err))' => NeverApplied'
        BY <1>1, <2>5 DEF Failed, Definite, Is
    <2> QED
        BY <1>1, <1>2, <1>3, <2>2, <2>3, <2>4, <2>6 DEF OutcomeInv
<1>4. CASE Refuse(n)
    <2>1. PICK a \in Answers : /\ Answer(n, a) /\ a.status \notin {0, 202}
                               /\ a.code \in {NoCode, EpochMismatch}
        BY <1>4, RefuseAnswers
    <2>2. a # NoAnswer /\ a.code \notin RefusalCodes
        <3>1. NoCode \notin RefusalCodes /\ EpochMismatch \notin RefusalCodes
            BY DEF NoCode, EpochMismatch, RefusalCodes
        <3> QED
            BY <2>1, <3>1, NamedAnswers
    <2>3. UNCHANGED <<ledger, applied>> /\ (NeverApplied' <=> NeverApplied)
        BY <1>1, <1>4, RefuseAnswers DEF NeverApplied
    <2>4. ledger' \in Records /\ (NeverApplied => applied = 0)'
        BY <2>3 DEF OutcomeInv
    <2>5. (Recording /\ ledger = "absent" => applied = 0)'
        BY <1>1, <2>3 DEF OutcomeInv
    <2> QED
        BY <1>3, <2>1, <2>2, <2>3, <2>4, <2>5
<1>5. CASE Admit(n)
    <2>1. PICK a \in {Accepted, [status |-> 500, code |-> NoCode]} : Answer(n, a)
        BY <1>5 DEF Admit
    <2>2. /\ a \in Answers /\ a # NoAnswer /\ a.code \notin RefusalCodes
          /\ a = Accepted \/ ~(a.status < 500)
        <3>1. NoCode \in Codes \ RefusalCodes
            BY DEF Codes, NoCode, RefusalCodes
        <3>2. CASE a = [status |-> 500, code |-> NoCode]
            BY <3>1, <3>2, AnswerIs, NamedAnswers
        <3> QED
            BY <3>1, <3>2, NamedAnswers
    <2>3. /\ ~NeverApplied /\ ~NeverApplied' /\ ~(Recording /\ ledger = "absent")'
          /\ ledger' \in Records
        BY <1>1, <1>5 DEF Admit, NeverApplied, Records, OutcomeInv
    <2> QED
        BY <1>3, <2>1, <2>2, <2>3
<1>6. CASE AdmitFails(n)
    <2> DEFINE a == [status |-> 500, code |-> NoCode]
    <2>1. Answer(n, a) /\ a \in Answers /\ a # NoAnswer /\ a.code \notin RefusalCodes
        <3>1. NoCode \in Codes \ RefusalCodes
            BY DEF Codes, NoCode, RefusalCodes
        <3>2. a \in Answers /\ a.status = 500 /\ a.code = NoCode
            BY <3>1, AnswerIs
        <3> QED
            BY <1>6, <3>1, <3>2, NamedAnswers DEF AdmitFails
    <2>2. applied' = applied /\ applied = 0 /\ ~NeverApplied /\ ledger' \in Records
        BY <1>6 DEF AdmitFails, NeverApplied, OutcomeInv, Records
    <2> HIDE DEF a
    <2> QED
        BY <1>3, <2>1, <2>2
<1>7. CASE Conflict(n)
    <2>1. PICK a \in Recorded[ledger] : Answer(n, a)
        BY <1>7 DEF Conflict
    <2>2. UNCHANGED <<ledger, applied>> /\ Recording /\ (NeverApplied' <=> NeverApplied)
        BY <1>1, <1>7 DEF Conflict, irisVars, NeverApplied
    <2>3. /\ a \in Answers /\ a # NoAnswer
          /\ a.code \in RefusalCodes => ledger \in {"failed", "foreign"}
        <3>1. ledger \in {"accepted", "failed", "unknown", "foreign"}
            BY <1>7 DEF Conflict, OutcomeInv, Records
        <3>2. \/ a = Accepted
              \/ \E c \in ConflictCodes :
                    /\ a = [status |-> 409, code |-> c]
                    /\ c \in RefusalCodes => ledger \in {"failed", "foreign"}
            BY <3>1, RecordedAnswers
        <3>3. ConflictCodes \subseteq Codes /\ NoCode \notin RefusalCodes
            BY DEF Codes, NoCode, RefusalCodes
        <3>4. CASE a = Accepted
            BY <3>3, <3>4, NamedAnswers
        <3>5. ASSUME NEW c \in ConflictCodes, a = [status |-> 409, code |-> c]
              PROVE  a \in Answers /\ a # NoAnswer /\ a.code = c
            <4>1. 409 \in Nat /\ c \in Codes
                BY <3>3, <3>5
            <4>2. a \in Answers /\ a.status = 409 /\ a.code = c
                BY <3>5, <4>1, AnswerIs
            <4> QED
                BY <4>2, NamedAnswers
        <3> QED
            BY <3>2, <3>4, <3>5
    <2>4. ledger' \in Records /\ (NeverApplied => applied = 0)'
        BY <2>2 DEF OutcomeInv
    <2>5. (Recording /\ ledger = "absent" => applied = 0)'
        BY <1>1, <2>2 DEF OutcomeInv
    <2>6. a.code \in RefusalCodes => NeverApplied'
        BY <2>2, <2>3 DEF NeverApplied
    <2> QED
        BY <1>3, <2>1, <2>2, <2>3, <2>4, <2>5, <2>6
<1> QED
    BY <1>4, <1>5, <1>6, <1>7 DEF Serve

\* Every step keeps the outcome: those of the call and of Iris, and the end of the context.
LEMMA OutcomeStep == OutcomeInv /\ [Next]_vars => OutcomeInv'
<1> SUFFICES ASSUME OutcomeInv, [Next]_vars PROVE OutcomeInv'
    OBVIOUS
<1>1. ASSUME UNCHANGED <<path, hasId, unknownErr, pc, err, sent, net, resp, ledger, applied>>
      PROVE  OutcomeInv'
    <2>1. /\ Recording' <=> Recording
          /\ Silent' <=> Silent
          /\ (Failed /\ Definite(err))' <=> Failed /\ Definite(err)
        BY <1>1 DEF Recording, Silent, Failed, Definite, Is
    <2>2. NeverApplied' <=> NeverApplied
        BY <1>1, <2>1 DEF NeverApplied
    <2> QED
        BY <1>1, <2>1, <2>2 DEF OutcomeInv
<1>2. CASE Expire \/ Returned \/ UNCHANGED vars
    BY <1>1, <1>2 DEF Expire, Returned, vars, clientVars, callVars, irisVars
<1> QED
    BY <1>2, CallStep, IrisStep DEF Next

-----------------------------------------------------------------------------
\* The theorems.

\* The invariants together.
IInv == CountInv /\ WaitInv /\ OutcomeInv

\* They hold at first, and every step of the call and of Iris keeps them.
LEMMA Invariance == Spec => []IInv
<1>1. Init => IInv
    <2> SUFFICES ASSUME Init PROVE IInv
        OBVIOUS
    <2>1. CountInv
        <3>1. Resigned = 0 /\ epochRefreshed \in BOOLEAN
            BY DEF Init, Resigned
        <3> QED
            BY <3>1, ReplyRetryMaxAssumption DEF Init, CountInv, maxAttempts
    <2>2. WaitInv
        BY DurationsAssumption DEF Init, WaitInv, WaitIsInBounds
    <2>3. OutcomeInv
        BY NamedAnswers DEF Init, OutcomeInv, Silent, Records, Failed, NoCode, RefusalCodes
    <2> QED
        BY <2>1, <2>2, <2>3 DEF IInv
<1>2. IInv /\ [Next]_vars => IInv'
    BY CountStep, WaitStep, OutcomeStep DEF IInv
<1> QED
    BY <1>1, <1>2, PTL DEF Spec

(***************************************************************************)
(* WithReplyRetry(n) bounds the requests of a call by n + 1, for every n.  *)
(***************************************************************************)
THEOREM RequestsBoundedHolds == Spec => []RequestsBounded
<1>1. IInv => RequestsBounded
    BY ReplyRetryMaxAssumption DEF IInv, CountInv, Resigned, RequestsBounded, maxAttempts
<1> QED
    BY <1>1, Invariance, PTL

(***************************************************************************)
(* The wait before an attempt is in its bounds in the arithmetic of        *)
(* time.Duration, whatever its width, for the headers on both sides of     *)
(* every limit of parseRetryAfterHeader.                                   *)
(***************************************************************************)
THEOREM WaitIsInBoundsHolds == Spec => []WaitIsInBounds
<1>1. IInv => WaitIsInBounds
    BY DEF IInv, WaitInv
<1> QED
    BY <1>1, Invariance, PTL

(***************************************************************************)
(* A call that fails with a definite error was not and will not be handed  *)
(* over, for every number of attempts: keepUnknownOutcome and              *)
(* retryWaitError lose no unknown outcome.                                 *)
(***************************************************************************)
THEOREM DefiniteErrorMeansUndeliveredHolds == Spec => []DefiniteErrorMeansUndelivered
<1>1. IInv => DefiniteErrorMeansUndelivered
    BY DEF IInv, OutcomeInv, Silent, DefiniteErrorMeansUndelivered
<1> QED
    BY <1>1, Invariance, PTL

-----------------------------------------------------------------------------
\* What the result of a call promises its caller: the invariants above, with
\* what Iris has a record of and what each class of error means.

(***************************************************************************)
(* Iris hands the reply over once at most: with a record because of it,    *)
(* and without one because the call does not try again after an outcome    *)
(* that is unknown.                                                        *)
(***************************************************************************)
RecordInv ==
    /\ pc \in {"prepare", "build", "resign", "do", "wait", "done"}
    /\ path \in {"reply", "query"}
    /\ applied \in {0, 1}
    /\ pc = "prepare" => ledger # "accepted"
    /\ resp.status = 0 => resp = NoAnswer
    /\ resp = Accepted => applied = 1
    /\ resp.code \in ConflictCodes => Recording /\ ledger # "absent"
    /\ Recording /\ ledger = "accepted" => applied = 1
    /\ ~Recording /\ pc # "done" => unknownErr = Nil
    /\ ~Recording /\ pc = "done" => net \subseteq {sent} /\ (net # {} => applied = 0)

\* No request under way can be handed over.
Settled == net = {} \/ (Recording /\ ledger # "absent")

\* What each class of result says, of the past and of what is still to come.
ReturnInv ==
    /\ pc = "done" /\ err = Nil => applied = 1
    /\ Failed /\ ~Is(err, "ErrTransport") =>
          /\ Settled
          /\ Is(err, "ErrNotSent") \/ err.status = 0 => applied = 0
    /\ Failed /\ Is(err, "ErrTransport") /\ Is(err, "ErrRetryable") => hasId

\* An id that was given is the id of the call before anything is sent.
IdInv ==
    /\ pc = "prepare" => sent = 0
    /\ (idGiven => hasId) \/ (pc \in {"prepare", "done"} /\ sent = 0)

-----------------------------------------------------------------------------
\* What the result of a call promises.

\* A caller's id survives normalizeClientRequestID, because it was validated.
LEMMA IdStep == IdInv /\ [Next]_vars => IdInv'
<1> SUFFICES ASSUME IdInv, [Next]_vars PROVE IdInv'
    OBVIOUS
<1> USE DEF callVars, waitVars, clientVars, Return
<1>1. ASSUME UNCHANGED <<idGiven, hasId, sent>>, pc # "prepare", pc' # "prepare",
             pc = "done" => pc' = "done"
      PROVE  IdInv'
    BY <1>1 DEF IdInv
<1>2. ASSUME NEW e, AttemptFails(e), pc \notin {"prepare", "done"}, UNCHANGED sent
      PROVE  IdInv'
    BY <1>1, <1>2 DEF AttemptFails
<1>3. CASE PrepareReply
    <2>1. PICK o \in SendOptions :
             /\ idGiven' = (o.ClientRequestID # NoId)
             /\ \/ /\ validateSendOptions(o)
                   /\ hasId' = (normalizeClientRequestID(o.ClientRequestID) # NoId)
                   /\ pc' = "build"
                \/ pc' = "done"
        BY <1>3 DEF PrepareReply
    <2>2. validateSendOptions(o) /\ o.ClientRequestID # NoId =>
             normalizeClientRequestID(o.ClientRequestID) # NoId
        BY DEF validateSendOptions, validateClientRequestID, normalizeClientRequestID
    <2> QED
        BY <1>3, <2>1, <2>2 DEF IdInv, PrepareReply
<1>4. CASE PrepareQuery
    BY <1>4 DEF PrepareQuery, IdInv
<1>5. CASE Transmit
    BY <1>5 DEF Transmit, IdInv
<1>6. CASE BuildFails \/ WaitEnds \/ ReceiveMismatch
    BY <1>1, <1>6 DEF BuildFails, WaitEnds, ReceiveMismatch
<1>7. CASE DialFails \/ DoFails \/ ReceiveError \/ ResignFails
    BY <1>2, <1>7 DEF DialFails, DoFails, ReceiveError, ResignFails
<1>8. CASE ReceiveAccepted
    BY <1>1, <1>2, <1>8 DEF ReceiveAccepted
<1>9. ASSUME UNCHANGED <<idGiven, hasId, sent, pc>> PROVE IdInv'
    BY <1>9 DEF IdInv
<1>10. CASE Expire \/ Returned \/ UNCHANGED vars
    BY <1>9, <1>10 DEF Expire, Returned, vars
<1>11. ASSUME NEW n \in net, Serve(n) PROVE IdInv'
    BY <1>9, <1>11, IrisLeavesTheCall
<1> QED
    BY <1>3, <1>4, <1>5, <1>6, <1>7, <1>8, <1>10, <1>11 DEF Next, Step

(***************************************************************************)
(* An error of an attempt is right about what it may be used for: an       *)
(* outcome-unknown one is retryable only with an id and is no rate limit,  *)
(* any other one settles the present request, and a conflict code is the   *)
(* word of the record.                                                     *)
(***************************************************************************)
Right(e) ==
    /\ Is(e, "ErrTransport") =>
          ~Is(e, "ErrRateLimited") /\ (Is(e, "ErrRetryable") => hasId)
    /\ ~Is(e, "ErrTransport") /\ unknownErr = Nil =>
          /\ net = {}
          /\ Is(e, "ErrNotSent") \/ e.status = 0 => applied = 0
    /\ ClientRequestIDConflictCode(e) # NoCode =>
          Recording /\ ledger # "absent" /\ ~Is(e, "ErrNotSent")

\* An error that is kept as it is, or replaced by the unknown outcome before it.
LEMMA ReturnIsRight ==
    ASSUME OutcomeInv, RecordInv, pc # "done", NEW e \in Errors, Right(e), NEW u,
           u = unknownErr \/ (u = e /\ Is(e, "ErrTransport")),
           Return(keepUnknownOutcome(e, u)),
           UNCHANGED <<path, hasId, net, ledger, applied>>
    PROVE  ReturnInv'
<1>1. /\ UNCHANGED <<hasId, applied>> /\ (Settled' <=> Settled)
      /\ pc' = "done" /\ err' = keepUnknownOutcome(e, u)
    BY DEF Settled, Recording, Return
<1>2. hasId \in BOOLEAN /\ (unknownErr # Nil => hasId)
    BY DEF OutcomeInv, RecordInv, Recording
<1>3. CASE keepUnknownOutcome(e, u) = e
    <2>1. err' = e /\ e # Nil
        BY <1>1, <1>3, NilAssumption
    <2>2. CASE Is(e, "ErrTransport")
        BY <1>1, <2>1, <2>2 DEF ReturnInv, Right, Failed
    <2>3. CASE ~Is(e, "ErrTransport") /\ unknownErr = Nil
        BY <1>1, <2>1, <2>3 DEF ReturnInv, Right, Failed, Settled
    <2>4. CASE ~Is(e, "ErrTransport") /\ unknownErr # Nil
        <3>1. ClientRequestIDConflictCode(e) # NoCode
            <4> SUFFICES ASSUME ClientRequestIDConflictCode(e) = NoCode PROVE FALSE
                OBVIOUS
            <4>1. e = TransportError(unknownErr, hasId)
                BY <1>3, <2>4 DEF keepUnknownOutcome
            <4> QED
                BY <1>2, <2>4, <4>1, TransportErrorIs DEF OutcomeInv
        <3>2. Settled /\ ~Is(e, "ErrNotSent")
            BY <3>1 DEF Right, Settled
        <3>3. e.status # 0
            BY <3>1 DEF ClientRequestIDConflictCode
        <3> QED
            BY <1>1, <2>1, <2>4, <3>2, <3>3 DEF ReturnInv, Failed
    <2> QED
        BY <2>2, <2>3, <2>4
<1>4. CASE keepUnknownOutcome(e, u) # e
    <2>1. u = unknownErr /\ unknownErr # Nil /\ err' = TransportError(unknownErr, hasId)
        BY <1>1, <1>4 DEF keepUnknownOutcome
    <2>2. Is(err', "ErrTransport") /\ err' \in Errors
        BY <1>2, <2>1, TransportErrorIs DEF OutcomeInv
    <2>3. err' # Nil
        BY <2>2, NilAssumption
    <2>4. hasId'
        <3>1. hasId' = hasId
            BY <1>1
        <3>2. hasId
            BY <1>2, <2>1
        <3> QED
            BY <3>1, <3>2, Zenon
    <2> QED
        BY <2>2, <2>3, <2>4 DEF ReturnInv, Failed
<1> QED
    BY <1>3, <1>4

\* Before the call returns, a request without a record is the present one.
LEMMA Unrecorded ==
    ASSUME OutcomeInv, RecordInv, pc # "done", ~Recording
    PROVE  unknownErr = Nil /\ net \subseteq {sent} /\ (net # {} => applied = 0)
<1>1. unknownErr = Nil
    BY DEF RecordInv
<1>2. CASE pc = "do"
    <2>1. net # {} => resp = NoAnswer
        BY <1>1, <1>2 DEF OutcomeInv
    <2>2. NoAnswer # Accepted /\ NoAnswer.status < 500
        BY NamedAnswers
    <2> QED
        BY <1>1, <1>2, <2>1, <2>2 DEF OutcomeInv
<1>3. CASE pc # "do"
    BY <1>1, <1>3 DEF OutcomeInv, RecordInv, Silent
<1> QED
    BY <1>1, <1>2, <1>3

\* A failed attempt, as in FailureIsTruthful.
LEMMA FailureIsRight ==
    ASSUME CountInv, OutcomeInv, RecordInv, pc \in {"build", "resign", "do"},
           NEW e \in Errors, Right(e), AttemptFails(e),
           UNCHANGED <<sent, net, irisVars>>, resp' \in {NoAnswer, resp}
    PROVE  RecordInv' /\ ReturnInv'
<1>1. /\ UNCHANGED <<path, hasId, net, sent, ledger, applied>>
      /\ Recording' <=> Recording
    BY DEF AttemptFails, callVars, irisVars, Recording
<1>2. /\ path' \in {"reply", "query"} /\ applied' \in {0, 1}
      /\ (resp.status = 0 => resp = NoAnswer)' /\ (resp = Accepted => applied = 1)'
      /\ (resp.code \in ConflictCodes => Recording /\ ledger # "absent")'
      /\ (Recording /\ ledger = "accepted" => applied = 1)'
    <2>1. NoAnswer # Accepted /\ NoAnswer.code \notin ConflictCodes
        <3>1. NoCode \notin ConflictCodes
            BY DEF NoCode, ConflictCodes
        <3> QED
            BY <3>1, NamedAnswers
    <2> QED
        BY <1>1, <2>1 DEF RecordInv
<1>3. ~Recording => unknownErr = Nil /\ net \subseteq {sent} /\ (net # {} => applied = 0)
    BY Unrecorded
<1>4. CASE Return(keepUnknownOutcome(e, unknownErr'))
    <2>1. unknownErr' = unknownErr \/ (unknownErr' = e /\ Is(e, "ErrTransport"))
        BY DEF AttemptFails
    <2>2. ReturnInv'
        BY <1>1, <1>4, <2>1, ReturnIsRight
    <2> QED
        BY <1>1, <1>2, <1>3, <1>4, <2>2 DEF RecordInv, Return
<1>5. CASE isRetryableReplyError(e, hasId) /\ attempt # maxAttempts /\ pc' = "wait"
    <2>1. ASSUME ~Recording PROVE unknownErr' = Nil
        <3>1. attempt \in 1..maxAttempts
            BY DEF CountInv
        <3>2. path = "reply"
            BY <1>5, <3>1 DEF maxAttempts
        <3>3. ~hasId
            BY <2>1, <3>2 DEF Recording
        <3>4. ~Is(e, "ErrTransport")
            BY <1>5, <3>3 DEF isRetryableReplyError, Right
        <3> QED
            BY <1>3, <2>1, <3>4 DEF AttemptFails
    <2> QED
        BY <1>1, <1>2, <1>5, <2>1 DEF RecordInv, ReturnInv, Failed
<1> QED
    BY <1>4, <1>5 DEF AttemptFails

\* TransportError adds no rate limit, and ErrRetryable only with an id or ErrNotSent.
LEMMA TransportErrorIsRight ==
    ASSUME NEW e \in Errors, hasId \in BOOLEAN, e.code = NoCode,
           e.is \subseteq {"ErrNotSent", "ErrH3EgressDenied", "ErrResponseTooLarge"},
           Is(e, "ErrNotSent") /\ unknownErr = Nil => Silent
    PROVE  Right(TransportError(e, hasId))
<1> DEFINE f == TransportError(e, hasId)
<1>1. /\ ~Is(f, "ErrRateLimited")
      /\ Is(f, "ErrTransport") <=> ~Is(e, "ErrNotSent")
      /\ Is(f, "ErrTransport") /\ Is(f, "ErrRetryable") => hasId
    BY DEF TransportError, Errors, Is
<1>2. f.code = NoCode
    BY TransportErrorIs
<1> HIDE DEF f
<1>3. ~Is(f, "ErrTransport") /\ unknownErr = Nil => net = {} /\ applied = 0
    BY <1>1 DEF Silent
<1>4. ClientRequestIDConflictCode(f) = NoCode
    BY <1>2 DEF ClientRequestIDConflictCode
<1> QED
    BY <1>1, <1>3, <1>4 DEF Right, f

\* signRequest fails before the request is sent, and never with ErrTransport.
LEMMA SignErrorIsRight ==
    ASSUME NEW e \in Errors, e.code = NoCode, ~Is(e, "ErrTransport"), unknownErr = Nil => Silent
    PROVE  Right(e)
<1>1. ClientRequestIDConflictCode(e) = NoCode
    BY DEF ClientRequestIDConflictCode
<1> QED
    BY <1>1 DEF Right, Silent

\* HTTPError.Is matches ErrNotSent only for an epoch mismatch, and never ErrTransport.
LEMMA HTTPErrorIsNot ==
    ASSUME NEW s, NEW c
    PROVE  /\ "ErrTransport" \notin HTTPErrorIs(s, c)
           /\ "ErrNotSent" \in HTTPErrorIs(s, c) => s = 401
    BY DEF HTTPErrorIs

\* An HTTP error is right: it answers the present request, if no outcome is unknown.
LEMMA ResponseErrorIsRight ==
    ASSUME OutcomeInv, RecordInv, pc = "do", resp \notin {NoAnswer, Accepted},
           NEW c \in {resp.code, NoCode}, NEW f \in Errors,
           f.status = resp.status, f.code = c, f.is = HTTPErrorIs(resp.status, c)
    PROVE  Right(f)
<1>1. resp.status # 0
    BY DEF RecordInv
<1>2. ~Is(f, "ErrTransport") /\ (Is(f, "ErrNotSent") => f.status = 401)
    BY HTTPErrorIsNot DEF Is
<1>3. ASSUME unknownErr = Nil PROVE net = {} /\ (resp.status < 500 => applied = 0)
    BY <1>3 DEF OutcomeInv
<1>4. ASSUME ClientRequestIDConflictCode(f) # NoCode
      PROVE  Recording /\ ledger # "absent" /\ ~Is(f, "ErrNotSent")
    <2>1. f.status = 409 /\ f.code \in ConflictCodes
        BY <1>4 DEF ClientRequestIDConflictCode
    <2>2. resp.code \in ConflictCodes
        BY <2>1 DEF ConflictCodes, NoCode
    <2>3. Recording /\ ledger # "absent"
        BY <2>2 DEF RecordInv
    <2>4. f.status # 401
        BY ONLY <2>1
    <2> QED
        BY <1>2, <2>3, <2>4
<1>5. ASSUME Is(f, "ErrNotSent") \/ f.status = 0 PROVE resp.status < 500
    <2>1. resp.status = 401
        BY <1>1, <1>2, <1>5
    <2> QED
        BY <2>1
<1> QED
    BY <1>2, <1>3, <1>4, <1>5 DEF Right

\* The call, step by step.
LEMMA PromiseCallStep ==
    ASSUME CountInv, OutcomeInv, RecordInv, Step PROVE RecordInv' /\ ReturnInv'
<1> USE DEF irisVars, callVars, waitVars
<1>0. NoAnswer # Accepted /\ NoAnswer.code \notin ConflictCodes
    <2>1. NoCode \notin ConflictCodes
        BY DEF NoCode, ConflictCodes
    <2> QED
        BY <2>1, NamedAnswers
<1>1. CASE PrepareReply \/ PrepareQuery
    <2>1. /\ UNCHANGED <<unknownErr, net, sent, resp, ledger, applied>> /\ pc = "prepare"
          /\ pc' = "build" \/ (pc' = "done" /\ err' = OtherError)
          /\ path' \in {"reply", "query"}
        BY <1>1 DEF PrepareReply, PrepareQuery, RecordInv, Return
    <2>2. unknownErr' = Nil /\ applied' = 0 /\ net' = {} /\ resp' = NoAnswer /\ ledger' # "accepted"
        BY <2>1 DEF OutcomeInv, RecordInv, Silent
    <2>3. RecordInv'
        BY <1>0, <2>1, <2>2 DEF RecordInv
    <2>4. OtherError # Nil /\ ~Is(OtherError, "ErrTransport") /\ ~Is(OtherError, "ErrRetryable")
        BY OtherErrorIs, NilAssumption DEF Is
    <2>5. ReturnInv'
        BY <2>1, <2>2, <2>4 DEF ReturnInv, Failed, Settled
    <2> QED
        BY <2>3, <2>5
<1>2. ASSUME UNCHANGED <<path, hasId, unknownErr, net, sent, resp, ledger, applied>>,
             pc \in {"build", "wait"}, pc' \in {"build", "done"}
      PROVE  RecordInv'
    <2>1. Recording' <=> Recording
        BY <1>2 DEF Recording
    <2>2. ~Recording => unknownErr = Nil /\ net \subseteq {sent} /\ (net # {} => applied = 0)
        BY <1>2, Unrecorded
    <2> QED
        BY <1>2, <2>1, <2>2 DEF RecordInv
<1>3. CASE BuildFails
    <2>1. PICK e \in signRequestErrors : Return(keepUnknownOutcome(e, unknownErr))
        BY <1>3 DEF BuildFails
    <2>2. UNCHANGED <<path, hasId, unknownErr, net, sent, resp, ledger, applied>> /\ pc = "build"
        BY <1>3 DEF BuildFails
    <2>3. e \in Errors /\ Right(e)
        BY <2>2, SignErrorTypes, SignErrorIsRight DEF OutcomeInv
    <2>4. ReturnInv'
        BY <2>1, <2>2, <2>3, ReturnIsRight
    <2> QED
        BY <1>2, <2>1, <2>2, <2>4 DEF Return
<1>4. CASE WaitEnds
    <2>1. /\ UNCHANGED <<path, hasId, unknownErr, net, sent, resp, ledger, applied>> /\ pc = "wait"
          /\ pc' = "build" \/ (pc' = "done" /\ err' = retryWaitError(OtherError, unknownErr))
        BY <1>4 DEF WaitEnds, Return
    <2>2. RecordInv'
        BY <1>2, <2>1
    <2>3. CASE pc' = "build"
        BY <2>2, <2>3 DEF ReturnInv, Failed
    <2>4. CASE unknownErr = Nil /\ err' = OtherError
        <3>1. net' = {} /\ applied' = 0
            BY <2>1, <2>4 DEF OutcomeInv, Silent
        <3>2. err' # Nil /\ ~Is(err', "ErrTransport")
            BY <2>4, OtherErrorIs, NilAssumption DEF Is
        <3> QED
            BY <2>2, <3>1, <3>2 DEF ReturnInv, Failed, Settled
    <2>5. CASE unknownErr # Nil /\ err' = TransportError(Join(OtherError, unknownErr), hasId)
        <3>1. hasId' = hasId
            BY <2>1
        <3>2. hasId
            BY <2>1, <2>5 DEF RecordInv, Recording
        <3>3. hasId'
            BY <3>1, <3>2, Zenon
        <3>4. /\ Join(OtherError, unknownErr) \in Errors
              /\ Is(Join(OtherError, unknownErr), "ErrTransport")
            BY <2>5, JoinIs, OtherErrorIs DEF OutcomeInv
        <3>5. Is(err', "ErrTransport") /\ err' \in Errors
            BY <2>5, <3>4, TransportErrorIs DEF OutcomeInv
        <3>6. err' # Nil
            BY <3>5, NilAssumption
        <3> QED
            BY <2>2, <3>3, <3>5, <3>6 DEF ReturnInv, Failed
    <2> QED
        BY <2>1, <2>3, <2>4, <2>5 DEF retryWaitError
<1>5. CASE Transmit
    <2>1. /\ UNCHANGED <<path, hasId, unknownErr, ledger, applied>>
          /\ pc \in {"build", "resign"} /\ pc' = "do" /\ resp' = NoAnswer
        BY <1>5 DEF Transmit
    <2>2. Recording' <=> Recording
        BY <2>1 DEF Recording
    <2>3. RecordInv'
        BY <1>0, <2>1, <2>2 DEF RecordInv
    <2> QED
        BY <2>1, <2>3 DEF ReturnInv, Failed
<1>6. CASE DialFails
    <2>1. PICK e \in {OtherError, SentinelError("ErrNotSent"),
                      Join(SentinelError("ErrNotSent"), SentinelError("ErrH3EgressDenied"))} :
             AttemptFails(TransportError(e, hasId))
        BY <1>6 DEF DialFails
    <2>2. /\ e \in Errors /\ e.code = NoCode
          /\ e.is \subseteq {"ErrNotSent", "ErrH3EgressDenied", "ErrResponseTooLarge"}
        <3>1. {"ErrNotSent", "ErrH3EgressDenied"} \subseteq Sentinels
            BY DEF Sentinels
        <3>2. ASSUME NEW d \in {"ErrNotSent", "ErrH3EgressDenied"}
              PROVE  /\ SentinelError(d) \in Errors /\ SentinelError(d).code = NoCode
                     /\ SentinelError(d).is = {d}
            BY <3>1, SentinelErrorIs
        <3>3. CASE e = Join(SentinelError("ErrNotSent"), SentinelError("ErrH3EgressDenied"))
            BY <3>2, <3>3, JoinIs DEF Join
        <3> QED
            BY <3>2, <3>3, OtherErrorIs
    <2>3. (unknownErr = Nil => Silent) /\ hasId \in BOOLEAN
        BY <1>6 DEF DialFails, OutcomeInv
    <2>4. TransportError(e, hasId) \in Errors /\ Right(TransportError(e, hasId))
        BY <2>2, <2>3, TransportErrorIs, TransportErrorIsRight
    <2>5. /\ pc \in {"build", "resign", "do"} /\ UNCHANGED <<sent, net, irisVars>>
          /\ resp' \in {NoAnswer, resp}
        BY <1>6 DEF DialFails
    <2> QED
        BY <2>1, <2>4, <2>5, FailureIsRight
<1>7. ASSUME NEW e \in {OtherError, SentinelError("ErrResponseTooLarge")},
             AttemptFails(TransportError(e, hasId)), pc = "do", resp' = NoAnswer,
             UNCHANGED <<sent, net, irisVars>>
      PROVE  RecordInv' /\ ReturnInv'
    <2>1. /\ e \in Errors /\ e.code = NoCode /\ ~Is(e, "ErrNotSent")
          /\ e.is \subseteq {"ErrNotSent", "ErrH3EgressDenied", "ErrResponseTooLarge"}
        BY SentinelErrorIs, OtherErrorIs DEF Sentinels, Is
    <2>2. hasId \in BOOLEAN
        BY DEF OutcomeInv
    <2>3. TransportError(e, hasId) \in Errors /\ Right(TransportError(e, hasId))
        BY <2>1, <2>2, TransportErrorIs, TransportErrorIsRight
    <2> QED
        BY <1>7, <2>3, FailureIsRight
<1>8. CASE DoFails
    BY <1>7, <1>8 DEF DoFails
<1>9. CASE ReceiveAccepted
    <2>1. CASE Return(Nil) /\ UNCHANGED <<callVars, waitVars, unknownErr, ctxDone>>
        <3>1. /\ UNCHANGED <<path, hasId, unknownErr, sent, net, ledger, applied>>
              /\ pc = "do" /\ resp = Accepted /\ resp' = NoAnswer /\ pc' = "done" /\ err' = Nil
            BY <1>9, <2>1 DEF ReceiveAccepted, Return
        <3>2. Recording' <=> Recording
            BY <3>1 DEF Recording
        <3>3. ~Recording => net \subseteq {sent} /\ (net # {} => applied = 0)
            BY <3>1, Unrecorded
        <3>4. applied = 1
            BY <3>1 DEF RecordInv
        <3>5. RecordInv'
            BY <1>0, <3>1, <3>2, <3>3, <3>4 DEF RecordInv
        <3> QED
            BY <3>1, <3>4, <3>5 DEF ReturnInv, Failed
    <2> QED
        BY <1>7, <1>9, <2>1 DEF ReceiveAccepted
<1>10. CASE ReceiveError
    <2>1. PICK e \in ResponseErrors : AttemptFails(e) \/ AttemptFails(StopReplyRetry(e))
        BY <1>10 DEF ReceiveError
    <2>2. PICK f \in {e, StopReplyRetry(e)} : AttemptFails(f)
        BY <2>1
    <2>3. resp \notin {NoAnswer, Accepted} /\ resp.status \in Nat /\ resp.code \in Codes
        BY DEF ResponseErrors, OutcomeInv, Answers
    <2>4. PICK c \in {resp.code, NoCode} : e = HTTPError(resp.status, c)
        BY DEF ResponseErrors
    <2>5. /\ e \in Errors
          /\ e.status = resp.status /\ e.code = c /\ e.is = HTTPErrorIs(resp.status, c)
        <3>1. c \in Codes
            BY <2>3, <2>4 DEF Codes
        <3> QED
            BY <2>3, <2>4, <3>1, HTTPErrorType, Zenon
    <2>6. /\ f \in Errors
          /\ f.status = resp.status /\ f.code = c /\ f.is = HTTPErrorIs(resp.status, c)
        BY <2>2, <2>5, StopReplyRetryIs
    <2>7. pc = "do" /\ UNCHANGED <<sent, net, irisVars>> /\ resp' \in {NoAnswer, resp}
        BY <1>10 DEF ReceiveError
    <2>8. Right(f)
        BY <2>3, <2>6, <2>7, ResponseErrorIsRight
    <2> QED
        BY <2>2, <2>6, <2>7, <2>8, FailureIsRight
<1>11. CASE ReceiveMismatch
    <2>1. /\ UNCHANGED <<path, hasId, unknownErr, ledger, applied>>
          /\ pc = "do" /\ pc' = "resign" /\ resp' = NoAnswer
        BY <1>11 DEF ReceiveMismatch
    <2>2. Recording' <=> Recording
        BY <2>1 DEF Recording
    <2>3. RecordInv'
        BY <1>0, <2>1, <2>2 DEF RecordInv
    <2> QED
        BY <2>1, <2>3 DEF ReturnInv, Failed
<1>12. CASE ResignFails
    <2>1. PICK e \in signRequestErrors : AttemptFails(StopReplyRetry(e))
        BY <1>12 DEF ResignFails
    <2>2. /\ StopReplyRetry(e) \in Errors /\ StopReplyRetry(e).code = NoCode
          /\ ~Is(StopReplyRetry(e), "ErrTransport")
        BY SignErrorTypes, StopReplyRetryIs DEF Is
    <2>3. /\ pc = "resign" /\ UNCHANGED <<sent, net, irisVars>>
          /\ resp' \in {NoAnswer, resp}
        BY <1>12 DEF ResignFails
    <2>4. Right(StopReplyRetry(e))
        BY <2>2, <2>3, SignErrorIsRight DEF OutcomeInv
    <2> QED
        BY <2>1, <2>2, <2>3, <2>4, FailureIsRight
<1> QED
    BY <1>1, <1>3, <1>4, <1>5, <1>6, <1>8, <1>9, <1>10, <1>11, <1>12 DEF Step

(***************************************************************************)
(* A request that Iris may still hand over is the first to be handed over, *)
(* and its call runs or was told that the outcome is unknown.              *)
(***************************************************************************)
LEMMA AdmitIsFirst ==
    ASSUME CountInv, OutcomeInv, RecordInv, ReturnInv, NEW n \in net, Admit(n)
    PROVE  applied = 0 /\ ~(pc = "done" /\ err = Nil) /\ (Failed => Is(err, "ErrTransport"))
<1>1. applied = 0
    <2>1. CASE Recording
        BY <2>1 DEF Admit, OutcomeInv
    <2>2. CASE ~Recording /\ pc = "done"
        BY <2>2 DEF RecordInv
    <2>3. CASE ~Recording /\ pc # "done"
        BY <2>3, Unrecorded
    <2> QED
        BY <2>1, <2>2, <2>3
<1>2. ~Settled
    BY DEF Admit, Settled
<1> QED
    BY <1>1, <1>2 DEF ReturnInv

\* Iris, serving the present request or one that the call has given up.
LEMMA PromiseIrisStep ==
    ASSUME CountInv, OutcomeInv, RecordInv, ReturnInv, NEW n \in net, Serve(n)
    PROVE  RecordInv' /\ ReturnInv'
<1>1. UNCHANGED <<path, hasId, unknownErr, pc, err, sent>> /\ (Recording' <=> Recording)
    BY IrisLeavesTheCall DEF clientVars, callVars, Recording
<1>2. pc # "prepare"
    BY DEF OutcomeInv, Silent
<1>3. Failed' <=> Failed
    BY <1>1 DEF Failed
<1>4. ASSUME NEW a \in Answers, Answer(n, a), a.status # 0,
             applied' \in {0, 1},
             applied = 1 => applied' = 1,
             a = Accepted => applied' = 1,
             a.code \in ConflictCodes => Recording /\ ledger' # "absent",
             Recording /\ ledger # "absent" => ledger' # "absent",
             (Recording /\ ledger = "accepted" => applied = 1)',
             Settled => applied' = applied
      PROVE  RecordInv' /\ ReturnInv'
    <2>1. net' = net \ {n} /\ resp' = IF pc = "do" /\ n = sent THEN a ELSE resp
        BY <1>4 DEF Answer
    <2>2. /\ (resp.status = 0 => resp = NoAnswer)'
          /\ (resp = Accepted => applied = 1)'
          /\ (resp.code \in ConflictCodes => Recording /\ ledger # "absent")'
        BY <1>1, <1>4, <2>1 DEF RecordInv
    <2>3. ASSUME ~Recording, pc = "done" PROVE net' = {}
        BY <2>1, <2>3 DEF RecordInv
    <2>4. RecordInv'
        BY <1>1, <1>2, <1>4, <2>2, <2>3 DEF RecordInv
    <2>5. Settled => Settled' /\ applied' = applied
        BY <1>1, <1>4, <2>1 DEF Settled
    <2>6. ReturnInv'
        BY <1>1, <1>3, <1>4, <2>5 DEF ReturnInv
    <2> QED
        BY <2>4, <2>6
<1>5. NoCode \in Codes \ ConflictCodes /\ EpochMismatch \in Codes \ ConflictCodes
    BY DEF Codes, NoCode, EpochMismatch, ConflictCodes
<1>6. ASSUME NEW t \in Nat, NEW c \in {NoCode, EpochMismatch}, t \notin {0, 202},
             NEW a, a = [status |-> t, code |-> c]
      PROVE  a \in Answers /\ a.status # 0 /\ a # Accepted /\ a.code \notin ConflictCodes
    <2>1. a \in Answers /\ a.status = t /\ a.code = c
        BY <1>5, <1>6, AnswerIs
    <2> QED
        BY <1>5, <1>6, <2>1, NamedAnswers
<1>7. CASE Refuse(n)
    <2>1. PICK a \in Answers : /\ Answer(n, a) /\ a.status \notin {0, 202}
                               /\ a.code \in {NoCode, EpochMismatch}
        BY <1>7, RefuseAnswers
    <2>3. a # Accepted /\ a.code \notin ConflictCodes
        BY <1>5, <2>1, NamedAnswers
    <2>4. UNCHANGED <<ledger, applied>>
        BY <1>7, RefuseAnswers
    <2>5. applied' \in {0, 1} /\ (Recording /\ ledger = "accepted" => applied = 1)'
        BY <1>1, <2>4 DEF RecordInv
    <2> QED
        BY <1>4, <2>1, <2>3, <2>4, <2>5
<1>8. CASE Admit(n)
    <2>1. PICK a \in {Accepted, [status |-> 500, code |-> NoCode]} : Answer(n, a)
        BY <1>8 DEF Admit
    <2>2. a \in Answers /\ a.status # 0 /\ a.code \notin ConflictCodes
        BY <1>5, <1>6, <2>1, NamedAnswers
    <2>3. applied' = 1 /\ ~Settled
        BY <1>8, AdmitIsFirst DEF Admit, Settled
    <2>4. Recording => ledger = "absent"
        BY <1>8 DEF Admit
    <2> QED
        BY <1>4, <2>1, <2>2, <2>3, <2>4
<1>9. CASE AdmitFails(n)
    <2> DEFINE a == [status |-> 500, code |-> NoCode]
    <2>1. a \in Answers /\ a.status # 0 /\ a # Accepted /\ a.code \notin ConflictCodes
        BY <1>6
    <2>2. Answer(n, a) /\ applied' = applied /\ ledger' \in {"failed", "unknown"}
        BY <1>9 DEF AdmitFails
    <2>3. applied' \in {0, 1}
        BY <2>2 DEF RecordInv
    <2> HIDE DEF a
    <2> QED
        BY <1>4, <2>1, <2>2, <2>3
<1>10. CASE Conflict(n)
    <2>1. PICK a \in Recorded[ledger] : Answer(n, a)
        BY <1>10 DEF Conflict
    <2>2. UNCHANGED <<ledger, applied>> /\ Recording /\ ledger # "absent"
        BY <1>10 DEF Conflict, irisVars
    <2>3. applied' \in {0, 1} /\ (Recording /\ ledger = "accepted" => applied = 1)'
        BY <1>1, <2>2 DEF RecordInv
    <2>4. \/ a = Accepted /\ ledger = "accepted"
          \/ \E c \in ConflictCodes : a = [status |-> 409, code |-> c]
        <3>1. ledger \in {"accepted", "failed", "unknown", "foreign"}
            BY <2>2 DEF OutcomeInv, Records
        <3> QED
            BY <3>1, RecordedAnswers
    <2>5. CASE a = Accepted /\ ledger = "accepted"
        <3>1. a \in Answers /\ a.status # 0 /\ a.code \notin ConflictCodes
            BY <1>5, <2>5, NamedAnswers
        <3>2. applied' = 1
            BY <2>2, <2>5 DEF RecordInv
        <3> QED
            BY <1>4, <2>1, <2>2, <2>3, <3>1, <3>2
    <2>6. CASE \E c \in ConflictCodes : a = [status |-> 409, code |-> c]
        <3>1. PICK c \in ConflictCodes : a = [status |-> 409, code |-> c]
            BY <2>6
        <3>2. 409 \in Nat /\ c \in Codes
            BY DEF Codes
        <3>3. a \in Answers /\ a.status = 409
            BY <3>1, <3>2 DEF Answers
        <3>4. a # Accepted /\ a.status # 0
            BY <3>3, ConflictAnswers
        <3> QED
            BY <1>4, <2>1, <2>2, <2>3, <3>3, <3>4
    <2> QED
        BY <2>4, <2>5, <2>6
<1> QED
    BY <1>7, <1>8, <1>9, <1>10 DEF Serve

\* Every step.
LEMMA PromiseStep ==
    CountInv /\ OutcomeInv /\ RecordInv /\ ReturnInv /\ [Next]_vars => RecordInv' /\ ReturnInv'
<1> SUFFICES ASSUME CountInv, OutcomeInv, RecordInv, ReturnInv, [Next]_vars
             PROVE  RecordInv' /\ ReturnInv'
    OBVIOUS
<1>1. ASSUME UNCHANGED <<path, hasId, unknownErr, pc, err, sent, net, resp, ledger, applied>>
      PROVE  RecordInv' /\ ReturnInv'
    <2>1. (Recording' <=> Recording) /\ (Failed' <=> Failed)
        BY <1>1 DEF Recording, Failed
    <2>2. Settled' <=> Settled
        BY <1>1, <2>1 DEF Settled
    <2>3. RecordInv'
        BY <1>1, <2>1 DEF RecordInv
    <2>4. ReturnInv'
        BY <1>1, <2>1, <2>2 DEF ReturnInv
    <2> QED
        BY <2>3, <2>4
<1>2. CASE Expire \/ Returned \/ UNCHANGED vars
    BY <1>1, <1>2 DEF Expire, Returned, vars, clientVars, callVars, irisVars
<1> QED
    BY <1>2, PromiseCallStep, PromiseIrisStep DEF Next

-----------------------------------------------------------------------------
\* The theorems.

\* All the invariants.
PInv == IInv /\ RecordInv /\ ReturnInv /\ IdInv

\* They hold at first, and every step of the call and of Iris keeps them.
LEMMA PromiseInvariance == Spec => []PInv
<1>1. Init => RecordInv /\ ReturnInv /\ IdInv
    <2> SUFFICES ASSUME Init PROVE RecordInv /\ ReturnInv /\ IdInv
        OBVIOUS
    <2>1. RecordInv
        <3>1. NoCode \notin ConflictCodes
            BY DEF NoCode, ConflictCodes
        <3>2. resp.code \notin ConflictCodes /\ resp # Accepted
            BY <3>1, NamedAnswers DEF Init
        <3> QED
            BY <3>2 DEF Init, RecordInv
    <2>2. ReturnInv /\ IdInv
        BY DEF Init, ReturnInv, IdInv, Failed
    <2> QED
        BY <2>1, <2>2
<1>2. IInv /\ RecordInv /\ ReturnInv /\ IdInv /\ [Next]_vars => RecordInv' /\ ReturnInv' /\ IdInv'
    BY PromiseStep, IdStep DEF IInv
<1>3. IInv /\ RecordInv /\ ReturnInv /\ IdInv <=> PInv
    BY DEF PInv
<1> QED
    BY <1>1, <1>2, <1>3, Invariance, PTL DEF Spec

(***************************************************************************)
(* ErrRetryable on an error that carries no answer of Iris allows the call *)
(* to be made again: it has an id, or was not handed over (TransportError, *)
(* keepUnknownOutcome, retryWaitError).                                    *)
(***************************************************************************)
THEOREM RetryableIsSafeHolds == Spec => []RetryableIsSafe
<1>1. PInv => RetryableIsSafe
    BY DEF PInv, ReturnInv, RetryableIsSafe
<1> QED
    BY <1>1, PromiseInvariance, PTL

(***************************************************************************)
(* Every request of a call whose caller gave an id carries one             *)
(* (validateClientRequestID before normalizeClientRequestID).              *)
(***************************************************************************)
THEOREM IdIsKeptHolds == Spec => []IdIsKept
<1>1. PInv => IdIsKept
    BY DEF PInv, IdInv, IdIsKept
<1> QED
    BY <1>1, PromiseInvariance, PTL

(***************************************************************************)
(* The call with all its attempts implements CallOutcome: at most one      *)
(* handover, none after a definite result, and a result that agrees with   *)
(* it (retryPost, do, TransportError, HTTPError).                          *)
(***************************************************************************)
THEOREM OutcomeHolds == Spec => OutcomeIsTruthful
<1> DEFINE Applied == [c \in {"reply"} |-> applied]
           Result  == [c \in {"reply"} |-> Class]
<1>1. Init => Outcome!OutcomeInit
    BY DEF Init, Outcome!OutcomeInit, Class
<1>2. PInv /\ PInv' /\ [Next]_vars => [Outcome!OutcomeNext]_(Outcome!outcomeVars)
    <2> SUFFICES ASSUME PInv, PInv', [Next]_vars
                 PROVE  Outcome!OutcomeNext \/ UNCHANGED <<Applied, Result>>
        BY DEF Outcome!outcomeVars
    \* The call runs, or returns a result that ReturnInv speaks of.
    <2>1. ASSUME Step PROVE Outcome!OutcomeNext \/ UNCHANGED <<Applied, Result>>
        <3>1. pc # "done" /\ UNCHANGED applied
            BY <2>1 DEF Step, PrepareReply, PrepareQuery, BuildFails, WaitEnds, Transmit, DialFails,
                DoFails, ReceiveAccepted, ReceiveError, ReceiveMismatch, ResignFails, irisVars
        <3>2. Class = "none"
            BY <3>1 DEF Class
        <3>3. CASE pc' # "done"
            <4>1. Class' = "none"
                BY <3>3 DEF Class
            <4> QED
                BY <3>1, <3>2, <4>1
        <3>4. CASE pc' = "done"
            <4>1. Class' \in Outcome!Results
                BY <3>4 DEF Class, Outcome!Results
            <4>2. /\ Class' = "ok" => err' = Nil
                  /\ Class' \in {"notSent", "invalid"} =>
                        /\ Failed' /\ ~Is(err', "ErrTransport")
                        /\ Is(err', "ErrNotSent") \/ err'.status = 0
                BY <3>4 DEF Class, Failed
            <4>3. /\ Class' = "ok" => applied = 1
                  /\ Class' \in {"notSent", "invalid"} => applied = 0
                BY <3>1, <3>4, <4>2 DEF PInv, ReturnInv
            <4>4. Outcome!Report("reply", Class')
                BY <3>1, <3>2, <4>3 DEF Outcome!Report
            <4> QED
                BY <4>1, <4>4 DEF Outcome!OutcomeNext
        <3> QED
            BY <3>3, <3>4
    \* Iris serves a request: only Admit hands the reply over.
    <2>2. ASSUME NEW n \in net, Serve(n)
          PROVE  Outcome!OutcomeNext \/ UNCHANGED <<Applied, Result>>
        <3>1. UNCHANGED <<pc, err>>
            BY <2>2, IrisLeavesTheCall DEF clientVars
        <3>2. Class' = Class
            BY <3>1 DEF Class
        <3>3. CASE Admit(n)
            <4>1. applied = 0 /\ ~(pc = "done" /\ err = Nil) /\ (Failed => Is(err, "ErrTransport"))
                BY <3>3, AdmitIsFirst DEF PInv, IInv
            <4>2. Class \in {"none", "transport"}
                BY <4>1 DEF Class, Failed
            <4>3. applied' = 1
                BY <3>3, <4>1 DEF Admit
            <4>4. Outcome!Apply("reply")
                BY <3>2, <4>1, <4>2, <4>3 DEF Outcome!Apply
            <4> QED
                BY <4>4 DEF Outcome!OutcomeNext
        <3>4. CASE UNCHANGED applied
            BY <3>2, <3>4
        <3>5. CASE Refuse(n)
            BY <3>4, <3>5, RefuseAnswers
        <3>6. CASE AdmitFails(n)
            BY <3>4, <3>6 DEF AdmitFails
        <3>7. CASE Conflict(n)
            BY <3>4, <3>7 DEF Conflict, irisVars
        <3> QED
            BY <2>2, <3>3, <3>5, <3>6, <3>7 DEF Serve
    <2>3. CASE UNCHANGED <<pc, err, applied>>
        <3>1. Class' = Class
            BY <2>3 DEF Class
        <3> QED
            BY <2>3, <3>1
    <2>4. CASE Expire \/ Returned \/ UNCHANGED vars
        BY <2>3, <2>4 DEF Expire, Returned, vars, clientVars, irisVars
    <2> QED
        BY <2>1, <2>2, <2>4 DEF Next
<1> QED
    BY <1>1, <1>2, PromiseInvariance, PTL DEF Spec, OutcomeIsTruthful, Outcome!OutcomeSpec
=============================================================================
