----------------------------- MODULE ReplyRetry ------------------------------
(***************************************************************************)
(* One logical POST of the client, a reply or a query: the check of its    *)
(* options, the attempts of retryPost with their waits, and inside an      *)
(* attempt the send loop of execute.go with its single epoch re-signature. *)
(*                                                                         *)
(* Iris is external. It keeps a record per clientRequestId, answers before *)
(* or after it looks the record up, and may serve a request long after the *)
(* attempt that sent it was given up. The epoch itself is the subject of   *)
(* AuthEpoch: here signing may fail, and Iris may reject any epoch. The    *)
(* decoding of an answer is the subject of ClientExchange.                 *)
(***************************************************************************)
EXTENDS IrisErrors, RetryDelay

CONSTANTS ReplyRetryMax,  \* WithReplyRetry(n)
          Nil             \* the nil error

ASSUME ReplyRetryMaxAssumption == ReplyRetryMax \in Nat
ASSUME NilAssumption == Nil \notin Errors

VARIABLES
    path,           \* PathReply, or the path of a query
    idGiven,        \* the caller passed WithClientRequestID
    hasId,          \* hasIdempotencyKey: a reply with an id, or a query
    attempt,        \* the attempt under way
    backoff,        \* the fallback delay
    header,         \* Retry-After of the failed attempt, while it waits
    delay,          \* what the timer is set to, while it waits
    unknownErr,     \* the last outcome-unknown error, or Nil
    epochRefreshed, \* the re-signature is spent
    ctxDone,        \* the caller's context has ended
    pc,             \* prepare, build, resign, do, wait, done
    sent,           \* requests handed to the network; they are numbered
    net,            \* the ones Iris has not served yet
    resp,           \* the answer to the current request, or NoAnswer
    ledger,         \* Iris: the record of the clientRequestId
    applied,        \* Iris: how often the reply was handed to the queue
    err             \* what the call returned, Nil for success or not yet

callVars   == <<path, idGiven, hasId>>
waitVars   == <<attempt, backoff, header, delay>>
clientVars == <<callVars, waitVars, unknownErr, epochRefreshed, ctxDone, pc, err>>
irisVars   == <<ledger, applied>>
vars       == <<clientVars, sent, net, resp, irisVars>>

maxAttempts == IF ReplyRetryMax > 0 /\ path = "reply" THEN ReplyRetryMax ELSE 1

Answers  == [status : Nat, code : Codes]
NoAnswer == [status |-> 0, code |-> NoCode]
Accepted == [status |-> 202, code |-> NoCode]

Records == {"absent", "accepted", "failed", "unknown", "foreign"}

TypeOK ==
    /\ path \in {"reply", "query"}
    /\ idGiven \in BOOLEAN
    /\ hasId \in BOOLEAN
    /\ attempt \in 1..maxAttempts
    /\ backoff \in FirstBackoff..Second
    /\ header \in Headers
    /\ delay \in 0..MaxReplyRetryAfterDelay
    /\ unknownErr \in Errors \cup {Nil}
    /\ epochRefreshed \in BOOLEAN
    /\ ctxDone \in BOOLEAN
    /\ pc \in {"prepare", "build", "resign", "do", "wait", "done"}
    /\ sent \in Nat
    /\ net \subseteq 1..sent
    /\ resp \in Answers
    /\ ledger \in Records
    /\ applied \in Nat
    /\ err \in Errors \cup {Nil}

\* An id is new to Iris, or was used for another payload, or belongs to a
\* reply that failed before its handoff.
Init ==
    /\ path = "reply"
    /\ idGiven = FALSE
    /\ hasId = FALSE
    /\ attempt = 1
    /\ backoff = FirstBackoff
    /\ header = NoHeader
    /\ delay = 0
    /\ unknownErr = Nil
    /\ epochRefreshed = FALSE
    /\ ctxDone \in BOOLEAN
    /\ pc = "prepare"
    /\ sent = 0
    /\ net = {}
    /\ resp = NoAnswer
    /\ ledger \in {"absent", "foreign", "failed"}
    /\ applied = 0
    /\ err = Nil

-----------------------------------------------------------------------------
\* The call and its options

Return(e) ==
    /\ pc' = "done"
    /\ err' = e

\* A clientRequestId by its length after TrimSpace and its characters.
NoId == [length |-> 0, ascii |-> FALSE]
Ids  == [length : {0, 7, 8, 160, 161}, ascii : {TRUE}] \cup {[length |-> 8, ascii |-> FALSE]}

\* sendOptions, and the images of an image reply; NoId is the nil pointer.
SendOptions ==
    [kind : {"text", "markdown", "richtext", "image", "images"},
     ClientRequestID : Ids \cup {NoId},
     ThreadID : {"nil", "valid", "invalid"},
     Mentions : {"nil", "valid", "invalid"},
     ImageContentType : {"nil", "detected", "other", "invalid"},
     images : {"valid", "oversized", "unrecognized"}]

\* Faulty variant: a blank id is not rejected.
validateClientRequestIDOrBlank(id) == id.length \in {0} \cup 8..160 /\ id.ascii

validateClientRequestID(id) == id.length \in 8..160 /\ id.ascii

validateSendOptions(o) ==
    /\ o.ClientRequestID # NoId => validateClientRequestID(o.ClientRequestID)
    /\ o.ThreadID # "invalid"
    /\ o.Mentions # "invalid"

validateImageReplyOptions(o) == o.ImageContentType # "invalid" /\ o.Mentions = "nil"

\* None at all, too many, an empty one, or too many bytes.
ValidateReplyImages(o) == o.images # "oversized"

\* The format of every image is detected; an explicit one is for one image only.
imageContentTypesForSend(o) ==
    /\ o.images # "unrecognized"
    /\ o.ImageContentType # "nil" => o.kind = "image" /\ o.ImageContentType = "detected"

normalizeClientRequestID(id) == IF id.length = 0 THEN NoId ELSE id

\* SendMessageAccepted, SendMarkdown, SendRichText, SendImage, SendMultipleImages.
\* What is valid may still fail to encode, or exceed the multipart envelope.
PrepareReply ==
    /\ pc = "prepare"
    /\ \E o \in SendOptions :
          /\ idGiven' = (o.ClientRequestID # NoId)
          /\ \/ /\ validateSendOptions(o)
                /\ o.kind \in {"image", "images"} =>
                      /\ validateImageReplyOptions(o)
                      /\ ValidateReplyImages(o)
                      /\ imageContentTypesForSend(o)
                /\ hasId' = (normalizeClientRequestID(o.ClientRequestID) # NoId)
                /\ pc' = "build"
                /\ UNCHANGED err
             \/ Return(OtherError) /\ UNCHANGED hasId
    /\ UNCHANGED <<path, waitVars, unknownErr, epochRefreshed, ctxDone, sent, net,
                   resp, irisVars>>

\* QueryMemberStats, QueryRecentMessages: idempotent, and not retried.
PrepareQuery ==
    /\ pc = "prepare"
    /\ path' = "query"
    /\ hasId' = TRUE
    /\ \/ pc' = "build" /\ UNCHANGED err
       \/ Return(OtherError)
    /\ UNCHANGED <<idGiven, waitVars, unknownErr, epochRefreshed, ctxDone, sent, net,
                   resp, irisVars>>

-----------------------------------------------------------------------------
\* retryPost

\* Faulty variant: the error of the last attempt wins.
lastErrorWins(finalErr, unknown) == finalErr

\* The final error goes into the message only.
keepUnknownOutcome(finalErr, unknown) ==
    IF \/ unknown = Nil
       \/ Is(finalErr, "ErrTransport")
       \/ ClientRequestIDConflictCode(finalErr) # NoCode
    THEN finalErr
    ELSE TransportError(unknown, hasId)

retryWaitError(waitErr, unknown) ==
    IF unknown = Nil THEN waitErr ELSE TransportError(Join(waitErr, unknown), hasId)

\* Iris may send any Retry-After with an error status.
SetTimer(e) ==
    /\ header' \in IF e.status # 0 THEN Headers ELSE {NoHeader}
    /\ delay' \in RetryDelays(header', backoff)

\* After a failed attempt: return, or wait for the next one.
AttemptFails(e) ==
    /\ unknownErr' = IF Is(e, "ErrTransport") THEN e ELSE unknownErr
    /\ IF isRetryableReplyError(e, hasId) /\ attempt # maxAttempts
       THEN pc' = "wait" /\ SetTimer(e) /\ UNCHANGED err
       ELSE Return(keepUnknownOutcome(e, unknownErr')) /\ UNCHANGED <<header, delay>>
    /\ UNCHANGED <<callVars, attempt, backoff, ctxDone>>

\* The builder of an attempt: signing, the body of an image or a file, a
\* transport that only serves probes. It is never retried.
BuildFails ==
    /\ pc = "build"
    /\ \E e \in signRequestErrors : Return(keepUnknownOutcome(e, unknownErr))
    /\ UNCHANGED <<callVars, waitVars, unknownErr, epochRefreshed, ctxDone, sent,
                   net, resp, irisVars>>

\* Faulty variant: the attempt is not counted.
WaitEndsUncounted ==
    /\ pc = "wait"
    /\ IF ctxDone
       THEN Return(retryWaitError(OtherError, unknownErr)) /\ UNCHANGED backoff
       ELSE pc' = "build" /\ backoff' = AtMost(Wrap(backoff * 2), Second) /\ UNCHANGED err
    /\ header' = NoHeader
    /\ delay' = 0
    /\ UNCHANGED <<callVars, attempt, unknownErr, epochRefreshed, ctxDone, sent, net,
                   resp, irisVars>>

\* The select: the context has ended, or the timer has fired and the backoff
\* doubles up to a second.
WaitEnds ==
    /\ pc = "wait"
    /\ \/ /\ ctxDone
          /\ Return(retryWaitError(OtherError, unknownErr))
          /\ UNCHANGED <<attempt, backoff>>
       \/ /\ ~ctxDone
          /\ pc' = "build"
          /\ attempt' = attempt + 1
          /\ backoff' = AtMost(Wrap(backoff * 2), Second)
          /\ UNCHANGED err
    /\ header' = NoHeader
    /\ delay' = 0
    /\ UNCHANGED <<callVars, unknownErr, epochRefreshed, ctxDone, sent, net, resp,
                   irisVars>>

-----------------------------------------------------------------------------
\* do

Transmit ==
    /\ pc \in {"build", "resign"}
    /\ pc' = "do"
    /\ sent' = sent + 1
    /\ net' = net \cup {sent + 1}
    /\ resp' = NoAnswer
    /\ UNCHANGED <<callVars, waitVars, unknownErr, epochRefreshed, ctxDone, err, irisVars>>

\* client.Do fails before anything is written: a guard failed to resolve or
\* denied the address, or an unguarded dial failed.
DialFails ==
    /\ pc \in {"build", "resign"}
    /\ \E e \in {OtherError, SentinelError("ErrNotSent"),
                 Join(SentinelError("ErrNotSent"), SentinelError("ErrH3EgressDenied"))} :
          AttemptFails(TransportError(e, hasId))
    /\ UNCHANGED <<epochRefreshed, sent, net, resp, irisVars>>

\* client.Do fails after the request was written, or its answer is lost.
DoFails ==
    /\ pc = "do"
    /\ AttemptFails(TransportError(OtherError, hasId))
    /\ resp' = NoAnswer
    /\ UNCHANGED <<epochRefreshed, sent, net, irisVars>>

\* decodeJSONBody: the result is returned, or the body cannot be decoded, is
\* too large, has no clean end, or cannot be closed.
ReceiveAccepted ==
    /\ pc = "do"
    /\ resp = Accepted
    /\ \/ Return(Nil) /\ UNCHANGED <<callVars, waitVars, unknownErr, ctxDone>>
       \/ \E e \in {OtherError, SentinelError("ErrResponseTooLarge")} :
             AttemptFails(TransportError(e, hasId))
    /\ resp' = NoAnswer
    /\ UNCHANGED <<epochRefreshed, sent, net, irisVars>>

\* readErrorResponse: the code is lost unless the body is read whole.
ResponseErrors ==
    {e \in {HTTPError(resp.status, resp.code), HTTPError(resp.status, NoCode)} :
        resp \notin {NoAnswer, Accepted}}

IsEpochMismatch(e) == e.status = 401 /\ e.code = EpochMismatch

ReceiveError ==
    /\ pc = "do"
    /\ \E e \in ResponseErrors :
          \/ AttemptFails(StopReplyRetry(e))    \* the body cannot be closed
          \/ ~IsEpochMismatch(e) /\ AttemptFails(e)
          \/ IsEpochMismatch(e) /\ epochRefreshed /\ AttemptFails(StopReplyRetry(e))
    /\ resp' = NoAnswer
    /\ UNCHANGED <<epochRefreshed, sent, net, irisVars>>

\* Faulty variant: the budget of one re-signature is not checked.
ReceiveMismatchUnbounded ==
    /\ pc = "do"
    /\ \E e \in ResponseErrors : IsEpochMismatch(e)
    /\ pc' = "resign"
    /\ resp' = NoAnswer
    /\ epochRefreshed' = TRUE
    /\ UNCHANGED <<callVars, waitVars, unknownErr, ctxDone, err, sent, net, irisVars>>

ReceiveMismatch ==
    /\ pc = "do"
    /\ \E e \in ResponseErrors : IsEpochMismatch(e)
    /\ ~epochRefreshed
    /\ epochRefreshed' = TRUE
    /\ pc' = "resign"
    /\ resp' = NoAnswer
    /\ UNCHANGED <<callVars, waitVars, unknownErr, ctxDone, err, sent, net, irisVars>>

\* The replay cannot be signed or its body cannot be produced again.
ResignFails ==
    /\ pc = "resign"
    /\ \E e \in signRequestErrors : AttemptFails(StopReplyRetry(e))
    /\ UNCHANGED <<epochRefreshed, sent, net, resp, irisVars>>

-----------------------------------------------------------------------------
\* The environment: the caller, and Iris behind a network that may delay a
\* request but neither repeats nor invents one.

Expire ==
    /\ ~ctxDone
    /\ pc # "done"
    /\ ctxDone' = TRUE
    /\ UNCHANGED <<callVars, waitVars, unknownErr, epochRefreshed, pc, err, sent, net,
                   resp, irisVars>>

\* Request n is served; its answer reaches the call if it still waits for it.
Answer(n, a) ==
    /\ net' = net \ {n}
    /\ resp' = IF pc = "do" /\ n = sent THEN a ELSE resp
    /\ UNCHANGED <<clientVars, sent>>

\* Iris turns the request away without looking at its record.
Refuse(n) ==
    /\ \E a \in {[status |-> 401, code |-> EpochMismatch]}
               \cup {[status |-> s, code |-> NoCode] : s \in {302, 400, 403, 409, 429, 500}} :
          Answer(n, a)
    /\ UNCHANGED irisVars

\* Iris keeps a record of a reply with an id.
Recording == path = "reply" /\ hasId

\* The reply is handed to the durable queue (or the query is run); Iris may
\* crash before it answers or before it knows that it did so.
Admit(n) ==
    /\ Recording => ledger = "absent"
    /\ applied' = applied + 1
    /\ ledger' \in IF Recording THEN {"accepted", "unknown"} ELSE {ledger}
    /\ \E a \in {Accepted, [status |-> 500, code |-> NoCode]} : Answer(n, a)

\* The reply is recorded but not handed over.
AdmitFails(n) ==
    /\ Recording
    /\ ledger = "absent"
    /\ ledger' \in {"failed", "unknown"}
    /\ Answer(n, [status |-> 500, code |-> NoCode])
    /\ UNCHANGED applied

\* The record of an earlier request with this id decides.
Recorded ==
    [accepted |-> {Accepted, [status |-> 409, code |-> "CLIENT_REQUEST_ID_ALREADY_EXISTS"]},
     failed   |-> {[status |-> 409, code |-> "CLIENT_REQUEST_ID_FAILED"]},
     unknown  |-> {[status |-> 409, code |-> "CLIENT_REQUEST_ID_OUTCOME_UNKNOWN"]},
     foreign  |-> {[status |-> 409, code |-> "CLIENT_REQUEST_ID_PAYLOAD_MISMATCH"]}]

Conflict(n) ==
    /\ Recording
    /\ ledger # "absent"
    /\ \E a \in Recorded[ledger] : Answer(n, a)
    /\ UNCHANGED irisVars

Serve(n) == Refuse(n) \/ Admit(n) \/ AdmitFails(n) \/ Conflict(n)

-----------------------------------------------------------------------------
Step ==
    \/ PrepareReply
    \/ PrepareQuery
    \/ BuildFails
    \/ WaitEnds
    \/ Transmit
    \/ DialFails
    \/ DoFails
    \/ ReceiveAccepted
    \/ ReceiveError
    \/ ReceiveMismatch
    \/ ResignFails

\* The call has returned and no request is under way.
Returned ==
    /\ pc = "done"
    /\ net = {}
    /\ UNCHANGED vars

Next ==
    \/ Step
    \/ Expire
    \/ \E n \in net : Serve(n)
    \/ Returned

Spec == Init /\ [][Next]_vars

\* The goroutine of the call is scheduled, its timers fire, and client.Do ends
\* at the latest at the timeout of the attempt; under a caller's http.Client
\* without a timeout this is an assumption on its context. Iris need not answer.
FairSpec == Spec /\ WF_vars(Step)

-----------------------------------------------------------------------------
\* Properties.

Failed == pc = "done" /\ err # Nil

(***************************************************************************)
(* A definite error stays true. Unless the error says "unknown"            *)
(* (ErrTransport, a 5xx, or a conflict code that speaks of an earlier      *)
(* delivery), the reply was not handed over and no request still under way *)
(* will do so: the caller may report a failure, send the reply again under *)
(* another id (CLIENT_REQUEST_ID_FAILED), or drop it. This is what         *)
(* keepUnknownOutcome and retryWaitError protect over several attempts.    *)
(***************************************************************************)
Definite(e) ==
    /\ ~Is(e, "ErrTransport")
    /\ e.status < 500
    /\ e.code \notin {"CLIENT_REQUEST_ID_OUTCOME_UNKNOWN",
                      "CLIENT_REQUEST_ID_ALREADY_EXISTS"}

DefiniteErrorMeansUndelivered == Failed /\ Definite(err) => applied = 0

(***************************************************************************)
(* ErrRetryable on an error that is not an answer of Iris promises that    *)
(* the whole call can be made again without a second delivery: the reply   *)
(* has an id, or it was not and will not be handed over.                   *)
(***************************************************************************)
RetryableIsSafe ==
    Failed /\ Is(err, "ErrRetryable") /\ err.status = 0 => hasId \/ applied = 0

(***************************************************************************)
(* WithReplyRetry(n) bounds the requests of a call by n, plus one for the  *)
(* single epoch re-signature, which is shared by all attempts.             *)
(***************************************************************************)
RequestsBounded == sent <= maxAttempts + 1

(***************************************************************************)
(* A caller's id is never lost on the way: what the caller was promised    *)
(* about WithClientRequestID holds for every request that leaves, because  *)
(* an id that normalisation would drop is rejected first                   *)
(* (validateClientRequestID before normalizeClientRequestID).              *)
(***************************************************************************)
IdIsKept == sent > 0 /\ idGiven => hasId

(***************************************************************************)
(* The wait before an attempt is long enough, and not too long. A wait     *)
(* that Iris asks for is never cut short, except by the five-second limit, *)
(* for any number of seconds: neither the conversion to a duration nor a   *)
(* number that ParseInt refuses makes it small or negative. No attempt     *)
(* comes sooner than half the backoff, whatever the header says, so that   *)
(* the attempts thin out; and none later than the limit, whatever it says  *)
(* (parseRetryAfterHeader, clampDuration, halfJitter).                     *)
(***************************************************************************)
WaitIsInBounds ==
    pc = "wait" =>
        /\ delay >= AtMost(Asked(header), MaxReplyRetryAfterDelay)
        /\ 2 * delay >= backoff - 1
        /\ delay <= MaxReplyRetryAfterDelay
        /\ attempt > 1 => backoff > FirstBackoff

(***************************************************************************)
(* The whole call keeps the promise of CallOutcome, over all its attempts  *)
(* and its replay: at most one handover, success only after one, ErrNotSent*)
(* only without one, and none after a definite answer.                     *)
(***************************************************************************)
Class ==
    CASE pc # "done" -> "none"
      [] pc = "done" /\ err = Nil -> "ok"
      [] OTHER -> IF Is(err, "ErrTransport") THEN "transport"
                  ELSE IF Is(err, "ErrNotSent") THEN "notSent"
                  ELSE IF err.status # 0 THEN "http" ELSE "invalid"

Outcome == INSTANCE CallOutcome WITH
    Calls   <- {"reply"},
    applied <- [c \in {"reply"} |-> applied],
    result  <- [c \in {"reply"} |-> Class]

OutcomeIsTruthful == Outcome!OutcomeSpec

(***************************************************************************)
(* The call returns if its exchanges end, however often it is told to try  *)
(* again (retryPost).                                                      *)
(***************************************************************************)
CallReturns == <>(pc = "done")
=============================================================================
