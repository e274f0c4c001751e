----------------------------- MODULE IrisErrors ------------------------------
(***************************************************************************)
(* The error values of internal/client/transport/errors.go and retry.go,   *)
(* as far as callers can tell them apart: the sentinels errors.Is finds in *)
(* the chain, the status and code of the HTTPError errors.As finds in it   *)
(* (0 and "" when there is none), and whether a stopReplyRetryError is in  *)
(* it. Messages, URLs and bodies are left out. ContextError stands for the *)
(* errors of package context.                                              *)
(***************************************************************************)
EXTENDS Naturals

Sentinels == {"ErrRetryable", "ErrPermanent", "ErrAuthFailed", "ErrRateLimited",
              "ErrTransport", "ErrNotSent", "ErrH3EgressDenied",
              "ErrResponseTooLarge", "ErrResponseDrainTimeout", "ContextError"}

EpochMismatch == "AUTH_EPOCH_MISMATCH"

ConflictCodes == {"CLIENT_REQUEST_ID_PAYLOAD_MISMATCH", "CLIENT_REQUEST_ID_FAILED",
                  "CLIENT_REQUEST_ID_OUTCOME_UNKNOWN",
                  "CLIENT_REQUEST_ID_ALREADY_EXISTS"}

\* The empty code.
NoCode == "no code"

Codes == ConflictCodes \cup {EpochMismatch, NoCode}

Errors == [is : SUBSET Sentinels, status : Nat, code : Codes, stop : BOOLEAN]

Is(e, target) == target \in e.is

\* An error of another package: it matches no sentinel.
OtherError == [is |-> {}, status |-> 0, code |-> NoCode, stop |-> FALSE]

SentinelError(s) == [OtherError EXCEPT !.is = {s}]

\* fmt.Errorf with two %w verbs, and errors.Join: both chains are searched,
\* the first one first.
Join(e, f) ==
    [is     |-> e.is \cup f.is,
     status |-> IF e.status # 0 THEN e.status ELSE f.status,
     code   |-> IF e.status # 0 THEN e.code ELSE f.code,
     stop   |-> e.stop \/ f.stop]

\* HTTPError.Is, one line per sentinel.
HTTPErrorIs(status, code) ==
    IF status = 401 /\ code = EpochMismatch
    THEN {"ErrRetryable", "ErrNotSent"}
    ELSE {s \in Sentinels :
            \/ s = "ErrRetryable" /\ (status >= 500 \/ status = 429)
            \/ s = "ErrPermanent" /\ status >= 400 /\ status < 500 /\ status # 429
            \/ s = "ErrAuthFailed" /\ status \in {401, 403}
            \/ s = "ErrRateLimited" /\ status = 429}

HTTPError(status, code) ==
    [is |-> HTTPErrorIs(status, code), status |-> status, code |-> code,
     stop |-> FALSE]

\* Faulty variant: an outcome-unknown failure is retryable without an id.
TransportErrorRetryable(e, idempotent) ==
    [e EXCEPT !.is = e.is
        \cup {s \in {"ErrTransport"} : ~Is(e, "ErrNotSent")}
        \cup {s \in {"ErrRetryable"} :
                ~Is(e, "ErrH3EgressDenied") /\ ~Is(e, "ErrResponseTooLarge")}]

\* TransportError.Is on top of what the wrapped error matches.
TransportError(e, idempotent) ==
    [e EXCEPT !.is = e.is
        \cup {s \in {"ErrTransport"} : ~Is(e, "ErrNotSent")}
        \cup {s \in {"ErrRetryable"} :
                /\ Is(e, "ErrNotSent") \/ idempotent
                /\ ~Is(e, "ErrH3EgressDenied")
                /\ ~Is(e, "ErrResponseTooLarge")}]

StopReplyRetry(e) == [e EXCEPT !.stop = TRUE]

ClientRequestIDConflictCode(e) ==
    IF e.status = 409 /\ e.code \in ConflictCodes THEN e.code ELSE NoCode

isRetryableTransportError(e) ==
    /\ Is(e, "ErrTransport") \/ Is(e, "ErrNotSent")
    /\ ~Is(e, "ErrH3EgressDenied")
    /\ ~Is(e, "ErrResponseTooLarge")

\* Faulty variant: transport errors are retried with or without an id.
isRetryableAlways(e, hasIdempotencyKey) ==
    /\ ~e.stop
    /\ ~Is(e, "ErrResponseTooLarge")
    /\ Is(e, "ErrRateLimited") \/ isRetryableTransportError(e)

isRetryableReplyError(e, hasIdempotencyKey) ==
    /\ ~e.stop
    /\ ~Is(e, "ErrResponseTooLarge")
    /\ \/ Is(e, "ErrRateLimited")
       \/ hasIdempotencyKey /\ isRetryableTransportError(e)

-----------------------------------------------------------------------------
\* The errors of signRequest: a discovery that failed is always "not sent".

\* fetchAuthEpoch: a network failure or an ended context.
AuthEpochTransportError == TransportError(SentinelError("ErrNotSent"), FALSE)

\* A status other than 200: the code of the body is not read.
DiscoveryHTTPError(status) ==
    Join(SentinelError("ErrNotSent"), HTTPError(status, NoCode))

\* An invalid epoch, or a body over the limit.
AuthEpochErrors ==
    {AuthEpochTransportError, SentinelError("ErrNotSent"),
     Join(SentinelError("ErrNotSent"), SentinelError("ErrResponseTooLarge"))}
    \cup {DiscoveryHTTPError(s) : s \in {302, 403, 409, 429, 500}}

\* signRequest also fails, unclassified, on a target that has no canonical form.
signRequestErrors == AuthEpochErrors \cup {OtherError}
=============================================================================
