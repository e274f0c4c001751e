--------------------------- MODULE ClientExchange ----------------------------
(***************************************************************************)
(* A client from its construction to its Close, and one call on the way:   *)
(* the options that select a transport (sdk.go, client.go, transport.go,   *)
(* http3_transport.go), the request and the redirects it may meet, and the *)
(* body of the answer (execute.go, ping.go, strict_json.go), which is      *)
(* decoded, drained under a deadline and closed while the caller may       *)
(* cancel, the connection may fail and other goroutines may call Close.    *)
(*                                                                         *)
(* Signing, epochs and replays are in AuthEpoch, attempts in ReplyRetry.   *)
(* net/http, QUIC, JSON and the server are external.                       *)
(***************************************************************************)
EXTENDS IrisErrors

CONSTANTS TypedMax,      \* typedJSONResponseMaxBytes
          DrainMax,      \* decodedBodyDrainMaxLen
          StrictMax,     \* strictJSONResponseMaxBytes
          RedirectLimit, \* ten
          Closers,       \* goroutines that call Close
          Nil            \* the nil error

ASSUME LimitsAssumption ==
    /\ TypedMax \in Nat \ {0}
    /\ DrainMax \in Nat
    /\ StrictMax \in Nat \ {0}
    /\ RedirectLimit \in Nat \ {0}
ASSUME NilAssumption == Nil \notin Errors /\ Nil \notin Closers

VARIABLES
    owner,     \* who made the transport: the SDK ("h3", "http1") or the caller
    policy,    \* CheckRedirect of the caller's client: nil, follow or stop
    timeout,   \* client.Timeout is positive
    closer,    \* transportCloser is not nil
    open,      \* the SDK's QUIC transport has not been closed
    closes,    \* how often it was closed
    severed,   \* it was closed under the request of the call
    mu,        \* the goroutine that holds closeMu
    closing,   \* per Close call: where it is, or what it returned
    kind,      \* what is called
    pc,        \* where the call is
    host,      \* where its request goes: base, or other after a redirect
    hops,      \* len(via)
    wire,      \* what left the client: transport, kind and host
    body,      \* the body of the answer
    got,       \* bytes read from it
    read,      \* bytes of its trailer that were looked at
    drainErr,  \* the error of validateJSONTrailer
    released,  \* the cause at the moment that error was a failed Read (history)
    cause,     \* context.Cause of the request context
    deadline,  \* the drain deadline: off, armed, or fired but not yet run
    err        \* what the call returned

clientVars == <<owner, policy, timeout>>
closeVars  == <<closer, open, closes, severed, mu, closing>>
requestVars == <<kind, host, hops, wire>>
bodyVars   == <<body, got, read, drainErr, released>>
vars == <<clientVars, closeVars, requestVars, bodyVars, pc, cause, deadline, err>>

\* Why a request context has ended; nil while it has not.
Causes == {"nil", "caller", "deadline", "drain"}

Kinds == {"ping", "epoch", "get", "post", "strict"}

\* A body: a value (complete and of the right shape, or not), white space, one
\* more byte, and an end that comes or does not.
Bodies == [value : 1..(TypedMax + 1), valid : BOOLEAN, blanks : 0..(DrainMax + 1),
           junk : {0, 1}, end : {"eof", "hang"}]

NoBody == [value |-> 0, valid |-> FALSE, blanks |-> 0, junk |-> 0, end |-> "eof"]

Length(b) == b.value + b.blanks + b.junk

TypeOK ==
    /\ owner \in {"none", "h3", "http1", "caller"}
    /\ policy \in {"nil", "follow", "stop"}
    /\ timeout \in BOOLEAN
    /\ closer \in BOOLEAN
    /\ open \in BOOLEAN
    /\ closes \in Nat
    /\ severed \in BOOLEAN
    /\ mu \in Closers \cup {Nil}
    /\ closing \in [Closers -> {"idle", "closing", "nil", "error"}]
    /\ kind \in Kinds
    /\ pc \in {"new", "call", "do", "ping", "decode", "strict", "drain", "stop",
               "classify", "ctxErr", "close", "done"}
    /\ host \in {"base", "other"}
    /\ hops \in 0..RedirectLimit
    /\ wire \subseteq [by : {"h3", "http1", "caller"}, kind : Kinds, host : {"base", "other"}]
    /\ body \in Bodies \cup {NoBody}
    /\ got \in 0..Length(body)
    /\ read \in 0..(DrainMax + 1)
    /\ drainErr \in {"nil", "unexpected", "read"}
    /\ cause \in Causes
    /\ released \in Causes
    /\ deadline \in {"off", "armed", "fired"}
    /\ err \in Errors \cup {Nil}

Init ==
    /\ owner = "none"
    /\ policy = "nil"
    /\ timeout = FALSE
    /\ closer = FALSE
    /\ open = FALSE
    /\ closes = 0
    /\ severed = FALSE
    /\ mu = Nil
    /\ closing = [c \in Closers |-> "idle"]
    /\ kind \in Kinds
    /\ pc = "new"
    /\ host = "base"
    /\ hops = 0
    /\ wire = {}
    /\ body = NoBody
    /\ got = 0
    /\ read = 0
    /\ drainErr = "nil"
    /\ released = "nil"
    /\ cause = "nil"
    /\ deadline = "off"
    /\ err = Nil

-----------------------------------------------------------------------------
\* NewClient

\* What the options may say; http is the client of WithHTTPClient, by its
\* redirect policy, and httpTimeout says whether it has a timeout.
ClientOptions ==
    [baseURL : {"blank", "invalid", "http", "https"}, loopback : BOOLEAN,
     botToken : {"blank", "set"}, Transport : {"", "h3", "http1", "other"},
     h3CACertFile : {"", "unreadable", "empty", "notPEM", "pem"},
     http : {"none", "nil", "follow", "stop"}, httpTimeout : BOOLEAN]

resolveTransport(o) == IF o.Transport = "" THEN "h3" ELSE o.Transport

\* baseendpoint.Parse accepts a URL of either scheme.
Parse(o) == o.baseURL \in {"http", "https"}

Valid(o) ==
    /\ Parse(o)
    /\ o.botToken = "set"
    /\ resolveTransport(o) \in {"h3", "http1"}

\* It needs a CA of its own.
newHTTP3Transport(o) == o.h3CACertFile = "pem"

\* http1 serves loopback only, and h3 needs https.
selectTransport(o) ==
    \/ resolveTransport(o) = "http1" /\ o.loopback
    \/ resolveTransport(o) = "h3" /\ o.baseURL = "https" /\ newHTTP3Transport(o)

\* The timeout of a client made by the SDK is positive (applyClientOptions).
NewClient ==
    /\ pc = "new"
    /\ \E o \in ClientOptions :
          \/ /\ ~Valid(o) \/ (o.http = "none" /\ ~selectTransport(o))
             /\ pc' = "done"
             /\ err' = OtherError
             /\ UNCHANGED <<clientVars, closer, open>>
          \/ /\ Valid(o)
             /\ o.http # "none"
             /\ owner' = "caller"
             /\ policy' = o.http
             /\ timeout' = o.httpTimeout
             /\ pc' = "call"
             /\ UNCHANGED <<closer, open, err>>
          \/ /\ Valid(o)
             /\ o.http = "none"
             /\ selectTransport(o)
             /\ owner' = resolveTransport(o)
             /\ timeout' = TRUE
             /\ closer' = (owner' = "h3")
             /\ open' = closer'
             /\ pc' = "call"
             /\ UNCHANGED <<policy, err>>
    /\ UNCHANGED <<requestVars, bodyVars, cause, deadline, closes, severed, mu, closing>>

-----------------------------------------------------------------------------
\* Close

\* Faulty variant: closeMu is not taken.
CloseBeginsUnlocked(c) ==
    /\ closing[c] = "idle"
    /\ owner # "none"
    /\ closing' = [closing EXCEPT ![c] = IF closer THEN "closing" ELSE "nil"]
    /\ UNCHANGED <<clientVars, requestVars, bodyVars, pc, cause, deadline, err, mu,
                   closer, open, closes, severed>>

\* Under closeMu; a client without a transport of its own has nothing to close.
CloseBegins(c) ==
    /\ closing[c] = "idle"
    /\ owner # "none"
    /\ mu = Nil
    /\ closing' = [closing EXCEPT ![c] = IF closer THEN "closing" ELSE "nil"]
    /\ mu' = IF closer THEN c ELSE Nil
    /\ UNCHANGED <<clientVars, requestVars, bodyVars, pc, cause, deadline, err,
                   closer, open, closes, severed>>

\* transportCloser.Close ends every connection, whether or not it reports an
\* error. The closer is dropped in both cases.
CloseEnds(c) ==
    /\ closing[c] = "closing"
    /\ open' = FALSE
    /\ closes' = closes + 1
    /\ severed' = (pc \notin {"new", "call"})
    /\ closer' = FALSE
    /\ mu' = Nil
    /\ \E result \in {"nil", "error"} : closing' = [closing EXCEPT ![c] = result]
    /\ UNCHANGED <<clientVars, requestVars, bodyVars, pc, cause, deadline, err>>

Close(c) == CloseBegins(c) \/ CloseEnds(c)

-----------------------------------------------------------------------------
\* The request

Return(e) ==
    /\ pc' = "done"
    /\ err' = e

idempotent == kind # "post"

\* The request context has ended, or the transport was closed under the call.
Interrupted == cause # "nil" \/ severed

Leaves(h) == wire' = wire \cup {[by |-> owner, kind |-> kind, host |-> h]}

\* newRequest: the SDK's http1 transport serves the probe route only. What a
\* closed QUIC transport does with a new request is up to the library.
newRequest ==
    /\ pc = "call"
    /\ \/ /\ owner = "http1" /\ kind # "ping"
          /\ Return(SentinelError("ErrNotSent"))
          /\ UNCHANGED wire
       \/ /\ owner = "h3" /\ ~open
          /\ Return(TransportError(OtherError, idempotent))
          /\ UNCHANGED wire
       \/ /\ owner = "http1" => kind = "ping"
          /\ pc' = "do"
          /\ Leaves("base")
          /\ UNCHANGED err
    /\ UNCHANGED <<clientVars, closeVars, kind, host, hops, bodyVars, cause, deadline>>

\* client.Do fails: no connection, none any more, or the context ended.
DoFails ==
    /\ pc = "do"
    /\ Return(TransportError(OtherError, idempotent))
    /\ UNCHANGED <<clientVars, closeVars, requestVars, bodyVars, cause, deadline>>

\* Faulty variant: a request without signing headers may be redirected.
RefusesSigned == kind \in {"get", "post", "strict"}

\* CheckRedirect: signed requests, and the discovery of the epoch by its path,
\* are not redirected whatever the caller's policy says.
Refuses == kind \in {"get", "post", "strict"} \/ kind = "epoch"

Follows == CASE policy = "nil"    -> hops + 1 < RedirectLimit
             [] policy = "follow" -> TRUE
             [] policy = "stop"   -> FALSE

\* The answer sends the request elsewhere. RedirectLimit also bounds what a
\* caller's policy follows here.
Redirected ==
    /\ pc = "do"
    /\ hops < RedirectLimit
    /\ \/ /\ Refuses \/ ~Follows
          /\ Return(TransportError(OtherError, idempotent))
          /\ UNCHANGED <<host, hops, wire>>
       \/ /\ ~Refuses /\ Follows
          /\ host' = "other"
          /\ hops' = hops + 1
          /\ Leaves("other")
          /\ UNCHANGED <<pc, err>>
    /\ UNCHANGED <<clientVars, closeVars, kind, bodyVars, cause, deadline>>

\* An error status, or a success with a body. The body of an epoch answer is
\* read in AuthEpoch.
Answered ==
    /\ pc = "do"
    /\ \/ Return(HTTPError(500, NoCode)) /\ UNCHANGED body
       \/ kind = "epoch" /\ Return(Nil) /\ UNCHANGED body
       \/ /\ kind # "epoch"
          /\ body' \in Bodies
          /\ pc' = IF kind \in {"ping", "strict"} THEN kind ELSE "decode"
          /\ UNCHANGED err
    /\ UNCHANGED <<clientVars, closeVars, requestVars, got, read, drainErr, released,
                   cause, deadline>>

\* Ping drops the body: its end, an error or the limit are all the same to it.
PingReturns ==
    /\ pc = "ping"
    /\ Return(Nil)
    /\ UNCHANGED <<clientVars, closeVars, requestVars, bodyVars, cause, deadline>>

-----------------------------------------------------------------------------
\* decodeJSONBody

Smaller(x, y) == IF x <= y THEN x ELSE y

\* The body is closed last, whatever the result.
CloseWith(e) ==
    /\ pc' = "close"
    /\ err' = e

Limit == IF kind = "strict" THEN StrictMax + 1 ELSE TypedMax + 1

\* A Read that returns bytes. The decoder may read ahead, but stops reading
\* when it has the value; ReadAll goes on.
ReadBody ==
    /\ pc \in {"decode", "strict"}
    /\ pc = "decode" => got < body.value
    /\ got' \in (got + 1)..Smaller(Length(body), Limit)
    /\ UNCHANGED <<clientVars, closeVars, requestVars, body, read, drainErr, released, pc,
                   cause, deadline, err>>

TooLarge == SentinelError("ErrResponseTooLarge")

\* Faulty variant: the drain has no deadline.
DecodeEndsUnarmed ==
    /\ pc = "decode"
    /\ body.valid /\ got >= body.value
    /\ \/ got = Limit /\ CloseWith(IF kind = "post" THEN TransportError(TooLarge, idempotent)
                                   ELSE TooLarge)
       \/ got < Limit /\ pc' = "drain" /\ UNCHANGED err
    /\ UNCHANGED <<clientVars, closeVars, requestVars, bodyVars, cause, deadline>>

\* The value is decoded; the limit is checked and the drain deadline armed.
DecodeEnds ==
    /\ pc = "decode"
    /\ body.valid /\ got >= body.value
    /\ \/ /\ got = Limit
          /\ CloseWith(IF kind = "post" THEN TransportError(TooLarge, idempotent) ELSE TooLarge)
          /\ UNCHANGED deadline
       \/ /\ got < Limit
          /\ deadline' = "armed"
          /\ pc' = "drain"
          /\ UNCHANGED err
    /\ UNCHANGED <<clientVars, closeVars, requestVars, bodyVars, cause>>

\* Faulty variant: a POST reports the decoder's error as it is.
DecodeFailsPlain ==
    /\ pc = "decode"
    /\ body.valid => got < body.value
    /\ CloseWith(IF got = Limit THEN TooLarge ELSE OtherError)
    /\ UNCHANGED <<clientVars, closeVars, requestVars, bodyVars, cause, deadline>>

\* The value is malformed or cut off, or a Read fails before it is complete.
DecodeFails ==
    /\ pc = "decode"
    /\ body.valid => got < body.value
    /\ LET e == IF got = Limit THEN TooLarge ELSE OtherError
       IN  CloseWith(IF kind = "post" THEN TransportError(e, idempotent) ELSE e)
    /\ UNCHANGED <<clientVars, closeVars, requestVars, bodyVars, cause, deadline>>

-----------------------------------------------------------------------------
\* validateJSONTrailer

\* What the decoder read ahead and the drain has not looked at.
Buffered == got - body.value - read

\* Bytes of the trailer: from the buffer first, then from the body.
DrainRead ==
    /\ pc = "drain"
    /\ LET available == IF Buffered > 0 THEN Buffered
                        ELSE Smaller(Length(body), Limit) - got
       IN  read' \in (read + 1)..(read + Smaller(available, DrainMax + 1 - read))
    /\ got' = IF Buffered > 0 THEN got ELSE got + (read' - read)
    /\ IF body.junk = 1 /\ read' > body.blanks
       THEN drainErr' = "unexpected" /\ pc' = "stop"
       ELSE UNCHANGED <<drainErr, pc>>
    /\ UNCHANGED <<clientVars, closeVars, requestVars, body, released, cause, deadline,
                   err>>

\* io.EOF: the end of the body, or of either limited reader.
DrainEnds ==
    /\ pc = "drain"
    /\ \/ read = DrainMax + 1
       \/ Buffered = 0 /\ got = Limit
       \/ Buffered = 0 /\ got = Length(body) /\ body.end = "eof"
    /\ pc' = "stop"
    /\ UNCHANGED <<clientVars, closeVars, requestVars, bodyVars, cause, deadline, err>>

\* A Read fails.
DrainFails ==
    /\ pc = "drain"
    /\ read < DrainMax + 1 /\ Buffered = 0 /\ got < Limit
    /\ drainErr' = "read"
    /\ released' = cause
    /\ pc' = "stop"
    /\ UNCHANGED <<clientVars, closeVars, requestVars, body, got, read, cause, deadline,
                   err>>

\* stopDrainDeadline: a function that has fired may still run later.
StopDeadline ==
    /\ pc = "stop"
    /\ deadline' = IF deadline = "armed" THEN "off" ELSE deadline
    /\ pc' = "classify"
    /\ UNCHANGED <<clientVars, closeVars, requestVars, bodyVars, cause, err>>

Fail(e) == CloseWith(TransportError(e, idempotent))

\* Faulty variant: the limits look like the end of the body.
TrailerUnlimited == FALSE

\* The limit of the drain, or of the whole body, was reached.
TrailerTooLarge == read > DrainMax \/ got = Limit

\* Faulty variant: ctx.Err is asked first, and hides the cause.
DrainTimedOutUnasked == FALSE

DrainTimedOut == cause = "drain"

\* classifyTrailerDrain up to its first look at the context, context.Cause: a
\* failed Read that the drain deadline does not explain is not settled yet.
Classify ==
    /\ pc = "classify"
    /\ \/ TrailerTooLarge /\ Fail(TooLarge)
       \/ ~TrailerTooLarge /\ drainErr = "nil" /\ CloseWith(Nil)
       \/ ~TrailerTooLarge /\ drainErr = "unexpected" /\ Fail(OtherError)
       \/ /\ ~TrailerTooLarge /\ drainErr = "read"
          /\ \/ DrainTimedOut /\ Fail(SentinelError("ErrResponseDrainTimeout"))
             \/ ~DrainTimedOut /\ pc' = "ctxErr" /\ UNCHANGED err
    /\ UNCHANGED <<clientVars, closeVars, requestVars, bodyVars, cause, deadline>>

\* Its second look, ctx.Err: the context may have ended since the first.
ClassifyEnded ==
    /\ pc = "ctxErr"
    /\ Fail(IF cause # "nil" THEN SentinelError("ContextError") ELSE OtherError)
    /\ UNCHANGED <<clientVars, closeVars, requestVars, bodyVars, cause, deadline>>

\* The deferred Close of the body: when it fails, there is no result.
CloseBody ==
    /\ pc = "close"
    /\ \/ Return(err)
       \/ Return(TransportError(IF err = Nil THEN OtherError ELSE Join(err, OtherError),
                                idempotent))
    /\ UNCHANGED <<clientVars, closeVars, requestVars, bodyVars, cause, deadline>>

-----------------------------------------------------------------------------
\* postStrictJSON

\* ReadAll has met the end of the body or of the limited reader.
StrictEnds ==
    /\ pc = "strict"
    /\ (got = Length(body) /\ body.end = "eof") \/ got = Limit
    /\ Return(IF got > StrictMax THEN TooLarge
              ELSE IF body.valid /\ body.junk = 0 THEN Nil ELSE OtherError)
    /\ UNCHANGED <<clientVars, closeVars, requestVars, bodyVars, cause, deadline>>

StrictFails ==
    /\ pc = "strict"
    /\ got < Limit
    /\ Return(OtherError)
    /\ UNCHANGED <<clientVars, closeVars, requestVars, bodyVars, cause, deadline>>

-----------------------------------------------------------------------------
\* The request context: the first cause stays.

EndContext(why) == cause' = IF cause = "nil" THEN why ELSE cause

\* The caller cancels.
Cancel ==
    /\ pc \notin {"new", "done"}
    /\ cause = "nil"
    /\ EndContext("caller")
    /\ UNCHANGED <<clientVars, closeVars, requestVars, bodyVars, pc, deadline, err>>

\* requestContext under a client with a timeout, and the five seconds of Ping.
Bounded == timeout \/ kind = "ping"

TimeoutEnds ==
    /\ pc \notin {"new", "done"}
    /\ Bounded
    /\ cause = "nil"
    /\ EndContext("deadline")
    /\ UNCHANGED <<clientVars, closeVars, requestVars, bodyVars, pc, deadline, err>>

\* The timer of armSuccessBodyDrainDeadline starts its function, which cancels.
DeadlineFires ==
    /\ \/ deadline = "armed" /\ deadline' = "fired" /\ UNCHANGED cause
       \/ deadline = "fired" /\ deadline' = "off" /\ EndContext("drain")
    /\ UNCHANGED <<clientVars, closeVars, requestVars, bodyVars, pc, err>>

-----------------------------------------------------------------------------
Call ==
    \/ newRequest \/ DoFails \/ Redirected \/ Answered \/ PingReturns
    \/ ReadBody \/ DecodeEnds \/ DecodeFails
    \/ DrainRead \/ DrainEnds \/ DrainFails \/ StopDeadline
    \/ Classify \/ ClassifyEnded \/ CloseBody
    \/ StrictEnds \/ StrictFails

\* Nobody need call Close.
Finished == pc = "done" /\ UNCHANGED vars

Next ==
    \/ NewClient
    \/ Call
    \/ \E c \in Closers : Close(c)
    \/ Cancel
    \/ TimeoutEnds
    \/ DeadlineFires
    \/ Finished

Spec == Init /\ [][Next]_vars

(***************************************************************************)
(* Goroutines are scheduled and timers fire. The server need not answer,   *)
(* send bytes or end a body; but a blocked Do or Read returns once the     *)
(* request context has ended or its connection was closed, as the comment  *)
(* on armSuccessBodyDrainDeadline requires of every transport.             *)
(***************************************************************************)
Local ==
    \/ newRequest \/ DecodeEnds \/ (DrainRead /\ Buffered > 0) \/ DrainEnds
    \/ StopDeadline \/ Classify \/ ClassifyEnded \/ CloseBody \/ StrictEnds

Released ==
    Interrupted /\ (DoFails \/ PingReturns \/ DecodeFails \/ DrainFails \/ StrictFails)

FairSpec ==
    /\ Spec
    /\ WF_vars(Local)
    /\ WF_vars(Released)
    /\ WF_vars(TimeoutEnds)
    /\ WF_vars(DeadlineFires)

-----------------------------------------------------------------------------
\* Properties.

Returned == pc = "done" /\ owner # "none"

(***************************************************************************)
(* A result stands for a whole answer: a value is returned only when the   *)
(* body was read to its own end, holds nothing but that value and white    *)
(* space, and keeps to both limits. The end of a limited reader, bytes     *)
(* read ahead by the decoder, a cancelled read or a deadline that fires    *)
(* late never pass for the end of the body (decodeJSONBody,                *)
(* classifyTrailerDrain, postStrictJSON).                                  *)
(***************************************************************************)
SuccessIsComplete ==
    Returned /\ err = Nil /\ kind \in {"get", "post", "strict"} =>
        /\ body.valid /\ body.junk = 0 /\ body.end = "eof"
        /\ got = Length(body)
        /\ got < Limit
        /\ kind # "strict" => body.blanks <= DrainMax

Reports(sentinel) == err # Nil /\ Is(err, sentinel)

(***************************************************************************)
(* A failed drain is reported for what ended it. When the request context  *)
(* had ended by the time the Read failed, the call reports why: the drain  *)
(* deadline as ErrResponseDrainTimeout, the caller's cancellation or the   *)
(* timeout as a context error, even though the others may follow before    *)
(* the context is looked at, and between the two looks. No call reports a  *)
(* drain timeout unless the deadline ended its context, or a context error *)
(* unless something did. What stays open is a Read that failed by itself   *)
(* just before the context ended (classifyTrailerDrain).                   *)
(***************************************************************************)
CauseIsTruthful ==
    Returned =>
        /\ released = "drain" => Reports("ErrResponseDrainTimeout") /\ ~Reports("ContextError")
        /\ released \in {"caller", "deadline"} => Reports("ContextError")
        /\ Reports("ErrResponseDrainTimeout") => cause = "drain"
        /\ Reports("ContextError") => cause # "nil"

(***************************************************************************)
(* Once Iris has answered a reply with success, no failure on the way to   *)
(* the result is a definite one: whatever breaks while its body is         *)
(* decoded, drained or closed, the error is ErrTransport and not           *)
(* ErrNotSent. ReplyRetry relies on this in ReceiveAccepted.               *)
(***************************************************************************)
AcceptedStaysUnknown ==
    Returned /\ kind = "post" /\ body # NoBody /\ err # Nil =>
        Is(err, "ErrTransport") /\ ~Is(err, "ErrNotSent")

(***************************************************************************)
(* A signed request or an epoch discovery never reaches another host, and  *)
(* never leaves over an http1 transport of the SDK, whatever options,      *)
(* redirect policies and answers come together (selectTransport,           *)
(* newRequest, cloneHTTPClientWithRedirectPolicy).                         *)
(***************************************************************************)
SignedStaysHome ==
    \A r \in wire : r.host = "other" \/ r.by = "http1" => r.kind = "ping"

(***************************************************************************)
(* Close is final for every caller: the transport is closed at most once,  *)
(* a Close that has returned, first or not, leaves it closed, and only a   *)
(* transport the SDK made is ever closed.                                  *)
(***************************************************************************)
CloseIsFinal ==
    /\ closes <= 1
    /\ closes = 1 => owner = "h3"
    /\ (\E c \in Closers : closing[c] \in {"nil", "error"}) => ~open

(***************************************************************************)
(* A call ends: under a client with a timeout always, and under any client *)
(* once the value is decoded, even if the server never ends the body and   *)
(* nobody cancels (requestContext, armSuccessBodyDrainDeadline).           *)
(***************************************************************************)
ExchangeEnds ==
    /\ (pc = "do" /\ Bounded) ~> pc = "done"
    /\ pc = "drain" ~> pc = "done"
=============================================================================
