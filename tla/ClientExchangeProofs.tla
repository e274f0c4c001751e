------------------------- MODULE ClientExchangeProofs -------------------------
(***************************************************************************)
(* Proofs about ClientExchange for any limits of the readers, any limit of *)
(* redirects and any number of goroutines that call Close.                 *)
(***************************************************************************)
EXTENDS ClientExchange, Integers, TLAPS

\* closeMu is held by the one goroutine that closes, and only while there is
\* something to close.
CloseInv ==
    /\ owner \in {"none", "h3", "http1", "caller"}
    /\ closer \in BOOLEAN
    /\ open = closer
    /\ closes \in {0, 1}
    /\ closing \in [Closers -> {"idle", "closing", "nil", "error"}]
    /\ pc = "new" => owner = "none"
    /\ owner = "none" => ~closer /\ closes = 0 /\ (\A c \in Closers : closing[c] = "idle")
    /\ closer => owner = "h3" /\ closes = 0
    /\ closes = 1 => owner = "h3"
    /\ \A c \in Closers : closing[c] = "closing" => mu = c /\ closer
    /\ \A c \in Closers : closing[c] \in {"nil", "error"} => ~closer

WireInv ==
    /\ kind \in Kinds
    /\ SignedStaysHome

\* The body was read to its end, and nothing but the value was in it.
Whole ==
    /\ body.valid /\ body.junk = 0 /\ body.end = "eof"
    /\ got = Length(body)
    /\ got < Limit
    /\ kind # "strict" => body.blanks <= DrainMax

Reading == {"decode", "strict", "drain", "stop", "classify"}

(***************************************************************************)
(* How much of the body was read, and of its trailer looked at. A drain    *)
(* that met no error met a limit or the end; before it stops at a byte it  *)
(* does not expect, it has seen white space only.                          *)
(***************************************************************************)
BodyInv ==
    /\ body \in Bodies \cup {NoBody}
    /\ got \in Nat
    /\ read \in Nat
    /\ drainErr \in {"nil", "unexpected", "read"}
    /\ pc \in {"new", "call", "do"} => body = NoBody /\ got = 0
    /\ pc \in {"new", "call", "do", "decode", "strict"} => read = 0
    /\ pc \in {"new", "call", "do", "decode", "strict", "drain"} => drainErr = "nil"
    /\ pc \in {"decode", "drain", "stop", "classify", "ctxErr", "close"} =>
          kind \in {"get", "post"}
    /\ pc = "strict" => kind = "strict"
    /\ pc = "ping" => kind = "ping"
    /\ pc \in Reading => got <= Length(body) /\ got <= Limit
    /\ pc \in {"drain", "stop", "classify"} =>
          /\ body.valid
          /\ body.value + read <= got
          /\ body.junk = 1 /\ drainErr # "unexpected" => read <= body.blanks
    /\ pc \in {"stop", "classify"} /\ drainErr = "nil" =>
          \/ read = DrainMax + 1
          \/ got = Limit
          \/ body.value + read = got /\ got = Length(body) /\ body.end = "eof"
    /\ pc \in {"close", "done"} /\ err = Nil /\ kind \in {"get", "post", "strict"} => Whole

\* What an error says of the context and of an accepted reply.
Truthful(e) ==
    /\ e \in Errors
    /\ Is(e, "ErrResponseDrainTimeout") => cause = "drain"
    /\ Is(e, "ContextError") => cause # "nil"
    /\ kind = "post" /\ body # NoBody => Is(e, "ErrTransport") /\ ~Is(e, "ErrNotSent")

ErrorInv ==
    /\ cause \in Causes
    /\ pc \notin {"close", "done"} => err = Nil
    /\ err # Nil => Truthful(err)

\* The call says why the context had ended when the Read failed.
Told ==
    /\ err \in Errors
    /\ released = "drain" =>
          Is(err, "ErrResponseDrainTimeout") /\ ~Is(err, "ContextError")
    /\ released # "drain" => Is(err, "ContextError")

(***************************************************************************)
(* A context that had ended when the Read of the drain failed keeps its    *)
(* cause until both looks are taken. Only a failed Read is explained by    *)
(* it, so neither limit was reached, and the second look is never taken    *)
(* for a drain timeout.                                                    *)
(***************************************************************************)
ReleaseInv ==
    released # "nil" =>
        /\ released \in Causes
        /\ cause = released
        /\ drainErr = "read"
        /\ ~TrailerTooLarge
        /\ pc \in {"stop", "classify", "ctxErr", "close", "done"}
        /\ pc = "ctxErr" => released # "drain"
        /\ pc \in {"close", "done"} => Told

IInv == CloseInv /\ WireInv /\ BodyInv /\ ErrorInv /\ ReleaseInv

-----------------------------------------------------------------------------
\* Close

\* One goroutine closes at a time, and only the first has something to close
\* (SDKClient.Close).
LEMMA CloseStep == CloseInv /\ [Next]_vars => CloseInv'
<1> SUFFICES ASSUME CloseInv, [Next]_vars PROVE CloseInv'
    OBVIOUS
<1>1. ASSUME UNCHANGED <<owner, closeVars>>, pc' = "new" => pc = "new" PROVE CloseInv'
    BY <1>1 DEF CloseInv, closeVars
<1>2. CASE NewClient
    <2>1. pc = "new" /\ pc' # "new" /\ UNCHANGED <<closes, mu, closing>>
        BY <1>2 DEF NewClient
    <2>2. owner = "none" /\ closes = 0 /\ (\A c \in Closers : closing[c] = "idle")
        BY <2>1 DEF CloseInv
    <2>3. CASE UNCHANGED <<owner, closer, open>>
        BY <2>1, <2>3 DEF CloseInv
    <2>4. CASE owner' = "caller" /\ UNCHANGED <<closer, open>>
        BY <2>1, <2>2, <2>4 DEF CloseInv
    <2>5. CASE owner' \in {"h3", "http1"} /\ closer' = (owner' = "h3") /\ open' = closer'
        BY <2>1, <2>2, <2>5 DEF CloseInv
    <2> QED
        BY <1>2, <2>3, <2>4, <2>5 DEF NewClient, clientVars, Valid
<1>3. ASSUME NEW c \in Closers, CloseBegins(c) PROVE CloseInv'
    <2>1. /\ closing[c] = "idle" /\ owner # "none" /\ mu = Nil
          /\ closing' = [closing EXCEPT ![c] = IF closer THEN "closing" ELSE "nil"]
          /\ UNCHANGED <<owner, pc, closer, open, closes>>
        BY <1>3 DEF CloseBegins, clientVars
    <2>2. \A d \in Closers : closing[d] # "closing"
        BY <2>1, NilAssumption DEF CloseInv
    <2>3. closing' \in [Closers -> {"idle", "closing", "nil", "error"}]
        BY <2>1 DEF CloseInv
    <2>4. CASE closer
        <3>1. mu' = c /\ closing' = [closing EXCEPT ![c] = "closing"]
            BY <1>3, <2>1, <2>4 DEF CloseBegins
        <3> QED
            BY <2>1, <2>2, <2>3, <2>4, <3>1 DEF CloseInv
    <2>5. CASE ~closer
        <3>1. closing' = [closing EXCEPT ![c] = "nil"]
            BY <2>1, <2>5
        <3> QED
            BY <2>1, <2>2, <2>3, <2>5, <3>1 DEF CloseInv
    <2> QED
        BY <2>4, <2>5
<1>4. ASSUME NEW c \in Closers, CloseEnds(c) PROVE CloseInv'
    <2>1. PICK result \in {"nil", "error"} : closing' = [closing EXCEPT ![c] = result]
        BY <1>4 DEF CloseEnds
    <2>2. /\ closing[c] = "closing" /\ UNCHANGED <<owner, pc>>
          /\ open' = FALSE /\ closer' = FALSE /\ closes' = closes + 1
        BY <1>4 DEF CloseEnds, clientVars
    <2>3. closes = 0 /\ owner = "h3" /\ \A d \in Closers : closing[d] = "closing" => d = c
        BY <2>2 DEF CloseInv
    <2>4. \A d \in Closers : closing'[d] # "closing"
        BY <2>1, <2>3 DEF CloseInv
    <2>5. closing' \in [Closers -> {"idle", "closing", "nil", "error"}]
        BY <2>1 DEF CloseInv
    <2>6. closes' = 1 /\ owner' = "h3" /\ pc' # "new"
        BY <2>2, <2>3 DEF CloseInv
    <2>7. closer' \in BOOLEAN /\ ~closer' /\ open' = closer'
        BY <2>2
    <2> QED
        BY <2>4, <2>5, <2>6, <2>7 DEF CloseInv
<1>5. ASSUME Call PROVE UNCHANGED <<owner, closeVars>> /\ pc' # "new"
    BY <1>5 DEF Call, newRequest, DoFails, Redirected, Answered, PingReturns, ReadBody, DecodeEnds,
        DecodeFails, DrainRead, DrainEnds, DrainFails, StopDeadline, Classify, ClassifyEnded, Fail, CloseBody,
        StrictEnds, StrictFails, Return, CloseWith, clientVars
<1>6. CASE Cancel \/ TimeoutEnds \/ DeadlineFires
    BY <1>1, <1>6 DEF Cancel, TimeoutEnds, DeadlineFires, clientVars
<1>7. CASE Finished \/ UNCHANGED vars
    BY <1>1, <1>7 DEF Finished, vars, clientVars
<1> QED
    BY <1>1, <1>2, <1>3, <1>4, <1>5, <1>6, <1>7 DEF Next, Close

-----------------------------------------------------------------------------
\* The request

\* Only a probe goes to another host, or over http1 (newRequest, CheckRedirect).
LEMMA WireStep == WireInv /\ [Next]_vars => WireInv'
<1> SUFFICES ASSUME WireInv, [Next]_vars PROVE WireInv'
    OBVIOUS
<1>1. ASSUME UNCHANGED <<kind, wire>> PROVE WireInv'
    BY <1>1 DEF WireInv, SignedStaysHome
<1>2. ASSUME NEW h, UNCHANGED kind, Leaves(h), h = "other" \/ owner = "http1" => kind = "ping"
      PROVE  WireInv'
    BY <1>2 DEF WireInv, SignedStaysHome, Leaves
<1>3. CASE newRequest
    <2>1. UNCHANGED kind
        BY <1>3 DEF newRequest
    <2>2. UNCHANGED wire \/ (Leaves("base") /\ (owner = "http1" => kind = "ping"))
        BY <1>3 DEF newRequest
    <2> QED
        BY <1>1, <1>2, <2>1, <2>2
<1>4. CASE Redirected
    <2>1. UNCHANGED kind
        BY <1>4 DEF Redirected
    <2>2. UNCHANGED wire \/ (Leaves("other") /\ ~Refuses)
        BY <1>4 DEF Redirected
    <2>3. ~Refuses => kind = "ping"
        BY DEF Refuses, WireInv, Kinds
    <2> QED
        BY <1>1, <1>2, <2>1, <2>2, <2>3
<1>5. ASSUME Call PROVE newRequest \/ Redirected \/ UNCHANGED <<kind, wire>>
    BY <1>5 DEF Call, DoFails, Answered, PingReturns, ReadBody, DecodeEnds,
        DecodeFails, DrainRead, DrainEnds, DrainFails, StopDeadline, Classify, ClassifyEnded, Fail, CloseBody,
        StrictEnds, StrictFails, requestVars
<1>6. CASE NewClient \/ Cancel \/ TimeoutEnds \/ DeadlineFires
    BY <1>1, <1>6 DEF NewClient, Cancel, TimeoutEnds, DeadlineFires, requestVars
<1>7. CASE \E c \in Closers : Close(c)
    BY <1>1, <1>7 DEF Close, CloseBegins, CloseEnds, requestVars
<1>8. CASE Finished \/ UNCHANGED vars
    BY <1>1, <1>8 DEF Finished, vars, requestVars
<1> QED
    BY <1>1, <1>3, <1>4, <1>5, <1>6, <1>7, <1>8 DEF Next

-----------------------------------------------------------------------------
\* The errors

\* TransportError.Is adds ErrTransport and ErrRetryable to what the wrapped error matches.
LEMMA TransportErrorIs ==
    ASSUME NEW e \in Errors, NEW i \in BOOLEAN
    PROVE  /\ TransportError(e, i) \in Errors
           /\ TransportError(e, i).is \subseteq e.is \cup {"ErrTransport", "ErrRetryable"}
           /\ e.is \subseteq TransportError(e, i).is
           /\ ~Is(e, "ErrNotSent") => Is(TransportError(e, i), "ErrTransport")
    BY DEF TransportError, Errors, Is, Sentinels

\* The errors that are made in an exchange.
LEMMA ErrorTypes ==
    /\ OtherError \in Errors /\ OtherError.is = {}
    /\ \A s \in Sentinels : SentinelError(s) \in Errors /\ SentinelError(s).is = {s}
    BY DEF SentinelError, OtherError, Errors, Codes

\* An internal server error is retryable, and nothing else.
LEMMA ServerErrorIs ==
    HTTPError(500, NoCode) \in Errors /\ HTTPError(500, NoCode).is \subseteq {"ErrRetryable"}
<1>1. HTTPErrorIs(500, NoCode) \subseteq {"ErrRetryable"}
    BY DEF HTTPErrorIs
<1> QED
    BY <1>1 DEF HTTPError, Errors, Codes, Sentinels

\* A failed Close of the body is joined to the error before it.
LEMMA JoinIs ==
    ASSUME NEW e \in Errors
    PROVE  Join(e, OtherError) \in Errors /\ Join(e, OtherError).is = e.is
    BY DEF Join, OtherError, Errors, Codes

\* An error that is neither a context error nor a drain timeout nor ErrNotSent.
Plain(e) ==
    /\ e \in Errors
    /\ e.is \cap {"ErrResponseDrainTimeout", "ContextError", "ErrNotSent"} = {}

\* The errors of an exchange other than those of the drain.
LEMMA PlainErrors ==
    /\ Plain(OtherError) /\ Plain(TooLarge) /\ Plain(HTTPError(500, NoCode))
    /\ \A e \in Errors, i \in BOOLEAN :
          Plain(e) => Plain(TransportError(e, i)) /\ Is(TransportError(e, i), "ErrTransport")
<1>1. Plain(OtherError)
    BY ErrorTypes DEF Plain
<1>2. Plain(TooLarge)
    BY ErrorTypes DEF Plain, TooLarge, Sentinels
<1>3. Plain(HTTPError(500, NoCode))
    BY ServerErrorIs DEF Plain
<1>4. ASSUME NEW e \in Errors, NEW i \in BOOLEAN, Plain(e)
      PROVE  Plain(TransportError(e, i)) /\ Is(TransportError(e, i), "ErrTransport")
    <2>1. ~Is(e, "ErrNotSent")
        BY <1>4 DEF Plain, Is
    <2>2. /\ TransportError(e, i) \in Errors
          /\ TransportError(e, i).is \subseteq e.is \cup {"ErrTransport", "ErrRetryable"}
          /\ Is(TransportError(e, i), "ErrTransport")
        BY <2>1, TransportErrorIs
    <2> QED
        BY <1>4, <2>2 DEF Plain
<1> QED
    BY <1>1, <1>2, <1>3, <1>4

\* Such an error says nothing of the context.
LEMMA PlainIsTruthful ==
    ASSUME NEW e, Plain(e), kind = "post" /\ body # NoBody => Is(e, "ErrTransport")
    PROVE  Truthful(e)
    BY DEF Plain, Truthful, Is

\* The two errors that classifyTrailerDrain reads off the context.
LEMMA ContextErrorIs ==
    ASSUME NEW s \in {"ErrResponseDrainTimeout", "ContextError"}
    PROVE  LET e == TransportError(SentinelError(s), idempotent)
           IN  /\ e \in Errors
               /\ s \in e.is /\ e.is \subseteq {s, "ErrTransport", "ErrRetryable"}
               /\ Is(e, "ErrTransport")
<1> DEFINE e == SentinelError(s)
<1>1. e \in Errors /\ e.is = {s}
    BY ErrorTypes DEF Sentinels
<1> HIDE DEF e
<1>2. ~Is(e, "ErrNotSent")
    BY <1>1 DEF Is
<1>3. idempotent \in BOOLEAN
    BY DEF idempotent
<1>4. /\ TransportError(e, idempotent) \in Errors
      /\ TransportError(e, idempotent).is \subseteq {s, "ErrTransport", "ErrRetryable"}
      /\ s \in TransportError(e, idempotent).is
      /\ Is(TransportError(e, idempotent), "ErrTransport")
    BY <1>1, <1>2, <1>3, TransportErrorIs
<1> QED
    BY <1>4 DEF e

\* What classifyTrailerDrain ends with, at its first look at the context.
LEMMA ClassifyIs ==
    ASSUME Classify
    PROVE  \/ pc' = "ctxErr" /\ UNCHANGED err /\ drainErr = "read" /\ ~TrailerTooLarge
              /\ cause # "drain"
           \/ pc' = "close" /\ err' = Nil /\ drainErr = "nil" /\ ~TrailerTooLarge
           \/ /\ pc' = "close" /\ (TrailerTooLarge \/ drainErr = "unexpected")
              /\ \E e \in {TooLarge, OtherError} : err' = TransportError(e, idempotent)
           \/ /\ pc' = "close" /\ cause = "drain"
              /\ err' = TransportError(SentinelError("ErrResponseDrainTimeout"), idempotent)
    BY DEF Classify, CloseWith, Fail, DrainTimedOut

(***************************************************************************)
(* Every error is right about why the exchange ended, and the cause of the *)
(* request context never changes once it is set.                           *)
(***************************************************************************)
LEMMA ErrorStep == BodyInv /\ ErrorInv /\ [Next]_vars => ErrorInv'
<1> SUFFICES ASSUME BodyInv, ErrorInv, [Next]_vars PROVE ErrorInv'
    OBVIOUS
<1>0. idempotent \in BOOLEAN
    BY DEF idempotent
\* The context may end, and the call may go on or stay where it is.
<1>1. ASSUME UNCHANGED <<kind, body, err>>, cause' \in Causes,
             cause' = cause \/ cause = "nil",
             pc \in {"close", "done"} => pc' \in {"close", "done"}
      PROVE  ErrorInv'
    BY <1>1 DEF ErrorInv, Truthful
\* An error is reported.
<1>2. ASSUME NEW e, Truthful(e), err' = e, pc' \in {"close", "done"},
             UNCHANGED <<kind, body, cause>>
      PROVE  ErrorInv'
    BY <1>2 DEF ErrorInv, Truthful
<1>3. ASSUME err' = Nil, UNCHANGED cause PROVE ErrorInv'
    BY <1>3 DEF ErrorInv
<1>4. ASSUME NEW e, Plain(e), pc' = "done", body = NoBody,
             err' \in {e, TransportError(e, idempotent)}, UNCHANGED <<kind, body, cause>>
      PROVE  ErrorInv'
    <2>1. Plain(err')
        BY <1>0, <1>4, PlainErrors DEF Plain
    <2> QED
        BY <1>2, <1>4, <2>1, PlainIsTruthful
<1>5. CASE NewClient
    <2>1. UNCHANGED <<kind, body, cause>> /\ pc = "new" /\ body = NoBody
        BY <1>5 DEF NewClient, requestVars, bodyVars, BodyInv
    <2>2. CASE pc' = "done" /\ err' = OtherError
        BY <1>4, <2>1, <2>2, PlainErrors
    <2>3. CASE UNCHANGED err
        BY <1>1, <2>1, <2>3 DEF ErrorInv
    <2> QED
        BY <1>5, <2>2, <2>3 DEF NewClient
<1>6. CASE newRequest
    <2>1. UNCHANGED <<kind, body, cause>> /\ pc = "call" /\ body = NoBody
        BY <1>6 DEF newRequest, bodyVars, BodyInv
    <2>2. CASE Return(SentinelError("ErrNotSent"))
        <3>1. Truthful(SentinelError("ErrNotSent"))
            BY <2>1, ErrorTypes DEF Truthful, Is, Sentinels
        <3> QED
            BY <1>2, <2>1, <2>2, <3>1 DEF Return
    <2>3. CASE Return(TransportError(OtherError, idempotent))
        BY <1>4, <2>1, <2>3, PlainErrors DEF Return
    <2>4. CASE UNCHANGED err
        BY <1>1, <2>1, <2>4 DEF ErrorInv
    <2> QED
        BY <1>6, <2>2, <2>3, <2>4 DEF newRequest
<1>7. CASE DoFails \/ Redirected
    <2>1. UNCHANGED <<kind, body, cause>> /\ pc = "do" /\ body = NoBody
        BY <1>7 DEF DoFails, Redirected, requestVars, bodyVars, BodyInv
    <2>2. CASE Return(TransportError(OtherError, idempotent))
        BY <1>4, <2>1, <2>2, PlainErrors DEF Return
    <2>3. CASE UNCHANGED err
        BY <1>1, <2>1, <2>3 DEF ErrorInv
    <2> QED
        BY <1>7, <2>2, <2>3 DEF DoFails, Redirected
<1>8. CASE Answered
    <2>1. UNCHANGED <<kind, cause>> /\ pc = "do" /\ body = NoBody /\ err = Nil
        BY <1>8 DEF Answered, requestVars, BodyInv, ErrorInv
    <2>2. CASE Return(HTTPError(500, NoCode)) /\ UNCHANGED body
        BY <1>4, <2>1, <2>2, PlainErrors DEF Return
    <2>3. CASE err' = Nil
        BY <1>3, <2>1, <2>3
    <2> QED
        BY <1>8, <2>1, <2>2, <2>3 DEF Answered, Return
<1>9. CASE PingReturns
    BY <1>3, <1>9 DEF PingReturns, Return
<1>10. CASE ReadBody \/ DrainRead \/ DrainEnds \/ DrainFails \/ StopDeadline
    <2>1. UNCHANGED <<kind, body, err, cause>> /\ pc \notin {"close", "done"}
        BY <1>10 DEF ReadBody, DrainRead, DrainEnds, DrainFails, StopDeadline, requestVars, bodyVars
    <2> QED
        BY <1>1, <2>1 DEF ErrorInv
\* The errors of the decoder: ErrTransport for a POST.
<1>11. ASSUME NEW e \in {TooLarge, OtherError}, UNCHANGED <<kind, body, cause>>,
              CloseWith(IF kind = "post" THEN TransportError(e, idempotent) ELSE e)
       PROVE  ErrorInv'
    <2>1. Plain(e) /\ e \in Errors
        BY PlainErrors DEF Plain
    <2>2. Truthful(err')
        BY <1>0, <1>11, <2>1, PlainErrors, PlainIsTruthful DEF CloseWith
    <2> QED
        BY <1>2, <1>11, <2>2 DEF CloseWith
<1>12. CASE DecodeEnds
    <2>1. UNCHANGED <<kind, body, cause>> /\ pc = "decode"
        BY <1>12 DEF DecodeEnds, requestVars, bodyVars
    <2>2. CASE CloseWith(IF kind = "post" THEN TransportError(TooLarge, idempotent) ELSE TooLarge)
        BY <1>11, <2>1, <2>2
    <2>3. CASE UNCHANGED err
        BY <1>1, <2>1, <2>3 DEF ErrorInv
    <2> QED
        BY <1>12, <2>2, <2>3 DEF DecodeEnds
<1>13. CASE DecodeFails
    <2>1. UNCHANGED <<kind, body, cause>>
        BY <1>13 DEF DecodeFails, requestVars, bodyVars
    <2>2. \E e \in {TooLarge, OtherError} :
             CloseWith(IF kind = "post" THEN TransportError(e, idempotent) ELSE e)
        BY <1>13 DEF DecodeFails
    <2> QED
        BY <1>11, <2>1, <2>2
\* The errors of the drain.
<1>14. ASSUME NEW s \in {"ErrResponseDrainTimeout", "ContextError"}, pc' = "close",
              UNCHANGED <<kind, body, cause>>,
              err' = TransportError(SentinelError(s), idempotent),
              cause # "nil", s = "ErrResponseDrainTimeout" => cause = "drain"
       PROVE  ErrorInv'
    <2>1. err' \in Errors /\ Is(err', "ErrTransport")
          /\ err'.is \subseteq {s, "ErrTransport", "ErrRetryable"}
        BY <1>14, ContextErrorIs
    <2>2. Truthful(err')
        BY <1>14, <2>1 DEF Truthful, Is
    <2> QED
        BY <1>2, <1>14, <2>2
<1>15. ASSUME NEW e \in {TooLarge, OtherError}, pc' = "close", UNCHANGED <<kind, body, cause>>,
              err' = TransportError(e, idempotent)
       PROVE  ErrorInv'
    <2>1. Plain(e) /\ e \in Errors
        BY PlainErrors DEF Plain
    <2>2. Truthful(err')
        BY <1>0, <1>15, <2>1, PlainErrors, PlainIsTruthful
    <2> QED
        BY <1>2, <1>15, <2>2
<1>16. CASE Classify
    <2>1. UNCHANGED <<kind, body, cause>> /\ pc = "classify"
        BY <1>16 DEF Classify, requestVars, bodyVars
    <2>2. CASE pc' = "ctxErr" /\ UNCHANGED err
        BY <1>1, <2>1, <2>2 DEF ErrorInv
    <2>3. CASE err' = Nil
        BY <1>3, <2>1, <2>3
    <2>4. CASE pc' = "close" /\ \E e \in {TooLarge, OtherError} : err' = TransportError(e, idempotent)
        BY <1>15, <2>1, <2>4
    <2>5. CASE /\ pc' = "close" /\ cause = "drain"
               /\ err' = TransportError(SentinelError("ErrResponseDrainTimeout"), idempotent)
        BY <1>14, <2>1, <2>5
    <2> QED
        BY <1>16, <2>2, <2>3, <2>4, <2>5, ClassifyIs
<1>17. CASE ClassifyEnded
    <2>1. UNCHANGED <<kind, body, cause>> /\ pc' = "close"
        BY <1>17 DEF ClassifyEnded, Fail, CloseWith, requestVars, bodyVars
    <2>2. CASE cause # "nil"
        <3>1. err' = TransportError(SentinelError("ContextError"), idempotent)
            BY <1>17, <2>2 DEF ClassifyEnded, Fail, CloseWith
        <3> QED
            BY <1>14, <2>1, <2>2, <3>1
    <2>3. CASE cause = "nil"
        <3>1. err' = TransportError(OtherError, idempotent)
            BY <1>17, <2>3 DEF ClassifyEnded, Fail, CloseWith
        <3> QED
            BY <1>15, <2>1, <3>1
    <2> QED
        BY <2>2, <2>3
<1>18. CASE CloseBody
    <2>1. UNCHANGED <<kind, body, cause>> /\ pc = "close" /\ pc' = "done"
        BY <1>18 DEF CloseBody, requestVars, bodyVars, Return
    <2>2. CASE err' = err
        BY <1>1, <2>1, <2>2 DEF ErrorInv
    <2>3. CASE err = Nil /\ err' = TransportError(OtherError, idempotent)
        <3>1. Truthful(err')
            BY <1>0, <2>3, ErrorTypes, PlainErrors, PlainIsTruthful
        <3> QED
            BY <1>2, <2>1, <3>1
    <2>4. CASE err # Nil /\ err' = TransportError(Join(err, OtherError), idempotent)
        <3>1. Truthful(err) /\ err \in Errors
            BY <2>4 DEF ErrorInv, Truthful
        <3>2. Join(err, OtherError) \in Errors /\ Join(err, OtherError).is = err.is
            BY <3>1, JoinIs
        <3>3. /\ err' \in Errors /\ err'.is \subseteq err.is \cup {"ErrTransport", "ErrRetryable"}
              /\ err.is \subseteq err'.is
            BY <1>0, <2>4, <3>2, TransportErrorIs
        <3>4. Truthful(err')
            BY <3>1, <3>3 DEF Truthful, Is
        <3> QED
            BY <1>2, <2>1, <3>4
    <2> QED
        BY <1>18, <2>2, <2>3, <2>4 DEF CloseBody, Return
<1>19. CASE StrictEnds \/ StrictFails
    <2>1. UNCHANGED <<kind, body, cause>> /\ kind # "post" /\ pc' = "done"
        BY <1>19 DEF StrictEnds, StrictFails, requestVars, bodyVars, BodyInv, Return
    <2>2. err' \in {TooLarge, OtherError, Nil}
        BY <1>19 DEF StrictEnds, StrictFails, Return
    <2>3. CASE err' = Nil
        BY <1>3, <2>1, <2>3
    <2>4. CASE err' \in {TooLarge, OtherError}
        BY <1>2, <2>1, <2>4, PlainErrors, PlainIsTruthful
    <2> QED
        BY <2>2, <2>3, <2>4
<1>20. CASE Cancel \/ TimeoutEnds \/ DeadlineFires
    <2>1. UNCHANGED <<kind, body, err, pc>>
        BY <1>20 DEF Cancel, TimeoutEnds, DeadlineFires, requestVars, bodyVars
    <2>2. UNCHANGED cause \/ \E why \in {"caller", "deadline", "drain"} : EndContext(why)
        BY <1>20 DEF Cancel, TimeoutEnds, DeadlineFires
    <2>3. cause' \in Causes /\ (cause' = cause \/ cause = "nil")
        BY <2>2 DEF EndContext, ErrorInv, Causes
    <2> QED
        BY <1>1, <2>1, <2>3
<1>21. CASE \E c \in Closers : Close(c)
    <2>1. UNCHANGED <<kind, body, err, cause, pc>>
        BY <1>21 DEF Close, CloseBegins, CloseEnds, requestVars, bodyVars
    <2> QED
        BY <1>1, <2>1 DEF ErrorInv
<1>22. CASE Finished \/ UNCHANGED vars
    <2>1. UNCHANGED <<kind, body, err, cause, pc>>
        BY <1>22 DEF Finished, vars, requestVars, bodyVars
    <2> QED
        BY <1>1, <2>1 DEF ErrorInv
<1> QED
    BY <1>5, <1>6, <1>7, <1>8, <1>9, <1>10, <1>12, <1>13, <1>16, <1>17, <1>18, <1>19, <1>20, <1>21,
       <1>22 DEF Next, Call

-----------------------------------------------------------------------------
\* The body

\* The sizes of a body.
LEMMA BodyTypes ==
    ASSUME NEW b \in Bodies \cup {NoBody}
    PROVE  /\ b.value \in Nat /\ b.blanks \in Nat /\ b.junk \in {0, 1}
           /\ Length(b) = b.value + b.blanks + b.junk
           /\ Length(b) \in Nat
<1>1. b.value \in Nat /\ b.blanks \in Nat /\ b.junk \in {0, 1}
    BY LimitsAssumption DEF Bodies, NoBody
<1> QED
    BY <1>1 DEF Length

\* The limit of the readers of a call.
LEMMA LimitType == Limit \in Nat \ {0}
    BY LimitsAssumption DEF Limit

\* Arithmetic of the bytes read ahead, of which n are read next.
LEMMA Ahead ==
    ASSUME NEW g \in Nat, NEW w \in Nat, NEW r \in Nat, w + r <= g
    PROVE  /\ g - w - r \in Nat
           /\ g - w - r = 0 <=> w + r = g
           /\ \A n \in Int : n <= g - w - r => w + (r + n) <= g
           /\ w + r = g => \A n \in Int : w + (r + n) = g + n
    OBVIOUS

\* A counter that moves on within a range moves on by some n.
LEMMA Advance ==
    ASSUME NEW r \in Nat, NEW m \in Int, NEW x \in (r + 1)..(r + m)
    PROVE  \E n \in 1..m : x = r + n
<1>1. x - r \in 1..m /\ x = r + (x - r)
    OBVIOUS
<1> QED
    BY <1>1

\* wrapTransportError leaves a plain error plain.
LEMMA PlainTransport ==
    ASSUME NEW e, Plain(e)
    PROVE  Plain(TransportError(e, idempotent))
<1>1. e \in Errors /\ idempotent \in BOOLEAN
    BY DEF Plain, idempotent
<1> QED
    BY <1>1, PlainErrors

\* An error is not Nil.
LEMMA PlainIsNotNil == ASSUME NEW e, Plain(e) PROVE e # Nil
    BY NilAssumption DEF Plain

(***************************************************************************)
(* The exchange up to the decoded value: a body that was decoded has its   *)
(* value, and what was read stays within the body and the limit.           *)
(***************************************************************************)
LEMMA BodyStep == WireInv /\ BodyInv /\ ErrorInv /\ [Next]_vars => BodyInv'
<1> SUFFICES ASSUME WireInv, BodyInv, ErrorInv, [Next]_vars PROVE BodyInv'
    OBVIOUS
<1> DEFINE v == body.value
           b == body.blanks
           j == body.junk
<1>0. /\ idempotent \in BOOLEAN
      /\ v \in Nat /\ b \in Nat /\ j \in {0, 1} /\ Length(body) = v + b + j
      /\ Limit \in Nat \ {0} /\ DrainMax \in Nat
      /\ got \in Nat /\ read \in Nat
    BY BodyTypes, LimitType, LimitsAssumption DEF idempotent, BodyInv
<1>1. ASSUME UNCHANGED <<kind, bodyVars, pc, err>> PROVE BodyInv'
    <2>1. UNCHANGED <<kind, body, got, read, drainErr, pc, err>>
        BY <1>1 DEF bodyVars
    <2>2. Length(body') = Length(body) /\ Limit' = Limit
        BY <2>1 DEF Limit
    <2>3. Whole' <=> Whole
        BY <2>1 DEF Whole, Limit
    <2> QED
        BY <2>1, <2>2, <2>3 DEF BodyInv, Reading
\* An error is returned, and the body is left as it is.
<1>2. ASSUME NEW e, Plain(e), err' \in {e, TransportError(e, idempotent)},
             UNCHANGED <<kind, bodyVars>>, pc' = "done"
      PROVE  BodyInv'
    <2>1. Plain(err')
        BY <1>2, PlainTransport
    <2>2. err' # Nil
        BY <2>1, PlainIsNotNil
    <2> QED
        BY <1>2, <2>2 DEF BodyInv, bodyVars, Reading
\* The decoder fails, and the body is to be closed.
<1>3. ASSUME err' # Nil, UNCHANGED <<kind, bodyVars>>, pc' \in {"close", "done"},
             kind \in {"get", "post"}
      PROVE  BodyInv'
    BY <1>3 DEF BodyInv, bodyVars, Reading
<1>4. CASE NewClient
    <2>1. UNCHANGED <<kind, bodyVars>> /\ pc = "new"
        BY <1>4 DEF NewClient, requestVars
    <2>2. CASE pc' = "done" /\ err' = OtherError
        BY <1>2, <2>1, <2>2, PlainErrors
    <2>3. CASE pc' = "call"
        BY <2>1, <2>3 DEF BodyInv, bodyVars, Reading
    <2> QED
        BY <1>4, <2>2, <2>3 DEF NewClient
<1>5. CASE newRequest
    <2>1. UNCHANGED <<kind, bodyVars>> /\ pc = "call"
        BY <1>5 DEF newRequest
    <2>2. CASE Return(SentinelError("ErrNotSent"))
        <3>1. SentinelError("ErrNotSent") # Nil
            BY ErrorTypes, NilAssumption DEF Sentinels
        <3> QED
            BY <2>1, <2>2, <3>1 DEF Return, BodyInv, bodyVars, Reading
    <2>3. CASE Return(TransportError(OtherError, idempotent))
        BY <1>2, <2>1, <2>3, PlainErrors DEF Return
    <2>4. CASE pc' = "do"
        BY <2>1, <2>4 DEF BodyInv, bodyVars, Reading
    <2> QED
        BY <1>5, <2>2, <2>3, <2>4 DEF newRequest
<1>6. CASE DoFails \/ Redirected
    <2>1. UNCHANGED <<kind, bodyVars>>
        BY <1>6 DEF DoFails, Redirected, requestVars
    <2>2. CASE Return(TransportError(OtherError, idempotent))
        BY <1>2, <2>1, <2>2, PlainErrors DEF Return
    <2>3. CASE UNCHANGED <<pc, err>>
        BY <1>1, <2>1, <2>3
    <2> QED
        BY <1>6, <2>2, <2>3 DEF DoFails, Redirected
<1>7. CASE Answered
    <2>1. UNCHANGED <<kind, got, read, drainErr, released>> /\ pc = "do"
        BY <1>7 DEF Answered, requestVars
    <2>2. CASE Return(HTTPError(500, NoCode)) /\ UNCHANGED body
        BY <1>2, <2>1, <2>2, PlainErrors DEF Return, bodyVars
    <2>3. CASE kind = "epoch" /\ Return(Nil) /\ UNCHANGED body
        BY <2>1, <2>3 DEF Return, BodyInv, Reading
    <2>4. CASE /\ kind # "epoch" /\ body' \in Bodies
               /\ pc' = IF kind \in {"ping", "strict"} THEN kind ELSE "decode"
        <3>1. got' = 0 /\ read' = 0 /\ drainErr' = "nil" /\ kind' = kind
            BY <2>1 DEF BodyInv
        <3>2. Length(body') \in Nat /\ Limit' \in Nat
            BY <2>4, <3>1, BodyTypes, LimitType DEF Limit
        <3>3. pc' \in {"ping", "strict"} => kind' = pc'
            BY <2>4, <3>1
        <3>4. pc' \in {"ping", "strict", "decode"} /\ (pc' = "decode" => kind' \in {"get", "post"})
            BY <2>4, <3>1 DEF WireInv, Kinds
        <3> QED
            <4>1. 0 <= Length(body') /\ 0 <= Limit'
                BY <3>2
            <4>2. body' \in Bodies \cup {NoBody} /\ got' \in Nat /\ read' \in Nat
                BY <2>4, <3>1
            <4> QED
                BY <3>1, <3>3, <3>4, <4>1, <4>2 DEF BodyInv, Reading
    <2> QED
        BY <1>7, <2>2, <2>3, <2>4 DEF Answered
<1>8. CASE PingReturns
    BY <1>8 DEF PingReturns, Return, BodyInv, bodyVars, requestVars, Reading
<1>9. CASE ReadBody
    <2>1. /\ UNCHANGED <<kind, body, read, drainErr, pc, err>> /\ pc \in {"decode", "strict"}
          /\ got' \in (got + 1)..Smaller(Length(body), Limit)
        BY <1>9 DEF ReadBody, requestVars
    <2>2. got' \in Nat /\ got' <= Length(body) /\ got' <= Limit
        BY <1>0, <2>1 DEF Smaller
    <2>3. Length(body') = Length(body) /\ Limit' = Limit
        BY <2>1 DEF Limit
    <2> QED
        BY <2>1, <2>2, <2>3 DEF BodyInv, Reading
<1>10. CASE DecodeEnds
    <2>1. /\ UNCHANGED <<kind, bodyVars>> /\ pc = "decode" /\ body.valid /\ got >= v
        BY <1>10 DEF DecodeEnds, requestVars
    <2>2. kind \in {"get", "post"} /\ read = 0 /\ got <= Length(body) /\ got <= Limit /\ drainErr = "nil"
        BY <2>1 DEF BodyInv, Reading
    <2>3. CASE CloseWith(IF kind = "post" THEN TransportError(TooLarge, idempotent) ELSE TooLarge)
        <3>1. Plain(err')
            <4>1. Plain(TooLarge)
                BY PlainErrors
            <4>2. Plain(TransportError(TooLarge, idempotent))
                BY <4>1, PlainTransport
            <4> QED
                BY <2>3, <4>1, <4>2 DEF CloseWith
        <3> QED
            BY <1>3, <2>1, <2>2, <2>3, <3>1, PlainIsNotNil DEF CloseWith
    <2>4. CASE pc' = "drain" /\ UNCHANGED err
        <3>1. UNCHANGED <<kind, body, got, read, drainErr>>
            BY <2>1 DEF bodyVars
        <3>2. Length(body') = Length(body) /\ Limit' = Limit
            BY <3>1 DEF Limit
        <3>3. v + read <= got /\ read <= b
            BY <1>0, <2>1, <2>2
        <3> QED
            BY <2>1, <2>2, <2>4, <3>1, <3>2, <3>3 DEF BodyInv, Reading
    <2> QED
        BY <1>10, <2>3, <2>4 DEF DecodeEnds
<1>11. CASE DecodeFails
    <2>1. UNCHANGED <<kind, bodyVars>> /\ pc = "decode"
        BY <1>11 DEF DecodeFails, requestVars
    <2>2. PICK e \in {TooLarge, OtherError} :
             CloseWith(IF kind = "post" THEN TransportError(e, idempotent) ELSE e)
        BY <1>11 DEF DecodeFails
    <2>3. Plain(err')
        <3>1. Plain(e)
            BY PlainErrors
        <3>2. Plain(TransportError(e, idempotent))
            BY <3>1, PlainTransport
        <3> QED
            BY <2>2, <3>1, <3>2 DEF CloseWith
    <2>4. err' # Nil /\ pc' = "close" /\ kind \in {"get", "post"}
        BY <2>1, <2>2, <2>3, PlainIsNotNil DEF CloseWith, BodyInv
    <2> QED
        BY <1>3, <2>1, <2>4
\* The trailer: what the drain has looked at was read, and was white space.
<1>12. ASSUME pc \in {"drain", "stop", "classify"}
       PROVE  /\ kind \in {"get", "post"} /\ body.valid /\ v + read <= got
              /\ got <= Length(body) /\ got <= Limit
              /\ j = 1 /\ drainErr # "unexpected" => read <= b
    BY <1>12 DEF BodyInv, Reading
<1>13. CASE DrainRead
    <2>1. UNCHANGED <<kind, body, err>> /\ pc = "drain" /\ drainErr = "nil"
        BY <1>13 DEF DrainRead, requestVars, BodyInv
    <2>2. /\ read' \in Nat /\ got' \in Nat /\ read' > read
          /\ v + read' <= got' /\ got' <= Length(body) /\ got' <= Limit
        <3>0. Buffered = got - v - read /\ v + read <= got
            BY <1>12, <2>1 DEF Buffered
        <3>1. CASE Buffered > 0
            <4> DEFINE most == Smaller(Buffered, DrainMax + 1 - read)
            <4>1. got' = got /\ read' \in (read + 1)..(read + most)
                BY <1>13, <3>1 DEF DrainRead
            <4>2. most \in Int /\ most <= Buffered
                BY <1>0, <3>0 DEF Smaller
            <4> HIDE DEF most
            <4>3. PICK n \in 1..most : read' = read + n
                BY <1>0, <4>1, <4>2, Advance
            <4>4. n \in Int /\ n <= got - v - read
                BY <1>0, <3>0, <4>2, <4>3
            <4>5. v + read' <= got'
                BY <1>0, <3>0, <4>1, <4>3, <4>4, Ahead
            <4>6. read' \in Nat /\ read' > read
                BY <1>0, <4>2, <4>3
            <4> QED
                BY <1>0, <1>12, <2>1, <4>1, <4>5, <4>6
        <3>2. CASE ~(Buffered > 0)
            <4> DEFINE most == Smaller(Smaller(Length(body), Limit) - got, DrainMax + 1 - read)
            <4>1. got' = got + (read' - read) /\ read' \in (read + 1)..(read + most)
                BY <1>13, <3>2 DEF DrainRead
            <4>2. most \in Int /\ most <= Length(body) - got /\ most <= Limit - got
                BY <1>0 DEF Smaller
            <4> HIDE DEF most
            <4>3. PICK n \in 1..most : read' = read + n
                BY <1>0, <4>1, <4>2, Advance
            <4>4. n \in Int /\ got' = got + n /\ read' \in Nat /\ read' > read /\ got' \in Nat
                BY <1>0, <4>1, <4>2, <4>3
            <4>5. got' <= Length(body) /\ got' <= Limit
                <5>1. n <= Length(body) - got /\ n <= Limit - got
                    BY <1>0, <4>2, <4>3
                <5>2. Length(body) \in Nat
                    BY <1>0
                <5> HIDE DEF v, b, j
                <5> QED
                    BY <1>0, <4>4, <5>1, <5>2
            <4>6. v + read = got
                <5>1. got - v - read = 0
                    BY <1>0, <3>0, <3>2, Ahead
                <5> QED
                    BY <1>0, <3>0, <5>1, Ahead
            <4>7. v + read' = got'
                BY <1>0, <3>0, <4>3, <4>4, <4>6, Ahead
            <4> QED
                BY <4>4, <4>5, <4>7
        <3> QED
            BY <3>1, <3>2
    <2>3. Length(body') = Length(body) /\ Limit' = Limit
        BY <2>1 DEF Limit
    <2>4. CASE j = 1 /\ read' > b
        <3>1. drainErr' = "unexpected" /\ pc' = "stop"
            BY <1>13, <2>4 DEF DrainRead
        <3> QED
            BY <1>12, <2>1, <2>2, <2>3, <3>1 DEF BodyInv, Reading
    <2>5. CASE ~(j = 1 /\ read' > b)
        <3>1. UNCHANGED <<drainErr, pc>>
            BY <1>13, <2>5 DEF DrainRead
        <3>2. j = 1 => read' <= b
            BY <1>0, <2>2, <2>5
        <3> QED
            BY <1>12, <2>1, <2>2, <2>3, <3>1, <3>2 DEF BodyInv, Reading
    <2> QED
        BY <2>4, <2>5
<1>14. CASE DrainEnds
    <2>1. UNCHANGED <<kind, body, got, read, drainErr, err>> /\ pc = "drain" /\ pc' = "stop"
        BY <1>14 DEF DrainEnds, requestVars, bodyVars
    <2>2. \/ read = DrainMax + 1
          \/ got = Limit
          \/ v + read = got /\ got = Length(body) /\ body.end = "eof"
        <3>1. Buffered = 0 => v + read = got
            BY <1>0, <1>12, <2>1, Ahead DEF Buffered
        <3> QED
            BY <1>14, <3>1 DEF DrainEnds
    <2>3. Length(body') = Length(body) /\ Limit' = Limit
        BY <2>1 DEF Limit
    <2> QED
        BY <1>12, <2>1, <2>2, <2>3 DEF BodyInv, Reading
<1>15. CASE DrainFails
    <2>1. /\ UNCHANGED <<kind, body, got, read, err>> /\ pc = "drain" /\ pc' = "stop"
          /\ drainErr' = "read" /\ drainErr = "nil"
        BY <1>15 DEF DrainFails, requestVars, BodyInv
    <2>2. Length(body') = Length(body) /\ Limit' = Limit
        BY <2>1 DEF Limit
    <2> QED
        BY <1>12, <2>1, <2>2 DEF BodyInv, Reading
<1>16. CASE StopDeadline
    <2>1. /\ UNCHANGED <<kind, body, got, read, drainErr, err>> /\ pc = "stop" /\ pc' = "classify"
        BY <1>16 DEF StopDeadline, requestVars, bodyVars
    <2>2. Length(body') = Length(body) /\ Limit' = Limit
        BY <2>1 DEF Limit
    <2> QED
        BY <1>12, <2>1, <2>2 DEF BodyInv, Reading
<1>17. CASE Classify
    <2>1. UNCHANGED <<kind, bodyVars>> /\ pc = "classify"
        BY <1>17 DEF Classify, requestVars
    <2>2. CASE pc' = "close" /\ err' = Nil /\ drainErr = "nil" /\ ~TrailerTooLarge
        <3>1. ~(read > DrainMax \/ got = Limit) /\ drainErr = "nil"
            BY <2>2 DEF TrailerTooLarge
        <3>2. v + read = got /\ got = Length(body) /\ body.end = "eof"
            <4>1. read # DrainMax + 1
                BY <1>0, <3>1
            <4> QED
                BY <2>1, <3>1, <4>1 DEF BodyInv
        <3>3. read <= DrainMax /\ got < Limit
            BY <1>0, <1>12, <2>1, <3>1
        <3>4. j = 0 /\ b <= DrainMax
            <4>1. read = b + j /\ (j = 1 => read <= b)
                BY <1>0, <1>12, <2>1, <3>1, <3>2
            <4> HIDE DEF b, j
            <4> QED
                BY <1>0, <3>3, <4>1
        <3>5. Whole
            BY <1>12, <2>1, <3>2, <3>3, <3>4 DEF Whole
        <3>6. UNCHANGED <<kind, body, got, read, drainErr>>
            BY <2>1 DEF bodyVars
        <3>7. Whole'
            BY <3>5, <3>6 DEF Whole, Limit
        <3> QED
            BY <1>12, <2>1, <2>2, <3>6, <3>7 DEF BodyInv, Reading
    <2>3. CASE pc' = "ctxErr" /\ UNCHANGED err
        BY <1>12, <2>1, <2>3 DEF BodyInv, bodyVars, Reading
    <2>4. CASE pc' = "close" /\ err' # Nil
        BY <1>3, <1>12, <2>1, <2>4
    <2>5. ASSUME NEW e \in {TooLarge, OtherError}, err' = TransportError(e, idempotent)
          PROVE  err' # Nil
        BY <2>5, PlainErrors, PlainTransport, PlainIsNotNil
    <2>6. TransportError(SentinelError("ErrResponseDrainTimeout"), idempotent) # Nil
        BY ContextErrorIs, NilAssumption
    <2> QED
        BY <1>17, <2>2, <2>3, <2>4, <2>5, <2>6, ClassifyIs
<1>24. CASE ClassifyEnded
    <2>1. UNCHANGED <<kind, bodyVars>> /\ pc' = "close" /\ kind \in {"get", "post"}
        BY <1>24 DEF ClassifyEnded, Fail, CloseWith, requestVars, BodyInv
    <2>2. err' \in {TransportError(SentinelError("ContextError"), idempotent),
                    TransportError(OtherError, idempotent)}
        BY <1>24 DEF ClassifyEnded, Fail, CloseWith
    <2>3. err' # Nil
        <3>1. TransportError(SentinelError("ContextError"), idempotent) # Nil
            BY ContextErrorIs, NilAssumption
        <3>2. TransportError(OtherError, idempotent) # Nil
            BY PlainErrors, PlainTransport, PlainIsNotNil
        <3> QED
            BY <2>2, <3>1, <3>2
    <2> QED
        BY <1>3, <2>1, <2>3
<1>18. CASE CloseBody
    <2>1. UNCHANGED <<kind, bodyVars>> /\ pc = "close" /\ pc' = "done" /\ kind \in {"get", "post"}
        BY <1>18 DEF CloseBody, requestVars, Return, BodyInv
    <2>2. CASE err' = err
        <3>1. UNCHANGED <<kind, body, got, read, drainErr>>
            BY <2>1 DEF bodyVars
        <3>2. Whole' <=> Whole
            BY <3>1 DEF Whole, Limit
        <3> QED
            BY <2>1, <2>2, <3>1, <3>2 DEF BodyInv, Reading
    <2>3. CASE err' # Nil
        BY <1>3, <2>1, <2>3
    <2>4. err' = err \/ err' # Nil
        <3>1. CASE err = Nil /\ err' = TransportError(OtherError, idempotent)
            BY <1>0, <3>1, ErrorTypes, TransportErrorIs, NilAssumption
        <3>2. CASE err # Nil /\ err' = TransportError(Join(err, OtherError), idempotent)
            <4>1. err \in Errors
                BY <3>2 DEF ErrorInv, Truthful
            <4>2. Join(err, OtherError) \in Errors
                BY <4>1, JoinIs
            <4>3. err' \in Errors
                BY <1>0, <3>2, <4>2, TransportErrorIs
            <4> QED
                BY <4>3, NilAssumption
        <3> QED
            BY <1>18, <3>1, <3>2 DEF CloseBody, Return
    <2> QED
        BY <2>2, <2>3, <2>4
<1>19. CASE StrictEnds
    <2>1. UNCHANGED <<kind, bodyVars>> /\ pc = "strict" /\ pc' = "done" /\ kind = "strict"
        BY <1>19 DEF StrictEnds, requestVars, Return, BodyInv
    <2>2. CASE err' \in {TooLarge, OtherError}
        BY <1>2, <2>1, <2>2, PlainErrors
    <2>3. CASE err' \notin {TooLarge, OtherError}
        <3>1. ~(got > StrictMax) /\ body.valid /\ j = 0
            BY <1>19, <2>3 DEF StrictEnds, Return
        <3>2. Limit = StrictMax + 1 /\ StrictMax \in Nat
            BY <2>1, LimitsAssumption DEF Limit
        <3>3. got < Limit
            BY <1>0, <3>1, <3>2
        <3>4. got = Length(body) /\ body.end = "eof"
            BY <1>0, <1>19, <3>3 DEF StrictEnds
        <3>5. Whole
            BY <2>1, <3>1, <3>3, <3>4 DEF Whole
        <3>6. UNCHANGED <<kind, body, got, read, drainErr>>
            BY <2>1 DEF bodyVars
        <3>7. Whole'
            BY <3>5, <3>6 DEF Whole, Limit
        <3> QED
            BY <2>1, <3>6, <3>7 DEF BodyInv, Reading
    <2> QED
        BY <2>2, <2>3
<1>20. CASE StrictFails
    BY <1>2, <1>20, PlainErrors DEF StrictFails, Return, requestVars
<1>21. CASE Cancel \/ TimeoutEnds \/ DeadlineFires
    BY <1>1, <1>21 DEF Cancel, TimeoutEnds, DeadlineFires, requestVars
<1>22. CASE \E c \in Closers : Close(c)
    BY <1>1, <1>22 DEF Close, CloseBegins, CloseEnds, requestVars
<1>23. CASE Finished \/ UNCHANGED vars
    BY <1>1, <1>23 DEF Finished, vars, requestVars
<1> QED
    BY <1>4, <1>5, <1>6, <1>7, <1>8, <1>9, <1>10, <1>11, <1>13, <1>14, <1>15, <1>16, <1>17, <1>18,
       <1>19, <1>20, <1>21, <1>22, <1>23, <1>24 DEF Next, Call

-----------------------------------------------------------------------------
\* The cause of a failed Read

(***************************************************************************)
(* The cause found when a Read of the drain failed is the one reported,    *)
(* whatever ends the context again before or between the two looks         *)
(* (classifyTrailerDrain).                                                 *)
(***************************************************************************)
LEMMA ReleaseStep == BodyInv /\ ErrorInv /\ ReleaseInv /\ [Next]_vars => ReleaseInv'
<1> SUFFICES ASSUME BodyInv, ErrorInv, ReleaseInv, [Next]_vars, released' # "nil"
             PROVE  ReleaseInv'
    BY DEF ReleaseInv
<1>0. idempotent \in BOOLEAN
    BY DEF idempotent
\* The call stays where it is.
<1>1. ASSUME UNCHANGED <<kind, bodyVars, pc, err>>, cause' = cause \/ cause = "nil"
      PROVE  ReleaseInv'
    <2>1. UNCHANGED <<kind, got, read, drainErr, released, pc, err>>
        BY <1>1 DEF bodyVars
    <2>2. cause # "nil"
        BY <2>1 DEF ReleaseInv
    <2>3. TrailerTooLarge' = TrailerTooLarge /\ Told' = Told
        BY <2>1 DEF TrailerTooLarge, Limit, Told
    <2> QED
        BY <1>1, <2>1, <2>2, <2>3 DEF ReleaseInv
\* The call goes on after the failed Read.
<1>2. ASSUME UNCHANGED <<kind, bodyVars, cause>>,
             pc' \in {"classify", "ctxErr", "close", "done"},
             pc' = "ctxErr" => cause # "drain",
             pc' \in {"close", "done"} => Told'
      PROVE  ReleaseInv'
    <2>1. UNCHANGED <<kind, got, read, drainErr, released, cause>>
        BY <1>2 DEF bodyVars
    <2>2. TrailerTooLarge' = TrailerTooLarge
        BY <2>1 DEF TrailerTooLarge, Limit
    <2>3. cause' = released' /\ released' \in Causes /\ drainErr' = "read" /\ ~TrailerTooLarge'
        BY <2>1, <2>2 DEF ReleaseInv
    <2> QED
        BY <1>2, <2>1, <2>3 DEF ReleaseInv
\* Before the drain no Read of it has failed.
<1>3. ASSUME UNCHANGED released,
             pc \in {"new", "call", "do", "ping", "decode", "strict", "drain"}
      PROVE  FALSE
    BY <1>3 DEF ReleaseInv
<1>4. CASE NewClient \/ newRequest \/ DoFails \/ Redirected \/ Answered \/ PingReturns
    BY <1>3, <1>4 DEF NewClient, newRequest, DoFails, Redirected, Answered, PingReturns, bodyVars
<1>5. CASE ReadBody \/ DecodeEnds \/ DecodeFails \/ StrictEnds \/ StrictFails
    BY <1>3, <1>5 DEF ReadBody, DecodeEnds, DecodeFails, StrictEnds, StrictFails, bodyVars
<1>6. CASE DrainRead \/ DrainEnds
    BY <1>3, <1>6 DEF DrainRead, DrainEnds, bodyVars
<1>7. CASE DrainFails
    <2>1. /\ released' = cause /\ cause' = cause /\ drainErr' = "read" /\ pc' = "stop"
          /\ UNCHANGED <<kind, got, read>> /\ read < DrainMax + 1 /\ got < Limit
        BY <1>7 DEF DrainFails, requestVars
    <2>2. read \in Nat /\ got \in Nat /\ DrainMax \in Nat /\ Limit \in Nat
        BY LimitType, LimitsAssumption DEF BodyInv
    <2>3. ~(read > DrainMax \/ got = Limit)
        BY <2>1, <2>2
    <2>4. ~TrailerTooLarge'
        BY <2>1, <2>3 DEF TrailerTooLarge, Limit
    <2>5. cause \in Causes
        BY DEF ErrorInv
    <2> QED
        BY <2>1, <2>4, <2>5 DEF ReleaseInv
<1>8. CASE StopDeadline
    BY <1>2, <1>8 DEF StopDeadline, requestVars
<1>9. CASE Classify
    <2>1. UNCHANGED <<kind, bodyVars, cause>> /\ UNCHANGED released
        BY <1>9 DEF Classify, requestVars, bodyVars
    <2>2. released = cause /\ drainErr = "read" /\ ~TrailerTooLarge
        BY <2>1 DEF ReleaseInv
    <2>3. CASE pc' = "ctxErr" /\ cause # "drain"
        BY <1>2, <2>1, <2>3
    <2>4. CASE /\ pc' = "close" /\ cause = "drain"
               /\ err' = TransportError(SentinelError("ErrResponseDrainTimeout"), idempotent)
        <3>1. /\ err' \in Errors /\ "ErrResponseDrainTimeout" \in err'.is
              /\ err'.is \subseteq {"ErrResponseDrainTimeout", "ErrTransport", "ErrRetryable"}
            BY <2>4, ContextErrorIs
        <3>2. Told'
            BY <2>1, <2>2, <2>4, <3>1 DEF Told, Is
        <3> QED
            BY <1>2, <2>1, <2>4, <3>2
    <2> QED
        BY <1>9, <2>2, <2>3, <2>4, ClassifyIs
<1>10. CASE ClassifyEnded
    <2>1. UNCHANGED <<kind, bodyVars, cause>> /\ UNCHANGED released /\ pc = "ctxErr"
        BY <1>10 DEF ClassifyEnded, requestVars, bodyVars
    <2>2. cause # "nil" /\ released # "drain"
        BY <2>1 DEF ReleaseInv
    <2>3. pc' = "close" /\ err' = TransportError(SentinelError("ContextError"), idempotent)
        BY <1>10, <2>2 DEF ClassifyEnded, Fail, CloseWith
    <2>4. err' \in Errors /\ "ContextError" \in err'.is
        BY <2>3, ContextErrorIs
    <2>5. Told'
        BY <2>1, <2>2, <2>4 DEF Told, Is
    <2> QED
        BY <1>2, <2>1, <2>3, <2>5
<1>11. CASE CloseBody
    <2>1. UNCHANGED <<kind, bodyVars, cause>> /\ UNCHANGED released /\ pc = "close" /\ pc' = "done"
        BY <1>11 DEF CloseBody, requestVars, bodyVars, Return
    <2>2. Told /\ err # Nil
        BY <2>1, NilAssumption DEF ReleaseInv, Told
    <2>3. /\ err' \in Errors /\ err'.is \subseteq err.is \cup {"ErrTransport", "ErrRetryable"}
          /\ err.is \subseteq err'.is
        <3>1. CASE err' = err
            BY <2>2, <3>1 DEF Told
        <3>2. CASE err' = TransportError(Join(err, OtherError), idempotent)
            <4>1. Join(err, OtherError) \in Errors /\ Join(err, OtherError).is = err.is
                BY <2>2, JoinIs DEF Told
            <4> QED
                BY <1>0, <3>2, <4>1, TransportErrorIs
        <3> QED
            BY <1>11, <2>2, <3>1, <3>2 DEF CloseBody, Return
    <2>4. Told'
        BY <2>1, <2>2, <2>3 DEF Told, Is
    <2> QED
        BY <1>2, <2>1, <2>4
<1>12. CASE Cancel \/ TimeoutEnds \/ DeadlineFires
    BY <1>1, <1>12 DEF Cancel, TimeoutEnds, DeadlineFires, requestVars, EndContext
<1>13. CASE \E c \in Closers : Close(c)
    BY <1>1, <1>13 DEF Close, CloseBegins, CloseEnds, requestVars
<1>14. CASE Finished \/ UNCHANGED vars
    BY <1>1, <1>14 DEF Finished, vars, requestVars
<1> QED
    BY <1>4, <1>5, <1>6, <1>7, <1>8, <1>9, <1>10, <1>11, <1>12, <1>13, <1>14 DEF Next, Call

-----------------------------------------------------------------------------
\* The inductive invariant holds: a client is made, one call is in progress,
\* and Close may be called at any time.
THEOREM Invariance == Spec => []IInv
<1>1. Init => IInv
    <2> SUFFICES ASSUME Init PROVE IInv
        OBVIOUS
    <2>1. CloseInv
        <3>1. open = closer /\ closer \in BOOLEAN /\ ~closer
            BY DEF Init
        <3>2. \A c \in Closers : closing[c] = "idle"
            BY DEF Init
        <3>3. closing \in [Closers -> {"idle", "closing", "nil", "error"}]
            BY DEF Init
        <3>4. owner = "none" /\ closes = 0
            BY DEF Init
        <3> QED
            BY <3>1, <3>2, <3>3, <3>4 DEF CloseInv
    <2>2. WireInv
        BY DEF Init, WireInv, SignedStaysHome
    <2>3. BodyInv
        BY DEF Init, BodyInv, Reading
    <2>4. ErrorInv
        BY DEF Init, ErrorInv, Causes
    <2>5. ReleaseInv
        BY DEF Init, ReleaseInv
    <2> QED
        BY <2>1, <2>2, <2>3, <2>4, <2>5 DEF IInv
<1>2. IInv /\ [Next]_vars => IInv'
    <2> SUFFICES ASSUME CloseInv, WireInv, BodyInv, ErrorInv, ReleaseInv, [Next]_vars PROVE IInv'
        BY DEF IInv
    <2>1. CloseInv'
        BY CloseStep
    <2>2. WireInv'
        BY WireStep
    <2>3. BodyInv'
        BY BodyStep
    <2>4. ErrorInv'
        BY ErrorStep
    <2>5. ReleaseInv'
        BY ReleaseStep
    <2> QED
        BY <2>1, <2>2, <2>3, <2>4, <2>5 DEF IInv
<1> QED
    BY <1>1, <1>2, PTL DEF Spec

(***************************************************************************)
(* A value is returned only for a body that was read to its own end and    *)
(* that keeps to both limits, for any limits and however the reads of the  *)
(* decoder and of the drain are cut (decodeJSONBody,                       *)
(* classifyTrailerDrain, postStrictJSON).                                  *)
(***************************************************************************)
THEOREM SuccessIsCompleteHolds == Spec => []SuccessIsComplete
<1>1. IInv => SuccessIsComplete
    BY DEF IInv, BodyInv, SuccessIsComplete, Returned, Whole
<1> QED
    BY <1>1, Invariance, PTL

(***************************************************************************)
(* A Read of the drain that fails after the request context has ended is   *)
(* reported by what ended it, in every order of a late deadline, a         *)
(* cancellation and a timeout, also between the two looks at the context   *)
(* (armSuccessBodyDrainDeadline, classifyTrailerDrain).                    *)
(***************************************************************************)
THEOREM CauseIsTruthfulHolds == Spec => []CauseIsTruthful
<1>1. IInv => CauseIsTruthful
    <2> SUFFICES ASSUME ErrorInv, ReleaseInv, pc = "done" PROVE CauseIsTruthful
        BY DEF IInv, CauseIsTruthful, Returned
    <2>1. released # "nil" => Told /\ err # Nil
        BY NilAssumption DEF ReleaseInv, Told
    <2>2. /\ released = "drain" => Reports("ErrResponseDrainTimeout") /\ ~Reports("ContextError")
          /\ released \in {"caller", "deadline"} => Reports("ContextError")
        BY <2>1 DEF Told, Reports
    <2>3. /\ Reports("ErrResponseDrainTimeout") => cause = "drain"
          /\ Reports("ContextError") => cause # "nil"
        BY DEF ErrorInv, Truthful, Reports
    <2> QED
        BY <2>2, <2>3 DEF CauseIsTruthful
<1> QED
    BY <1>1, Invariance, PTL

(***************************************************************************)
(* After Iris has accepted a reply, no error of the exchange is a definite *)
(* one (decodeJSONBody, wrapTransportError).                               *)
(***************************************************************************)
THEOREM AcceptedStaysUnknownHolds == Spec => []AcceptedStaysUnknown
<1>1. IInv => AcceptedStaysUnknown
    BY DEF IInv, ErrorInv, Truthful, AcceptedStaysUnknown
<1> QED
    BY <1>1, Invariance, PTL

(***************************************************************************)
(* Only a ping may leave for another host or over the http1 transport of   *)
(* the SDK, for any limit of redirects (selectTransport, newRequest,       *)
(* cloneHTTPClientWithRedirectPolicy).                                     *)
(***************************************************************************)
THEOREM SignedStaysHomeHolds == Spec => []SignedStaysHome
<1>1. IInv => SignedStaysHome
    BY DEF IInv, WireInv
<1> QED
    BY <1>1, Invariance, PTL

(***************************************************************************)
(* Close is final, for any number of goroutines that call it               *)
(* (SDKClient.Close).                                                      *)
(***************************************************************************)
THEOREM CloseIsFinalHolds == Spec => []CloseIsFinal
<1>1. IInv => CloseIsFinal
    BY DEF IInv, CloseInv, CloseIsFinal
<1> QED
    BY <1>1, Invariance, PTL
=============================================================================
