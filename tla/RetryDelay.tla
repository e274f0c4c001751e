----------------------------- MODULE RetryDelay ------------------------------
(***************************************************************************)
(* How long retryPost waits between two attempts: the backoff, its jitter, *)
(* and the Retry-After header of the answer                                *)
(* (internal/client/transport/retry_after.go). Which failures are retried  *)
(* and the state of the loop are in ReplyRetry.                            *)
(*                                                                         *)
(* Durations are signed integers that wrap around at MaxDuration, as       *)
(* time.Duration does; the constants scale the durations of the code down. *)
(***************************************************************************)
EXTENDS Integers

CONSTANTS Second,        \* time.Second
          FirstBackoff,  \* 50 ms
          MaxReplyRetryAfterDelay,
          MaxDuration,   \* maxRetryAfterDuration, 2^63 - 1 ns
          MaxInt64       \* the largest number of seconds ParseInt accepts

ASSUME DurationsAssumption ==
    /\ {Second, MaxReplyRetryAfterDelay, MaxDuration, MaxInt64} \subseteq Nat
    /\ FirstBackoff \in 1..(Second - 1)
    /\ Second \in 1..MaxReplyRetryAfterDelay
    /\ MaxReplyRetryAfterDelay \in 1..MaxDuration
    /\ 2 * Second <= MaxDuration
    /\ MaxInt64 * Second > MaxDuration

\* What the header may hold: seconds (those above MaxInt64 stand for all the
\* digits ParseInt refuses), a date at an offset from now, or neither. The
\* values lie on both sides of every limit of the code.
NoHeader == [kind |-> "none", n |-> 0]

Headers ==
    [kind : {"seconds"},
     n : UNION {{x - 1, x, x + 1} :
            x \in {0, MaxReplyRetryAfterDelay \div Second, MaxDuration \div Second, MaxInt64}}]
        \cup [kind : {"date"}, n : {-1, 0, 1, MaxReplyRetryAfterDelay + 1, MaxDuration}]
        \cup {NoHeader}

\* time.Duration arithmetic.
Wrap(x) == ((x + MaxDuration + 1) % (2 * (MaxDuration + 1))) - MaxDuration - 1

AtLeast(x, y) == IF x >= y THEN x ELSE y

AtMost(x, y) == IF x <= y THEN x ELSE y

\* Faulty variant: the conversion to a duration is not guarded.
ParseUnguarded(h) ==
    IF h.kind = "none" \/ h.n <= 0 \/ (h.kind = "seconds" /\ h.n > MaxInt64) THEN 0
    ELSE IF h.kind = "seconds" THEN Wrap(h.n * Second)
    ELSE h.n

\* parseRetryAfterHeader
ParseRetryAfterHeader(h) ==
    IF h.kind = "none" \/ h.n <= 0 THEN 0
    ELSE IF h.kind = "date" THEN h.n
    ELSE IF h.n > MaxInt64 \/ h.n > MaxDuration \div Second THEN MaxDuration
    ELSE Wrap(h.n * Second)

\* halfJitter: the delays it may choose.
HalfJitter(base) ==
    IF base <= 0 THEN {base}
    ELSE (base \div 2)..(base - 1)

\* clampDuration
ClampDuration(value, minValue, maxValue) == AtMost(AtLeast(value, minValue), maxValue)

\* retryDelayAndRetryAfter
RetryDelays(h, fallback) ==
    LET retryAfter == ParseRetryAfterHeader(h)
    IN  IF retryAfter > 0
        THEN {ClampDuration(retryAfter, fallback, MaxReplyRetryAfterDelay)}
        ELSE HalfJitter(fallback)

\* The wait that a header asks for, in exact arithmetic.
Asked(h) == IF h.kind = "seconds" THEN h.n * Second ELSE h.n
=============================================================================
