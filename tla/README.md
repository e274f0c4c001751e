# A TLA+ model of the Iris client SDK

This directory models the concurrent and failure-prone parts of
`iris-client-go`: the signed HTTP client that bots use to send replies to Iris,
and the durable webhook handler through which Iris delivers messages to bots.
TLC checks every component on small instances. TLAPS proves the safety
properties of all of them but one for every value of the constants, and that the
epoch cache and the retry loop implement the abstract `CallOutcome`.

## The system

| Part | Source | Model |
|---|---|---|
| Epoch cache: single-flight discovery of the server's boot epoch | `internal/client/transport/auth_epoch.go` | `AuthEpoch`, `AuthEpochProofs` |
| Send loop: sign, send, re-sign once after an epoch mismatch | `internal/client/transport/execute.go` | `AuthEpoch`, `ReplyRetry` |
| Reply retry: options, attempts, waits, unknown outcomes | `internal/client/transport/retry.go`, `client.go`, `options.go` | `ReplyRetry`, `ReplyRetryProofs` |
| Retry delays and `Retry-After` | `internal/client/transport/retry_after.go` | `RetryDelay` (part of `ReplyRetry`) |
| Error classes: `ErrNotSent`, `ErrTransport`, `ErrRetryable`, ... | `internal/client/transport/errors.go` | `IrisErrors` |
| What a call promises its caller | (abstract) | `CallOutcome` |
| Construction of a client, redirects, response bodies, `Close` | `internal/client/transport/` `sdk.go`, `client.go`, `transport.go`, `execute.go`, `strict_json.go`, `ping.go` | `ClientExchange`, `ClientExchangeProofs` |
| Media chunks | `internal/client/transport/media.go`, `internal/client/common/media_types.go` | `MediaDownload`, `TransferProofs` |
| Canonical target: what a signature covers | `internal/irishmac/canonical.go`, `internal/client/transport/path.go` | `CanonicalTarget` |
| Reissue ladder and replay horizon | `iris/reply_reissue.go`, `iris/reply_admission.go` | `ReplyReissue`, `ReplyReissueProofs` |
| File replies: two hash passes, fresh bodies per attempt | `internal/client/multipart/file.go`, `internal/client/transport/file.go` | `FileReply`, `TransferProofs` |
| H3 egress guard: DNS allowset with a shared refresh | `internal/client/transport/h3_dial_guard.go`, `http3_transport.go`, `background.go` | `H3DialGuard`, `H3DialGuardProofs` |
| Webhook handler: checks, nonce store, admission, shutdown | `webhook/handler.go`, `handler_validation.go` | `WebhookHandler`, `WebhookHandlerProofs` |
| Webhook signatures: signer, verifier, clock and nonce lifetime | `webhooksign/sign.go`, `webhook/handler_validation.go`, `internal/irishmac/hmac.go`, `valkeydedup/` | `WebhookAuth`, `WebhookAuthProofs` |

A protected call looks up the epoch, signs, and sends. Iris rejects a signature
made for an earlier boot with `401 AUTH_EPOCH_MISMATCH`, and the call re-signs
at most once. `/reply` calls run this loop inside a retry loop. A caller that
gets `409 CLIENT_REQUEST_ID_FAILED` may start a new logical call under the next
generation of its id. In the other direction Iris signs and sends webhooks to
the handler, and retries them until it gets a final status.

The modules divide this between them; where one stops, the next one begins.
`AuthEpoch` has many calls that share the cache and one `do` each. `ReplyRetry`
has one logical call with many attempts, and replaces the cache by its possible
results. Both implement `CallOutcome` through a refinement mapping (property
`OutcomeIsTruthful` in each). `ClientExchange` opens up the step in which
`ReplyRetry` receives an answer: `AcceptedStaysUnknown` is what
`ReplyRetry!ReceiveAccepted` takes for granted. `MediaDownload` relies on
`postStrictJSON` of `ClientExchange`. `ReplyReissue` has many logical calls, and
replaces each by its possible outcomes. `WebhookAuth` is the authentication that
`WebhookHandler` has as one step per request, and takes the canonical target,
the subject of `CanonicalTarget`, as a name in one of two spellings.

## The modules

**AuthEpoch.** `value` and `loading` are the fields of `authEpochCache`;
channels are numbered (`made`, `closed`). Each call has a program counter, the
epoch it `used`, and the request on its `wire`. `Lookup*` and `Wait*` are the
branches of `authEpoch`; `Fetch*` is `fetchAuthEpoch` and what the leader does
with its result; `Send`, `Receive*` and `DoFails` are `do`; `ReceiveMismatch` is
`refreshAuthEpoch`. Iris (`Serve`, `Restart`) is external. A signer is assumed:
without one no epoch state is touched. Boots never repeat.

**IrisErrors.** Errors are records of what callers can tell apart: the sentinels
in the chain, status, code, and whether retrying is stopped. The operators are
`HTTPError.Is`, `TransportError.Is` and the retry predicates. Text and redaction
are left out.

**ReplyRetry, RetryDelay.** A reply (`PrepareReply`: text, Markdown, rich text,
one image, several) or a query (`PrepareQuery`) is checked and then sent by
`retryPost`, with the loop of `do` in each attempt. An option is one of the cases
its validation tells apart; an id is its length and whether it is ASCII. The
timer between two attempts (`SetTimer`) is `retryDelayAndRetryAfter`, in integers
that wrap around as `time.Duration` does. Iris keeps a record per
`clientRequestId`; requests may be lost or served after the client gave up. It is
assumed of Iris that a 4xx or 429 never follows an admission by the same request,
while a 5xx may, and that a record is set once. The id has not been delivered by
an earlier logical call. Retransmission inside the HTTP transport is not
modelled.

**ClientExchange.** One client and one call: `NewClient` under every choice of
options, then a ping, an epoch discovery, a GET, a POST or a strict POST. A
redirect is an answer that `CheckRedirect` decides on. A body is a value, white
space, perhaps another byte, and an end that comes or does not; `got` counts the
bytes read and `read` those the drain has looked at, so that what the decoder
reads ahead is accounted for. `cause` is `context.Cause` of the request: the
first of the caller, the timeout and the drain deadline. `classifyTrailerDrain`
looks at the context twice, at its cause (`Classify`) and then at its error
(`ClassifyEnded`), and the context may end before, between and after these looks;
`released`, a history variable, is the cause at the moment the drain's Read
failed. `DeadlineFires` has two steps, because a timer's function may run after
`stop` has returned. `Close` is called by several goroutines under `closeMu`.

**MediaDownload.** `FetchMediaChunk` with its checks, in a caller that downloads
a file in chunks of equal length. The broker is external, truthful about the file it
has, and may replace it.

**CanonicalTarget.** The algorithms of `canonical.go` and the query strings of
`path.go` over bytes. The environment writes targets character by character in
any spelling, with broken and cut-off escapes too, and notes the decoded pairs on
the side; these are the reference.

**WebhookAuth.** `SignRequest` on one side, `acceptTransport` on the other, a
network that repeats, respells or damages any part of it (the nonce header too),
a clock, and the Valkey store. A text is a name with a spelling; HMAC and SHA-256
are injective.

**ReplyReissue.** `ReissuedClientRequestID` and
`IsPreHandoffClientRequestIDConflict` are the SDK's part. The caller is external
and follows `README.md:130-134` of the repository. It may crash and start over,
from the original id or from the one in use. An id is the sequence of its
suffixes. Requests travel for at most the margin; Iris forgets an id after the
retention.

**FileReply.** The caller's `ReaderAt` is external and may be short, long or
changing. `CopyChunk` is one turn of `copyReaderAtContext`, used by
`DigestReaderAt` and `NewFileBodyFactory`. Bodies are read by the transport in
its own time, so bodies of two attempts may be read side by side. A hash is
injective. The envelope around the file part is fixed per factory and left out.

**H3DialGuard.** `allow`, `beginRefresh` and `refresh` under concurrent
`guardedH3DialContext` calls. Time is left out but for the moments at which the
allowset expires; a literal host never expires. The variable `seen` is a history
variable: the dials that have met a fresh allowset without their address. Fresh
means within its lifetime: a lookup that fails keeps the old allowset and lets it
live once more.

**WebhookHandler.** One program counter per `ServeHTTP` call, the nonce store and the
inbox (external), the admission counter and `CloseContext`. A malformed message
carries a `flaw`, which stands for the header and field checks (a timestamp
outside the window among them: when that happens is `WebhookAuth`'s). The admitter
commits nothing after it has returned. The sender signs each
attempt afresh (`handler.go:22-27`). Metrics and logs are left out.

Definitions marked "Faulty variant" are not part of a specification. Each one is
a plausible bug, kept to confirm that a property would catch it.

## What TLC checks

| Run | Bounds | What it shows |
|---|---|---|
| `auth_epoch` | 2 calls, 3 restarts | one leader at a time; waiters are woken; each boot is discovered once; a late rejection leaves a current epoch alone; a replay uses a newer epoch; refinement of `CallOutcome`; every call returns |
| `reply_retry` | 4 attempts, 8-bit durations | what the error class says about delivery is true; a given id is never dropped; waits are long enough and end; requests stay bounded; refinement of `CallOutcome`; the loop ends |
| `client_exchange` | bodies up to 4 + 2 + 1 bytes, 3 redirects, 2 closers | a result stands for a whole answer; errors name their cause; an accepted reply never ends in a definite error; signed requests stay with the base host; `Close` is final; the call ends |
| `media_download` | files up to 4 bytes of 2, chunks up to 2, 3 slots, 1 replacement | accepted chunks of one digest make up that file |
| `canonical_target` | up to 4 characters after `?` | the canonical target says what the query says; repeated keys are found; spelling and order do not matter |
| `webhook_auth` | 1 signature, skew up to 2, window 1, 5 ticks, 2 deliveries | accepted means signed; signed is accepted; at most one copy is accepted inside the window |
| `reply_reissue` | 2 generations, 5 calls, 4 ticks | at most one handoff over the ladder; a failed ladder is silent |
| `file_reply` | files up to 3 bytes, buffer of 2, 2 bodies, 1 change | an unchanged source verifies in every attempt; announced lengths hold; preparation ends |
| `file_reply_changed` | 1 body, 1 change | **violation**, see below |
| `h3_dial_guard` | 2 dials, 2 addresses, 2 expiries, 2 changes | one refresh at a time; no denial on an expired or emptied allowset; every dial is decided |
| `webhook_delivery` | 1 message, 3 requests, 1 closer | 200 means durable; only flawed messages are dropped |
| `webhook_close` | 2 requests, 2 closers | shutdown respects the grace and is final; closing ends; every request is answered |

Why the bounds are enough to be interesting: two calls give a leader and a
follower, and four boots allow a rejection to be overtaken twice (for more calls
the safety properties are proved). Four attempts cover an unknown outcome
followed by a refusal, a replay and a last failure. The product of seconds and
`Second` overflows. A value in a body may exceed its limit by one, and white
space the drain's limit by one. A file of three bytes and a buffer or chunk of
two needs a full and a cut-off piece. Four characters give two pairs with values
left out, empty, or equal, and three pairs of one character. The clock of
`webhook_auth` runs past the life of a nonce signed ahead of time, so that the
store does forget it. The ladder's clock runs past the retention. Symmetry is
used only in runs that check invariants alone. `canonical_target` is the only
run without a deadlock check: writing ends at the bound.

**Fairness.** Weak fairness is assumed of the steps of goroutines, of timers, and of the
end of an HTTP exchange, a DNS lookup, a nonce check and an admission. The code
gives each of these a timeout (`requestContext`, `resolveTimeout`,
`nonceTimeout`, `admitTimeout`), and a store, an admitter and a transport are
assumed to honour their context. Two ends are not the code's doing. Under a
caller's `http.Client` without a timeout `requestContext` adds none: that the
exchanges in `AuthEpoch` and `ReplyRetry` end is then an assumption on the
caller's context. And the body of a webhook ends at the latest with the read
timeout of the server that runs the handler. `ClientExchange` is finer: there a blocked
read ends only once the request context has ended or the connection was closed,
which the comment on `armSuccessBodyDrainDeadline` requires of every transport,
and a server that goes silent is never assumed to go on. No fairness is assumed
of Iris, of contexts ending early, or of anybody closing the client or the
handler. For `FileReply` only the goroutine of `SendFile` must run.

### Finding

`file_reply_changed` checks the comment at `internal/client/multipart/file.go:117`: data
that is short or has changed fails before the network request. A short source
does. A source of the same length that changes between the digest and the hash
of the body does not: the two are never compared, and the request is sent with a
manifest that announces another digest. The comment on `ReplyFile`
(`internal/client/transport/file.go:34`) asks callers to keep the content, so
this is a divergence between a comment and the code.

### Limits the properties state

`AcceptedOnceInWindow` says exactly what `nonceReplayTTL` gives: copies whose
nonce is looked up while the timestamp is inside the window. The timestamp is
compared when the headers are read and the nonce looked up when the body has
been read, and only the read timeout of the server that runs the handler bounds
the time between them. `CauseIsTruthful` leaves one case open: when the drain's
Read failed by itself while the context was alive, and the context ended just
after, the call reports the end of the context it finds. Even the drain deadline
may then show up as a context error, if it ends the context between the two looks.
`DeniedByFreshAnswer` takes an allowset that outlived a failed lookup as fresh, as
the guard does. `DeliveredIsCommitted` says nothing of a commit that is reported
as an error: the message is sent again, and the admitter has to know it.
`ExchangeEnds` says nothing of a call under a caller's client
without a timeout before the value is decoded: nothing in the code bounds it.

## What is proved

Each component has an inductive invariant `IInv` (`PInv` on top of it in
`ReplyRetryProofs`, `MediaInv` for `MediaDownload`), which TLC has checked on the instance of the component's
run. The constants are assumed only as the component's module does.

`AuthEpochProofs`, for any set `Calls` and any `MaxBoot`:

| Theorem | States |
|---|---|
| `TypeCorrect` | type correctness |
| `SingleFlightHolds` | discoveries do not overlap |
| `NoLostWakeupHolds` | waiters wait on a channel that is closed or will be closed by the leader |
| `OneDiscoveryPerBootHolds` | no two calls discover the same boot |
| `CurrentEpochKeptHolds` | a current epoch stays cached until a restart |
| `ReplayIsNewerHolds` | a replay carries a strictly newer epoch |
| `OutcomeHolds` | `AuthEpoch` implements `CallOutcome` |

The inductive invariant `IInv` has six parts. `SingleFlight` and `NoLostWakeup`
need that the leader's channel was made earlier, so that a new channel is never
in use (`ChanInv`). That no boot is discovered twice needs the order of epochs:
none is ahead of Iris, the cache is never behind a call, and with an empty cache
every epoch in use is old (`EpochInv`). A replay is newer because a rejected call
finds the cache empty or ahead of it (`RejectedInv`). The refinement needs what
the wire says about the effect (`ExchangeInv`).

`ReplyRetryProofs`, for any `ReplyRetryMax` and any durations that satisfy
`DurationsAssumption`:

| Theorem | States |
|---|---|
| `RequestsBoundedHolds` | `WithReplyRetry(n)` sends at most n requests, and one for the re-signature |
| `WaitIsInBoundsHolds` | a wait is never shorter than `Retry-After` up to the limit, nor than half the backoff, and never longer than the limit |
| `DefiniteErrorMeansUndeliveredHolds` | after a definite error the reply was not and will not be handed over |
| `RetryableIsSafeHolds` | an error without an answer is retryable only with an id, or if nothing was handed over |
| `IdIsKeptHolds` | a caller's id is never dropped |
| `OutcomeHolds` | `ReplyRetry` implements `CallOutcome` |

`CountInv` counts requests by attempts: the attempt under way has sent its
request or not, and the re-signature adds one once it is spent. `WaitInv` adds
the range of the backoff, from which `DelayIsInBounds` shows that no
arithmetic wraps around. `OutcomeInv` is the heart: as long as no unknown
outcome is remembered, every request but the current one has been answered
without effect (`Silent`), and an answer or an error names only what the record
of Iris says. `UnknownIsKept` and `FailureIsTruthful` are the lemmas on
`keepUnknownOutcome`, `retryWaitError` and `AttemptFails` it rests on. For the
refinement, `RecordInv` says why Iris hands a reply over at most once: with a
record because of it, and without one because the loop stops at an unknown
outcome. `ReturnInv` says what each class of result means for the requests that
are still under way. A step of the loop then is a report or a stutter, and a
step of Iris an `Apply` or a stutter.

`H3DialGuardProofs`, for any `Dials`, `IPs` and bounds:

| Theorem | States |
|---|---|
| `SingleRefreshHolds` | one refresh at a time, which owns the channel in the guard |
| `DeniedByFreshAnswerHolds` | a dial with a live context is denied only by an allowset that was fresh since it asked |

`ChanInv` adds to `SingleRefresh` that channels are numbered as they are made
and that a closed one is no longer in the guard. `DenyInv` says that a dial that
needs no refresh any more, or whose refresh has ended, has met every fresh
allowset that lacked its address.

`WebhookHandlerProofs`, for any `Messages`, `Requests`, `Closers` and `FlawsMet`
that satisfy the two assumptions of `WebhookHandler`:

| Theorem | States |
|---|---|
| `DeliveredIsCommittedHolds` | a message the sender takes as delivered is in the inbox |
| `DeadOnlyIfFlawedHolds` | the sender gives up only on a flawed message, or one whose request arrived twice |
| `GraceRespectedHolds` | an admission that runs is cancelled by the handler only after a grace context has ended |
| `QuietAfterCloseHolds` | after `closeDone` no admission runs or starts and the inbox is fixed |

`CloseInv` says that the WaitGroup counter is the number of requests between
`admissions.Add` and `admissions.Done`; as none enters once `closed` is set, none
is left when the counter is zero after that. The set is finite because each step
adds at most one, so `Requests` may be infinite. `NonceInv` says that a nonce is
recorded before its own request reaches the store only through a copy of the
request; `AnswerInv` gives every status the handler has decided its reason, from
which the sender's conclusion follows.

`ClientExchangeProofs`, for any `TypedMax`, `DrainMax`, `StrictMax`, any limit of
redirects and any `Closers`:

| Theorem | States |
|---|---|
| `SuccessIsCompleteHolds` | a success stands for one whole value that keeps to the limits |
| `CauseIsTruthfulHolds` | a drain that the deadline, the caller or the timeout ended says so, and neither a drain timeout nor a context error is made up |
| `AcceptedStaysUnknownHolds` | an accepted reply never ends in a definite error |
| `SignedStaysHomeHolds` | only a ping leaves for another host or over the plain transport |
| `CloseIsFinalHolds` | the transport is closed at most once, and whenever a `Close` has returned |

`BodyInv` ties the bytes looked at to the bytes read, however the reads are cut:
a drain without an error met a limit or the end, and before an unexpected byte it
has seen white space only. From this the verdict of `classifyTrailerDrain` follows
by arithmetic. `ErrorInv` says of every error what `Truthful` requires of the
context's cause and of an accepted reply. `ReleaseInv` follows the cause that
ended the drain through both looks at the context: a cause never changes once it
is set, so the first look finds a drain deadline that came first, and the second
finds any other end. `CloseInv` says that the one goroutine
that closes holds `closeMu`, and only while there is something to close.

`ReplyReissueProofs`, for any number of generations, any retention, any margin
within it, and any number of calls and crashes:

| Theorem | States |
|---|---|
| `HandedOffAtMostOnceHolds` | the ladder hands the reply off at most once |
| `FailedLadderIsSilentHolds` | a ladder that ends with a failure before the handoff has no effect |

`NetInv` says that no request outlives the retention, which is what the margin of
the replay horizon is for: as long as a request is under way, no record it could
meet is forgotten. `LadderInv` says that until then a generation is in use only when
all generations before it are recorded as failed. `CallerInv` places the caller
on the ladder across crashes, for both kinds of caller: one that starts over from
the original id, and one that keeps the id in use and never goes back.

`WebhookAuthProofs`, for any window, skew, number of signatures and set of
deliveries; the requests to sign (`Drafts`) and what happens to them on the way
(`Changes`) are those of `WebhookAuth`:

| Theorem | States |
|---|---|
| `AcceptedMeansSignedHolds` | what is accepted was signed, and was inside the window when it arrived |
| `SignedIsAcceptedHolds` | what was signed is turned away for good only for its age or its nonce |
| `AcceptedOnceInWindowHolds` | at most one copy is accepted with its nonce looked up inside the window |

`SignedInv` says that whatever leaves the signer passes the handler's checks, as
both ends compute the same text (`SignedIsProper`, `HarmlessIsVerified`).
`NonceInv` says that an accepted delivery keeps its nonce in the store for twice
the window. A second lookup that finds it gone comes after the timestamp's window
(`SecondIsLate`), which is the argument for `nonceReplayTTL`.

`TransferProofs` on `FileReply`, for any `Bytes`, lengths, buffer sizes, bodies and changes:

| Theorem | States |
|---|---|
| `StableSourceVerifiesHolds` | every body of an unchanged source carries the bytes of both digests |
| `AnnouncedLengthHoldsAlways` | bodies and digests keep to the announced length, however the source changes |

While the source is unchanged, both passes and every body hold a start of it
(`DigestInv`, `BodiesInv`); a read after a start gives a longer start (`ReadIs`).
A body ends before the announced length only if the source is shorter, and then
the digest would have failed.

`TransferProofs` on `MediaDownload`, for any bytes, limits, chunk lengths, number
of chunks and replacements of the broker's file:

| Theorem | States |
|---|---|
| `AssembledIsWholeHolds` | accepted chunks of one digest make up the file of that digest, and none lies behind its end |

`MediaInv` says of each accepted chunk that it is the piece of the file it names
at the slot's offset, short only at the end of that file (`ChunkOK`). It is kept
when the broker replaces its file, because a chunk is judged by the file it
names. `PiecesMakeWhole` puts the pieces together: pieces of one length and a
last one up to the end make up the whole, by induction on their number.

Only model-checked:

- The liveness properties `EveryCallReturns`, `CallReturns`, `EverybodyReturns`,
  `DialDecided`, `PreparationEnds` and `ExchangeEnds`: fairness and `ENABLED` are
  outside the prover's reach.
- `CanonicalTarget`: its properties say what the parser, the encoder and the sort
  compute for every text. The evidence here is TLC's: every query of the run.
- `ChangedSourceNotSent`, which the code does not keep (see the finding).

## Not modelled

- HMAC, SHA-256, JSON, base64, QUIC and HTTP themselves: libraries.
- The limits and normalisation of webhook JSON fields (`validWebhookRequest`,
  `normalizeWebhookRequest`, `buildMessage`): checks of one value each, with one
  verdict, which `WebhookHandler` has as the flaw "json".
- Media types, digests and identities in media requests, path segments, and the
  syntax of base URLs: predicates on text, which the models have as valid or not.
- Image multipart writing: a pure function of bytes in memory.
- Room and query types, the facade in `iris/`, `ClassifyReplyStatus` and the
  webhook message types: data, tables and aliases.
- Metrics, logs, and the wording and redaction of errors.
- Many calls in one `ClientExchange`: calls share only the transport, and what
  `Close` does to each of them does not depend on the others.
