# A TLA+ development of go-http-signature

This directory specifies the parts of go-http-signature (HTTP message signatures,
digests and their `net/http` adapters) in which order, concurrency, time, limits and
partial failure decide correctness. TLC checks the modules on small instances; TLAPS proves the
central safety properties for every value of the constants. `PROJECT.json` links every
definition to the Go lines it models, and lists runs, mutants, hazards and theorems.

## 1. The system

| component | state it keeps | operations |
|---|---|---|
| Replay store (`replay.go`) | map of reservations, expiration heap, latest time seen, a one-token channel as mutex | `Consume` |
| Verifier (`verifier.go`) | an immutable profile; everything else is local to a call | `Verify`: selection, input policy, base, key resolution, key policy, cryptography, replay |
| Signer (`signer.go`) | an immutable profile | `Sign`, `CombineSignedFields` |
| Trailer request signing (`body_integration.go`) | `trailerSigningBody`: bytes hashed, terminal flag, first result, completion channel, `sync.Once` for Close | `Read`, `Close`, `RoundTrip` |
| Trailer response signing (`body_integration.go`) | `trailerResponseWriter`: status, committed header, bytes hashed, first failure | `WriteHeader`, `Write`, `FlushError`, `Hijack`, `EnableFullDuplex`, the middleware around them |
| Buffered digest and trailer adapters (`body_integration.go`) | a bounded body buffer per message | two round trippers, two middlewares |
| HTTP integration (`http_integration.go`) | a buffered response per request | `SigningRoundTripper`, `VerifyingRoundTripper`, request verification and response signing middlewares |
| Compatibility adapter (`compatibility/adapter.go`) | none of its own | a round tripper and a middleware around an external signer and verifier |
| Signature base (`message.go`, `message_limits.go`) | a byte budget per call | `CreateSignatureBase` and the component resolvers |
| Signature fields, structured fields, digests, algorithms | none | pure functions and calls into the Go library |

How they interact. Adapters call `Signer.Sign` and `Verifier.Verify`; `Verify` calls the
application's resolver and the replay store, each under a deadline of its own; the
adapters call application callbacks and wrap a transport or a handler they do not own.
Shared mutable state exists in two places: the replay store, which every verifying
goroutine uses, and a trailer-signing body, which the transport's goroutines and
`RoundTrip` use together.

What is hard, and what makes each part correct:

* Replay store. The clock is read before the lock is taken, a waiter may be canceled at
  the moment it gets the lock, one entry is evicted per call, and the heap finds an entry
  by an index stored in it. Correct: of all calls for one key and nonce at most one
  succeeds before the expiration; the lock is neither lost nor released twice; capacity is
  neither exceeded nor denied without need.
* Verifier. Two clock samples, a resolver and a store that may be slow, and a deadline
  looked at after the store has answered. Correct: accepted at most once, no nonce burned
  by an invalid signature, no reservation after the validity window.
* Signer. Times lose their fraction and clocks differ. Correct: what it signs, a verifier
  with the same policy accepts while it is fresh.
* Trailer request signing. A reader, a closer and `RoundTrip` race; an early response, a
  late failure and a stuck callback. Correct: a response is released only after the signed
  end of the body, what went out is what was hashed, nothing leaks, `RoundTrip` returns.
* Trailer response signing. The handler may do anything in any order, and a failure after
  the commit cannot take bytes back. Correct: what is signed is what is sent; what cannot
  be signed goes out without signing fields and is reported once.
* Signature base. A budget is shared by estimates and by values of several kinds, and the
  fields `net/http` writes itself are predicted from a struct. Correct: no base above the
  limit, and a covered field has on the wire the value that was signed.
* Buffered adapters and HTTP integration. Adapters nest in any order; each reads, replaces
  or closes a body it shares with the others, trailers exist only after EOF, and the two
  ends derive the same values from different data. Correct: what is accepted is what was
  committed and signed, every body has one owner, and an intact message is accepted.

## 2. Modules

| module | models | relation |
|---|---|---|
| `ReplayLedger` | what the `ReplayStore` interface promises | abstract specification |
| `MemoryReplayStore` | `MemoryReplayStore.Consume` and `replayMutex`, step by step | implements `ReplayLedger` (`ImplementsLedger`) |
| `ReplayExpiryHeap` | the entries map, the heap and the stored indexes | justifies "the oldest entry" in `MemoryReplayStore` |
| `Verifier` | concurrent `Verify` calls | extends `ReplayLedger`: the store is the ledger |
| `SignVerify` | `Signer.Sign` with the verifier, drifting clocks, an unordered network | extends `Verifier` |
| `TrailerSigningBody` | `TrailerSigningRoundTripper.RoundTrip` and `trailerSigningBody` | |
| `TrailerResponseWriter` | `NewTrailerResponseSigningMiddleware` and `trailerResponseWriter` | |
| `SignatureBase` | `CreateSignatureBase`, its resolvers and size accounting, `validProfileComponent` | |
| `ManagedFields` | the fields `net/http` writes itself: `message.go`'s derivations, and the wire | operators, used by both exchanges |
| `RequestTarget` | `requestParts`, the derived components, and the request line | operators, used by `RequestExchange` |
| `ResponseExchange` | `ResponseSigningMiddleware`, a network, `VerifyingRoundTripper` and `BufferedTrailerVerifyingRoundTripper` | composition; trailer signing by the promise `TrailerResponseWriter` establishes |
| `RequestExchange` | stacks of the client adapters and server middlewares, a network | composition; the body's reading and finalization by the promise `TrailerSigningBody` establishes |
| `*Proofs` | theorems about the store, its heap, signer and verifier, both trailer sides, the signature base and both exchanges | extend the module they prove about (`SignVerifyProofs` holds the verifier's proofs too) |
| `MC*` | constants, symmetry | one per checked module |

### State and actions against the code

`MemoryReplayStore`. `token` is the channel's token, `held` and `expiresAt` are the
entries, `latestNow` the state's field; `pc`, `rec`, `now` and `canceled` are a
goroutine's place in `Consume`, its record, its local `now` and its context; `granted` is
history. Each place where the code looks at the context, the clock, the lock or the
shared state is one action: `RefuseEarly`, `SampleClock`, `Recheck`, `TakeToken`,
`GiveUp`, `KeepLock`, `Clamp`, `Evict`, `Lookup`, `Renew`, `Insert`, `Unlock`. A clock
reading is any instant, because the clock is the caller's function. Keys and nonces are
one opaque identity; `Malformed` identities stand for empty or over-long ones.

`ReplayExpiryHeap`. The slots, the index of each entry and the expirations, with
`container/heap`'s `Push`, `Pop` and `Fix` written out, one iteration of `up` or `down` a
step: `Consume` clamps the time, `PopSink` and `PopCut` remove the root, `Refuse`, `Renew` and
`Insert` are the outcomes of the lookup, `FixSink`, `FixDone`, `Rise` and `UpDone` restore the
order. `call` is the one caller under the lock: `MemoryReplayStore` shows that it is alone.

`Verifier`. One program counter per call; `ValidateInput` and `ValidateKey` read the clock
at different moments, and ticks may pass between any two steps. Coverage, key identifier
and tag are flags of the input, cryptography is the flag `genuine`; key resolution returns
any key of a set, or fails, or comes too late. `Consume`, `Reserve` and `ReplayDeadline`
separate the moment the store's time advances, the reservation and the look at the
deadline. The failure categories of `VerificationError` are left out: no property here
tells them apart.

`SignVerify`. `Sign` compares its full clock reading with the key's window and writes whole
seconds (`Unix`); a tick is a fraction of a second. `drift` is fixed per behaviour.

`TrailerSigningBody`. The critical sections of `body.mu` are steps; underlying reads and
closes, both halves of the finalization, the `select` and the release are steps of their
own. Bytes are counted. The transport is the environment: it reads, closes and returns
when it likes.

`TrailerResponseWriter`. The header map is a record of what decides a branch or must match
on the wire. `net/http` is the environment: it fixes the header at the first final status
and takes trailer values from the map at the end, by the canonical key (`Emit`,
`SentTrailers`). The application's trailer may be in the map under its canonical key, under
another spelling (`"alias"`) or under both.

`SignatureBase`. `remaining` is the code's budget, `written` the builder's length, `index`
the position in the loop. A value is its size in bytes; a field value is the sizes of its
members, the gap between them, padding and folding, which is what raw, normalized,
base64 and reserialized sizes depend on; of a URL what the request target is put together
from (`RequestURI`, `QueryBytes`). Parameters are flags or one size: the branches of
`parameterUpperBound` that estimate strings, numbers, byte sequences and tokens are not told
apart from the exact size. `Cover` is one iteration of the loop,
`RefuseIdentifier` and `RefuseComponent` its error returns, `Finish` the last line. The
integer has eight bits so that saturation is reached.

`ManagedFields` and `RequestTarget` have no state. The functions of `message.go` keep their
names; what `net/http` writes and reads (`WireOfRequest`, `WireOfResponse`, `ReadRequest`,
`ReadResponse`, `LineOf`, `Inbound`) is external and follows the transfer writer of the
Go version the repository names.

`ResponseExchange`. The handler sets headers, statuses and bytes in any order
(`bufferedResponseWriter`); `Respond` is the middleware after the handler returned, with
all of its early returns; `net/http`'s server then decides on the Content-Length it sends
(`ServerLength`) and, when it hangs up, on Connection (`ServerConnection`), for a request of
HTTP/1.1. `RespondDirectly` is an application that signs a struct and calls
`Response.Write`. The client's `RoundTrip` is `Select`, `ReadAndClose`, `CheckDigest`,
`VerifySignature` (`SelectInTrailers` and `CheckTrailers` in the trailer variant). A digest
is the content it was computed of and a signature the function from covered components to
values. `cause` separates refusals on account of the message from those of callbacks, keys,
clocks and limits, which may always happen.

`RequestExchange`. `setup` fixes the two stacks and the policies of an exchange; `chain` is
the part of a stack still to come. `live` says whether the request an adapter passes on
still has the trailer map that the body fills at EOF: an adapter that clones loses it, one
that reads the body takes the values. `held` and `closes` follow the caller's body. A trailer
signer is the innermost client adapter of a setup: its fields appear in the map of its own clone
while the transport reads, where an adapter inside it, with a clone of that clone, would not see
them. In `RequestTarget` `"empty"` is the empty string.

## 3. Runs

| run | question | bounds | states |
|---|---|---|---|
| `store_safety` | does the store keep the ledger's promise and an exact capacity under every interleaving? | 2 callers, 3 identities and a malformed one, 3 instants, capacity 2 | 333 k |
| `store_liveness` | does every `Consume` return, and a canceled waiter although the holder stopped? | 2 callers, 1 identity, capacity 1 | 37 k |
| `expiry_heap` | are indexes and order kept by every history, and is the evicted entry the oldest? | 6 identities, 5 instants, capacity 5 | 70 k |
| `verify` | is a signature accepted once, and who may reserve a nonce, when and for how long? | 2 calls, 10 inputs, 5 keys, 7 ticks | 2.3 M |
| `sign_verify` | does an honest signature stand? | 3 ticks a second, 4 drifts, 1 signature | 160 k |
| `trailer_body` | all of the trailer request side, liveness included | 3 bytes, chunks up to 4 | 27 k |
| `trailer_response` | all of the trailer response side | 2 bytes, chunks up to 2, an application trailer under either spelling of its key | 2.6 M |
| `signature_base` | is the limit kept, and do profiles and resolvers agree? | 2 of 24 components, 6 messages, 24 limits, 8-bit integers | 374 k |
| `response_exchange` | is an accepted response what was committed, and an intact one accepted? | 13 middleware setups with 11 headers and 3 handler steps, 30 k direct ones | 2.3 M |
| `response_differential` | "no signature/wire differential"? (violated) | two middleware setups and all direct ones of length 0 | stops at 8 k |
| `request_exchange` | does the handler get what was signed, through any stack? | 6 client and 6 server stacks, 5 faults, 80 URLs on 3 routes | 204 k |
| `wire_differential` | is a signed request what `net/http` writes? (violated) | all request structs | stops at 10 k |

Why the bounds suffice. Two callers reach every race on the store, which has one lock and
compares one pair at a time; a third adds only more waiters. The instants hold an
expiration, its boundary and the time after. A heap of five has three levels, so both
children, a missing sibling and a `Fix` in either direction occur; renewal in place needs
two entries that expired, which the instants allow. In the verifier the windows of the
inputs open and close within the ticks. One byte below, at and above `MaxBytes` is
all the size checks distinguish. Two components and the parameters line are enough for the
budget: an excess of the first is what the second, or the last line, must catch; the limits
are every value around the sizes of one and of two components, zero (the default), a
negative one and the largest integer. In the exchanges contents of zero to three bytes lie
on both sides of every limit; the structs of the direct and wire setups are all
combinations of the attributes `message.go` and the transfer writer branch on. Byte counts,
ticks, signatures and handler steps are capped by `MaxBytes`, `LastTick`, `MaxSigned` and
`MaxSteps`. Callers, calls and well-formed identities are symmetric where a run uses
symmetry; the liveness run uses none.

Deadlock is checked for the store, the heap and the verifier, where some step is always
possible. One attempt, one response, one exchange, one call of `CreateSignatureBase` and a
bounded number of signatures really end, so the other runs do not check it.

Every property of a passing run has a mutant of the code's model, defined beside the
definition it replaces, under which TLC finds the property violated.

### Fairness

* `StallSpec` of the store: only steps up to the lock are fair. The holder may stop, which
  is what the cancellable lock is for; `CanceledWaiterReturns` needs no more.
* `HoldersRun`, the premise of `ConsumeReturns`: goroutines inside `Consume` keep running
  (weak fairness), and a waiter that is infinitely often offered the token gets it (strong
  fairness), because the Go runtime queues the waiters of a channel in order of arrival.
* `FairSpec` of the trailer body: `RoundTrip` keeps running after the transport returned
  and an underlying Close returns. Nothing is assumed of the reader, the underlying Read or
  the callbacks: the code does not wait for them, and `RoundTripReturns` shows that.

### Findings

* `wire_differential`. A request with a nil body, `TransferEncoding` `identity` and a method
  such as DELETE is signed with `content-length: 0`; `net/http` clears the coding of a nil
  body first and sends no Content-Length, contrary to `docs/specification-decisions.md:1582`.
  The signature cannot be verified by the receiver.
* `response_differential`. `NoDifferential` is the claim of `docs/specification-decisions.md:1607`.
  Three kinds of response contradict it; `SignedIsOnWire`, checked and proved of the same model,
  says that there is no fourth. The run's setups hold all three; with `Setups` in its cfg replaced
  by `MCProbed`, `MCRepresentation` or `MCConnection` TLC shows the one or the other.
  * `docs/specification-decisions.md:1592` says that a response of length 0 with a body of its own
    is rejected because its framing depends on probing. That holds for `content-length`;
    `connection`, which the same probe decides, is signed, and `Response.Write` then adds `close`.
  * The middleware signs the Content-Length a handler sets on a 304 (or on a 204 to HEAD), as
    `integration_hardening_test.go:2745` wants it, but the server suppresses the field. The test
    reads a recorder, which does not.
  * The handler's Connection is signed as it stands, although the server replaces it by `close`
    when it hangs up; `docs/integration.md:86` says that fields `net/http` could rewrite are
    rejected.

Two further remarks for which no run is kept. The comments at `message.go:164` and `:168` say that
a resolver never returns more than the budget, so that the subtraction cannot underflow and the
writes cannot cross the limit; `@status`, an escaped `@path` and a reserialized `;sf` field may be
larger. The budget is then negative and the next `consumeSize` refuses: `BaseWithinLimit` holds,
and `BoundedOvershoot` says what the excess can cost meanwhile. And `signingTrailers` finds a
declared trailer under any spelling of its key (`body_integration.go:956`) and signs it, while
`net/http` sends it from the canonical key only: a handler that writes `Header()["x-app"]` itself
gets a signature over a trailer that is not sent, which `SignedIsSent` states as its one exception.

### Exceptions the properties name

The exchange properties state the cases in which the two ends cannot agree. All of them
end in a refusal at the receiver.

* The server's `net/http` drops the Content-Length a handler set on a 304 or on a 204 to
  HEAD, after the middleware signed it, and replaces a signed Connection when it hangs up
  (`SignedIsOnWire`, `IntactAccepted`; findings above).
* A handler that answers HEAD with a Content-Digest of its own, of the body it writes, under a
  middleware that computes none: the client reads no content and its digest check fails. The
  proof of `IntactAccepted` found this case; `Compatible` asks that such a digest is of what is
  sent.
* `Response.Write` adds `Connection: close` after probing a body of unknown length
  (`SignedIsOnWire`; a finding above).
* A declared trailer under a non-canonical key is signed and not sent (`SignedIsSent`).
* A receiver cannot know the order of Trailer, whether `Connection: close` was in the
  header, or a coding under HTTP/1.0; `message.go` refuses or leaves these out.
* A server behind a gateway that ends TLS, without a trusted external context, cannot
  know scheme and authority; a forward proxy changes the request target; a CONNECT request
  names its target differently at the two ends; a zero length may be absent or probed
  (`Lost` in `RequestExchange`).
* Digests computed, or a body framed anew, by an adapter inside the signing one change what was
  signed; middleware that reads the header finds nothing when digest and signature are in
  trailers (`SignsLast` and `ChecksAlone`, premises of `IntactDelivered` that its proof brought out,
  like the query of a CONNECT request, which has no place on the request line).
* A `RequestVerificationMiddleware` outside the digest middleware sees no trailer value,
  because the body was not read yet. A `SigningRoundTripper` outermost clones the trailer
  map before the body fills it, so values set at EOF are lost; `TrailersArrive` therefore
  asks for an adapter that reads the body outermost.

## 4. What is proved

Every theorem holds for all values of the constants under the named assumptions of the
module it is about. Each proof states an inductive invariant, shows that every action keeps
it, and derives the property. The assumptions say what a constructor validates or what an
abstracted value means; TLC evaluates them on every run.

### Replay store (`MemoryReplayStoreProofs`)

For any callers, identities and times and every configuration the constructor accepts
(`StoreConfig`): `TypeCorrect`, `NoPanic`, `NoRecordGrantedTwice`, `WithinCapacity`,
`RefusalsJustified`, and `StoreImplementsLedger`: every step of the store is a step of the
ledger or leaves it unchanged.

None of these is inductive alone. `IndInv` adds that at most one caller is under the lock
and then the token is taken (`Mutex`), what a caller carries (`Carrying`), that after the
clamp a caller's local time is the store's and its record is live (`Clamped`), that a
caller about to renew or insert still finds what it looked up (`Renewable`, `Insertable`),
that after the eviction there is room or nothing left has expired (`Evicted`), and that
every granted record has expired by the store's time or is still held with an expiration
at least as late (`Retained`). `Retained` with the clamp is why no record is granted twice:
an entry leaves the map only once the store's time, which never falls, has passed its
expiration. `Evicted` is why one eviction per call is enough: either the call removed an
entry from a map within its capacity, or the oldest entry, and so every one, is unexpired.

### Expiration heap (`ReplayExpiryHeapProofs`)

For any identities and instants, every capacity and every history of `Consume` calls:
`HeapTypes`, `IndexesCoherent`, `HeapOrdered`, `SiftsOrdered`, and the action properties
`OldestEvicted` and `ReservationsStable`.

Between two calls the order is that of a heap, but a call breaks it and restores it step by
step, so `HeapOrder` is not inductive. `SiftOrder` says what holds in the middle of a sift: every
slot is in order with its parent except the one that sinks (`OrderedButDown`) or the one that
rises (`OrderedButUp`), whose children are still in order with its parent. One lemma per move
carries it across an iteration (`SinkOrder`, `RiseOrder`, `RaiseOrder`), with the arithmetic of
parents and children kept in lemmas of its own. `RootLeast` turns order into what eviction
needs: by the least slot that is below the root (`LeastSlot`), the root expires no later than any
other. `IndexesCoherent` rests on every move being a swap that writes both indexes; `CallFresh`,
that the caller's own expiration is after the store's time, is what makes a renewal sink only. With
these `OldestEvicted` is the step `Evict` of `MemoryReplayStore`, which takes the oldest entry
without saying how it is found.

### Verifier and signer (`SignVerifyProofs`)

For any inputs, keys and number of calls under `ProfileConfig`, `WindowsEnd` and
`LedgerTimes`:

* `AcceptedAtMostOnce`: `IndInv` says that a call which holds a successful reservation owns
  it alone (`Owned`, `Unique`) and that every acceptance is backed by a grant (`Backed`);
  the expiration is a function of the input, so a second acceptance would need a second
  grant of one record, which the ledger excludes.
* `InvalidNeverBurns` and `ConsumedOnlyInWindow`: `BurnInv` carries what each step has
  established (`Checked`) to the reservation; the window follows because the ledger grants
  only before the expiration and the expiration is the earlier end of the two windows.
* `ReservationsFit`: a call past the input check holds a creation time that is not ahead of
  the clock by more than the skew (`NotFuture`), time only advances, and the store's time
  has caught up with the clock before the reservation.
* `TypeCorrect`.

`HonestStands` is an action property of signer and verifier together, under `Deployment`
(the skew covers the drift and the lost fraction) and `SharedKey` (the resolver returns the
signing key, as fresh as it may be). The invariant says of every signature in flight that
Sign wrote it at a moment in the past on a clock off by the drift, with a key it had just
found usable (`Honest`). From the bounds of `Unix` follows that neither check refuses a
prompt signature. The proof showed that the property was stated for profiles with an
expiration only: without one the key's window may end first, which the property now names.

### Trailer sides (`TrailerSigningBodyProofs`, `TrailerResponseWriterProofs`)

For any body, chunk size and limit:

* `ReleasedIsSigned`, `HashedIsHanded`, `EOFIsSigned`, `NoLeak`, `TypeCorrect` and the action
  property `ResultStands`. `IndInv` relates the terminal flag, the first result and the
  completion channel (`Settled`), what the reader has done at each half of the finalization
  although a Close may have made the body terminal meanwhile (`Finalizing`), what a clean
  result implies (`Published`, `EndOfBody`), and what `RoundTrip` and the closers have seen
  or done (`Waited`, `Closed`).
* `SignatureMatchesWire`, `UnsignedIsBare`, `EndsSignedOrReported`, `EarlyFailureIsEmpty`,
  `BodyIsBounded`, `TypeCorrect`. `IndInv` says where in the handler's life a status, a
  committed header and sent bytes can exist (`Progress`, `Uncommitted`, `Committed`), what a
  refusal leaves (`Refused`), that the hash counts what was sent (`Counted`), and what is
  fixed once the response was signed or stripped (`Signed`, `Bare`).

### Signature base (`SignatureBaseProofs`)

For every message, component list, limit and integer width, under `SizeAssumption`,
`CallAssumption` (sizes are natural numbers, no name fills the address space),
`FieldAssumption` (a value has a member, members are separated, a reserialized member is at
most three times as long) and `UrlAssumption` (percent encoding triples at most):

* `BaseFits` and `OvershootIsBounded`. While the loop runs, `written + remaining` is the
  limit, although `remaining` may be negative (`Accounting`). `ResolvedBound` is the core: a
  resolver that is given `max` bytes returns at most `3 * max`, or a status code. It needs
  what each size operator computes: saturating sums never lose bytes, base64 is monotone, a
  plain or binary field that `fieldValuesFit` admits is no longer once normalized,
  reserialized or cut down to a member, and each derived value is covered by its source.
* `ShapesAgree`: by the case analysis of `ShapeAgreement`, a resolver answers with a value
  only for a component `validProfileComponent` takes and blames the shape only of one that
  it does not.

Sums over sequences are recursive functions. The library's induction principle takes an
operator and is out of the provers' reach; `IntervalInduction` is its form for sets, from
the least element of a set of natural numbers (`WFMin`), and gives sums their existence,
their sign and their monotonicity.

### Exchanges (`ResponseExchangeProofs`, `RequestExchangeProofs`)

For every set of setups that meets `SetupAssumption`, any header, status and fault:

* `BodySettled`: the statement of the client determines who owns the upstream body (`Owner`).
* `AcceptedWasCommitted`: in transit the signature is kept or lost, never made (`Sealed`), and
  the client has checked at each statement what `Vetted` says; equal signatures have equal
  values, and equal digests equal contents.
* `SignedWasSent`: the three origins of a response are taken apart by what is on the wire if
  nothing happened in transit (`Undisturbed`). Of the managed fields the middleware can sign a
  positive Content-Length and the handler's Connection only (`MiddlewareManaged`); the header it
  leaves has that length (`LengthOfHeader`), and the server sends it unless the status has no
  body, and the Connection unless it hangs up (`MiddlewareFieldSent`). For an application's own struct, `FieldIsWritten` compares each derivation
  of `message.go` with `Response.Write` for every struct. Setups with signed trailers cover no
  managed field (`SetupAssumption`).
* `IntactIsAccepted`: the client works on what was read off the wire (`ReadBack`), the digests are
  of the content sent (`IntactDigest`), and every covered value of the received response is the
  signed one (`IntactVerifies`): a length that is signed comes without a coding and reads back
  as that length, a coding that is signed is chunked. So none of the client's checks can fail.
* `ClosedOnce`: `Owner` follows the caller's body through the rest of the stack.
* `HandlerReadsSigned`: `Signing` and `Sending` say what the signature on the wire was computed
  from, `Checking` what the middlewares passed so far have established, in either order.
* `TrailersReachHandler`: `Filling`, `Carrying` and `Arriving` follow the trailer map from the
  body's EOF through chunked framing to the server's copy.
* `IntactIsDelivered`: on the client's side `Sealed` says that a signature is one of the request as
  it stands, since only compatibility adapters are left and they keep everything it covers but
  the field the external signer may change; `Stacked` and `Prepared` say in which order adapters
  come and that trailer values come with chunked framing. On the server's side the wire is the
  message that was sent (`Intact`) and the request passed on is what `ReadRequest` made of it, its
  body perhaps a copy (`Received`); `Stack` keeps the live trailer map for a trailer verifier that
  is alone. Then each covered value is compared (`ValueArrives`): a length that is signed, a coding
  that is signed and the connection options read back as they were (`LengthArrives`,
  `CodingArrives`, `ConnectionArrives`), and `DerivedArrives` takes the three forms of the
  request line apart and finds the scheme, the authority and the target that the client resolved
  from its URL, from the Host field and the connection or from a trusted context.

### Only model-checked

* Liveness (`ConsumeReturns`, `CanceledWaiterReturns`, `RoundTripReturns`): fairness and
  ENABLED are outside the prover's reach.

Every invariant and every safety action property that a passing run checks is proved.

## 5. What is not modelled

Not modelled for good: character-level parsing and serialization of structured fields,
signature fields and digest fields, percent decoding and UTF-8 repair (pure string work
that the repository fuzzes); `Want-Content-Digest` preferences; the cryptographic
primitives; configuration validation beyond what the assumptions state; logging and error
texts; the application's callbacks beyond "returns or fails" and what an external signer
may do to its copy. `copyResponse` failing while it writes is a truncated response, which
the fault `cut` covers from the client's side. Hazards without a property say why in
`PROJECT.json`: two profiles on one store, finalization after an early return.

If the code changes, the modules are extended along the same lines: the component first, with
a run and a mutant for each property, then the invariant, checked by TLC before it is proved.
