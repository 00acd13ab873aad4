------------------------- MODULE TrailerSigningBody -------------------------
(***************************************************************************)
(* One attempt of TrailerSigningRoundTripper (body_integration.go): the    *)
(* goroutine that called RoundTrip, the goroutine of the wrapped transport *)
(* that reads the request body, and the transport's own Close of it, which *)
(* net/http may issue from another goroutine at any time.  They share one  *)
(* trailerSigningBody.  A critical section of body.mu is one step; reads   *)
(* and closes of the underlying body, the finalization (which runs without *)
(* the mutex) and the select on the completion channel are steps of their  *)
(* own.                                                                    *)
(*                                                                         *)
(* Bytes are counted, not represented: the hash state is how many bytes it *)
(* has absorbed, a digest how many it covers.                              *)
(***************************************************************************)
EXTENDS Integers

CONSTANTS
    MaxBytes,     \* TrailerSigningRoundTripperConfig.MaxBytes
    MaxChunk      \* the largest buffer the transport reads into

ASSUME PositiveLimits == MaxBytes \in Nat \ {0} /\ MaxChunk \in Nat \ {0}

VARIABLES
    \* fields of trailerSigningBody
    written,      \* bytes hashed so far
    terminal,
    eofObserved,
    result,       \* "none" until terminal; "nil" is a nil error
    doneCloses,   \* how often the completion channel was closed
    closeOnce,    \* sync.Once: "fresh", "running" or "done"
    closeErr,     \* the underlying Close returned an error
    \* the reader goroutine
    reader,       \* its statement in Read
    got,          \* what the underlying Read returned
    lastRead,     \* how the last Read ended
    handed,       \* bytes returned to the transport
    \* clone.Trailer
    trailer,      \* "declared", "digest" (Content-Digest set) or "signed"
    digested,     \* bytes covered by the Content-Digest
    \* the goroutine in RoundTrip
    trip,         \* its statement
    response,     \* "none", "open", "closed" or "released"
    \* the two callers of Close, and the request's context
    closer,       \* the statement of each in Close
    canceled

bodyVars   == <<written, terminal, eofObserved, result, doneCloses>>
closeVars  == <<closeOnce, closeErr, closer>>
readVars   == <<reader, got, lastRead, handed>>
fieldVars  == <<trailer, digested>>
tripVars   == <<trip, response>>
vars == <<written, terminal, eofObserved, result, doneCloses, closeOnce, closeErr, closer,
          reader, got, lastRead, handed, trailer, digested, trip, response, canceled>>

Closers  == {"transport", "trip"}
Failures == {"context", "bodyRead", "tooLarge", "finalize"}
\* An underlying Read: a count the buffer can hold or not, and its error.
Reads == [count : 0..MaxChunk, err : {"nil", "eof", "fail"}, fits : BOOLEAN]
Nothing == [count |-> 0, err |-> "nil", fits |-> TRUE]

TypeOK ==
    /\ written \in 0..MaxBytes
    /\ terminal \in BOOLEAN /\ eofObserved \in BOOLEAN
    /\ result \in {"none", "nil"} \cup Failures
    /\ doneCloses \in 0..1
    /\ closeOnce \in {"fresh", "running", "done"} /\ closeErr \in BOOLEAN
    /\ closer \in [Closers -> {"idle", "once", "closing", "lock"}]
    /\ reader \in {"idle", "ctx", "reading", "account", "fields", "sign", "complete"}
    /\ got \in Reads
    /\ lastRead \in {"none", "more", "eof", "error"}
    /\ handed \in 0..MaxBytes
    /\ trailer \in {"declared", "digest", "signed"}
    /\ digested \in 0..MaxBytes
    /\ trip \in {"start", "sending", "nilResponse", "select", "finished", "early",
                 "refused", "transportError", "rejected", "released"}
    /\ response \in {"none", "open", "closed", "released"}
    /\ canceled \in BOOLEAN

Init ==
    /\ written = 0 /\ terminal = FALSE /\ eofObserved = FALSE
    /\ result = "none" /\ doneCloses = 0
    /\ closeOnce = "fresh" /\ closeErr = FALSE
    /\ closer = [a \in Closers |-> "idle"]
    /\ reader = "idle" /\ got = Nothing /\ lastRead = "none" /\ handed = 0
    /\ trailer = "declared" /\ digested = 0
    /\ trip = "start" /\ response = "none"
    /\ canceled = FALSE
-----------------------------------------------------------------------------
\* Mutant: the result of the last completion wins and the channel is closed again.
CompleteLast(r) ==
    /\ terminal' = TRUE
    /\ result' = r
    /\ doneCloses' = doneCloses + 1

\* completeLocked: the first result wins.
Complete(r) ==
    IF terminal
    THEN UNCHANGED <<terminal, result, doneCloses>>
    ELSE terminal' = TRUE /\ result' = r /\ doneCloses' = doneCloses + 1

\* Read returns count bytes and an error class to the transport.
Return(count, how) ==
    /\ reader' = "idle"
    /\ got' = Nothing
    /\ lastRead' = how
    /\ handed' = handed + count

TerminalError == IF result = "nil" THEN "eof" ELSE "error"

Sending == trip \notin {"start", "refused"}

\* Read, first critical section.  The transport has a body only once RoundTrip
\* delegated, and may still read after RoundTrip returned.
Read ==
    /\ Sending /\ reader = "idle"
    /\ IF terminal
       THEN Return(0, TerminalError)
       ELSE reader' = "ctx" /\ UNCHANGED <<got, lastRead, handed>>
    /\ UNCHANGED <<bodyVars, closeVars, fieldVars, tripVars, canceled>>

ReadContext ==
    /\ reader = "ctx"
    /\ \/ /\ canceled
          /\ Complete("context") /\ Return(0, "error")
       \/ /\ ~canceled
          /\ reader' = "reading"
          /\ UNCHANGED <<got, lastRead, handed, terminal, result, doneCloses>>
    /\ UNCHANGED <<written, eofObserved, closeVars, fieldVars, tripVars, canceled>>

\* The underlying body returns; a broken one reports a count the buffer cannot hold.
UnderlyingRead(r) ==
    /\ reader = "reading"
    /\ \/ /\ r.fits
          /\ reader' = "account" /\ got' = r
          /\ UNCHANGED <<lastRead, handed, terminal, result, doneCloses>>
       \/ /\ ~r.fits
          /\ Complete("bodyRead") /\ Return(0, "error")
    /\ UNCHANGED <<written, eofObserved, closeVars, fieldVars, tripVars, canceled>>

\* Mutant: bytes that arrive after the body became terminal are passed on.
AccountUnchecked ==
    /\ reader = "account"
    /\ \/ /\ terminal
          /\ Return(got.count, TerminalError)
          /\ UNCHANGED bodyVars
       \/ /\ ~terminal
          /\ written' = written + got.count
          /\ eofObserved' = (got.err = "eof")
          /\ IF got.err = "eof"
             THEN reader' = "fields" /\ UNCHANGED <<got, lastRead, handed>>
             ELSE Return(got.count, "more")
          /\ UNCHANGED <<terminal, result, doneCloses>>
    /\ UNCHANGED <<closeVars, fieldVars, tripVars, canceled>>

\* Mutant: the limit is compared with the bytes hashed before this chunk.
FitsLate(r) == written <= MaxBytes

Fits(r) == r.count <= MaxBytes - written

\* Second critical section: limit, progress, hash, and what the error means.
Account ==
    /\ reader = "account"
    /\ \/ /\ terminal
          /\ Return(0, TerminalError)
          /\ UNCHANGED bodyVars
       \/ /\ ~terminal /\ ~Fits(got)
          /\ Complete("tooLarge") /\ Return(0, "error")
          /\ UNCHANGED <<written, eofObserved>>
       \/ /\ ~terminal /\ got.count = 0 /\ got.err = "nil"
          /\ Complete("bodyRead") /\ Return(0, "error")
          /\ UNCHANGED <<written, eofObserved>>
       \/ /\ ~terminal /\ Fits(got) /\ ~(got.count = 0 /\ got.err = "nil")
          /\ written' = written + got.count
          /\ \/ /\ got.err = "fail"
                /\ Complete("bodyRead") /\ Return(got.count, "error")
                /\ UNCHANGED eofObserved
             \/ /\ got.err = "nil"
                /\ Return(got.count, "more")
                /\ UNCHANGED <<eofObserved, terminal, result, doneCloses>>
             \/ /\ got.err = "eof"
                /\ eofObserved' = TRUE /\ reader' = "fields"
                /\ UNCHANGED <<got, lastRead, handed, terminal, result, doneCloses>>
    /\ UNCHANGED <<closeVars, fieldVars, tripVars, canceled>>

\* finalize fails: Read completes the body with the error and returns the count.
FinalizeFails ==
    /\ Complete("finalize")
    /\ Return(got.count, "error")
    /\ UNCHANGED <<written, eofObserved>>

\* finalize, first half: the caller's trailers are read, normalised and compared with
\* the declared names; then the digest of everything hashed is set.
FinalizeFields ==
    /\ reader = "fields"
    /\ \/ FinalizeFails /\ UNCHANGED fieldVars
       \/ /\ reader' = "sign"
          /\ trailer' = "digest" /\ digested' = written
          /\ UNCHANGED <<bodyVars, got, lastRead, handed>>
    /\ UNCHANGED <<closeVars, tripVars, canceled>>

\* Mutant: a callback or signer error is dropped and the read ends in EOF.
FinalizeSignLost ==
    /\ reader = "sign"
    /\ reader' = "complete" /\ trailer' \in {"digest", "signed"}
    /\ UNCHANGED <<bodyVars, got, lastRead, handed, digested, closeVars, tripVars, canceled>>

\* finalize, second half: the options and external context callbacks and the signer,
\* then the two signature fields.
FinalizeSign ==
    /\ reader = "sign"
    /\ \/ FinalizeFails /\ UNCHANGED fieldVars
       \/ /\ reader' = "complete" /\ trailer' = "signed"
          /\ UNCHANGED <<bodyVars, got, lastRead, handed, digested>>
    /\ UNCHANGED <<closeVars, tripVars, canceled>>

\* complete(nil), then Read reports EOF whatever result won.
FinishRead ==
    /\ reader = "complete"
    /\ Complete("nil")
    /\ Return(got.count, "eof")
    /\ UNCHANGED <<written, eofObserved, closeVars, fieldVars, tripVars, canceled>>
-----------------------------------------------------------------------------
(* Close, called by the transport and by RoundTrip. *)

CloserAt(a, label) == closer' = [closer EXCEPT ![a] = label]

\* The transport may close the body at any time after it was given it.
TransportClose ==
    /\ Sending /\ closer["transport"] = "idle"
    /\ CloserAt("transport", "once")
    /\ UNCHANGED <<closeOnce, closeErr, bodyVars, readVars, fieldVars, tripVars, canceled>>

\* closeOnce.Do: the first caller runs the function, later ones wait for it.
EnterOnce(a) ==
    /\ closer[a] = "once"
    /\ \/ closeOnce = "fresh" /\ closeOnce' = "running" /\ CloserAt(a, "closing")
       \/ closeOnce = "done" /\ CloserAt(a, "lock") /\ UNCHANGED closeOnce
    /\ UNCHANGED <<closeErr, bodyVars, readVars, fieldVars, tripVars, canceled>>

\* The underlying Close returns, with an error or without.
UnderlyingClose(a) ==
    /\ closer[a] = "closing"
    /\ closeErr' \in BOOLEAN
    /\ closeOnce' = "done"
    /\ CloserAt(a, "lock")
    /\ UNCHANGED <<bodyVars, readVars, fieldVars, tripVars, canceled>>

\* RoundTrip continues after its own Close: the response, if any, is closed.
AfterTripClose(a) ==
    IF a = "trip"
    THEN trip' = "rejected" /\ response' = (IF response = "open" THEN "closed" ELSE response)
    ELSE UNCHANGED tripVars

\* The critical section of Close.
CloseLock(a) ==
    /\ closer[a] = "lock"
    /\ IF closeErr \/ ~eofObserved
       THEN Complete("bodyRead")
       ELSE UNCHANGED <<terminal, result, doneCloses>>
    /\ CloserAt(a, "idle")
    /\ AfterTripClose(a)
    /\ UNCHANGED <<written, eofObserved, closeOnce, closeErr, readVars, fieldVars, canceled>>
-----------------------------------------------------------------------------
(* RoundTrip. *)

\* The checks before delegation: on failure the original body is closed.
Refuse ==
    /\ trip = "start"
    /\ trip' = "refused" /\ closeOnce' = "done" /\ closeErr' \in BOOLEAN
    /\ UNCHANGED <<response, closer, bodyVars, readVars, fieldVars, canceled>>

Delegate ==
    /\ trip = "start"
    /\ trip' = "sending"
    /\ UNCHANGED <<response, bodyVars, closeVars, readVars, fieldVars, canceled>>

\* The wrapped transport returns whenever it likes: an error (the response, if
\* any, is the caller's), nothing at all, or a response, perhaps before EOF.
TransportReturns ==
    /\ trip = "sending"
    /\ \/ trip' = "transportError" /\ UNCHANGED response
       \/ trip' = "nilResponse" /\ UNCHANGED response
       \/ trip' = "select" /\ response' = "open"
    /\ UNCHANGED <<bodyVars, closeVars, readVars, fieldVars, canceled>>

\* A nil response closes the body before RoundTrip gives up.
NilResponse ==
    /\ trip = "nilResponse" /\ closer["trip"] = "idle"
    /\ CloserAt("trip", "once")
    /\ UNCHANGED <<closeOnce, closeErr, bodyVars, readVars, fieldVars, tripVars, canceled>>

\* Mutant: the response is waited for, not the finalization.
SelectBlind ==
    /\ trip = "select"
    /\ trip' = "finished"
    /\ UNCHANGED <<response, bodyVars, closeVars, readVars, fieldVars, canceled>>

\* Mutant: the default branch is missing, so the select waits for completion.
SelectBlocks ==
    /\ trip = "select" /\ doneCloses > 0
    /\ trip' = "finished"
    /\ UNCHANGED <<response, bodyVars, closeVars, readVars, fieldVars, canceled>>

\* The select with a default: is the completion channel closed yet?
Select ==
    /\ trip = "select"
    /\ trip' = (IF doneCloses > 0 THEN "finished" ELSE "early")
    /\ closer' = [closer EXCEPT !["trip"] = IF doneCloses > 0 THEN "idle" ELSE "once"]
    /\ UNCHANGED <<response, closeOnce, closeErr, bodyVars, readVars, fieldVars, canceled>>

\* Mutant: the response of a failed attempt is dropped without being closed.
CompletionErrorLeaks ==
    /\ trip = "finished"
    /\ IF result \in {"none", "nil"}
       THEN trip' = "released" /\ response' = "released"
       ELSE trip' = "rejected" /\ UNCHANGED response
    /\ UNCHANGED <<bodyVars, closeVars, readVars, fieldVars, canceled>>

\* completionError decides between releasing and closing the response.
CompletionError ==
    /\ trip = "finished"
    /\ IF result \in {"none", "nil"}
       THEN trip' = "released" /\ response' = "released"
       ELSE trip' = "rejected" /\ response' = "closed"
    /\ UNCHANGED <<bodyVars, closeVars, readVars, fieldVars, canceled>>

\* The caller cancels the request's context.
Cancel ==
    /\ ~canceled /\ canceled' = TRUE
    /\ UNCHANGED <<bodyVars, closeVars, readVars, fieldVars, tripVars>>
-----------------------------------------------------------------------------
Reader ==
    \/ Read \/ ReadContext
    \/ \E r \in Reads : UnderlyingRead(r)
    \/ Account \/ FinalizeFields \/ FinalizeSign \/ FinishRead

Closing(a) == EnterOnce(a) \/ UnderlyingClose(a) \/ CloseLock(a)

AfterTransport == NilResponse \/ Select \/ CompletionError

Trip == Refuse \/ Delegate \/ TransportReturns \/ AfterTransport

Next ==
    \/ Reader
    \/ TransportClose
    \/ \E a \in Closers : Closing(a)
    \/ Trip
    \/ Cancel

Spec == Init /\ [][Next]_vars

\* RoundTrip keeps running after the transport returned, and an underlying Close
\* returns; nothing is assumed of the reader or of the transport.
FairSpec ==
    Spec /\ WF_vars(AfterTransport) /\ \A a \in Closers : WF_vars(Closing(a))
-----------------------------------------------------------------------------
(* Properties. *)

\* A response reaches the caller only when the whole body was hashed, digested and
\* signed: "A response is released only after EOF finalization succeeds".
ReleaseOnlyAfterSigning ==
    response = "released" =>
        eofObserved /\ result = "nil" /\ trailer = "signed" /\ digested = written

\* The bytes the transport was given are exactly the bytes that were hashed, even
\* when a Close or a failure lands between the underlying read and its accounting.
HandedIsHashed ==
    written = handed + (IF reader \in {"fields", "sign", "complete"} THEN got.count ELSE 0)

\* The transport sees a clean EOF, and so completes the message on the wire, only
\* with signed trailers whose digest covers all it was given.
CleanEOFIsSigned == lastRead = "eof" => trailer = "signed" /\ digested = handed

\* The completion channel is closed once and the first result stands: two closers,
\* a failing read and a finalization never overwrite each other.
FirstResultStands ==
    [][/\ terminal => UNCHANGED <<terminal, result>>
       /\ doneCloses' <= 1]_vars

\* Every response the wrapped transport returned is released or closed, and the
\* adapter closed the body of an attempt it gave up before the end of the body.
NothingLeaks ==
    /\ trip = "rejected" => response # "open"
    /\ trip = "rejected" /\ ~terminal => closeOnce = "done"
    /\ trip = "refused" => closeOnce = "done"

\* Once the wrapped transport has returned, RoundTrip returns, although the reader
\* may be stuck in the underlying Read or in a signing callback for ever.
RoundTripReturns ==
    trip \in {"nilResponse", "select", "finished", "early"} ~> trip \in {"rejected", "released"}
=============================================================================
