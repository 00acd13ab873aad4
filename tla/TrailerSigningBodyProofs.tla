---------------------- MODULE TrailerSigningBodyProofs ----------------------
(***************************************************************************)
(* Proofs about TrailerSigningBody for every byte limit and buffer size.   *)
(* The mutex is released while finalize runs, so what finalize found must  *)
(* still be true when its result is published: Finalizing carries it from  *)
(* one step of the reader to the next, Published from there on.            *)
(***************************************************************************)
EXTENDS TrailerSigningBody, TLAPS

Finalizers == {"fields", "sign", "complete"}

\* terminal, result and the completion channel always agree.
Settled ==
    /\ terminal <=> result # "none"
    /\ doneCloses = IF terminal THEN 1 ELSE 0

\* What the reader has established at each statement of finalize.
Finalizing ==
    /\ reader \in Finalizers => eofObserved
    /\ reader \in {"sign", "complete"} => digested = written
    /\ reader = "complete" => trailer = "signed"

\* A nil result was published by a reader that is back outside Read, so nothing
\* is hashed or set any more.
Published ==
    result = "nil" =>
        reader = "idle" /\ eofObserved /\ trailer = "signed" /\ digested = written

\* After a clean EOF every Read finds the body terminal.
EndOfBody ==
    lastRead = "eof" =>
        terminal /\ reader = "idle" /\ trailer = "signed" /\ digested = written

\* RoundTrip passes the select only once the channel is closed.
Waited ==
    /\ trip = "finished" => terminal
    /\ response = "released" => result = "nil"

\* Whoever left closeOnce.Do finds the underlying body closed.
Closed == \A a \in Closers : closer[a] = "lock" => closeOnce = "done"

IndInv ==
    /\ TypeOK /\ HandedIsHashed /\ Settled /\ Finalizing
    /\ Published /\ EndOfBody /\ Waited /\ Closed /\ NothingLeaks

-----------------------------------------------------------------------------
LEMMA NothingType == Nothing \in Reads /\ Nothing.count = 0
BY PositiveLimits DEF Nothing, Reads

LEMMA InitIndInv == Init => IndInv
<1> SUFFICES ASSUME Init PROVE IndInv
  OBVIOUS
<1> USE PositiveLimits DEF Init
<1>1. TypeOK
  <2>1. written \in 0..MaxBytes /\ handed \in 0..MaxBytes /\ digested \in 0..MaxBytes
    OBVIOUS
  <2>2. got \in Reads
    BY NothingType
  <2>3. /\ terminal \in BOOLEAN /\ eofObserved \in BOOLEAN
        /\ closeErr \in BOOLEAN /\ canceled \in BOOLEAN
    BY Zenon
  <2>4. closer \in [Closers -> {"idle", "once", "closing", "lock"}]
    OBVIOUS
  <2> QED
    BY <2>1, <2>2, <2>3, <2>4 DEF TypeOK
<1>2. HandedIsHashed /\ Settled /\ Finalizing /\ Published /\ EndOfBody
  BY DEF HandedIsHashed, Settled, Finalizing, Finalizers, Published, EndOfBody
<1>3. Waited /\ Closed /\ NothingLeaks
  BY DEF Waited, Closed, NothingLeaks
<1> QED
  BY <1>1, <1>2, <1>3 DEF IndInv

\* completeLocked: the first result stands and the channel is closed at most once.
LEMMA CompleteOnce ==
    ASSUME TypeOK, Settled, NEW r \in {"nil"} \cup Failures, Complete(r)
    PROVE  /\ terminal' = TRUE
           /\ result' \in {"nil"} \cup Failures
           /\ doneCloses' = 1
           /\ terminal => result' = result
           /\ ~terminal => result' = r
BY DEF TypeOK, Settled, Complete, Failures
-----------------------------------------------------------------------------
(* The reader. *)

\* Every way in which a running Read fails: the body becomes terminal and the bytes
\* handed over catch up with the bytes hashed.
LEMMA FailingRead ==
    ASSUME IndInv, NEW r \in Failures, NEW n \in Nat, reader # "idle",
           Complete(r), Return(n, "error"),
           written' \in 0..MaxBytes, written' = handed + n, eofObserved' = eofObserved,
           UNCHANGED <<closeVars, fieldVars, tripVars, canceled>>
    PROVE  IndInv'
<1> USE DEF IndInv, closeVars, fieldVars, tripVars, Return
<1>1. /\ terminal' = TRUE /\ doneCloses' = 1
      /\ result' \in {"nil"} \cup Failures
      /\ terminal => result' = result
      /\ ~terminal => result' = r
  BY CompleteOnce
<1>2. r # "nil" /\ r # "none"
  BY DEF Failures
<1>3. result # "nil"
  BY DEF Published
<1>4. result' # "nil" /\ result' # "none"
  BY <1>1, <1>2, <1>3 DEF Settled, Failures
<1>5. TypeOK'
  BY <1>1, NothingType, PositiveLimits DEF TypeOK
<1>6. HandedIsHashed' /\ Settled'
  BY <1>1, <1>4, <1>5 DEF HandedIsHashed, Settled, TypeOK
<1>7. Finalizing' /\ Published' /\ EndOfBody'
  BY <1>4 DEF Finalizing, Finalizers, Published, EndOfBody
<1>8. Waited' /\ Closed' /\ NothingLeaks'
  BY <1>1, <1>3 DEF Waited, Closed, NothingLeaks
<1> QED
  BY <1>5, <1>6, <1>7, <1>8

\* While the reader is inside Read but outside finalize, it has handed over all it hashed.
LEMMA Outside ==
    ASSUME IndInv, reader \in {"idle", "ctx", "reading", "account"}
    PROVE  written = handed /\ written \in 0..MaxBytes /\ handed \in Nat
BY PositiveLimits DEF IndInv, TypeOK, HandedIsHashed

LEMMA ReadStep ==
    ASSUME IndInv, Read
    PROVE  IndInv'
<1> USE NothingType, PositiveLimits
        DEF IndInv, Read, Return, TerminalError, bodyVars, closeVars, fieldVars, tripVars
<1>1. TypeOK' /\ HandedIsHashed' /\ Settled'
  BY Outside DEF TypeOK, HandedIsHashed, Settled
<1>2. Finalizing' /\ Published' /\ EndOfBody'
  BY DEF Finalizing, Finalizers, Published, EndOfBody, Settled
<1>3. Waited' /\ Closed' /\ NothingLeaks'
  BY DEF Waited, Closed, NothingLeaks
<1> QED
  BY <1>1, <1>2, <1>3

LEMMA ReadContextStep ==
    ASSUME IndInv, ReadContext
    PROVE  IndInv'
<1>1. CASE canceled
  BY <1>1, FailingRead, Outside DEF ReadContext, Failures, closeVars, fieldVars, tripVars
<1>2. CASE ~canceled
  <2> USE <1>2 DEF IndInv, ReadContext, closeVars, fieldVars, tripVars
  <2>1. TypeOK' /\ HandedIsHashed' /\ Settled'
    BY DEF TypeOK, HandedIsHashed, Settled
  <2>2. Finalizing' /\ Published' /\ EndOfBody'
    BY DEF Finalizing, Finalizers, Published, EndOfBody
  <2>3. Waited' /\ Closed' /\ NothingLeaks'
    BY DEF Waited, Closed, NothingLeaks
  <2> QED
    BY <2>1, <2>2, <2>3
<1> QED
  BY <1>1, <1>2

LEMMA UnderlyingReadStep ==
    ASSUME IndInv, NEW r \in Reads, UnderlyingRead(r)
    PROVE  IndInv'
<1>1. CASE ~r.fits
  BY <1>1, FailingRead, Outside DEF UnderlyingRead, Failures, closeVars, fieldVars, tripVars
<1>2. CASE r.fits
  <2> USE <1>2 DEF IndInv, UnderlyingRead, closeVars, fieldVars, tripVars
  <2>1. TypeOK' /\ HandedIsHashed' /\ Settled'
    BY Outside DEF TypeOK, HandedIsHashed, Settled
  <2>2. Finalizing' /\ Published' /\ EndOfBody'
    BY DEF Finalizing, Finalizers, Published, EndOfBody
  <2>3. Waited' /\ Closed' /\ NothingLeaks'
    BY DEF Waited, Closed, NothingLeaks
  <2> QED
    BY <2>1, <2>2, <2>3
<1> QED
  BY <1>1, <1>2

\* A chunk is hashed and handed over, or hashed and kept until finalize ends.
LEMMA AccountStep ==
    ASSUME IndInv, Account
    PROVE  IndInv'
<1> DEFINE Rest == UNCHANGED <<closeVars, fieldVars, tripVars, canceled>>
<1>1. /\ reader = "account" /\ Rest
      /\ got \in Reads /\ got.count \in Nat
      /\ written = handed /\ written \in 0..MaxBytes /\ handed \in Nat
  BY Outside DEF Account, IndInv, TypeOK, Reads
<1>2. CASE terminal
  <2>1. /\ Return(0, TerminalError) /\ UNCHANGED bodyVars
    BY <1>2 DEF Account
  <2>2. result # "nil"
    BY <1>1 DEF IndInv, Published
  <2> USE <1>1, <2>1, <2>2, NothingType
      DEF IndInv, Return, TerminalError, bodyVars, closeVars, fieldVars, tripVars
  <2>3. TypeOK' /\ HandedIsHashed' /\ Settled'
    BY DEF TypeOK, HandedIsHashed, Settled
  <2>4. Finalizing' /\ Published' /\ EndOfBody'
    BY DEF Finalizing, Finalizers, Published, EndOfBody
  <2>5. Waited' /\ Closed' /\ NothingLeaks'
    BY DEF Waited, Closed, NothingLeaks
  <2> QED
    BY <2>3, <2>4, <2>5
<1>3. CASE ~terminal /\ (~Fits(got) \/ (got.count = 0 /\ got.err = "nil"))
  <2>1. PICK r \in Failures : Complete(r) /\ Return(0, "error") /\ UNCHANGED <<written, eofObserved>>
    BY <1>3 DEF Account, Failures
  <2> QED
    BY <1>1, <2>1, FailingRead
<1>4. CASE ~terminal /\ Fits(got) /\ ~(got.count = 0 /\ got.err = "nil")
  <2>1. written' = written + got.count /\ written' \in 0..MaxBytes
    BY <1>1, <1>4, PositiveLimits DEF Account, Fits
  <2>2. CASE got.err = "fail"
    BY <1>1, <1>4, <2>1, <2>2, FailingRead DEF Account, Failures
  <2>3. CASE got.err = "nil"
    <3>1. Return(got.count, "more") /\ UNCHANGED <<eofObserved, terminal, result, doneCloses>>
      BY <1>4, <2>3 DEF Account
    <3> USE <1>1, <1>4, <2>1, <3>1, NothingType
        DEF IndInv, Return, closeVars, fieldVars, tripVars
    <3>2. TypeOK' /\ HandedIsHashed' /\ Settled'
      BY DEF TypeOK, HandedIsHashed, Settled
    <3>3. Finalizing' /\ Published' /\ EndOfBody'
      BY DEF Finalizing, Finalizers, Published, EndOfBody
    <3>4. Waited' /\ Closed' /\ NothingLeaks'
      BY DEF Waited, Closed, NothingLeaks
    <3> QED
      BY <3>2, <3>3, <3>4
  <2>4. CASE got.err = "eof"
    <3>1. /\ eofObserved' = TRUE /\ reader' = "fields"
          /\ UNCHANGED <<got, lastRead, handed, terminal, result, doneCloses>>
      BY <1>4, <2>4 DEF Account
    <3> USE <1>1, <1>4, <2>1, <3>1 DEF IndInv, closeVars, fieldVars, tripVars
    <3>2. TypeOK' /\ HandedIsHashed' /\ Settled'
      BY DEF TypeOK, HandedIsHashed, Settled
    <3>3. Finalizing' /\ Published' /\ EndOfBody'
      BY DEF Finalizing, Finalizers, Published, EndOfBody
    <3>4. Waited' /\ Closed' /\ NothingLeaks'
      BY DEF Waited, Closed, NothingLeaks
    <3> QED
      BY <3>2, <3>3, <3>4
  <2> QED
    BY <1>1, <2>2, <2>3, <2>4 DEF Reads
<1> QED
  BY <1>2, <1>3, <1>4

\* A failed finalize publishes its error and hands over the bytes of the last chunk.
LEMMA FinalizeFailsStep ==
    ASSUME IndInv, reader \in Finalizers, FinalizeFails,
           UNCHANGED <<closeVars, fieldVars, tripVars, canceled>>
    PROVE  IndInv'
<1>1. got.count \in Nat /\ written = handed + got.count /\ written \in 0..MaxBytes
  BY PositiveLimits DEF IndInv, TypeOK, Reads, HandedIsHashed, Finalizers
<1> QED
  BY <1>1, FailingRead DEF FinalizeFails, Finalizers, Failures

LEMMA FinalizeFieldsStep ==
    ASSUME IndInv, FinalizeFields
    PROVE  IndInv'
<1>1. CASE FinalizeFails /\ UNCHANGED fieldVars
  BY <1>1, FinalizeFailsStep DEF FinalizeFields, Finalizers
<1>2. CASE /\ reader' = "sign"
           /\ trailer' = "digest" /\ digested' = written
           /\ UNCHANGED <<bodyVars, got, lastRead, handed>>
  <2> USE <1>2 DEF IndInv, FinalizeFields, bodyVars, closeVars, tripVars
  <2>1. TypeOK' /\ HandedIsHashed' /\ Settled'
    BY DEF TypeOK, HandedIsHashed, Settled
  <2>2. Finalizing' /\ Published' /\ EndOfBody'
    BY DEF Finalizing, Finalizers, Published, EndOfBody
  <2>3. Waited' /\ Closed' /\ NothingLeaks'
    BY DEF Waited, Closed, NothingLeaks
  <2> QED
    BY <2>1, <2>2, <2>3
<1> QED
  BY <1>1, <1>2 DEF FinalizeFields

LEMMA FinalizeSignStep ==
    ASSUME IndInv, FinalizeSign
    PROVE  IndInv'
<1>1. CASE FinalizeFails /\ UNCHANGED fieldVars
  BY <1>1, FinalizeFailsStep DEF FinalizeSign, Finalizers
<1>2. CASE /\ reader' = "complete" /\ trailer' = "signed"
           /\ UNCHANGED <<bodyVars, got, lastRead, handed, digested>>
  <2> USE <1>2 DEF IndInv, FinalizeSign, bodyVars, closeVars, tripVars
  <2>1. TypeOK' /\ HandedIsHashed' /\ Settled'
    BY DEF TypeOK, HandedIsHashed, Settled
  <2>2. Finalizing' /\ Published' /\ EndOfBody'
    BY DEF Finalizing, Finalizers, Published, EndOfBody
  <2>3. Waited' /\ Closed' /\ NothingLeaks'
    BY DEF Waited, Closed, NothingLeaks
  <2> QED
    BY <2>1, <2>2, <2>3
<1> QED
  BY <1>1, <1>2 DEF FinalizeSign

\* The end of a finalized Read: its nil result may lose against the error of a Close,
\* but EOF is reported over signed trailers in either case.
LEMMA FinishReadStep ==
    ASSUME IndInv, FinishRead
    PROVE  IndInv'
<1>1. /\ reader = "complete" /\ eofObserved /\ trailer = "signed" /\ digested = written
      /\ got.count \in Nat /\ written = handed + got.count /\ written \in 0..MaxBytes
  BY PositiveLimits DEF FinishRead, IndInv, TypeOK, Reads, HandedIsHashed, Finalizing, Finalizers
<1>2. /\ terminal' = TRUE /\ doneCloses' = 1
      /\ result' \in {"nil"} \cup Failures
      /\ terminal => result' = result
  BY CompleteOnce DEF FinishRead, IndInv
<1>3. result # "nil"
  BY <1>1 DEF IndInv, Published
<1> USE <1>1, <1>2, <1>3 DEF FinishRead, Return, closeVars, fieldVars, tripVars
<1>4. TypeOK'
  BY NothingType DEF IndInv, TypeOK
<1>5. HandedIsHashed' /\ Settled'
  BY <1>4 DEF IndInv, HandedIsHashed, Settled, TypeOK, Failures
<1>6. Finalizing' /\ Published' /\ EndOfBody'
  BY DEF IndInv, Finalizing, Finalizers, Published, EndOfBody
<1>7. Waited' /\ Closed' /\ NothingLeaks'
  BY DEF IndInv, Waited, Closed, NothingLeaks
<1> QED
  BY <1>4, <1>5, <1>6, <1>7 DEF IndInv
-----------------------------------------------------------------------------
(* Close and RoundTrip. *)

\* Steps that touch neither the reader nor what the mutex protects.
LEMMA OutsideBody ==
    ASSUME IndInv, UNCHANGED <<bodyVars, readVars, fieldVars>>
    PROVE  HandedIsHashed' /\ Settled' /\ Finalizing' /\ Published' /\ EndOfBody'
BY DEF IndInv, bodyVars, readVars, fieldVars, HandedIsHashed, Settled, Finalizing, Published,
       EndOfBody

LEMMA CloserStep ==
    ASSUME IndInv, NEW a \in Closers, TransportClose \/ EnterOnce(a) \/ UnderlyingClose(a)
    PROVE  IndInv'
<1> USE DEF TransportClose, EnterOnce, UnderlyingClose, CloserAt, bodyVars, readVars, fieldVars,
            tripVars
<1>1. UNCHANGED <<bodyVars, readVars, fieldVars>>
  OBVIOUS
<1>2. TypeOK'
  BY DEF IndInv, TypeOK, Closers
<1>3. Waited'
  BY DEF IndInv, Waited
<1>4. Closed'
  BY DEF IndInv, TypeOK, Closed, Closers
<1>5. NothingLeaks'
  BY DEF IndInv, NothingLeaks
<1> QED
  BY <1>1, <1>2, <1>3, <1>4, <1>5, OutsideBody DEF IndInv

\* Close completes the body of an attempt that ends before EOF or whose underlying
\* Close failed; the RoundTrip goroutine then closes the response.
LEMMA CloseLockStep ==
    ASSUME IndInv, NEW a \in Closers, CloseLock(a)
    PROVE  IndInv'
<1> USE DEF IndInv, CloserAt, readVars, fieldVars, tripVars
<1>1. /\ closer[a] = "lock" /\ closeOnce = "done"
      /\ closer' = [closer EXCEPT ![a] = "idle"]
      /\ UNCHANGED <<written, eofObserved, closeOnce, closeErr, readVars, fieldVars, canceled>>
  BY DEF CloseLock, Closed
<1>2. \/ UNCHANGED <<terminal, result, doneCloses>>
      \/ /\ terminal' = TRUE /\ doneCloses' = 1
         /\ result' \in {"nil"} \cup Failures
         /\ terminal => result' = result
         /\ ~terminal => result' = "bodyRead"
  BY CompleteOnce DEF CloseLock, Failures
<1>3. /\ trip' = "rejected" \/ trip' = trip
      /\ response' \in {response, "closed"}
      /\ trip' = "rejected" /\ trip # "rejected" => response' # "open"
  BY DEF CloseLock, AfterTripClose
<1>4. TypeOK'
  <2>1. terminal' \in BOOLEAN
    BY <1>2, Zenon DEF TypeOK
  <2>2. result' \in {"none", "nil"} \cup Failures /\ doneCloses' \in 0..1
    BY <1>2 DEF TypeOK
  <2>3. /\ closer' \in [Closers -> {"idle", "once", "closing", "lock"}]
        /\ UNCHANGED <<written, eofObserved, closeOnce, closeErr, reader, got, lastRead, handed,
                       trailer, digested, canceled>>
    BY <1>1 DEF TypeOK
  <2> QED
    BY <1>3, <2>1, <2>2, <2>3 DEF TypeOK
<1>5. HandedIsHashed' /\ Settled'
  BY <1>1, <1>2 DEF HandedIsHashed, Settled, TypeOK, Failures
<1>6. Finalizing' /\ Published' /\ EndOfBody'
  BY <1>1, <1>2 DEF Finalizing, Published, EndOfBody, Settled
<1>7. Waited' /\ Closed'
  BY <1>1, <1>2, <1>3 DEF Waited, Closed, TypeOK, Settled
<1>8. NothingLeaks'
  BY <1>1, <1>3 DEF NothingLeaks
<1> QED
  BY <1>4, <1>5, <1>6, <1>7, <1>8

LEMMA TripStep ==
    ASSUME IndInv, Trip
    PROVE  IndInv'
<1> USE DEF Trip, AfterTransport, Refuse, Delegate, TransportReturns, NilResponse, Select,
            CompletionError, CloserAt
<1>1. UNCHANGED <<bodyVars, readVars, fieldVars, canceled>>
  BY DEF bodyVars, readVars, fieldVars
<1> USE <1>1 DEF bodyVars, readVars, fieldVars, tripVars, closeVars
<1>2. TypeOK'
  BY DEF IndInv, TypeOK, Closers
<1>3. Waited'
  BY DEF IndInv, Waited, Settled, TypeOK
<1>4. Closed'
  BY DEF IndInv, TypeOK, Closed, Closers
<1>5. NothingLeaks'
  BY DEF IndInv, NothingLeaks, Waited, Settled
<1> QED
  BY <1>2, <1>3, <1>4, <1>5, OutsideBody DEF IndInv

LEMMA CancelStep ==
    ASSUME IndInv, Cancel \/ UNCHANGED vars
    PROVE  IndInv'
<1> USE DEF IndInv, Cancel, vars, bodyVars, closeVars, readVars, fieldVars, tripVars
<1>1. TypeOK'
  <2>1. canceled' \in BOOLEAN
    BY Zenon DEF TypeOK
  <2> QED
    BY <2>1 DEF TypeOK
<1>2. Waited' /\ Closed' /\ NothingLeaks'
  BY DEF Waited, Closed, NothingLeaks
<1> QED
  BY <1>1, <1>2, OutsideBody

LEMMA Inductive ==
    ASSUME IndInv, [Next]_vars
    PROVE  IndInv'
<1>1. CASE Reader
  BY <1>1, ReadStep, ReadContextStep, UnderlyingReadStep, AccountStep, FinalizeFieldsStep,
     FinalizeSignStep, FinishReadStep DEF Reader
<1>2. CASE TransportClose
  BY <1>2, CloserStep DEF Closers
<1>3. ASSUME NEW a \in Closers, Closing(a) PROVE IndInv'
  BY <1>3, CloserStep, CloseLockStep DEF Closing
<1>4. CASE Trip
  BY <1>4, TripStep
<1>5. CASE Cancel \/ UNCHANGED vars
  BY <1>5, CancelStep
<1> QED
  BY <1>1, <1>2, <1>3, <1>4, <1>5 DEF Next

LEMMA Invariance == Spec => []IndInv
<1>1. Init => IndInv
  BY InitIndInv
<1>2. IndInv /\ [Next]_vars => IndInv'
  BY Inductive
<1> QED
  BY <1>1, <1>2, PTL DEF Spec
-----------------------------------------------------------------------------
(* The theorems. *)

\* Every field of trailerSigningBody keeps its type; in particular no more than
\* MaxBytes bytes are ever hashed or handed to the transport.
THEOREM TypeCorrect == Spec => []TypeOK
<1>1. IndInv => TypeOK
  BY DEF IndInv
<1> QED
  BY <1>1, Invariance, PTL

\* RoundTrip releases a response only when the reader finished finalize: the whole
\* body was hashed, the digest covers it and the trailers are signed, whatever Close
\* and Read did meanwhile.
THEOREM ReleasedIsSigned == Spec => []ReleaseOnlyAfterSigning
<1>1. IndInv => ReleaseOnlyAfterSigning
  BY DEF IndInv, ReleaseOnlyAfterSigning, Waited, Published
<1> QED
  BY <1>1, Invariance, PTL

\* Read returns to the transport exactly the bytes it hashed; a chunk that arrives
\* after Close made the body terminal is neither hashed nor returned.
THEOREM HashedIsHanded == Spec => []HandedIsHashed
<1>1. IndInv => HandedIsHashed
  BY DEF IndInv
<1> QED
  BY <1>1, Invariance, PTL

\* Read reports a clean EOF only over signed trailers whose digest covers every byte
\* the transport was given.
THEOREM EOFIsSigned == Spec => []CleanEOFIsSigned
<1>1. IndInv => CleanEOFIsSigned
  BY DEF IndInv, CleanEOFIsSigned, EndOfBody, HandedIsHashed, TypeOK
<1> QED
  BY <1>1, Invariance, PTL

\* A RoundTrip that gives up closed the response it got, and the underlying body
\* unless the body already became terminal.
THEOREM NoLeak == Spec => []NothingLeaks
<1>1. IndInv => NothingLeaks
  BY DEF IndInv
<1> QED
  BY <1>1, Invariance, PTL

\* completeLocked under contention: once terminal, the result never changes, and the
\* completion channel is closed at most once (a second close would panic).
THEOREM ResultStands == Spec => FirstResultStands
<1>1. IndInv /\ IndInv' /\ [Next]_vars => [/\ terminal => UNCHANGED <<terminal, result>>
                                          /\ doneCloses' <= 1]_vars
  <2> SUFFICES ASSUME IndInv, IndInv', Next
               PROVE  (terminal => UNCHANGED <<terminal, result>>) /\ doneCloses' <= 1
    OBVIOUS
  <2>1. doneCloses' <= 1
    BY DEF IndInv, Settled
  <2>2. terminal => UNCHANGED <<terminal, result>>
    BY DEF Next, Reader, Closing, Trip, AfterTransport, Read, ReadContext, UnderlyingRead, Account,
           FinalizeFields, FinalizeSign, FinalizeFails, FinishRead, Complete, TransportClose,
           EnterOnce, UnderlyingClose, CloseLock, Refuse, Delegate, TransportReturns, NilResponse,
           Select, CompletionError, Cancel, bodyVars
  <2> QED
    BY <2>1, <2>2
<1> QED
  BY <1>1, Invariance, PTL DEF Spec, FirstResultStands
=============================================================================
