-------------------- MODULE TrailerResponseWriterProofs --------------------
(***************************************************************************)
(* Proofs about TrailerResponseWriter for every byte limit and chunk size. *)
(* The handler keeps the header map until it returns, so the argument is   *)
(* about what the writer fixed at the commit and never reads again from    *)
(* the map: Committed ties it to what the underlying writer was given, and *)
(* the two ways a response ends, Signed and Bare, start from there.        *)
(***************************************************************************)
EXTENDS TrailerResponseWriter, TLAPS

\* What the position in the middleware says about the writer.
Progress ==
    /\ pc = "entry" => failure = "nil" /\ status = 0
    /\ pc # "done" => signed = Unsigned /\ reports = 0
    /\ pc \in {"write", "flush", "sign"} => failure = "nil"
    /\ pc \in {"write", "flush", "returned", "sign"} => failure # "nil" \/ status # 0

\* Before the commit the underlying writer has nothing, unless the middleware has
\* replaced the response.
Uncommitted ==
    status = 0 =>
        /\ sent = 0
        /\ IF pc = "done" THEN wire.status \in {500, 501} /\ wire.header = NotFixed
                          ELSE wire = NoWire

\* The refusal of a successful CONNECT is final.
Refused ==
    status = 501 =>
        /\ failure # "nil" /\ sent = 0
        /\ wire.status = 501 /\ wire.header = NotFixed

\* A commit by the handler is what went out, with the managed names declared.
Committed ==
    status \notin {0, 501} =>
        /\ wire.status = status /\ wire.header = committed /\ wire.framing = FALSE
        /\ Managed \subseteq committed.names

\* Until the first failure exactly the hashed bytes went out.
Counted ==
    /\ failure = "nil" => sent = written
    /\ sent \in 0..MaxBytes

\* A signed response was committed and did not fail.
Signed ==
    signed # Unsigned =>
        /\ pc = "done" /\ reports = 0 /\ failure = "nil"
        /\ status \notin {0, 501} /\ header.protected = "signer"
        /\ signed = [status |-> status, header |-> committed,
                     trailers |-> signingTrailers, digest |-> written]

\* Any other response that ended was reported once and stripped.
Bare ==
    pc = "done" /\ signed = Unsigned =>
        reports = 1 /\ header.protected = "none" /\ header.late = {}

IndInv ==
    /\ TypeOK /\ Progress /\ Uncommitted /\ Refused
    /\ Committed /\ Counted /\ Signed /\ Bare

-----------------------------------------------------------------------------
(* The header map and what is fixed from it. *)

LEMMA ClearedType ==
    /\ Cleared \in Headers /\ NotFixed \in Fixed
    /\ Snapshot(Cleared) = NotFixed /\ Cleared.framing = FALSE
    /\ Cleared.protected = "none" /\ Cleared.late = {}
BY DEF Cleared, Headers, NotFixed, Fixed, Snapshot, AppFields

\* Without a forbidden declaration the framed map can be fixed, with the managed names.
LEMMA FramedType ==
    ASSUME NEW h \in Headers
    PROVE  /\ Framed(h) \in Headers /\ Framed(h).framing = FALSE
           /\ "Bad" \notin h.declares => Snapshot(Framed(h)) \in Fixed
           /\ Managed \subseteq Snapshot(Framed(h)).names
<1>1. h.declares \subseteq Managed \cup {"App", "Bad"} /\ h.app \in AppFields
  BY DEF Headers
<1>2. trailerNames(h) \subseteq Managed \cup {"App", "Bad"} /\ Managed \subseteq trailerNames(h)
  BY <1>1 DEF trailerNames
<1>3. "Bad" \notin h.declares => trailerNames(h) \subseteq Managed \cup {"App"}
  BY <1>1 DEF trailerNames, Managed
<1>4. Framed(h) \in Headers
  BY <1>2 DEF Headers, Framed
<1>5. /\ Framed(h).framing = FALSE /\ Framed(h).app = h.app
      /\ Framed(h).declares = trailerNames(h)
  BY DEF Framed, Headers
<1>6. Snapshot(Framed(h)) = [app |-> h.app, names |-> trailerNames(h)]
  BY <1>5 DEF Snapshot
<1>7. "Bad" \notin h.declares => Snapshot(Framed(h)) \in Fixed
  BY <1>1, <1>3, <1>6 DEF Fixed
<1> QED BY <1>2, <1>4, <1>5, <1>6, <1>7

LEMMA StrippedType ==
    ASSUME NEW h \in Headers
    PROVE  /\ Stripped(h) \in Headers
           /\ Stripped(h).protected = "none" /\ Stripped(h).late = {}
BY DEF Headers, Stripped

LEMMA InitIndInv == Init => IndInv
<1> SUFFICES ASSUME Init PROVE IndInv
  OBVIOUS
<1> USE PositiveLimits, ClearedType DEF Init
<1>1. header \in Headers
  BY DEF Headers, Cleared
<1>2. wire = NoWire /\ NoWire \in [status : {0, 500, 501} \cup Statuses, header : Fixed, framing : BOOLEAN]
  BY DEF NoWire
<1>3. connect \in BOOLEAN
  BY Zenon
<1>4. TypeOK
  BY <1>1, <1>2, <1>3 DEF TypeOK
<1> QED
  BY <1>4 DEF IndInv, Progress, Uncommitted, Refused, Committed, Counted, Signed, Bare
-----------------------------------------------------------------------------
(* One step of each kind. *)

\* What every call that may commit leaves behind, wherever it goes on.
LEMMA HeaderWritten ==
    ASSUME IndInv, NEW s \in Statuses, pc = "handler", writeHeader(s),
           UNCHANGED <<connect, written, sent, signed, reports>>,
           pc' \in {"handler", "write", "flush", "returned"},
           pc' \in {"write", "flush"} => failure' = "nil",
           pc' # "handler" => failure' # "nil" \/ status' # 0,
           pending' \in 0..MaxChunk
    PROVE  IndInv'
<1> USE DEF IndInv
<1>1. CASE failure # "nil" \/ status # 0
  <2>1. UNCHANGED <<failure, failureStatus, header, status, committed, wire>>
    BY <1>1 DEF writeHeader
  <2>2. TypeOK'
    BY <2>1 DEF TypeOK
  <2>3. Progress' /\ Uncommitted' /\ Refused' /\ Committed' /\ Counted'
    BY <1>1, <2>1 DEF Progress, Uncommitted, Refused, Committed, Counted
  <2>4. Signed' /\ Bare'
    BY DEF Signed, Bare, Progress
  <2> QED BY <2>2, <2>3, <2>4
<1>2. CASE ~(failure # "nil" \/ status # 0) /\ rejectSuccessfulConnect
  <2>1. /\ failure' = "invalid" /\ status' = 501 /\ header' = Cleared
        /\ wire' = [status |-> 501, header |-> NotFixed, framing |-> FALSE]
        /\ UNCHANGED <<committed, failureStatus>>
    BY <1>2, ClearedType DEF rejectSuccessfulConnect, Emit
  <2>2. wire' \in [status : {0, 500, 501} \cup Statuses, header : Fixed, framing : BOOLEAN]
    BY <2>1, ClearedType
  <2>3. TypeOK'
    BY <2>1, <2>2, ClearedType DEF TypeOK, Errors
  <2>4. Progress' /\ Uncommitted' /\ Refused' /\ Committed' /\ Counted'
    BY <1>2, <2>1 DEF Progress, Uncommitted, Refused, Committed, Counted
  <2>5. Signed' /\ Bare'
    BY DEF Signed, Bare, Progress
  <2> QED BY <2>3, <2>4, <2>5
<1>3. CASE /\ ~(failure # "nil" \/ status # 0) /\ HeaderRefusal(s) # "nil"
           /\ failure' = HeaderRefusal(s)
           /\ failureStatus' = IF s \in Untrailered THEN 501 ELSE failureStatus
           /\ UNCHANGED <<header, status, committed, wire>>
  <2>1. failure' \in Errors /\ failure' # "nil"
    BY <1>3 DEF HeaderRefusal, FieldError, Errors
  <2>2. TypeOK'
    BY <1>3, <2>1 DEF TypeOK
  <2>3. Progress' /\ Uncommitted' /\ Refused' /\ Committed' /\ Counted'
    BY <1>3, <2>1 DEF Progress, Uncommitted, Refused, Committed, Counted
  <2>4. Signed' /\ Bare'
    BY DEF Signed, Bare, Progress
  <2> QED BY <2>2, <2>3, <2>4
<1>4. CASE ~(failure # "nil" \/ status # 0) /\ HeaderRefusal(s) = "nil" /\ Commit(s)
  <2>1. header \in Headers /\ "Bad" \notin header.declares
    BY <1>4 DEF TypeOK, HeaderRefusal
  <2>2. /\ Framed(header) \in Headers /\ Framed(header).framing = FALSE
        /\ Snapshot(Framed(header)) \in Fixed
        /\ Managed \subseteq Snapshot(Framed(header)).names
    BY <2>1, FramedType
  <2>3. header' = Framed(header) /\ UNCHANGED <<failure, failureStatus>>
    BY <1>4 DEF Commit
  <2>4. Signed' /\ Bare'
    BY DEF Signed, Bare, Progress
  <2>5. CASE s \in 100..199
    <3>1. UNCHANGED <<status, committed, wire>>
      BY <1>4, <2>5 DEF Commit
    <3>2. TypeOK'
      BY <2>2, <2>3, <3>1 DEF TypeOK
    <3>3. Progress' /\ Uncommitted' /\ Refused' /\ Committed' /\ Counted'
      BY <2>3, <3>1 DEF Progress, Uncommitted, Refused, Committed, Counted
    <3> QED BY <2>4, <3>2, <3>3
  <2>6. CASE s \notin 100..199
    <3>1. /\ status' = s /\ committed' = Snapshot(Framed(header))
          /\ wire' = [status |-> s, header |-> Snapshot(Framed(header)), framing |-> FALSE]
      BY <1>4, <2>2, <2>6 DEF Commit, Emit
    <3>2. wire' \in [status : {0, 500, 501} \cup Statuses, header : Fixed, framing : BOOLEAN]
      BY <2>2, <3>1
    <3>3. TypeOK'
      BY <2>2, <2>3, <3>1, <3>2 DEF TypeOK
    <3>4. s \notin {0, 501}
      BY DEF Statuses
    <3>5. Progress' /\ Uncommitted' /\ Refused' /\ Committed' /\ Counted'
      BY <1>4, <2>2, <2>3, <3>1, <3>4 DEF Progress, Uncommitted, Refused, Committed, Counted
    <3> QED BY <2>4, <3>3, <3>5
  <2> QED BY <2>5, <2>6
<1> QED BY <1>1, <1>2, <1>3, <1>4 DEF writeHeader

\* An implicit 200 leaves the response failed or committed.
LEMMA ImplicitCommit ==
    ASSUME writeHeader(200) PROVE failure' # "nil" \/ status' # 0
BY DEF writeHeader, rejectSuccessfulConnect, Commit

\* rejectUnsignedTrailerResponse ends a response that was never committed.
LEMMA RejectedKeeps ==
    ASSUME IndInv, NEW s \in {500, 501}, status = 0, pc # "done", RejectUnsigned(s),
           UNCHANGED <<connect, streamVars, pending, sent, signed>>
    PROVE  IndInv'
<1> USE DEF IndInv
<1>1. /\ header' = Cleared /\ reports' = 1 /\ pc' = "done"
      /\ wire' = [status |-> s, header |-> NotFixed, framing |-> FALSE]
  <2>1. wire' = [status |-> s, header |-> NotFixed, framing |-> FALSE]
    BY ClearedType DEF RejectUnsigned, Emit
  <2>2. reports' = 1
    BY DEF RejectUnsigned, Progress
  <2> QED BY <2>1, <2>2 DEF RejectUnsigned
<1>2. wire' \in [status : {0, 500, 501} \cup Statuses, header : Fixed, framing : BOOLEAN]
  BY <1>1, ClearedType
<1>3. TypeOK'
  BY <1>1, <1>2, ClearedType DEF TypeOK, streamVars
<1>4. Progress' /\ Uncommitted' /\ Refused' /\ Committed' /\ Counted'
  BY <1>1, ClearedType DEF Progress, Uncommitted, Refused, Committed, Counted, streamVars
<1>5. Signed' /\ Bare'
  BY <1>1, ClearedType DEF Signed, Bare, Progress
<1> QED BY <1>3, <1>4, <1>5

\* A response already committed is stripped.
LEMMA GiveUpKeeps ==
    ASSUME IndInv, pc # "done", status # 0, GiveUp,
           UNCHANGED <<connect, streamVars, pending, wire, sent, signed>>
    PROVE  IndInv'
<1> USE DEF IndInv
<1>1. /\ header' = Stripped(header) /\ reports' = 1 /\ pc' = "done"
      /\ header' \in Headers /\ header'.protected = "none" /\ header'.late = {}
  BY StrippedType DEF GiveUp, Progress, TypeOK
<1>2. TypeOK'
  BY <1>1 DEF TypeOK, streamVars
<1>3. Progress' /\ Uncommitted' /\ Refused' /\ Committed' /\ Counted'
  BY <1>1 DEF Progress, Uncommitted, Refused, Committed, Counted, streamVars
<1>4. Signed' /\ Bare'
  BY <1>1 DEF Signed, Bare, Progress
<1> QED BY <1>2, <1>3, <1>4

LEMMA WriteKeeps ==
    ASSUME IndInv, NEW count \in 0..MaxChunk + 1, NEW err \in BOOLEAN, Write(count, err)
    PROVE  IndInv'
<1> USE PositiveLimits DEF IndInv
<1>1. /\ pc = "write" /\ pc' = "handler" /\ pending' = 0 /\ failure = "nil" /\ status # 0
      /\ status # 501
      /\ UNCHANGED <<connect, header, status, committed, wire, signed, reports>>
  BY DEF Write, Progress, Refused, outVars
<1>2. /\ written \in 0..MaxBytes /\ pending \in 0..MaxChunk /\ sent = written
  BY <1>1 DEF TypeOK, Counted
<1>3. /\ written' \in 0..MaxBytes /\ sent' \in 0..MaxBytes
      /\ failure' \in {"nil"} \cup Errors /\ failureStatus' = failureStatus
      /\ failure' = "nil" => sent' = written'
  <2>1. CASE pending > MaxBytes - written /\ Fail("tooLarge") /\ UNCHANGED <<written, sent>>
    BY <1>2, <2>1 DEF Fail, Errors
  <2>2. CASE /\ pending <= MaxBytes - written /\ count > pending /\ Fail("bodyRead")
             /\ sent' = sent + pending /\ UNCHANGED written
    BY <1>2, <2>2 DEF Fail, Errors
  <2>3. CASE /\ pending <= MaxBytes - written /\ count <= pending
             /\ written' = written + count /\ sent' = sent + count
             /\ IF err \/ count # pending THEN Fail("bodyRead")
                ELSE UNCHANGED <<failure, failureStatus>>
    <3>1. written' \in 0..MaxBytes /\ sent' = written'
      BY <1>2, <2>3
    <3>2. failure' \in {"nil", "bodyRead"} /\ failureStatus' = failureStatus
      BY <1>1, <2>3 DEF Fail
    <3> QED BY <3>1, <3>2 DEF Errors
  <2> QED BY <2>1, <2>2, <2>3 DEF Write
<1>4. TypeOK'
  BY <1>1, <1>3 DEF TypeOK
<1>5. Progress' /\ Uncommitted' /\ Refused' /\ Committed' /\ Counted'
  BY <1>1, <1>3 DEF Progress, Uncommitted, Refused, Committed, Counted
<1>6. Signed' /\ Bare'
  BY <1>1 DEF Signed, Bare, Progress
<1> QED BY <1>4, <1>5, <1>6

LEMMA SignKeeps == ASSUME IndInv, Sign PROVE IndInv'
<1> USE DEF IndInv
<1>1. /\ pc = "sign" /\ failure = "nil" /\ status \notin {0, 501} /\ signed = Unsigned /\ reports = 0
      /\ UNCHANGED <<connect, streamVars, pending, wire, sent>>
  BY DEF Sign, Progress, Refused
<1>2. CASE GiveUp /\ UNCHANGED signed
  BY <1>1, <1>2, GiveUpKeeps
<1>3. CASE /\ header' = [header EXCEPT !.protected = "signer"]
           /\ signed' = [status |-> status, header |-> SignedHeader,
                         trailers |-> signingTrailers, digest |-> written]
           /\ pc' = "done" /\ UNCHANGED reports
  <2>1. /\ header' \in Headers /\ header'.protected = "signer"
        /\ header'.late = header.late /\ header'.app = header.app
    BY <1>3 DEF TypeOK, Headers
  <2>2. UNCHANGED <<status, committed, written, failure, failureStatus>>
    BY <1>1 DEF streamVars
  <2>3. signingTrailers' = signingTrailers
    BY <2>1, <2>2 DEF signingTrailers, LateFields
  <2>4. signed'.status = status /\ Unsigned.status = 0
    BY <1>3 DEF Unsigned
  <2>5. signed' # Unsigned
    BY <1>1, <2>4
  <2>6. TypeOK'
    BY <1>1, <1>3, <2>1, <2>2 DEF TypeOK
  <2>7. Progress' /\ Uncommitted' /\ Refused' /\ Committed' /\ Counted'
    BY <1>1, <1>3, <2>2 DEF Progress, Uncommitted, Refused, Committed, Counted
  <2>8. Signed' /\ Bare'
    BY <1>1, <1>3, <2>1, <2>2, <2>3, <2>5 DEF Signed, Bare, SignedHeader
  <2> QED BY <2>6, <2>7, <2>8
<1> QED BY <1>2, <1>3 DEF Sign

LEMMA ConcludeKeeps == ASSUME IndInv, Conclude PROVE IndInv'
<1> USE DEF IndInv
<1>1. pc = "returned" /\ UNCHANGED <<connect, streamVars, pending, sent, signed>>
  BY DEF Conclude
<1>2. CASE /\ failure # "nil" /\ status = 0
           /\ RejectUnsigned(IF failureStatus = 0 THEN 500 ELSE failureStatus)
  <2> DEFINE s == IF failureStatus = 0 THEN 500 ELSE failureStatus
  <2>1. s \in {500, 501}
    BY DEF TypeOK
  <2>2. RejectUnsigned(s)
    BY <1>2
  <2> HIDE DEF s
  <2> QED BY <1>1, <1>2, <2>1, <2>2, RejectedKeeps
<1>3. CASE /\ \/ failure # "nil" /\ status # 0
              \/ failure = "nil" /\ FieldError(header) # "nil"
           /\ GiveUp /\ UNCHANGED wire
  <2>1. status # 0
    BY <1>1, <1>3 DEF Progress
  <2> QED BY <1>1, <1>3, <2>1, GiveUpKeeps
<1>4. CASE failure = "nil" /\ pc' = "sign" /\ UNCHANGED <<header, wire, reports>>
  <2>1. UNCHANGED <<status, committed, written, failure, failureStatus>>
    BY <1>1 DEF streamVars
  <2>2. TypeOK'
    BY <1>1, <1>4, <2>1 DEF TypeOK
  <2>3. Progress' /\ Uncommitted' /\ Refused' /\ Committed' /\ Counted'
    BY <1>1, <1>4, <2>1 DEF Progress, Uncommitted, Refused, Committed, Counted
  <2>4. Signed' /\ Bare'
    BY <1>1, <1>4 DEF Signed, Bare, Progress
  <2> QED BY <2>2, <2>3, <2>4
<1> QED BY <1>2, <1>3, <1>4 DEF Conclude

LEMMA EnterKeeps == ASSUME IndInv, Enter PROVE IndInv'
<1> USE DEF IndInv
<1>1. ASSUME NEW s \in {500, 501}, EnterRefused(s) PROVE IndInv'
  <2>1. /\ status = 0 /\ pc # "done" /\ RejectUnsigned(s)
        /\ UNCHANGED <<connect, streamVars, pending, sent, signed>>
    BY <1>1 DEF EnterRefused, Progress
  <2> QED BY <2>1, RejectedKeeps
<1>2. CASE /\ pc = "entry" /\ pc' = "handler"
           /\ UNCHANGED <<connect, header, streamVars, pending, wire, sent, outVars>>
  <2>1. UNCHANGED <<status, committed, written, failure, failureStatus, signed, reports>>
    BY <1>2 DEF streamVars, outVars
  <2>2. TypeOK'
    BY <1>2, <2>1 DEF TypeOK
  <2>3. Progress' /\ Uncommitted' /\ Refused' /\ Committed' /\ Counted'
    BY <1>2, <2>1 DEF Progress, Uncommitted, Refused, Committed, Counted
  <2>4. Signed' /\ Bare'
    BY <1>2, <2>1 DEF Signed, Bare, Progress
  <2> QED BY <2>2, <2>3, <2>4
<1> QED BY <1>1, <1>2 DEF Enter

\* A step that leaves the writer's fixed state alone, inside or out of the handler.
LEMMA HandlerKeeps ==
    ASSUME IndInv, pc \in {"handler", "flush"}, pc' \in {"handler", "panicked"},
           header' \in Headers, failure' \in {failure} \cup Errors,
           UNCHANGED <<connect, status, committed, written, failureStatus, pending, wire, sent,
                       signed, reports>>
    PROVE  IndInv'
<1> USE DEF IndInv
<1>1. TypeOK'
  BY DEF TypeOK
<1>2. failure' = "nil" => failure = "nil"
  BY DEF Errors, TypeOK
<1>3. status = 501 => failure' # "nil"
  BY <1>2 DEF Refused
<1>4. Progress' /\ Uncommitted' /\ Refused' /\ Committed' /\ Counted'
  BY <1>2, <1>3 DEF Progress, Uncommitted, Refused, Committed, Counted
<1>5. Signed' /\ Bare'
  BY DEF Signed, Bare, Progress
<1> QED BY <1>1, <1>4, <1>5

LEMMA NextIndInv == IndInv /\ [Next]_vars => IndInv'
<1> SUFFICES ASSUME IndInv, [Next]_vars PROVE IndInv'
  OBVIOUS
<1>0. header \in Headers /\ pending \in 0..MaxChunk /\ 200 \in Statuses
  BY DEF IndInv, TypeOK, Statuses
<1>1. CASE Enter
  BY <1>1, EnterKeeps
<1>2. CASE SetHeader
  <2>1. header' \in Headers
    <3>1. ASSUME NEW p \in {"none", "handler", "twice"} PROVE [header EXCEPT !.protected = p] \in Headers
      BY <1>0 DEF Headers
    <3>2. ASSUME NEW d \in SUBSET {"App", "Bad"} PROVE [header EXCEPT !.declares = d] \in Headers
      BY <1>0 DEF Headers
    <3>3. [header EXCEPT !.framing = TRUE] \in Headers
      BY <1>0 DEF Headers
    <3>4. ASSUME NEW a \in AppFields PROVE [header EXCEPT !.app = a] \in Headers
      BY <1>0 DEF Headers
    <3>5. ASSUME NEW l \in SUBSET LateKeys PROVE [header EXCEPT !.late = l] \in Headers
      BY <1>0 DEF Headers
    <3> QED BY <1>2, <3>1, <3>2, <3>3, <3>4, <3>5 DEF SetHeader
  <2> QED BY <1>2, <2>1, HandlerKeeps DEF SetHeader, streamVars, outVars
<1>3. ASSUME NEW s \in Statuses, WriteHeader(s) PROVE IndInv'
  BY <1>0, <1>3, HeaderWritten DEF WriteHeader, outVars
<1>4. ASSUME NEW n \in 0..MaxChunk, NEW label \in {"write", "flush"}, Begin(label, n) PROVE IndInv'
  <2>1. /\ pc = "handler" /\ writeHeader(200) /\ pc' \in {"handler", label}
        /\ pc' = label => failure' = "nil"
        /\ UNCHANGED <<connect, written, sent, signed, reports>>
    BY <1>4 DEF Begin, outVars
  <2>2. pending' \in 0..MaxChunk
    BY <1>4, PositiveLimits DEF Begin
  <2> QED BY <1>0, <2>1, <2>2, HeaderWritten, ImplicitCommit
<1>5. ASSUME NEW count \in 0..MaxChunk + 1, NEW err \in BOOLEAN, Write(count, err) PROVE IndInv'
  BY <1>5, WriteKeeps
<1>6. ASSUME NEW broken \in BOOLEAN, Flush(broken) PROVE IndInv'
  <2>1. failure' \in {failure} \cup Errors /\ UNCHANGED failureStatus
    BY <1>6 DEF Flush, Fail, Errors
  <2> QED BY <1>0, <1>6, <2>1, HandlerKeeps DEF Flush, outVars
<1>7. CASE rejectProtocolBypass
  <2>1. failure' \in {failure} \cup Errors /\ UNCHANGED failureStatus
    BY <1>7 DEF rejectProtocolBypass, Fail, Errors
  <2> QED BY <1>0, <1>7, <2>1, HandlerKeeps DEF rejectProtocolBypass, outVars
<1>8. CASE HandlerReturns
  BY <1>0, <1>8, HeaderWritten, ImplicitCommit DEF HandlerReturns, outVars
<1>9. CASE HandlerPanics
  BY <1>0, <1>9, HandlerKeeps DEF HandlerPanics, streamVars, outVars
<1>10. CASE Conclude
  BY <1>10, ConcludeKeeps
<1>11. CASE Sign
  BY <1>11, SignKeeps
<1>12. CASE UNCHANGED vars
  <2>1. TypeOK'
    BY <1>12 DEF vars, IndInv, TypeOK
  <2>2. Progress' /\ Uncommitted' /\ Refused' /\ Committed' /\ Counted'
    BY <1>12 DEF vars, IndInv, Progress, Uncommitted, Refused, Committed, Counted
  <2>3. Signed' /\ Bare'
    BY <1>12 DEF vars, IndInv, Signed, Bare, signingTrailers, LateFields
  <2> QED BY <2>1, <2>2, <2>3 DEF IndInv
<1>13. 0 \in 0..MaxChunk
  BY PositiveLimits
<1>14. CASE Handler
  BY <1>14, <1>2, <1>3, <1>4, <1>5, <1>6, <1>7, <1>8, <1>9, <1>13 DEF Handler
<1> QED BY <1>1, <1>10, <1>11, <1>12, <1>14 DEF Next

LEMMA Invariance == Spec => []IndInv
BY InitIndInv, NextIndInv, PTL DEF Spec

\* The written state is typed, for every limit.
THEOREM TypeCorrect == Spec => []TypeOK
<1>1. IndInv => TypeOK
  BY DEF IndInv
<1> QED BY <1>1, Invariance, PTL

\* NewTrailerResponseSigningMiddleware signs the status and header that were committed,
\* the bytes that went out, and the trailers net/http takes from the map at the end,
\* whatever the handler did to the map after the commit; of the trailers that are signed
\* only a declared one under a non-canonical key is not sent.
THEOREM SignatureMatchesWire == Spec => []SignedIsSent
<1>1. ASSUME IndInv, signed # Unsigned
      PROVE  /\ signed.status = wire.status /\ signed.header = wire.header
             /\ SentTrailers = (signed.trailers \ Aliased) \cup {<<n, "signer">> : n \in Managed}
             /\ signed.digest = sent
  <2>1. /\ signed = [status |-> status, header |-> committed,
                     trailers |-> signingTrailers, digest |-> written]
        /\ header.protected = "signer" /\ failure = "nil" /\ status \notin {0, 501}
    BY <1>1 DEF IndInv, Signed
  <2>2. /\ wire.status = status /\ wire.header = committed /\ wire.framing = FALSE
        /\ Managed \subseteq committed.names
    BY <1>1, <2>1 DEF IndInv, Committed
  <2>3. sent = written
    BY <1>1, <2>1 DEF IndInv, Counted
  <2>4. committed.names \cap Managed = Managed
    BY <2>2
  <2>5. SentTrailers = (signingTrailers \ Aliased) \cup {<<n, "signer">> : n \in Managed}
    <3> DEFINE Own(P, N) == {<<n, P>> : n \in IF P = "none" THEN {} ELSE N \cap Managed}
               Sends == IF "App" \in committed.names /\ header.app \in {"v1", "twice"}
                        THEN {<<"App", "v1">>} ELSE {}
               Signs == IF "App" \in committed.names /\ header.app # "none"
                        THEN {<<"App", "v1">>} ELSE {}
    <3>1. SentTrailers = LateFields(header) \cup Sends \cup Own("signer", committed.names)
      BY <2>1, <2>2 DEF SentTrailers
    <3>2. Own("signer", committed.names) = {<<n, "signer">> : n \in Managed}
      BY <2>4
    <3>3. signingTrailers = LateFields(header) \cup Signs
      BY DEF signingTrailers
    <3>4. <<"App", "v1">> \notin LateFields(header)
      BY DEF LateFields
    <3>5. LateFields(header) \ Aliased = LateFields(header)
      BY <3>4 DEF Aliased
    <3>6. header.app \in AppFields
      BY <1>1 DEF IndInv, TypeOK, Headers
    <3>7. Signs \ Aliased = Sends
      BY <3>6 DEF Aliased, AppFields
    <3> HIDE DEF Sends, Signs, Own
    <3>8. signingTrailers \ Aliased = LateFields(header) \cup Sends
      BY <3>3, <3>5, <3>7
    <3> QED BY <3>1, <3>2, <3>8
  <2> QED BY <2>1, <2>2, <2>3, <2>5
<1>2. IndInv => SignedIsSent
  BY <1>1 DEF SignedIsSent
<1> QED BY <1>2, Invariance, PTL

\* removeTrailerSigningFields and rejectUnsignedTrailerResponse leave no signing field
\* and no key under http.TrailerPrefix for the underlying writer to send.
THEOREM UnsignedIsBare == Spec => []UnsignedStaysBare
<1>1. ASSUME IndInv, pc = "done", signed = Unsigned, NEW t \in SentTrailers
      PROVE  t[1] \notin Managed /\ t[2] # "late"
  <2>1. header.protected = "none" /\ header.late = {} /\ header.app \in AppFields
    BY <1>1 DEF IndInv, Bare, TypeOK, Headers
  <2>2. LateFields(header) = {}
    BY <2>1 DEF LateFields
  <2>3. t = <<"App", "v1">>
    BY <1>1, <2>1, <2>2 DEF SentTrailers
  <2> QED BY <2>3 DEF Managed
<1>2. IndInv => UnsignedStaysBare
  BY <1>1 DEF UnsignedStaysBare
<1> QED BY <1>2, Invariance, PTL

\* Every response that ends is signed or reported, never both, and a failed writer's
\* is not signed.
THEOREM EndsSignedOrReported == Spec => []SignedOrReported
<1>1. IndInv => SignedOrReported
  BY DEF IndInv, SignedOrReported, Signed, Bare
<1> QED BY <1>1, Invariance, PTL

\* A failure found before the commit leaves nothing of the handler's on the wire.
THEOREM EarlyFailureIsEmpty == Spec => []FailedBeforeCommitIsEmpty
<1>1. IndInv => FailedBeforeCommitIsEmpty
  BY DEF IndInv, FailedBeforeCommitIsEmpty, Uncommitted, Refused
<1> QED BY <1>1, Invariance, PTL

\* trailerResponseWriter.Write never lets more than MaxBytes out, and nothing before a
\* final status of the handler's.
THEOREM BodyIsBounded == Spec => []BoundedBody
<1>1. ASSUME IndInv PROVE BoundedBody
  <2>1. sent \in 0..MaxBytes
    BY <1>1 DEF IndInv, Counted
  <2>2. ASSUME sent > 0 PROVE wire.status \notin {0, 500, 501}
    <3>1. status \notin {0, 501}
      BY <1>1, <2>2 DEF IndInv, Uncommitted, Refused
    <3>2. status \in Statuses /\ wire.status = status
      BY <1>1, <3>1 DEF IndInv, TypeOK, Committed
    <3> QED BY <3>2 DEF Statuses
  <2> QED BY <2>1, <2>2, PositiveLimits DEF BoundedBody
<1> QED BY <1>1, Invariance, PTL
=============================================================================
