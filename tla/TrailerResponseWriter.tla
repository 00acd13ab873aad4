----------------------- MODULE TrailerResponseWriter -----------------------
(***************************************************************************)
(* One response of NewTrailerResponseSigningMiddleware and its             *)
(* trailerResponseWriter (body_integration.go).  A handler, which may do   *)
(* anything its http.ResponseWriter allows in any order, streams through   *)
(* the writer; when it returns, the middleware signs what was committed    *)
(* and hashed, or strips the signing fields and reports.                   *)
(*                                                                         *)
(* The header map is reduced to what decides a branch or must match on the *)
(* wire: the signing fields, the Trailer declaration, a framing field, one *)
(* application field, and keys under http.TrailerPrefix.  The underlying   *)
(* ResponseWriter is net/http's: it fixes the header at the first final    *)
(* WriteHeader and takes trailer values from the map when all is over.     *)
(***************************************************************************)
EXTENDS Integers, FiniteSets

CONSTANTS
    MaxBytes,     \* TrailerResponseSigningMiddlewareConfig.MaxBytes
    MaxChunk      \* the largest slice the handler writes

ASSUME PositiveLimits == MaxBytes \in Nat \ {0} /\ MaxChunk \in Nat \ {0}

VARIABLES
    connect,        \* the request's method is CONNECT
    header,         \* the shared header map
    \* fields of trailerResponseWriter
    status,         \* 0 until committed
    committed,      \* committedHeader and trailerNames
    written,        \* bytes hashed
    failure,        \* "nil" or the first error
    failureStatus,
    \* the call in progress, and its slice length
    pc, pending,
    \* what the underlying writer was given
    wire, sent,
    \* how the middleware ended
    signed, reports

streamVars == <<status, committed, written, failure, failureStatus>>
outVars    == <<signed, reports>>
vars == <<connect, header, status, committed, written, failure, failureStatus,
          pc, pending, wire, sent, signed, reports>>

Managed   == {"Content-Digest", "Signature-Input", "Signature"}
AppFields == {"none", "v1", "alias", "twice"} \* v1 under the canonical key, another spelling, both
LateKeys  == {"App", "X-Late", "x-late", "Bad"}
Statuses  == {101, 103, 200, 204, 304, 404}   \* one per class WriteHeader tells apart
Errors    == {"invalid", "ambiguous", "existing", "tooLarge", "bodyRead", "signing"}

Headers ==
    [protected : {"none", "handler", "twice", "signer"},
     declares  : SUBSET (Managed \cup {"App", "Bad"}),
     framing   : BOOLEAN,                     \* Content-Length or Transfer-Encoding
     app       : AppFields,
     late      : SUBSET LateKeys]

Cleared  == [protected |-> "none", declares |-> {}, framing |-> FALSE, app |-> "none", late |-> {}]
Fixed    == [app : AppFields, names : SUBSET (Managed \cup {"App"})]
NotFixed == [app |-> "none", names |-> {}]
Unsigned == [status |-> 0, header |-> NotFixed, trailers |-> {}, digest |-> 0]
NoWire   == [status |-> 0, header |-> NotFixed, framing |-> FALSE]

TypeOK ==
    /\ connect \in BOOLEAN /\ header \in Headers
    /\ status \in {0} \cup Statuses \cup {501} /\ committed \in Fixed
    /\ written \in 0..MaxBytes
    /\ failure \in {"nil"} \cup Errors /\ failureStatus \in {0, 501}
    /\ pc \in {"entry", "handler", "write", "flush", "returned", "sign", "done", "panicked"}
    /\ pending \in 0..MaxChunk
    /\ wire \in [status : {0, 500, 501} \cup Statuses, header : Fixed, framing : BOOLEAN]
    /\ sent \in Nat /\ reports \in Nat

\* An outer handler may have set signing fields before the middleware runs.
Init ==
    /\ connect \in BOOLEAN
    /\ header \in {[Cleared EXCEPT !.protected = p] : p \in {"none", "handler", "twice"}}
    /\ status = 0 /\ committed = NotFixed /\ written = 0
    /\ failure = "nil" /\ failureStatus = 0
    /\ pc = "entry" /\ pending = 0
    /\ wire = NoWire /\ sent = 0
    /\ signed = Unsigned /\ reports = 0
-----------------------------------------------------------------------------
(* The header map and the underlying writer. *)

\* normalizeProtectedHeader and hasSignatureOrDigestFields, as one classification.
FieldError(h) == CASE h.protected = "twice" -> "ambiguous"
                   [] h.protected = "handler" -> "existing"
                   [] OTHER -> "nil"

\* responseTrailerNames: the handler's names, if all are allowed, and the three managed.
trailerNames(h) == h.declares \cup Managed

Framed(h) == [h EXCEPT !.framing = FALSE, !.declares = trailerNames(h)]

Snapshot(h) == [app |-> h.app, names |-> h.declares]

\* The underlying WriteHeader of a final status.
Emit(s, h) == wire' = [status |-> s, header |-> Snapshot(h), framing |-> h.framing]

Canonical(key) == IF key = "x-late" THEN "X-Late" ELSE key

LateFields(h) == {<<Canonical(k), "late">> : k \in h.late}

\* Trailer fields the underlying writer sends at the end, a declared one from its canonical
\* key only; none with a fixed length.
SentTrailers ==
    IF wire.framing THEN {}
    ELSE LateFields(header)
         \cup (IF "App" \in wire.header.names /\ header.app \in {"v1", "twice"}
               THEN {<<"App", "v1">>} ELSE {})
         \cup {<<n, header.protected>> : n \in
                 IF header.protected = "none" THEN {} ELSE wire.header.names \cap Managed}

\* rejectUnsignedTrailerResponse.
RejectUnsigned(s) ==
    /\ header' = Cleared
    /\ Emit(s, Cleared)
    /\ reports' = reports + 1
    /\ pc' = "done"
-----------------------------------------------------------------------------
(* The middleware before the handler. *)

EnterRefused(s) ==
    /\ pc = "entry"
    /\ RejectUnsigned(s)
    /\ UNCHANGED <<connect, streamVars, pending, sent, signed>>

\* HEAD and HTTP/1.0 are refused with 501; a missing handler, ambiguous or existing
\* signing fields, and a failing callback with 500.  The rest goes to the handler.
Enter ==
    \/ \E s \in {500, 501} : EnterRefused(s)
    \/ /\ pc = "entry" /\ FieldError(header) = "nil"
       /\ pc' = "handler"
       /\ UNCHANGED <<connect, header, streamVars, pending, wire, sent, outVars>>
-----------------------------------------------------------------------------
(* trailerResponseWriter. *)

\* 101, 204 (for 205 too) and 304: no response of these can carry trailers.
Untrailered == {101, 204, 304}

\* The reason WriteHeader refuses a status or the header map, or "nil".
HeaderRefusal(s) ==
    IF s \in Untrailered THEN "invalid"
    ELSE IF FieldError(header) # "nil" THEN FieldError(header)
    ELSE IF "Bad" \in header.declares THEN "invalid"
    ELSE "nil"

\* Mutant: the handler's header goes out with the refusal.
rejectSuccessfulConnectDirty ==
    /\ failure' = "invalid" /\ status' = 501
    /\ Emit(501, Framed(header))
    /\ UNCHANGED <<header, committed, failureStatus>>

rejectSuccessfulConnect ==
    /\ failure' = "invalid" /\ status' = 501
    /\ header' = Cleared /\ Emit(501, Cleared)
    /\ UNCHANGED <<committed, failureStatus>>

\* Mutant: an informational status counts as the commit.
CommitAny(s) ==
    /\ header' = Framed(header)
    /\ status' = s /\ committed' = Snapshot(Framed(header))
    /\ IF s \in 100..199 THEN UNCHANGED wire ELSE Emit(s, Framed(header))
    /\ UNCHANGED <<failure, failureStatus>>

\* A final status commits; an informational one only rewrites the header map.
Commit(s) ==
    /\ header' = Framed(header)
    /\ IF s \in 100..199
       THEN UNCHANGED <<status, committed, wire>>
       ELSE /\ status' = s /\ committed' = Snapshot(Framed(header))
            /\ Emit(s, Framed(header))
    /\ UNCHANGED <<failure, failureStatus>>

writeHeader(s) ==
    IF failure # "nil" \/ status # 0
    THEN UNCHANGED <<failure, failureStatus, header, status, committed, wire>>
    ELSE \/ /\ connect /\ s \in 200..299 /\ rejectSuccessfulConnect
         \/ /\ ~(connect /\ s \in 200..299) /\ HeaderRefusal(s) # "nil"
            /\ failure' = HeaderRefusal(s)
            /\ failureStatus' = IF s \in Untrailered THEN 501 ELSE failureStatus
            /\ UNCHANGED <<header, status, committed, wire>>
         \/ /\ ~(connect /\ s \in 200..299) /\ HeaderRefusal(s) = "nil"
            /\ Commit(s)

WriteHeader(s) ==
    /\ pc = "handler"
    /\ writeHeader(s)
    /\ UNCHANGED <<connect, written, pc, pending, sent, outVars>>

\* Write and FlushError start alike: nothing after a failure, and an implicit 200.
Begin(label, n) ==
    /\ pc = "handler" /\ failure = "nil"
    /\ writeHeader(200)
    /\ pc' = (IF failure' = "nil" THEN label ELSE "handler")
    /\ pending' = (IF failure' = "nil" THEN n ELSE 0)
    /\ UNCHANGED <<connect, written, sent, outVars>>

Fail(err) == failure' = err /\ UNCHANGED failureStatus

\* The body of Write: the underlying writer takes count of the pending bytes, which
\* a broken one may report as more than it was given.
Write(count, err) ==
    /\ pc = "write"
    /\ pc' = "handler" /\ pending' = 0
    /\ \/ /\ pending > MaxBytes - written
          /\ Fail("tooLarge")
          /\ UNCHANGED <<written, sent>>
       \/ /\ pending <= MaxBytes - written /\ count > pending
          /\ Fail("bodyRead")
          /\ sent' = sent + pending
          /\ UNCHANGED written
       \/ /\ pending <= MaxBytes - written /\ count <= pending
          /\ written' = written + count
          /\ sent' = sent + count
          /\ IF err \/ count # pending
             THEN Fail("bodyRead")
             ELSE UNCHANGED <<failure, failureStatus>>
    /\ UNCHANGED <<connect, header, status, committed, wire, outVars>>

\* The body of FlushError; an unsupported flush is no failure.
Flush(broken) ==
    /\ pc = "flush"
    /\ pc' = "handler"
    /\ IF broken THEN Fail("bodyRead") ELSE UNCHANGED <<failure, failureStatus>>
    /\ UNCHANGED <<connect, header, status, committed, written, pending, wire, sent, outVars>>

\* Hijack and EnableFullDuplex.
rejectProtocolBypass ==
    /\ pc = "handler" /\ failure = "nil"
    /\ Fail("invalid")
    /\ UNCHANGED <<connect, header, status, committed, written, pc, pending, wire, sent, outVars>>

\* The handler writes to the header map at any time, before or after the commit.
SetHeader ==
    /\ pc = "handler"
    /\ header' \in  {[header EXCEPT !.protected = p] : p \in {"none", "handler", "twice"}}
               \cup {[header EXCEPT !.declares = d] : d \in SUBSET {"App", "Bad"}}
               \cup {[header EXCEPT !.framing = TRUE]}
               \cup {[header EXCEPT !.app = a] : a \in AppFields}
               \cup {[header EXCEPT !.late = l] : l \in SUBSET LateKeys}
    /\ UNCHANGED <<connect, streamVars, pc, pending, wire, sent, outVars>>
-----------------------------------------------------------------------------
(* The middleware after the handler. *)

\* ServeHTTP returns; a response never committed is committed with 200.
HandlerReturns ==
    /\ pc = "handler"
    /\ writeHeader(200)
    /\ pc' = "returned"
    /\ UNCHANGED <<connect, written, pending, sent, outVars>>

\* A panic passes through the middleware and net/http drops the connection.
HandlerPanics ==
    /\ pc = "handler"
    /\ pc' = "panicked"
    /\ UNCHANGED <<connect, header, streamVars, pending, wire, sent, outVars>>

\* Mutant: keys under http.TrailerPrefix stay.
StrippedDeclaredOnly(h) == [h EXCEPT !.protected = "none", !.declares = {}]

\* removeTrailerSigningFields.
Stripped(h) == [h EXCEPT !.protected = "none", !.declares = {}, !.late = {}]

\* Mutant: the response is stripped and ReportError is not called.
GiveUpSilently ==
    /\ header' = Stripped(header)
    /\ pc' = "done"
    /\ UNCHANGED reports

\* Every late failure: the fields are stripped and the error is reported.
GiveUp ==
    /\ header' = Stripped(header)
    /\ reports' = reports + 1
    /\ pc' = "done"

\* A failure before the commit replaces the response; a later one strips it.
Conclude ==
    /\ pc = "returned"
    /\ \/ /\ failure # "nil" /\ status = 0
          /\ RejectUnsigned(IF failureStatus = 0 THEN 500 ELSE failureStatus)
       \/ /\ \/ failure # "nil" /\ status # 0
             \/ failure = "nil" /\ FieldError(header) # "nil"
          /\ GiveUp
          /\ UNCHANGED wire
       \/ /\ failure = "nil" /\ FieldError(header) = "nil"
          /\ pc' = "sign"
          /\ UNCHANGED <<header, wire, reports>>
    /\ UNCHANGED <<connect, streamVars, pending, sent, signed>>

\* signingTrailers refuses a declared name spelled twice, a forbidden late name, and a
\* late name that is declared or given twice.
TrailersRefused ==
    \/ "App" \in committed.names /\ header.app = "twice"
    \/ "Bad" \in header.late
    \/ \E k \in header.late : Canonical(k) \in committed.names
    \/ {"X-Late", "x-late"} \subseteq header.late

\* protectedFieldValues finds a declared name under any spelling of its key.
signingTrailers ==
    LateFields(header)
    \cup (IF "App" \in committed.names /\ header.app # "none" THEN {<<"App", "v1">>} ELSE {})

\* Mutant: the response is signed with the header map as it is now.
SignedHeaderNow == Snapshot(header)

SignedHeader == committed

\* The trailers are collected, the signer is called, and its fields are set.
Sign ==
    /\ pc = "sign"
    /\ \/ GiveUp /\ UNCHANGED signed
       \/ /\ ~TrailersRefused
          /\ header' = [header EXCEPT !.protected = "signer"]
          /\ signed' = [status |-> status, header |-> SignedHeader,
                        trailers |-> signingTrailers, digest |-> written]
          /\ pc' = "done"
          /\ UNCHANGED reports
    /\ UNCHANGED <<connect, streamVars, pending, wire, sent>>
-----------------------------------------------------------------------------
Handler ==
    \/ SetHeader
    \/ \E s \in Statuses : WriteHeader(s)
    \/ \E n \in 0..MaxChunk : Begin("write", n)
    \/ \E count \in 0..MaxChunk + 1, err \in BOOLEAN : Write(count, err)
    \/ Begin("flush", 0)
    \/ \E broken \in BOOLEAN : Flush(broken)
    \/ rejectProtocolBypass
    \/ HandlerReturns
    \/ HandlerPanics

Next == Enter \/ Handler \/ Conclude \/ Sign

Spec == Init /\ [][Next]_vars
-----------------------------------------------------------------------------
(* Properties. *)

\* A declared trailer whose value is in the map under a spelling of its own.
Aliased == IF header.app = "alias" THEN {<<"App", "v1">>} ELSE {}

\* What the signature covers is what the client receives: the committed status and
\* header, whatever the handler did to the map since, a digest of exactly the bytes emitted,
\* and the trailers that go out.  One is signed and does not go out, and no other: a declared one
\* under a non-canonical key, which signingTrailers finds and net/http does not look for.
SignedIsSent ==
    signed # Unsigned =>
        /\ signed.status = wire.status
        /\ signed.header = wire.header
        /\ SentTrailers = (signed.trailers \ Aliased) \cup {<<n, "signer">> : n \in Managed}
        /\ signed.digest = sent

\* A response that could not be signed carries no signing field and no late trailer,
\* the handler's own included: "Every late failure clears signer-owned and
\* handler-injected protected trailer values".
UnsignedStaysBare ==
    pc = "done" /\ signed = Unsigned =>
        \A t \in SentTrailers : t[1] \notin Managed /\ t[2] # "late"

\* A response that ends is either signed or reported, once, never both; a failed one
\* is never signed.
SignedOrReported ==
    pc = "done" => IF signed = Unsigned THEN reports = 1
                   ELSE reports = 0 /\ failure = "nil"

\* A failure found before the commit reaches the client as an empty 500 or 501: no
\* byte, header field or status of the handler's.
FailedBeforeCommitIsEmpty ==
    pc = "done" /\ (status = 0 \/ status = 501) =>
        wire.status \in {500, 501} /\ wire.header = NotFixed /\ sent = 0

\* The client never gets more than MaxBytes, or a byte ahead of the final header.
BoundedBody == sent <= MaxBytes /\ (sent > 0 => wire.status \notin {0, 500, 501})
=============================================================================
