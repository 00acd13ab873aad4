--------------------------- MODULE ResponseExchange ---------------------------
(***************************************************************************)
(* A signed response from the handler that produces it to the client that  *)
(* accepts it: ResponseSigningMiddleware with its bufferedResponseWriter,  *)
(* or an application that signs an http.Response and calls Write, or a     *)
(* server that signs in trailers; then net/http and the network; then      *)
(* VerifyingRoundTripper, or BufferedTrailerVerifyingRoundTripper.         *)
(*                                                                         *)
(* Hashing and signing are ideal: a digest is the content it was computed  *)
(* of, a signature is the function from the covered components to their    *)
(* values.  Content is a sequence of bytes.  "content-digest:sha-256" is   *)
(* the component "content-digest";key="sha-256"; a header x that is not    *)
(* there is "absent".                                                      *)
(***************************************************************************)
EXTENDS ManagedFields, FiniteSets

CONSTANTS
  Setups,      \* configurations: [origin, method, struct, mode, algorithms, covers, existing, max, policy, clientMax]
  Headers,     \* headers a handler may set: [x, length, connection, digest, sig, bad]
  Statuses,    \* statuses it may pass to WriteHeader
  MaxSteps,    \* bound on the steps of a handler
  Faults       \* what may happen in transit: "none", "body", "x", "cut", "trailers", "unzip"

ManagedNames == {"content-length", "transfer-encoding", "trailer", "connection"}
DigestNames  == {"content-digest", "content-digest:sha-256"}

ResponseStructs ==
  [status : Nat, method : STRING, proto : STRING, length : Int, coding : Seq(STRING),
   body : {"nil", "NoBody", "empty", "bytes"}, trailer : BOOLEAN, close : BOOLEAN, connection : Seq(STRING),
   headerLength : Seq(Int), uncompressed : BOOLEAN]

\* NewResponseSigningMiddleware: computed digests must be covered, and the buffer has room.  The
\* trailer middleware refuses HEAD and CONNECT, and profiles that cover a field of the connection;
\* the profile of its verifier covers the digest.
\* An application that writes a response does not sign it as a received one.
\* NewVerifyingRoundTripper takes digest algorithms and a buffer limit together or not at all.
ASSUME SetupAssumption ==
  \A s \in Setups :
    /\ s.origin = "middleware" => s.max > 0 /\ (s.algorithms # {} => "content-digest" \in s.covers)
    /\ s.origin = "trailers" => /\ "content-digest" \in s.covers /\ s.policy # {} /\ s.clientMax > 0
                               /\ s.method \notin {"HEAD", "CONNECT"} /\ s.covers \cap ManagedNames = {}
    /\ s.origin = "direct" => s.struct \in ResponseStructs /\ s.method = s.struct.method /\ s.mode # "received"
    /\ s.origin \in {"middleware", "trailers", "direct"}
    /\ s.covers \subseteq {"@status", "x"} \cup ManagedNames \cup DigestNames
    /\ s.clientMax \in Nat /\ (s.policy # {} <=> s.clientMax > 0)

\* Statuses and lengths are numbers; a header may repeat Content-Length and Connection
ASSUME HandlerAssumption ==
  /\ Statuses \subseteq Nat
  /\ \A h \in Headers : h.length \in Seq(Nat) /\ h.connection \in Seq({"close", "keep-alive"})

VARIABLES
  setup,      \* the configuration of this exchange
  pc,         \* "handler", "wire", "received", "read", "digest", "verify", "returned", "failed"
  header, committed, status, body, tooLarge,    \* the bufferedResponseWriter
  steps,      \* steps the handler took
  wire,       \* the message on the wire
  got,        \* the http.Response the client's transport returned
  holding,    \* response.Body at the client: "none", "upstream", "copy"
  closes,     \* Close calls on the upstream body
  fault,      \* what happened in transit
  cause       \* why the client refused: "none", "message", or "local" (callbacks, keys, clocks, limits)

serverVars == <<header, committed, status, body, tooLarge, steps>>
clientVars == <<got, holding, closes, cause>>
vars == <<setup, pc, serverVars, wire, fault, clientVars>>

NoHeader == [x |-> "absent", length |-> <<>>, connection |-> <<>>, digest |-> FALSE, sig |-> "none", bad |-> FALSE]
NoWire == [sent |-> FALSE]
NoResponse == [status |-> 0]

Init ==
  /\ setup \in Setups
  /\ pc = "handler"
  /\ header = NoHeader /\ committed = NoHeader /\ status = 0 /\ body = <<>> /\ tooLarge = FALSE /\ steps = 0
  /\ wire = NoWire /\ fault = "none"
  /\ got = NoResponse /\ holding = "none" /\ closes = 0 /\ cause = "none"

(* ------------------------ bufferedResponseWriter ------------------------- *)
Handling == pc = "handler" /\ setup.origin = "middleware" /\ steps < MaxSteps /\ steps' = steps + 1
responseBodyAllowed(s) == s >= 200 /\ s \notin {204, 205, 304}

\* The handler changes the header map, before or after the commit
SetHeader(h) ==
  /\ Handling /\ h # header
  /\ header' = h
  /\ UNCHANGED <<setup, pc, committed, status, body, tooLarge, wire, fault, clientVars>>

\* Informational statuses are ignored, and so is every status after the first final one
WriteHeader(s) ==
  /\ Handling
  /\ IF s \in 100 .. 199 \ {101} \/ status # 0
     THEN UNCHANGED <<committed, status>>
     ELSE status' = s /\ committed' = header
  /\ UNCHANGED <<setup, pc, header, body, tooLarge, wire, fault, clientVars>>

Write ==
  LET s == IF status = 0 THEN 200 ELSE status
  IN  /\ Handling
      /\ status' = s
      /\ committed' = IF status = 0 THEN header ELSE committed
      /\ IF ~ responseBodyAllowed(s) THEN UNCHANGED <<body, tooLarge>>
         ELSE IF tooLarge \/ Len(body) + 1 > setup.max THEN tooLarge' = TRUE /\ UNCHANGED body
         ELSE body' = Append(body, "h") /\ UNCHANGED tooLarge
      /\ UNCHANGED <<setup, pc, header, wire, fault, clientVars>>

(* ----------------------- ResponseSigningMiddleware ----------------------- *)
FinalStatus == IF status = 0 THEN 200 ELSE status

\* Mutant: the header is read when the handler has returned
LiveHeader == header

\* bufferedResponseWriter.response: the header as it was at the first final status
FinalHeader == IF status = 0 THEN header ELSE committed

responseTransitionsProtocol(s, method) == s = 101 \/ (method = "CONNECT" /\ s \in 200 .. 299)

\* The content that is digested and sent
Content == IF setup.method = "HEAD" \/ ~ responseBodyAllowed(FinalStatus) THEN <<>> ELSE body

\* normalizeBuffered...ContentLength: response.ContentLength, the header it leaves, or a refusal
Length ==
  LET given == FinalHeader.length
      representation(fallback) ==
        IF given = <<>> THEN [length |-> fallback, header |-> IF fallback > 0 THEN <<fallback>> ELSE <<>>, ok |-> TRUE]
        ELSE [length |-> given[1], header |-> given, ok |-> Len(given) = 1]
  IN  IF setup.method = "HEAD" THEN representation(Len(body))
      ELSE IF FinalStatus = 304 THEN representation(0)
      ELSE IF ~ responseBodyAllowed(FinalStatus) THEN [length |-> 0, header |-> <<>>, ok |-> given = <<>>]
      ELSE [length |-> Len(body), header |-> <<Len(body)>>, ok |-> given \in {<<>>, <<Len(body)>>}]

\* ComputeDigests over the content, or the dictionary the handler set itself
Digests == IF setup.algorithms # {} THEN [a \in setup.algorithms |-> Content]
           ELSE IF FinalHeader.digest THEN [a \in {"sha-256", "sha-512"} |-> body] ELSE <<>>

\* The http.Response the middleware signs, with the Connection header of the handler
SignedStruct ==
  [ status |-> FinalStatus, method |-> setup.method, proto |-> "0.0", length |-> Length.length, coding |-> <<>>,
    body |-> IF body = <<>> THEN "empty" ELSE "bytes", trailer |-> FALSE, close |-> FALSE,
    connection |-> FinalHeader.connection, headerLength |-> Length.header, uncompressed |-> FALSE ]

\* The value of a covered component, <<>> or Unavailable when CreateSignatureBase fails
Value(name, r, mode, x, digests) ==
  CASE name = "@status" -> <<r.status>>
    [] name = "x" -> IF x = "absent" THEN <<>> ELSE <<x>>
    [] name \in ManagedNames -> ResponseField(r, mode, name)
    [] name = "content-digest" -> IF digests = <<>> THEN <<>> ELSE <<digests>>
    [] name = "content-digest:sha-256" -> IF digests # <<>> /\ "sha-256" \in DOMAIN digests THEN <<digests["sha-256"]>> ELSE <<>>

SignedValues(r, mode, x, digests) == [name \in setup.covers |-> Value(name, r, mode, x, digests)]
Signable(values) == \A name \in setup.covers : Available(values[name])

\* net/http's server (external) drops the length of a status without a body and adds a zero length
ServerLength ==
  IF ~ responseWriteBodyAllowed(FinalStatus) THEN <<>>
  ELSE IF Length.header = <<>> /\ Content = <<>> /\ setup.method # "HEAD" THEN <<0>> ELSE Length.header

\* It closes the connection when it has to, and then replaces the handler's Connection header (the
\* request is one of HTTP/1.1)
ServerConnection(own, hangsUp) == IF hangsUp THEN <<"close">> ELSE own

Emit(s, x, fields, digests, signature, content, trailers) ==
  wire' = [ sent |-> TRUE, status |-> s, x |-> x, fields |-> fields, digests |-> digests, signature |-> signature,
            content |-> content, trailers |-> trailers ]

PlainFields(length, connection) == Wire(length, <<>>, FALSE, connection)

\* Every early return of the middleware hands the original writer to MapError: an unsigned response
\* with nothing of the handler in it.  appendSignedFields keeps existing pairs and refuses the label
\* when it is already there.
MiddlewareRefuses ==
  \/ tooLarge \/ responseTransitionsProtocol(FinalStatus, setup.method)
  \/ FinalHeader.bad \/ ~ Length.ok
  \/ setup.algorithms # {} /\ FinalHeader.digest
  \/ FinalHeader.sig # "none" /\ (setup.existing = "reject" \/ FinalHeader.sig \in {"broken", "same-label"})
  \/ ~ Signable(SignedValues(SignedStruct, "write", FinalHeader.x, Digests))

MapError(hangsUp) == Emit(500, "absent", PlainFields(<<0>>, ServerConnection(<<>>, hangsUp)), <<>>, <<>>, <<>>, FALSE)

Respond(hangsUp) ==
  /\ pc = "handler" /\ setup.origin = "middleware"
  /\ pc' = "wire"
  /\ \/ MapError(hangsUp)       \* some check failed, or the Options or ExternalContext callback, or the signing key
     \/ /\ ~ MiddlewareRefuses
        /\ Emit(FinalStatus, FinalHeader.x,
                PlainFields(ServerLength, ServerConnection(FinalHeader.connection, hangsUp)), Digests,
                SignedValues(SignedStruct, "write", FinalHeader.x, Digests), Content, FALSE)
  /\ UNCHANGED <<setup, serverVars, fault, clientVars>>

\* An application signs the http.Response it is about to Write
RespondDirectly ==
  LET values == SignedValues(setup.struct, setup.mode, "absent", <<>>)
  IN  /\ pc = "handler" /\ setup.origin = "direct"
      /\ Signable(values)
      /\ pc' = "wire"
      /\ Emit(setup.struct.status, "absent", WireOfResponse(setup.struct), <<>>, values, <<>>, FALSE)
      /\ UNCHANGED <<setup, serverVars, fault, clientVars>>

\* configureTrailerSigningResponse: the http.Response the trailer middleware signs over HTTP/1.1
TrailerStruct ==
  [ status |-> 200, method |-> setup.method, proto |-> "1.1", length |-> -1, coding |-> <<"chunked">>,
    body |-> "NoBody", trailer |-> TRUE, close |-> FALSE, connection |-> <<>>, headerLength |-> <<>>,
    uncompressed |-> FALSE ]

\* TrailerResponseWriter's promise: digest and signature arrive in the trailers, or neither does
RespondInTrailers ==
  LET digests == [a \in setup.algorithms |-> <<"h", "h">>]
      values  == SignedValues(TrailerStruct, "write", "absent", digests)
      fields  == Wire(<<>>, <<"chunked">>, TRUE, <<>>)
  IN  /\ pc = "handler" /\ setup.origin = "trailers"
      /\ pc' = "wire"
      /\ \/ Emit(200, "absent", fields, <<>>, <<>>, <<"h", "h">>, FALSE)
         \/ Signable(values) /\ Emit(200, "absent", fields, digests, values, <<"h", "h">>, TRUE)
      /\ UNCHANGED <<setup, serverVars, fault, clientVars>>

(* ------------------------------- transit --------------------------------- *)
\* Whoever replaces the body can also replace every digest the signature does not cover
Forged(digests, covers) ==
  IF digests = <<>> \/ "content-digest" \in covers THEN digests
  ELSE [a \in DOMAIN digests |-> IF a = "sha-256" /\ "content-digest:sha-256" \in covers THEN digests[a] ELSE <<"f", "f">>]

Transit(f) ==
  /\ pc = "wire" /\ fault = "none" /\ f # "none"
  /\ CASE f = "body"     -> wire' = [wire EXCEPT !.content = <<"f", "f">>, !.digests = Forged(@, setup.covers)]
       [] f = "x"        -> wire' = [wire EXCEPT !.x = "forged"]
       [] f = "trailers" -> wire.trailers /\ wire' = [wire EXCEPT !.digests = <<>>, !.signature = <<>>]
       [] OTHER          -> UNCHANGED wire
  /\ fault' = f
  /\ UNCHANGED <<setup, pc, serverVars, clientVars>>

(* --------------------- the verifying round trippers ---------------------- *)
\* The transport's answer; it may have decompressed the content
Receive(keepsClose) ==
  /\ pc = "wire"
  /\ pc' = "received"
  /\ LET minor11 == setup.origin # "direct" \/ setup.struct.proto = "1.1"
     IN  got' = [ReadResponse(wire.fields, wire.status, setup.method, minor11, keepsClose)
                   EXCEPT !.uncompressed = (fault = "unzip")]
  /\ holding' = "upstream"
  /\ UNCHANGED <<setup, serverVars, wire, fault, closes, cause>>

verifiesContent == setup.covers \cap DigestNames # {}

\* signatureInputAuthenticatesResponseContentDigest
AuthenticatesDigestPolicy ==
  "content-digest" \in setup.covers \/ \A a \in setup.policy : a = "sha-256" /\ "content-digest:sha-256" \in setup.covers

\* Mutant: the helper returns without closing
FailOpen(why) ==
  /\ pc' = "failed" /\ cause' = why
  /\ holding' = "none"
  /\ UNCHANGED <<setup, serverVars, wire, fault, got, closes>>

\* fail closes whatever response.Body is
Fail(why) ==
  /\ pc' = "failed" /\ cause' = why
  /\ closes' = IF holding = "upstream" THEN closes + 1 ELSE closes
  /\ holding' = "none"
  /\ UNCHANGED <<setup, serverVars, wire, fault, got>>

Proceed(to) == pc' = to /\ UNCHANGED <<setup, serverVars, wire, fault, clientVars>>

\* VerifyingRoundTripper: the checks before it reads the body
RefusedUnread ==
  \/ wire.signature = <<>>
  \/ verifiesContent /\ ( \/ setup.policy = {} \/ setup.clientMax = 0
                          \/ ~ AuthenticatesDigestPolicy
                          \/ responseTransitionsProtocol(got.status, setup.method)
                          \/ got.uncompressed
                          \/ wire.digests = <<>> )

Select ==
  /\ pc = "received" /\ setup.origin # "trailers"
  /\ \/ Fail("local")                                  \* ambiguous fields, SelectLabel
     \/ RefusedUnread /\ Fail("message")
     \/ ~ RefusedUnread /\ Proceed(IF verifiesContent THEN "read" ELSE "verify")

\* BufferedTrailerVerifyingRoundTripper has no field to look at before it reads the body
SelectInTrailers ==
  LET refused == responseTransitionsProtocol(got.status, setup.method) \/ got.uncompressed
  IN  /\ pc = "received" /\ setup.origin = "trailers"
      /\ \/ Fail("local")
         \/ refused /\ Fail("message")
         \/ ~ refused /\ Proceed("read")

\* readBoundedAndClose: the body is closed on every path; a read or Close error, a context that is
\* done and an oversized body return no content
ReadAndClose ==
  /\ pc = "read"
  /\ closes' = closes + 1 /\ holding' = "none"
  /\ \/ pc' = "failed" /\ cause' = (IF fault = "cut" \/ Len(wire.content) > setup.clientMax THEN "message" ELSE "local")
     \/ fault # "cut" /\ Len(wire.content) <= setup.clientMax /\ pc' = "digest" /\ UNCHANGED cause
  /\ UNCHANGED <<setup, serverVars, wire, fault, got>>

\* DigestField.Verify: every required algorithm is there and matches; then the body is replaced
DigestMatches == wire.digests # <<>> /\ \A a \in setup.policy : a \in DOMAIN wire.digests /\ wire.digests[a] = wire.content

Replace ==
  /\ holding' = "copy" /\ pc' = "verify"
  /\ UNCHANGED <<setup, serverVars, wire, fault, got, closes, cause>>

CheckDigest ==
  /\ pc = "digest" /\ setup.origin # "trailers"
  /\ \/ Fail("local")                                  \* the trailers read with the body are ambiguous
     \/ ~ DigestMatches /\ Fail("message")
     \/ DigestMatches /\ Replace

\* The trailers are there now: digest first, then the signature and its label
CheckTrailers ==
  /\ pc = "digest" /\ setup.origin = "trailers"
  /\ \/ Fail("local")                                  \* ambiguous trailers, SelectLabel
     \/ ~ (DigestMatches /\ wire.signature # <<>>) /\ Fail("message")
     \/ DigestMatches /\ wire.signature # <<>> /\ Replace

\* Mutant: the signature is checked on the response with the length of the content that was read
SignatureVerifiesReplaced ==
  SignedValues(IF verifiesContent THEN [got EXCEPT !.length = Len(wire.content)] ELSE got, "received", wire.x, wire.digests)
    = wire.signature

\* Verifier.Verify on the message as received; its length is still the one of the wire
SignatureVerifies == SignedValues(got, "received", wire.x, wire.digests) = wire.signature

VerifySignature ==
  /\ pc = "verify"
  /\ \/ Fail("local")                                  \* ExternalContext, time, key and replay policy
     \/ ~ SignatureVerifies /\ Fail("message")
     \/ SignatureVerifies /\ Proceed("returned")

\* The transport fails: its answer is passed on
TransportError ==
  /\ pc = "wire"
  /\ pc' = "failed" /\ cause' = "local"
  /\ UNCHANGED <<setup, serverVars, wire, fault, got, holding, closes>>

Next ==
  \/ \E h \in Headers : SetHeader(h)
  \/ \E s \in Statuses : WriteHeader(s)
  \/ Write \/ (\E hangsUp \in BOOLEAN : Respond(hangsUp)) \/ RespondDirectly \/ RespondInTrailers
  \/ \E f \in Faults : Transit(f)
  \/ \E k \in BOOLEAN : Receive(k)
  \/ Select \/ SelectInTrailers \/ ReadAndClose \/ CheckDigest \/ CheckTrailers \/ VerifySignature \/ TransportError

Spec == Init /\ [][Next]_vars

(* ----------------------------- properties -------------------------------- *)
\* What the client accepts is what the handler had committed: the header of the first final status,
\* not one changed later, and, when the signature covers the digest, exactly the content the handler
\* wrote (none for HEAD and bodyless statuses), whatever happened in transit.
AcceptedIsCommitted ==
  pc = "returned" /\ setup.origin = "middleware" =>
    LET h == IF status = 0 THEN header ELSE committed
    IN  /\ "@status" \in setup.covers => got.status = (IF status = 0 THEN 200 ELSE status)
        /\ "x" \in setup.covers => wire.x = h.x
        /\ verifiesContent /\ wire.content # body =>
             wire.content = <<>> /\ (setup.method = "HEAD" \/ ~ responseBodyAllowed(got.status))

\* Whatever VerifyingRoundTripper and BufferedTrailerVerifyingRoundTripper return, the body of the
\* upstream response has one owner: after an error it was closed once, after a success it was closed
\* once and replaced by the verified copy, or it is handed to the caller open.
UpstreamBodySettled ==
  /\ pc = "failed" => closes = (IF got = NoResponse THEN 0 ELSE 1)
  /\ pc = "returned" => (closes = 1 /\ holding = "copy") \/ (closes = 0 /\ holding = "upstream" /\ ~ verifiesContent)

\* An http.Response whose body the writer probes; responseWriteClosesConnection looks for length -1
ProbedConnection(name, r) ==
  name = "connection" /\ r.length = 0 /\ r.body = "bytes" /\ Http11(r) /\ ~ hasChunked(r.coding) /\ ~ r.uncompressed

\* The value the signer covers for a field that net/http manages is the value on the wire.  Three
\* differences are left, and nothing else is: the server sends no Content-Length for a 304, or a 204
\* to HEAD, where the middleware signs the handler's; it replaces the handler's Connection when it
\* closes the connection; and Response.Write adds close after probing a body of unknown length.
SignedIsOnWire ==
  pc = "wire" /\ fault = "none" /\ wire.signature # <<>> =>
    \A name \in setup.covers \cap ManagedNames :
      \/ wire.fields[name] = wire.signature[name]
      \/ /\ setup.origin = "middleware" /\ name = "content-length"
         /\ ~ responseWriteBodyAllowed(wire.status) /\ wire.fields[name] = <<>>
      \/ setup.origin = "middleware" /\ name = "connection" /\ wire.fields[name] = <<"close">>
      \/ /\ setup.origin = "direct" /\ ProbedConnection(name, setup.struct)
         /\ wire.fields[name] = <<"close">> \o wire.signature[name]

\* "no signature/wire differential": every managed field that is signed is sent with the value that
\* was signed.  Violated by each of the three differences SignedIsOnWire names.
NoDifferential ==
  pc = "wire" /\ fault = "none" /\ wire.signature # <<>> =>
    \A name \in setup.covers \cap ManagedNames : wire.fields[name] = wire.signature[name]

\* The policies of the two ends fit: the client can check what the server computes, and a digest of
\* the handler's own is of the content that is sent, which for HEAD is not what the handler wrote
Compatible ==
  verifiesContent => /\ setup.policy # {} /\ AuthenticatesDigestPolicy
                     /\ wire.digests # <<>> /\ setup.policy \subseteq DOMAIN wire.digests
                     /\ Len(wire.content) <= setup.clientMax
                     /\ setup.origin = "middleware" /\ setup.algorithms = {} => wire.content = body

\* A signed response that arrives intact is not refused on account of the message, except where the
\* client cannot know the field's value on the wire (Trailer, Connection, a coding under HTTP/1.0) or
\* where the signer was wrong about it.
IntactAccepted ==
  pc = "failed" /\ cause = "message" /\ fault = "none" /\ wire.signature # <<>> /\ Compatible =>
    \E name \in setup.covers :
      \/ name \in {"trailer", "connection"}
      \/ setup.origin = "direct" /\ ~ Http11(setup.struct) /\ name = "transfer-encoding"
      \/ name = "content-length" /\ ~ responseWriteBodyAllowed(wire.status)
===============================================================================
