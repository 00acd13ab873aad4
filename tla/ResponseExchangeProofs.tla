------------------------ MODULE ResponseExchangeProofs ------------------------
(***************************************************************************)
(* Proofs about ResponseExchange for every configuration, header, status   *)
(* and number of handler steps.  Three arguments are made along the life   *)
(* of an exchange: who owns the upstream body at each statement of the     *)
(* client (Owner); what the signature on the wire was computed from        *)
(* (Sealed, Vetted), whatever happened in transit; and what is on the wire *)
(* and read back from it when nothing happened (Undisturbed, ReadBack).    *)
(***************************************************************************)
EXTENDS ResponseExchange, SequenceTheorems, TLAPS

Places == {"handler", "wire", "received", "read", "digest", "verify", "returned", "failed"}

\* At each statement of the client: the transport's answer, the body it carries and
\* how often the upstream body was closed.
Owner ==
  /\ pc \in Places
  /\ pc \in {"handler", "wire"} => got = NoResponse /\ holding = "none" /\ closes = 0
  /\ pc \in {"received", "read"} => got # NoResponse /\ holding = "upstream" /\ closes = 0
  /\ pc = "digest" => got # NoResponse /\ holding = "none" /\ closes = 1
  /\ pc = "verify" =>
       /\ got # NoResponse
       /\ \/ holding = "copy" /\ closes = 1
          \/ holding = "upstream" /\ closes = 0 /\ ~ verifiesContent
  /\ UpstreamBodySettled

-------------------------------------------------------------------------------
\* A response that was read is not the absent response.
LEMMA ReadIsResponse ==
  ASSUME NEW k \in BOOLEAN, Receive(k)
  PROVE  got' # NoResponse
<1>1. "method" \in DOMAIN got'
  BY DEF Receive, ReadResponse
<1>2. DOMAIN NoResponse = {"status"}
  BY DEF NoResponse
<1> QED
  BY <1>1, <1>2

\* Any refusal of the client settles the upstream body.
LEMMA FailSettles ==
  ASSUME Owner, NEW why, Fail(why), pc \in {"received", "digest", "verify"}
  PROVE  Owner'
BY DEF Owner, Fail, UpstreamBodySettled, Places

LEMMA OwnerInductive ==
  ASSUME Owner, [Next]_vars
  PROVE  Owner'
<1> USE DEF clientVars, serverVars
<1>1. ASSUME NEW h \in Headers, SetHeader(h) PROVE Owner'
  BY <1>1 DEF SetHeader, Handling, Owner, UpstreamBodySettled, Places, verifiesContent
<1>2. ASSUME NEW s \in Statuses, WriteHeader(s) PROVE Owner'
  BY <1>2 DEF WriteHeader, Handling, Owner, UpstreamBodySettled, Places, verifiesContent
<1>3. CASE Write
  BY <1>3 DEF Write, Handling, Owner, UpstreamBodySettled, Places, verifiesContent
<1>4. CASE (\E hangsUp \in BOOLEAN : Respond(hangsUp)) \/ RespondDirectly \/ RespondInTrailers
  BY <1>4 DEF Respond, RespondDirectly, RespondInTrailers, Owner, UpstreamBodySettled, Places
<1>5. ASSUME NEW f \in Faults, Transit(f) PROVE Owner'
  BY <1>5 DEF Transit, Owner, UpstreamBodySettled, Places, verifiesContent
<1>6. ASSUME NEW k \in BOOLEAN, Receive(k) PROVE Owner'
  <2>1. got' # NoResponse
    BY <1>6, ReadIsResponse
  <2> QED
    BY <1>6, <2>1 DEF Receive, Owner, UpstreamBodySettled, Places
<1>7. CASE Select \/ SelectInTrailers
  <2>1. ASSUME NEW why, Fail(why), pc = "received" PROVE Owner'
    BY <2>1, FailSettles
  <2>2. CASE pc = "received" /\ Proceed("read")
    BY <2>2 DEF Proceed, Owner, UpstreamBodySettled, Places
  <2>3. CASE pc = "received" /\ Proceed("verify") /\ ~ verifiesContent
    BY <2>3 DEF Proceed, Owner, UpstreamBodySettled, Places, verifiesContent
  <2> QED
    BY <1>7, <2>1, <2>2, <2>3 DEF Select, SelectInTrailers
<1>8. CASE ReadAndClose
  BY <1>8 DEF ReadAndClose, Owner, UpstreamBodySettled, Places
<1>9. CASE CheckDigest \/ CheckTrailers
  <2>1. ASSUME NEW why, Fail(why), pc = "digest" PROVE Owner'
    BY <2>1, FailSettles
  <2>2. CASE pc = "digest" /\ Replace
    BY <2>2 DEF Replace, Owner, UpstreamBodySettled, Places
  <2> QED
    BY <1>9, <2>1, <2>2 DEF CheckDigest, CheckTrailers
<1>10. CASE VerifySignature
  <2>1. ASSUME NEW why, Fail(why), pc = "verify" PROVE Owner'
    BY <2>1, FailSettles
  <2>2. CASE pc = "verify" /\ Proceed("returned")
    BY <2>2 DEF Proceed, Owner, UpstreamBodySettled, Places, verifiesContent
  <2> QED
    BY <1>10, <2>1, <2>2 DEF VerifySignature
<1>11. CASE TransportError
  BY <1>11 DEF TransportError, Owner, UpstreamBodySettled, Places
<1>12. CASE UNCHANGED vars
  BY <1>12 DEF vars, Owner, UpstreamBodySettled, Places, verifiesContent
<1> QED
  BY <1>1, <1>2, <1>3, <1>4, <1>5, <1>6, <1>7, <1>8, <1>9, <1>10, <1>11, <1>12 DEF Next

-------------------------------------------------------------------------------
(* What is accepted was committed. *)

WireNames == {"sent", "status", "x", "fields", "digests", "signature", "content", "trailers"}

SignedByMiddleware == SignedValues(SignedStruct, "write", FinalHeader.x, Digests)
SentByMiddleware(hangsUp) == PlainFields(ServerLength, ServerConnection(FinalHeader.connection, hangsUp))

\* A message is on the wire; in transit nothing but its content, digests, "x" and the
\* presence of its trailers changes.
Sealed ==
  pc # "handler" =>
    /\ DOMAIN wire = WireNames
    /\ setup.origin = "middleware" /\ wire.signature # <<>> =>
         wire.signature = SignedByMiddleware /\ wire.status = FinalStatus

\* What VerifyingRoundTripper has established at each of its statements.
Vetted ==
  /\ pc \in {"received", "read", "digest", "verify", "returned"} => got.status = wire.status
  /\ setup.origin = "middleware" =>
       /\ pc \in {"read", "digest", "verify", "returned"} =>
            wire.signature # <<>> /\ (verifiesContent => ~ RefusedUnread)
       /\ pc \in {"verify", "returned"} => (verifiesContent => DigestMatches)
       /\ pc = "returned" => SignatureVerifies

CommitInv == Sealed /\ Vetted

\* The middleware's decisions depend on the configuration and the buffered writer only.
LEMMA ServerSettled ==
  ASSUME UNCHANGED <<setup, serverVars>>
  PROVE  SignedByMiddleware' = SignedByMiddleware /\ FinalStatus' = FinalStatus
<1> USE DEF serverVars
<1>1. FinalStatus' = FinalStatus /\ FinalHeader' = FinalHeader
  BY DEF FinalStatus, FinalHeader
<1>2. Content' = Content /\ Length' = Length
  BY <1>1 DEF Content, Length
<1>3. Digests' = Digests
  BY <1>1, <1>2 DEF Digests
<1>4. SignedStruct' = SignedStruct
  BY <1>1, <1>2 DEF SignedStruct
<1>5. SignedByMiddleware' = SignedByMiddleware
  BY <1>1, <1>3, <1>4 DEF SignedByMiddleware, SignedValues
<1> QED
  BY <1>1, <1>5

\* Once the message is sent, a step that leaves it alone keeps it sealed.
LEMMA SealedKept ==
  ASSUME Sealed, pc # "handler", UNCHANGED <<setup, serverVars, wire>>
  PROVE  Sealed'
BY ServerSettled DEF Sealed

LEMMA EmitSeals ==
  ASSUME NEW s, NEW x, NEW f, NEW d, NEW sig, NEW c, NEW tr, Emit(s, x, f, d, sig, c, tr)
  PROVE  DOMAIN wire' = WireNames /\ wire'.signature = sig /\ wire'.status = s
BY DEF Emit, WireNames

LEMMA SealedInductive ==
  ASSUME Owner, Sealed, [Next]_vars
  PROVE  Sealed'
<1> USE DEF clientVars
<1>1. CASE (\E h \in Headers : SetHeader(h)) \/ (\E s \in Statuses : WriteHeader(s)) \/ Write
  BY <1>1 DEF SetHeader, WriteHeader, Write, Handling, Sealed
<1>2. ASSUME NEW hangsUp \in BOOLEAN, Respond(hangsUp) PROVE Sealed'
  <2>1. UNCHANGED <<setup, serverVars>>
    BY <1>2 DEF Respond
  <2>2. CASE MapError(hangsUp)
    <3>1. DOMAIN wire' = WireNames /\ wire'.signature = <<>>
      BY <2>2 DEF MapError, Emit, WireNames
    <3> QED
      BY <3>1 DEF Sealed
  <2>3. CASE Emit(FinalStatus, FinalHeader.x, SentByMiddleware(hangsUp), Digests, SignedByMiddleware, Content, FALSE)
    <3>1. /\ DOMAIN wire' = WireNames /\ wire'.signature = SignedByMiddleware
          /\ wire'.status = FinalStatus
      BY <2>3, EmitSeals
    <3> QED
      BY <2>1, <3>1, ServerSettled DEF Sealed
  <2> QED
    BY <1>2, <2>2, <2>3 DEF Respond, SentByMiddleware, SignedByMiddleware
<1>3. CASE RespondDirectly \/ RespondInTrailers
  <2>1. setup'.origin # "middleware"
    BY <1>3 DEF RespondDirectly, RespondInTrailers
  <2>2. DOMAIN wire' = WireNames
    BY <1>3, EmitSeals DEF RespondDirectly, RespondInTrailers
  <2> QED
    BY <2>1, <2>2 DEF Sealed
<1>4. ASSUME NEW f \in Faults, Transit(f) PROVE Sealed'
  <2>1. pc = "wire" /\ UNCHANGED <<setup, serverVars>>
    BY <1>4 DEF Transit
  <2>2. /\ DOMAIN wire' = WireNames /\ wire'.status = wire.status
        /\ wire'.signature \in {wire.signature, <<>>}
    BY <1>4, <2>1 DEF Transit, Sealed, WireNames
  <2> QED
    BY <2>1, <2>2, ServerSettled DEF Sealed
<1>5. CASE \E k \in BOOLEAN : Receive(k)
  BY <1>5, SealedKept DEF Receive
<1>6. CASE Select \/ SelectInTrailers \/ ReadAndClose \/ CheckDigest \/ CheckTrailers \/ VerifySignature \/ TransportError
  <2>1. pc # "handler" /\ UNCHANGED <<setup, serverVars, wire>>
    BY <1>6 DEF Select, SelectInTrailers, ReadAndClose, CheckDigest, CheckTrailers, VerifySignature,
                TransportError, Fail, Proceed, Replace
  <2> QED
    BY <2>1, SealedKept
<1>7. CASE UNCHANGED vars
  <2>1. pc' = pc /\ UNCHANGED <<setup, serverVars, wire>>
    BY <1>7 DEF vars
  <2> QED
    BY <2>1, SealedKept DEF Sealed
<1> QED
  BY <1>1, <1>2, <1>3, <1>4, <1>5, <1>6, <1>7 DEF Next

\* The checks of the client depend on the message and its configuration only.
LEMMA MessageSettled ==
  ASSUME UNCHANGED <<setup, wire, got>>
  PROVE  /\ verifiesContent' = verifiesContent /\ RefusedUnread' = RefusedUnread
         /\ DigestMatches' = DigestMatches /\ SignatureVerifies' = SignatureVerifies
BY DEF verifiesContent, RefusedUnread, AuthenticatesDigestPolicy, DigestMatches, SignatureVerifies,
       SignedValues

LEMMA VettedInductive ==
  ASSUME Owner, Vetted, [Next]_vars
  PROVE  Vetted'
<1> USE DEF clientVars, Places
<1>1. CASE pc' \in {"handler", "wire", "failed"}
  BY <1>1 DEF Vetted
<1>2. ASSUME NEW k \in BOOLEAN, Receive(k) PROVE Vetted'
  <2>1. pc' = "received" /\ got'.status = wire.status /\ UNCHANGED wire
    BY <1>2 DEF Receive, ReadResponse
  <2> QED
    BY <2>1 DEF Vetted
<1>3. CASE Select /\ ~ RefusedUnread /\ Proceed(IF verifiesContent THEN "read" ELSE "verify")
  <2>1. /\ UNCHANGED <<setup, wire, got>> /\ pc = "received"
        /\ pc' = IF verifiesContent THEN "read" ELSE "verify"
    BY <1>3 DEF Proceed, Select
  <2>2. wire.signature # <<>>
    BY <1>3 DEF RefusedUnread
  <2> QED
    BY <1>3, <2>1, <2>2, MessageSettled DEF Vetted
<1>4. CASE SelectInTrailers \/ CheckTrailers
  <2>1. setup'.origin = "trailers"
    BY <1>4 DEF SelectInTrailers, CheckTrailers, Fail, Proceed, Replace
  <2>2. /\ pc \in {"received", "digest"} /\ UNCHANGED <<wire, got>>
    BY <1>4 DEF SelectInTrailers, CheckTrailers, Fail, Proceed, Replace
  <2> QED
    BY <2>1, <2>2 DEF Vetted
<1>5. CASE ReadAndClose /\ pc' = "digest"
  <2>1. pc = "read" /\ UNCHANGED <<setup, wire, got>>
    BY <1>5 DEF ReadAndClose
  <2> QED
    BY <1>5, <2>1, MessageSettled DEF Vetted
<1>6. CASE CheckDigest /\ DigestMatches /\ Replace
  <2>1. pc = "digest" /\ pc' = "verify" /\ UNCHANGED <<setup, wire, got>>
    BY <1>6 DEF CheckDigest, Replace
  <2> QED
    BY <1>6, <2>1, MessageSettled DEF Vetted
<1>7. CASE VerifySignature /\ SignatureVerifies /\ Proceed("returned")
  <2>1. pc = "verify" /\ pc' = "returned" /\ UNCHANGED <<setup, wire, got>>
    BY <1>7 DEF VerifySignature, Proceed
  <2> QED
    BY <1>7, <2>1, MessageSettled DEF Vetted
<1>8. CASE UNCHANGED vars
  <2>1. UNCHANGED <<setup, wire, got, pc>>
    BY <1>8 DEF vars
  <2> QED
    BY <2>1, MessageSettled DEF Vetted
<1>9. CASE pc' \notin {"handler", "wire", "failed"} /\ Next
  BY <1>2, <1>3, <1>4, <1>5, <1>6, <1>7, <1>9
     DEF Next, SetHeader, WriteHeader, Write, Handling, Respond, RespondDirectly, RespondInTrailers,
         Transit, Select, ReadAndClose, CheckDigest, VerifySignature, TransportError, Fail
<1> QED
  BY <1>1, <1>8, <1>9

LEMMA Invariance == Spec => [](Owner /\ CommitInv)
<1>1. Init => Owner /\ CommitInv
  BY DEF Init, Owner, UpstreamBodySettled, Places, CommitInv, Sealed, Vetted
<1>2. (Owner /\ CommitInv) /\ [Next]_vars => (Owner /\ CommitInv)'
  BY OwnerInductive, SealedInductive, VettedInductive DEF CommitInv
<1> QED
  BY <1>1, <1>2, PTL DEF Spec

\* Whatever the two verifying round trippers return, the upstream body was closed
\* exactly once, or is the caller's, on every one of their early returns.
THEOREM BodySettled == Spec => []UpstreamBodySettled
<1>1. Owner => UpstreamBodySettled
  BY DEF Owner
<1> QED
  BY <1>1, Invariance, PTL

\* The value of a field that may be absent determines it.
LEMMA OptionalField ==
  ASSUME NEW a, NEW b, (IF a = "absent" THEN <<>> ELSE <<a>>) = (IF b = "absent" THEN <<>> ELSE <<b>>)
  PROVE  a = b
<1>1. \A v : <<v>> # <<>>
  OBVIOUS
<1>2. \A v, w : <<v>> = <<w>> => v = w
  OBVIOUS
<1>3. CASE a = "absent"
  BY <1>1, <1>3
<1>4. CASE a # "absent"
  <2>1. <<a>> = IF b = "absent" THEN <<>> ELSE <<b>>
    BY <1>4, Zenon
  <2>2. b # "absent"
    BY <1>1, <2>1, Zenon
  <2>3. <<a>> = <<b>>
    BY <2>1, <2>2, Zenon
  <2> QED
    BY <1>2, <2>3, Zenon
<1> QED
  BY <1>3, <1>4

\* A response that verifies carries the values the middleware signed.
LEMMA SameValues ==
  ASSUME Owner, CommitInv, pc = "returned", setup.origin = "middleware", NEW name \in setup.covers
  PROVE  Value(name, got, "received", wire.x, wire.digests)
           = Value(name, SignedStruct, "write", FinalHeader.x, Digests)
<1>1. SignedValues(got, "received", wire.x, wire.digests) = SignedByMiddleware
  BY DEF CommitInv, Sealed, Vetted, SignatureVerifies
<1> QED
  BY <1>1 DEF SignedValues, SignedByMiddleware

\* Digests the signature authenticates and that match the content were computed from
\* what the middleware sent or the handler wrote.
LEMMA SameContent ==
  ASSUME Owner, CommitInv, pc = "returned", setup.origin = "middleware", verifiesContent
  PROVE  wire.content = Content \/ wire.content = body
<1>1. /\ ~ RefusedUnread /\ DigestMatches
  BY DEF CommitInv, Vetted
<1>2. /\ setup.policy # {} /\ AuthenticatesDigestPolicy /\ wire.digests # <<>>
      /\ \A a \in setup.policy : a \in DOMAIN wire.digests /\ wire.digests[a] = wire.content
  BY <1>1 DEF RefusedUnread, DigestMatches
<1>3. \A a \in DOMAIN Digests : Digests # <<>> => Digests[a] = Content \/ Digests[a] = body
  BY DEF Digests
<1>4. CASE "content-digest" \in setup.covers
  <2>1. <<wire.digests>> = IF Digests = <<>> THEN <<>> ELSE <<Digests>>
    BY <1>2, <1>4, SameValues DEF Value, ManagedNames
  <2>2. wire.digests = Digests
    BY <2>1
  <2> QED
    BY <1>2, <1>3, <2>2
<1>5. CASE "content-digest" \notin setup.covers
  <2> DEFINE signed == IF Digests # <<>> /\ "sha-256" \in DOMAIN Digests THEN <<Digests["sha-256"]>> ELSE <<>>
  <2>1. "sha-256" \in setup.policy /\ "content-digest:sha-256" \in setup.covers
    BY <1>2, <1>5 DEF AuthenticatesDigestPolicy
  <2>2. "sha-256" \in DOMAIN wire.digests /\ wire.digests["sha-256"] = wire.content
    BY <1>2, <2>1
  <2>3. Value("content-digest:sha-256", got, "received", wire.x, wire.digests) = <<wire.content>>
    BY <1>2, <2>2 DEF Value, ManagedNames
  <2>4. Value("content-digest:sha-256", SignedStruct, "write", FinalHeader.x, Digests) = signed
    BY DEF Value, ManagedNames
  <2>5. <<wire.content>> = signed
    BY <2>1, <2>3, <2>4, SameValues
  <2>6. Digests # <<>> /\ "sha-256" \in DOMAIN Digests /\ Digests["sha-256"] = wire.content
    BY <2>5
  <2> QED
    BY <1>3, <2>6
<1> QED
  BY <1>4, <1>5

\* What VerifyingRoundTripper returns is what the handler had committed when the
\* middleware signed it: status, covered header and, under a covered digest, the content,
\* whatever the handler did to its header afterwards and whatever happened in transit.
THEOREM AcceptedWasCommitted == Spec => []AcceptedIsCommitted
<1>1. Owner /\ CommitInv => AcceptedIsCommitted
  <2> SUFFICES ASSUME Owner, CommitInv, pc = "returned", setup.origin = "middleware"
               PROVE  /\ "@status" \in setup.covers => got.status = FinalStatus
                      /\ "x" \in setup.covers => wire.x = FinalHeader.x
                      /\ verifiesContent /\ wire.content # body =>
                           wire.content = <<>> /\ (setup.method = "HEAD" \/ ~ responseBodyAllowed(got.status))
    BY DEF AcceptedIsCommitted, FinalStatus, FinalHeader
  <2>1. got.status = FinalStatus
    BY DEF CommitInv, Sealed, Vetted
  <2>2. ASSUME "x" \in setup.covers PROVE wire.x = FinalHeader.x
    <3> DEFINE given == FinalHeader.x
    <3>1. Value("x", got, "received", wire.x, wire.digests) = Value("x", SignedStruct, "write", given, Digests)
      BY <2>2, SameValues
    <3> HIDE DEF given
    <3>2. /\ Value("x", got, "received", wire.x, wire.digests) = IF wire.x = "absent" THEN <<>> ELSE <<wire.x>>
          /\ Value("x", SignedStruct, "write", given, Digests) = IF given = "absent" THEN <<>> ELSE <<given>>
      BY Zenon DEF Value, ManagedNames
    <3>3. wire.x = given
      BY <3>1, <3>2, OptionalField
    <3> QED
      BY <3>3 DEF given
  <2>3. ASSUME verifiesContent, wire.content # body
        PROVE  wire.content = <<>> /\ (setup.method = "HEAD" \/ ~ responseBodyAllowed(got.status))
    BY <2>1, <2>3, SameContent DEF Content
  <2> QED
    BY <2>1, <2>2, <2>3
<1> QED
  BY <1>1, Invariance, PTL

-------------------------------------------------------------------------------
(* The fields net/http manages. *)

LEMMA WireFields ==
  ASSUME NEW length, NEW coding, NEW trailer, NEW connection
  PROVE  /\ Wire(length, coding, trailer, connection)["content-length"] = length
         /\ Wire(length, coding, trailer, connection)["transfer-encoding"] =
              IF hasChunked(coding) THEN <<"chunked">> ELSE <<>>
         /\ Wire(length, coding, trailer, connection)["trailer"] =
              IF hasChunked(coding) /\ trailer THEN <<"T">> ELSE <<>>
         /\ Wire(length, coding, trailer, connection)["connection"] = connection
<1>1. Wire(length, coding, trailer, connection)["content-length"] = length
  BY Zenon DEF Wire
<1>2. Wire(length, coding, trailer, connection)["transfer-encoding"] = IF hasChunked(coding) THEN <<"chunked">> ELSE <<>>
  BY Zenon DEF Wire
<1>3. Wire(length, coding, trailer, connection)["trailer"] = IF hasChunked(coding) /\ trailer THEN <<"T">> ELSE <<>>
  BY Zenon DEF Wire
<1>4. Wire(length, coding, trailer, connection)["connection"] = connection
  BY Zenon DEF Wire
<1> QED
  BY <1>1, <1>2, <1>3, <1>4

\* The parts of the wire of Response.Write.
OutCoding(r) == IF r.method # "HEAD" /\ (~ Http11(r) \/ r.body = "nil") THEN <<>> ELSE r.coding
OutLength(r) == IF r.length = 0 /\ r.body = "bytes" THEN -1 ELSE r.length
SentLength(r) ==
  IF hasChunked(OutCoding(r)) THEN -1 ELSE IF r.method # "HEAD" /\ r.body = "nil" THEN 0 ELSE OutLength(r)
LengthOnWire(r) ==
  IF SendsLength(r.method, SentLength(r), OutCoding(r)) THEN <<SentLength(r)>>
  ELSE IF OutLength(r) = 0 /\ ~ hasChunked(OutCoding(r)) /\ responseWriteBodyAllowed(r.status) THEN <<0>> ELSE <<>>
CloseOnWire(r) ==
  CloseField(r.connection,
             r.close \/ (OutLength(r) = -1 /\ Http11(r) /\ ~ hasChunked(r.coding) /\ ~ r.uncompressed))

LEMMA ResponseWire ==
  ASSUME NEW r \in ResponseStructs
  PROVE  /\ WireOfResponse(r)["content-length"] = LengthOnWire(r)
         /\ WireOfResponse(r)["transfer-encoding"] = IF hasChunked(OutCoding(r)) THEN <<"chunked">> ELSE <<>>
         /\ WireOfResponse(r)["trailer"] = IF hasChunked(OutCoding(r)) /\ r.trailer THEN <<"T">> ELSE <<>>
         /\ WireOfResponse(r)["connection"] = CloseOnWire(r)
<1>1. WireOfResponse(r) = Wire(LengthOnWire(r), OutCoding(r), r.trailer, CloseOnWire(r))
  <2>1. (r.length = 0 /\ r.body # "nil" /\ r.body = "bytes") <=> (r.length = 0 /\ r.body = "bytes")
    OBVIOUS
  <2> QED
    BY <2>1 DEF WireOfResponse, LengthOnWire, OutCoding, CloseOnWire, OutLength, SentLength
<1> QED
  BY <1>1, WireFields

\* message.go's derivation for a response about to be written, where it has a value, is what
\* Response.Write sends.
LEMMA LengthIsWritten ==
  ASSUME NEW r \in ResponseStructs, Available(writeContentLength(r))
  PROVE  writeContentLength(r) = LengthOnWire(r)
<1> DEFINE length == IF r.method # "HEAD" /\ r.body = "nil" THEN 0 ELSE r.length
           Zero == \/ Sends0(r.method)
                   \/ isIdentity(OutCoding(r)) /\ r.method \notin {"GET", "HEAD"}
                   \/ r.length = 0 /\ ~ hasChunked(r.coding) /\ responseWriteBodyAllowed(r.status)
           Probed == \/ r.length = 0 /\ r.body \in {"empty", "bytes"}
                     \/ r.method # "HEAD" /\ r.body = "NoBody" /\ r.length > 0
<1>1. writeContentLength(r) =
        IF responseUsesChunked(r) THEN <<>>
        ELSE IF Probed THEN Unavailable
        ELSE IF length > 0 THEN <<length>>
        ELSE IF length < 0 THEN <<>>
        ELSE IF Zero THEN <<0>> ELSE <<>>
  BY DEF writeContentLength, OutCoding
<1>2. r.length \in Int /\ length \in Int
  BY DEF ResponseStructs
<1>3. ~ responseUsesChunked(r) /\ ~ Probed
  BY <1>1 DEF Available
<1>4. ~ hasChunked(OutCoding(r))
  BY <1>3 DEF OutCoding, responseUsesChunked, hasChunked
<1>5. OutLength(r) = r.length
  BY <1>3 DEF OutLength
<1>6. SentLength(r) = length
  BY <1>4, <1>5 DEF SentLength
<1>7. CASE length > 0
  BY <1>1, <1>3, <1>4, <1>6, <1>7 DEF LengthOnWire, SendsLength
<1>8. CASE length < 0
  BY <1>1, <1>2, <1>3, <1>8 DEF Available
<1>9. CASE length = 0
  <2>1. writeContentLength(r) = <<0>> /\ Zero
    BY <1>1, <1>3, <1>9 DEF Available
  <2>2. SendsLength(r.method, 0, OutCoding(r)) <=>
          Sends0(r.method) \/ (isIdentity(OutCoding(r)) /\ r.method \notin {"GET", "HEAD"})
    BY <1>4 DEF SendsLength
  <2> QED
    BY <1>4, <1>5, <1>6, <1>9, <2>1, <2>2 DEF LengthOnWire
<1> QED
  BY <1>2, <1>7, <1>8, <1>9

LEMMA CodingIsWritten ==
  ASSUME NEW r \in ResponseStructs, Available(writeTransferEncoding(r))
  PROVE  writeTransferEncoding(r) = IF hasChunked(OutCoding(r)) THEN <<"chunked">> ELSE <<>>
BY DEF Available, Unavailable, writeTransferEncoding, OutCoding, responseUsesChunked, hasChunked, ResponseStructs

LEMMA TrailerIsWritten ==
  ASSUME NEW r \in ResponseStructs, Available(writeTrailer(r))
  PROVE  writeTrailer(r) = IF hasChunked(OutCoding(r)) /\ r.trailer THEN <<"T">> ELSE <<>>
BY DEF Available, Unavailable, writeTrailer, OutCoding, responseUsesChunked, hasChunked, ResponseStructs

LEMMA CloseIsWritten ==
  ASSUME NEW r \in ResponseStructs
  PROVE  LET signed == CloseField(r.connection, responseWriteClosesConnection(r))
         IN  \/ CloseOnWire(r) = signed
             \/ ProbedConnection("connection", r) /\ CloseOnWire(r) = <<"close">> \o signed
<1>1. CASE ~ ProbedConnection("connection", r)
  BY <1>1 DEF ProbedConnection, CloseOnWire, OutLength, responseWriteClosesConnection, ResponseStructs
<1>2. CASE ProbedConnection("connection", r)
  <2> DEFINE closed == Contains(r.connection, "close")
  <2>1. CloseOnWire(r) = IF ~ closed THEN <<"close">> \o r.connection ELSE r.connection
    BY <1>2 DEF ProbedConnection, CloseOnWire, OutLength, CloseField
  <2>2. responseWriteClosesConnection(r) <=> r.close
    BY <1>2 DEF ProbedConnection, responseWriteClosesConnection
  <2>3. CloseField(r.connection, responseWriteClosesConnection(r)) =
          IF r.close /\ ~ closed THEN <<"close">> \o r.connection ELSE r.connection
    BY <2>2 DEF CloseField
  <2> HIDE DEF closed
  <2> QED
    BY <1>2, <2>1, <2>3
<1> QED
  BY <1>1, <1>2

LEMMA WriteFields ==
  ASSUME NEW r
  PROVE  /\ WriteField(r, "content-length") = writeContentLength(r)
         /\ WriteField(r, "transfer-encoding") = writeTransferEncoding(r)
         /\ WriteField(r, "trailer") = writeTrailer(r)
         /\ WriteField(r, "connection") = CloseField(r.connection, responseWriteClosesConnection(r))
<1>1. WriteField(r, "content-length") = writeContentLength(r)
  BY Zenon DEF WriteField
<1>2. WriteField(r, "transfer-encoding") = writeTransferEncoding(r)
  BY Zenon DEF WriteField
<1>3. WriteField(r, "trailer") = writeTrailer(r)
  BY Zenon DEF WriteField
<1>4. WriteField(r, "connection") = CloseField(r.connection, responseWriteClosesConnection(r))
  BY Zenon DEF WriteField
<1> QED
  BY <1>1, <1>2, <1>3, <1>4

\* A field with a value is on the wire as message.go says, but for the connection that probing closes.
LEMMA FieldIsWritten ==
  ASSUME NEW r \in ResponseStructs, NEW name \in ManagedNames, Available(WriteField(r, name))
  PROVE  \/ WireOfResponse(r)[name] = WriteField(r, name)
         \/ ProbedConnection(name, r) /\ WireOfResponse(r)[name] = <<"close">> \o WriteField(r, name)
<1>1. CASE name = "content-length"
  BY <1>1, WriteFields, ResponseWire, LengthIsWritten
<1>2. CASE name = "transfer-encoding"
  BY <1>2, WriteFields, ResponseWire, CodingIsWritten
<1>3. CASE name = "trailer"
  BY <1>3, WriteFields, ResponseWire, TrailerIsWritten
<1>4. CASE name = "connection"
  BY <1>4, WriteFields, ResponseWire, CloseIsWritten
<1> QED
  BY <1>1, <1>2, <1>3, <1>4 DEF ManagedNames

\* The value of a covered component that has one, at the signer.
LEMMA ManagedValue ==
  ASSUME NEW name \in ManagedNames, NEW r, NEW mode, NEW x, NEW d
  PROVE  Value(name, r, mode, x, d) = ResponseField(r, mode, name)
<1>1. name # "@status" /\ name # "x" /\ name # "content-digest" /\ name # "content-digest:sha-256"
  BY DEF ManagedNames
<1> QED
  BY <1>1, Zenon DEF Value

LEMMA WrittenValue ==
  ASSUME NEW name \in ManagedNames, NEW r, NEW mode, mode # "received", NEW x, NEW d,
         Available(Value(name, r, mode, x, d))
  PROVE  Value(name, r, mode, x, d) = WriteField(r, name)
<1>1. Available(ResponseField(r, mode, name))
  BY ManagedValue
<1>2. ResponseField(r, mode, name) = WriteField(r, name)
  BY <1>1, Zenon DEF ResponseField, Available
<1> QED
  BY <1>2, ManagedValue

-------------------------------------------------------------------------------
(* What is on the wire when nothing happened in transit. *)

BufferType ==
  /\ setup \in Setups /\ body \in Seq({"h"}) /\ status \in Nat
  /\ header \in Headers \cup {NoHeader} /\ committed \in Headers \cup {NoHeader}

\* The message with the signature over these values of these fields.
Carries(s, x, fields, digests, values, content) ==
  /\ Signable(values) /\ wire.signature = values
  /\ wire.status = s /\ wire.x = x /\ wire.fields = fields /\ wire.digests = digests /\ wire.content = content

TrailerDigests == [a \in setup.algorithms |-> <<"h", "h">>]

Undisturbed ==
  pc # "handler" /\ fault = "none" /\ wire.signature # <<>> =>
    /\ setup.origin = "middleware" =>
         /\ ~ MiddlewareRefuses
         /\ \E hangsUp \in BOOLEAN :
              Carries(FinalStatus, FinalHeader.x, SentByMiddleware(hangsUp), Digests, SignedByMiddleware, Content)
    /\ setup.origin = "direct" =>
         Carries(setup.struct.status, "absent", WireOfResponse(setup.struct), <<>>,
                 SignedValues(setup.struct, setup.mode, "absent", <<>>), <<>>)
    /\ setup.origin = "trailers" =>
         Carries(200, "absent", Wire(<<>>, <<"chunked">>, TRUE, <<>>), TrailerDigests,
                 SignedValues(TrailerStruct, "write", "absent", TrailerDigests), <<"h", "h">>)

LEMMA BufferTypeInductive ==
  ASSUME BufferType, [Next]_vars
  PROVE  BufferType'
<1> USE DEF serverVars, BufferType
<1>1. ASSUME NEW h \in Headers, SetHeader(h) PROVE BufferType'
  BY <1>1 DEF SetHeader
<1>2. ASSUME NEW s \in Statuses, WriteHeader(s) PROVE BufferType'
  BY <1>2, HandlerAssumption DEF WriteHeader
<1>3. CASE Write
  <2>1. setup' = setup /\ header' = header /\ status' \in Nat /\ committed' \in {header, committed}
    BY <1>3 DEF Write
  <2>2. body' \in {body, Append(body, "h")}
    BY <1>3 DEF Write
  <2>3. Append(body, "h") \in Seq({"h"})
    OBVIOUS
  <2> QED
    BY <2>1, <2>2, <2>3
<1>4. CASE UNCHANGED <<setup, serverVars>>
  BY <1>4
<1>5. CASE ~ ((\E h \in Headers : SetHeader(h)) \/ (\E s \in Statuses : WriteHeader(s)) \/ Write)
  BY <1>4, <1>5 DEF Next, vars, Respond, RespondDirectly, RespondInTrailers, Transit, Receive, Select, SelectInTrailers,
     ReadAndClose, CheckDigest, CheckTrailers, VerifySignature, TransportError, Fail, Proceed, Replace
<1> QED
  BY <1>1, <1>2, <1>3, <1>5

\* What the server decided stays as it was.
LEMMA DecisionsSettled ==
  ASSUME UNCHANGED <<setup, serverVars>>
  PROVE  /\ FinalStatus' = FinalStatus /\ FinalHeader' = FinalHeader /\ Content' = Content /\ Digests' = Digests
         /\ Length' = Length /\ SignedStruct' = SignedStruct /\ ServerLength' = ServerLength
         /\ SignedByMiddleware' = SignedByMiddleware
         /\ \A hangsUp : SentByMiddleware(hangsUp)' = SentByMiddleware(hangsUp)
         /\ MiddlewareRefuses' = MiddlewareRefuses
<1> USE DEF serverVars
<1>1. FinalStatus' = FinalStatus /\ FinalHeader' = FinalHeader
  BY DEF FinalStatus, FinalHeader
<1>2. Content' = Content /\ Length' = Length
  BY <1>1 DEF Content, Length
<1>3. Digests' = Digests
  BY <1>1, <1>2 DEF Digests
<1>4. SignedStruct' = SignedStruct
  BY <1>1, <1>2 DEF SignedStruct
<1>5. ServerLength' = ServerLength
  BY <1>1, <1>2 DEF ServerLength
<1>6. SignedByMiddleware' = SignedByMiddleware
  BY <1>1, <1>3, <1>4 DEF SignedByMiddleware, SignedValues
<1>7. MiddlewareRefuses' = MiddlewareRefuses
  BY <1>1, <1>2, <1>6 DEF MiddlewareRefuses, SignedByMiddleware, Signable
<1>8. \A hangsUp : SentByMiddleware(hangsUp)' = SentByMiddleware(hangsUp)
  BY <1>1, <1>5, Zenon DEF SentByMiddleware
<1> QED
  BY <1>1, <1>2, <1>3, <1>4, <1>5, <1>6, <1>7, <1>8

LEMMA UndisturbedInductive ==
  ASSUME Owner, Undisturbed, [Next]_vars
  PROVE  Undisturbed'
<1> USE DEF clientVars
<1>1. CASE (\E h \in Headers : SetHeader(h)) \/ (\E s \in Statuses : WriteHeader(s)) \/ Write
  BY <1>1 DEF SetHeader, WriteHeader, Write, Handling, Undisturbed
<1>2. ASSUME NEW hangsUp \in BOOLEAN, Respond(hangsUp) PROVE Undisturbed'
  <2>1. UNCHANGED <<setup, serverVars>> /\ setup.origin = "middleware"
    BY <1>2 DEF Respond
  <2>2. CASE MapError(hangsUp)
    <3>1. wire'.signature = <<>>
      BY <2>2 DEF MapError, Emit
    <3> QED
      BY <3>1 DEF Undisturbed
  <2>3. CASE ~ MiddlewareRefuses /\ Emit(FinalStatus, FinalHeader.x, SentByMiddleware(hangsUp), Digests,
                                           SignedByMiddleware, Content, FALSE)
    <3>1. /\ wire'.signature = SignedByMiddleware /\ wire'.status = FinalStatus /\ wire'.x = FinalHeader.x
          /\ wire'.fields = SentByMiddleware(hangsUp) /\ wire'.digests = Digests /\ wire'.content = Content
      BY <2>3 DEF Emit
    <3>2. Signable(SignedByMiddleware)
      BY <2>3 DEF MiddlewareRefuses, SignedByMiddleware
    <3>3. Signable(SignedByMiddleware)'
      BY <2>1, <3>2, DecisionsSettled DEF Signable
    <3>4. Carries(FinalStatus, FinalHeader.x, SentByMiddleware(hangsUp), Digests, SignedByMiddleware, Content)'
      BY <2>1, <3>1, <3>3, DecisionsSettled DEF Carries
    <3>5. ~ MiddlewareRefuses'
      BY <2>1, <2>3, DecisionsSettled
    <3>6. setup'.origin = "middleware"
      BY <2>1
    <3> QED
      BY <3>4, <3>5, <3>6 DEF Undisturbed
  <2> QED
    BY <1>2, <2>2, <2>3 DEF Respond, SentByMiddleware, SignedByMiddleware
<1>3. CASE RespondDirectly
  <2>1. setup' = setup /\ setup.origin = "direct"
    BY <1>3 DEF RespondDirectly
  <2> DEFINE direct == SignedValues(setup.struct, setup.mode, "absent", <<>>)
  <2>4. Signable(direct) /\ Emit(setup.struct.status, "absent", WireOfResponse(setup.struct), <<>>, direct, <<>>, FALSE)
    BY <1>3, Zenon DEF RespondDirectly
  <2>2. /\ Signable(SignedValues(setup.struct, setup.mode, "absent", <<>>))
        /\ wire'.signature = SignedValues(setup.struct, setup.mode, "absent", <<>>) /\ wire'.status = setup.struct.status
        /\ wire'.x = "absent" /\ wire'.fields = WireOfResponse(setup.struct) /\ wire'.digests = <<>>
        /\ wire'.content = <<>>
    BY <2>4 DEF Emit
  <2>3. SignedValues(setup.struct, setup.mode, "absent", <<>>)' = SignedValues(setup.struct, setup.mode, "absent", <<>>)
    BY <2>1 DEF SignedValues
  <2> QED
    BY <2>1, <2>2, <2>3 DEF Undisturbed, Carries, Signable
<1>4. CASE RespondInTrailers
  <2> DEFINE values == SignedValues(TrailerStruct, "write", "absent", TrailerDigests)
             fields == Wire(<<>>, <<"chunked">>, TRUE, <<>>)
  <2>1. setup' = setup /\ setup.origin = "trailers"
    BY <1>4 DEF RespondInTrailers
  <2>2. values' = values /\ TrailerDigests' = TrailerDigests /\ Signable(values)' = Signable(values)
    BY <2>1 DEF SignedValues, TrailerStruct, TrailerDigests, Signable
  <2>3. CASE Emit(200, "absent", fields, <<>>, <<>>, <<"h", "h">>, FALSE)
    <3>1. wire'.signature = <<>>
      BY <2>3 DEF Emit
    <3> QED
      BY <3>1 DEF Undisturbed
  <2>4. CASE Signable(values) /\ Emit(200, "absent", fields, TrailerDigests, values, <<"h", "h">>, TRUE)
    <3>1. /\ wire'.signature = values /\ wire'.status = 200 /\ wire'.x = "absent" /\ wire'.fields = fields
          /\ wire'.digests = TrailerDigests /\ wire'.content = <<"h", "h">>
      BY <2>4 DEF Emit
    <3>2. Carries(200, "absent", fields, TrailerDigests, values, <<"h", "h">>)'
      BY <2>2, <2>4, <3>1 DEF Carries, Wire
    <3> QED
      BY <2>1, <3>2 DEF Undisturbed
  <2> QED
    BY <1>4, <2>3, <2>4 DEF RespondInTrailers, TrailerDigests
<1>5. CASE UNCHANGED <<setup, serverVars, wire>> /\ (pc' # "handler" => pc # "handler") /\ (fault' = "none" => fault = "none")
  <2>1. TrailerDigests' = TrailerDigests /\ TrailerStruct' = TrailerStruct
    BY <1>5 DEF TrailerDigests, TrailerStruct
  <2>2. SignedValues(TrailerStruct, "write", "absent", TrailerDigests)' = SignedValues(TrailerStruct, "write", "absent", TrailerDigests)
    BY <1>5, <2>1 DEF SignedValues
  <2>3. SignedValues(setup.struct, setup.mode, "absent", <<>>)' = SignedValues(setup.struct, setup.mode, "absent", <<>>)
    BY <1>5 DEF SignedValues
  <2> QED
    BY <1>5, <2>1, <2>2, <2>3, DecisionsSettled DEF Undisturbed, Carries, Signable
<1>6. ASSUME NEW f \in Faults, Transit(f) PROVE Undisturbed'
  BY <1>6 DEF Transit, Undisturbed
<1>7. CASE (\E k \in BOOLEAN : Receive(k)) \/ Select \/ SelectInTrailers \/ ReadAndClose \/ CheckDigest \/ CheckTrailers
           \/ VerifySignature \/ TransportError
  <2>1. pc # "handler" /\ UNCHANGED <<setup, serverVars, wire, fault>>
    BY <1>7 DEF Receive, Select, SelectInTrailers, ReadAndClose, CheckDigest, CheckTrailers, VerifySignature,
                TransportError, Fail, Proceed, Replace
  <2> QED
    BY <1>5, <2>1
<1>8. CASE UNCHANGED vars
  BY <1>5, <1>8 DEF vars
<1> QED
  BY <1>1, <1>2, <1>3, <1>4, <1>6, <1>7, <1>8 DEF Next

-------------------------------------------------------------------------------
(* What the signer covers is what is sent. *)

LEMMA Singleton ==
  ASSUME NEW s \in Seq(Nat), Len(s) = 1
  PROVE  s = <<s[1]>> /\ s[1] \in Nat
<1>1. s[1] \in Nat
  <2>1. 1 \in 1 .. Len(s)
    OBVIOUS
  <2> QED
    BY <2>1, ElementOfSeq
<1>2. <<s[1]>> \in Seq(Nat) /\ Len(<<s[1]>>) = 1 /\ <<s[1]>>[1] = s[1]
  BY <1>1
<1>3. \A i \in 1 .. Len(s) : s[i] = <<s[1]>>[i]
  BY <1>2
<1> QED
  BY <1>1, <1>2, <1>3, SeqEqual

\* The header that a handler may leave, repeated lengths refused, says the length that is signed.
LEMMA LengthOfHeader ==
  ASSUME BufferType, Length.ok
  PROVE  /\ Length.length \in Nat /\ Length.header \in {<<>>, <<Length.length>>}
         /\ Length.length > 0 => Length.header # <<>>
<1> DEFINE given == FinalHeader.length
           Representation(fallback) ==
             IF given = <<>> THEN [length |-> fallback, header |-> IF fallback > 0 THEN <<fallback>> ELSE <<>>, ok |-> TRUE]
             ELSE [length |-> given[1], header |-> given, ok |-> Len(given) = 1]
           Consistent(l) == /\ l.length \in Nat /\ l.header \in {<<>>, <<l.length>>}
                            /\ l.length > 0 => l.header # <<>>
<1>1. given \in Seq(Nat) /\ Len(body) \in Nat
  <2>1. \A h \in Headers \cup {NoHeader} : h.length \in Seq(Nat)
    <3>1. NoHeader.length = <<>> /\ <<>> \in Seq(Nat)
      BY DEF NoHeader
    <3> QED
      BY <3>1, HandlerAssumption
  <2>2. FinalHeader \in Headers \cup {NoHeader}
    BY DEF BufferType, FinalHeader
  <2> QED
    BY <2>1, <2>2 DEF BufferType
<1>2. ASSUME NEW n \in Nat, Representation(n).ok PROVE Consistent(Representation(n))
  <2> HIDE DEF given
  <2>1. CASE given = <<>>
    BY <1>2, <2>1
  <2>2. CASE given # <<>>
    <3>1. Len(given) = 1
      BY <1>2, <2>2
    <3>2. given = <<given[1]>> /\ given[1] \in Nat
      BY <1>1, <3>1, Singleton
    <3>3. Representation(n).length = given[1] /\ Representation(n).header = given
      BY <2>2
    <3> QED
      BY <2>2, <3>2, <3>3
  <2> QED
    BY <2>1, <2>2
<1>3. Length = IF setup.method = "HEAD" THEN Representation(Len(body))
               ELSE IF FinalStatus = 304 THEN Representation(0)
               ELSE IF ~ responseBodyAllowed(FinalStatus) THEN [length |-> 0, header |-> <<>>, ok |-> given = <<>>]
               ELSE [length |-> Len(body), header |-> <<Len(body)>>, ok |-> given \in {<<>>, <<Len(body)>>}]
  BY DEF Length
<1>4. Consistent(Length)
  <2> HIDE DEF Representation
  <2>1. CASE setup.method = "HEAD"
    BY <1>1, <1>2, <1>3, <2>1
  <2>2. CASE setup.method # "HEAD" /\ FinalStatus = 304
    BY <1>1, <1>2, <1>3, <2>2
  <2>3. CASE setup.method # "HEAD" /\ FinalStatus # 304
    BY <1>1, <1>3, <2>3
  <2> QED
    BY <2>1, <2>2, <2>3
<1> QED
  BY <1>4

\* Of the managed fields the middleware can sign a positive Content-Length, and the handler's Connection.
LEMMA MiddlewareManaged ==
  ASSUME BufferType, Length.ok, NEW name \in ManagedNames, NEW x, NEW d,
         Available(Value(name, SignedStruct, "write", x, d))
  PROVE  \/ /\ name = "content-length" /\ Value(name, SignedStruct, "write", x, d) = <<Length.length>>
            /\ Length.header = <<Length.length>>
         \/ name = "connection" /\ Value(name, SignedStruct, "write", x, d) = FinalHeader.connection
<1> DEFINE r == SignedStruct
<1>1. Value(name, r, "write", x, d) = WriteField(r, name)
  BY WrittenValue
<1>2. /\ r.proto = "0.0" /\ r.coding = <<>> /\ r.trailer = FALSE /\ r.close = FALSE
      /\ r.connection = FinalHeader.connection
      /\ r.length = Length.length /\ r.body \in {"empty", "bytes"}
  BY DEF SignedStruct
<1>f. /\ WriteField(r, "content-length") = writeContentLength(r)
      /\ WriteField(r, "transfer-encoding") = writeTransferEncoding(r)
      /\ WriteField(r, "trailer") = writeTrailer(r)
      /\ WriteField(r, "connection") = CloseField(r.connection, responseWriteClosesConnection(r))
  BY WriteFields
<1>a. Available(WriteField(r, name))
  BY <1>1
<1> HIDE DEF r
<1>3. ~ responseUsesChunked(r) /\ ~ Http11(r)
  BY <1>2 DEF responseUsesChunked, hasChunked, Http11
<1>4. name # "transfer-encoding"
  <2>1. writeTransferEncoding(r) = <<>>
    BY <1>2, <1>3 DEF writeTransferEncoding
  <2> QED
    BY <1>a, <1>f, <2>1 DEF Available
<1>5. name # "trailer"
  <2>1. writeTrailer(r) = <<>>
    BY <1>2, <1>3 DEF writeTrailer
  <2> QED
    BY <1>a, <1>f, <2>1 DEF Available
<1>6. CASE name = "connection"
  <2>1. CloseField(r.connection, responseWriteClosesConnection(r)) = r.connection
    BY <1>2, <1>3 DEF CloseField, responseWriteClosesConnection
  <2> QED
    BY <1>1, <1>f, <1>2, <1>6, <2>1 DEF r
<1>7. CASE name = "content-length"
  <2>1. Length.length \in Nat
    BY LengthOfHeader
  <2>2. Length.length > 0
    BY <1>a, <1>f, <1>2, <1>3, <1>7, <2>1 DEF writeContentLength, Available
  <2>3. writeContentLength(r) = <<Length.length>>
    BY <1>2, <1>3, <2>1, <2>2 DEF writeContentLength
  <2>4. Length.header = <<Length.length>>
    BY <2>2, LengthOfHeader
  <2> QED
    BY <1>1, <1>f, <1>7, <2>3, <2>4 DEF r
<1> QED
  BY <1>4, <1>5, <1>6, <1>7 DEF ManagedNames

\* What net/http's server sends for the field the middleware signs: the length, where it sends one,
\* and the handler's Connection, unless it closes the connection.
LEMMA MiddlewareFieldSent ==
  ASSUME BufferType, ~ MiddlewareRefuses, NEW name \in setup.covers \cap ManagedNames,
         Signable(SignedByMiddleware), NEW hangsUp \in BOOLEAN
  PROVE  /\ Available(SignedByMiddleware[name])
         /\ \/ /\ name = "content-length" /\ SignedByMiddleware[name] = <<Length.length>>
               /\ SentByMiddleware(hangsUp)[name] =
                    IF responseWriteBodyAllowed(FinalStatus) THEN <<Length.length>> ELSE <<>>
            \/ /\ name = "connection"
               /\ SentByMiddleware(hangsUp)[name] \in {SignedByMiddleware[name], <<"close">>}
<1>1. Length.ok
  BY DEF MiddlewareRefuses
<1>2. SignedByMiddleware[name] = Value(name, SignedStruct, "write", FinalHeader.x, Digests)
  BY DEF SignedByMiddleware, SignedValues
<1>3. Available(SignedByMiddleware[name])
  BY DEF Signable
<1>4. \/ /\ name = "content-length" /\ SignedByMiddleware[name] = <<Length.length>>
         /\ Length.header = <<Length.length>>
      \/ name = "connection" /\ SignedByMiddleware[name] = FinalHeader.connection
  BY <1>1, <1>2, <1>3, MiddlewareManaged
<1>5. /\ SentByMiddleware(hangsUp)["content-length"] = ServerLength
      /\ SentByMiddleware(hangsUp)["connection"] = ServerConnection(FinalHeader.connection, hangsUp)
  <2>1. SentByMiddleware(hangsUp)["content-length"] = ServerLength
    BY Zenon DEF SentByMiddleware, PlainFields, Wire
  <2>2. SentByMiddleware(hangsUp)["connection"] = ServerConnection(FinalHeader.connection, hangsUp)
    BY Zenon DEF SentByMiddleware, PlainFields, Wire
  <2> QED
    BY <2>1, <2>2
<1>6. CASE name = "content-length"
  <2>1. ServerLength = IF responseWriteBodyAllowed(FinalStatus) THEN <<Length.length>> ELSE <<>>
    BY <1>4, <1>6 DEF ServerLength
  <2> QED
    BY <1>3, <1>4, <1>5, <1>6, <2>1
<1>7. CASE name = "connection"
  <2>1. ServerConnection(FinalHeader.connection, hangsUp) \in {FinalHeader.connection, <<"close">>}
    BY DEF ServerConnection
  <2> QED
    BY <1>3, <1>4, <1>5, <1>7, <2>1
<1> QED
  BY <1>4, <1>6, <1>7

\* Message invariants of an exchange nothing disturbed.
LEMMA WireInvariance == Spec => [](Owner /\ CommitInv /\ BufferType /\ Undisturbed)
<1>1. Init => BufferType /\ Undisturbed
  <2>1. ASSUME Init PROVE BufferType
    <3>1. setup \in Setups /\ body = <<>> /\ status = 0 /\ header = NoHeader /\ committed = NoHeader
      BY <2>1 DEF Init
    <3> QED
      BY <3>1 DEF BufferType
  <2> QED
    BY <2>1 DEF Init, Undisturbed
<1>2. (Owner /\ CommitInv /\ BufferType /\ Undisturbed) /\ [Next]_vars => (BufferType /\ Undisturbed)'
  BY BufferTypeInductive, UndisturbedInductive
<1> QED
  BY <1>1, <1>2, Invariance, PTL DEF Spec

\* The same at any time after the response was sent.
LEMMA SignedSent ==
  ASSUME BufferType, Undisturbed, pc # "handler", fault = "none", wire.signature # <<>>,
         NEW name \in setup.covers \cap ManagedNames
  PROVE  /\ Available(wire.signature[name])
         /\ \/ wire.fields[name] = wire.signature[name]
            \/ /\ setup.origin = "middleware" /\ name = "content-length"
               /\ ~ responseWriteBodyAllowed(wire.status) /\ wire.fields[name] = <<>>
            \/ setup.origin = "middleware" /\ name = "connection" /\ wire.fields[name] = <<"close">>
            \/ /\ setup.origin = "direct" /\ ProbedConnection(name, setup.struct)
               /\ wire.fields[name] = <<"close">> \o wire.signature[name]
<1>1. CASE setup.origin = "middleware"
  <2>1. PICK hangsUp \in BOOLEAN :
          /\ ~ MiddlewareRefuses /\ Signable(SignedByMiddleware) /\ wire.signature = SignedByMiddleware
          /\ wire.status = FinalStatus /\ wire.fields = SentByMiddleware(hangsUp)
    BY <1>1 DEF Undisturbed, Carries
  <2>2. /\ Available(SignedByMiddleware[name])
        /\ \/ /\ name = "content-length" /\ SignedByMiddleware[name] = <<Length.length>>
              /\ SentByMiddleware(hangsUp)[name] =
                   IF responseWriteBodyAllowed(FinalStatus) THEN <<Length.length>> ELSE <<>>
           \/ /\ name = "connection"
              /\ SentByMiddleware(hangsUp)[name] \in {SignedByMiddleware[name], <<"close">>}
    BY <2>1, MiddlewareFieldSent
  <2> QED
    BY <1>1, <2>1, <2>2
<1>2. CASE setup.origin = "direct"
  <2> DEFINE values == SignedValues(setup.struct, setup.mode, "absent", <<>>)
  <2>1. Signable(values) /\ wire.signature = values /\ wire.fields = WireOfResponse(setup.struct)
    BY <1>2 DEF Undisturbed, Carries
  <2>2. values[name] = Value(name, setup.struct, setup.mode, "absent", <<>>) /\ Available(values[name])
    BY <2>1 DEF SignedValues, Signable
  <2>3. setup.struct \in ResponseStructs /\ setup.mode # "received"
    BY <1>2, SetupAssumption DEF BufferType
  <2>4. values[name] = WriteField(setup.struct, name)
    BY <2>2, <2>3, WrittenValue
  <2> HIDE DEF values
  <2>5. \/ WireOfResponse(setup.struct)[name] = WriteField(setup.struct, name)
        \/ /\ ProbedConnection(name, setup.struct)
           /\ WireOfResponse(setup.struct)[name] = <<"close">> \o WriteField(setup.struct, name)
    BY <2>2, <2>3, <2>4, FieldIsWritten
  <2> QED
    BY <1>2, <2>1, <2>2, <2>4, <2>5
<1>3. CASE setup.origin = "trailers"
  <2>1. setup.covers \cap ManagedNames = {}
    BY <1>3, SetupAssumption DEF BufferType
  <2> QED
    BY <2>1
<1> QED
  BY <1>1, <1>2, <1>3, SetupAssumption DEF BufferType

\* The values of Content-Length, Transfer-Encoding, Trailer and Connection that a signer derives from
\* the http.Response are the ones net/http sends, in the middleware, for an application that writes
\* its response and in the trailer middleware, but for the three differences SignedIsOnWire names.
THEOREM SignedWasSent == Spec => []SignedIsOnWire
<1>1. BufferType /\ Undisturbed => SignedIsOnWire
  BY SignedSent DEF SignedIsOnWire
<1> QED
  BY <1>1, WireInvariance, PTL

-------------------------------------------------------------------------------
(* What arrives intact is accepted. *)

Minor11 == setup.origin # "direct" \/ setup.struct.proto = "1.1"
Answer(k) == [ReadResponse(wire.fields, wire.status, setup.method, Minor11, k) EXCEPT !.uncompressed = (fault = "unzip")]

\* The client works on the response that was read off the wire, and reads its body to check a digest.
ReadBack ==
  /\ pc \in {"received", "read", "digest", "verify"} => \E k \in BOOLEAN : got = Answer(k)
  /\ pc \in {"read", "digest"} => verifiesContent

LEMMA ReadBackInductive ==
  ASSUME BufferType, Owner, ReadBack, [Next]_vars
  PROVE  ReadBack'
<1> USE DEF clientVars, Places
<1>1. CASE pc' \in {"handler", "wire", "returned", "failed"}
  BY <1>1 DEF ReadBack
<1>2. ASSUME NEW k \in BOOLEAN, Receive(k) PROVE ReadBack'
  <2>1. pc' = "received" /\ UNCHANGED <<setup, wire, fault>> /\ got' = Answer(k)
    BY <1>2, Zenon DEF Receive, Answer, Minor11
  <2>2. Answer(k)' = Answer(k)
    BY <2>1, Zenon DEF Answer, Minor11
  <2>3. got' = Answer(k)'
    BY <2>1, <2>2
  <2> QED
    BY <2>1, <2>3, Zenon DEF ReadBack
<1>3. CASE UNCHANGED <<setup, wire, fault, got>> /\ pc \in {"received", "read", "digest", "verify"}
           /\ (pc' \in {"read", "digest"} => verifiesContent)
  <2>1. \A k \in BOOLEAN : Answer(k)' = Answer(k)
    BY <1>3, Zenon DEF Answer, Minor11
  <2>2. verifiesContent' = verifiesContent
    BY <1>3 DEF verifiesContent
  <2>3. PICK k \in BOOLEAN : got = Answer(k)
    BY <1>3 DEF ReadBack
  <2>4. \E j \in BOOLEAN : got' = Answer(j)'
    BY <1>3, <2>1, <2>3, Zenon
  <2>5. pc' \in {"read", "digest"} => verifiesContent'
    BY <1>3, <2>2
  <2> QED
    BY <2>4, <2>5, Zenon DEF ReadBack
<1>4. CASE Select \/ SelectInTrailers \/ ReadAndClose \/ CheckDigest \/ CheckTrailers \/ VerifySignature
  <2>1. UNCHANGED <<setup, wire, fault, got>> /\ pc \in {"received", "read", "digest", "verify"}
    BY <1>4 DEF Select, SelectInTrailers, ReadAndClose, CheckDigest, CheckTrailers, VerifySignature, Fail, Proceed, Replace
  <2>2. setup.origin = "trailers" => verifiesContent
    BY SetupAssumption DEF verifiesContent, BufferType, DigestNames
  <2>3. pc' \in {"read", "digest"} => verifiesContent
    BY <1>4, <2>2 DEF ReadBack, Select, SelectInTrailers, ReadAndClose, CheckDigest, CheckTrailers, VerifySignature,
                      Fail, Proceed, Replace
  <2> QED
    BY <1>3, <2>1, <2>3
<1>5. CASE UNCHANGED vars
  BY <1>1, <1>3, <1>5 DEF vars, ReadBack, Owner
<1>6. CASE Next /\ pc' \notin {"handler", "wire", "returned", "failed"}
  BY <1>2, <1>4, <1>6 DEF Next, SetHeader, WriteHeader, Write, Handling, Respond, RespondDirectly, RespondInTrailers,
     Transit, TransportError
<1> QED
  BY <1>1, <1>5, <1>6

\* The exceptions of IntactAccepted.
Unknowable ==
  \E name \in setup.covers :
    \/ name \in {"trailer", "connection"}
    \/ setup.origin = "direct" /\ ~ Http11(setup.struct) /\ name = "transfer-encoding"
    \/ name = "content-length" /\ ~ responseWriteBodyAllowed(wire.status)

\* A signed response as it left the server.
Intact == pc # "handler" /\ fault = "none" /\ wire.signature # <<>>

\* A length that is signed is one number, and the message is not chunked.
LEMMA LengthAlone ==
  ASSUME BufferType, Undisturbed, Intact, "content-length" \in setup.covers, responseWriteBodyAllowed(wire.status)
  PROVE  /\ wire.fields["transfer-encoding"] = <<>>
         /\ \E n : wire.fields["content-length"] = <<n>> /\ wire.signature["content-length"] = <<n>>
<1> USE DEF Intact
<1>1. "content-length" \in setup.covers \cap ManagedNames /\ ~ ProbedConnection("content-length", setup.struct)
  BY DEF ManagedNames, ProbedConnection
<1>2. /\ Available(wire.signature["content-length"])
      /\ wire.signature["content-length"] = wire.fields["content-length"]
  BY <1>1, SignedSent
<1>3. CASE setup.origin = "middleware"
  <2>1. PICK hangsUp \in BOOLEAN :
          /\ ~ MiddlewareRefuses /\ Signable(SignedByMiddleware) /\ wire.signature = SignedByMiddleware
          /\ wire.fields = SentByMiddleware(hangsUp)
    BY <1>3 DEF Undisturbed, Carries
  <2>2. SignedByMiddleware["content-length"] = <<Length.length>>
    BY <1>1, <2>1, MiddlewareFieldSent
  <2>3. SentByMiddleware(hangsUp)["transfer-encoding"] = IF hasChunked(<<>>) THEN <<"chunked">> ELSE <<>>
    BY Zenon DEF SentByMiddleware, PlainFields, Wire
  <2> QED
    BY <1>2, <2>1, <2>2, <2>3 DEF hasChunked
<1>4. CASE setup.origin = "direct"
  <2>1. wire.fields = WireOfResponse(setup.struct)
    BY <1>4 DEF Undisturbed, Carries
  <2>2. setup.struct \in ResponseStructs
    BY <1>4, SetupAssumption DEF BufferType
  <2>3. LengthOnWire(setup.struct) # <<>> /\ wire.fields["content-length"] = LengthOnWire(setup.struct)
    BY <1>2, <2>1, <2>2, ResponseWire DEF Available
  <2>4. ~ hasChunked(OutCoding(setup.struct)) /\ \E n : LengthOnWire(setup.struct) = <<n>>
    BY <2>3 DEF LengthOnWire, SendsLength
  <2> QED
    BY <1>2, <2>1, <2>2, <2>3, <2>4, ResponseWire
<1>5. CASE setup.origin = "trailers"
  BY <1>1, <1>5, SetupAssumption DEF BufferType
<1> QED
  BY <1>3, <1>4, <1>5, SetupAssumption DEF BufferType

\* A coding that is signed is chunked.
LEMMA CodingChunked ==
  ASSUME BufferType, Undisturbed, Intact, "transfer-encoding" \in setup.covers
  PROVE  /\ wire.fields["transfer-encoding"] = <<"chunked">> /\ wire.signature["transfer-encoding"] = <<"chunked">>
         /\ setup.origin = "direct"
<1> USE DEF Intact
<1>1. "transfer-encoding" \in setup.covers \cap ManagedNames /\ ~ ProbedConnection("transfer-encoding", setup.struct)
  BY DEF ManagedNames, ProbedConnection
<1>2. /\ Available(wire.signature["transfer-encoding"])
      /\ wire.signature["transfer-encoding"] = wire.fields["transfer-encoding"]
  BY <1>1, SignedSent
<1>3. CASE setup.origin = "middleware"
  <2>1. PICK hangsUp \in BOOLEAN : ~ MiddlewareRefuses /\ Signable(SignedByMiddleware)
    BY <1>3 DEF Undisturbed, Carries
  <2> QED
    BY <1>1, <2>1, MiddlewareFieldSent
<1>4. CASE setup.origin = "direct"
  <2>1. wire.fields = WireOfResponse(setup.struct)
    BY <1>4 DEF Undisturbed, Carries
  <2>2. setup.struct \in ResponseStructs
    BY <1>4, SetupAssumption DEF BufferType
  <2> QED
    BY <1>2, <1>4, <2>1, <2>2, ResponseWire DEF Available
<1>5. CASE setup.origin = "trailers"
  BY <1>1, <1>5, SetupAssumption DEF BufferType
<1> QED
  BY <1>3, <1>4, <1>5, SetupAssumption DEF BufferType

\* The values that do not come from the fields net/http manages.
LEMMA PlainValues ==
  ASSUME NEW r, NEW mode, NEW x, NEW d
  PROVE  /\ Value("@status", r, mode, x, d) = <<r.status>>
         /\ Value("x", r, mode, x, d) = IF x = "absent" THEN <<>> ELSE <<x>>
         /\ Value("content-digest", r, mode, x, d) = IF d = <<>> THEN <<>> ELSE <<d>>
         /\ Value("content-digest:sha-256", r, mode, x, d) =
              IF d # <<>> /\ "sha-256" \in DOMAIN d THEN <<d["sha-256"]>> ELSE <<>>
<1>0. /\ "@status" \notin ManagedNames /\ "x" \notin ManagedNames /\ "content-digest" \notin ManagedNames
      /\ "content-digest:sha-256" \notin ManagedNames
  BY DEF ManagedNames
<1>1. Value("@status", r, mode, x, d) = <<r.status>>
  BY <1>0, Zenon DEF Value
<1>2. Value("x", r, mode, x, d) = IF x = "absent" THEN <<>> ELSE <<x>>
  BY <1>0, Zenon DEF Value
<1>3. Value("content-digest", r, mode, x, d) = IF d = <<>> THEN <<>> ELSE <<d>>
  BY <1>0, Zenon DEF Value
<1>4. Value("content-digest:sha-256", r, mode, x, d) =
        IF d # <<>> /\ "sha-256" \in DOMAIN d THEN <<d["sha-256"]>> ELSE <<>>
  BY <1>0, Zenon DEF Value
<1> QED
  BY <1>1, <1>2, <1>3, <1>4

\* The signed struct has the status of the wire, its header and its digests, whoever signed it.
SignedFrom(r, mode) ==
  /\ r.status = wire.status
  /\ wire.signature = SignedValues(r, mode, wire.x, wire.digests)

LEMMA SignerKnown ==
  ASSUME BufferType, Undisturbed, Intact
  PROVE  \E r, mode : SignedFrom(r, mode)
<1> USE DEF Intact
<1>1. CASE setup.origin = "middleware"
  <2>1. SignedFrom(SignedStruct, "write")
    BY <1>1 DEF Undisturbed, Carries, SignedFrom, SignedByMiddleware, SignedStruct
  <2> QED
    BY <2>1
<1>2. CASE setup.origin = "direct"
  <2>1. SignedFrom(setup.struct, setup.mode)
    BY <1>2 DEF Undisturbed, Carries, SignedFrom
  <2> QED
    BY <2>1
<1>3. CASE setup.origin = "trailers"
  <2>1. SignedFrom(TrailerStruct, "write")
    BY <1>3 DEF Undisturbed, Carries, SignedFrom, TrailerStruct
  <2> QED
    BY <2>1
<1> QED
  BY <1>1, <1>2, <1>3, SetupAssumption DEF BufferType

\* Every covered value of the message as received is the one that was signed.
LEMMA IntactVerifies ==
  ASSUME BufferType, Undisturbed, Intact, ~ Unknowable, NEW k \in BOOLEAN, got = Answer(k)
  PROVE  SignatureVerifies
<1>1. PICK r, mode : SignedFrom(r, mode)
  BY SignerKnown
<1>2. wire.signature = [name \in setup.covers |-> Value(name, r, mode, wire.x, wire.digests)]
  BY <1>1 DEF SignedFrom, SignedValues
<1>3. SUFFICES ASSUME NEW name \in setup.covers
               PROVE  Value(name, got, "received", wire.x, wire.digests) = wire.signature[name]
  <2>1. (\A name \in setup.covers : Value(name, got, "received", wire.x, wire.digests) = wire.signature[name])
           => SignatureVerifies
    BY <1>2 DEF SignatureVerifies, SignedValues
  <2> QED
    BY <2>1
<1>4. wire.signature[name] = Value(name, r, mode, wire.x, wire.digests)
  BY <1>2
<1>5. CASE name \in {"@status", "x"} \cup DigestNames
  <2>1. got.status = wire.status
    BY DEF Answer, ReadResponse
  <2>2. r.status = wire.status
    BY <1>1 DEF SignedFrom
  <2> QED
    BY <1>4, <1>5, <2>1, <2>2, PlainValues DEF DigestNames
<1>6. CASE name = "content-length"
  <2>1. responseWriteBodyAllowed(wire.status)
    BY <1>6 DEF Unknowable
  <2>2. PICK n : wire.fields["content-length"] = <<n>> /\ wire.signature["content-length"] = <<n>>
    BY <1>6, <2>1, LengthAlone
  <2>3. wire.fields["transfer-encoding"] = <<>>
    BY <1>6, <2>1, LengthAlone
  <2>4. Minor11 \in BOOLEAN
    BY Zenon DEF Minor11
  <2>5. receivedContentLength(got) = <<n>>
    <3>1. /\ got.headerLength = <<n>> /\ got.coding = <<>> /\ got.length = n
          /\ got.status = wire.status /\ got.method = setup.method
      BY <2>1, <2>2, <2>3, <2>4 DEF Answer, ReadResponse
    <3> QED
      BY <2>1, <3>1 DEF receivedContentLength
  <2>6. Value(name, got, "received", wire.x, wire.digests) = receivedContentLength(got)
    <3>1. Value(name, got, "received", wire.x, wire.digests) = ResponseField(got, "received", name)
      BY <1>6, ManagedValue DEF ManagedNames
    <3>2. ResponseField(got, "received", "content-length") = receivedContentLength(got)
      BY Zenon DEF ResponseField, ReceivedField
    <3> QED
      BY <1>6, <3>1, <3>2
  <2> QED
    BY <1>6, <2>2, <2>5, <2>6
<1>7. CASE name = "transfer-encoding"
  <2>1. /\ wire.fields["transfer-encoding"] = <<"chunked">> /\ wire.signature["transfer-encoding"] = <<"chunked">>
    BY <1>7, CodingChunked
  <2>2. Minor11 = TRUE
    BY <1>7 DEF Unknowable, Minor11, Http11
  <2>3. receivedTransferEncoding(got) = <<"chunked">>
    <3>1. got.coding = <<"chunked">>
      BY <2>1, <2>2 DEF Answer, ReadResponse
    <3> QED
      BY <3>1 DEF receivedTransferEncoding
  <2>4. Value(name, got, "received", wire.x, wire.digests) = receivedTransferEncoding(got)
    <3>1. Value(name, got, "received", wire.x, wire.digests) = ResponseField(got, "received", name)
      BY <1>7, ManagedValue DEF ManagedNames
    <3>2. ResponseField(got, "received", "transfer-encoding") = receivedTransferEncoding(got)
      BY Zenon DEF ResponseField, ReceivedField
    <3> QED
      BY <1>7, <3>1, <3>2
  <2> QED
    BY <1>7, <2>1, <2>3, <2>4
<1>8. name \notin {"trailer", "connection"}
  BY DEF Unknowable
<1> QED
  BY <1>5, <1>6, <1>7, <1>8, SetupAssumption DEF BufferType, ManagedNames

\* The digests are of the content that is sent.
LEMMA IntactDigest ==
  ASSUME BufferType, Undisturbed, Intact, Compatible, verifiesContent
  PROVE  DigestMatches /\ setup.origin # "direct"
<1> USE DEF Intact
<1>1. wire.digests # <<>> /\ setup.policy \subseteq DOMAIN wire.digests
  BY DEF Compatible
<1>2. setup.origin # "direct"
  BY <1>1 DEF Undisturbed, Carries
<1>3. ASSUME NEW a \in setup.policy PROVE wire.digests[a] = wire.content
  <2>1. CASE setup.origin = "middleware"
    <3>1. wire.digests = Digests /\ wire.content = Content
      BY <2>1 DEF Undisturbed, Carries
    <3>2. CASE setup.algorithms # {}
      BY <1>1, <1>3, <3>1, <3>2 DEF Digests
    <3>3. CASE setup.algorithms = {}
      <4>1. wire.content = body
        BY <2>1, <3>3 DEF Compatible
      <4>2. Digests = [b \in {"sha-256", "sha-512"} |-> body]
        BY <1>1, <3>1, <3>3 DEF Digests
      <4> QED
        BY <1>1, <1>3, <3>1, <4>1, <4>2
    <3> QED
      BY <3>2, <3>3
  <2>2. CASE setup.origin = "trailers"
    <3>1. wire.digests = TrailerDigests /\ wire.content = <<"h", "h">>
      BY <2>2 DEF Undisturbed, Carries
    <3> QED
      BY <1>1, <1>3, <3>1 DEF TrailerDigests
  <2> QED
    BY <1>2, <2>1, <2>2, SetupAssumption DEF BufferType
<1> QED
  BY <1>1, <1>2, <1>3 DEF DigestMatches

\* IntactAccepted names the facts this argument uses.
LEMMA IntactAcceptedIs ==
  IntactAccepted <=> (pc = "failed" /\ cause = "message" /\ fault = "none" /\ wire.signature # <<>> /\ Compatible => Unknowable)
BY Zenon DEF IntactAccepted, Unknowable

\* The conditions depend on the configuration, the buffer and the message only.
LEMMA ConditionsSettled ==
  ASSUME UNCHANGED <<setup, serverVars, wire>>
  PROVE  Compatible' = Compatible /\ Unknowable' = Unknowable
<1>1. Compatible' = Compatible
  BY DEF serverVars, Compatible, verifiesContent, AuthenticatesDigestPolicy
<1>2. Unknowable' = Unknowable
  BY DEF Unknowable
<1> QED
  BY <1>1, <1>2

\* No check of the client fails on a message that arrives intact.
LEMMA IntactNotRefused ==
  ASSUME Owner, CommitInv, BufferType, Undisturbed, ReadBack, Next, pc' = "failed", cause' = "message",
         Intact, Compatible, ~ Unknowable
  PROVE  FALSE
<1> USE DEF clientVars
<1>1. verifiesContent => DigestMatches /\ setup.origin # "direct"
  BY IntactDigest
<1>2. /\ setup.origin = "middleware" => ~ responseTransitionsProtocol(wire.status, setup.method)
      /\ setup.origin = "trailers" => ~ responseTransitionsProtocol(wire.status, setup.method)
  <2>1. CASE setup.origin = "middleware"
    BY <2>1 DEF Undisturbed, Intact, Carries, MiddlewareRefuses
  <2>2. CASE setup.origin = "trailers"
    <3>1. wire.status = 200
      BY <2>2 DEF Undisturbed, Intact, Carries
    <3>2. setup.method # "CONNECT"
      BY <2>2, SetupAssumption DEF BufferType
    <3> QED
      BY <2>2, <3>1, <3>2 DEF responseTransitionsProtocol
  <2> QED
    BY <2>1, <2>2
<1>3. setup.origin = "trailers" => verifiesContent
  BY SetupAssumption DEF verifiesContent, BufferType, DigestNames
<1>4. pc \in {"received", "read", "digest", "verify"} => got.status = wire.status /\ got.uncompressed = FALSE
  <2>1. SUFFICES ASSUME pc \in {"received", "read", "digest", "verify"}
                 PROVE  got.status = wire.status /\ got.uncompressed = FALSE
    OBVIOUS
  <2>2. PICK k \in BOOLEAN : got = Answer(k)
    BY <2>1 DEF ReadBack
  <2> QED
    BY <2>2 DEF Answer, ReadResponse, Intact
<1>5. CASE Select
  <2>1. pc = "received" /\ setup.origin # "trailers" /\ RefusedUnread
    BY <1>5 DEF Select, Fail, Proceed
  <2>2. verifiesContent
    BY <2>1 DEF RefusedUnread, Intact
  <2>3. setup.origin = "middleware"
    BY <1>1, <2>1, <2>2, SetupAssumption DEF BufferType
  <2>4. ~ responseTransitionsProtocol(got.status, setup.method) /\ ~ got.uncompressed
    BY <1>2, <1>4, <2>1, <2>3
  <2>5. setup.policy # {} /\ AuthenticatesDigestPolicy /\ wire.digests # <<>>
    BY <2>2 DEF Compatible
  <2>6. setup.clientMax # 0
    BY <2>5, SetupAssumption DEF BufferType
  <2> QED
    BY <2>1, <2>4, <2>5, <2>6 DEF RefusedUnread, Intact
<1>6. CASE SelectInTrailers
  <2>1. /\ pc = "received" /\ setup.origin = "trailers"
        /\ responseTransitionsProtocol(got.status, setup.method) \/ got.uncompressed
    BY <1>6 DEF SelectInTrailers, Fail, Proceed
  <2> QED
    BY <1>2, <1>4, <2>1
<1>7. CASE ReadAndClose
  <2>1. pc = "read" /\ (fault = "cut" \/ Len(wire.content) > setup.clientMax)
    BY <1>7 DEF ReadAndClose
  <2>2. verifiesContent
    BY <2>1 DEF ReadBack
  <2>3. Len(wire.content) <= setup.clientMax
    BY <2>2 DEF Compatible
  <2>4. Len(wire.content) \in Nat /\ setup.clientMax \in Nat
    <3>1. wire.content \in Seq({"h"})
      <4>1. CASE setup.origin = "middleware"
        <5>1. wire.content = Content
          BY <4>1 DEF Undisturbed, Intact, Carries
        <5>2. Content \in {<<>>, body}
          BY DEF Content
        <5>3. body \in Seq({"h"}) /\ <<>> \in Seq({"h"})
          BY DEF BufferType
        <5> QED
          BY <5>1, <5>2, <5>3
      <4>2. CASE setup.origin = "trailers"
        <5>1. wire.content = <<"h", "h">>
          BY <4>2 DEF Undisturbed, Intact, Carries
        <5> QED
          BY <5>1
      <4> QED
        BY <1>1, <2>2, <4>1, <4>2, SetupAssumption DEF BufferType
    <3> QED
      BY <3>1, SetupAssumption DEF BufferType
  <2> QED
    BY <2>1, <2>3, <2>4 DEF Intact
<1>8. CASE CheckDigest \/ CheckTrailers
  <2>1. pc = "digest" /\ ~ (DigestMatches /\ wire.signature # <<>>)
    BY <1>8 DEF CheckDigest, CheckTrailers, Fail, Replace, Intact
  <2> QED
    BY <1>1, <2>1 DEF ReadBack, Intact
<1>9. CASE VerifySignature
  <2>1. pc = "verify" /\ ~ SignatureVerifies
    BY <1>9 DEF VerifySignature, Fail, Proceed
  <2>2. PICK k \in BOOLEAN : got = Answer(k)
    BY <2>1 DEF ReadBack
  <2> QED
    BY <2>1, <2>2, IntactVerifies
<1> QED
  BY <1>5, <1>6, <1>7, <1>8, <1>9 DEF Next, SetHeader, WriteHeader, Write, Handling, Respond, RespondDirectly,
     RespondInTrailers, Transit, Receive, TransportError, Intact

\* A signed response that arrives as it was sent is never refused on account of the message by either
\* of the verifying round trippers, when the policies of the ends are compatible, but for the fields
\* whose value on the wire the client cannot know.
THEOREM IntactIsAccepted == Spec => []IntactAccepted
<1> DEFINE Inv == Owner /\ CommitInv /\ BufferType /\ Undisturbed
<1>1. Init => ReadBack /\ IntactAccepted
  BY DEF Init, ReadBack, IntactAccepted
<1>2. Inv /\ ReadBack /\ [Next]_vars => ReadBack'
  BY ReadBackInductive
<1>3. Inv /\ ReadBack /\ IntactAccepted /\ [Next]_vars => IntactAccepted'
  <2> SUFFICES ASSUME Inv, ReadBack, IntactAccepted, [Next]_vars, ~ IntactAccepted'
               PROVE  FALSE
    OBVIOUS
  <2>1. /\ pc' = "failed" /\ cause' = "message" /\ fault' = "none" /\ wire'.signature # <<>>
        /\ Compatible' /\ ~ Unknowable'
    BY Zenon DEF IntactAccepted, Unknowable
  <2>2. CASE UNCHANGED vars
    <3>1. UNCHANGED <<setup, serverVars, wire, pc, cause, fault>>
      BY <2>2 DEF vars, clientVars
    <3> QED
      BY <2>1, <3>1, ConditionsSettled, IntactAcceptedIs
  <2>3. CASE Next
    <3>1. pc # "handler" /\ UNCHANGED <<setup, serverVars, wire, fault>>
      BY <2>1, <2>3 DEF Next, SetHeader, WriteHeader, Write, Handling, Respond, RespondDirectly, RespondInTrailers,
         Transit, Receive, Select, SelectInTrailers, ReadAndClose, CheckDigest, CheckTrailers, VerifySignature,
         TransportError, Fail, Proceed, Replace
    <3>2. Intact /\ Compatible /\ ~ Unknowable
      <4>1. Intact
        BY <2>1, <3>1 DEF Intact
      <4>2. Compatible' = Compatible /\ Unknowable' = Unknowable
        BY <3>1, ConditionsSettled
      <4> QED
        BY <2>1, <4>1, <4>2, Zenon
    <3> QED
      BY <2>1, <2>3, <3>2, IntactNotRefused
  <2> QED
    BY <2>2, <2>3
<1> QED
  BY <1>1, <1>2, <1>3, WireInvariance, PTL DEF Spec
===============================================================================
