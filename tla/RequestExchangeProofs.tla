------------------------ MODULE RequestExchangeProofs ------------------------
(***************************************************************************)
(* Proofs about RequestExchange for every stack of client adapters, every  *)
(* stack of server middleware and every configuration.  The stacks are     *)
(* walked one adapter at a time, so the invariant says of each adapter     *)
(* either that it is still to come or what its having passed shows.        *)
(***************************************************************************)
EXTENDS RequestExchange, TLAPS

Adapters == {"digest", "sign", "verify", "compat", "trailers"}

\* The body the caller handed in is open as long as the client stack holds it.
Owner ==
  /\ pc = "client" =>
       /\ held = "caller" => closes = 0 /\ setup.struct.body # "nil"
       /\ held # "caller" => closes = IF setup.struct.body = "nil" THEN 0 ELSE 1
  /\ BodyClosedOnce

------------------------------------------------------------------------------
LEMMA OwnerInductive ==
  ASSUME Owner, [Next]_vars
  PROVE  Owner'
<1> USE DEF clientVars, Owner, BodyClosedOnce
<1>1. ASSUME pc = "client", RefuseAndClose PROVE Owner'
  BY <1>1 DEF RefuseAndClose
<1>2. CASE DigestRoundTrip
  BY <1>1, <1>2 DEF DigestRoundTrip, At, Passed
<1>3. CASE SignRoundTrip
  BY <1>1, <1>3 DEF SignRoundTrip, At, Passed
<1>4. CASE SignInTrailers
  BY <1>1, <1>4 DEF SignInTrailers, At, Passed
<1>5. CASE CompatSign
  BY <1>1, <1>5 DEF CompatSign, At, Passed
<1>6. CASE Send
  BY <1>1, <1>6 DEF Send
<1>7. CASE (\E f \in Faults : Transit(f)) \/ Accept \/ Serve
  BY <1>7 DEF Transit, Accept, Serve
<1>8. CASE VerifyDigest \/ VerifySignature \/ VerifyTrailers \/ CompatVerify
  BY <1>8 DEF VerifyDigest, VerifySignature, VerifyTrailers, CompatVerify, MapError, At, Passed
<1>9. CASE UNCHANGED vars
  BY <1>9 DEF vars
<1> QED
  BY <1>2, <1>3, <1>4, <1>5, <1>6, <1>7, <1>8, <1>9 DEF Next

\* The body is closed exactly once, whichever adapter of whatever stack refuses the
\* request and wherever in the stack the body is replaced by a copy.
THEOREM ClosedOnce == Spec => []BodyClosedOnce
<1>1. Init => Owner
  BY DEF Init, Owner, BodyClosedOnce
<1>2. Owner => BodyClosedOnce
  BY DEF Owner
<1> QED
  BY <1>1, <1>2, OwnerInductive, PTL DEF Spec

------------------------------------------------------------------------------
(* The handler gets what was signed. *)

ReqNames  == {"q", "x", "signature", "place", "trailer", "live", "digests"}
WireNames == {"sent", "fields", "url", "x", "digests", "signature", "place", "content", "trailer"}
CurNames  == {"q", "url", "live", "copied", "trailer"}

\* Every digest the client computes or passes on is one of the caller's content ...
Honest(digests) == \A a \in DOMAIN digests : digests[a] = setup.content

\* ... and so is every digest it signs.
HonestSignature(signature) ==
  signature # <<>> =>
    /\ "content-digest" \in setup.covers =>
         \/ signature["content-digest"] = <<>>
         \/ \E d : signature["content-digest"] = <<d>> /\ Honest(d)
    /\ "content-digest:sha-256" \in setup.covers =>
         signature["content-digest:sha-256"] \in {<<>>, <<setup.content>>}

\* The values of the two digest components in a signature base.
DigestValue(digests) == IF digests = <<>> THEN <<>> ELSE <<digests>>
KeyedDigestValue(digests) ==
  IF digests # <<>> /\ "sha-256" \in DOMAIN digests THEN <<digests["sha-256"]>> ELSE <<>>

ContentChecked == cur.copied = TRUE /\ Readable /\ DigestMatches

SignatureChecked ==
  /\ wire.signature # <<>>
  /\ "content-digest" \in setup.covers => wire.signature["content-digest"] = DigestValue(wire.digests)
  /\ "content-digest:sha-256" \in setup.covers =>
       wire.signature["content-digest:sha-256"] = KeyedDigestValue(wire.digests)

Signing ==
  pc = "client" => DOMAIN req = ReqNames /\ Honest(req.digests) /\ HonestSignature(req.signature)

Sending ==
  pc \in {"wire", "server", "handler"} => DOMAIN wire = WireNames /\ HonestSignature(wire.signature)

\* An adapter of the server's stack is still to come, or has made its check.
Checking ==
  pc \in {"server", "handler"} =>
    /\ chain \in Seq(Adapters) /\ DOMAIN cur = CurNames
    /\ pc = "handler" => chain = <<>>
    /\ Contains(setup.server, "digest") => Contains(chain, "digest") \/ ContentChecked
    /\ Contains(setup.server, "verify") => Contains(chain, "verify") \/ SignatureChecked
    /\ Contains(setup.server, "trailers") => Contains(chain, "trailers") \/ (ContentChecked /\ SignatureChecked)

SignedInv == setup \in Setups /\ Signing /\ Sending /\ Checking

\* The two digest components are resolved from the digests alone.
LEMMA DigestValues ==
  ASSUME NEW r, NEW u, NEW e, NEW x, NEW d, NEW tr
  PROVE  /\ Value("content-digest", r, u, e, x, d, tr) = DigestValue(d)
         /\ Value("content-digest:sha-256", r, u, e, x, d, tr) = KeyedDigestValue(d)
BY Zenon DEF Value, DigestValue, KeyedDigestValue, ManagedNames, DerivedNames

LEMMA SignedHonest ==
  ASSUME NEW r, NEW u, NEW e, NEW x, NEW d, NEW tr, Honest(d)
  PROVE  HonestSignature(SignedValues(r, u, e, x, d, tr))
<1> DEFINE sig == SignedValues(r, u, e, x, d, tr)
<1>1. "content-digest" \in setup.covers => sig["content-digest"] = DigestValue(d)
  BY DigestValues DEF SignedValues
<1>2. "content-digest:sha-256" \in setup.covers => sig["content-digest:sha-256"] = KeyedDigestValue(d)
  BY DigestValues DEF SignedValues
<1>3. KeyedDigestValue(d) \in {<<>>, <<setup.content>>}
  BY DEF Honest, KeyedDigestValue
<1>4. DigestValue(d) \in {<<>>, <<d>>}
  BY DEF DigestValue
<1> HIDE DEF sig
<1> QED
  BY <1>1, <1>2, <1>3, <1>4 DEF HonestSignature, sig

\* A stack without its first adapter.
LEMMA TailContains ==
  ASSUME NEW s \in Seq(Adapters), s # <<>>, NEW e, Contains(s, e)
  PROVE  Head(s) = e \/ Contains(Tail(s), e)
<1>1. PICK i \in 1 .. Len(s) : s[i] = e
  BY DEF Contains
<1>2. CASE i = 1
  BY <1>1, <1>2
<1>3. CASE i > 1
  <2>1. i - 1 \in 1 .. Len(Tail(s)) /\ Tail(s)[i - 1] = e
    BY <1>1, <1>3
  <2> QED
    BY <2>1 DEF Contains
<1> QED
  BY <1>1, <1>2, <1>3

LEMMA EmptyContains == \A e : ~ Contains(<<>>, e)
BY DEF Contains

------------------------------------------------------------------------------
LEMMA SigningInductive ==
  ASSUME SignedInv, [Next]_vars
  PROVE  Signing'
<1> USE DEF SignedInv, Signing, ReqNames, Passed, clientVars
<1>1. CASE pc' # "client"
  BY <1>1
<1>2. CASE DigestRoundTrip /\ pc' = "client"
  <2>1. req' = Buffered(req) /\ UNCHANGED setup /\ pc = "client"
    BY <1>2 DEF DigestRoundTrip, RefuseAndClose, At
  <2>2. /\ DOMAIN req' = ReqNames /\ req'.signature = req.signature
        /\ req'.digests = [a \in setup.algorithms |-> setup.content]
    BY <2>1 DEF Buffered
  <2> QED
    BY <2>1, <2>2 DEF Honest, HonestSignature
<1>3. CASE SignRoundTrip /\ pc' = "client"
  <2> DEFINE values == SignedValues(req.q, setup.url, NoContext, req.x, req.digests, req.trailer)
  <2>1. req' = [req EXCEPT !.signature = values, !.live = FALSE] /\ UNCHANGED setup /\ pc = "client"
    BY <1>3 DEF SignRoundTrip, RefuseAndClose, At
  <2>2. HonestSignature(values)
    BY <2>1, SignedHonest
  <2> HIDE DEF values
  <2>3. DOMAIN req' = ReqNames /\ req'.signature = values /\ req'.digests = req.digests
    BY <2>1
  <2> QED
    BY <2>1, <2>2, <2>3 DEF Honest, HonestSignature
<1>4. CASE SignInTrailers /\ pc' = "client"
  <2> DEFINE digests == [a \in setup.algorithms |-> setup.content]
             trailer == FilledAtEOF(req.trailer, req.live)
             sent == Chunked(req.q)
             values == SignedValues(sent, setup.url, NoContext, req.x, digests, trailer)
  <2>1. /\ req' = [req EXCEPT !.q = sent, !.digests = digests, !.place = "trailer", !.trailer = trailer, !.live = FALSE,
                              !.signature = values]
        /\ UNCHANGED setup /\ pc = "client"
    BY <1>4 DEF SignInTrailers, RefuseAndClose, At
  <2>2. Honest(digests)
    BY DEF Honest
  <2> HIDE DEF digests, trailer, sent
  <2>3. HonestSignature(values)
    BY <2>2, SignedHonest
  <2> HIDE DEF values
  <2>4. DOMAIN req' = ReqNames /\ req'.signature = values /\ req'.digests = digests
    BY <2>1
  <2>5. (Honest(req.digests))'
    BY <2>1, <2>2, <2>4 DEF Honest
  <2>6. (HonestSignature(req.signature))'
    BY <2>1, <2>3, <2>4 DEF HonestSignature, Honest
  <2> QED
    BY <2>4, <2>5, <2>6
<1>5. CASE CompatSign /\ pc' = "client"
  <2>1. PICK callback \in CallbackHeaders :
          LET h == compatibleSigningFields(callback, req)
          IN  req' = [req EXCEPT !.x = h.x, !.signature = h.signature, !.live = FALSE]
    BY <1>5 DEF CompatSign, RefuseAndClose
  <2>2. UNCHANGED setup /\ pc = "client"
    BY <1>5 DEF CompatSign, RefuseAndClose, At
  <2>3. compatibleSigningFields(callback, req).signature = req.signature
    BY DEF CallbackHeaders, compatibleSigningFields
  <2>4. DOMAIN req' = ReqNames /\ req'.signature = req.signature /\ req'.digests = req.digests
    BY <2>1, <2>2, <2>3
  <2> QED
    BY <2>2, <2>4 DEF Honest, HonestSignature
<1>6. CASE UNCHANGED vars
  BY <1>6 DEF vars, Honest, HonestSignature
<1> QED
  BY <1>1, <1>2, <1>3, <1>4, <1>5, <1>6
     DEF Next, Send, Transit, Accept, Serve, VerifyDigest, VerifySignature, VerifyTrailers,
         CompatVerify, MapError, RefuseAndClose, At

LEMMA SendingInductive ==
  ASSUME SignedInv, [Next]_vars
  PROVE  Sending'
<1> USE DEF SignedInv, Sending, WireNames, clientVars
<1>1. CASE pc' \notin {"wire", "server", "handler"}
  BY <1>1
<1>2. CASE Send /\ pc' = "wire"
  <2>1. DOMAIN wire' = WireNames /\ wire'.signature = req.signature /\ UNCHANGED setup /\ pc = "client"
    BY <1>2 DEF Send, RefuseAndClose
  <2> QED
    BY <2>1 DEF Signing, HonestSignature, Honest
<1>3. ASSUME NEW f \in Faults, Transit(f) PROVE Sending'
  <2>1. UNCHANGED setup /\ pc = "wire"
    BY <1>3 DEF Transit
  <2>2. DOMAIN wire' = WireNames /\ wire'.signature \in {wire.signature, <<>>}
    BY <1>3, <2>1 DEF Transit
  <2> QED
    BY <2>1, <2>2 DEF HonestSignature, Honest
<1>4. CASE UNCHANGED <<setup, wire>> /\ pc \in {"wire", "server", "handler"}
  BY <1>4 DEF HonestSignature, Honest
<1>5. CASE UNCHANGED vars
  BY <1>5 DEF vars, HonestSignature, Honest
<1> QED
  BY <1>1, <1>2, <1>3, <1>4, <1>5
     DEF Next, DigestRoundTrip, SignRoundTrip, SignInTrailers, CompatSign, RefuseAndClose, Send, Accept,
         Serve, VerifyDigest, VerifySignature, VerifyTrailers, CompatVerify, MapError, At, Passed

\* A signature that verifies agrees with the received digests.
LEMMA VerifiedSignature ==
  ASSUME NEW r, SignatureVerifies(r)
  PROVE  SignatureChecked
<1> DEFINE values == SignedValues(r.q, r.url, External, wire.x, wire.digests, r.trailer)
<1>1. wire.signature # <<>> /\ values = wire.signature
  BY DEF SignatureVerifies
<1>2. /\ "content-digest" \in setup.covers => values["content-digest"] = DigestValue(wire.digests)
      /\ "content-digest:sha-256" \in setup.covers => values["content-digest:sha-256"] = KeyedDigestValue(wire.digests)
  BY DigestValues DEF SignedValues
<1> HIDE DEF values
<1> QED
  BY <1>1, <1>2 DEF SignatureChecked

\* The checks concern the received message, which no middleware changes.
LEMMA ChecksKept ==
  ASSUME UNCHANGED <<setup, wire, fault>>
  PROVE  SignatureChecked' = SignatureChecked /\ (cur'.copied = cur.copied => ContentChecked' = ContentChecked)
BY DEF SignatureChecked, ContentChecked, Readable, DigestMatches, DigestValue, KeyedDigestValue

\* A middleware passes: its own check was made, those of the others are kept.
LEMMA PassKeeps ==
  ASSUME SignedInv, NEW m, At("server", m), Passed, UNCHANGED wire, DOMAIN cur' = CurNames,
         cur'.copied = cur.copied \/ ContentChecked',
         m = "digest" => ContentChecked',
         m = "verify" => SignatureChecked',
         m = "trailers" => ContentChecked' /\ SignatureChecked'
  PROVE  Checking'
<1>1. /\ UNCHANGED <<setup, wire, fault, pc>> /\ chain' = Tail(chain) /\ pc = "server"
      /\ chain \in Seq(Adapters) /\ chain # <<>> /\ Head(chain) = m
  BY DEF SignedInv, Checking, Passed, At
<1>2. Tail(chain) \in Seq(Adapters)
  BY <1>1
<1>3. \A e : Contains(chain, e) => m = e \/ Contains(Tail(chain), e)
  BY <1>1, TailContains
<1>4. (SignatureChecked => SignatureChecked') /\ (ContentChecked => ContentChecked')
  BY <1>1, ChecksKept
<1> QED
  BY <1>1, <1>2, <1>3, <1>4 DEF SignedInv, Checking

LEMMA DrainedCopy ==
  ASSUME DOMAIN cur = CurNames, cur' = Drained
  PROVE  DOMAIN cur' = CurNames /\ cur'.copied = TRUE
BY DEF Drained, CurNames

LEMMA CheckingInductive ==
  ASSUME SignedInv, [Next]_vars
  PROVE  Checking'
<1> USE DEF clientVars
<1>1. CASE pc' \notin {"server", "handler"}
  BY <1>1 DEF Checking
<1>2. CASE Accept
  <2>1. chain' = setup.server /\ UNCHANGED setup /\ pc' = "server" /\ DOMAIN cur' = CurNames
    BY <1>2 DEF Accept, CurNames
  <2>2. setup.server \in Seq(Adapters)
    BY SetupAssumption DEF SignedInv, Adapters
  <2> QED
    BY <2>1, <2>2 DEF Checking
<1>3. CASE VerifyDigest /\ pc' = "server"
  <2>1. /\ At("server", "digest") /\ Passed /\ UNCHANGED wire /\ cur' = Drained
        /\ Readable /\ DigestMatches
    BY <1>3 DEF VerifyDigest, MapError
  <2>2. DOMAIN cur' = CurNames /\ cur'.copied = TRUE
    BY <2>1, DrainedCopy DEF SignedInv, Checking, At
  <2>3. ContentChecked'
    BY <2>1, <2>2 DEF ContentChecked, Readable, DigestMatches, Passed
  <2> QED
    BY <2>1, <2>2, <2>3, PassKeeps
<1>4. CASE VerifySignature /\ pc' = "server"
  <2>1. /\ At("server", "verify") /\ Passed /\ UNCHANGED wire /\ cur' = [cur EXCEPT !.live = FALSE]
        /\ SignatureVerifies(cur)
    BY <1>4 DEF VerifySignature, MapError
  <2>2. DOMAIN cur' = CurNames /\ cur'.copied = cur.copied
    BY <2>1 DEF SignedInv, Checking, At, CurNames
  <2>3. SignatureChecked'
    BY <2>1, VerifiedSignature, ChecksKept DEF Passed
  <2> QED
    BY <2>1, <2>2, <2>3, PassKeeps
<1>5. CASE VerifyTrailers /\ pc' = "server"
  <2>1. /\ At("server", "trailers") /\ Passed /\ UNCHANGED wire /\ cur' = Drained
        /\ Readable /\ DigestMatches /\ SignatureVerifies([Drained EXCEPT !.q = cur.q])
    BY <1>5 DEF VerifyTrailers, MapError
  <2>2. DOMAIN cur' = CurNames /\ cur'.copied = TRUE
    BY <2>1, DrainedCopy DEF SignedInv, Checking, At
  <2>3. ContentChecked'
    BY <2>1, <2>2 DEF ContentChecked, Readable, DigestMatches, Passed
  <2>4. SignatureChecked'
    BY <2>1, VerifiedSignature, ChecksKept DEF Passed
  <2> QED
    BY <2>1, <2>2, <2>3, <2>4, PassKeeps
<1>6. CASE CompatVerify /\ pc' = "server"
  <2>1. /\ At("server", "compat") /\ Passed /\ UNCHANGED <<wire, cur>>
    BY <1>6 DEF CompatVerify, MapError
  <2>2. DOMAIN cur' = CurNames
    BY <2>1 DEF SignedInv, Checking, At
  <2> QED
    BY <2>1, <2>2, PassKeeps
<1>7. CASE Serve \/ UNCHANGED vars
  <2>1. /\ UNCHANGED <<setup, wire, fault, chain, cur>>
        /\ pc' = pc \/ (pc = "server" /\ chain = <<>>)
    BY <1>7 DEF Serve, vars
  <2>2. SignatureChecked' = SignatureChecked /\ ContentChecked' = ContentChecked
    BY <2>1, ChecksKept
  <2> QED
    BY <2>1, <2>2 DEF SignedInv, Checking
<1> QED
  BY <1>1, <1>2, <1>3, <1>4, <1>5, <1>6, <1>7
     DEF Next, DigestRoundTrip, SignRoundTrip, SignInTrailers, CompatSign, RefuseAndClose, Send, Transit,
         VerifyDigest, VerifySignature, VerifyTrailers, CompatVerify, MapError, At, Passed

LEMMA SignedInductive == SignedInv /\ [Next]_vars => SignedInv'
<1> SUFFICES ASSUME SignedInv, [Next]_vars PROVE SignedInv'
  OBVIOUS
<1>1. UNCHANGED setup
  BY DEF Next, DigestRoundTrip, SignRoundTrip, SignInTrailers, CompatSign, RefuseAndClose, Send, Transit,
         Accept, Serve, VerifyDigest, VerifySignature, VerifyTrailers, CompatVerify, MapError, Passed, vars
<1> QED
  BY <1>1, SigningInductive, SendingInductive, CheckingInductive DEF SignedInv

\* Content that passed the server's digest check, under a signature that covers the
\* digests it requires, is the content the caller handed in.
LEMMA CheckedIsSigned ==
  ASSUME SignedInv, pc = "handler", ContentChecked, SignatureChecked, CoversPolicy, setup.policy # {}
  PROVE  wire.content = setup.content
<1>1. /\ wire.digests # <<>>
      /\ \A a \in setup.policy : a \in DOMAIN wire.digests /\ wire.digests[a] = wire.content
  BY DEF ContentChecked, DigestMatches
<1>2. HonestSignature(wire.signature) /\ wire.signature # <<>>
  BY DEF SignedInv, Sending, SignatureChecked
<1>3. CASE "content-digest" \in setup.covers
  <2>1. wire.signature["content-digest"] = <<wire.digests>>
    BY <1>1, <1>3 DEF SignatureChecked, DigestValue
  <2>2. <<wire.digests>> # <<>>
    OBVIOUS
  <2>3. PICK d : wire.signature["content-digest"] = <<d>> /\ Honest(d)
    BY <1>2, <1>3, <2>1, <2>2, Zenon DEF HonestSignature
  <2>4. wire.digests = d
    BY <2>1, <2>3
  <2> QED
    BY <1>1, <2>3, <2>4 DEF Honest
<1>4. CASE "content-digest:sha-256" \in setup.covers /\ setup.policy = {"sha-256"}
  <2>1. "sha-256" \in DOMAIN wire.digests /\ wire.digests["sha-256"] = wire.content
    BY <1>1, <1>4
  <2>2. wire.signature["content-digest:sha-256"] = <<wire.content>>
    BY <1>1, <1>4, <2>1 DEF SignatureChecked, KeyedDigestValue
  <2>3. <<wire.content>> \in {<<>>, <<setup.content>>}
    BY <1>2, <1>4, <2>2, Zenon DEF HonestSignature
  <2> QED
    BY <2>3
<1> QED
  BY <1>3, <1>4 DEF CoversPolicy

LEMMA InitSigned == Init => SignedInv
<1> SUFFICES ASSUME Init PROVE SignedInv
  OBVIOUS
<1>1. /\ DOMAIN req = ReqNames /\ req.signature = <<>>
      /\ req.digests = IF setup.header = "digest" THEN [a \in {"sha-256", "sha-512"} |-> setup.content] ELSE <<>>
  BY DEF Init, ReqNames
<1>2. DOMAIN <<>> = {}
  OBVIOUS
<1>3. Honest(req.digests)
  BY <1>1, <1>2 DEF Honest
<1> QED
  BY <1>1, <1>3 DEF Init, SignedInv, Signing, Sending, Checking, HonestSignature

\* Behind any stack that checks content and signature, in either order and with any
\* other middleware between, the handler reads the content the client's caller handed
\* in, whatever happened in transit, if the signature covers the required digests.
THEOREM HandlerReadsSigned == Spec => []HandlerGetsSigned
<1>1. Init => SignedInv
  BY InitSigned
<1>2. SignedInv => HandlerGetsSigned
  <2> SUFFICES ASSUME SignedInv, pc = "handler", ChecksContent, ChecksSignature, CoversPolicy
               PROVE  cur.copied /\ wire.content = setup.content /\ Len(wire.content) <= setup.serverMax
    BY DEF HandlerGetsSigned
  <2>1. \A e : ~ Contains(chain, e)
    BY EmptyContains DEF SignedInv, Checking
  <2>2. ContentChecked /\ SignatureChecked
    BY <2>1 DEF SignedInv, Checking, ChecksContent, ChecksSignature
  <2>3. setup.policy # {}
    BY SetupAssumption DEF SignedInv, ChecksContent
  <2> QED
    BY <2>2, <2>3, CheckedIsSigned DEF ContentChecked, Readable
<1> QED
  BY <1>1, <1>2, SignedInductive, PTL DEF Spec

------------------------------------------------------------------------------
(* Trailers that exist only at EOF. *)

\* The caller declared trailers, and the first client adapter reads the body.
ReadsFirst ==
  /\ setup.trailer = "declared" /\ setup.client # <<>>
  /\ Head(setup.client) \in {"digest", "trailers"}

StructNames == {"length", "coding", "body", "trailer"}

\* The first adapter is still to come, or the values are there and chunked framing will
\* carry them.
Filling ==
  pc = "client" /\ ReadsFirst =>
    /\ StructNames \subseteq DOMAIN req.q /\ req.q.trailer = TRUE /\ req.q.body # "nil"
    /\ \/ chain = setup.client /\ req.trailer = "declared" /\ req.live = TRUE
       \/ req.trailer = "filled" /\ hasChunked(req.q.coding)

Carrying ==
  pc \in {"wire", "server", "handler"} /\ ReadsFirst =>
    wire.fields["trailer"] = <<"T">> /\ (fault # "trailers" => wire.trailer = "filled")

\* The outermost reader of the server's stack is still to come, or the values are there.
Arriving ==
  pc \in {"server", "handler"} /\ ReadsFirst /\ fault # "trailers" /\ OutermostReads(setup.server) =>
    \/ cur.trailer = "filled"
    \/ cur.trailer = "declared" /\ cur.live = TRUE /\ OutermostReads(chain)

TrailerInv == Filling /\ Carrying /\ Arriving

\* Chunked framing carries the trailer declaration of a request with a body.
LEMMA ChunkedCarries ==
  ASSUME NEW q, q.trailer = TRUE, q.body # "nil", hasChunked(q.coding)
  PROVE  WireOfRequest(q)["trailer"] = <<"T">>
<1> DEFINE outgoing == IF q.body \in {"nil", "NoBody"} THEN 0 ELSE IF q.length # 0 THEN q.length ELSE -1
           probed   == outgoing < 0 /\ q.coding = <<>> /\ q.method \in {"GET", "HEAD", "DELETE", "OPTIONS"}
           body     == IF probed /\ q.body = "empty" THEN "nil" ELSE q.body
           chunks   == outgoing < 0 /\ q.coding = <<>> /\ body # "nil" /\ q.method # "CONNECT"
           coding   == IF body = "nil" THEN <<>> ELSE IF chunks THEN <<"chunked">> ELSE q.coding
           length   == IF hasChunked(coding) THEN -1 ELSE IF body = "nil" THEN 0 ELSE outgoing
           sent     == IF SendsLength(q.method, length, coding) THEN <<length>> ELSE <<>>
           conn     == CloseField(q.connection, q.close)
<1>1. q.coding # <<>>
  BY Zenon DEF hasChunked
<1>2. coding = q.coding
  <2>1. ~ probed /\ ~ chunks
    BY <1>1, Zenon
  <2>2. body = q.body
    BY <2>1, Zenon
  <2> QED
    BY <2>1, <2>2, Zenon
<1>3. WireOfRequest(q) = Wire(sent, coding, q.trailer, conn)
  BY Zenon DEF WireOfRequest
<1> HIDE DEF sent, coding, conn
<1>4. Wire(sent, coding, q.trailer, conn)["trailer"] = IF hasChunked(coding) /\ q.trailer THEN <<"T">> ELSE <<>>
  BY Zenon DEF Wire
<1> QED
  BY <1>2, <1>3, <1>4, Zenon

\* Without its first middleware, one that does not copy the request, a stack still has
\* the same outermost reader.
LEMMA TailReads ==
  ASSUME NEW s \in Seq(Adapters), s # <<>>, OutermostReads(s), Head(s) \notin {"digest", "trailers"}
  PROVE  Head(s) = "compat" /\ OutermostReads(Tail(s))
<1>1. PICK i \in 1 .. Len(s) : s[i] \in {"digest", "trailers"} /\ \A j \in 1 .. i - 1 : s[j] = "compat"
  BY DEF OutermostReads
<1>2. i > 1
  BY <1>1
<1>3. s[1] = "compat"
  BY <1>1, <1>2
<1>4. /\ i - 1 \in 1 .. Len(Tail(s)) /\ Tail(s)[i - 1] \in {"digest", "trailers"}
      /\ \A j \in 1 .. (i - 1) - 1 : Tail(s)[j] = "compat"
  BY <1>1, <1>2
<1> QED
  BY <1>3, <1>4 DEF OutermostReads

LEMMA FillingInductive ==
  ASSUME SignedInv, Filling, [Next]_vars
  PROVE  Filling'
<1> USE DEF clientVars
<1>1. CASE pc' # "client"
  BY <1>1 DEF Filling
<1>2. ASSUME pc = "client", UNCHANGED setup, ReadsFirst
      PROVE  /\ DOMAIN req = ReqNames
             /\ StructNames \subseteq DOMAIN req.q /\ req.q.trailer = TRUE /\ req.q.body # "nil"
             /\ \/ chain = setup.client /\ req.trailer = "declared" /\ req.live = TRUE
                \/ req.trailer = "filled" /\ hasChunked(req.q.coding)
             /\ FilledAtEOF(req.trailer, req.live) = "filled"
  BY <1>2 DEF SignedInv, Signing, Filling, FilledAtEOF
<1>3. CASE DigestRoundTrip /\ pc' = "client"
  <2>1. req' = Buffered(req) /\ UNCHANGED setup /\ pc = "client"
    BY <1>3 DEF DigestRoundTrip, RefuseAndClose, At, Passed
  <2> SUFFICES ASSUME ReadsFirst
               PROVE  /\ StructNames \subseteq DOMAIN req'.q /\ req'.q.trailer = TRUE /\ req'.q.body # "nil"
                      /\ req'.trailer = "filled" /\ hasChunked(req'.q.coding)
    BY <2>1 DEF Filling, ReadsFirst
  <2>2. /\ DOMAIN req = ReqNames /\ StructNames \subseteq DOMAIN req.q /\ req.q.trailer = TRUE
        /\ FilledAtEOF(req.trailer, req.live) = "filled"
    BY <1>2, <2>1
  <2>3. /\ req'.trailer = "filled" /\ DOMAIN req'.q = DOMAIN req.q /\ req'.q.trailer = req.q.trailer
        /\ req'.q.body \in {"empty", "bytes"} /\ req'.q.coding = <<"chunked">>
    BY <2>1, <2>2 DEF Buffered, ReqNames, StructNames
  <2> QED
    BY <2>2, <2>3 DEF hasChunked
<1>4. CASE SignInTrailers /\ pc' = "client"
  <2> DEFINE trailer == FilledAtEOF(req.trailer, req.live)
             sent == Chunked(req.q)
  <2>1. /\ UNCHANGED setup /\ pc = "client"
        /\ DOMAIN req = ReqNames => req'.q = sent /\ req'.trailer = trailer
    BY <1>4 DEF SignInTrailers, RefuseAndClose, At, Passed, ReqNames
  <2> SUFFICES ASSUME ReadsFirst
               PROVE  /\ StructNames \subseteq DOMAIN req'.q /\ req'.q.trailer = TRUE /\ req'.q.body # "nil"
                      /\ req'.trailer = "filled" /\ hasChunked(req'.q.coding)
    BY <2>1 DEF Filling, ReadsFirst
  <2>2. /\ DOMAIN req = ReqNames /\ StructNames \subseteq DOMAIN req.q
        /\ req.q.body # "nil" /\ trailer = "filled"
    BY <1>2, <2>1
  <2>3. /\ DOMAIN sent = DOMAIN req.q /\ sent.trailer = TRUE /\ sent.body \in {"bytes", "empty"}
        /\ sent.coding = <<"chunked">>
    BY <2>2 DEF StructNames, Chunked
  <2> HIDE DEF sent, trailer
  <2>4. hasChunked(sent.coding)
    BY <2>3 DEF hasChunked
  <2> QED
    BY <2>1, <2>2, <2>3, <2>4
<1>5. CASE (SignRoundTrip \/ CompatSign) /\ pc' = "client"
  <2>1. /\ UNCHANGED setup /\ pc = "client" /\ chain # <<>> /\ Head(chain) \in {"sign", "compat"}
        /\ DOMAIN req = ReqNames => req'.q = req.q /\ req'.trailer = req.trailer
    BY <1>5 DEF SignRoundTrip, CompatSign, RefuseAndClose, At, Passed, ReqNames
  <2> SUFFICES ASSUME ReadsFirst
               PROVE  /\ StructNames \subseteq DOMAIN req'.q /\ req'.q.trailer = TRUE /\ req'.q.body # "nil"
                      /\ req'.trailer = "filled" /\ hasChunked(req'.q.coding)
    BY <2>1 DEF Filling, ReadsFirst
  <2>2. chain # setup.client
    BY <2>1 DEF ReadsFirst
  <2> QED
    BY <1>2, <2>1, <2>2
<1>6. CASE UNCHANGED vars
  BY <1>6 DEF vars, Filling, ReadsFirst
<1> QED
  BY <1>1, <1>3, <1>4, <1>5, <1>6
     DEF Next, Send, Transit, Accept, Serve, VerifyDigest, VerifySignature, VerifyTrailers,
         CompatVerify, MapError, RefuseAndClose, At, Passed

LEMMA CarryingInductive ==
  ASSUME SignedInv, Filling, Carrying, [Next]_vars
  PROVE  Carrying'
<1> USE DEF clientVars
<1>1. CASE pc' \notin {"wire", "server", "handler"}
  BY <1>1 DEF Carrying
<1>2. CASE Send /\ pc' = "wire"
  <2>1. /\ UNCHANGED setup /\ pc = "client" /\ chain = <<>>
        /\ wire'.fields = WireOfRequest(req.q) /\ wire'.trailer = FilledAtEOF(req.trailer, req.live)
    BY <1>2 DEF Send, RefuseAndClose
  <2> SUFFICES ASSUME ReadsFirst
               PROVE  wire'.fields["trailer"] = <<"T">> /\ wire'.trailer = "filled"
    BY <2>1 DEF Carrying, ReadsFirst
  <2>2. chain # setup.client
    BY <2>1 DEF ReadsFirst
  <2>3. /\ req.q.trailer = TRUE /\ req.q.body # "nil"
        /\ req.trailer = "filled" /\ hasChunked(req.q.coding)
    BY <2>1, <2>2 DEF Filling
  <2>4. WireOfRequest(req.q)["trailer"] = <<"T">>
    BY <2>3, ChunkedCarries
  <2> QED
    BY <2>1, <2>3, <2>4 DEF FilledAtEOF
<1>3. ASSUME NEW f \in Faults, Transit(f) PROVE Carrying'
  <2>1. UNCHANGED setup /\ pc = "wire" /\ fault = "none" /\ fault' = f
    BY <1>3 DEF Transit
  <2>2. wire'.fields = wire.fields /\ (f # "trailers" => wire'.trailer = wire.trailer)
    BY <1>3, <2>1 DEF Transit, SignedInv, Sending, WireNames
  <2> QED
    BY <2>1, <2>2 DEF Carrying, ReadsFirst
<1>4. CASE UNCHANGED <<setup, wire, fault>> /\ pc \in {"wire", "server", "handler"}
  BY <1>4 DEF Carrying, ReadsFirst
<1>5. CASE UNCHANGED vars
  BY <1>5 DEF vars, Carrying, ReadsFirst
<1> QED
  BY <1>1, <1>2, <1>3, <1>4, <1>5
     DEF Next, DigestRoundTrip, SignRoundTrip, SignInTrailers, CompatSign, RefuseAndClose, Send, Accept,
         Serve, VerifyDigest, VerifySignature, VerifyTrailers, CompatVerify, MapError, At, Passed

LEMMA ArrivingInductive ==
  ASSUME SignedInv, Carrying, Arriving, [Next]_vars
  PROVE  Arriving'
<1> USE DEF clientVars
<1>1. CASE pc' \notin {"server", "handler"}
  BY <1>1 DEF Arriving
<1>2. CASE Accept
  <2>1. /\ chain' = setup.server /\ UNCHANGED setup /\ pc = "wire"
        /\ LET q == ReadRequest(wire.fields, setup.struct.method, wire.content)
           IN  cur'.live = TRUE /\ cur'.trailer = IF q.trailer THEN "declared" ELSE "none"
    BY <1>2 DEF Accept
  <2>2. ReadRequest(wire.fields, setup.struct.method, wire.content).trailer = (wire.fields["trailer"] # <<>>)
    BY DEF ReadRequest
  <2>3. ReadsFirst => wire.fields["trailer"] # <<>>
    <3>1. <<"T">> # <<>>
      OBVIOUS
    <3> QED
      BY <2>1, <3>1, Zenon DEF Carrying
  <2> QED
    BY <2>1, <2>2, <2>3 DEF Arriving, ReadsFirst
<1>3. CASE (VerifyDigest \/ VerifyTrailers) /\ pc' = "server"
  <2>1. cur' = Drained /\ pc = "server" /\ UNCHANGED <<setup, wire, fault>>
    BY <1>3 DEF VerifyDigest, VerifyTrailers, MapError, At, Passed
  <2>2. cur'.trailer = IF cur.live /\ cur.trailer = "declared" THEN wire.trailer ELSE cur.trailer
    BY <2>1 DEF Drained, SignedInv, Checking, CurNames
  <2>3. ReadsFirst /\ fault # "trailers" => wire.trailer = "filled"
    BY <2>1 DEF Carrying
  <2> QED
    BY <2>1, <2>2, <2>3 DEF Arriving, ReadsFirst
<1>4. CASE (VerifySignature \/ CompatVerify) /\ pc' = "server"
  <2>1. /\ pc = "server" /\ UNCHANGED <<setup, wire, fault>>
        /\ chain # <<>> /\ chain' = Tail(chain) /\ Head(chain) \in {"verify", "compat"}
        /\ DOMAIN cur = CurNames => cur'.trailer = cur.trailer
        /\ Head(chain) = "compat" => cur' = cur
    BY <1>4 DEF VerifySignature, CompatVerify, MapError, At, Passed, CurNames
  <2>2. DOMAIN cur = CurNames /\ chain \in Seq(Adapters)
    BY <2>1 DEF SignedInv, Checking
  <2>3. OutermostReads(chain) => Head(chain) = "compat" /\ OutermostReads(Tail(chain))
    BY <2>1, <2>2, TailReads
  <2> QED
    BY <2>1, <2>2, <2>3 DEF Arriving, ReadsFirst
<1>5. CASE Serve \/ UNCHANGED vars
  <2>1. UNCHANGED <<setup, fault, chain, cur>> /\ (pc' = pc \/ pc = "server")
    BY <1>5 DEF Serve, vars
  <2> QED
    BY <2>1 DEF Arriving, ReadsFirst
<1> QED
  BY <1>1, <1>2, <1>3, <1>4, <1>5
     DEF Next, DigestRoundTrip, SignRoundTrip, SignInTrailers, CompatSign, RefuseAndClose, Send, Transit,
         VerifyDigest, VerifySignature, VerifyTrailers, CompatVerify, MapError, At, Passed

\* Trailer values that appear only when the caller's body ends are not lost in any stack
\* whose first client adapter, and whose outermost copying middleware, read the body:
\* chunked framing announces them and the server's copy takes them from the live map.
THEOREM TrailersReachHandler == Spec => []TrailersArrive
<1>1. Init => SignedInv /\ TrailerInv
  <2> SUFFICES ASSUME Init PROVE TrailerInv
    BY InitSigned
  <2>1. req.q = setup.struct /\ req.trailer = setup.trailer /\ req.live = TRUE /\ chain = setup.client
    BY DEF Init
  <2>2. setup.trailer = "declared" => setup.struct.trailer = TRUE /\ setup.struct.body # "nil"
    BY SetupAssumption DEF Init
  <2>3. StructNames \subseteq DOMAIN setup.struct
    BY SetupAssumption DEF Init, StructNames, OutgoingStructs
  <2>4. Filling
    BY <2>1, <2>2, <2>3 DEF Filling, ReadsFirst
  <2> QED
    BY <2>4 DEF Init, TrailerInv, Carrying, Arriving
<1>2. (SignedInv /\ TrailerInv) /\ [Next]_vars => (SignedInv /\ TrailerInv)'
  BY SignedInductive, FillingInductive, CarryingInductive, ArrivingInductive DEF TrailerInv
<1>3. SignedInv /\ TrailerInv => TrailersArrive
  <2> SUFFICES ASSUME SignedInv, TrailerInv, pc = "handler", fault # "trailers", ReadsFirst,
                      OutermostReads(setup.server)
               PROVE  cur.trailer = "filled"
    BY DEF TrailersArrive, ReadsFirst
  <2>1. ~ OutermostReads(chain)
    BY DEF SignedInv, Checking, OutermostReads
  <2> QED
    BY <2>1 DEF TrailerInv, Arriving
<1> QED
  BY <1>1, <1>2, <1>3, PTL DEF Spec

------------------------------------------------------------------------------
(* A signed request that arrives intact is accepted. *)

(* The managed fields: what the server reads back from the wire has the values *)
(* that the client took from its struct.                                        *)

Outgoing(q) == StructNames \cup {"inbound"} \subseteq DOMAIN q /\ q.length \in Int /\ q.inbound = FALSE

\* The wire of a struct whose coding net/http leaves alone.
LEMMA WireOfFramed ==
  ASSUME NEW q, Outgoing(q), q.body # "nil", q.coding # <<>> \/ q.length > 0,
         NEW out, out = IF q.body = "NoBody" THEN 0 ELSE IF q.length # 0 THEN q.length ELSE -1
  PROVE  WireOfRequest(q) =
           Wire(IF SendsLength(q.method, IF hasChunked(q.coding) THEN -1 ELSE out, q.coding)
                THEN <<IF hasChunked(q.coding) THEN -1 ELSE out>> ELSE <<>>, q.coding, q.trailer, CloseField(q.connection, q.close))
<1> DEFINE outgoing == IF q.body \in {"nil", "NoBody"} THEN 0 ELSE IF q.length # 0 THEN q.length ELSE -1
           probed   == outgoing < 0 /\ q.coding = <<>> /\ q.method \in {"GET", "HEAD", "DELETE", "OPTIONS"}
           body     == IF probed /\ q.body = "empty" THEN "nil" ELSE q.body
           chunks   == outgoing < 0 /\ q.coding = <<>> /\ body # "nil" /\ q.method # "CONNECT"
           coding   == IF body = "nil" THEN <<>> ELSE IF chunks THEN <<"chunked">> ELSE q.coding
           length   == IF hasChunked(coding) THEN -1 ELSE IF body = "nil" THEN 0 ELSE outgoing
<1>1. outgoing = out
  BY Zenon
<1>2. q.length > 0 => ~ (outgoing < 0)
  BY DEF Outgoing
<1>3. ~ probed /\ ~ chunks
  BY <1>2, Zenon
<1>4. body = q.body
  BY <1>3, Zenon
<1>5. coding = q.coding
  BY <1>3, <1>4, Zenon
<1>6. length = IF hasChunked(q.coding) THEN -1 ELSE out
  BY <1>1, <1>4, <1>5, Zenon
<1>7. WireOfRequest(q) =
        Wire(IF SendsLength(q.method, length, coding) THEN <<length>> ELSE <<>>, coding, q.trailer, CloseField(q.connection, q.close))
  BY Zenon DEF WireOfRequest
<1> QED
  BY <1>5, <1>6, <1>7, Zenon

\* The four fields of a wire.
LEMMA WireFields ==
  ASSUME NEW length, NEW coding, NEW trailer, NEW connection
  PROVE  /\ Wire(length, coding, trailer, connection)["content-length"] = length
         /\ Wire(length, coding, trailer, connection)["transfer-encoding"] = IF hasChunked(coding) THEN <<"chunked">> ELSE <<>>
         /\ Wire(length, coding, trailer, connection)["connection"] = connection
BY Zenon DEF Wire

\* The struct the server reads from the wire of q, whose body a middleware may have
\* replaced by its copy of the content.
Arrived(q, method, content) == ReadRequest(WireOfRequest(q), method, content)
Copied(r, content) == [r EXCEPT !.body = IF content = <<>> THEN "empty" ELSE "bytes"]

LEMMA LengthArrives ==
  ASSUME NEW q, Outgoing(q), NEW m, NEW content, content # <<>>, q.body = "bytes",
         Available(requestContentLength(q)),
         NEW r, r \in {Arrived(q, m, content), Copied(Arrived(q, m, content), content)}
  PROVE  requestContentLength(r) = requestContentLength(q)
<1>1. ~ hasChunked(q.coding) /\ q.length > 0 /\ q.length \in Int /\ requestContentLength(q) = <<q.length>>
  BY DEF Available, requestContentLength, requestUsesChunked, Outgoing
<1> DEFINE conn == CloseField(q.connection, q.close)
<1>2. WireOfRequest(q) = Wire(<<q.length>>, q.coding, q.trailer, conn)
  <2>1. SendsLength(q.method, q.length, q.coding)
    BY <1>1 DEF SendsLength
  <2>2. q.length # 0
    BY <1>1
  <2> QED
    BY <1>1, <2>1, <2>2, WireOfFramed
<1> DEFINE w == WireOfRequest(q)
<1>3. w["content-length"] = <<q.length>> /\ w["transfer-encoding"] = <<>>
  BY <1>1, <1>2, WireFields
<1> HIDE DEF w
<1>4. ReadRequest(w, m, content).coding = <<>> /\ ReadRequest(w, m, content).length = q.length
      /\ ReadRequest(w, m, content).body = "bytes"
  BY <1>1, <1>3 DEF ReadRequest
<1>5. DOMAIN ReadRequest(w, m, content) = {"method", "proto", "length", "coding", "body", "trailer", "close", "connection", "inbound"}
  BY DEF ReadRequest
<1>6. r.coding = <<>> /\ r.length = q.length /\ r.body = "bytes"
  BY <1>4, <1>5 DEF Arrived, Copied, w
<1> QED
  BY <1>1, <1>6 DEF requestContentLength, requestUsesChunked, hasChunked

LEMMA CodingArrives ==
  ASSUME NEW q, Outgoing(q), NEW m, NEW content, Available(RequestField(q, "transfer-encoding")),
         NEW r, r \in {Arrived(q, m, content), Copied(Arrived(q, m, content), content)}
  PROVE  RequestField(r, "transfer-encoding") = RequestField(q, "transfer-encoding")
<1> DEFINE Field(s) == IF s.body = "nil" THEN <<>> ELSE transferEncodingFieldValues(s.coding)
<1>1. \A s : RequestField(s, "transfer-encoding") = Field(s)
  BY Zenon DEF RequestField
<1>2. q.body # "nil" /\ q.coding # <<>> /\ hasChunked(q.coding) /\ Field(q) = <<"chunked">>
  BY <1>1 DEF Available, transferEncodingFieldValues
<1> DEFINE w == WireOfRequest(q)
<1>3. w["transfer-encoding"] = <<"chunked">>
  <2> DEFINE out == IF q.body = "NoBody" THEN 0 ELSE IF q.length # 0 THEN q.length ELSE -1
             sent == IF hasChunked(q.coding) THEN -1 ELSE out
             length == IF SendsLength(q.method, sent, q.coding) THEN <<sent>> ELSE <<>>
             conn == CloseField(q.connection, q.close)
  <2>1. w = Wire(length, q.coding, q.trailer, conn)
    BY <1>2, WireOfFramed
  <2> HIDE DEF w, length, conn
  <2> QED
    BY <1>2, <2>1, WireFields
<1> HIDE DEF w
<1>4. ReadRequest(w, m, content).coding = <<"chunked">> /\ ReadRequest(w, m, content).body \in {"empty", "bytes", "NoBody"}
  BY <1>3 DEF ReadRequest
<1>5. DOMAIN ReadRequest(w, m, content) = {"method", "proto", "length", "coding", "body", "trailer", "close", "connection", "inbound"}
  BY DEF ReadRequest
<1>6. r.coding = <<"chunked">> /\ r.body # "nil"
  BY <1>4, <1>5 DEF Arrived, Copied, w
<1>7. Field(r) = <<"chunked">>
  BY <1>6 DEF transferEncodingFieldValues, hasChunked, isIdentity
<1> QED
  BY <1>1, <1>2, <1>7

LEMMA ConnectionArrives ==
  ASSUME NEW q, Outgoing(q), NEW m, NEW content,
         NEW r, r \in {Arrived(q, m, content), Copied(Arrived(q, m, content), content)}
  PROVE  RequestField(r, "connection") = RequestField(q, "connection")
<1>1. \A s : RequestField(s, "connection") = IF s.inbound THEN s.connection ELSE CloseField(s.connection, s.close)
  BY Zenon DEF RequestField
<1>2. q.inbound = FALSE
  BY DEF Outgoing
<1> DEFINE w == WireOfRequest(q)
<1>3. w["connection"] = CloseField(q.connection, q.close)
  <2> DEFINE conn == CloseField(q.connection, q.close)
  <2> HIDE DEF conn
  <2>1. \E length, coding : w = Wire(length, coding, q.trailer, conn)
    BY Zenon DEF WireOfRequest, conn
  <2> HIDE DEF w
  <2>2. PICK length, coding : w = Wire(length, coding, q.trailer, conn)
    BY <2>1
  <2> QED
    BY <2>2, WireFields DEF conn
<1> HIDE DEF w
<1>4. ReadRequest(w, m, content).connection = w["connection"] /\ ReadRequest(w, m, content).inbound = TRUE
  BY DEF ReadRequest
<1>5. DOMAIN ReadRequest(w, m, content) = {"method", "proto", "length", "coding", "body", "trailer", "close", "connection", "inbound"}
  BY DEF ReadRequest
<1>6. r.connection = w["connection"] /\ r.inbound = TRUE
  BY <1>4, <1>5 DEF Arrived, Copied, w
<1> QED
  BY <1>1, <1>2, <1>3, <1>6

(* The derived components: both ends resolve the same URL from what they see. *)

\* The parts of a request with this target, once scheme and authority are chosen.
Parts(s, a, t) ==
  [ scheme |-> s, authority |-> normalizeAuthority(a, s), requestTarget |-> t,
    path |-> IF t.form \in {"asterisk", "authority"} \/ t.path = "empty" THEN "/" ELSE t.path,
    query |-> IF t.form \in {"asterisk", "authority"} \/ t.query = "none" THEN "empty" ELSE t.query,
    originTarget |-> IF t.form \in {"asterisk", "authority"} THEN <<"empty", "none">> ELSE <<t.path, t.query>> ]

ChosenScheme(r, e) ==
  LET t     == ChosenTarget(r, e)
      given == IF e # NoContext THEN e.scheme ELSE IF t.form = "absolute" THEN t.scheme ELSE r.scheme
  IN  IF given # "empty" THEN given ELSE IF r.tls THEN "https" ELSE "http"

ChosenAuthority(r, e) ==
  LET t == ChosenTarget(r, e)
  IN  IF e # NoContext THEN e.authority ELSE IF t.form \in {"absolute", "authority"} THEN t.authority ELSE HostOf(r)

\* The request is resolved from that target, scheme and authority, or not at all.
Resolvable(r, e, s, a, t) ==
  WellFormedTarget(t, r.method) /\ ConsistentContext(t, e) /\ s \in {"http", "https"} /\ a.host # "empty"

LEMMA ResolvedParts ==
  ASSUME NEW r, NEW e, NEW s, NEW a, NEW t,
         t = ChosenTarget(r, e), s = ChosenScheme(r, e), a = ChosenAuthority(r, e)
  PROVE  requestParts(r, e) = IF Resolvable(r, e, s, a, t) THEN Parts(s, a, t) ELSE NoParts
BY Zenon DEF requestParts, ChosenScheme, ChosenAuthority, Resolvable, Parts

LEMMA PartsExist == \A s, a, t : Parts(s, a, t) # NoParts
<1>1. \A s, a, t : "scheme" \in DOMAIN Parts(s, a, t)
  BY DEF Parts
<1>2. DOMAIN NoParts = {}
  BY DEF NoParts
<1> QED
  BY <1>1, <1>2

\* What a value resolved from parts is.
LEMMA DerivedFrom ==
  ASSUME NEW r, NEW e, NEW s, NEW a, NEW t, requestParts(r, e) = Parts(s, a, t)
  PROVE  /\ Derived("@target-uri", r, e) = <<s, normalizeAuthority(a, s), Parts(s, a, t).originTarget>>
         /\ Derived("@authority", r, e) = <<normalizeAuthority(a, s)>>
         /\ Derived("@scheme", r, e) = <<s>>
         /\ Derived("@request-target", r, e) = <<t>>
         /\ Derived("@path", r, e) = <<Parts(s, a, t).path>>
         /\ Derived("@query", r, e) = <<Parts(s, a, t).query>>
<1> DEFINE p == Parts(s, a, t)
<1>1. p # NoParts /\ requestParts(r, e) = p
  BY PartsExist
<1>2. p.scheme = s /\ p.authority = normalizeAuthority(a, s) /\ p.requestTarget = t
  BY DEF Parts
<1> HIDE DEF p
<1>3. /\ Derived("@target-uri", r, e) = <<p.scheme, p.authority, p.originTarget>>
      /\ Derived("@authority", r, e) = <<p.authority>>
      /\ Derived("@scheme", r, e) = <<p.scheme>>
      /\ Derived("@request-target", r, e) = <<p.requestTarget>>
      /\ Derived("@path", r, e) = <<p.path>>
      /\ Derived("@query", r, e) = <<p.query>>
  BY <1>1, Zenon DEF Derived
<1> QED
  BY <1>2, <1>3 DEF p

\* The client resolves the URL itself.
LEMMA ClientParts ==
  ASSUME NEW u, NEW via, OutgoingUrl(u, via), requestParts(u, NoContext) # NoParts
  PROVE  /\ requestParts(u, NoContext) = Parts(u.scheme, HostOf(u), RequestURI(u))
         /\ RequestURI(u).form \in {"origin", "asterisk"} /\ HostOf(u).host # "empty"
         /\ RequestURI(u).form = "asterisk" => u.method = "OPTIONS"
<1> DEFINE t == RequestURI(u)
<1>1. u.uri = NoTarget /\ u.scheme \in {"http", "https"}
  BY DEF OutgoingUrl
<1>2. t.form \in {"origin", "asterisk", "malformed"}
  BY DEF RequestURI, Target
<1>3. ChosenTarget(u, NoContext) = t
  BY <1>1, Zenon DEF ChosenTarget
<1>4. ChosenScheme(u, NoContext) = u.scheme
  BY <1>1, <1>2, <1>3 DEF ChosenScheme
<1>5. ChosenAuthority(u, NoContext) = HostOf(u)
  BY <1>2, <1>3 DEF ChosenAuthority
<1>6. requestParts(u, NoContext) = IF Resolvable(u, NoContext, u.scheme, HostOf(u), t) THEN Parts(u.scheme, HostOf(u), t) ELSE NoParts
  BY <1>3, <1>4, <1>5, ResolvedParts
<1>7. Resolvable(u, NoContext, u.scheme, HostOf(u), t)
  BY <1>6
<1> HIDE DEF t
<1>8. WellFormedTarget(t, u.method) /\ HostOf(u).host # "empty"
  BY <1>7 DEF Resolvable
<1>9. t.form \in {"origin", "asterisk"} /\ (t.form = "asterisk" => u.method = "OPTIONS")
  BY <1>2, <1>8 DEF WellFormedTarget
<1> QED
  BY <1>6, <1>7, <1>8, <1>9 DEF t

\* The three request lines.
LEMMA RequestLines ==
  ASSUME NEW u, NEW via, OutgoingUrl(u, via), RequestURI(u).form \in {"origin", "asterisk"}
  PROVE  \/ /\ u.method = "CONNECT" /\ u.path = "empty" /\ via # "proxy" /\ RequestURI(u).form = "origin"
            /\ RequestURI(u).path = "/" /\ RequestURI(u).query = u.query
            /\ LineOf(u, via).form = "authority" /\ LineOf(u, via).scheme = "empty"
            /\ LineOf(u, via).authority = HostOf(u) /\ HostOf(u).port # 0
         \/ /\ via = "proxy" /\ RequestURI(u).form = "origin"
            /\ LineOf(u, via).form = "absolute" /\ LineOf(u, via).scheme = u.scheme
            /\ LineOf(u, via).authority = HostOf(u) /\ LineOf(u, via).path = RequestURI(u).path
            /\ LineOf(u, via).query = RequestURI(u).query
         \/ via # "proxy" /\ LineOf(u, via) = RequestURI(u) /\ LineOf(u, via).scheme = "empty"
<1>1. /\ RequestURI(u).form = "origin" <=> u.path # "*"
      /\ RequestURI(u).scheme = "empty" /\ RequestURI(u).query = u.query
      /\ RequestURI(u).path = IF u.path = "empty" THEN "/" ELSE u.path
  BY DEF RequestURI, Target
<1>2. CASE u.method = "CONNECT" /\ u.path = "empty"
  BY <1>1, <1>2 DEF LineOf, Target, OutgoingUrl
<1>3. CASE via = "proxy"
  BY <1>1, <1>3 DEF LineOf, Target, OutgoingUrl
<1>4. CASE ~ (u.method = "CONNECT" /\ u.path = "empty") /\ via # "proxy"
  BY <1>1, <1>4 DEF LineOf
<1> QED
  BY <1>2, <1>3, <1>4

\* The server resolves the request line with the Host field and the connection, or with
\* the trusted context.  Untrusted behind a gateway it takes the request for plain HTTP.
LEMMA ServerParts ==
  ASSUME NEW u, NEW via \in {"direct", "gateway", "proxy"}, OutgoingUrl(u, via), requestParts(u, NoContext) # NoParts,
         NEW e, e \in {NoContext, TrustedContext(u, Inbound(u, via))},
         NEW s, s = IF e = NoContext /\ via = "gateway" THEN "http" ELSE u.scheme
  PROVE  requestParts(Inbound(u, via), e) = Parts(s, HostOf(u), LineOf(u, via))
<1> DEFINE in == Inbound(u, via)
           line == LineOf(u, via)
           uri == RequestURI(u)
<1>1. /\ uri.form \in {"origin", "asterisk"} /\ HostOf(u).host # "empty"
      /\ uri.form = "asterisk" => u.method = "OPTIONS"
  BY ClientParts
<1>2. u.scheme \in {"http", "https"}
  BY DEF OutgoingUrl
<1>3. /\ in.method = u.method /\ in.scheme = line.scheme /\ in.host = HostOf(u) /\ in.urlHost = NoAuthority
      /\ in.uri = line /\ in.tls = (u.scheme = "https" /\ via = "direct")
  BY DEF Inbound
<1> HIDE DEF in
<1>4. HostOf(in) = HostOf(u)
  <2>1. HostOf(in) = IF in.host # NoAuthority THEN in.host ELSE in.urlHost
    BY Zenon DEF HostOf
  <2> QED
    BY <1>3, <2>1
<1>5. \/ /\ u.method = "CONNECT" /\ via # "proxy" /\ line.form = "authority" /\ line.scheme = "empty"
         /\ line.authority = HostOf(u) /\ HostOf(u).port # 0
      \/ via = "proxy" /\ line.form = "absolute" /\ line.scheme = u.scheme /\ line.authority = HostOf(u)
      \/ via # "proxy" /\ line = uri /\ line.scheme = "empty"
  BY <1>1, RequestLines
<1> HIDE DEF line, uri
<1>6. line.form \in {"authority", "absolute", "origin", "asterisk"} /\ line # NoTarget
  <2>1. NoTarget.form = "none"
    BY DEF NoTarget, Target
  <2> QED
    BY <1>1, <1>5, <2>1
<1>7. WellFormedTarget(line, in.method)
  BY <1>1, <1>3, <1>5 DEF WellFormedTarget
<1>8. HostOf(u) # NoAuthority
  BY <1>1 DEF NoAuthority
<1>9. CASE e = NoContext
  <2>1. ChosenTarget(in, e) = line
    BY <1>3, <1>6, <1>9 DEF ChosenTarget
  <2>2. ChosenScheme(in, e) = s
    BY <1>2, <1>3, <1>5, <1>1, <1>9, <2>1 DEF ChosenScheme
  <2>3. ChosenAuthority(in, e) = HostOf(u)
    BY <1>1, <1>4, <1>5, <1>9, <2>1 DEF ChosenAuthority
  <2>4. Resolvable(in, e, s, HostOf(u), line)
    BY <1>1, <1>2, <1>7, <1>9 DEF Resolvable, ConsistentContext
  <2> QED
    BY <2>1, <2>2, <2>3, <2>4, ResolvedParts DEF in, line
<1>10. CASE e = TrustedContext(u, in)
  <2>1. e.scheme = u.scheme /\ e.authority = HostOf(u) /\ e.target = line
    BY <1>3, <1>10 DEF TrustedContext
  <2>2. e # NoContext
    <3>1. NoContext.scheme = "empty"
      BY DEF NoContext
    <3> QED
      BY <1>2, <2>1, <3>1
  <2>3. ChosenTarget(in, e) = line /\ ChosenScheme(in, e) = u.scheme /\ ChosenAuthority(in, e) = HostOf(u)
    BY <1>2, <2>1, <2>2 DEF ChosenTarget, ChosenScheme, ChosenAuthority
  <2>4. ConsistentContext(line, e)
    BY <1>1, <1>2, <1>5, <1>6, <1>8, <2>1 DEF ConsistentContext
  <2>5. Resolvable(in, e, s, HostOf(u), line) /\ s = u.scheme
    BY <1>1, <1>2, <1>7, <2>2, <2>4 DEF Resolvable
  <2> QED
    BY <2>3, <2>5, ResolvedParts DEF in, line
<1> QED
  BY <1>9, <1>10 DEF in

\* A derived component that the client could resolve has the same value at the server.
LEMMA DerivedArrives ==
  ASSUME NEW u, NEW via \in {"direct", "gateway", "proxy"}, OutgoingUrl(u, via),
         NEW e, e \in {NoContext, TrustedContext(u, Inbound(u, via))},
         NEW name \in DerivedNames, Derived(name, u, NoContext) # <<>>,
         name = "@request-target" => via # "proxy",
         name \in {"@request-target", "@target-uri"} => u.method # "CONNECT",
         name = "@query" /\ u.method = "CONNECT" => u.query = "none",
         name \in {"@target-uri", "@authority", "@scheme"} => e # NoContext \/ via # "gateway"
  PROVE  Derived(name, Inbound(u, via), e) = Derived(name, u, NoContext)
<1> DEFINE in == Inbound(u, via)
           line == LineOf(u, via)
           uri == RequestURI(u)
           host == HostOf(u)
           s == IF e = NoContext /\ via = "gateway" THEN "http" ELSE u.scheme
           mine == Parts(u.scheme, host, uri)
           theirs == Parts(s, host, line)
<1>1. requestParts(u, NoContext) # NoParts
  BY Zenon DEF Derived
<1>2. requestParts(u, NoContext) = mine /\ uri.form \in {"origin", "asterisk"}
  BY <1>1, ClientParts
<1>3. requestParts(in, e) = theirs
  BY <1>1, ServerParts
<1>4. \/ /\ u.method = "CONNECT" /\ uri.form = "origin" /\ uri.path = "/" /\ uri.query = u.query
         /\ line.form = "authority"
      \/ /\ via = "proxy" /\ uri.form = "origin" /\ line.form = "absolute"
         /\ line.path = uri.path /\ line.query = uri.query
      \/ via # "proxy" /\ line = uri
  BY <1>2, RequestLines
<1> HIDE DEF in, line, uri, host, s
<1>5. mine.path = theirs.path
  BY <1>2, <1>4 DEF Parts
<1>6. name = "@query" => mine.query = theirs.query
  BY <1>2, <1>4 DEF Parts
<1>7. u.method # "CONNECT" => mine.originTarget = theirs.originTarget
  BY <1>2, <1>4 DEF Parts
<1>8. name \in {"@target-uri", "@authority", "@scheme"} => s = u.scheme
  BY DEF s
<1>9. name = "@request-target" => line = uri
  BY <1>4
<1> HIDE DEF mine, theirs
<1>10. /\ Derived("@target-uri", u, NoContext) = <<u.scheme, normalizeAuthority(host, u.scheme), mine.originTarget>>
       /\ Derived("@authority", u, NoContext) = <<normalizeAuthority(host, u.scheme)>>
       /\ Derived("@scheme", u, NoContext) = <<u.scheme>>
       /\ Derived("@request-target", u, NoContext) = <<uri>>
       /\ Derived("@path", u, NoContext) = <<mine.path>>
       /\ Derived("@query", u, NoContext) = <<mine.query>>
  BY <1>2, DerivedFrom DEF mine
<1>11. /\ Derived("@target-uri", in, e) = <<s, normalizeAuthority(host, s), theirs.originTarget>>
       /\ Derived("@authority", in, e) = <<normalizeAuthority(host, s)>>
       /\ Derived("@scheme", in, e) = <<s>>
       /\ Derived("@request-target", in, e) = <<line>>
       /\ Derived("@path", in, e) = <<theirs.path>>
       /\ Derived("@query", in, e) = <<theirs.query>>
  BY <1>3, DerivedFrom DEF theirs
<1> QED
  BY <1>5, <1>6, <1>7, <1>8, <1>9, <1>10, <1>11 DEF DerivedNames, in

------------------------------------------------------------------------------
(* The client's stack: what is signed is not touched afterwards. *)

TrailersLast(s) == \A i \in 1 .. Len(s) : s[i] = "trailers" => i = Len(s)
OnlyCompat(s) == \A i \in 1 .. Len(s) : s[i] = "compat"

\* The adapters to come are in the order the whole stack has.
Stacked ==
  pc = "client" =>
    chain \in Seq(Adapters) /\ TrailersLast(chain) /\ (SignsLast(setup.client) => SignsLast(chain))

\* Digests are of the content, and trailer values come with framing that carries them.
Prepared ==
  /\ DOMAIN req = ReqNames /\ Outgoing(req.q) /\ Honest(req.digests) /\ req.place \in {"header", "trailer"}
  /\ req.q.body = "bytes" <=> setup.content # <<>>
  /\ req.trailer \in {"declared", "filled"} => req.q.trailer = TRUE /\ req.q.body # "nil"
  /\ req.trailer = "filled" => hasChunked(req.q.coding)

\* A signature is one of the request as it stands, but for what a compatibility signer
\* did to x, and no further adapter changes what it covers.
Sealed ==
  SignsLast(setup.client) /\ req.signature # <<>> =>
    /\ pc = "client" => OnlyCompat(chain)
    /\ req.live = FALSE /\ Signable(req.signature)
    /\ \E x : /\ req.signature = SignedValues(req.q, setup.url, NoContext, x, req.digests, req.trailer)
              /\ req.x = "a" => x = "a"

SealedInv == setup \in Setups /\ Stacked /\ Prepared /\ Sealed

\* A client's stack without its first adapter.
LEMMA TailSigns ==
  ASSUME NEW s \in Seq(Adapters), s # <<>>, SignsLast(s)
  PROVE  SignsLast(Tail(s)) /\ (Head(s) = "sign" \/ OnlyCompat(s) => OnlyCompat(Tail(s)))
<1>1. \A i \in 1 .. Len(Tail(s)) : i + 1 \in 1 .. Len(s) /\ Tail(s)[i] = s[i + 1]
  OBVIOUS
<1>2. SignsLast(Tail(s))
  BY <1>1 DEF SignsLast
<1>3. Head(s) = s[1] /\ 1 \in 1 .. Len(s)
  OBVIOUS
<1>4. Head(s) = "sign" => OnlyCompat(Tail(s))
  BY <1>1, <1>3 DEF SignsLast, OnlyCompat
<1>5. OnlyCompat(s) => OnlyCompat(Tail(s))
  BY <1>1 DEF OnlyCompat
<1> QED
  BY <1>2, <1>4, <1>5

LEMMA TailTrailers ==
  ASSUME NEW s \in Seq(Adapters), s # <<>>, TrailersLast(s)
  PROVE  TrailersLast(Tail(s)) /\ (Head(s) = "trailers" => Tail(s) = <<>>)
<1>1. \A i \in 1 .. Len(Tail(s)) : i + 1 \in 1 .. Len(s) /\ Tail(s)[i] = s[i + 1]
  OBVIOUS
<1>2. TrailersLast(Tail(s))
  BY <1>1 DEF TrailersLast
<1>3. Head(s) = s[1] /\ 1 \in 1 .. Len(s) /\ (Len(s) = 1 => Tail(s) = <<>>)
  OBVIOUS
<1> QED
  BY <1>2, <1>3 DEF TrailersLast

LEMMA StackedInductive ==
  ASSUME SealedInv, [Next]_vars
  PROVE  Stacked'
<1> USE DEF clientVars
<1>1. CASE pc' # "client"
  BY <1>1 DEF Stacked
<1>2. CASE pc = "client" /\ UNCHANGED setup /\ chain # <<>> /\ chain' = Tail(chain)
  <2>1. chain \in Seq(Adapters) /\ TrailersLast(chain) /\ (SignsLast(setup.client) => SignsLast(chain))
    BY <1>2 DEF SealedInv, Stacked
  <2>2. Tail(chain) \in Seq(Adapters)
    BY <1>2, <2>1
  <2>3. TrailersLast(Tail(chain))
    BY <1>2, <2>1, TailTrailers
  <2>4. SignsLast(setup.client) => SignsLast(Tail(chain))
    BY <1>2, <2>1, TailSigns
  <2> QED
    BY <1>2, <2>2, <2>3, <2>4 DEF Stacked
<1>3. CASE UNCHANGED vars
  BY <1>3 DEF vars, SealedInv, Stacked
<1> QED
  BY <1>1, <1>2, <1>3
     DEF Next, DigestRoundTrip, SignRoundTrip, SignInTrailers, CompatSign, RefuseAndClose, Send, Transit, Accept, Serve,
         VerifyDigest, VerifySignature, VerifyTrailers, CompatVerify, MapError, At, Passed

\* What the step of a client adapter does to the request; every other step leaves it.
LEMMA ClientSteps ==
  ASSUME [Next]_vars
  PROVE  \/ UNCHANGED <<setup, req>> /\ (pc' = "client" => UNCHANGED <<pc, chain>>)
         \/ DigestRoundTrip /\ Passed /\ req' = Buffered(req)
         \/ SignRoundTrip /\ Passed
         \/ SignInTrailers /\ Passed
         \/ CompatSign /\ Passed
<1> USE DEF clientVars
<1>1. CASE DigestRoundTrip
  BY <1>1 DEF DigestRoundTrip, RefuseAndClose
<1>2. CASE SignRoundTrip
  BY <1>2 DEF SignRoundTrip, RefuseAndClose
<1>3. CASE SignInTrailers
  BY <1>3 DEF SignInTrailers, RefuseAndClose
<1>4. CASE CompatSign
  BY <1>4 DEF CompatSign, RefuseAndClose
<1>5. CASE Send \/ (\E f \in Faults : Transit(f)) \/ Accept \/ Serve
  BY <1>5 DEF Send, RefuseAndClose, Transit, Accept, Serve
<1>6. CASE VerifyDigest \/ VerifySignature \/ VerifyTrailers \/ CompatVerify
  BY <1>6 DEF VerifyDigest, VerifySignature, VerifyTrailers, CompatVerify, MapError, At, Passed
<1>7. CASE UNCHANGED vars
  BY <1>7 DEF vars
<1> QED
  BY <1>1, <1>2, <1>3, <1>4, <1>5, <1>6, <1>7 DEF Next

LEMMA PreparedInductive ==
  ASSUME SealedInv, [Next]_vars
  PROVE  Prepared'
<1>1. setup \in Setups /\ Prepared
  BY DEF SealedInv
<1>2. setup.content \in Seq(STRING) /\ Len(setup.content) \in Int
  BY <1>1, SetupAssumption
<1>3. DOMAIN req = ReqNames /\ StructNames \cup {"inbound"} \subseteq DOMAIN req.q
  BY <1>1 DEF Prepared, Outgoing
<1>4. CASE UNCHANGED <<setup, req>>
  BY <1>1, <1>4 DEF Prepared, Honest
<1>5. CASE Passed /\ req' = Buffered(req)
  <2>1. /\ DOMAIN req' = ReqNames /\ req'.place = req.place /\ req'.trailer = FilledAtEOF(req.trailer, req.live)
        /\ req'.digests = [a \in setup.algorithms |-> setup.content]
        /\ req'.q = [req.q EXCEPT !.body = IF setup.content = <<>> THEN "empty" ELSE "bytes",
                                  !.length = IF req.q.trailer THEN -1 ELSE Len(setup.content),
                                  !.coding = IF req.q.trailer THEN <<"chunked">> ELSE <<>>]
    BY <1>3, <1>5 DEF Buffered, ReqNames
  <2>2. /\ DOMAIN req'.q = DOMAIN req.q /\ req'.q.inbound = req.q.inbound /\ req'.q.trailer = req.q.trailer
        /\ req'.q.body = IF setup.content = <<>> THEN "empty" ELSE "bytes"
        /\ req'.q.length = IF req.q.trailer THEN -1 ELSE Len(setup.content)
        /\ req'.q.coding = IF req.q.trailer THEN <<"chunked">> ELSE <<>>
    BY <1>3, <2>1 DEF StructNames
  <2>3. UNCHANGED setup
    BY <1>5 DEF Passed
  <2>4. (Honest(req.digests))'
    BY <2>1, <2>3 DEF Honest
  <2>5. (Outgoing(req.q))'
    BY <1>1, <1>2, <2>2 DEF Prepared, Outgoing
  <2>6. req'.trailer \in {"declared", "filled"} => req.trailer \in {"declared", "filled"}
    BY <2>1 DEF FilledAtEOF
  <2>7. req'.trailer \in {"declared", "filled"} => req'.q.trailer = TRUE /\ req'.q.coding = <<"chunked">>
    BY <1>1, <2>2, <2>6 DEF Prepared
  <2>8. req'.trailer \in {"declared", "filled"} => hasChunked(req'.q.coding)
    <3>1. hasChunked(<<"chunked">>)
      BY DEF hasChunked
    <3> QED
      BY <2>7, <3>1
  <2> QED
    BY <1>1, <2>1, <2>2, <2>3, <2>4, <2>5, <2>7, <2>8 DEF Prepared
<1>6. CASE SignInTrailers /\ Passed
  <2> DEFINE digests == [a \in setup.algorithms |-> setup.content]
             trailer == FilledAtEOF(req.trailer, req.live)
             values == SignedValues(Chunked(req.q), setup.url, NoContext, req.x, digests, trailer)
  <2>1. /\ UNCHANGED setup
        /\ req' = [req EXCEPT !.q = Chunked(@), !.digests = digests, !.place = "trailer", !.trailer = trailer,
                              !.live = FALSE, !.signature = values]
    BY <1>6 DEF SignInTrailers, Passed, RefuseAndClose, At
  <2>2. Honest(digests)
    BY DEF Honest
  <2> HIDE DEF digests, trailer, values
  <2>3. /\ DOMAIN req' = ReqNames /\ req'.q = Chunked(req.q) /\ req'.digests = digests /\ req'.trailer = trailer
        /\ req'.place = "trailer"
    BY <1>3, <2>1 DEF ReqNames
  <2>4. /\ DOMAIN req'.q = DOMAIN req.q /\ req'.q.inbound = req.q.inbound /\ req'.q.trailer = TRUE
        /\ req'.q.body = IF req.q.body = "bytes" THEN "bytes" ELSE "empty"
        /\ req'.q.length = -1 /\ req'.q.coding = <<"chunked">>
    BY <1>3, <2>3 DEF Chunked, StructNames
  <2>5. (Honest(req.digests))'
    BY <2>1, <2>2, <2>3 DEF Honest
  <2>6. (Outgoing(req.q))'
    BY <1>1, <2>4 DEF Prepared, Outgoing
  <2>7. hasChunked(req'.q.coding)
    BY <2>4 DEF hasChunked
  <2> QED
    BY <1>1, <2>1, <2>3, <2>4, <2>5, <2>6, <2>7 DEF Prepared
<1>7. CASE (SignRoundTrip \/ CompatSign) /\ Passed
  <2>1. UNCHANGED setup
    BY <1>7 DEF Passed
  <2>2. /\ DOMAIN req' = ReqNames /\ req'.q = req.q /\ req'.digests = req.digests /\ req'.trailer = req.trailer
        /\ req'.place = req.place
    BY <1>3, <1>7 DEF SignRoundTrip, CompatSign, RefuseAndClose, ReqNames
  <2> QED
    BY <1>1, <2>1, <2>2 DEF Prepared, Honest, Outgoing
<1> QED
  BY <1>4, <1>5, <1>6, <1>7, ClientSteps

\* A compatibility signer leaves the signature and everything it covers but x.
LEMMA CompatKeeps ==
  ASSUME DOMAIN req = ReqNames, CompatSign, Passed
  PROVE  /\ req'.q = req.q /\ req'.digests = req.digests /\ req'.trailer = req.trailer /\ req'.live = FALSE
         /\ req'.signature = req.signature /\ (req'.x = "a" => req.x = "a")
<1>1. PICK callback \in CallbackHeaders :
        LET h == compatibleSigningFields(callback, req)
        IN  req' = [req EXCEPT !.x = h.x, !.signature = h.signature, !.live = FALSE]
  BY DEF CompatSign, RefuseAndClose, Passed, At
<1>2. /\ compatibleSigningFields(callback, req).signature = req.signature
      /\ compatibleSigningFields(callback, req).x \in {req.x, "c"}
  BY DEF CallbackHeaders, compatibleSigningFields
<1> QED
  BY <1>1, <1>2 DEF ReqNames

\* SignedValues reads nothing of the state but which components are covered.
LEMMA SameValues ==
  ASSUME UNCHANGED setup, NEW q, NEW u, NEW x, NEW d, NEW tr, NEW v, v = SignedValues(q, u, NoContext, x, d, tr),
         req'.signature = v, req'.q = q, u = setup.url, req'.digests = d, req'.trailer = tr, req'.x = "a" => x = "a"
  PROVE  (\E y : /\ req.signature = SignedValues(req.q, setup.url, NoContext, y, req.digests, req.trailer)
                 /\ req.x = "a" => y = "a")'
<1>1. v = SignedValues(q, u, NoContext, x, d, tr)'
  BY DEF SignedValues
<1> QED
  BY <1>1, Zenon

LEMMA SealedInductive ==
  ASSUME SealedInv, [Next]_vars
  PROVE  Sealed'
<1>1. Stacked /\ Prepared /\ Sealed /\ DOMAIN req = ReqNames
  BY DEF SealedInv, Prepared
<1>2. CASE UNCHANGED <<setup, req>> /\ (pc' = "client" => UNCHANGED <<pc, chain>>)
  BY <1>1, <1>2 DEF Sealed, SignedValues
<1>3. ASSUME At("client", "digest"), SignsLast(setup.client)
      PROVE  req.signature = <<>>
  <2>1. chain # <<>> /\ chain \in Seq(Adapters) /\ Head(chain) # "compat" /\ pc = "client"
    BY <1>1, <1>3 DEF At, Stacked
  <2>2. 1 \in 1 .. Len(chain) /\ Head(chain) = chain[1]
    BY <2>1
  <2>3. ~ OnlyCompat(chain)
    BY <2>1, <2>2 DEF OnlyCompat
  <2> QED
    BY <1>1, <1>3, <2>1, <2>3 DEF Sealed
<1>4. CASE DigestRoundTrip /\ Passed /\ req' = Buffered(req)
  <2>1. At("client", "digest") /\ UNCHANGED setup /\ req'.signature = req.signature
    BY <1>1, <1>4 DEF DigestRoundTrip, Passed, Buffered, ReqNames
  <2>2. SignsLast(setup.client) => req.signature = <<>>
    BY <1>3, <2>1
  <2> QED
    BY <2>1, <2>2 DEF Sealed
<1>5. ASSUME At("client", "sign") \/ At("client", "trailers"), Passed, SignsLast(setup.client)
      PROVE  OnlyCompat(chain')
  <2>1. /\ chain \in Seq(Adapters) /\ chain # <<>> /\ TrailersLast(chain) /\ SignsLast(chain)
        /\ chain' = Tail(chain) /\ Head(chain) \in {"sign", "trailers"}
    BY <1>1, <1>5 DEF At, Stacked, Passed
  <2>2. CASE Head(chain) = "sign"
    BY <2>1, <2>2, TailSigns
  <2>3. CASE Head(chain) = "trailers"
    <3>1. chain' = <<>>
      BY <2>1, <2>3, TailTrailers
    <3> QED
      BY <3>1 DEF OnlyCompat
  <2> QED
    BY <2>1, <2>2, <2>3
<1>6. CASE SignRoundTrip /\ Passed
  <2> DEFINE values == SignedValues(req.q, setup.url, NoContext, req.x, req.digests, req.trailer)
  <2>1. /\ At("client", "sign") /\ UNCHANGED setup /\ Signable(values)
        /\ req' = [req EXCEPT !.signature = values, !.live = FALSE]
    BY <1>6 DEF SignRoundTrip, Passed, RefuseAndClose, At
  <2> HIDE DEF values
  <2>2. /\ req'.signature = values /\ req'.live = FALSE /\ req'.q = req.q /\ req'.digests = req.digests
        /\ req'.trailer = req.trailer /\ req'.x = req.x
    BY <1>1, <2>1 DEF ReqNames
  <2>3. (\E y : /\ req.signature = SignedValues(req.q, setup.url, NoContext, y, req.digests, req.trailer)
                /\ req.x = "a" => y = "a")'
    BY <2>1, <2>2, SameValues DEF values
  <2>4. SignsLast(setup.client) => OnlyCompat(chain')
    BY <1>5, <1>6, <2>1
  <2>5. Signable(req'.signature)
    BY <2>1, <2>2
  <2> QED
    BY <2>1, <2>2, <2>3, <2>4, <2>5 DEF Sealed, Signable
<1>7. CASE SignInTrailers /\ Passed
  <2> DEFINE digests == [a \in setup.algorithms |-> setup.content]
             trailer == FilledAtEOF(req.trailer, req.live)
             sent == Chunked(req.q)
             values == SignedValues(sent, setup.url, NoContext, req.x, digests, trailer)
  <2>1. /\ At("client", "trailers") /\ UNCHANGED setup /\ Signable(values)
        /\ req' = [req EXCEPT !.q = sent, !.digests = digests, !.place = "trailer", !.trailer = trailer,
                              !.live = FALSE, !.signature = values]
    BY <1>7 DEF SignInTrailers, Passed, RefuseAndClose, At
  <2> HIDE DEF digests, trailer, sent, values
  <2>2. /\ req'.signature = values /\ req'.live = FALSE /\ req'.q = sent /\ req'.digests = digests
        /\ req'.trailer = trailer /\ req'.x = req.x
    BY <1>1, <2>1 DEF ReqNames
  <2>3. (\E y : /\ req.signature = SignedValues(req.q, setup.url, NoContext, y, req.digests, req.trailer)
                /\ req.x = "a" => y = "a")'
    BY <2>1, <2>2, SameValues DEF values
  <2>4. SignsLast(setup.client) => OnlyCompat(chain')
    BY <1>5, <1>7, <2>1
  <2>5. Signable(req'.signature)
    BY <2>1, <2>2
  <2> QED
    BY <2>1, <2>2, <2>3, <2>4, <2>5 DEF Sealed, Signable
<1>8. CASE CompatSign /\ Passed
  <2>1. /\ req'.q = req.q /\ req'.digests = req.digests /\ req'.trailer = req.trailer /\ req'.live = FALSE
        /\ req'.signature = req.signature /\ (req'.x = "a" => req.x = "a")
    BY <1>1, <1>8, CompatKeeps
  <2>2. UNCHANGED setup /\ pc = "client" /\ chain' = Tail(chain) /\ chain # <<>>
    BY <1>8 DEF CompatSign, At, Passed
  <2> SUFFICES ASSUME SignsLast(setup.client), req.signature # <<>> PROVE Sealed'
    BY <2>1, <2>2 DEF Sealed
  <2>3. PICK x : /\ req.signature = SignedValues(req.q, setup.url, NoContext, x, req.digests, req.trailer)
                 /\ req.x = "a" => x = "a"
    BY <1>1 DEF Sealed
  <2>4. (\E y : /\ req.signature = SignedValues(req.q, setup.url, NoContext, y, req.digests, req.trailer)
                /\ req.x = "a" => y = "a")'
    BY <2>1, <2>2, <2>3, SameValues
  <2>5. OnlyCompat(Tail(chain))
    BY <1>1, <2>2, TailSigns DEF Sealed, Stacked
  <2>6. Signable(req'.signature)
    BY <1>1, <2>1 DEF Sealed
  <2> QED
    BY <2>1, <2>2, <2>4, <2>5, <2>6 DEF Sealed, Signable
<1> QED
  BY <1>2, <1>4, <1>6, <1>7, <1>8, ClientSteps

------------------------------------------------------------------------------
(* The server's stack sees the message that was sent. *)

\* What Send puts on the wire.
Message ==
  [ sent |-> TRUE, fields |-> WireOfRequest(req.q), url |-> setup.url, x |-> req.x, digests |-> req.digests,
    signature |-> req.signature, place |-> req.place, content |-> setup.content,
    trailer |-> FilledAtEOF(req.trailer, req.live) ]

Intact == pc \in {"wire", "server"} /\ fault = "none" => wire = Message

\* The middlewares to come, and the live map as long as only isolated views were taken.
Stack ==
  pc = "server" =>
    /\ chain \in Seq(Adapters) /\ DOMAIN cur = CurNames
    /\ \A e : Contains(chain, e) => Contains(setup.server, e)
    /\ ChecksAlone(setup.server) => ChecksAlone(chain) /\ (Contains(chain, "trailers") => cur.live = TRUE)

\* The request a middleware passes on is the one that arrived, its body perhaps a copy.
Received ==
  pc = "server" /\ fault = "none" =>
    LET arrived == Arrived(req.q, setup.struct.method, setup.content)
    IN  /\ cur.url = Inbound(setup.url, setup.via)
        /\ cur.q \in {arrived, Copied(arrived, setup.content)}
        /\ req.trailer = "filled" /\ OutermostReads(setup.server) =>
             \/ cur.trailer = "filled"
             \/ cur.trailer = "declared" /\ cur.live = TRUE /\ OutermostReads(chain)

DeliveryInv == SealedInv /\ Intact /\ Stack /\ Received

LEMMA TailAlone ==
  ASSUME NEW s \in Seq(Adapters), s # <<>>, ChecksAlone(s)
  PROVE  ChecksAlone(Tail(s)) /\ (Contains(Tail(s), "trailers") => Head(s) = "compat")
<1>1. \A i \in 1 .. Len(Tail(s)) : i + 1 \in 1 .. Len(s) /\ Tail(s)[i] = s[i + 1]
  OBVIOUS
<1>2. ChecksAlone(Tail(s))
  BY <1>1 DEF ChecksAlone
<1>3. Head(s) = s[1] /\ 1 \in 1 .. Len(s)
  OBVIOUS
<1>4. ASSUME NEW i \in 1 .. Len(Tail(s)), Tail(s)[i] = "trailers" PROVE Head(s) = "compat"
  <2>1. i + 1 \in 1 .. Len(s) /\ s[i + 1] = "trailers" /\ i + 1 # 1
    BY <1>1, <1>4
  <2> QED
    BY <1>3, <2>1 DEF ChecksAlone
<1> QED
  BY <1>2, <1>4 DEF Contains

LEMMA ContainsTail ==
  ASSUME NEW s \in Seq(Adapters), s # <<>>, NEW e, Contains(Tail(s), e)
  PROVE  Contains(s, e)
<1>1. PICK i \in 1 .. Len(Tail(s)) : Tail(s)[i] = e
  BY DEF Contains
<1>2. i + 1 \in 1 .. Len(s) /\ s[i + 1] = e
  BY <1>1
<1> QED
  BY <1>2 DEF Contains

\* What the step of a middleware does to the request; only its passing keeps the server going.
LEMMA ServerSteps ==
  ASSUME [Next]_vars, pc' = "server"
  PROVE  \/ Accept
         \/ /\ pc = "server" /\ chain # <<>> /\ Passed /\ UNCHANGED <<clientVars, wire>>
            /\ \/ Head(chain) \in {"digest", "trailers"} /\ cur' = Drained
               \/ Head(chain) = "verify" /\ cur' = [cur EXCEPT !.live = FALSE]
               \/ Head(chain) = "compat" /\ cur' = cur
         \/ UNCHANGED vars
<1>1. CASE VerifyDigest \/ VerifyTrailers
  BY <1>1 DEF VerifyDigest, VerifyTrailers, MapError, At
<1>2. CASE VerifySignature
  BY <1>2 DEF VerifySignature, MapError, At
<1>3. CASE CompatVerify
  BY <1>3 DEF CompatVerify, MapError, At
<1>4. CASE DigestRoundTrip \/ SignRoundTrip \/ SignInTrailers \/ CompatSign \/ Send
  BY <1>4 DEF DigestRoundTrip, SignRoundTrip, SignInTrailers, CompatSign, Send, RefuseAndClose, At, Passed
<1>5. CASE (\E f \in Faults : Transit(f)) \/ Serve
  BY <1>5 DEF Transit, Serve
<1> QED
  BY <1>1, <1>2, <1>3, <1>4, <1>5 DEF Next

LEMMA IntactInductive ==
  ASSUME Intact, [Next]_vars
  PROVE  Intact'
<1> USE DEF clientVars
<1>1. CASE Send
  BY <1>1 DEF Send, RefuseAndClose, Intact, Message, FilledAtEOF
<1>2. CASE \E f \in Faults : Transit(f)
  <2>1. ASSUME NEW f \in Faults, Transit(f), f = "none" PROVE UNCHANGED wire
    BY <2>1 DEF Transit
  <2>2. UNCHANGED <<setup, req>> /\ pc = "wire" /\ fault = "none" /\ (fault' = "none" => UNCHANGED wire)
    BY <1>2, <2>1 DEF Transit
  <2> QED
    BY <2>2 DEF Intact, Message, FilledAtEOF
<1>3. CASE UNCHANGED <<setup, req, wire, fault>> /\ pc \in {"wire", "server"}
  BY <1>3 DEF Intact, Message, FilledAtEOF
<1>4. CASE pc' \notin {"wire", "server"}
  BY <1>4 DEF Intact
<1>5. CASE UNCHANGED vars
  BY <1>5 DEF vars, Intact, Message, FilledAtEOF
<1> QED
  BY <1>1, <1>2, <1>3, <1>4, <1>5
     DEF Next, DigestRoundTrip, SignRoundTrip, SignInTrailers, CompatSign, RefuseAndClose, Accept,
         Serve, VerifyDigest, VerifySignature, VerifyTrailers, CompatVerify, MapError, At, Passed

LEMMA StackInductive ==
  ASSUME setup \in Setups, Stack, [Next]_vars
  PROVE  Stack'
<1> SUFFICES ASSUME pc' = "server" PROVE Stack'
  BY DEF Stack
<1>1. CASE Accept
  <2>1. chain' = setup.server /\ UNCHANGED setup /\ DOMAIN cur' = CurNames /\ cur'.live = TRUE
    BY <1>1 DEF Accept, CurNames
  <2>2. setup.server \in Seq(Adapters)
    BY SetupAssumption DEF Adapters
  <2> QED
    BY <2>1, <2>2 DEF Stack
<1>2. CASE UNCHANGED vars
  BY <1>2 DEF vars, Stack
<1>3. CASE /\ pc = "server" /\ chain # <<>> /\ Passed
           /\ \/ Head(chain) \in {"digest", "trailers"} /\ cur' = Drained
              \/ Head(chain) = "verify" /\ cur' = [cur EXCEPT !.live = FALSE]
              \/ Head(chain) = "compat" /\ cur' = cur
  <2>1. /\ chain \in Seq(Adapters) /\ DOMAIN cur = CurNames /\ chain' = Tail(chain) /\ UNCHANGED setup
        /\ \A e : Contains(chain, e) => Contains(setup.server, e)
        /\ ChecksAlone(setup.server) => ChecksAlone(chain) /\ (Contains(chain, "trailers") => cur.live = TRUE)
    BY <1>3 DEF Stack, Passed
  <2>2. chain' \in Seq(Adapters) /\ DOMAIN cur' = CurNames
    <3>1. Tail(chain) \in Seq(Adapters)
      BY <1>3, <2>1
    <3>2. cur' = Drained => DOMAIN cur' = CurNames
      BY <2>1, DrainedCopy
    <3>3. cur' = [cur EXCEPT !.live = FALSE] \/ cur' = cur => DOMAIN cur' = CurNames
      BY <2>1
    <3> QED
      BY <1>3, <2>1, <3>1, <3>2, <3>3
  <2>3. \A e : Contains(Tail(chain), e) => Contains(chain, e)
    BY <1>3, <2>1, ContainsTail
  <2>4. ChecksAlone(setup.server) => ChecksAlone(Tail(chain)) /\ (Contains(Tail(chain), "trailers") => Head(chain) = "compat")
    BY <1>3, <2>1, TailAlone
  <2>5. Head(chain) = "compat" => cur' = cur
    BY <1>3
  <2> QED
    BY <2>1, <2>2, <2>3, <2>4, <2>5 DEF Stack
<1> QED
  BY <1>1, <1>2, <1>3, ServerSteps

LEMMA CopiedOnce ==
  ASSUME NEW a, NEW c, NEW q, q \in {a, Copied(a, c)}
  PROVE  Copied(q, c) = Copied(a, c)
BY DEF Copied

LEMMA ReceivedInductive ==
  ASSUME DeliveryInv, [Next]_vars
  PROVE  Received'
<1> SUFFICES ASSUME pc' = "server", fault' = "none" PROVE Received'
  BY DEF Received
<1> DEFINE arrived == Arrived(req.q, setup.struct.method, setup.content)
<1>1. CASE Accept
  <2>1. /\ UNCHANGED <<setup, req, fault>> /\ pc = "wire" /\ fault = "none" /\ chain' = setup.server
        /\ LET q == ReadRequest(wire.fields, setup.struct.method, wire.content)
           IN  /\ cur'.q = q /\ cur'.url = Inbound(wire.url, setup.via) /\ cur'.live = TRUE
               /\ cur'.trailer = IF q.trailer THEN "declared" ELSE "none"
    BY <1>1 DEF Accept, clientVars
  <2>2. wire.fields = WireOfRequest(req.q) /\ wire.url = setup.url /\ wire.content = setup.content
    BY <2>1 DEF DeliveryInv, Intact, Message
  <2>3. ReadRequest(wire.fields, setup.struct.method, wire.content) = arrived
    BY <2>2 DEF Arrived
  <2>4. req.trailer = "filled" => arrived.trailer = TRUE
    <3>1. req.trailer = "filled" => req.q.trailer = TRUE /\ req.q.body # "nil" /\ hasChunked(req.q.coding)
      BY DEF DeliveryInv, SealedInv, Prepared
    <3>2. req.trailer = "filled" => WireOfRequest(req.q)["trailer"] = <<"T">>
      BY <3>1, ChunkedCarries
    <3>3. arrived.trailer = (WireOfRequest(req.q)["trailer"] # <<>>)
      BY DEF Arrived, ReadRequest
    <3>4. <<"T">> # <<>>
      OBVIOUS
    <3> QED
      BY <3>2, <3>3, <3>4, Zenon
  <2>5. cur'.q = arrived /\ cur'.url = Inbound(setup.url, setup.via)
    BY <2>1, <2>2, <2>3
  <2>6. req.trailer = "filled" => cur'.trailer = "declared" /\ cur'.live = TRUE
    BY <2>1, <2>3, <2>4
  <2> HIDE DEF arrived
  <2>7. arrived' = arrived
    BY <2>1 DEF arrived
  <2> QED
    BY <2>1, <2>5, <2>6, <2>7 DEF Received, arrived
<1>2. CASE UNCHANGED vars
  BY <1>2 DEF vars, clientVars, DeliveryInv, Received
<1>3. CASE /\ pc = "server" /\ chain # <<>> /\ Passed /\ UNCHANGED <<clientVars, wire>>
           /\ \/ Head(chain) \in {"digest", "trailers"} /\ cur' = Drained
              \/ Head(chain) = "verify" /\ cur' = [cur EXCEPT !.live = FALSE]
              \/ Head(chain) = "compat" /\ cur' = cur
  <2>1. UNCHANGED <<setup, req, fault>> /\ fault = "none" /\ chain' = Tail(chain)
    BY <1>3 DEF Passed, clientVars
  <2>2. chain \in Seq(Adapters) /\ DOMAIN cur = CurNames
    BY <1>3 DEF DeliveryInv, Stack
  <2>3. /\ cur.url = Inbound(setup.url, setup.via)
        /\ cur.q \in {arrived, Copied(arrived, setup.content)}
        /\ req.trailer = "filled" /\ OutermostReads(setup.server) =>
             \/ cur.trailer = "filled"
             \/ cur.trailer = "declared" /\ cur.live = TRUE /\ OutermostReads(chain)
    BY <1>3, <2>1 DEF DeliveryInv, Received
  <2>4. wire.content = setup.content /\ wire.trailer = FilledAtEOF(req.trailer, req.live)
    BY <1>3, <2>1 DEF DeliveryInv, Intact, Message
  <2> HIDE DEF arrived
  <2>5. cur'.url = cur.url /\ cur'.q \in {arrived, Copied(arrived, setup.content)}
    <3>1. CASE cur' = Drained
      <4>1. cur'.url = cur.url /\ cur'.q = Copied(cur.q, setup.content)
        BY <2>2, <2>4, <3>1 DEF Drained, Copied, CurNames
      <4> QED
        BY <2>3, <4>1, CopiedOnce
    <3>2. CASE cur' = [cur EXCEPT !.live = FALSE] \/ cur' = cur
      BY <2>2, <2>3, <3>2 DEF CurNames
    <3> QED
      BY <1>3, <3>1, <3>2
  <2>6. req.trailer = "filled" /\ OutermostReads(setup.server) =>
          \/ cur'.trailer = "filled"
          \/ cur'.trailer = "declared" /\ cur'.live = TRUE /\ OutermostReads(Tail(chain))
    <3>1. CASE cur' = Drained
      <4>1. cur'.trailer = IF cur.live /\ cur.trailer = "declared" THEN wire.trailer ELSE cur.trailer
        BY <2>2, <3>1 DEF Drained, CurNames
      <4> QED
        BY <2>3, <2>4, <4>1 DEF FilledAtEOF
    <3>2. CASE Head(chain) = "verify" /\ cur' = [cur EXCEPT !.live = FALSE]
      <4>1. cur'.trailer = cur.trailer
        BY <2>2, <3>2 DEF CurNames
      <4>2. ~ OutermostReads(chain)
        BY <1>3, <2>2, <3>2, TailReads
      <4> QED
        BY <2>3, <4>1, <4>2
    <3>3. CASE Head(chain) = "compat" /\ cur' = cur
      <4>1. OutermostReads(chain) => OutermostReads(Tail(chain))
        BY <1>3, <2>2, <3>3, TailReads
      <4> QED
        BY <2>3, <3>3, <4>1
    <3> QED
      BY <1>3, <3>1, <3>2, <3>3
  <2>7. arrived' = arrived
    BY <2>1 DEF arrived
  <2> QED
    BY <2>1, <2>3, <2>5, <2>6, <2>7 DEF Received, arrived
<1> QED
  BY <1>1, <1>2, <1>3, ServerSteps

------------------------------------------------------------------------------
\* What each covered component is resolved from.
LEMMA ValueCases ==
  ASSUME NEW r, NEW u, NEW e, NEW x, NEW d, NEW tr
  PROVE  /\ Value("x", r, u, e, x, d, tr) = <<x>>
         /\ Value("t:tr", r, u, e, x, d, tr) = IF tr = "filled" THEN <<"t">> ELSE <<>>
         /\ Value("content-length", r, u, e, x, d, tr) = requestContentLength(r)
         /\ Value("transfer-encoding", r, u, e, x, d, tr) = RequestField(r, "transfer-encoding")
         /\ Value("connection", r, u, e, x, d, tr) = RequestField(r, "connection")
<1>1. Value("x", r, u, e, x, d, tr) = <<x>>
  BY Zenon DEF Value, ManagedNames, DerivedNames
<1>2. Value("t:tr", r, u, e, x, d, tr) = IF tr = "filled" THEN <<"t">> ELSE <<>>
  BY Zenon DEF Value, ManagedNames, DerivedNames
<1>3. \A name \in ManagedNames : Value(name, r, u, e, x, d, tr) = RequestField(r, name)
  BY Zenon DEF Value, ManagedNames, DerivedNames
<1>4. RequestField(r, "content-length") = requestContentLength(r)
  BY Zenon DEF RequestField
<1> QED
  BY <1>1, <1>2, <1>3, <1>4 DEF ManagedNames

LEMMA DerivedValues ==
  ASSUME NEW r, NEW u, NEW e, NEW x, NEW d, NEW tr, NEW name \in DerivedNames
  PROVE  Value(name, r, u, e, x, d, tr) = Derived(name, u, e)
BY Zenon DEF Value, ManagedNames, DerivedNames

\* Every covered component that is not lost has, for the server, the value that was signed.
LEMMA ValueArrives ==
  ASSUME DeliveryInv, pc = "server", fault = "none", Compatible,
         NEW name \in setup.covers, ~ Lost(name),
         NEW r, r.q = cur.q, r.url = cur.url,
         req.trailer = "filled" /\ OutermostReads(setup.server) => r.trailer = "filled",
         NEW x, wire.x = "a" => x = "a",
         Available(Value(name, req.q, setup.url, NoContext, x, req.digests, req.trailer))
  PROVE  Value(name, r.q, r.url, External, wire.x, wire.digests, r.trailer)
           = Value(name, req.q, setup.url, NoContext, x, req.digests, req.trailer)
<1> DEFINE arrived == Arrived(req.q, setup.struct.method, setup.content)
           mine == Value(name, req.q, setup.url, NoContext, x, req.digests, req.trailer)
           theirs == Value(name, r.q, r.url, External, wire.x, wire.digests, r.trailer)
<1>1. /\ setup \in Setups /\ Prepared /\ wire = Message
      /\ cur.url = Inbound(setup.url, setup.via) /\ cur.q \in {arrived, Copied(arrived, setup.content)}
  BY DEF DeliveryInv, SealedInv, Intact, Received
<1>2. wire.digests = req.digests /\ wire.url = setup.url
  BY <1>1 DEF Message
<1>3. /\ setup.via \in {"direct", "gateway", "proxy"} /\ setup.trusted \in BOOLEAN /\ OutgoingUrl(setup.url, setup.via)
      /\ setup.url.method = setup.struct.method /\ name \in FieldNames \cup ManagedNames \cup DerivedNames
  BY <1>1, SetupAssumption
<1>4. Outgoing(req.q) /\ (req.q.body = "bytes" <=> setup.content # <<>>)
  BY <1>1 DEF Prepared
<1> HIDE DEF arrived
<1>5. CASE name = "x"
  BY <1>5, ValueCases DEF Compatible
<1>6. CASE name = "content-digest" \/ name = "content-digest:sha-256"
  BY <1>2, <1>6, DigestValues
<1>7. CASE name = "t:tr"
  <2>1. req.trailer = "filled"
    BY <1>7, ValueCases DEF Available
  <2>2. r.trailer = "filled"
    BY <1>7, <2>1 DEF Lost
  <2> QED
    BY <1>7, <2>1, <2>2, ValueCases
<1>8. CASE name = "content-length"
  <2>1. setup.content # <<>> /\ Available(requestContentLength(req.q))
    BY <1>8, ValueCases DEF Lost
  <2>2. requestContentLength(r.q) = requestContentLength(req.q)
    BY <1>1, <1>4, <2>1, LengthArrives DEF arrived
  <2> QED
    BY <1>8, <2>2, ValueCases
<1>9. CASE name = "transfer-encoding"
  <2>1. Available(RequestField(req.q, "transfer-encoding"))
    BY <1>9, ValueCases
  <2>2. RequestField(r.q, "transfer-encoding") = RequestField(req.q, "transfer-encoding")
    BY <1>1, <1>4, <2>1, CodingArrives DEF arrived
  <2> QED
    BY <1>9, <2>2, ValueCases
<1>10. CASE name = "connection"
  <2>1. RequestField(r.q, "connection") = RequestField(req.q, "connection")
    BY <1>1, <1>4, ConnectionArrives DEF arrived
  <2> QED
    BY <1>10, <2>1, ValueCases
<1>11. CASE name \in DerivedNames
  <2>1. theirs = Derived(name, r.url, External) /\ mine = Derived(name, setup.url, NoContext)
    BY <1>11, DerivedValues
  <2>2. External \in {NoContext, TrustedContext(setup.url, Inbound(setup.url, setup.via))}
    BY <1>1, <1>2 DEF External
  <2>3. setup.trusted => External # NoContext
    <3>1. setup.url.scheme \in {"http", "https"}
      BY <1>3 DEF OutgoingUrl
    <3>2. TrustedContext(setup.url, Inbound(setup.url, setup.via)).scheme = setup.url.scheme /\ NoContext.scheme = "empty"
      BY DEF TrustedContext, NoContext
    <3> QED
      BY <1>1, <1>2, <3>1, <3>2 DEF External
  <2>4. mine # <<>>
    BY DEF Available
  <2>5. /\ name = "@request-target" => setup.via # "proxy"
        /\ name \in {"@request-target", "@target-uri"} => setup.url.method # "CONNECT"
        /\ name = "@query" /\ setup.url.method = "CONNECT" => setup.url.query = "none"
        /\ name \in {"@target-uri", "@authority", "@scheme"} => External # NoContext \/ setup.via # "gateway"
    BY <1>3, <2>3 DEF Lost
  <2> HIDE DEF mine, theirs
  <2>6. Derived(name, Inbound(setup.url, setup.via), External) = Derived(name, setup.url, NoContext)
    BY <1>3, <1>11, <2>1, <2>2, <2>4, <2>5, DerivedArrives
  <2> QED
    BY <1>1, <2>1, <2>6 DEF mine, theirs
<1>12. name # "trailer"
  BY DEF Lost
<1> QED
  BY <1>3, <1>5, <1>6, <1>7, <1>8, <1>9, <1>10, <1>11, <1>12 DEF FieldNames, ManagedNames

\* A signature over nothing but such components verifies.
LEMMA IntactVerifies ==
  ASSUME DeliveryInv, pc = "server", fault = "none", Compatible, \A name \in setup.covers : ~ Lost(name),
         NEW r, r.q = cur.q, r.url = cur.url,
         req.trailer = "filled" /\ OutermostReads(setup.server) => r.trailer = "filled"
  PROVE  SignatureVerifies(r)
<1>1. wire = Message /\ Sealed
  BY DEF DeliveryInv, SealedInv, Intact
<1>2. wire.signature = req.signature /\ wire.x = req.x
  BY <1>1 DEF Message
<1>3. SignsLast(setup.client) /\ req.signature # <<>>
  BY <1>2 DEF Compatible
<1>4. Signable(req.signature)
  BY <1>1, <1>3 DEF Sealed
<1>5. PICK x : /\ req.signature = SignedValues(req.q, setup.url, NoContext, x, req.digests, req.trailer)
               /\ req.x = "a" => x = "a"
  BY <1>1, <1>3 DEF Sealed
<1> DEFINE mine(name) == Value(name, req.q, setup.url, NoContext, x, req.digests, req.trailer)
           theirs(name) == Value(name, r.q, r.url, External, wire.x, wire.digests, r.trailer)
<1>6. req.signature = [name \in setup.covers |-> mine(name)]
  BY <1>5 DEF SignedValues
<1>7. \A name \in setup.covers : Available(mine(name))
  <2> HIDE DEF mine
  <2> QED
    BY <1>4, <1>6 DEF Signable
<1>8. \A name \in setup.covers : theirs(name) = mine(name)
  BY <1>2, <1>5, <1>7, ValueArrives
<1>9. SignedValues(r.q, r.url, External, wire.x, wire.digests, r.trailer) = [name \in setup.covers |-> theirs(name)]
  BY DEF SignedValues
<1> HIDE DEF mine, theirs
<1>10. [name \in setup.covers |-> theirs(name)] = [name \in setup.covers |-> mine(name)]
  BY <1>8
<1> QED
  BY <1>2, <1>3, <1>4, <1>6, <1>9, <1>10 DEF SignatureVerifies

\* Digests of the content that cover the policy match.
LEMMA IntactMatches ==
  ASSUME DeliveryInv, pc = "server", fault = "none", Compatible, ChecksContent
  PROVE  Readable /\ DigestMatches
<1>1. wire = Message /\ Honest(req.digests)
  BY DEF DeliveryInv, SealedInv, Intact, Prepared
<1>2. wire.digests = req.digests /\ wire.content = setup.content
  BY <1>1 DEF Message
<1> QED
  BY <1>1, <1>2 DEF Compatible, Readable, DigestMatches, Honest

LEMMA TrailersAlone ==
  ASSUME NEW s \in Seq(Adapters), ChecksAlone(s), NEW e, e \notin {"trailers", "compat"}, Contains(s, e)
  PROVE  ~ Contains(s, "trailers")
BY DEF ChecksAlone, Contains

LEMMA DeliveredInductive ==
  ASSUME DeliveryInv, IntactDelivered, [Next]_vars
  PROVE  IntactDelivered'
<1>1. CASE UNCHANGED vars
  BY <1>1 DEF vars, clientVars, IntactDelivered, Compatible, Lost, ChecksContent
<1>2. CASE cause' # "message" \/ pc' # "refused"
  BY <1>2 DEF IntactDelivered
<1>3. ASSUME NEW m \in {"digest", "verify", "trailers"}, At("server", m), MapError("message"),
             fault' = "none", Compatible', \A name \in setup'.covers : ~ (Lost(name))'
      PROVE  /\ pc = "server" /\ fault = "none" /\ Compatible /\ \A name \in setup.covers : ~ Lost(name)
             /\ chain \in Seq(Adapters) /\ chain # <<>> /\ Head(chain) = m /\ DOMAIN cur = CurNames
             /\ Contains(chain, m) /\ Contains(setup.server, m) /\ setup.server \in Seq(Adapters)
             /\ wire.place = IF m = "trailers" THEN "trailer" ELSE "header"
  <2>1. UNCHANGED <<setup, wire, fault>> /\ pc = "server" /\ chain # <<>> /\ Head(chain) = m
    BY <1>3 DEF MapError, At
  <2>2. Compatible /\ fault = "none"
    BY <1>3, <2>1 DEF Compatible, ChecksContent
  <2>3. \A name \in setup.covers : ~ Lost(name)
    BY <1>3, <2>1 DEF Lost
  <2>4. /\ chain \in Seq(Adapters) /\ DOMAIN cur = CurNames
        /\ \A e : Contains(chain, e) => Contains(setup.server, e)
    BY <2>1 DEF DeliveryInv, Stack
  <2>5. Contains(chain, m)
    <3>1. 1 \in 1 .. Len(chain) /\ chain[1] = m
      BY <2>1, <2>4
    <3> QED
      BY <3>1 DEF Contains
  <2>6. setup.server \in Seq(Adapters)
    BY SetupAssumption DEF DeliveryInv, SealedInv, Adapters
  <2>7. wire.place \in {"header", "trailer"}
    BY <2>1, <2>2 DEF DeliveryInv, SealedInv, Prepared, Intact, Message
  <2>8. m # "trailers" => ~ Contains(setup.server, "trailers")
    BY <2>2, <2>4, <2>5, <2>6, TrailersAlone DEF Compatible
  <2> QED
    BY <2>1, <2>2, <2>3, <2>4, <2>5, <2>6, <2>7, <2>8 DEF Compatible
<1> DEFINE Refused == pc' = "refused" /\ cause' = "message"
<1>4. CASE VerifyDigest /\ Refused
  <2> SUFFICES ASSUME fault' = "none", Compatible', \A name \in setup'.covers : ~ (Lost(name))' PROVE FALSE
    BY DEF IntactDelivered
  <2>1. At("server", "digest") /\ MapError("message") /\ ~ (wire.place = "header" /\ Readable /\ DigestMatches)
    BY <1>4 DEF VerifyDigest, MapError, Passed, At
  <2> QED
    BY <1>3, <2>1, IntactMatches DEF ChecksContent
<1>5. CASE VerifySignature /\ Refused
  <2> SUFFICES ASSUME fault' = "none", Compatible', \A name \in setup'.covers : ~ (Lost(name))' PROVE FALSE
    BY DEF IntactDelivered
  <2>1. At("server", "verify") /\ MapError("message") /\ ~ (wire.place = "header" /\ SignatureVerifies(cur))
    BY <1>5 DEF VerifySignature, MapError, Passed, At
  <2>2. /\ pc = "server" /\ fault = "none" /\ Compatible /\ \A name \in setup.covers : ~ Lost(name)
        /\ chain \in Seq(Adapters) /\ chain # <<>> /\ Head(chain) = "verify" /\ wire.place = "header"
    BY <1>3, <2>1
  <2>3. ~ OutermostReads(chain)
    BY <2>2, TailReads
  <2>4. req.trailer = "filled" /\ OutermostReads(setup.server) => cur.trailer = "filled"
    BY <2>2, <2>3 DEF DeliveryInv, Received
  <2>5. SignatureVerifies(cur)
    BY <2>2, <2>4, IntactVerifies
  <2> QED
    BY <2>1, <2>2, <2>5
<1>6. CASE VerifyTrailers /\ Refused
  <2> SUFFICES ASSUME fault' = "none", Compatible', \A name \in setup'.covers : ~ (Lost(name))' PROVE FALSE
    BY DEF IntactDelivered
  <2> DEFINE r == [Drained EXCEPT !.q = cur.q]
  <2>1. /\ At("server", "trailers") /\ MapError("message")
        /\ ~ (cur.live /\ wire.place = "trailer" /\ Readable /\ DigestMatches /\ SignatureVerifies(r))
    BY <1>6 DEF VerifyTrailers, MapError, Passed, At
  <2>2. /\ pc = "server" /\ fault = "none" /\ Compatible /\ \A name \in setup.covers : ~ Lost(name)
        /\ DOMAIN cur = CurNames /\ Contains(chain, "trailers") /\ Contains(setup.server, "trailers")
        /\ wire.place = "trailer"
    BY <1>3, <2>1
  <2>3. cur.live = TRUE
    BY <2>2 DEF DeliveryInv, Stack, Compatible
  <2>4. r.q = cur.q /\ r.url = cur.url /\ r.trailer = IF cur.live /\ cur.trailer = "declared" THEN wire.trailer ELSE cur.trailer
    BY <2>2 DEF Drained, CurNames
  <2>5. wire.trailer = FilledAtEOF(req.trailer, req.live)
    BY <2>2 DEF DeliveryInv, Intact, Message
  <2>6. req.trailer = "filled" /\ OutermostReads(setup.server) => r.trailer = "filled"
    BY <2>2, <2>3, <2>4, <2>5 DEF DeliveryInv, Received, FilledAtEOF
  <2> HIDE DEF r
  <2>7. SignatureVerifies(r)
    BY <2>2, <2>4, <2>6, IntactVerifies
  <2>8. Readable /\ DigestMatches
    BY <2>2, IntactMatches DEF ChecksContent
  <2> QED
    BY <2>1, <2>2, <2>3, <2>7, <2>8
<1> QED
  BY <1>1, <1>2, <1>4, <1>5, <1>6
     DEF Next, DigestRoundTrip, SignRoundTrip, SignInTrailers, CompatSign, Send, RefuseAndClose, Transit, Accept, Serve,
         CompatVerify, MapError, At, Passed

\* A signed request that arrives as it was sent is refused by no middleware of any stack on account
\* of the message, whichever adapters passed it on, if the two ends fit and the signature covers
\* nothing that the server cannot know: every managed field, every digest, every trailer and every
\* derived component is resolved at the server to the value that was signed.
THEOREM IntactIsDelivered == Spec => []IntactDelivered
<1>1. Init => DeliveryInv /\ IntactDelivered
  <2> SUFFICES ASSUME Init PROVE DeliveryInv /\ IntactDelivered
    OBVIOUS
  <2>1. /\ setup \in Setups /\ pc = "client" /\ chain = setup.client /\ DOMAIN req = ReqNames
        /\ req.q = setup.struct /\ req.signature = <<>> /\ req.place = "header" /\ req.trailer = setup.trailer
    BY DEF Init, ReqNames
  <2>2. setup.client \in Seq(Adapters) /\ TrailersLast(setup.client)
    BY <2>1, SetupAssumption DEF Adapters, TrailersLast
  <2>3. Outgoing(setup.struct)
    BY <2>1, SetupAssumption DEF OutgoingStructs, Outgoing, StructNames
  <2>4. Honest(req.digests)
    BY <2>1, InitSigned DEF SignedInv, Signing
  <2>5. /\ setup.struct.body = "bytes" <=> setup.content # <<>>
        /\ setup.trailer \in {"none", "declared"}
        /\ setup.trailer = "declared" => setup.struct.trailer = TRUE /\ setup.struct.body # "nil"
    BY <2>1, SetupAssumption
  <2>6. Stacked /\ Prepared /\ Sealed
    BY <2>1, <2>2, <2>3, <2>4, <2>5 DEF Stacked, Prepared, Sealed
  <2> QED
    BY <2>1, <2>6 DEF DeliveryInv, SealedInv, Intact, Stack, Received, IntactDelivered
<1>2. (DeliveryInv /\ IntactDelivered) /\ [Next]_vars => (DeliveryInv /\ IntactDelivered)'
  <2> SUFFICES ASSUME DeliveryInv, IntactDelivered, [Next]_vars PROVE (DeliveryInv /\ IntactDelivered)'
    OBVIOUS
  <2>1. (setup \in Setups)'
    BY DEF DeliveryInv, SealedInv, Next, vars, clientVars, DigestRoundTrip, SignRoundTrip, SignInTrailers, CompatSign, Send,
           RefuseAndClose, Transit, Accept, Serve, VerifyDigest, VerifySignature, VerifyTrailers, CompatVerify, MapError, Passed
  <2>2. SealedInv'
    BY <2>1, StackedInductive, PreparedInductive, SealedInductive DEF DeliveryInv, SealedInv
  <2>3. Intact' /\ Stack' /\ Received'
    BY IntactInductive, StackInductive, ReceivedInductive DEF DeliveryInv, SealedInv
  <2> QED
    BY <2>2, <2>3, DeliveredInductive DEF DeliveryInv
<1> QED
  BY <1>1, <1>2, PTL DEF Spec
==============================================================================
