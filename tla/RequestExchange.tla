--------------------------- MODULE RequestExchange ---------------------------
(***************************************************************************)
(* A request from the caller that makes it to the handler that serves it,  *)
(* through a stack of client adapters and a stack of server middleware:    *)
(*                                                                         *)
(*   client  "digest"   BufferedContentDigestRoundTripper                  *)
(*           "sign"     SigningRoundTripper                                *)
(*           "compat"   compatibility.SigningRoundTripper                  *)
(*           "trailers" TrailerSigningRoundTripper                         *)
(*   server  "digest"   BufferedContentDigestVerificationMiddleware        *)
(*           "verify"   RequestVerificationMiddleware                      *)
(*           "trailers" BufferedTrailerVerificationMiddleware              *)
(*           "compat"   compatibility.VerificationMiddleware               *)
(*                                                                         *)
(* Hashing and signing are ideal, as in ResponseExchange.                  *)
(***************************************************************************)
EXTENDS ManagedFields, RequestTarget, FiniteSets

CONSTANTS
  Setups,    \* exchanges: [client, server, struct, url, content, trailer, header, covers, algorithms, existing,
             \*             clientMax, policy, serverMax, via, trusted]
  Faults     \* what may happen in transit: "body", "x", "cut", "trailers", "path"

ManagedNames == {"content-length", "transfer-encoding", "trailer", "connection"}
FieldNames == {"x", "content-digest", "content-digest:sha-256", "t:tr"}

\* The structs a caller makes.  The body has the content, and trailer values come with its end.
OutgoingStructs ==
  [method : STRING, proto : {"1.1"}, length : Int, coding : Seq(STRING), body : {"nil", "NoBody", "empty", "bytes"},
   trailer : BOOLEAN, close : BOOLEAN, connection : Seq(STRING), inbound : {FALSE}]

\* A request line is made of the URL; CONNECT names a port, and a forward proxy gets neither it nor "*"
OutgoingUrl(u, via) ==
  /\ u.uri = NoTarget /\ u.scheme \in {"http", "https"}
  /\ u.method = "CONNECT" => HostOf(u).port # 0
  /\ via = "proxy" => u.method # "CONNECT" /\ u.path # "*"

\* Exchanges, and what the constructors of the adapters ask for.  A trailer signer is the innermost
\* adapter: its fields appear when the transport reads the body, in a map that no further clone shares.
ASSUME SetupAssumption ==
  \A s \in Setups :
    /\ s.client \in Seq({"digest", "sign", "compat", "trailers"})
    /\ s.server \in Seq({"digest", "verify", "trailers", "compat"})
    /\ s.struct \in OutgoingStructs /\ s.url.method = s.struct.method
    /\ s.content \in Seq(STRING) /\ (s.struct.body = "bytes" <=> s.content # <<>>)
    /\ s.trailer \in {"none", "declared"}
    /\ s.trailer = "declared" => s.struct.trailer /\ s.struct.body \in {"empty", "bytes"}
    /\ s.via \in {"direct", "gateway", "proxy"} /\ s.trusted \in BOOLEAN /\ OutgoingUrl(s.url, s.via)
    /\ s.covers \subseteq FieldNames \cup ManagedNames \cup DerivedNames
    /\ Contains(s.client, "digest") \/ Contains(s.client, "trailers") => s.algorithms # {} /\ s.clientMax > 0
    /\ Contains(s.server, "digest") \/ Contains(s.server, "trailers") => s.policy # {} /\ s.serverMax > 0
    /\ Contains(s.client, "trailers") \/ Contains(s.server, "trailers") => "content-digest" \in s.covers
    /\ Contains(s.client, "trailers") => s.covers \cap ManagedNames = {}
    /\ \A i \in 1 .. Len(s.client) : s.client[i] = "trailers" => i = Len(s.client)

VARIABLES
  setup,     \* the exchange
  pc,        \* "client", "wire", "server", "handler" or "refused"
  chain,     \* the adapters still to come
  req,       \* the request an adapter passes on: [q, x, digests, signature, place, trailer, live]
  held,      \* its Body: "none", "caller" or "copy"
  closes,    \* Close calls on the body the caller handed in
  wire,      \* the message on the wire
  cur,       \* the request a middleware passes on: [q, url, trailer, live, copied]
  fault, cause

clientVars == <<req, held, closes>>
vars == <<setup, pc, chain, clientVars, wire, cur, fault, cause>>

NoWire == [sent |-> FALSE]
NoRequest == [copied |-> FALSE]

\* The caller's Trailer map is declared now; the body fills in the values at EOF.  live: the adapter
\* still passes the map that the body fills.
Init ==
  /\ setup \in Setups
  /\ pc = "client" /\ chain = setup.client
  /\ req = [ q |-> setup.struct, x |-> "a", signature |-> <<>>, place |-> "header", trailer |-> setup.trailer, live |-> TRUE,
             digests |-> IF setup.header = "digest" THEN [a \in {"sha-256", "sha-512"} |-> setup.content] ELSE <<>> ]
  /\ held = IF setup.struct.body = "nil" THEN "none" ELSE "caller"
  /\ closes = 0
  /\ wire = NoWire /\ cur = NoRequest /\ fault = "none" /\ cause = "none"

At(side, adapter) == pc = side /\ chain # <<>> /\ Head(chain) = adapter
Passed == pc' = pc /\ chain' = Tail(chain) /\ UNCHANGED <<setup, fault, cause>>
FilledAtEOF(trailer, live) == IF trailer = "declared" /\ live THEN "filled" ELSE trailer

(* ------------------------------ the client ------------------------------- *)
\* Mutant: the error is returned and the body forgotten
RefuseUnclosed ==
  /\ pc' = "refused" /\ cause' = "local"
  /\ held' = "none"
  /\ UNCHANGED <<setup, chain, req, closes, wire, cur, fault>>

\* A failure before delegation closes the body of the request the adapter was given
RefuseAndClose ==
  /\ pc' = "refused" /\ cause' = "local"
  /\ closes' = IF held = "caller" THEN closes + 1 ELSE closes
  /\ held' = "none"
  /\ UNCHANGED <<setup, chain, req, wire, cur, fault>>

\* Mutant: the copy of the request keeps the trailers it was cloned with
BufferStale(r) ==
  [r EXCEPT !.live = FALSE, !.digests = [a \in setup.algorithms |-> setup.content],
            !.q.body = IF setup.content = <<>> THEN "empty" ELSE "bytes",
            !.q.length = IF r.q.trailer THEN -1 ELSE Len(setup.content),
            !.q.coding = IF r.q.trailer THEN <<"chunked">> ELSE <<>>]

\* The clone that BufferedContentDigestRoundTripper delegates once the body is read
Buffered(r) ==
  [r EXCEPT !.trailer = FilledAtEOF(@, r.live), !.live = FALSE,
            !.digests = [a \in setup.algorithms |-> setup.content],
            !.q.body = IF setup.content = <<>> THEN "empty" ELSE "bytes",
            !.q.length = IF r.q.trailer THEN -1 ELSE Len(setup.content),
            !.q.coding = IF r.q.trailer THEN <<"chunked">> ELSE <<>>]

\* readBoundedAndClose closes the body on every path: a read or Close error, a context that is done, an
\* oversized body, and ambiguous trailers after it, return nothing
DigestRoundTrip ==
  /\ At("client", "digest")
  /\ \/ RefuseAndClose          \* ambiguous fields, Content-Digest already there, the failures of the read
     \/ /\ req.digests = <<>> /\ Len(setup.content) <= setup.clientMax
        /\ closes' = IF held = "caller" THEN closes + 1 ELSE closes
        /\ held' = "copy" /\ req' = Buffered(req)
        /\ Passed /\ UNCHANGED <<wire, cur>>

\* The value of a covered component, <<>> or Unavailable when CreateSignatureBase fails
Value(name, r, url, external, x, digests, trailer) ==
  CASE name = "x" -> <<x>>
    [] name \in ManagedNames -> RequestField(r, name)
    [] name \in DerivedNames -> Derived(name, url, external)
    [] name = "content-digest" -> IF digests = <<>> THEN <<>> ELSE <<digests>>
    [] name = "content-digest:sha-256" -> IF digests # <<>> /\ "sha-256" \in DOMAIN digests THEN <<digests["sha-256"]>> ELSE <<>>
    [] name = "t:tr" -> IF trailer = "filled" THEN <<"t">> ELSE <<>>

SignedValues(r, url, external, x, digests, trailer) ==
  [name \in setup.covers |-> Value(name, r, url, external, x, digests, trailer)]
Signable(values) == \A name \in DOMAIN values : Available(values[name])

\* Earlier pairs are kept, or refused by policy; a broken pair or the label itself is refused
ExistingSignaturesFit ==
  setup.header \in {"other-label", "same-label", "broken"} => setup.existing = "append" /\ setup.header = "other-label"

SignRoundTrip ==
  LET values == SignedValues(req.q, setup.url, NoContext, req.x, req.digests, req.trailer)
  IN  /\ At("client", "sign")
      /\ \/ RefuseAndClose      \* the checks below, the callbacks, the key
         \/ /\ ExistingSignaturesFit /\ Signable(values)
            /\ req' = [req EXCEPT !.signature = values, !.live = FALSE]
            /\ Passed /\ UNCHANGED <<held, closes, wire, cur>>

\* The clone that TrailerSigningRoundTripper delegates: its body is the wrapped one, never NoBody
Chunked(q) ==
  [q EXCEPT !.coding = <<"chunked">>, !.length = -1, !.trailer = TRUE, !.body = IF @ = "bytes" THEN @ ELSE "empty"]

\* TrailerSigningRoundTripper: digest and signature follow the body in trailers.  Its RoundTrip returns
\* no response when finalize fails, so that TrailerSigningBody's outcome is a step of this one.
SignInTrailers ==
  LET digests == [a \in setup.algorithms |-> setup.content]
      trailer == FilledAtEOF(req.trailer, req.live)
      values  == SignedValues(Chunked(req.q), setup.url, NoContext, req.x, digests, trailer)
  IN  /\ At("client", "trailers")
      /\ \/ RefuseAndClose      \* the checks below, ambiguous fields, the failures of the read and of finalize
         \/ /\ req.q.body # "nil" /\ setup.struct.method # "CONNECT"
            /\ req.digests = <<>> /\ req.signature = <<>> /\ setup.header = "none"
            /\ Len(setup.content) <= setup.clientMax /\ Signable(values)
            /\ req' = [req EXCEPT !.q = Chunked(@), !.digests = digests, !.place = "trailer", !.trailer = trailer,
                                  !.live = FALSE, !.signature = values]
            /\ Passed /\ UNCHANGED <<held, closes, wire, cur>>

\* What the external signer made of its isolated copy of the header
CallbackHeaders ==
  LET h == [x |-> req.x, signature |-> req.signature]
  IN  {h, [h EXCEPT !.x = "c"], [h EXCEPT !.signature = <<>>], [h EXCEPT !.signature = [name \in setup.covers |-> <<>>]]}

\* Mutant: the callback's header is taken as it is
callbackFields(callback, original) == callback

\* Signature-Input, Signature and Accept-Signature are the caller's, everything else is the callback's
compatibleSigningFields(callback, original) == [callback EXCEPT !.signature = original.signature]

CompatSign ==
  /\ At("client", "compat")
  /\ \/ RefuseAndClose
     \/ \E callback \in CallbackHeaders :
          LET h == compatibleSigningFields(callback, req)
          IN  /\ req' = [req EXCEPT !.x = h.x, !.signature = h.signature, !.live = FALSE]
              /\ Passed /\ UNCHANGED <<held, closes, wire, cur>>

\* The network transport (external) owns the body once it is called, and closes it
Send ==
  /\ pc = "client" /\ chain = <<>>
  /\ \/ RefuseAndClose
     \/ /\ pc' = "wire"
        /\ closes' = IF held = "caller" THEN closes + 1 ELSE closes
        /\ held' = "none"
        /\ wire' = [ sent |-> TRUE, fields |-> WireOfRequest(req.q), url |-> setup.url, x |-> req.x, digests |-> req.digests,
                     signature |-> req.signature, place |-> req.place, content |-> setup.content,
                     trailer |-> FilledAtEOF(req.trailer, req.live) ]
        /\ UNCHANGED <<setup, chain, req, cur, fault, cause>>

(* ------------------------------- transit --------------------------------- *)
\* Whoever replaces the body can also replace every digest the signature does not cover
Forged(digests) ==
  IF digests = <<>> \/ "content-digest" \in setup.covers THEN digests
  ELSE [a \in DOMAIN digests |-> IF a = "sha-256" /\ "content-digest:sha-256" \in setup.covers THEN digests[a] ELSE <<"f">>]

Transit(f) ==
  /\ pc = "wire" /\ fault = "none"
  /\ CASE f = "body"     -> wire' = [wire EXCEPT !.content = <<"f">>, !.digests = Forged(@)]
       [] f = "x"        -> wire' = [wire EXCEPT !.x = "forged"]
       [] f = "trailers" -> wire' = IF wire.place = "header" THEN [wire EXCEPT !.trailer = "none"]
                                    ELSE [wire EXCEPT !.trailer = "none", !.digests = <<>>, !.signature = <<>>]
       [] f = "path"     -> wire' = [wire EXCEPT !.url.path = "/forged"]
       [] OTHER          -> UNCHANGED wire
  /\ fault' = f
  /\ UNCHANGED <<setup, pc, chain, clientVars, cur, cause>>

(* ------------------------------ the server ------------------------------- *)
Accept ==
  /\ pc = "wire"
  /\ pc' = "server" /\ chain' = setup.server
  /\ LET q == ReadRequest(wire.fields, setup.struct.method, wire.content)
     IN  cur' = [q |-> q, url |-> Inbound(wire.url, setup.via), live |-> TRUE, copied |-> FALSE,
                 trailer |-> IF q.trailer THEN "declared" ELSE "none"]
  /\ UNCHANGED <<setup, clientVars, wire, fault, cause>>

MapError(why) ==
  /\ pc' = "refused" /\ cause' = why
  /\ UNCHANGED <<setup, chain, clientVars, wire, cur, fault>>

\* A middleware that reads the body sees the trailers only in the request the server made: a clone of it
\* keeps the map as it was
Drained ==
  [cur EXCEPT !.trailer = IF cur.live /\ @ = "declared" THEN wire.trailer ELSE @, !.live = FALSE, !.copied = TRUE,
              !.q.body = IF wire.content = <<>> THEN "empty" ELSE "bytes"]

\* Mutant: one matching algorithm is enough
SomeDigestMatches ==
  wire.digests # <<>> /\ \E a \in DOMAIN wire.digests : wire.digests[a] = wire.content

\* DigestField.Verify: every required algorithm is there and matches
DigestMatches == wire.digests # <<>> /\ \A a \in setup.policy : a \in DOMAIN wire.digests /\ wire.digests[a] = wire.content

Readable == fault # "cut" /\ Len(wire.content) <= setup.serverMax

VerifyDigest ==
  /\ At("server", "digest")
  /\ LET verified == wire.place = "header" /\ Readable /\ DigestMatches
     IN  \/ MapError("local")
         \/ ~ verified /\ MapError("message")
         \/ verified /\ cur' = Drained /\ Passed /\ UNCHANGED <<clientVars, wire>>

External == IF setup.trusted THEN TrustedContext(wire.url, cur.url) ELSE NoContext

SignatureVerifies(r) ==
  /\ wire.signature # <<>> /\ Signable(wire.signature)
  /\ SignedValues(r.q, r.url, External, wire.x, wire.digests, r.trailer) = wire.signature

VerifySignature ==
  /\ At("server", "verify")
  /\ LET verified == wire.place = "header" /\ SignatureVerifies(cur)
     IN  \/ MapError("local")           \* ambiguous fields, SelectLabel, ExternalContext, time, key and replay policy
         \/ ~ verified /\ MapError("message")
         \/ verified /\ cur' = [cur EXCEPT !.live = FALSE] /\ Passed /\ UNCHANGED <<clientVars, wire>>

\* BufferedTrailerVerificationMiddleware reads the body, then the trailers, and checks digest and signature
VerifyTrailers ==
  /\ At("server", "trailers")
  /\ LET verified == cur.live /\ wire.place = "trailer" /\ Readable /\ DigestMatches /\ SignatureVerifies([Drained EXCEPT !.q = cur.q])
     IN  \/ MapError("local")
         \/ ~ verified /\ MapError("message")
         \/ verified /\ cur' = Drained /\ Passed /\ UNCHANGED <<clientVars, wire>>

\* The external verifier sees an isolated view; the request itself goes on
CompatVerify ==
  /\ At("server", "compat")
  /\ MapError("local") \/ (Passed /\ UNCHANGED <<clientVars, wire, cur>>)

Serve ==
  /\ pc = "server" /\ chain = <<>>
  /\ pc' = "handler"
  /\ UNCHANGED <<setup, chain, clientVars, wire, cur, fault, cause>>

Next ==
  \/ DigestRoundTrip \/ SignRoundTrip \/ SignInTrailers \/ CompatSign \/ Send
  \/ \E f \in Faults : Transit(f)
  \/ Accept \/ VerifyDigest \/ VerifySignature \/ VerifyTrailers \/ CompatVerify \/ Serve

Spec == Init /\ [][Next]_vars

(* ----------------------------- properties -------------------------------- *)
ChecksContent   == Contains(setup.server, "digest") \/ Contains(setup.server, "trailers")
ChecksSignature == Contains(setup.server, "verify") \/ Contains(setup.server, "trailers")

\* The signature covers every digest the server requires
CoversPolicy ==
  "content-digest" \in setup.covers \/ ("content-digest:sha-256" \in setup.covers /\ setup.policy = {"sha-256"})

\* Whatever happened in transit, and in whichever order digest and signature middleware run, the
\* handler gets a body that is the content the client's caller handed in and that fits the server's
\* limit, provided the signature covers the digests the server requires.
HandlerGetsSigned ==
  pc = "handler" /\ ChecksContent /\ ChecksSignature /\ CoversPolicy =>
    cur.copied /\ wire.content = setup.content /\ Len(wire.content) <= setup.serverMax

\* The body the caller hands to the stack of round trippers is closed exactly once, whichever adapter
\* fails and whether or not an adapter outside it replaced the body by a copy.
BodyClosedOnce ==
  pc # "client" => closes = (IF setup.struct.body = "nil" THEN 0 ELSE 1)

\* The outermost middleware that passes on a copy of the request reads the body
OutermostReads(server) ==
  \E i \in 1 .. Len(server) :
    server[i] \in {"digest", "trailers"} /\ \A j \in 1 .. i - 1 : server[j] = "compat"

\* Trailer values that only exist once the caller's body is at EOF reach the handler through both stacks,
\* when the outermost client adapter and the outermost middleware that makes a copy read the body.
TrailersArrive ==
  pc = "handler" /\ fault # "trailers" /\ setup.trailer = "declared"
    /\ setup.client # <<>> /\ Head(setup.client) \in {"digest", "trailers"} /\ OutermostReads(setup.server)
    => cur.trailer = "filled"

\* No adapter inside a signing one computes digests, frames the body anew or signs again
SignsLast(client) ==
  \A i, j \in 1 .. Len(client) : client[i] = "sign" /\ i < j => client[j] = "compat"

\* A signature and a digest in trailers leave nothing for middleware that reads the header
ChecksAlone(server) ==
  \A i, j \in 1 .. Len(server) : server[i] = "trailers" /\ server[j] # "compat" => i = j

\* The ends fit: the server's requirements are met by what the client computes and by the route
Compatible ==
  /\ wire.signature # <<>> /\ Len(wire.content) <= setup.serverMax
  /\ ChecksContent => wire.digests # <<>> /\ setup.policy \subseteq DOMAIN wire.digests
  /\ wire.x = "a" \/ "x" \notin setup.covers
  /\ Contains(setup.server, "trailers") <=> wire.place = "trailer"
  /\ SignsLast(setup.client) /\ ChecksAlone(setup.server)

\* Components whose value the server cannot reconstruct
Lost(name) ==
  \/ name = "trailer"
  \/ name = "content-length" /\ setup.content = <<>>
  \/ name = "t:tr" /\ ~ OutermostReads(setup.server)
  \/ name = "@request-target" /\ setup.via = "proxy"
  \/ name \in {"@request-target", "@target-uri"} /\ setup.struct.method = "CONNECT"
  \/ name = "@query" /\ setup.struct.method = "CONNECT" /\ setup.url.query # "none"
  \/ name \in {"@target-uri", "@authority", "@scheme"} /\ setup.via = "gateway" /\ ~ setup.trusted

\* A signed request that arrives intact is not refused on account of the message, whatever a
\* compatibility signer inside the stack did to the signature fields, unless it covers a component that
\* the server cannot know.
IntactDelivered ==
  pc = "refused" /\ cause = "message" /\ fault = "none" /\ Compatible => \E name \in setup.covers : Lost(name)

\* Every covered field that net/http manages has on the wire the value the signature base was given.
SignedRequestIsOnWire ==
  pc = "wire" /\ fault = "none" /\ wire.signature # <<>> =>
    \A name \in setup.covers \cap ManagedNames : wire.signature[name] = wire.fields[name]
==============================================================================
