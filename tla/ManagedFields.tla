---------------------------- MODULE ManagedFields ----------------------------
(***************************************************************************)
(* The fields that net/http writes itself: content-length,                 *)
(* transfer-encoding, trailer, connection.  message.go derives the value a *)
(* signature covers from the http.Request or http.Response struct, because *)
(* the header map does not hold what goes over the wire.  This module has  *)
(* those derivations and, marked external, what net/http writes for such a *)
(* struct and what it reads back.                                          *)
(*                                                                         *)
(* Field values are sequences as in the code; <<>> is an absent field and  *)
(* Unavailable an error.  A struct is a record with                        *)
(*   method   ("none": the response has no request)                        *)
(*   proto    "0.0", "1.0" or "1.1"                                        *)
(*   length   ContentLength          coding  the TransferEncoding list     *)
(*   body     "nil", "NoBody", "empty" or "bytes"                          *)
(*   trailer  the Trailer map is not empty                                 *)
(*   close    Close                  connection  the Connection header     *)
(* and a response also has status, uncompressed and headerLength, the      *)
(* Content-Length header, a request also inbound (RequestURI is set).      *)
(***************************************************************************)
EXTENDS Integers, Sequences, SequencesExt

Unavailable == <<"no", "value">>
Available(values) == values # <<>> /\ values # Unavailable

hasChunked(coding) == coding # <<>> /\ coding[1] = "chunked"
isIdentity(coding) == coding = <<"identity">>
Sends0(method) == method \in {"POST", "PUT", "PATCH"}

(* ------------------------------ requests --------------------------------- *)
requestUsesChunked(q) == q.body # "nil" /\ hasChunked(q.coding)

requestContentLength(q) ==
  IF \/ requestUsesChunked(q)
     \/ q.body = "nil" /\ q.length # 0 THEN <<>>
  ELSE IF q.body \in {"empty", "bytes"} THEN (IF q.length > 0 THEN <<q.length>> ELSE <<>>)
  ELSE IF q.method \in {"GET", "HEAD"} THEN <<>>
  ELSE IF isIdentity(q.coding) \/ Sends0(q.method) THEN <<0>> ELSE <<>>

transferEncodingFieldValues(coding) ==
  IF coding = <<>> \/ isIdentity(coding) THEN <<>>
  ELSE IF hasChunked(coding) THEN <<"chunked">> ELSE Unavailable

\* Connection with the close that Close adds in front of the header's own values
CloseField(connection, synthesize) ==
  IF synthesize /\ ~ Contains(connection, "close") THEN <<"close">> \o connection ELSE connection

\* managedFieldValues for a request: requestContentLength and requestTransportFieldValues
RequestField(q, name) ==
  CASE name = "content-length"    -> requestContentLength(q)
    [] name = "transfer-encoding" -> IF q.body = "nil" THEN <<>> ELSE transferEncodingFieldValues(q.coding)
    [] name = "trailer"           -> IF q.inbound THEN Unavailable
                                     ELSE IF requestUsesChunked(q) /\ q.trailer THEN <<"T">> ELSE <<>>
    [] name = "connection"        -> IF q.inbound THEN q.connection ELSE CloseField(q.connection, q.close)

(* ------------------------------ responses -------------------------------- *)
Http11(r) == r.proto = "1.1"
responseWriteBodyAllowed(status) == status < 100 \/ (status > 199 /\ status \notin {204, 304})

responseUsesChunked(r) ==
  hasChunked(r.coding) /\ (r.method = "HEAD" \/ (r.body # "nil" /\ Http11(r)))

\* Mutant: the probing of a body of unknown length is not anticipated
writeContentLengthUnprobed(r) ==
  IF responseUsesChunked(r) \/ r.length < 0 THEN <<>>
  ELSE IF r.length > 0 THEN <<r.length>>
  ELSE IF responseWriteBodyAllowed(r.status) \/ Sends0(r.method) THEN <<0>> ELSE <<>>

writeContentLength(r) ==
  LET head   == r.method = "HEAD"
      length == IF ~ head /\ r.body = "nil" THEN 0 ELSE r.length
      coding == IF ~ head /\ (~ Http11(r) \/ r.body = "nil") THEN <<>> ELSE r.coding
  IN  IF responseUsesChunked(r) THEN <<>>
      ELSE IF \/ r.length = 0 /\ r.body \in {"empty", "bytes"}
              \/ ~ head /\ r.body = "NoBody" /\ r.length > 0 THEN Unavailable
      ELSE IF length > 0 THEN <<length>>
      ELSE IF length < 0 THEN <<>>
      ELSE IF \/ Sends0(r.method)
              \/ isIdentity(coding) /\ r.method \notin {"GET", "HEAD"}
              \/ r.length = 0 /\ ~ hasChunked(r.coding) /\ responseWriteBodyAllowed(r.status) THEN <<0>>
      ELSE <<>>

receivedContentLength(r) ==
  IF r.headerLength = <<>> THEN <<>>
  ELSE IF \/ Len(r.headerLength) # 1 \/ r.coding # <<>>
          \/ (responseWriteBodyAllowed(r.status) \/ r.method = "HEAD") /\ r.length # r.headerLength[1]
  THEN Unavailable ELSE r.headerLength

writeTransferEncoding(r) ==
  IF responseUsesChunked(r) THEN <<"chunked">>
  ELSE IF \/ r.coding = <<>> \/ isIdentity(r.coding) \/ r.body = "nil" \/ r.method = "none"
          \/ r.method # "HEAD" /\ ~ Http11(r)
  THEN <<>> ELSE Unavailable

receivedTransferEncoding(r) ==
  IF r.coding = <<>> THEN <<>> ELSE IF r.coding = <<"chunked">> THEN <<"chunked">> ELSE Unavailable

writeTrailer(r) == IF responseUsesChunked(r) /\ r.trailer THEN <<"T">> ELSE <<>>
receivedTrailer(r) == IF r.trailer THEN Unavailable ELSE <<>>

responseWriteClosesConnection(r) ==
  r.close \/ (r.length = -1 /\ Http11(r) /\ ~ hasChunked(r.coding) /\ ~ r.uncompressed)

receivedCloseIsExplicit(r) ==
  Http11(r) /\ (r.length >= 0 \/ r.coding # <<>> \/ r.method = "HEAD" \/ ~ responseWriteBodyAllowed(r.status))

WriteField(r, name) ==
  CASE name = "content-length"    -> writeContentLength(r)
    [] name = "transfer-encoding" -> writeTransferEncoding(r)
    [] name = "trailer"           -> writeTrailer(r)
    [] name = "connection"        -> CloseField(r.connection, responseWriteClosesConnection(r))

ReceivedField(r, name) ==
  CASE name = "content-length"    -> receivedContentLength(r)
    [] name = "transfer-encoding" -> receivedTransferEncoding(r)
    [] name = "trailer"           -> receivedTrailer(r)
    [] name = "connection"        -> CloseField(r.connection, r.close /\ receivedCloseIsExplicit(r))

\* ResponseTransportMode: an unspecified mode needs the two to agree (matchingResponseFieldValues)
ResponseField(r, mode, name) ==
  CASE mode = "write"    -> WriteField(r, name)
    [] mode = "received" -> ReceivedField(r, name)
    [] OTHER             -> IF WriteField(r, name) = ReceivedField(r, name) THEN WriteField(r, name) ELSE Unavailable

(* ---------------------- net/http's wire (external) ------------------------ *)
\* transferWriter: what it sends for a body with this length and coding
SendsLength(method, length, coding) ==
  /\ ~ hasChunked(coding)
  /\ \/ length > 0
     \/ length = 0 /\ (Sends0(method) \/ (isIdentity(coding) /\ method \notin {"GET", "HEAD"}))

Wire(length, coding, trailer, connection) ==
  [name \in {"content-length", "transfer-encoding", "trailer", "connection"} |->
     CASE name = "content-length"    -> length
       [] name = "transfer-encoding" -> IF hasChunked(coding) THEN <<"chunked">> ELSE <<>>
       [] name = "trailer"           -> IF hasChunked(coding) /\ trailer THEN <<"T">> ELSE <<>>
       [] name = "connection"        -> connection]

\* Request.Write: a body of unknown length is chunked, after probing for a method that seldom has one
WireOfRequest(q) ==
  LET outgoing == IF q.body \in {"nil", "NoBody"} THEN 0 ELSE IF q.length # 0 THEN q.length ELSE -1
      probed   == outgoing < 0 /\ q.coding = <<>> /\ q.method \in {"GET", "HEAD", "DELETE", "OPTIONS"}
      body     == IF probed /\ q.body = "empty" THEN "nil" ELSE q.body
      chunks   == outgoing < 0 /\ q.coding = <<>> /\ body # "nil" /\ q.method # "CONNECT"
      coding   == IF body = "nil" THEN <<>> ELSE IF chunks THEN <<"chunked">> ELSE q.coding
      length   == IF hasChunked(coding) THEN -1 ELSE IF body = "nil" THEN 0 ELSE outgoing
  IN  Wire(IF SendsLength(q.method, length, coding) THEN <<length>> ELSE <<>>, coding, q.trailer,
           CloseField(q.connection, q.close))

\* What the server's net/http makes of such a wire
ReadRequest(w, method, content) ==
  LET chunked == w["transfer-encoding"] # <<>>
      length  == IF chunked THEN -1 ELSE IF w["content-length"] # <<>> THEN w["content-length"][1] ELSE 0
  IN  [ method |-> method, proto |-> "1.1", length |-> length, coding |-> w["transfer-encoding"],
        body |-> IF length = 0 THEN "NoBody" ELSE IF content = <<>> THEN "empty" ELSE "bytes",
        trailer |-> w["trailer"] # <<>>, close |-> Contains(w["connection"], "close"),
        connection |-> w["connection"], inbound |-> TRUE ]

\* Response.Write: a zero length with a body is probed
WireOfResponse(r) ==
  LET probed == r.length = 0 /\ r.body # "nil"
      length == IF probed /\ r.body = "bytes" THEN -1 ELSE r.length
      close  == r.close \/ (length = -1 /\ Http11(r) /\ ~ hasChunked(r.coding) /\ ~ r.uncompressed)
      head   == r.method = "HEAD"
      coding == IF ~ head /\ (~ Http11(r) \/ r.body = "nil") THEN <<>> ELSE r.coding
      sent   == IF hasChunked(coding) THEN -1 ELSE IF ~ head /\ r.body = "nil" THEN 0 ELSE length
      zero   == length = 0 /\ ~ hasChunked(coding) /\ responseWriteBodyAllowed(r.status)
  IN  Wire(IF SendsLength(r.method, sent, coding) THEN <<sent>> ELSE IF zero THEN <<0>> ELSE <<>>,
           coding, r.trailer, CloseField(r.connection, close))

\* ReadResponse on such a wire; keepsClose: whether the parser leaves Connection: close in the header
ReadResponse(w, status, method, minor11, keepsClose) ==
  LET chunked == minor11 /\ w["transfer-encoding"] # <<>>
      header  == IF chunked THEN <<>> ELSE w["content-length"]
      closes  == Contains(w["connection"], "close")
      noBody  == method = "HEAD" \/ ~ responseWriteBodyAllowed(status)
      real    == IF noBody THEN 0 ELSE IF chunked THEN -1 ELSE IF header # <<>> THEN header[1] ELSE -1
  IN  [ status |-> status, method |-> method, proto |-> IF minor11 THEN "1.1" ELSE "1.0",
        length |-> IF method = "HEAD" THEN (IF header # <<>> THEN header[1] ELSE -1)
                   ELSE IF chunked THEN -1 ELSE real,
        coding |-> IF chunked THEN <<"chunked">> ELSE <<>>,
        body |-> IF noBody \/ real = 0 THEN "NoBody" ELSE "bytes",
        trailer |-> chunked /\ w["trailer"] # <<>>,
        close |-> closes \/ ~ minor11 \/ (real = -1 /\ ~ chunked),
        connection |-> IF closes /\ minor11 /\ ~ keepsClose THEN <<>> ELSE w["connection"],
        headerLength |-> header, uncompressed |-> FALSE ]
==============================================================================
