------------------------- MODULE MCResponseExchange -------------------------
EXTENDS ResponseExchange

Middleware == [origin |-> "middleware", method |-> "GET", mode |-> "write", struct |-> NoResponse, algorithms |-> {"sha-256"},
               covers |-> {"@status", "x", "content-digest"}, existing |-> "append", max |-> 2, policy |-> {"sha-256"},
               clientMax |-> 1]

\* Nothing but the managed fields is covered: the client has no digest to check
Plain(covers) == [Middleware EXCEPT !.algorithms = {}, !.covers = covers, !.policy = {}, !.clientMax = 0, !.existing = "reject"]
MCConnection == {Plain({"@status", "connection"})}

MCMiddleware ==
  {[Middleware EXCEPT !.method = m] : m \in {"GET", "HEAD", "CONNECT"}}
  \cup {[Plain(c) EXCEPT !.method = m] :
          m \in {"GET", "HEAD"}, c \in {{"@status", "content-length"}, {"x"}}}
  \cup MCConnection
  \cup {[Middleware EXCEPT !.algorithms = {}, !.covers = {"@status", "content-digest:sha-256"}, !.policy = p, !.clientMax = 2] :
          p \in {{"sha-256"}, {"sha-512"}}}
  \cup {[Middleware EXCEPT !.method = m, !.covers = {"@status", "content-digest", "content-length"}] : m \in {"GET", "HEAD"}}
  \cup {[Middleware EXCEPT !.method = "HEAD", !.algorithms = {}, !.covers = {"@status", "content-digest"}, !.clientMax = 2]}

MCHeader == [NoHeader EXCEPT !.x = "a"]
MCHeaders ==
  {MCHeader, [MCHeader EXCEPT !.x = "b"], [MCHeader EXCEPT !.length = <<1>>], [MCHeader EXCEPT !.length = <<2>>],
   [MCHeader EXCEPT !.length = <<1, 1>>], [MCHeader EXCEPT !.connection = <<"keep-alive">>], [MCHeader EXCEPT !.digest = TRUE], [MCHeader EXCEPT !.bad = TRUE]}
  \cup {[MCHeader EXCEPT !.sig = s] : s \in {"other-label", "same-label", "broken"}}

Codings == {<<>>, <<"chunked">>, <<"identity">>, <<"gzip">>}
Structs ==
  [status : {200, 204, 205}, method : {"none", "HEAD", "POST", "DELETE"}, proto : {"1.0", "1.1"}, length : {-1, 0, 2},
   coding : Codings, body : {"nil", "NoBody", "empty", "bytes"}, trailer : {TRUE}, close : BOOLEAN,
   connection : {<<>>, <<"close">>, <<"keep-alive">>}, headerLength : {<<>>}, uncompressed : BOOLEAN]

MCDirect ==
  {[Middleware EXCEPT !.origin = "direct", !.struct = r, !.method = r.method, !.mode = m, !.covers = {n},
      !.algorithms = {}, !.policy = {}, !.clientMax = 0] :
     r \in Structs, m \in {"write", "unspecified"}, n \in ManagedNames}

MCTrailers ==
  {[Middleware EXCEPT !.origin = "trailers", !.covers = {"@status", "content-digest"}, !.clientMax = n] : n \in {1, 2}}

\* A direct setup that cannot be signed is not an exchange
MCSetups ==
  MCMiddleware \cup MCTrailers \cup
  {s \in MCDirect : \A n \in s.covers : Available(ResponseField(s.struct, s.mode, n))}

\* Setups that show a difference between signature and wire, each of its own kind
MCRepresentation == {Plain({"@status", "content-length"})}
MCProbed == {s \in MCSetups : s.origin = "direct" /\ s.covers = {"connection"} /\ s.struct.length = 0}
MCDifferential == MCRepresentation \cup MCConnection \cup MCProbed
=============================================================================
