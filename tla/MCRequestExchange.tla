-------------------------- MODULE MCRequestExchange --------------------------
EXTENDS RequestExchange

MCUrl == [method |-> "POST", scheme |-> "https", host |-> NoAuthority, urlHost |-> [host |-> "h", port |-> 443],
          path |-> "/p", query |-> "none", uri |-> NoTarget, tls |-> FALSE]
MCStruct == [method |-> "POST", proto |-> "1.1", length |-> 0, coding |-> <<>>, body |-> "nil", trailer |-> FALSE,
             close |-> FALSE, connection |-> <<>>, inbound |-> FALSE]
MCSetup == [client |-> <<"digest", "sign">>, server |-> <<"digest", "verify">>, struct |-> MCStruct, url |-> MCUrl,
            content |-> <<>>, trailer |-> "none", header |-> "none", covers |-> {"x", "content-digest"},
            algorithms |-> {"sha-256", "sha-512"}, existing |-> "append", clientMax |-> 2, policy |-> {"sha-512"},
            serverMax |-> 1, via |-> "direct", trusted |-> FALSE]

\* A caller's request with this content; with trailers it is chunked
WithContent(s, content, trailer) ==
  [s EXCEPT !.content = content, !.trailer = trailer,
     !.struct = [@ EXCEPT !.body = IF content = <<>> THEN "nil" ELSE "bytes", !.length = IF trailer = "none" THEN Len(content) ELSE -1,
                          !.coding = IF trailer = "none" THEN <<>> ELSE <<"chunked">>, !.trailer = trailer # "none"]]

\* The stacks, with every pair of digest policies
MCStacks ==
  {WithContent([MCSetup EXCEPT !.client = c, !.server = s, !.covers = covers, !.algorithms = a, !.header = h, !.policy = p], content, trailer) :
     c \in {<<"digest", "sign">>, <<"digest", "sign", "compat">>, <<"sign", "digest">>, <<"sign">>, <<"compat">>},
     s \in {<<"digest", "verify">>, <<"verify", "digest">>, <<"compat", "digest", "verify">>, <<"verify">>},
     covers \in {{"x", "content-digest"}, {"content-digest:sha-256"}, {"content-digest", "t:tr"}, {"content-digest", "content-length"}},
     a \in {{"sha-256"}, {"sha-256", "sha-512"}}, h \in {"none", "digest"},
     p \in {{"sha-256"}, {"sha-512"}},
     content \in {<<"h">>, <<"h", "h">>, <<"h", "h", "h">>}, trailer \in {"none", "declared"}}

MCTrailers ==
  {WithContent([MCSetup EXCEPT !.client = <<"trailers">>, !.server = s, !.covers = {"x", "content-digest"} \cup t], content, trailer) :
     s \in {<<"trailers">>, <<"compat", "trailers">>}, t \in {{}, {"t:tr"}},
     content \in {<<"h">>, <<"h", "h">>, <<"h", "h", "h">>}, trailer \in {"none", "declared"}}

MCExisting ==
  {WithContent([MCSetup EXCEPT !.header = h, !.existing = e, !.policy = {"sha-256"}], <<"h">>, "none") :
     h \in {"other-label", "same-label", "broken"}, e \in {"append", "reject"}}

\* Every struct a caller may hand to the signing transport
MCStructs ==
  {q \in [method : {"GET", "POST", "DELETE"}, proto : {"1.1"}, length : {-1, 0, 1}, coding : {<<>>, <<"chunked">>, <<"identity">>, <<"gzip">>},
          body : {"nil", "NoBody", "empty", "bytes"}, trailer : BOOLEAN, close : BOOLEAN,
          connection : {<<>>, <<"close">>, <<"keep-alive">>}, inbound : {FALSE}] :
     /\ q.body \in {"nil", "NoBody"} => q.length = 0
     /\ q.body = "empty" => q.length # 1}

MCManaged ==
  {[MCSetup EXCEPT !.client = <<"sign">>, !.server = <<"verify">>, !.covers = {n}, !.struct = q, !.url.method = q.method,
      !.content = IF q.body = "bytes" THEN <<"h">> ELSE <<>>, !.trailer = IF q.trailer /\ q.body \in {"empty", "bytes"} THEN "declared" ELSE "none"] :
     q \in MCStructs, n \in ManagedNames}

MCAnyUrls ==
  {[MCUrl EXCEPT !.method = l[1], !.path = l[2], !.query = l[3], !.scheme = s, !.urlHost.port = p, !.host = h] :
     l \in {<<"GET", "/p", "none">>, <<"GET", "/p", "empty">>, <<"GET", "empty", "a">>, <<"OPTIONS", "*", "none">>, <<"OPTIONS", "*", "a">>,
            <<"CONNECT", "empty", "none">>, <<"CONNECT", "empty", "a">>},
     s \in {"http", "https"}, p \in {0, 80, 443}, h \in {NoAuthority, [host |-> "v", port |-> 443]}}

\* A CONNECT request names a port
MCUrls == {u \in MCAnyUrls : u.method = "CONNECT" => HostOf(u).port # 0}

MCTargets ==
  {[MCSetup EXCEPT !.client = <<"sign">>, !.server = <<"verify">>, !.covers = {n}, !.url = u, !.struct.method = u.method,
      !.via = via, !.trusted = t] :
     n \in DerivedNames, u \in MCUrls, via \in {"direct", "gateway"}, t \in BOOLEAN}
  \cup
  {[MCSetup EXCEPT !.client = <<"sign">>, !.server = <<"verify">>, !.covers = {n}, !.url = u, !.struct.method = u.method,
      !.via = "proxy", !.trusted = t] :
     n \in DerivedNames, u \in {v \in MCUrls : v.method = "GET"}, t \in BOOLEAN}

MCSetups == MCStacks \cup MCTrailers \cup MCExisting \cup MCManaged \cup MCTargets
MCWireSetups == MCManaged
==============================================================================
