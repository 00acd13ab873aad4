---------------------------- MODULE RequestTarget ----------------------------
(***************************************************************************)
(* The derived components of a request.  The client resolves them from the *)
(* URL it is about to send to, the server from the request line, the Host  *)
(* field and the connection it received, or from a trusted external        *)
(* context that replaces all three.                                        *)
(*                                                                         *)
(* An authority is a [host, port] with port 0 for none; a target is the    *)
(* parsed request target with its form.  A request has                     *)
(*   method, scheme (URL.Scheme), host (Host), urlHost (URL.Host), path,   *)
(*   query ("none": no question mark), uri (RequestURI) and tls            *)
(* where "empty" is the empty string.                                      *)
(***************************************************************************)
EXTENDS Integers, Sequences

NoAuthority == [host |-> "empty", port |-> 0]
Target(form, scheme, authority, path, query) ==
  [form |-> form, scheme |-> scheme, authority |-> authority, path |-> path, query |-> query]
NoTarget  == Target("none", "empty", NoAuthority, "empty", "none")
NoContext == [scheme |-> "empty", authority |-> NoAuthority, target |-> NoTarget]
NoParts   == <<>>

\* URL.RequestURI (external)
RequestURI(r) ==
  Target(IF r.path # "*" THEN "origin" ELSE IF r.query = "none" THEN "asterisk" ELSE "malformed",
         "empty", NoAuthority, IF r.path = "empty" THEN "/" ELSE r.path, r.query)

HostOf(r) == IF r.host # NoAuthority THEN r.host ELSE r.urlHost

normalizeAuthority(a, scheme) ==
  [a EXCEPT !.port = IF <<scheme, @>> \in {<<"http", 80>>, <<"https", 443>>} THEN 0 ELSE @]

\* The target a request is resolved from
ChosenTarget(r, external) ==
  IF external # NoContext THEN external.target ELSE IF r.uri # NoTarget THEN r.uri ELSE RequestURI(r)

\* The external context is complete and does not contradict an absolute or an authority target
ConsistentContext(target, external) ==
  external # NoContext =>
    /\ external.scheme # "empty" /\ external.authority # NoAuthority /\ target # NoTarget
    /\ target.form = "absolute" =>
         /\ target.scheme = external.scheme
         /\ normalizeAuthority(target.authority, target.scheme) = normalizeAuthority(external.authority, external.scheme)
    /\ target.form = "authority" =>
         normalizeAuthority(target.authority, external.scheme) = normalizeAuthority(external.authority, external.scheme)

WellFormedTarget(target, method) ==
  CASE target.form \in {"absolute", "origin"} -> TRUE
    [] target.form = "asterisk"  -> method = "OPTIONS"
    [] target.form = "authority" -> method = "CONNECT" /\ target.authority.port # 0
    [] OTHER                     -> FALSE

requestParts(r, external) ==
  LET target    == ChosenTarget(r, external)
      given     == IF external # NoContext THEN external.scheme
                   ELSE IF target.form = "absolute" THEN target.scheme ELSE r.scheme
      scheme    == IF given # "empty" THEN given ELSE IF r.tls THEN "https" ELSE "http"
      authority == IF external # NoContext THEN external.authority
                   ELSE IF target.form \in {"absolute", "authority"} THEN target.authority ELSE HostOf(r)
      bare      == target.form \in {"asterisk", "authority"}
  IN  IF \/ ~ WellFormedTarget(target, r.method) \/ ~ ConsistentContext(target, external)
         \/ scheme \notin {"http", "https"} \/ authority.host = "empty"
      THEN NoParts
      ELSE [ scheme |-> scheme, authority |-> normalizeAuthority(authority, scheme), requestTarget |-> target,
             path |-> IF bare \/ target.path = "empty" THEN "/" ELSE target.path,
             query |-> IF bare \/ target.query = "none" THEN "empty" ELSE target.query,
             originTarget |-> IF bare THEN <<"empty", "none">> ELSE <<target.path, target.query>> ]

DerivedNames == {"@target-uri", "@authority", "@scheme", "@request-target", "@path", "@query"}

\* resolveDerived: <<>> when the request has no such value
Derived(name, r, external) ==
  LET parts == requestParts(r, external)
  IN  IF parts = NoParts THEN <<>>
      ELSE CASE name = "@target-uri"     -> <<parts.scheme, parts.authority, parts.originTarget>>
             [] name = "@authority"      -> <<parts.authority>>
             [] name = "@scheme"         -> <<parts.scheme>>
             [] name = "@request-target" -> <<parts.requestTarget>>
             [] name = "@path"           -> <<parts.path>>
             [] name = "@query"          -> <<parts.query>>

(* ---------------------- net/http and proxies (external) ------------------- *)
\* The request line: CONNECT without a path names the host, a forward proxy gets the absolute form
LineOf(r, via) ==
  LET target == RequestURI(r)
  IN  IF r.method = "CONNECT" /\ r.path = "empty" THEN Target("authority", "empty", HostOf(r), "empty", "none")
      ELSE IF via = "proxy" THEN Target("absolute", r.scheme, HostOf(r), target.path, target.query)
      ELSE target

\* The request as the server's net/http reads it; behind "gateway" TLS ends before the server
Inbound(r, via) ==
  LET line == LineOf(r, via)
  IN  [ method |-> r.method, scheme |-> line.scheme, host |-> HostOf(r), urlHost |-> NoAuthority,
        path |-> line.path, query |-> line.query, uri |-> line, tls |-> r.scheme = "https" /\ via = "direct" ]

\* What a deployment that knows its public origin passes as ExternalRequestContext
TrustedContext(r, inbound) == [scheme |-> r.scheme, authority |-> inbound.host, target |-> inbound.uri]
==============================================================================
