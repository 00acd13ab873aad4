-------------------------- MODULE MCSignatureBase --------------------------
EXTENDS SignatureBase, TLC

CONSTANT MaxComponents   \* covered components per call

C(name, flags, key, named, known) == [name |-> name, flags |-> flags, key |-> key, named |-> named, known |-> known]
Derived(name) == C(name, {}, 0, FALSE, TRUE)
Field(name, flags, key) == C(name, flags, key, FALSE, TRUE)

MCComponents ==
  {Derived(n) : n \in {"@method", "@path", "@target-uri", "@request-target", "@query", "@status", "@unknown", "@signature-params"}}
  \cup {C("@query-param", {}, 0, b, TRUE) : b \in BOOLEAN}
  \cup {C("@path", {"req"}, 0, FALSE, TRUE), C("@status", {"req"}, 0, FALSE, TRUE), C("x", {}, 0, FALSE, FALSE)}
  \cup {Field("x", f, 0) : f \in {{}, {"bs"}, {"sf"}, {"tr"}, {"req"}, {"bs", "sf"}}}
  \cup {Field("x", {}, k) : k \in {1, 3}} \cup {Field("set-cookie", {}, 0), Field("cookie", {}, 0), C("x", {}, 0, TRUE, TRUE)}

MCNameBytes == ("@method" :> 7) @@ ("@path" :> 5) @@ ("@target-uri" :> 11) @@ ("@request-target" :> 15) @@ ("@query" :> 6)
  @@ ("@status" :> 7) @@ ("@unknown" :> 8) @@ ("@signature-params" :> 17) @@ ("@query-param" :> 12) @@ ("x" :> 1)
  @@ ("set-cookie" :> 10) @@ ("cookie" :> 6)

Member(b, v) == [bytes |-> b, value |-> v]
Value(members, gap, pad) == [members |-> members, gap |-> gap, pad |-> pad, fold |-> FALSE, ascii |-> TRUE]
Fields(x) == [n \in {"x", "set-cookie", "cookie"} |-> IF n = "set-cookie" THEN <<Value(<<Member(3, 1)>>, 1, 0)>> \o x ELSE x]

Url == [external |-> FALSE, target |-> 0, uri |-> 8, path |-> 4, rawPath |-> 0, query |-> 3, forceQuery |-> FALSE,
        opaque |-> 0, slashes |-> FALSE, scheme |-> 4, authority |-> 2, escaped |-> 12, wellFormed |-> TRUE, matches |-> 1, parameter |-> 3]
Message == [target |-> "request", related |-> FALSE, method |-> 3, status |-> 200, url |-> Url, fields |-> Fields(<<>>),
            trailers |-> Fields(<<>>), major |-> 1, structured |-> TRUE]
MCMessages ==
  { [Message EXCEPT !.fields = Fields(<<Value(<<Member(1, 2), Member(1, 2)>>, 1, 1)>>)],
    [Message EXCEPT !.url = [Url EXCEPT !.uri = 0, !.path = 50, !.escaped = 50, !.query = 0, !.forceQuery = TRUE], !.structured = FALSE, !.fields = Fields(<<Value(<<Member(60, 57)>>, 1, 0)>>)],
    [Message EXCEPT !.url = [Url EXCEPT !.uri = 0, !.opaque = 5, !.slashes = TRUE, !.matches = 2], !.method = 0, !.major = 2,
       !.fields = Fields(<<[Value(<<Member(4, 2)>>, 2, 0) EXCEPT !.fold = TRUE]>>)],
    [Message EXCEPT !.url = [Url EXCEPT !.external = TRUE, !.target = 9, !.wellFormed = FALSE],
       !.fields = Fields(<<[Value(<<Member(4, 2)>>, 2, 0) EXCEPT !.ascii = FALSE]>>)],
    [Message EXCEPT !.target = "response", !.related = TRUE, !.fields = Fields(<<Value(<<Member(3, 1)>>, 1, 0), Value(<<Member(1, 2), Member(2, 3)>>, 1, 0)>>),
       !.trailers = Fields(<<Value(<<Member(2, 2)>>, 1, 0)>>)],
    [Message EXCEPT !.target = "response", !.status = 42] }

MCLimits == {-1, 0, 12, 15, 22, 35} \cup 42 .. 56 \cup {70, 90, 127}

MCCalls == [limit : MCLimits, components : BoundedSeq(MCComponents, MaxComponents), params : {0, 5},
            paramsValid : {TRUE}, message : MCMessages]
           \cup [limit : {127}, components : BoundedSeq(MCComponents, 1), params : {5}, paramsValid : {FALSE}, message : MCMessages]
=============================================================================
