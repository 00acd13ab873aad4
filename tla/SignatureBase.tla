---------------------------- MODULE SignatureBase ----------------------------
(***************************************************************************)
(* CreateSignatureBase (message.go) and its size accounting                *)
(* (message_limits.go): the loop over the covered components, the resolver *)
(* of each, and the byte budget they share.                                *)
(*                                                                         *)
(* Values are abstracted to their sizes in bytes.  Go's int is the range   *)
(* -MaxInt - 1 .. MaxInt.  A covered component is                          *)
(*   [name, flags, key, named, known]                                      *)
(* flags \subseteq {"bs","sf","tr","req"}; key is the dictionary member    *)
(* that ;key selects (0: none); named: ;name is present; known: every      *)
(* parameter is known and well typed.  Equal records are equal             *)
(* componentComparisonKeys.  A message is                                  *)
(*   [target, related, method, status, url, fields, trailers, major,       *)
(*    structured]                                                          *)
(* url describes the request the derived components are taken from;        *)
(* structured: the fields parse as the structured type they are known by.  *)
(* A field maps to a sequence of values [members, gap, pad, fold, ascii]:    *)
(* the members of a comma separated list, each [bytes, value], the bytes   *)
(* between two of them, surrounding whitespace, folding and ASCII-only.    *)
(***************************************************************************)
EXTENDS Integers, Sequences, SequencesExt, FiniteSetsExt

CONSTANTS
  MaxInt,         \* the largest int
  DefaultLimit,   \* DefaultMaxSignatureBaseBytes
  Calls,          \* the calls considered: [limit, components, params, paramsValid, message]
  NameBytes       \* length of each component name

ASSUME SizeAssumption ==
  /\ MaxInt \in Nat /\ DefaultLimit \in 1 .. MaxInt
  /\ \A c \in Calls : c.limit \in -MaxInt - 1 .. MaxInt /\ c.params \in 0 .. MaxInt

DerivedNames == {"@method", "@target-uri", "@authority", "@scheme", "@request-target", "@path", "@query"}
SpecialNames == {"@query-param", "@status", "@signature-params", "@unknown"}

Components == [name : DOMAIN NameBytes, flags : SUBSET {"bs", "sf", "tr", "req"}, key : Nat,
               named : BOOLEAN, known : BOOLEAN]
Values     == [members : Seq([bytes : Nat, value : Nat]), gap : Nat, pad : Nat, fold : BOOLEAN,
               ascii : BOOLEAN]
Urls       == [external : BOOLEAN, target : Nat, uri : Nat, path : Nat, rawPath : Nat, query : Nat,
               forceQuery : BOOLEAN, opaque : Nat, slashes : BOOLEAN, scheme : Nat, authority : Nat,
               escaped : Nat, wellFormed : BOOLEAN, matches : Nat, parameter : Nat]

\* Every length is a natural number, no name fills the address space, and a message has a list of
\* values for each field
ASSUME CallAssumption ==
  /\ \A name \in DOMAIN NameBytes : NameBytes[name] \in 0 .. MaxInt - 35
  /\ \A c \in Calls :
       /\ c.components \in Seq(Components)
       /\ c.message.method \in Nat /\ c.message.url \in Urls
       /\ \A name \in DOMAIN NameBytes : name \in DOMAIN c.message.fields =>
            c.message.fields[name] \in Seq(Values) /\ c.message.trailers[name] \in Seq(Values)
       /\ \A i \in DOMAIN c.components :
            c.components[i].name \in DOMAIN c.message.fields \cup DerivedNames \cup SpecialNames

\* A value has one member or more, separated by at least a comma; a serialized member is at most
\* three times as long as the received one (a bare key becomes ?1)
ASSUME FieldAssumption ==
  \A c \in Calls : \A name \in DOMAIN NameBytes \cap DOMAIN c.message.fields :
    \A values \in {c.message.fields[name], c.message.trailers[name]} : \A i \in DOMAIN values :
      /\ Len(values[i].members) > 0 /\ values[i].gap > 0
      /\ \A j \in DOMAIN values[i].members : values[i].members[j].value <= 3 * values[i].members[j].bytes

\* The query with its "?", which ForceQuery leaves alone at the end
QueryBytes(url) == IF url.query = 0 /\ ~ url.forceQuery THEN 0 ELSE 1 + url.query

\* A well-formed target there is has path and query from it; EscapedPath() turns a byte of the path,
\* or of the opaque part, into three at most
ASSUME UrlAssumption ==
  \A c \in Calls : LET url == c.message.url IN
    url.wellFormed =>
      IF url.external \/ url.uri # 0
      THEN LET target == IF url.external THEN url.target ELSE url.uri
           IN  target > 0 /\ url.escaped + QueryBytes(url) <= 3 * target
      ELSE url.escaped <= 3 * (IF url.opaque = 0 THEN url.path ELSE url.opaque)

VARIABLES
  call,       \* the arguments of CreateSignatureBase
  index,      \* components already covered
  remaining,  \* the budget variable of the code
  written,    \* bytes in the strings.Builder
  result      \* "running", "base", "limit" (ErrSignatureBaseLimit), "invalid"
              \* (ErrSignatureBase), "shape": invalid by the component's parameters

vars == <<call, index, remaining, written, result>>

(* ------------------------------ sizes ----------------------------------- *)
saturatingSizeAdd(a, b) == IF a < 0 \/ b < 0 \/ a > MaxInt - b THEN MaxInt ELSE a + b
saturatingSizeMultiply(a, k) == IF a < 0 \/ k < 0 \/ (k # 0 /\ a > MaxInt \div k) THEN MaxInt ELSE a * k
base64EncodedLength(n) == saturatingSizeMultiply(saturatingSizeAdd(n, 2) \div 3, 4)

\* consumeSize succeeds: size is taken from a budget of r bytes
Consumable(r, size) == size >= 0 /\ size <= r

\* ;bs, ;sf, ;tr and ;req
FlagBytes(flags) == 3 * Cardinality(flags) + (IF "req" \in flags THEN 1 ELSE 0)

\* structuredItemUpperBound: quotes, name, ;flag, ;key="k", ;name="n"; exact for a valid identifier
structuredItemUpperBound(c) ==
  saturatingSizeAdd(2 + NameBytes[c.name],
    FlagBytes(c.flags) + (IF c.key = 0 THEN 0 ELSE 8) + (IF c.named THEN 9 ELSE 0))

\* What consumeSize takes for one size after another
Total(sizes) ==
  LET sum[i \in 0 .. Len(sizes)] == IF i = 0 THEN 0 ELSE sum[i - 1] + sizes[i]
  IN  sum[Len(sizes)]

\* The exact size of the serialized inner list, and the size signatureParametersFit allows for
ListBytes(components) ==
  2 + Total([i \in 1 .. Len(components) |-> structuredItemUpperBound(components[i])])
    + (IF Len(components) = 0 THEN 0 ELSE Len(components) - 1)

\* Mutant: the space between two components is forgotten
ParametersFitWithoutSpaces(c, budget) ==
  Consumable(budget, 2 + Total([i \in 1 .. Len(c.components) |-> structuredItemUpperBound(c.components[i])]) + c.params)

signatureParametersFit(c, budget) == Consumable(budget, ListBytes(c.components) + c.params)

(* --------------------------- component shape ----------------------------- *)
IsDerived(name) == name \in DerivedNames \cup SpecialNames

\* componentParameterSet
ParameterSetValid(c) == c.known /\ ~ ("bs" \in c.flags /\ ("sf" \in c.flags \/ c.key # 0))

\* Mutant: the profile lets ;req through on @status
ProfileTakesRelatedStatus(c) ==
  /\ ParameterSetValid(c)
  /\ IF IsDerived(c.name)
     THEN c.flags \subseteq {"req"} /\ c.key = 0 /\ c.name \in DerivedNames \cup {"@query-param", "@status"}
          /\ (c.named <=> c.name = "@query-param")
     ELSE ~ c.named

\* validProfileComponent (signer.go): the components NewSigningProfile and NewVerificationProfile take
validProfileComponent(c) ==
  /\ ParameterSetValid(c)
  /\ IF IsDerived(c.name)
     THEN /\ c.flags \subseteq {"req"} /\ c.key = 0
          /\ \/ c.name = "@query-param" /\ c.named
             \/ c.name = "@status" /\ ~ c.named /\ "req" \notin c.flags
             \/ c.name \in DerivedNames /\ ~ c.named
     ELSE ~ c.named

(* ------------------------------ resolvers -------------------------------- *)
Refused(why) == [size |-> 0, why |-> why]
Resolved(n) == [size |-> n, why |-> ""]

\* requestForComponent: is there a request to take the component from
HasRequest(m, c) == IF "req" \in c.flags THEN m.target = "response" /\ m.related ELSE m.target = "request"

\* derivedSourceFits: the bytes of the target before parsing, and what each component may take
TargetSource(url) ==
  IF url.external THEN url.target
  ELSE IF url.uri # 0 THEN url.uri
  ELSE LET queries == saturatingSizeMultiply(url.query, 3)
           plain   == saturatingSizeAdd(saturatingSizeAdd(
                        saturatingSizeAdd(saturatingSizeMultiply(url.path, 3), url.rawPath), queries), 2)
           opaque  == saturatingSizeAdd(saturatingSizeAdd(saturatingSizeAdd(url.opaque, url.scheme), 2), queries)
       IN  IF url.opaque = 0 THEN plain ELSE Max({plain, opaque})

derivedSourceFits(url, name, budget) ==
  LET source == TargetSource(url)
  IN  /\ url.scheme <= budget /\ url.authority <= budget /\ source <= budget
      /\ name = "@query-param" => source <= budget \div 3
      /\ name = "@target-uri" =>
           saturatingSizeAdd(saturatingSizeAdd(saturatingSizeAdd(url.scheme, 3), url.authority), source) <= budget

\* URL.RequestURI (external): the opaque part, "scheme:" in front of one that begins with "//", or the
\* path, "/" for an empty one; then the query
RequestURI(url) ==
  QueryBytes(url) + (IF url.opaque = 0 THEN Max({url.escaped, 1})
                     ELSE url.opaque + (IF url.slashes THEN url.scheme + 1 ELSE 0))

\* The size of a derived value; escaped is EscapedPath(), which may be three times its source
DerivedSize(url, name) ==
  CASE name = "@target-uri"     -> url.scheme + 3 + url.authority + url.escaped + QueryBytes(url)
    [] name = "@authority"      -> url.authority
    [] name = "@scheme"         -> url.scheme
    [] name = "@request-target" -> IF url.external THEN url.target ELSE IF url.uri # 0 THEN url.uri ELSE RequestURI(url)
    [] name = "@path"           -> Max({url.escaped, 1})
    [] OTHER                    -> 1 + url.query     \* @query

\* queryParameter: matches is the number of parameters with the name, parameter the encoded value's size
queryParameter(url, max) ==
  IF url.query = 0 THEN Refused("invalid")
  ELSE IF url.query > max \div 3 THEN Refused("limit")
  ELSE IF url.matches # 1 THEN Refused("invalid")
  ELSE IF url.parameter > max THEN Refused("limit")
  ELSE Resolved(url.parameter)

\* resolveDerived; a value with prohibited bytes (validDerivedValue) is part of ~ wellFormed
ResolveDerived(m, c, max) ==
  IF c.flags \cap {"bs", "sf", "tr"} # {} \/ c.key # 0 \/ (c.named /\ c.name # "@query-param") THEN Refused("shape")
  ELSE IF c.name = "@status" THEN
    IF "req" \in c.flags THEN Refused("shape")
    ELSE IF m.target # "response" \/ m.status \notin 100 .. 599 THEN Refused("invalid")
    ELSE Resolved(3)
  ELSE IF ~ HasRequest(m, c) THEN Refused("invalid")
  ELSE IF c.name = "@method" THEN
    IF m.method > max THEN Refused("limit") ELSE IF m.method = 0 THEN Refused("invalid") ELSE Resolved(m.method)
  ELSE IF c.name \notin DerivedNames \cup {"@query-param"} THEN Refused("shape")
  ELSE IF ~ derivedSourceFits(m.url, c.name, max) THEN Refused("limit")
  ELSE IF ~ m.url.wellFormed THEN Refused("invalid")
  ELSE IF c.name \in DerivedNames THEN Resolved(DerivedSize(m.url, c.name))
  ELSE IF ~ c.named THEN Refused("shape") ELSE queryParameter(m.url, max)

\* Sizes of a field value as received, normalized, and of the joined values
MemberBytes(v) == Total([i \in 1 .. Len(v.members) |-> v.members[i].bytes])
NormalBytes(v) == MemberBytes(v) + (Len(v.members) - 1) * v.gap
RawBytes(v)    == NormalBytes(v) + v.pad + (IF v.fold THEN 2 ELSE 0)
Joined(sizes)  == Total(sizes) + 2 * (Len(sizes) - 1)

\* Mutant: the field's size is not compared with the budget
FieldValuesAlwaysFit(values, binary, budget) == budget >= 0

fieldValuesFit(values, binary, budget) ==
  /\ budget >= 0
  /\ Joined([i \in 1 .. Len(values) |->
               IF binary THEN saturatingSizeAdd(base64EncodedLength(RawBytes(values[i])), 2)
               ELSE RawBytes(values[i])]) <= budget

\* strictStructuredField and ;key (marshalMember): members separated by ", "
AllMembers(values) == FlattenSeq([i \in 1 .. Len(values) |-> values[i].members])
StrictBytes(values) ==
  Joined([i \in 1 .. Len(values) |-> MemberBytes(values[i]) + 2 * (Len(values[i].members) - 1)])

\* headerForComponent and managedFieldValues: where the values of a field come from
FieldValues(m, c) == IF "tr" \in c.flags THEN m.trailers[c.name] ELSE m.fields[c.name]

\* Set-Cookie and a request's Cookie must be one line, a Cookie separated by "; "
CookieRefused(m, c, values) ==
  \/ c.name = "set-cookie" /\ Len(values) # 1
  \/ /\ c.name = "cookie" /\ "tr" \notin c.flags /\ (m.target = "request" \/ "req" \in c.flags)
     /\ \/ Len(values) # 1
        \/ ~ values[1].ascii
        \/ Len(values[1].members) > 1 /\ values[1].gap # 2

\* resolveField
ResolveField(m, c, max) ==
  LET values == FieldValues(m, c)
      binary == "bs" \in c.flags
  IN  IF c.named THEN Refused("shape")
      ELSE IF "req" \in c.flags /\ ~ HasRequest(m, c) THEN Refused("invalid")
      ELSE IF values = <<>> \/ (~ binary /\ CookieRefused(m, c, values)) THEN Refused("invalid")
      ELSE IF ~ fieldValuesFit(values, binary, max) THEN Refused("limit")
      ELSE IF m.major # 1 /\ (\E i \in DOMAIN values : values[i].fold) THEN Refused("invalid")
      ELSE IF binary THEN Resolved(Joined([i \in 1 .. Len(values) |-> base64EncodedLength(NormalBytes(values[i])) + 2]))
      ELSE IF \E i \in DOMAIN values : ~ values[i].ascii THEN Refused("invalid")
      ELSE IF c.key = 0 /\ "sf" \notin c.flags THEN Resolved(Joined([i \in 1 .. Len(values) |-> NormalBytes(values[i])]))
      ELSE IF ~ m.structured THEN Refused("invalid")
      ELSE IF c.key = 0 THEN Resolved(StrictBytes(values))
      ELSE IF c.key \in DOMAIN AllMembers(values) THEN Resolved(AllMembers(values)[c.key].value)
      ELSE Refused("invalid")

resolveComponent(m, c, max) ==
  IF ~ ParameterSetValid(c) \/ c.name = "@signature-params" THEN Refused("shape")
  ELSE IF IsDerived(c.name) THEN ResolveDerived(m, c, max) ELSE ResolveField(m, c, max)

(* ------------------------------ the call --------------------------------- *)
EffectiveLimit == IF call.limit = 0 THEN DefaultLimit ELSE call.limit
Component == call.components[index + 1]

Init ==
  /\ call \in Calls
  /\ index = 0 /\ written = 0
  /\ remaining = EffectiveLimit
  /\ result = IF EffectiveLimit < 0 THEN "limit" ELSE "running"

Refuse(why) == result' = why /\ UNCHANGED <<call, index, remaining, written>>

\* The identifier, ": " and the newline
fixedBytes(c) == saturatingSizeAdd(structuredItemUpperBound(c), 3)

\* The body of the loop, up to the resolver: the identifier must fit and be new
IdentifierFits(c) == structuredItemUpperBound(c) <= remaining /\ Consumable(remaining, fixedBytes(c))

RefuseIdentifier ==
  /\ result = "running" /\ index < Len(call.components)
  /\ IF \E i \in 1 .. index : call.components[i] = Component /\ structuredItemUpperBound(Component) <= remaining
     THEN Refuse("invalid")
     ELSE ~ IdentifierFits(Component) /\ Refuse("limit")

Fresh == \A i \in 1 .. index : call.components[i] # Component

RefuseComponent ==
  /\ result = "running" /\ index < Len(call.components)
  /\ Fresh /\ IdentifierFits(Component)
  /\ LET value == resolveComponent(call.message, Component, remaining - fixedBytes(Component))
     IN  value.why # "" /\ Refuse(value.why)

Cover ==
  /\ result = "running" /\ index < Len(call.components)
  /\ Fresh /\ IdentifierFits(Component)
  /\ LET value == resolveComponent(call.message, Component, remaining - fixedBytes(Component))
     IN  /\ value.why = ""
         /\ remaining' = remaining - fixedBytes(Component) - value.size
         /\ written' = written + fixedBytes(Component) + value.size
  /\ index' = index + 1
  /\ UNCHANGED <<call, result>>

PrefixBytes == 21    \* "@signature-params":

Finish ==
  /\ result = "running" /\ index = Len(call.components)
  /\ IF ~ Consumable(remaining, PrefixBytes) \/ ~ signatureParametersFit(call, remaining - PrefixBytes)
     THEN Refuse("limit")
     ELSE IF ~ call.paramsValid THEN Refuse("invalid")
     ELSE /\ remaining' = remaining - PrefixBytes
          /\ written' = written + PrefixBytes + (ListBytes(call.components) + call.params)
          /\ result' = "base"
          /\ UNCHANGED <<call, index>>

Next == RefuseIdentifier \/ RefuseComponent \/ Cover \/ Finish
Spec == Init /\ [][Next]_vars

(* ----------------------------- properties -------------------------------- *)
\* The accounting stays within the integers it is made of, and a call ends in one of five ways.
TypeOK ==
  /\ call \in Calls /\ index \in 0 .. Len(call.components)
  /\ remaining \in -MaxInt - 1 .. MaxInt /\ written \in Nat
  /\ result \in {"running", "base", "limit", "invalid", "shape"}

\* A base that CreateSignatureBase returns is never larger than MaxSignatureBaseBytes, although some
\* resolvers return values larger than the budget they were given: what they take in excess leaves
\* the budget negative and the final consumeSize refuses the call.
BaseWithinLimit == result = "base" => written <= EffectiveLimit

\* What the excess can cost before the call is refused: the builder never holds more than three
\* times the limit (percent encoding of a path), or the limit and a status code.
BoundedOvershoot == EffectiveLimit >= 0 => written <= Max({3 * EffectiveLimit, EffectiveLimit + 3})

\* validProfileComponent (signer.go) and the resolvers (message.go) agree on which components are
\* well shaped: a base covers only components a profile can hold, and no component a profile can
\* hold is refused for its shape at signing or verification time.
ProfileShapesResolve ==
  /\ result = "base" => \A i \in DOMAIN call.components : validProfileComponent(call.components[i])
  /\ result = "shape" => ~ validProfileComponent(Component)
==============================================================================
