-------------------------- MODULE RequestContract --------------------------
(***************************************************************************)
(* The request half of a contract check: validateOpenApiRequest            *)
(* (packages/api/src/request-contract.ts) of an operation that declares    *)
(* one parameter "p" and one request body.                                 *)
(*                                                                         *)
(* A check comes to a set of findings and to whether something could not   *)
(* be verified.  The caller says whether what it holds is complete: the    *)
(* direct surfaces do, a captured exchange does not.                       *)
(***************************************************************************)
EXTENDS WireFormats

CONSTANT None

Outcome(findings, unverified) == [findings |-> findings, unverified |-> unverified]
Fine       == Outcome({}, FALSE)
Unverified == Outcome({}, TRUE)
Found(kind) == Outcome({kind}, FALSE)

Both(a, b) == Outcome(a.findings \cup b.findings, a.unverified \/ b.unverified)

Warnings == {"undocumented-body", "unsupported-media-type", "undocumented-param",
             "graphql-undocumented-variable"}

\* No finding that is an error.
Valid(outcome) == outcome.findings \subseteq Warnings

-----------------------------------------------------------------------------
(* Parameters.                                                             *)

\* The style of a parameter that declares none.
Style(p) == IF p.style # "none" THEN p.style
            ELSE IF p.in = "query" THEN "form" ELSE "simple"

\* queryArrayDelimiter
Delimiter(p) ==
  CASE Style(p) = "spaceDelimited" -> " "
    [] Style(p) = "pipeDelimited"  -> "|"
    [] OTHER -> ","

\* arraySerializationSupported
ArrayStyles(in) ==
  CASE in = "query"  -> {"form", "spaceDelimited", "pipeDelimited"}
    [] in = "header" -> {"simple"}
    [] in = "path"   -> {"simple", "label", "matrix"}
    [] OTHER -> {}

\* objectSerializationSupported
ObjectSupported(p) ==
  /\ p.in = "query"
  /\ Style(p) = "deepObject" \/ (Style(p) = "form" /\ p.explode = "false")

StyleSupported(p) ==
  CASE p.schema.kind = "array"  -> Style(p) \in ArrayStyles(p.in)
    [] p.schema.kind = "object" -> ObjectSupported(p)
    [] OTHER -> IF p.in = "query" THEN Style(p) = "form" ELSE p.in \in {"header", "path"} /\ Style(p) = "simple"

SplitOnDot(p) == p.in = "path" /\ Style(p) = "label" /\ p.explode = "true"

\* The occurrences of the parameter, with the state lookupParamValue gives them.
Lookup(p, facts) ==
  LET values == CASE p.in = "query"  -> facts.query["p"]
                  [] p.in = "header" -> facts.header
                  [] OTHER           -> facts.path
  IN  [state  |-> IF p.in = "path" /\ facts.composite THEN "multi"
                  ELSE IF values = <<>> THEN "absent"
                  ELSE IF Len(values) = 1 THEN "present" ELSE "array-values",
       values |-> values]

\* What a serialized array falls apart into, or None.
Pieces(p, text) ==
  LET rest == Tail(text)
      named(part) == StartsWith(part, "p=")
  IN  IF p.in = "query" THEN Split(text, Delimiter(p))
      ELSE IF p.in = "header" \/ Style(p) = "simple" THEN Split(text, ",")
      ELSE IF Style(p) = "label"
      THEN IF ~ StartsWith(text, ".") THEN None
           ELSE Split(rest, IF p.explode = "true" THEN "." ELSE ",")
      ELSE IF ~ StartsWith(text, ";") THEN None
      ELSE IF p.explode = "true"
      THEN LET parts == Split(rest, ";")
           IN  IF \A i \in DOMAIN parts : named(parts[i])
               THEN [i \in DOMAIN parts |-> Tail(parts[i])] ELSE None
      ELSE IF named(rest) THEN Split(Tail(rest), ",") ELSE None

\* The elements that the pieces stand for: the blanks around an element of a
\* header are no part of it.
Values(p, pieces) ==
  IF p.in = "header" THEN [i \in DOMAIN pieces |-> Trim(pieces[i])] ELSE pieces

BugSplitArray(p, text) == Pieces(p, text)

\* splitArrayValue: the elements, or None.
SplitArray(p, text) ==
  IF Pieces(p, text) = None THEN None ELSE Values(p, Pieces(p, text))

Elements(schema, texts) ==
  IF /\ \A i \in DOMAIN texts : Checks(schema.item, texts[i])
     /\ schema.card => Len(texts) >= 2
  THEN Fine ELSE Found("param-schema")

SingleExploded(p) == p.in = "query" /\ Style(p) = "form" /\ p.explode # "false"

\* validateArrayParam: reverse the serialization only where it can be reversed.
ValidateArray(p, lk) ==
  LET value == lk.values[1]
      parts == SplitArray(p, value)
  IN  IF p.schema.item.frac \/ lk.state = "multi" THEN Unverified
      ELSE IF lk.state = "array-values" THEN Elements(p.schema, lk.values)
      ELSE IF SingleExploded(p)
      THEN IF Places(value, ",") # {} \/ p.schema.card THEN Unverified
           ELSE Elements(p.schema, lk.values)
      ELSE IF ~ Splittable(p.schema.item.types, SplitOnDot(p)) THEN Unverified
      ELSE IF parts = None THEN Unverified
      ELSE IF \E i \in DOMAIN parts : parts[i] = <<>> THEN Unverified
      ELSE Elements(p.schema, parts)

\* The keys of a deepObject's properties: k is declared, z is not.
Bracketed == {"p[k]", "p[z]"}

\* The pairs an object parameter was reconstructed from; None when it cannot be.
Collected(p, facts) ==
  LET segments == Split(facts.query["p"][1], ",")
      Given(key, name) == [i \in DOMAIN facts.query[key] |-> <<name, facts.query[key][i]>>]
  IN  IF Style(p) = "deepObject"
      THEN IF \E key \in Bracketed : Len(facts.query[key]) > 1 THEN None
           ELSE Given("p[k]", <<"k">>) \o Given("p[z]", <<"z">>)
      ELSE IF facts.query["p"] = <<>> THEN <<>>
      ELSE IF \/ Len(facts.query["p"]) > 1 \/ Len(segments) % 2 # 0
              \/ \E i \in DOMAIN segments : segments[i] = <<>> THEN None
      ELSE [i \in 1 .. Len(segments) \div 2 |-> <<segments[2 * i - 1], segments[2 * i]>>]

\* A declared property is coerced wherever it stands, and the schema sees the
\* last value of it; what is undeclared is left to additionalProperties.
PairHolds(p, pairs, i) ==
  LET type == CoerceScalar(pairs[i][2], p.schema.item.types)
      last == \A j \in DOMAIN pairs : j > i => pairs[j][1] # <<"k">>
  IN  IF pairs[i][1] = <<"k">>
      THEN type # NotCoerced /\ (last => Accepts(p.schema.item, type, pairs[i][2]))
      ELSE p.schema.extra # "none"

\* Whether the declared properties and the undeclared ones can be told apart
\* and read back at all.
Reconstructible(p) ==
  /\ ~ p.schema.item.frac /\ p.schema.extra # "typed"
  /\ Style(p) # "deepObject" =>
       /\ p.schema.extra = "none"
       /\ \A i \in DOMAIN p.schema.item.types :
            p.schema.item.types[i] \in {"integer", "boolean", "null"}

\* validateObjectParam
ValidateObject(p, facts, authoritative) ==
  LET pairs == Collected(p, facts)
  IN  IF ~ Reconstructible(p) THEN Unverified
      ELSE IF pairs = None THEN Unverified
      ELSE IF pairs = <<>>
      THEN IF ~ p.required THEN Fine
           ELSE IF authoritative THEN Found("missing-required-param") ELSE Unverified
      ELSE IF \A i \in DOMAIN pairs : PairHolds(p, pairs, i) THEN Fine ELSE Found("param-schema")

ValidateScalar(p, lk) ==
  IF lk.state # "present" \/ p.schema.item.frac THEN Unverified
  ELSE IF Checks(p.schema.item, lk.values[1]) THEN Fine ELSE Found("param-schema")

\* A required parameter that is not there is a breach only for a caller that
\* knows it has them all.
ValidateAbsent(p, authoritative) ==
  IF ~ (p.in = "path" \/ p.required) THEN Fine
  ELSE IF authoritative THEN Found("missing-required-param") ELSE Unverified

ValidateParam(p, facts, authoritative) ==
  LET lk == Lookup(p, facts)
  IN  IF p.schema.kind = "typeless" \/ ~ StyleSupported(p) THEN Unverified
      ELSE IF p.schema.kind = "object" THEN ValidateObject(p, facts, authoritative)
      ELSE IF lk.state = "absent" THEN ValidateAbsent(p, authoritative)
      ELSE IF p.schema.kind = "array" THEN ValidateArray(p, lk)
      ELSE ValidateScalar(p, lk)

Keys == {"p", "p[k]", "p[z]", "k", "x"}

\* The pass over undocumented keys ignores what an object parameter, or one that
\* could not be resolved, may have put into the query.
Suppressed(p) ==
  \/ p = None
  \/ /\ p.in = "query" /\ p.schema.kind = "object"
     /\ Style(p) # "deepObject" /\ ~ (Style(p) = "form" /\ p.explode = "false")

Undocumented(p, facts) ==
  IF Suppressed(p) THEN {}
  ELSE {key \in Keys :
          /\ facts.query[key] # <<>>
          /\ ~ /\ p.in = "query"
               /\ IF p.schema.kind = "object" /\ Style(p) = "deepObject"
                  THEN key \in Bracketed ELSE key = "p"}

\* A parameter behind a reference that cannot be resolved is None.
ValidateParams(p, facts, authoritative) ==
  Both(IF p = None THEN Unverified ELSE ValidateParam(p, facts, authoritative),
       IF Undocumented(p, facts) = {} THEN Fine ELSE Found("undocumented-param"))

-----------------------------------------------------------------------------
(* Bodies.  A declared body has the media types of its content; a form has *)
(* a scalar field s and an array field t.                                  *)

\* The range of all the subtypes of a content type's type.
Family(ct) ==
  CASE ct \in {"json", "form"} -> "application/*"
    [] ct = "multipart" -> "multipart/*"
    [] OTHER -> "text/*"

\* selectContentSchema: the exact type, its range, the catch-all, or without a
\* content type a JSON one; None when nothing matches.
SelectContent(content, ct) ==
  IF ct = None THEN IF "json" \in content THEN "json" ELSE None
  ELSE IF ct \in content THEN ct
  ELSE IF Family(ct) \in content THEN Family(ct)
  ELSE IF "*/*" \in content THEN "*/*" ELSE None

Fields == {"s", "t"}

\* Where a form's fields cannot soundly be read back as the schema's values.
Unsound(decl, facts, authoritative) ==
  LET f == decl.fields
      given == facts.form
      empty(text, item) == text = <<>> /\ \A i \in DOMAIN item.types : item.types[i] \notin {"string", "null"}
  IN  \/ decl.encoding \/ facts.charset \/ f.extra = "typed"
      \/ f.s.frac \/ f.t.frac
      \/ facts.files \cap Fields # {}
      \/ ~ authoritative /\ f.required /\ given["s"] = <<>>
      \/ Len(given["s"]) > 1
      \/ given["s"] # <<>> /\ empty(given["s"][1], f.s)
      \/ Len(given["t"]) = 1 /\ f.card
      \/ \E i \in DOMAIN given["t"] : empty(given["t"][i], f.t)

BugFormHolds(f, given) ==
  /\ given["s"] # <<>> => Checks(f.s, given["s"][1])
  /\ \A i \in DOMAIN given["t"] : Checks(f.t, given["t"][i])

\* What is checked of the fields read back.
FormHolds(f, given) ==
  /\ IF given["s"] = <<>> THEN ~ f.required ELSE Checks(f.s, given["s"][1])
  /\ \A i \in DOMAIN given["t"] : Checks(f.t, given["t"][i])
  /\ f.card /\ given["t"] # <<>> => Len(given["t"]) >= 2
  /\ given["y"] # <<>> => f.extra # "none"

\* validateFormBody
ValidateForm(decl, facts, authoritative) ==
  IF Unsound(decl, facts, authoritative) THEN Unverified
  ELSE IF FormHolds(decl.fields, facts.form) THEN Fine ELSE Found("request-body-schema")

ValidatePresent(decl, facts, authoritative) ==
  LET media == SelectContent(decl.content, facts.ct)
  IN  IF media = None THEN Outcome(IF facts.ct = None THEN {} ELSE {"unsupported-media-type"}, TRUE)
      ELSE IF media \in {"form", "multipart"} /\ facts.form # None /\ ~ decl.bare
      THEN ValidateForm(decl, facts, authoritative)
      ELSE IF media # "json" \/ decl.bare THEN Unverified
      \* A body that is not JSON has no value to check; a schema refuses it.
      ELSE IF facts.json = "good" THEN Fine ELSE Found("request-body-schema")

HasBody(facts) == facts.json # None \/ facts.form # None

\* The body half of validateOpenApiRequest.
ValidateBody(decl, facts, authoritative) ==
  CASE decl.declared = "unresolved" -> Unverified
    [] decl.declared = "no" ->
         IF HasBody(facts) THEN Outcome({"undocumented-body"}, TRUE) ELSE Fine
    [] OTHER -> IF HasBody(facts) THEN ValidatePresent(decl, facts, authoritative)
                ELSE IF ~ decl.required THEN Fine
                ELSE IF authoritative THEN Found("missing-required-body") ELSE Unverified

\* validateOpenApiRequest
ValidateRequest(op, facts, authoritative) ==
  Both(ValidateBody(op.body, facts, authoritative),
       ValidateParams(op.param, facts, authoritative))
=============================================================================
