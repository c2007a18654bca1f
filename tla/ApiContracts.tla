---------------------------- MODULE ApiContracts ----------------------------
(***************************************************************************)
(* A request on its way to the contract check: a client writes typed       *)
(* values the way an operation declares them (or another way), a surface   *)
(* gets to see the request -- the runner that sent it, a browser's archive *)
(* (packages/api/src/har-capture.ts) or an archive synthesized from a run  *)
(* (packages/api/src/har-synth.ts) -- and validateOpenApiRequest judges    *)
(* what that surface holds.                                                *)
(***************************************************************************)
EXTENDS RequestContract

CONSTANTS
  Params,     \* the parameters an operation may declare
  Bodies,     \* the request bodies an operation may declare
  Sent,       \* the lists of texts a client writes as an array's elements
  Lists,      \* the lists it may have meant
  FormFields  \* the occurrences of a form's declared fields that it sends

VARIABLES
  op,        \* the declared operation
  message,   \* what the client sent
  surface,   \* who looks at it: the runner, a capture, a synthesized capture
  facts,     \* what that surface holds of it
  verdict    \* what the check comes to

rvars == <<op, message, surface, facts, verdict>>

Surfaces == {"direct", "capture", "synthesized"}

Authoritative == surface = "direct"

-----------------------------------------------------------------------------
(* What a client writes, from the OpenAPI serialization rules.             *)

EmptyQuery == [key \in Keys |-> <<>>]

Exploded(p) == p.explode = "true" \/ (p.explode = "none" /\ Style(p) = "form")

\* The text of an array that is written as one.
Written(p, elems) ==
  IF p.in # "path" THEN Join(elems, Delimiter(p))
  ELSE CASE Style(p) = "simple" -> Join(elems, ",")
         [] Style(p) = "label"  -> <<".">> \o Join(elems, IF Exploded(p) THEN "." ELSE ",")
         [] OTHER -> IF Exploded(p)
                     THEN <<";">> \o Join([i \in DOMAIN elems |-> <<"p=">> \o elems[i]], ";")
                     ELSE <<";", "p=">> \o Join(elems, ",")

\* The occurrences of an array parameter; explode has no meaning for the
\* delimited styles.
WriteArray(p, elems) ==
  IF p.in = "query" /\ Style(p) = "form" /\ Exploded(p) THEN elems ELSE << Written(p, elems) >>

\* The query of an object with the properties given.
WriteObject(p, k, z) ==
  IF Style(p) = "deepObject" THEN [EmptyQuery EXCEPT !["p[k]"] = k, !["p[z]"] = z]
  ELSE IF Exploded(p) THEN [EmptyQuery EXCEPT !["k"] = k]
  ELSE LET pairs == (IF k = <<>> THEN <<>> ELSE << <<"k">>, k[1] >>)
                    \o (IF z = <<>> THEN <<>> ELSE << <<"a">>, z[1] >>)
       IN  IF pairs = <<>> THEN EmptyQuery ELSE [EmptyQuery EXCEPT !["p"] = << Join(pairs, ",") >>]

Texts == {l[1] : l \in {m \in Sent : Len(m) = 1}}
Given(text) == {<<>>} \cup {<<t>> : t \in text}

\* Everything a client may put at a parameter's place, whatever is declared.
Occurrences(in) ==
  {<<>>} \cup {WriteArray(p, e) : p \in {q \in Params : q.in = in /\ q.schema.kind # "object"}, e \in Sent}

Queries ==
  {[EmptyQuery EXCEPT !["p"] = o] : o \in Occurrences("query")}
  \cup {WriteObject(p, k, z) : p \in {q \in Params : q.schema.kind = "object"},
                               k \in Given(Texts), z \in Given(Texts)}

NoMessage == [query |-> EmptyQuery, header |-> <<>>, path |-> <<>>, composite |-> FALSE,
              ct |-> None, kind |-> "none", good |-> TRUE, fields |-> None,
              files |-> {}, charset |-> FALSE]

PathMessage(o, c) == [NoMessage EXCEPT !.path = o, !.composite = c]

ParamMessages(p) ==
  CASE p = None \/ p.in = "query" -> {[NoMessage EXCEPT !.query = q] : q \in Queries}
    [] p.in = "header" -> {[NoMessage EXCEPT !.header = o] : o \in Occurrences("header")}
    [] OTHER -> {PathMessage(o, c) : o \in Occurrences("path") \ {<<>>}, c \in BOOLEAN}

\* What else a form may have: a field y that no schema declares, a file, a charset.
Extras == {"none", "undeclared", "file", "charset"}

FormMessage(ct, f, extra) ==
  [NoMessage EXCEPT !.ct = ct, !.kind = ct,
     !.fields  = [x \in Fields \cup {"y"} |-> IF x \in Fields THEN f[x]
                                               ELSE IF extra = "undeclared" THEN << <<"a">> >> ELSE <<>>],
     !.files   = IF extra = "file" THEN {"s"} ELSE {},
     !.charset = extra = "charset"]

JsonMessage(g) == [NoMessage EXCEPT !.ct = "json", !.kind = "json", !.good = g]

BodyMessages ==
  {NoMessage}
  \cup {JsonMessage(g) : g \in BOOLEAN}
  \cup {[NoMessage EXCEPT !.ct = "text", !.kind = "text"]}
  \cup {FormMessage(ct, f, x) : ct \in {"form", "multipart"}, f \in FormFields, x \in Extras}

-----------------------------------------------------------------------------
(* What a surface holds of it.                                             *)

\* buildRequestFacts: a body that is not JSON is present, but not as a value.
Prepared(m) ==
  [query |-> m.query, header |-> m.header, path |-> m.path, composite |-> m.composite,
   ct |-> m.ct, charset |-> m.charset, form |-> m.fields, files |-> m.files,
   json |-> CASE m.kind = "none" -> None
              [] m.kind = "json" -> IF m.good THEN "good" ELSE "bad"
              [] OTHER -> "raw"]

\* The fields of a form: those that the archive lists, or those of a text that
\* is urlencoded; the parts of a multipart text are never told apart.
CapturedForm(m, attached, listed) ==
  IF listed \/ (m.kind = "form" /\ attached) THEN m.fields ELSE None

\* harEntriesToFacts: a JSON body whose bytes the archive has, the fields of a
\* form, and nothing of any other body.
Captured(m, attached, listed) ==
  [Prepared(m) EXCEPT
     !.json = IF m.kind = "json" /\ attached THEN @ ELSE None,
     !.form = CapturedForm(m, attached, listed),
     !.files = IF listed THEN @ ELSE {}]

\* synthesizeRedactedHarZip: no headers, and no body that was not a string.
Synthesized(m) ==
  [Captured(m, m.kind # "multipart", FALSE) EXCEPT !.ct = None, !.charset = FALSE, !.header = <<>>]

-----------------------------------------------------------------------------
Operation(p, b) == [param |-> p, body |-> b]

NoParam == [in |-> "header", style |-> "none", explode |-> "none", required |-> FALSE,
            schema |-> [kind |-> "scalar", card |-> FALSE, extra |-> "any",
                        item |-> [types |-> <<"string">>, frac |-> FALSE, narrow |-> FALSE]]]

NoBody == [declared |-> "no", required |-> FALSE, content |-> {}, bare |-> FALSE,
           encoding |-> FALSE, fields |-> None]

Unsent == message = None /\ surface = None /\ facts = None /\ verdict = None

MessageInit ==
  /\ op \in {Operation(p, NoBody) : p \in Params \cup {None}} \cup {Operation(NoParam, b) : b \in Bodies}
  /\ Unsent

Send ==
  /\ message = None
  /\ message' \in IF op.param = NoParam THEN BodyMessages ELSE ParamMessages(op.param)
  /\ UNCHANGED <<op, surface, facts, verdict>>

Run ==
  /\ message # None /\ surface = None
  /\ surface' = "direct"
  /\ facts' = Prepared(message)
  /\ UNCHANGED <<op, message, verdict>>

Capture ==
  /\ message # None /\ surface = None
  /\ surface' = "capture"
  /\ \E attached, listed \in BOOLEAN : facts' = Captured(message, attached, listed)
  /\ UNCHANGED <<op, message, verdict>>

Synthesize ==
  /\ message # None /\ surface = None
  /\ surface' = "synthesized"
  /\ facts' = Synthesized(message)
  /\ UNCHANGED <<op, message, verdict>>

Judge ==
  /\ facts # None /\ verdict = None
  /\ verdict' = ValidateRequest(op, facts, Authoritative)
  /\ UNCHANGED <<op, message, surface, facts>>

MessageNext == Send \/ Run \/ Capture \/ Synthesize \/ Judge

-----------------------------------------------------------------------------
(* Which messages conform, by the encoders above: a message conforms to a  *)
(* declaration when some values of the declared schema are written so.     *)

\* The texts it may have meant.
Meant == Texts \cup UNION {{l[i] : i \in DOMAIN l} : l \in Lists}

IsItem(item) == item.types \in Seq({"string", "integer", "number", "boolean", "null"})

\* Texts are sequences of lexemes, and what a client may have meant includes
\* whatever can be read back from what it wrote.
ASSUME MessageAssumption ==
  /\ None \notin {"good", "bad", "raw", "json", "form", "multipart", "text",
                  "application/*", "multipart/*", "text/*", "*/*"} \cup Surfaces
  /\ None \notin Seq(Seq(Lexemes))
  /\ Sent \cup Lists \subseteq Seq(Seq(Lexemes)) /\ FormFields \subseteq [Fields -> Seq(Seq(Lexemes))]
  /\ \A p \in Params : /\ IsItem(p.schema.item) /\ p.explode \in {"none", "true", "false"}
                       /\ p.schema.kind \in {"scalar", "array", "object", "typeless"}
  /\ \A b \in Bodies : b.content \cap {"form", "multipart"} # {} =>
       b.fields # None /\ IsItem(b.fields.s) /\ IsItem(b.fields.t)
  /\ \A m \in BodyMessages : m.kind \in {"form", "multipart"} => m.fields # None
  /\ LET occurrences(in) == IF in = "query" THEN {q["p"] : q \in Queries} ELSE Occurrences(in)
     IN  /\ occurrences("query") \subseteq Lists
         /\ \A in \in {"query", "header", "path"} :
              LET ones == {here \in occurrences(in) : Len(here) = 1}
              IN  \A p \in {q \in Params : q.in = in}, here \in ones : Pieces(p, here[1]) \in Lists \cup {None}

\* The lists an array schema admits.
Admits(schema, elems) ==
  /\ \A i \in DOMAIN elems : Fits(schema.item, elems[i])
  /\ schema.card => Len(elems) >= 2

\* The elements of an array may be repeated keys whatever explode says: the
\* validator takes either.  In a header's list the elements may have blanks
\* around them, as every list of HTTP.
IsWrittenArray(p, here) ==
  \E e \in Lists :
    /\ WriteArray(p, e) = here \/ (p.in = "query" /\ e = here)
    /\ Admits(p.schema, Values(p, e))

IsWrittenObject(p, query) ==
  \E k \in Given({t \in Meant : Fits(p.schema.item, t)}),
     z \in IF p.schema.extra = "none" THEN {<<>>} ELSE Given(Texts) : WriteObject(p, k, z) = query

ParamConforms(p, m) ==
  LET here == CASE p.in = "query" -> m.query["p"] [] p.in = "header" -> m.header [] OTHER -> m.path
  IN  /\ p.in # "path" /\ p.required =>
           IF p.in = "query" THEN m.query # EmptyQuery ELSE m.header # <<>>
      /\ CASE p.schema.kind = "object" /\ p.in = "query" -> IsWrittenObject(p, m.query)
           [] OTHER ->
                /\ \A key \in Keys \ {"p"} : m.query[key] = <<>>
                /\ here # <<>> =>
                     CASE p.schema.kind = "scalar" -> Len(here) = 1 /\ Fits(p.schema.item, here[1])
                       [] p.schema.kind = "array" -> IsWrittenArray(p, here)
                       [] OTHER -> TRUE

BodyConforms(b, m) ==
  CASE b.declared = "unresolved" -> TRUE
    [] b.declared = "no" -> m.kind = "none"
    [] OTHER -> IF m.kind = "none" THEN ~ b.required ELSE
         /\ {m.ct, Family(m.ct), "*/*"} \cap b.content # {}
         /\ m.kind = "json" /\ "json" \in b.content /\ ~ b.bare => m.good
         /\ m.kind \in {"form", "multipart"} /\ m.ct \in b.content /\ ~ b.bare =>
              LET f == b.fields
              IN  /\ f.required => m.fields["s"] # <<>> \/ "s" \in m.files
                  /\ \A i \in DOMAIN m.fields["s"] : Fits(f.s, m.fields["s"][i])
                  /\ Len(m.fields["s"]) <= 1
                  /\ \A i \in DOMAIN m.fields["t"] : Fits(f.t, m.fields["t"][i])
                  /\ f.card /\ m.fields["t"] # <<>> => Len(m.fields["t"]) >= 2
                  /\ f.extra = "none" => m.fields["y"] = <<>>

\* What cannot be known of a parameter that could not be resolved.
Conforms ==
  /\ op.param # None => ParamConforms(op.param, message)
  /\ BodyConforms(op.body, message)

-----------------------------------------------------------------------------
(* Properties.                                                             *)

\* A union of two scalar types that also restricts the values of one is left
\* out: "1" may have been written for either.
Plainly(item) == ~ (item.narrow /\ Len(item.types) > 1)

Unambiguous ==
  /\ op.param # None => Plainly(op.param.schema.item)
  /\ op.body.fields # None => Plainly(op.body.fields.s) /\ Plainly(op.body.fields.t)

\* Of an object written as a list, the last value of a name stands for all of
\* them (request-contract.ts:589), so a list that says a name twice is left out.
NamedOnce ==
  LET p == op.param
  IN  p # None /\ p.in = "query" /\ p.schema.kind = "object" /\ Len(message.query["p"]) = 1 =>
        LET segments == Split(message.query["p"][1], ",")
        IN  \A i, j \in {n \in DOMAIN segments : n % 2 = 1} : segments[i] = segments[j] => i = j

\* An archive synthesized from a run has no headers.  Without a content type the
\* body is held against the JSON schema, if one is declared (request-contract.ts
\* :674-683), and a form has no value that this schema accepts.
FormTakenForJson ==
  /\ surface = "synthesized" /\ message.kind = "form"
  /\ "json" \in op.body.content /\ ~ op.body.bare

\* On every surface a request that conforms is never found fault with: where its
\* serialization cannot soundly be reversed, or the surface did not get all of
\* it, the check is unverified and not a finding (request-contract.ts:388-401,
\* :519-524).  The code makes one exception: a form in a synthesized archive,
\* where the operation also takes JSON.
ConformingIsNotFaulted ==
  verdict # None /\ Conforms /\ Unambiguous /\ ~ FormTakenForJson => verdict.findings = {}

\* On a direct surface a request that does not conform is found fault with, or
\* the check is unverified: silence means that everything was checked.
SilenceIsVerified ==
  verdict # None /\ surface = "direct" /\ ~ Conforms /\ NamedOnce =>
    verdict.findings # {} \/ verdict.unverified
=============================================================================
