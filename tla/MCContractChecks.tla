--------------------------- MODULE MCContractChecks ---------------------------
EXTENDS ContractChecks

One == <<"1">>
Some == {One, <<"a">>, <<"1", ".", "1">>}
Empty == <<>>

AllSent ==
  {<<t>> : t \in Some \cup {<<"1", "1">>, <<"true">>, <<"a", ",", "a">>, Empty}}
  \cup {<<t, u>> : t \in Some, u \in Some} \cup {<<Empty, One>>}
  \cup {<< <<"k">>, <<"1", "1">>, <<"k">>, One>>}
  \cup {<<One, <<" ", t>>>> : t \in {"1", "a"}}

Scalar(types, frac, narrow) == [types |-> types, frac |-> frac, narrow |-> narrow]

Scalars ==
  {Scalar(t, FALSE, FALSE) : t \in {<<"string">>, <<"integer">>, <<"number">>, <<"boolean">>, <<"integer", "null">>}}
  \cup {Scalar(<<"string">>, FALSE, TRUE), Scalar(<<"integer">>, FALSE, TRUE), Scalar(<<"number">>, TRUE, TRUE)}
  \cup {Scalar(<<"integer", "string">>, FALSE, n) : n \in BOOLEAN}

Schema(kind, item, card, extra) == [kind |-> kind, item |-> item, card |-> card, extra |-> extra]

Plain == [types |-> <<"string">>, frac |-> FALSE, narrow |-> FALSE]

Places1 ==
  {[in |-> "query", style |-> s] : s \in {"none", "spaceDelimited", "pipeDelimited"}}
  \cup {[in |-> "path", style |-> s] : s \in {"none", "label", "matrix"}}
  \cup {[in |-> "header", style |-> "none"], [in |-> "cookie", style |-> "none"]}

Param(place, explode, required, schema) ==
  [in |-> place.in, style |-> place.style, explode |-> explode, required |-> required, schema |-> schema]

Explodes == {"none", "true", "false"}

AllParams ==
  {Param(pl, "none", r, Schema("scalar", i, FALSE, "any")) : pl \in Places1, r \in BOOLEAN, i \in Scalars}
  \cup {Param(pl, e, FALSE, Schema("array", i, FALSE, "any")) :
          pl \in {q \in Places1 : q.in # "cookie"}, e \in Explodes,
          i \in {j \in Scalars : j.types # <<"integer", "string">> /\ (j.narrow => j.types # <<"boolean">>)}}
  \cup {Param(pl, e, FALSE, Schema("array", Plain, TRUE, "any")) :
          pl \in {q \in Places1 : q.in # "cookie"}, e \in Explodes}
  \cup {Param([in |-> "query", style |-> s], e, r, Schema("object", i, FALSE, x)) :
          s \in {"none", "deepObject"}, e \in {"none", "false"}, r \in BOOLEAN, x \in {"any", "none", "typed"},
          i \in {j \in Scalars : ~ j.narrow \/ j.types # <<"string">>}}
  \cup {Param([in |-> "query", style |-> "none"], "none", TRUE, Schema("typeless", Plain, FALSE, "any"))}

\* What was meant may also be whatever can be read back from what was sent.
AllLists ==
  LET queries == {q["p"] : q \in Queries}
      occurrences(in) == IF in = "query" THEN queries ELSE Occurrences(in)
      read(in) == {Pieces(p, here[1]) : p \in {q \in AllParams : q.in = in},
                                            here \in {o \in occurrences(in) : Len(o) = 1}}
  IN  AllSent \cup queries \cup (UNION {read(in) : in \in {"query", "header", "path"}} \ {None})

ABody(declared, required, content, bare, encoding, f) ==
  [declared |-> declared, required |-> required, content |-> content, bare |-> bare,
   encoding |-> encoding, fields |-> f]

Forms ==
  {[s |-> s, t |-> t, card |-> c, required |-> r, extra |-> x] :
     s \in {j \in Scalars : j.types \in {<<"integer">>, <<"string">>, <<"integer", "null">>} /\ ~ j.frac},
     t \in {j \in Scalars : j.types \in {<<"number">>, <<"string">>} /\ ~ j.narrow},
     c \in BOOLEAN, r \in BOOLEAN, x \in {"any", "none"}}

AForm == CHOOSE f \in Forms : f.s.types = <<"integer">> /\ f.card /\ f.required /\ f.extra = "none"

AllBodies ==
  {ABody("unresolved", FALSE, {}, FALSE, FALSE, None), ABody("no", FALSE, {}, FALSE, FALSE, None)}
  \cup {ABody("yes", r, c, b, FALSE, AForm) :
          r \in BOOLEAN, b \in BOOLEAN, c \in ((SUBSET {"json", "form", "multipart", "*/*"}) \ {{}}) \cup {{"application/*"}, {"form", "application/*"}}}
  \cup {ABody("yes", TRUE, {"form"}, FALSE, TRUE, AForm)}
  \cup {ABody("yes", TRUE, {"form"}, FALSE, FALSE, f) : f \in Forms}

\* Short lists of short texts will do for the fields of a form.
AllFormFields ==
  LET short == {<<>>} \cup {e \in AllSent : \A i \in DOMAIN e : Len(e[i]) <= 1}
  IN  {f \in [Fields -> short] : Len(f["s"]) + Len(f["t"]) <= 3}

\* TLC evaluates each of the sets once under its own name.
MCSent == AllSent
MCLists == AllLists
MCFormFields == AllFormFields
MCParams == AllParams
MCBodies == AllBodies

-----------------------------------------------------------------------------

ADeclaration(declared, required, content, bare) ==
  [declared |-> declared, required |-> required, content |-> content, bare |-> bare,
   encoding |-> FALSE, fields |-> None]

Decls == {ADeclaration("no", FALSE, {}, FALSE), ADeclaration("unresolved", FALSE, {}, FALSE)}
         \cup {ADeclaration("yes", r, c, b) : r, b \in BOOLEAN, c \in {{"json"}, {"json", "*/*"}, {"text"}, {"application/*"}}}

Responses ==
  {[k \in {"200"} |-> "schema"], [k \in {"2XX", "default"} |-> "schema"],
   [k \in {"200", "2XX", "default"} |-> IF k = "2XX" THEN "bare" ELSE "schema"]}

Op(r, d) == [responses |-> r, body |-> d]

ADecl == ADeclaration("yes", TRUE, {"json"}, FALSE)
AResponse == [k \in {"2XX", "default"} |-> "schema"]

ARest == [proto |-> "rest", origin |-> "ours", json |-> TRUE, endpoint |-> FALSE,
          op |-> Op(AResponse, ADecl), status |-> "200", fits |-> {"2XX"},
          body |-> "good", search |-> FALSE]

\* Every response to one request, every request with one response.
Rest ==
  {[ARest EXCEPT !.op = o, !.status = s, !.fits = f, !.body = b] :
     o \in {Op(r, ADecl) : r \in Responses} \cup {None}, s \in {"200", "201", "404"},
     f \in SUBSET {"200", "2XX", "default"}, b \in {"good", "bad"}}
  \cup {[ARest EXCEPT !.op = Op(AResponse, d), !.body = b, !.fits = f] :
          d \in Decls, b \in {"none", "good", "bad", "text"}, f \in {{}, {"2XX"}}}

AGraphql == [proto |-> "graphql", origin |-> "ours", json |-> TRUE, endpoint |-> TRUE, carried |-> "body",
             op |-> None, query |-> "fine", decl |-> None, variables |-> "absent", literal |-> "none",
             errors |-> FALSE, body |-> "good"]

Declarations == {None} \cup {[custom |-> c, required |-> r] : c, r \in BOOLEAN}

Graphql ==
  {[AGraphql EXCEPT !.query = q, !.decl = d, !.variables = v, !.literal = l, !.errors = e] :
     q \in {"fine", "several", "drift", "syntax"}, d \in Declarations,
     v \in {"absent", "array", "without", "null", "bad", "good"},
     l \in {"none", "good", "bad"}, e \in BOOLEAN}
  \cup {[AGraphql EXCEPT !.endpoint = n, !.carried = c, !.origin = o, !.json = j] :
          n, j \in BOOLEAN, c \in {"body", "url"}, o \in {"ours", "other"}}

Companions ==
  {ARest, [ARest EXCEPT !.search = TRUE], [ARest EXCEPT !.endpoint = TRUE], [ARest EXCEPT !.body = "bad"],
   [ARest EXCEPT !.json = FALSE], [ARest EXCEPT !.origin = "other"], [ARest EXCEPT !.fits = {}],
   AGraphql, [AGraphql EXCEPT !.carried = "url"], [AGraphql EXCEPT !.errors = TRUE],
   [AGraphql EXCEPT !.endpoint = FALSE]}

AllTraffics ==
  {<<x>> : x \in Rest \cup Graphql \cup Companions}
  \cup {<<x, y>> : x \in Companions, y \in Companions}
  \cup {<<x, y>> : x \in {z \in Rest : z.fits \in {{}, {"2XX"}}}, y \in {[ARest EXCEPT !.op = None], AGraphql}}

MCTraffics == AllTraffics
MCContracts == {c \in [openapi : BOOLEAN, graphql : BOOLEAN] : c.openapi \/ c.graphql}
=============================================================================
