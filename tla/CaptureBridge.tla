--------------------------- MODULE CaptureBridge ---------------------------
(***************************************************************************)
(* From traffic to a contract verdict.  Exchanges between a client and a   *)
(* service are judged by the surfaces of the api package: archived by a    *)
(* browser or synthesized from a run and walked entry by entry             *)
(* (packages/api/src/har-capture.ts, har-produce.ts), or held directly by  *)
(* a run of the command line or of the server (packages/cli/src/api.ts,    *)
(* packages/mcp/src/api.ts).                                               *)
(*                                                                         *)
(* An exchange says what the client and the service really did; an entry   *)
(* is what the archive kept of it.                                         *)
(***************************************************************************)
EXTENDS RequestContract

CONSTANTS
  Traffics,   \* the sequences of exchanges
  Contracts   \* what a check is given: a description, a schema, or both

VARIABLES
  contract,
  traffic,
  sent,      \* how the run ended: "sent", "withheld", or cut in a redirect
  archive,   \* what was kept of the exchanges so far; None before
  origins,   \* the allowed origins; None when all are
  tally,     \* the walk over the archive
  told       \* what the surface says at the end

tvars == <<contract, traffic, sent, archive, origins, tally, told>>

Halves == {"response", "request", "graphql"}

\* A call of a REST service, or of a GraphQL endpoint, which is no operation of
\* the description.
IsExchange(x) ==
  \/ /\ x.proto = "rest"
     /\ x.body \in {"none", "good", "bad", "text"}
     /\ x.op # None => /\ None \notin DOMAIN x.op.responses
                       /\ x.op.body.declared \in {"yes", "no", "unresolved"}
  \/ /\ x = [proto |-> "graphql", origin |-> x.origin, json |-> x.json, endpoint |-> x.endpoint, carried |-> x.carried,
             op |-> None, query |-> x.query, decl |-> x.decl, variables |-> x.variables, literal |-> x.literal,
             errors |-> x.errors, body |-> x.body]
     /\ x.carried \in {"body", "url"}
     /\ x.query \in {"fine", "several", "drift", "root", "syntax", "noOperation"}
     /\ x.variables \in {"absent", "array", "without", "null", "bad", "good"}

ASSUME TrafficAssumption ==
  /\ None \notin {"good", "bad", "raw", "json", "text", "application/*", "text/*", "*/*"}
                 \cup [success : BOOLEAN, unverified : BOOLEAN, about : SUBSET (Halves \cup {"document"})]
  /\ \A t \in Traffics : /\ Len(t) \in Nat \ {0} /\ DOMAIN t = 1 .. Len(t)
                         /\ \A i \in DOMAIN t : IsExchange(t[i])

NoTally ==
  [at |-> 0, entries |-> 0, results |-> {}, unresolved |-> 0, noSignal |-> 0, exercised |-> {}]

-----------------------------------------------------------------------------
(* The response half of a contract check.                                  *)

BugFindResponse(op, status) ==
  LET keys == DOMAIN op.responses
  IN  IF status \in keys THEN status
      ELSE IF "default" \in keys THEN "default"
      ELSE IF status \in {"200", "201"} /\ "2XX" \in keys THEN "2XX" ELSE None

\* findResponse: the exact status, its range, the default.
FindResponse(op, status) ==
  LET keys == DOMAIN op.responses
  IN  IF status \in keys THEN status
      ELSE IF status \in {"200", "201"} /\ "2XX" \in keys THEN "2XX"
      ELSE IF "default" \in keys THEN "default" ELSE None

\* validateOpenApiResponse.  op is None for a path or a method that is not
\* documented; a response may declare no schema.
ValidateResponse(x) ==
  IF x.op = None THEN Found("missing-operation")
  ELSE LET key == FindResponse(x.op, x.status)
       IN  IF key = None THEN Found("undocumented-status")
           ELSE IF x.op.responses[key] = "schema" /\ key \notin x.fits
           THEN Found("response-schema") ELSE Fine

-----------------------------------------------------------------------------
(* validateGraphqlOperation.                                               *)

\* validateVariables: the operation declares one variable, or none.
ValidateVariables(decl, variables, authoritative, registered) ==
  IF variables = "array" THEN Unverified
  ELSE IF decl = None
  THEN IF variables = "without" THEN Fine ELSE Found("graphql-undocumented-variable")
  ELSE IF decl.custom /\ ~ registered THEN Unverified
  ELSE IF variables = "without" /\ decl.required
  THEN IF authoritative THEN Found("graphql-variable-missing") ELSE Unverified
  ELSE IF variables = "bad" \/ (variables = "null" /\ decl.required)
  THEN Found("graphql-variable-invalid") ELSE Fine

\* What the document itself comes to; operations without a name to choose one.
ValidateDocument(x) ==
  IF x.query \in {"drift", "root", "syntax", "noOperation"} THEN Found("graphql-validation") ELSE Fine

\* The values of the variables, when any came with the request.
VariablesHalf(x, variables, authoritative, registered) ==
  IF variables = "absent" \/ ValidateDocument(x) # Fine THEN Fine
  ELSE IF x.query = "several" THEN Unverified
  ELSE ValidateVariables(x.decl, variables, authoritative, registered)

LiteralHalf(x) ==
  IF x.literal # "none" /\ ValidateDocument(x) = Fine THEN Unverified ELSE Fine

ValidateGraphql(x, variables, authoritative, registered) ==
  Both(Both(ValidateDocument(x), IF x.errors THEN Found("graphql-errors") ELSE Fine),
       Both(LiteralHalf(x), VariablesHalf(x, variables, authoritative, registered)))

-----------------------------------------------------------------------------
(* What a request comes to as facts.                                       *)

Facts(body, ct) == [json |-> body, form |-> None, files |-> {}, charset |-> FALSE, ct |-> ct]

\* The content type that an exchange's request states in its headers.
ContentType(x) == CASE x.body = "none" -> None [] x.body = "text" -> "text" [] OTHER -> "json"

Body(x) == CASE x.body = "none" -> None [] x.body = "text" -> "raw" [] OTHER -> x.body

\* The request half: the body and its type may be lost on the way here.
RequestHalf(x, body, ct, authoritative) ==
  IF x.op = None THEN Found("missing-operation")
  ELSE ValidateBody(x.op.body, Facts(body, ct), authoritative)

\* The request half of a surface that holds the exchange.
WholeRequest(x) == RequestHalf(x, Body(x), ContentType(x), TRUE)

\* isGraphqlEnvelope, graphqlOperationOf: a body that is JSON with a string
\* "query", whatever protocol it is of.
IsEnvelope(x) == (x.proto = "graphql" /\ x.carried = "body") \/ (x.proto = "rest" /\ x.search)

-----------------------------------------------------------------------------
Unarchived == archive = None /\ tally = NoTally /\ told = None

TrafficInit ==
  /\ contract \in Contracts
  /\ traffic \in Traffics
  /\ sent \in {"sent", "withheld", "truncated"}
  /\ sent # "sent" => Len(traffic) = 1
  /\ origins \in {None, {"ours"}}
  /\ Unarchived

\* about: which halves of the contract the surface speaks of.
Say(success, unverified, about) ==
  told' = [success |-> success, unverified |-> unverified, about |-> about]

\* The browser writes the next exchange to its archive: the attached bytes of
\* either body may be missing from it, and a response may have been cut.
Record ==
  /\ told = None /\ tally = NoTally /\ sent = "sent"
  /\ archive # None => archive.by = "browser" /\ Len(archive.entries) < Len(traffic)
  /\ LET entries == IF archive = None THEN <<>> ELSE archive.entries
     IN  \E response \in {"whole", "lost", "cut"}, request \in BOOLEAN :
           archive' = [by |-> "browser",
                       entries |-> Append(entries, [of |-> traffic[Len(entries) + 1],
                                                    response |-> response, request |-> request])]
  /\ UNCHANGED <<contract, traffic, sent, origins, tally, told>>

\* runRequestToHar, runSequenceToHar: what was not sent, or was cut inside a
\* redirect, has no verdict; else every body that was a string is kept.
Produce ==
  /\ told = None /\ archive = None
  /\ IF sent # "sent"
     THEN Say(FALSE, TRUE, {}) /\ UNCHANGED archive
     ELSE /\ archive' = [by |-> "run",
                         entries |-> [i \in DOMAIN traffic |->
                            [of |-> traffic[i], response |-> "whole", request |-> TRUE]]]
          /\ UNCHANGED told
  /\ UNCHANGED <<contract, traffic, sent, origins, tally>>

-----------------------------------------------------------------------------
(* validateCapturedTraffic, an entry at a time.                            *)

Complete == archive # None /\ Len(archive.entries) = Len(traffic)

More == told = None /\ Complete /\ tally.at < Len(traffic)

\* An archive is resolved for a check only where the operator allows it, and
\* a check needs one half of a contract.
Refuse ==
  /\ told = None /\ Complete /\ tally = NoTally
  /\ Say(FALSE, TRUE, {})
  /\ UNCHANGED <<contract, traffic, sent, archive, origins, tally>>

Entry == archive.entries[tally.at + 1]

\* isApiEntry
IsApi(x) == x.json /\ (origins # None /\ x.origin # "opaque" => x.origin \in origins)

\* The body of an entry's request, which a capture takes only as JSON.
Kept(entry) == IF entry.request /\ entry.of.body \in {"good", "bad"} THEN entry.of.body ELSE None

HasQuery(entry) == IsEnvelope(entry.of) /\ entry.request

IsGraphql(entry) ==
  \/ contract.graphql /\ entry.of.endpoint
  \/ HasQuery(entry)

\* pushResult, and what could not be verified counted as no signal.
Count(outcome) ==
  [tally EXCEPT !.at = @ + 1, !.entries = @ + 1,
                !.results = @ \cup {[of |-> tally.at + 1, outcome |-> outcome]},
                !.noSignal = @ + (IF outcome.unverified THEN 1 ELSE 0)]

\* What a request of an entry says of its content type: an archive that was
\* synthesized from a run has no headers (har-synth.ts).
KeptType(entry) == IF archive.by = "run" THEN None ELSE ContentType(entry.of)

Walk == More /\ UNCHANGED <<contract, traffic, sent, archive, origins, told>>

Skip ==
  /\ Walk /\ ~ IsApi(Entry.of)
  /\ tally' = [tally EXCEPT !.at = @ + 1]

Checked == Walk /\ IsApi(Entry.of) /\ Entry.response = "whole"

Unresolved ==
  /\ Walk /\ IsApi(Entry.of) /\ Entry.response # "whole"
  /\ tally' = [tally EXCEPT !.at = @ + 1, !.entries = @ + 1, !.unresolved = @ + 1]

\* A call for which no half of the contract was given.
NoSignal ==
  /\ Checked
  /\ IF IsGraphql(Entry) THEN ~ contract.graphql ELSE ~ contract.openapi
  /\ tally' = [tally EXCEPT !.at = @ + 1, !.entries = @ + 1, !.noSignal = @ + 1]

NoQuery ==
  /\ Checked /\ IsGraphql(Entry) /\ contract.graphql /\ ~ HasQuery(Entry)
  /\ tally' = Count(Found("graphql-no-query"))

\* A search term is no GraphQL document.
CheckGraphql ==
  /\ Checked /\ IsGraphql(Entry) /\ contract.graphql /\ HasQuery(Entry)
  /\ tally' = Count(IF Entry.of.proto = "rest" THEN Found("graphql-syntax")
                    ELSE ValidateGraphql(Entry.of, Entry.of.variables, FALSE, FALSE))

CheckRest ==
  /\ Checked /\ ~ IsGraphql(Entry) /\ contract.openapi
  /\ LET x == Entry.of
         merged == Both(ValidateResponse(x), RequestHalf(x, Kept(Entry), KeptType(Entry), FALSE))
     IN  tally' = [Count(merged) EXCEPT !.exercised = @ \cup ({x.op} \ {None})]

BugClean == tally.unresolved = 0 /\ tally.noSignal = 0 /\ \A r \in tally.results : Valid(r.outcome)

\* Absence is never a pass.
Clean ==
  /\ tally.entries > 0 /\ tally.unresolved = 0 /\ tally.noSignal = 0
  /\ \A r \in tally.results : Valid(r.outcome)

Conclude ==
  /\ told = None /\ Complete /\ tally.at = Len(traffic)
  /\ Say(Clean, FALSE, Halves)
  /\ UNCHANGED <<contract, traffic, sent, archive, origins, tally>>

\* api validate-capture reads the file a browser left; the server, the archive
\* behind a handle, a browser's or a run's.
CmdValidateCapture == archive # None /\ archive.by = "browser" /\ Conclude
ValidateCaptureTool == Conclude

-----------------------------------------------------------------------------
(* Surfaces that hold the one exchange themselves.                         *)

Direct(x, success, about, outcome) ==
  /\ told = None /\ archive = None /\ Len(traffic) = 1
  /\ Say(success /\ Valid(outcome), outcome.unverified, about)
  /\ tally' = [NoTally EXCEPT !.results = {[of |-> 1, outcome |-> outcome]}]
  /\ UNCHANGED <<contract, traffic, sent, archive, origins>>

\* A document, its variables, and the response when there is one.
GraphqlHalf(x, response, coercers) ==
  IF x.proto = "rest" THEN Found("graphql-syntax")
  ELSE ValidateGraphql([x EXCEPT !.errors = @ /\ response], x.variables, TRUE, coercers)

\* api run: the response is checked when there is one, the request always, and
\* a GraphQL request by its schema; without any contract the assertions decide.
CmdRun ==
  \E assertions, coercers \in BOOLEAN :
    LET x == traffic[1]
        answered == sent # "withheld"
        about == (IF contract.openapi /\ answered THEN {"response"} ELSE {})
                 \cup (IF contract.openapi /\ ~ IsEnvelope(x) THEN {"request"} ELSE {})
                 \cup (IF contract.graphql /\ IsEnvelope(x) THEN {"graphql"} ELSE {})
        half(name) == IF name \notin about THEN Fine
                      ELSE CASE name = "response" -> ValidateResponse(x)
                             [] name = "request"  -> WholeRequest(x)
                             [] OTHER             -> GraphqlHalf(x, answered, coercers)
    IN  Direct(x, answered /\ assertions, about,
               Both(half("response"), Both(half("request"), half("graphql"))))

\* api validate, validate_response with a schema: a document and its variables.
CmdValidate ==
  \E coercers, response \in BOOLEAN :
    /\ contract.graphql /\ traffic[1].proto = "graphql"
    /\ Direct(traffic[1], TRUE, IF response THEN {"graphql"} ELSE {"document"},
              GraphqlHalf(traffic[1], response, coercers))

\* validate_response with a description.
ValidateResponseTool ==
  /\ contract.openapi /\ ~ contract.graphql /\ traffic[1].proto = "rest"
  /\ Direct(traffic[1], TRUE, {"response"}, ValidateResponse(traffic[1]))

\* A GraphQL envelope is refused by both request checks.
ValidateRequestTool ==
  /\ contract.openapi /\ traffic[1].proto = "rest"
  /\ LET x == traffic[1]
     IN  IF IsEnvelope(x) THEN Direct(x, FALSE, {}, Unverified)
         ELSE Direct(x, TRUE, {"request"}, WholeRequest(x))

\* api validate-request reads the body from a file, as JSON.
CmdValidateRequest == traffic[1].body # "text" /\ ValidateRequestTool

TrafficNext ==
  \/ Record \/ Produce \/ Refuse
  \/ Skip \/ Unresolved \/ NoSignal \/ NoQuery \/ CheckGraphql \/ CheckRest
  \/ CmdValidateCapture \/ ValidateCaptureTool
  \/ CmdRun \/ CmdValidate \/ ValidateResponseTool \/ CmdValidateRequest \/ ValidateRequestTool

-----------------------------------------------------------------------------
(* What the exchange itself is, by the documents alone.                    *)

\* The status is documented, by the most specific key, and the body fits it.
ResponseConforms(x) ==
  /\ x.op # None
  /\ \E key \in DOMAIN x.op.responses :
       /\ key = x.status \/ key = "default" \/ (key = "2XX" /\ x.status \in {"200", "201"})
       /\ key # x.status => x.status \notin DOMAIN x.op.responses
       /\ key = "default" => ~ (x.status \in {"200", "201"} /\ "2XX" \in DOMAIN x.op.responses)
       /\ x.op.responses[key] = "schema" => key \in x.fits

RequestConforms(x) ==
  /\ x.op # None
  /\ LET decl == x.op.body
     IN  /\ decl.declared = "yes" /\ x.body = "none" => ~ decl.required
         /\ decl.declared = "yes" /\ x.body = "bad" => "json" \notin decl.content \/ decl.bare

VariablesConform(x) ==
  \/ x.decl = None
  \/ x.variables = "good"
  \/ x.variables \in {"absent", "without", "null"} /\ ~ x.decl.required

GraphqlConforms(x) ==
  /\ x.query \in {"fine", "several"} /\ x.literal # "bad"
  /\ ~ x.errors /\ VariablesConform(x)

Holds(x, half) ==
  CASE half = "response" -> x.proto = "rest" => ResponseConforms(x)
    [] half = "request"  -> x.proto = "rest" => RequestConforms(x)
    [] half = "graphql"  -> x.proto = "graphql" => GraphqlConforms(x)
    [] OTHER             -> x.proto = "graphql" => GraphqlConforms([x EXCEPT !.errors = FALSE])

\* What no surface looks at: variables that did not come with a request, and on
\* a capture a body that was not kept where none is required, and a response
\* that is no JSON.
Unseen(i, half) ==
  LET x == traffic[i]
  IN  \/ half \in {"graphql", "document"} /\ x.proto = "graphql" /\ x.variables = "absent"
      \/ /\ archive # None
         /\ \/ ~ IsApi(x)
            \/ half = "request" /\ x.proto = "rest" /\ x.op # None
                 /\ Kept(archive.entries[i]) = None /\ ~ x.op.body.required

-----------------------------------------------------------------------------
(* Properties.                                                             *)

\* A surface that reports success, and nothing unverified, speaks of exchanges
\* that keep the contract: no entry that was lost, cut, misrouted or had no
\* contract to be held against is behind it ("absence is never a pass").
SuccessMeansConforming ==
  told # None /\ told.success /\ ~ told.unverified =>
    /\ \A i \in DOMAIN traffic, half \in told.about : Unseen(i, half) \/ Holds(traffic[i], half)
    /\ archive # None => \E i \in DOMAIN traffic : IsApi(traffic[i])

\* A finding that traffic gets for the protocol it is taken for: a search whose
\* body has the form of a GraphQL request; on an archive a REST call to the
\* GraphQL endpoint, and a GraphQL request that has its query in the URL or whose
\* body the archive lost, which counts as one without a query (har-capture.ts
\* :505-530); and a GraphQL request that is held against a description.
Mistaken(i, kind) ==
  LET x == traffic[i]
  IN  \/ x.proto = "rest" /\ x.search /\ kind = "graphql-syntax"
      \/ x.proto = "rest" /\ x.endpoint /\ archive # None /\ kind = "graphql-no-query"
      \/ /\ x.proto = "graphql" /\ archive # None
         /\ x.carried = "url" \/ ~ archive.entries[i].request
         /\ kind \in {"graphql-no-query", "missing-operation"}
      \/ x.proto = "graphql" /\ archive = None /\ contract.openapi /\ kind = "missing-operation"

\* Each result that is a fault is of an exchange that itself breaches the
\* contract, or says of it what its mistaken protocol brings: a body or a response
\* of a REST call that an archive lost is unresolved or without signal, and never
\* a fault (har-capture.ts:489-498, :569-573).
FaultsAreReal ==
  \A r \in tally.results : ~ Valid(r.outcome) =>
    \/ \E kind \in r.outcome.findings : Mistaken(r.of, kind)
    \/ \E half \in Halves : ~ Holds(traffic[r.of], half)
=============================================================================
