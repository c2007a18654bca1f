------------------------ MODULE ContractChecksProofs ------------------------
(***************************************************************************)
(* Proofs about ContractChecks.                                            *)
(*                                                                         *)
(* The walk from traffic to a verdict, for every traffic, every contract   *)
(* and everything an archive may lose: each half of a check is compared    *)
(* with what conforms, by the documents alone: what it faults breaches     *)
(* them, and what it passes without a doubt keeps them.  TrafficInv says   *)
(* that of the entries walked so far.                                      *)
(*                                                                         *)
(* A request on its way, for every operation, everything a client writes   *)
(* and texts of any length: what a serialization is read back as is what   *)
(* was written, or the check is unverified.  It rests on Split and Join    *)
(* undoing each other.  MessageInv says what a surface holds.              *)
(***************************************************************************)
EXTENDS ContractChecks, SequenceTheorems, WellFoundedInduction, TLAPS

-----------------------------------------------------------------------------
(* The halves of a check.                                                  *)

LEMMA BothHalves ==
  ASSUME NEW a, NEW b
  PROVE  /\ Valid(Both(a, b)) <=> Valid(a) /\ Valid(b)
         /\ Both(a, b).unverified <=> a.unverified \/ b.unverified
         /\ Both(a, b).findings = a.findings \cup b.findings
BY DEF Both, Outcome, Valid

LEMMA Outcomes ==
  /\ Valid(Fine) /\ ~ Fine.unverified
  /\ Valid(Unverified) /\ Unverified.unverified
  /\ \A kind : ~ Found(kind).unverified /\ (Valid(Found(kind)) <=> kind \in Warnings)
BY DEF Fine, Unverified, Found, Outcome, Valid

\* A response is faulted when it does not conform, and only then.
LEMMA ResponseHalf ==
  ASSUME NEW x, x.op # None => None \notin DOMAIN x.op.responses
  PROVE  /\ Valid(ValidateResponse(x)) <=> ResponseConforms(x)
         /\ ~ ValidateResponse(x).unverified
<1> DEFINE key == FindResponse(x.op, x.status)
           keys == DOMAIN x.op.responses
<1>1. CASE x.op = None
  BY <1>1, Outcomes DEF ValidateResponse, ResponseConforms, Warnings
<1>2. CASE x.op # None
  <2>1. /\ key = None => \A k \in keys : ~ (/\ k = x.status \/ k = "default" \/ (k = "2XX" /\ x.status \in {"200", "201"}))
        /\ key # None => \A k \in keys :
             (k = key <=> /\ k = x.status \/ k = "default" \/ (k = "2XX" /\ x.status \in {"200", "201"})
                          /\ k # x.status => x.status \notin keys
                          /\ k = "default" => ~ (x.status \in {"200", "201"} /\ "2XX" \in keys))
        /\ key # None => key \in keys
    BY <1>2 DEF FindResponse
  <2>2. ResponseConforms(x) <=> key # None /\ (x.op.responses[key] = "schema" => key \in x.fits)
    <3> HIDE DEF key
    <3> QED BY <1>2, <2>1 DEF ResponseConforms
  <2>3. ValidateResponse(x) = IF key = None THEN Found("undocumented-status")
                              ELSE IF x.op.responses[key] = "schema" /\ key \notin x.fits THEN Found("response-schema")
                              ELSE Fine
    BY <1>2 DEF ValidateResponse
  <2> HIDE DEF key
  <2> QED BY <2>2, <2>3, Outcomes DEF Warnings
<1> QED BY <1>1, <1>2

\* A request's body, as far as the surface holds it: it is faulted only when it
\* breaches the declaration, and silence leaves only a body it does not hold.
LEMMA BodyHalf ==
  ASSUME NEW x, IsExchange(x), x.proto = "rest", NEW kept, NEW ct, NEW authoritative \in BOOLEAN,
         ct = ContentType(x) \/ (ct = None /\ kept # "raw"),
         \/ kept = None /\ (authoritative => x.body = "none")
         \/ kept = "raw" /\ x.body = "text"
         \/ kept \in {"good", "bad"} /\ x.body = kept
  PROVE  LET half == RequestHalf(x, kept, ct, authoritative)
         IN  /\ ~ Valid(half) => ~ RequestConforms(x)
             /\ Valid(half) /\ ~ half.unverified =>
                  \/ RequestConforms(x)
                  \/ ~ authoritative /\ kept = None /\ x.op # None /\ ~ x.op.body.required
<1> DEFINE half == RequestHalf(x, kept, ct, authoritative)
           decl == x.op.body
           held == Facts(kept, ct)
           media == SelectContent(decl.content, held.ct)
<1>1. CASE x.op = None
  BY <1>1, Outcomes DEF RequestHalf, RequestConforms, Warnings
<1>2. CASE x.op # None
  <2>1. half = ValidateBody(decl, held, authoritative) /\ decl.declared \in {"yes", "no", "unresolved"}
    BY <1>2 DEF RequestHalf, IsExchange
  <2>2. held.json = kept /\ held.form = None /\ (HasBody(held) <=> kept # None)
    BY DEF Facts, HasBody
  <2>3. RequestConforms(x) <=>
          /\ ~ (decl.declared = "yes" /\ x.body = "none" /\ decl.required)
          /\ ~ (decl.declared = "yes" /\ x.body = "bad" /\ "json" \in decl.content /\ ~ decl.bare)
    BY <1>2 DEF RequestConforms
  <2>4. CASE decl.declared = "unresolved"
    <3>1. half = Unverified
      <4> HIDE DEF half, held, decl
      <4> QED BY <2>1, <2>4 DEF ValidateBody
    <3> QED BY <3>1, Outcomes
  <2>5. CASE decl.declared = "no"
    <3>1. half = IF kept # None THEN Outcome({"undocumented-body"}, TRUE) ELSE Fine
      <4> HIDE DEF half, held, decl
      <4> QED BY <2>1, <2>2, <2>5 DEF ValidateBody
    <3>2. Valid(half)
      BY <3>1, Outcomes DEF Valid, Outcome, Warnings
    <3>3. RequestConforms(x)
      <4> HIDE DEF decl
      <4> QED BY <2>3, <2>5
    <3> QED BY <3>2, <3>3
  <2>6. CASE decl.declared = "yes" /\ kept = None
    <3>1. half = IF ~ decl.required THEN Fine ELSE IF authoritative THEN Found("missing-required-body") ELSE Unverified
      <4> HIDE DEF half, held, decl
      <4> QED BY <2>1, <2>2, <2>6 DEF ValidateBody
    <3>2. "missing-required-body" \notin Warnings
      BY DEF Warnings
    <3>3. authoritative => (RequestConforms(x) <=> ~ decl.required)
      BY <2>3, <2>6, TrafficAssumption
    <3> QED BY <1>2, <2>6, <3>1, <3>2, <3>3, Outcomes
  <2>7. CASE decl.declared = "yes" /\ kept # None
    <3>1. half = ValidatePresent(decl, held, authoritative)
      <4> HIDE DEF half, held, decl
      <4> QED BY <2>1, <2>2, <2>7 DEF ValidateBody
    <3>0. held.ct = ct /\ ct \in {None, "text", "json"} /\ (kept = "raw" => ct = "text")
      BY <2>7, TrafficAssumption DEF Facts, ContentType
    <3>2. /\ media \in {"json", "text", "application/*", "text/*", "*/*", None}
          /\ media = "json" => kept # "raw" /\ "json" \in decl.content
      <4> HIDE DEF held
      <4> QED BY <3>0, TrafficAssumption DEF SelectContent, Family
    <3>3. half = IF media = None THEN Outcome(IF held.ct = None THEN {} ELSE {"unsupported-media-type"}, TRUE)
                 ELSE IF media # "json" \/ decl.bare THEN Unverified
                 ELSE IF kept = "good" THEN Fine ELSE Found("request-body-schema")
      <4> HIDE DEF held, media
      <4> QED BY <2>2, <3>1, <3>2, TrafficAssumption DEF ValidatePresent, media
    <3>4. CASE media = None \/ media # "json" \/ decl.bare
      <4>1. Valid(half) /\ half.unverified
        <5>1. half = Unverified \/ half = Outcome({}, TRUE) \/ half = Outcome({"unsupported-media-type"}, TRUE)
          BY <3>3, <3>4
        <5> QED BY <5>1, Outcomes DEF Outcome, Valid, Warnings
      <4> QED BY <4>1
    <3>5. CASE media = "json" /\ ~ decl.bare
      <4>1. half = IF kept = "good" THEN Fine ELSE Found("request-body-schema")
        BY <3>3, <3>5, TrafficAssumption
      <4>2. x.body = kept /\ kept \in {"good", "bad"} /\ "json" \in decl.content
        BY <2>7, <3>2, <3>5
      <4>3. RequestConforms(x) <=> x.body # "bad"
        BY <2>3, <2>7, <3>5, <4>2
      <4>4. "request-body-schema" \notin Warnings
        BY DEF Warnings
      <4> QED BY <4>1, <4>2, <4>3, <4>4, Outcomes
    <3> QED BY <3>4, <3>5
  <2> QED BY <2>1, <2>4, <2>5, <2>6, <2>7
<1> QED BY <1>1, <1>2

\* A GraphQL request is faulted only when the document, its variables or the
\* answer breach the schema, and is passed only when all of them keep it.
LEMMA DocumentHalf ==
  ASSUME NEW x, x.query \in {"fine", "several", "drift", "root", "syntax", "noOperation"},
         x.variables \in {"absent", "array", "without", "null", "bad", "good"},
         NEW authoritative, NEW registered
  PROVE  LET half == ValidateGraphql(x, x.variables, authoritative, registered)
         IN  /\ ~ Valid(half) => ~ GraphqlConforms(x)
             /\ Valid(half) /\ ~ half.unverified =>
                  x.query \in {"fine", "several"} /\ x.literal = "none" /\ ~ x.errors
                    /\ (x.variables # "absent" => VariablesConform(x))
<1> DEFINE doc == ValidateDocument(x)
           err == IF x.errors THEN Found("graphql-errors") ELSE Fine
           lit == LiteralHalf(x)
           val == VariablesHalf(x, x.variables, authoritative, registered)
           half == ValidateGraphql(x, x.variables, authoritative, registered)
<1>1. /\ Valid(half) <=> Valid(doc) /\ Valid(err) /\ Valid(lit) /\ Valid(val)
      /\ half.unverified <=> doc.unverified \/ err.unverified \/ lit.unverified \/ val.unverified
  <2> HIDE DEF doc, err, lit, val
  <2>1. half = Both(Both(doc, err), Both(lit, val))
    BY DEF ValidateGraphql, doc, err, lit, val
  <2>2. /\ Valid(half) <=> Valid(Both(doc, err)) /\ Valid(Both(lit, val))
        /\ half.unverified <=> Both(doc, err).unverified \/ Both(lit, val).unverified
    <3> HIDE DEF half
    <3> QED BY <2>1, BothHalves
  <2> QED BY <2>2, BothHalves
<1>2. /\ "graphql-validation" \notin Warnings /\ "graphql-errors" \notin Warnings
      /\ "graphql-variable-missing" \notin Warnings /\ "graphql-variable-invalid" \notin Warnings
      /\ "graphql-undocumented-variable" \in Warnings
  BY DEF Warnings
<1>3. /\ x.query \in {"fine", "several"} => doc = Fine
      /\ x.query \notin {"fine", "several"} => doc = Found("graphql-validation")
  BY DEF ValidateDocument
<1>4. Valid(doc) <=> x.query \in {"fine", "several"}
  <2> HIDE DEF doc
  <2> QED BY <1>2, <1>3, Outcomes
<1>5. (Valid(err) <=> ~ x.errors) /\ ~ err.unverified
  BY <1>2, Outcomes
<1>6. Valid(lit) /\ (Valid(doc) /\ ~ lit.unverified => x.literal = "none")
  BY <1>3, <1>4, Outcomes DEF LiteralHalf
<1>7. /\ ~ Valid(val) => ~ VariablesConform(x)
      /\ Valid(doc) /\ Valid(val) /\ ~ val.unverified => x.variables = "absent" \/ VariablesConform(x)
  <2>1. CASE x.variables = "absent" \/ ~ Valid(doc) \/ x.query = "several"
    <3>1. val = Fine \/ val = Unverified
      BY <2>1, <1>3, <1>4, Outcomes DEF VariablesHalf
    <3>2. Valid(doc) /\ x.variables # "absent" => val = Unverified
      BY <2>1, <1>3, <1>4, Outcomes DEF VariablesHalf
    <3> HIDE DEF val, doc
    <3> QED BY <3>1, <3>2, Outcomes
  <2>2. CASE x.variables # "absent" /\ Valid(doc) /\ x.query # "several"
    <3>1. val = ValidateVariables(x.decl, x.variables, authoritative, registered)
      BY <2>2, <1>3, <1>4 DEF VariablesHalf
    <3> HIDE DEF val, doc
    <3>2. CASE x.decl = None
      BY <3>1, <3>2, <1>2, Outcomes DEF ValidateVariables, VariablesConform
    <3>3. CASE x.decl # None
      <4>1. val = IF x.variables = "array" THEN Unverified
                  ELSE IF x.decl.custom /\ ~ registered THEN Unverified
                  ELSE IF x.variables = "without" /\ x.decl.required
                  THEN IF authoritative THEN Found("graphql-variable-missing") ELSE Unverified
                  ELSE IF x.variables = "bad" \/ (x.variables = "null" /\ x.decl.required)
                  THEN Found("graphql-variable-invalid") ELSE Fine
        BY <3>1, <3>3 DEF ValidateVariables
      <4>2. VariablesConform(x) <=> x.variables = "good" \/ (x.variables \in {"absent", "without", "null"} /\ ~ x.decl.required)
        BY <3>3 DEF VariablesConform
      <4>3. Valid(val) \/ (~ Valid(val) /\ ~ VariablesConform(x))
        BY <4>1, <4>2, <1>2, Outcomes
      <4>4. Valid(val) /\ ~ val.unverified => VariablesConform(x)
        BY <4>1, <4>2, <1>2, <2>2, Outcomes
      <4> QED BY <4>3, <4>4
    <3> QED BY <3>2, <3>3
  <2> QED BY <2>1, <2>2
<1> HIDE DEF doc, err, lit, val, half
<1>8. ~ Valid(half) => ~ GraphqlConforms(x)
  BY <1>1, <1>4, <1>5, <1>6, <1>7 DEF GraphqlConforms
<1>9. Valid(half) /\ ~ half.unverified =>
        x.query \in {"fine", "several"} /\ x.literal = "none" /\ ~ x.errors
          /\ (x.variables # "absent" => VariablesConform(x))
  BY <1>1, <1>4, <1>5, <1>6, <1>7
<1> QED BY <1>8, <1>9 DEF half

\* The same of an exchange whose answer may not have been looked at.
LEMMA GraphqlHalves ==
  ASSUME NEW x, IsExchange(x), x.proto = "graphql", NEW response \in BOOLEAN,
         NEW authoritative, NEW registered
  PROVE  LET half == ValidateGraphql([x EXCEPT !.errors = @ /\ response], x.variables, authoritative, registered)
         IN  /\ ~ Valid(half) => ~ GraphqlConforms(x) /\ (~ response => ~ GraphqlConforms([x EXCEPT !.errors = FALSE]))
             /\ Valid(half) /\ ~ half.unverified /\ x.variables # "absent" =>
                  (response => GraphqlConforms(x)) /\ GraphqlConforms([x EXCEPT !.errors = FALSE])
<1> DEFINE y == [x EXCEPT !.errors = @ /\ response]
           z == [x EXCEPT !.errors = FALSE]
<1>1. x = [proto |-> "graphql", origin |-> x.origin, json |-> x.json, endpoint |-> x.endpoint, carried |-> x.carried,
             op |-> None, query |-> x.query, decl |-> x.decl, variables |-> x.variables, literal |-> x.literal,
             errors |-> x.errors, body |-> x.body]
  BY DEF IsExchange
<1>2. /\ y.query = x.query /\ y.decl = x.decl /\ y.variables = x.variables /\ y.literal = x.literal
      /\ y.errors <=> x.errors /\ response
  BY <1>1
<1>3. z.query = x.query /\ z.decl = x.decl /\ z.variables = x.variables /\ z.literal = x.literal /\ z.errors = FALSE
  BY <1>1
<1>4. /\ x.query \in {"fine", "several", "drift", "root", "syntax", "noOperation"}
      /\ x.variables \in {"absent", "array", "without", "null", "bad", "good"}
  BY DEF IsExchange
<1> HIDE DEF y, z
<1>5. LET half == ValidateGraphql(y, x.variables, authoritative, registered)
      IN  /\ ~ Valid(half) => ~ GraphqlConforms(y)
          /\ Valid(half) /\ ~ half.unverified =>
               y.query \in {"fine", "several"} /\ y.literal = "none" /\ ~ y.errors
                 /\ (y.variables # "absent" => VariablesConform(y))
  BY <1>2, <1>4, DocumentHalf
<1>6. (VariablesConform(y) <=> VariablesConform(x)) /\ (VariablesConform(z) <=> VariablesConform(x))
  BY <1>2, <1>3 DEF VariablesConform
<1> DEFINE half == ValidateGraphql(y, x.variables, authoritative, registered)
<1> HIDE DEF half
<1>7. /\ ~ Valid(half) => ~ GraphqlConforms(y)
      /\ Valid(half) /\ ~ half.unverified =>
           y.query \in {"fine", "several"} /\ y.literal = "none" /\ ~ y.errors
             /\ (y.variables # "absent" => VariablesConform(y))
  BY <1>5 DEF half
<1>8. ~ Valid(half) => ~ GraphqlConforms(x) /\ (~ response => ~ GraphqlConforms(z))
  BY <1>2, <1>3, <1>6, <1>7 DEF GraphqlConforms
<1>9. Valid(half) /\ ~ half.unverified /\ x.variables # "absent" => (response => GraphqlConforms(x)) /\ GraphqlConforms(z)
  BY <1>2, <1>3, <1>6, <1>7 DEF GraphqlConforms
<1> QED BY <1>8, <1>9 DEF half, y, z

-----------------------------------------------------------------------------
(* The invariant of the walk.                                              *)

Entries == [of : {traffic[i] : i \in DOMAIN traffic}, response : {"whole", "lost", "cut"}, request : BOOLEAN]

\* What the archive has is what happened, in its order, and no more.
Archived ==
  archive # None =>
    /\ archive.entries \in Seq(Entries)
    /\ Len(archive.entries) <= Len(traffic)
    /\ \A i \in 1 .. Len(archive.entries) : archive.entries[i].of = traffic[i]

Tallied ==
  /\ tally = [at |-> tally.at, entries |-> tally.entries, results |-> tally.results,
              unresolved |-> tally.unresolved, noSignal |-> tally.noSignal, exercised |-> tally.exercised]
  /\ tally.at \in Nat /\ tally.entries \in Nat /\ tally.unresolved \in Nat /\ tally.noSignal \in Nat

\* As long as nothing is unresolved, without signal or faulted, every exchange
\* walked so far was held against the contract and keeps it.
Passed ==
  archive # None =>
    /\ tally.entries > 0 => \E i \in 1 .. tally.at : IsApi(traffic[i])
    /\ tally.unresolved = 0 /\ tally.noSignal = 0 /\ (\A r \in tally.results : Valid(r.outcome)) =>
         \A i \in 1 .. tally.at, half \in Halves : Unseen(i, half) \/ Holds(traffic[i], half)

TrafficInv ==
  /\ traffic = <<>> \/ traffic \in Traffics
  /\ archive = None /\ told = None => tally = NoTally
  /\ Archived
  /\ Tallied
  /\ Passed
  /\ FaultsAreReal
  /\ SuccessMeansConforming

\* What is wrong with the exchange at a place, or with how it is taken.
AFault(outcome, i) ==
  \/ \E kind \in outcome.findings : Mistaken(i, kind)
  \/ \E half \in Halves : ~ Holds(traffic[i], half)

Faulted(r, i) == r.of = i /\ AFault(r.outcome, i)

\* One entry more: it enters what is said so far only by what is true of it.
LEMMA WalkKeeps ==
  ASSUME TrafficInv, Walk, NEW n, NEW R, NEW u, NEW s, NEW e,
         n \in Nat, u \in Nat, s \in Nat,
         tally' = [at |-> tally.at + 1, entries |-> n, results |-> R, unresolved |-> u, noSignal |-> s, exercised |-> e],
         n > 0 => tally.entries > 0 \/ IsApi(traffic[tally.at + 1]),
         \A r \in R : ~ Valid(r.outcome) => r \in tally.results \/ Faulted(r, tally.at + 1),
         u = 0 /\ s = 0 /\ (\A r \in R : Valid(r.outcome)) =>
            /\ tally.unresolved = 0 /\ tally.noSignal = 0 /\ \A r \in tally.results : Valid(r.outcome)
            /\ \A half \in Halves : Unseen(tally.at + 1, half) \/ Holds(traffic[tally.at + 1], half)
  PROVE  TrafficInv'
<1>1. /\ contract' = contract /\ traffic' = traffic /\ archive' = archive /\ origins' = origins /\ told' = told
      /\ told = None /\ archive # None
  BY DEF Walk, More, Complete
<1>2. /\ tally'.at = tally.at + 1 /\ tally'.entries = n /\ tally'.results = R /\ tally'.unresolved = u /\ tally'.noSignal = s
      /\ tally'.exercised = e
  OBVIOUS
<1>3. tally.at \in Nat /\ 1 .. tally'.at = (1 .. tally.at) \cup {tally.at + 1}
  BY <1>2 DEF TrafficInv, Tallied
<1>4. /\ \A x : IsApi(x)' <=> IsApi(x)
      /\ \A i, half : Unseen(i, half)' <=> Unseen(i, half)
      /\ \A i, kind : Mistaken(i, kind)' <=> Mistaken(i, kind)
  BY <1>1 DEF IsApi, Unseen, Mistaken
<1>5. (traffic = <<>> \/ traffic \in Traffics)' /\ (archive = None /\ told = None => tally = NoTally)'
  BY <1>1 DEF TrafficInv
<1>6. Archived'
  BY <1>1 DEF TrafficInv, Archived, Entries
<1>7. Tallied'
  BY <1>2, <1>3 DEF Tallied
<1>8. Passed'
  <2>1. Passed
    BY DEF TrafficInv
  <2>2. (tally.entries > 0 => \E i \in 1 .. tally.at : IsApi(traffic[i]))'
    BY <1>1, <1>2, <1>3, <1>4, <2>1 DEF Passed
  <2>3. (tally.unresolved = 0 /\ tally.noSignal = 0 /\ (\A r \in tally.results : Valid(r.outcome)) =>
            \A i \in 1 .. tally.at, half \in Halves : Unseen(i, half) \/ Holds(traffic[i], half))'
    BY <1>1, <1>2, <1>3, <1>4, <2>1 DEF Passed
  <2> QED BY <2>2, <2>3 DEF Passed
<1>9. FaultsAreReal'
  <2>1. FaultsAreReal
    BY DEF TrafficInv
  <2> QED BY <1>1, <1>2, <1>4, <2>1 DEF FaultsAreReal, Faulted, AFault
<1>10. SuccessMeansConforming'
  BY <1>1 DEF SuccessMeansConforming
<1> QED BY <1>5, <1>6, <1>7, <1>8, <1>9, <1>10 DEF TrafficInv

-----------------------------------------------------------------------------
(* Each entry of the archive.                                              *)

\* The entry the walk has come to is of the exchange at that place.
LEMMA EntryIsOfTheExchange ==
  ASSUME TrafficInv, Walk
  PROVE  /\ Entry = archive.entries[tally.at + 1] /\ Entry.of = traffic[tally.at + 1]
         /\ Entry.request \in BOOLEAN /\ IsExchange(Entry.of)
         /\ archive # None /\ told = None /\ tally.at \in Nat
<1>1. archive # None /\ told = None /\ Len(archive.entries) = Len(traffic) /\ tally.at < Len(traffic) /\ tally.at \in Nat
  BY DEF Walk, More, Complete, TrafficInv, Tallied
<1>2. archive.entries \in Seq(Entries) /\ \A i \in 1 .. Len(archive.entries) : archive.entries[i].of = traffic[i]
  BY <1>1 DEF TrafficInv, Archived
<1>3. tally.at + 1 \in 1 .. Len(archive.entries)
  <2>1. Len(archive.entries) \in Nat
    BY <1>2
  <2> QED BY <1>1, <2>1
<1>4. archive.entries[tally.at + 1] \in Entries
  BY <1>2, <1>3
<1>5. traffic # <<>> /\ traffic \in Traffics
  BY <1>1 DEF TrafficInv
<1>6. IsExchange(traffic[tally.at + 1])
  BY <1>1, <1>3, <1>5, TrafficAssumption
<1> QED BY <1>1, <1>2, <1>3, <1>4, <1>6 DEF Entry, Entries

LEMMA SkipKeeps ==
  ASSUME TrafficInv, Skip
  PROVE  TrafficInv'
<1>1. Walk /\ ~ IsApi(Entry.of) /\ tally' = [tally EXCEPT !.at = @ + 1]
  BY DEF Skip
<1>2. Entry.of = traffic[tally.at + 1] /\ archive # None
  BY <1>1, EntryIsOfTheExchange
<1>3. tally' = [at |-> tally.at + 1, entries |-> tally.entries, results |-> tally.results,
                unresolved |-> tally.unresolved, noSignal |-> tally.noSignal, exercised |-> tally.exercised]
  BY <1>1 DEF TrafficInv, Tallied
<1>4. \A half : Unseen(tally.at + 1, half)
  BY <1>1, <1>2 DEF Unseen
<1>5. tally.entries \in Nat /\ tally.unresolved \in Nat /\ tally.noSignal \in Nat
  BY DEF TrafficInv, Tallied
<1> QED BY <1>1, <1>3, <1>4, <1>5, WalkKeeps

LEMMA UnresolvedKeeps ==
  ASSUME TrafficInv, Unresolved
  PROVE  TrafficInv'
<1> DEFINE n == tally.entries + 1
           u == tally.unresolved + 1
<1>1. Walk /\ IsApi(Entry.of)
      /\ tally' = [tally EXCEPT !.at = @ + 1, !.entries = @ + 1, !.unresolved = @ + 1]
  BY DEF Unresolved
<1>2. IsApi(traffic[tally.at + 1])
  BY <1>1, EntryIsOfTheExchange
<1>3. tally' = [at |-> tally.at + 1, entries |-> n, results |-> tally.results,
                unresolved |-> u, noSignal |-> tally.noSignal, exercised |-> tally.exercised]
  BY <1>1 DEF TrafficInv, Tallied
<1>4. n \in Nat /\ u \in Nat /\ tally.noSignal \in Nat /\ u # 0
  BY DEF TrafficInv, Tallied
<1>5. Walk
  BY <1>1
<1> HIDE DEF n, u
<1> QED BY <1>2, <1>3, <1>4, <1>5, WalkKeeps

LEMMA NoSignalKeeps ==
  ASSUME TrafficInv, NoSignal
  PROVE  TrafficInv'
<1>1. Walk /\ IsApi(Entry.of)
      /\ tally' = [tally EXCEPT !.at = @ + 1, !.entries = @ + 1, !.noSignal = @ + 1]
  BY DEF NoSignal, Checked
<1>2. Entry.of = traffic[tally.at + 1]
  BY <1>1, EntryIsOfTheExchange
<1>3. tally' = [at |-> tally.at + 1, entries |-> tally.entries + 1, results |-> tally.results,
                unresolved |-> tally.unresolved, noSignal |-> tally.noSignal + 1, exercised |-> tally.exercised]
  BY <1>1 DEF TrafficInv, Tallied
<1>4. tally.entries + 1 \in Nat /\ tally.unresolved \in Nat /\ tally.noSignal + 1 \in Nat /\ tally.noSignal + 1 # 0
  BY DEF TrafficInv, Tallied
<1> QED BY <1>1, <1>2, <1>3, <1>4, WalkKeeps

\* The result of the entry the walk has come to.
Result(outcome) == [of |-> tally.at + 1, outcome |-> outcome]

\* An entry with a result of its own.
LEMMA CountKeeps ==
  ASSUME TrafficInv, Checked, NEW r, r.unverified \in BOOLEAN, NEW e,
         tally' = [at |-> tally.at + 1, entries |-> tally.entries + 1, results |-> tally.results \cup {Result(r)},
                   unresolved |-> tally.unresolved, noSignal |-> tally.noSignal + (IF r.unverified THEN 1 ELSE 0),
                   exercised |-> e],
         ~ Valid(r) => AFault(r, tally.at + 1),
         Valid(r) /\ ~ r.unverified =>
            \A half \in Halves : Unseen(tally.at + 1, half) \/ Holds(traffic[tally.at + 1], half)
  PROVE  TrafficInv'
<1>1. Walk /\ IsApi(Entry.of)
  BY DEF Checked
<1>2. Entry.of = traffic[tally.at + 1]
  BY <1>1, EntryIsOfTheExchange
<1> DEFINE n == tally.entries + 1
           R == tally.results \cup {Result(r)}
           s == tally.noSignal + (IF r.unverified THEN 1 ELSE 0)
<1>3. n \in Nat /\ tally.unresolved \in Nat /\ s \in Nat /\ (s = 0 => tally.noSignal = 0 /\ ~ r.unverified)
  BY DEF TrafficInv, Tallied
<1>4. \A q \in R : ~ Valid(q.outcome) => q \in tally.results \/ Faulted(q, tally.at + 1)
  BY DEF Result, Faulted
<1>5. tally.unresolved = 0 /\ s = 0 /\ (\A q \in R : Valid(q.outcome)) =>
            /\ tally.unresolved = 0 /\ tally.noSignal = 0 /\ \A q \in tally.results : Valid(q.outcome)
            /\ \A half \in Halves : Unseen(tally.at + 1, half) \/ Holds(traffic[tally.at + 1], half)
  <2>1. Result(r) \in R /\ Result(r).outcome = r /\ tally.results \subseteq R
    BY DEF Result
  <2> HIDE DEF R, s
  <2> QED BY <1>3, <2>1
<1>6. tally' = [at |-> tally.at + 1, entries |-> n, results |-> R, unresolved |-> tally.unresolved,
                noSignal |-> s, exercised |-> e]
  OBVIOUS
<1> HIDE DEF n, R, s
<1> QED BY <1>1, <1>2, <1>3, <1>4, <1>5, <1>6, WalkKeeps

\* What Count makes of a tally.
LEMMA Counts ==
  ASSUME TrafficInv, NEW r
  PROVE  Count(r) = [at |-> tally.at + 1, entries |-> tally.entries + 1, results |-> tally.results \cup {Result(r)},
                     unresolved |-> tally.unresolved, noSignal |-> tally.noSignal + (IF r.unverified THEN 1 ELSE 0),
                     exercised |-> tally.exercised]
<1> DEFINE k == IF r.unverified THEN 1 ELSE 0
<1>1. \E a, n, q, u, z, e : tally = [at |-> a, entries |-> n, results |-> q, unresolved |-> u, noSignal |-> z, exercised |-> e]
  BY DEF TrafficInv, Tallied
<1>2. PICK a, n, q, u, z, e : tally = [at |-> a, entries |-> n, results |-> q, unresolved |-> u, noSignal |-> z, exercised |-> e]
  BY <1>1
<1>3. tally.at = a /\ tally.entries = n /\ tally.results = q /\ tally.unresolved = u /\ tally.noSignal = z /\ tally.exercised = e
  BY <1>2
<1>4. Count(r) = [at |-> a + 1, entries |-> n + 1, results |-> q \cup {Result(r)}, unresolved |-> u, noSignal |-> z + k, exercised |-> e]
  <2> DEFINE R == q \cup {Result(r)}
  <2>1. Count(r) = [tally EXCEPT !.at = @ + 1, !.entries = @ + 1, !.results = @ \cup {Result(r)}, !.noSignal = @ + k]
    BY DEF Count, Result
  <2> HIDE DEF k
  <2>2. Count(r) = [tally EXCEPT !.at = a + 1, !.entries = n + 1, !.results = R, !.noSignal = z + k]
    BY <1>3, <2>1
  <2> HIDE DEF R
  <2>3. Count(r) = [at |-> a + 1, entries |-> n + 1, results |-> R, unresolved |-> u, noSignal |-> z + k, exercised |-> e]
    BY <1>2, <2>2
  <2> QED BY <2>3 DEF R
<1> QED BY <1>3, <1>4

\* An endpoint whose query did not reach the check.
LEMMA NoQueryKeeps ==
  ASSUME TrafficInv, NoQuery
  PROVE  TrafficInv'
<1> DEFINE x == Entry.of
           i == tally.at + 1
           r == Found("graphql-no-query")
<1>1. Checked /\ Walk /\ IsGraphql(Entry) /\ ~ HasQuery(Entry) /\ tally' = Count(r)
  BY DEF NoQuery, Checked
<1>2. /\ x = traffic[i] /\ Entry = archive.entries[i] /\ Entry.request \in BOOLEAN
      /\ IsExchange(x) /\ archive # None
  BY <1>1, EntryIsOfTheExchange
<1>3. r.unverified \in BOOLEAN /\ ~ Valid(r)
  BY Outcomes DEF Found, Outcome, Warnings
<1>4. x.endpoint /\ ~ (IsEnvelope(x) /\ Entry.request)
  BY <1>1 DEF IsGraphql, HasQuery
<1> HIDE DEF x, r
<1>5. AFault(r, i)
  <2>0. "graphql-no-query" \in r.findings
    BY DEF r, Found, Outcome
  <2>1. CASE x.proto = "rest"
    BY <1>2, <1>4, <2>0, <2>1 DEF AFault, Mistaken
  <2>2. CASE x.proto # "rest"
    <3>1. x.proto = "graphql" /\ x.carried \in {"body", "url"}
      BY <1>2, <2>2 DEF IsExchange
    <3>2. x.carried = "url" \/ ~ Entry.request
      BY <1>4, <3>1 DEF IsEnvelope
    <3> QED BY <1>2, <2>0, <3>1, <3>2 DEF AFault, Mistaken
  <2> QED BY <2>1, <2>2
<1>6. tally' = [at |-> tally.at + 1, entries |-> tally.entries + 1, results |-> tally.results \cup {Result(r)},
                unresolved |-> tally.unresolved, noSignal |-> tally.noSignal + (IF r.unverified THEN 1 ELSE 0),
                exercised |-> tally.exercised]
  BY <1>1, Counts
<1> QED BY <1>1, <1>3, <1>5, <1>6, CountKeeps

LEMMA CheckGraphqlKeeps ==
  ASSUME TrafficInv, CheckGraphql
  PROVE  TrafficInv'
<1> DEFINE x == Entry.of
           i == tally.at + 1
           r == IF x.proto = "rest" THEN Found("graphql-syntax") ELSE ValidateGraphql(x, x.variables, FALSE, FALSE)
<1>1. Checked /\ Walk /\ HasQuery(Entry) /\ tally' = Count(r)
  BY DEF CheckGraphql, Checked
<1>2. x = traffic[i] /\ IsExchange(x)
  BY <1>1, EntryIsOfTheExchange
<1>3. IsEnvelope(x)
  BY <1>1 DEF HasQuery
<1>4. r.unverified \in BOOLEAN
  BY DEF Found, Outcome, ValidateGraphql, Both
<1>5. CASE x.proto = "rest"
  <2>1. ~ Valid(r)
    BY <1>5, Outcomes DEF Warnings
  <2>2. AFault(r, i)
    <3>1. "graphql-syntax" \in r.findings
      BY <1>5 DEF Found, Outcome
    <3> QED BY <1>2, <1>3, <1>5, <3>1 DEF AFault, Mistaken, IsEnvelope
  <2> HIDE DEF x, r
  <2>3. tally' = [at |-> tally.at + 1, entries |-> tally.entries + 1, results |-> tally.results \cup {Result(r)},
                  unresolved |-> tally.unresolved, noSignal |-> tally.noSignal + (IF r.unverified THEN 1 ELSE 0),
                  exercised |-> tally.exercised]
    BY <1>1, Counts
  <2> QED BY <1>1, <1>4, <2>1, <2>2, <2>3, CountKeeps
<1>6. CASE x.proto # "rest"
  <2>1. x.proto = "graphql" /\ r = ValidateGraphql(x, x.variables, FALSE, FALSE)
    BY <1>2, <1>6 DEF IsExchange
  <2>2. /\ x.query \in {"fine", "several", "drift", "root", "syntax", "noOperation"}
        /\ x.variables \in {"absent", "array", "without", "null", "bad", "good"}
    BY <1>2, <1>6 DEF IsExchange
  <2>3. PICK f : f = FALSE
    OBVIOUS
  <2> DEFINE g == ValidateGraphql(x, x.variables, f, f)
  <2> HIDE DEF x, r
  <2>4. /\ ~ Valid(g) => ~ GraphqlConforms(x)
        /\ Valid(g) /\ ~ g.unverified =>
             x.query \in {"fine", "several"} /\ x.literal = "none" /\ ~ x.errors
               /\ (x.variables # "absent" => VariablesConform(x))
    BY <2>2, DocumentHalf
  <2> HIDE DEF g
  <2>5. r = g
    BY <2>1, <2>3 DEF g
  <2>6. /\ ~ Valid(r) => ~ GraphqlConforms(x)
        /\ Valid(r) /\ ~ r.unverified =>
             x.query \in {"fine", "several"} /\ x.literal = "none" /\ ~ x.errors
               /\ (x.variables # "absent" => VariablesConform(x))
    BY <2>4, <2>5
  <2>7. ~ Valid(r) => \E half \in Halves : ~ Holds(x, half)
    <3>1. Holds(x, "graphql") <=> GraphqlConforms(x)
      BY <2>1 DEF Holds
    <3>2. "graphql" \in Halves
      BY DEF Halves
    <3> QED BY <2>6, <3>1, <3>2
  <2>10. ~ Valid(r) => AFault(r, i)
    BY <1>2, <2>7 DEF AFault
  <2>8. Valid(r) /\ ~ r.unverified => \A half \in Halves : Unseen(i, half) \/ Holds(x, half)
    <3>1. Holds(x, "response") /\ Holds(x, "request")
      BY <2>1 DEF Holds
    <3>2. Valid(r) /\ ~ r.unverified => Unseen(i, "graphql") \/ Holds(x, "graphql")
      <4>1. x.variables = "absent" => Unseen(i, "graphql")
        BY <1>2, <2>1 DEF Unseen
      <4>2. Holds(x, "graphql") <=> GraphqlConforms(x)
        BY <2>1 DEF Holds
      <4> QED BY <2>6, <4>1, <4>2 DEF GraphqlConforms
    <3> QED BY <3>1, <3>2 DEF Halves
  <2>9. tally' = [at |-> tally.at + 1, entries |-> tally.entries + 1, results |-> tally.results \cup {Result(r)},
                  unresolved |-> tally.unresolved, noSignal |-> tally.noSignal + (IF r.unverified THEN 1 ELSE 0),
                  exercised |-> tally.exercised]
    BY <1>1, Counts
  <2> QED BY <1>1, <1>2, <1>4, <2>8, <2>9, <2>10, CountKeeps
<1> QED BY <1>5, <1>6

LEMMA CheckRestKeeps ==
  ASSUME TrafficInv, CheckRest
  PROVE  TrafficInv'
<1> DEFINE x == Entry.of
           i == tally.at + 1
           a == ValidateResponse(x)
           b == RequestHalf(x, Kept(Entry), KeptType(Entry), FALSE)
           r == Both(a, b)
           e == tally.exercised \cup ({x.op} \ {None})
<1>1. Checked /\ Walk /\ ~ IsGraphql(Entry)
  BY DEF CheckRest, Checked
<1>2. /\ x = traffic[i] /\ Entry = archive.entries[i] /\ Entry.request \in BOOLEAN
      /\ IsExchange(x) /\ archive # None
  BY <1>1, EntryIsOfTheExchange
<1>3. r.unverified \in BOOLEAN
  BY DEF Both, Outcome
<1>4. /\ Valid(r) <=> Valid(a) /\ Valid(b)
      /\ r.unverified <=> a.unverified \/ b.unverified
      /\ r.findings = a.findings \cup b.findings
  <2> HIDE DEF a, b
  <2> QED BY BothHalves
<1>5. tally' = [at |-> tally.at + 1, entries |-> tally.entries + 1, results |-> tally.results \cup {Result(r)},
                unresolved |-> tally.unresolved, noSignal |-> tally.noSignal + (IF r.unverified THEN 1 ELSE 0),
                exercised |-> e]
  <2>1. Count(r) = [at |-> tally.at + 1, entries |-> tally.entries + 1, results |-> tally.results \cup {Result(r)},
                    unresolved |-> tally.unresolved, noSignal |-> tally.noSignal + (IF r.unverified THEN 1 ELSE 0),
                    exercised |-> tally.exercised]
    BY Counts
  <2> DEFINE z == tally.noSignal + (IF r.unverified THEN 1 ELSE 0)
             q == tally.results \cup {Result(r)}
  <2>0. tally' = [Count(r) EXCEPT !.exercised = @ \cup ({x.op} \ {None})]
    BY DEF CheckRest
  <2> HIDE DEF x, r, z, q
  <2>2. Count(r) = [at |-> tally.at + 1, entries |-> tally.entries + 1, results |-> q,
                    unresolved |-> tally.unresolved, noSignal |-> z, exercised |-> tally.exercised]
    BY <2>1 DEF z, q
  <2>3. tally' = [at |-> tally.at + 1, entries |-> tally.entries + 1, results |-> q,
                  unresolved |-> tally.unresolved, noSignal |-> z, exercised |-> e]
    <3>1. tally' = [Count(r) EXCEPT !.exercised = e]
      BY <2>0, <2>2
    <3> HIDE DEF e
    <3> QED BY <2>2, <3>1
  <2> QED BY <2>3 DEF z, q
<1> HIDE DEF r, e
<1>6. CASE x.proto = "graphql"
  <2>1. x.op = None /\ x.carried \in {"body", "url"}
    BY <1>2, <1>6 DEF IsExchange
  <2>2. ~ Valid(a) /\ "missing-operation" \in r.findings
    <3>1. a = Found("missing-operation")
      BY <2>1 DEF ValidateResponse
    <3>2. ~ Valid(a)
      <4> HIDE DEF a
      <4> QED BY <3>1, Outcomes DEF Warnings
    <3>3. "missing-operation" \in a.findings
      <4> HIDE DEF a
      <4> QED BY <3>1 DEF Found, Outcome
    <3> HIDE DEF a, b
    <3> QED BY <1>4, <3>2, <3>3
  <2>3. x.carried = "url" \/ ~ Entry.request
    BY <1>1, <1>2, <1>6, <2>1 DEF IsGraphql, HasQuery, IsEnvelope
  <2>4. AFault(r, i)
    BY <1>2, <1>6, <2>2, <2>3 DEF AFault, Mistaken
  <2> HIDE DEF x, a, b
  <2> QED BY <1>1, <1>3, <1>4, <1>5, <2>2, <2>4, CountKeeps
<1>7. CASE x.proto # "graphql"
  <2>1. x.proto = "rest" /\ (x.op # None => None \notin DOMAIN x.op.responses)
    BY <1>2, <1>7 DEF IsExchange
  <2>2. (Valid(a) <=> ResponseConforms(x)) /\ ~ a.unverified
    <3> HIDE DEF x
    <3> QED BY <2>1, ResponseHalf DEF a
  <2>3. Kept(Entry) = None \/ (Kept(Entry) \in {"good", "bad"} /\ x.body = Kept(Entry))
    BY DEF Kept
  <2>9. KeptType(Entry) = ContentType(x) \/ (KeptType(Entry) = None /\ Kept(Entry) # "raw")
    <3>1. Kept(Entry) # "raw"
      BY <2>3, TrafficAssumption
    <3> QED BY <3>1 DEF KeptType
  <2>4. /\ ~ Valid(b) => ~ RequestConforms(x)
        /\ Valid(b) /\ ~ b.unverified =>
             RequestConforms(x) \/ (Kept(Entry) = None /\ x.op # None /\ ~ x.op.body.required)
    <3> HIDE DEF x
    <3>0. PICK f \in BOOLEAN : f = FALSE
      OBVIOUS
    <3>1. PICK kept, ct : kept = Kept(Entry) /\ ct = KeptType(Entry)
      OBVIOUS
    <3> DEFINE half == RequestHalf(x, kept, ct, f)
    <3>2. /\ ~ Valid(half) => ~ RequestConforms(x)
          /\ Valid(half) /\ ~ half.unverified =>
               RequestConforms(x) \/ (~ f /\ kept = None /\ x.op # None /\ ~ x.op.body.required)
      <4> HIDE DEF x
      <4> QED BY <1>2, <2>1, <2>3, <2>9, <3>0, <3>1, BodyHalf
    <3> HIDE DEF half
    <3>3. half = b
      BY <3>0, <3>1 DEF b, half
    <3> QED BY <3>1, <3>2, <3>3
  <2> HIDE DEF x, a, b
  <2>5. /\ Holds(x, "response") <=> ResponseConforms(x)
        /\ Holds(x, "request") <=> RequestConforms(x)
        /\ Holds(x, "graphql")
    BY <2>1 DEF Holds
  <2>6. ~ Valid(r) => AFault(r, i)
    BY <1>2, <1>4, <2>2, <2>4, <2>5 DEF AFault, Halves
  <2>7. Kept(Entry) = None /\ x.op # None /\ ~ x.op.body.required => Unseen(i, "request")
    BY <1>2, <2>1 DEF Unseen
  <2>8. Valid(r) /\ ~ r.unverified => \A half \in Halves : Unseen(i, half) \/ Holds(x, half)
    BY <1>4, <2>2, <2>4, <2>5, <2>7 DEF Halves
  <2> QED BY <1>1, <1>2, <1>3, <1>5, <2>6, <2>8, CountKeeps
<1> QED BY <1>6, <1>7

-----------------------------------------------------------------------------
(* The steps around the walk.                                              *)

\* What is said does not change what was recorded and tallied.
LEMMA SayKeeps ==
  ASSUME TrafficInv, UNCHANGED <<contract, traffic, archive, origins, tally>>,
         (archive = None /\ told = None => tally = NoTally)', SuccessMeansConforming'
  PROVE  TrafficInv'
<1>1. contract' = contract /\ traffic' = traffic /\ archive' = archive /\ origins' = origins /\ tally' = tally
  OBVIOUS
<1>2. /\ \A x : IsApi(x)' <=> IsApi(x)
      /\ \A i, half : Unseen(i, half)' <=> Unseen(i, half)
      /\ \A i, kind : Mistaken(i, kind)' <=> Mistaken(i, kind)
  BY <1>1 DEF IsApi, Unseen, Mistaken
<1>3. (traffic = <<>> \/ traffic \in Traffics)' /\ Archived' /\ Tallied'
  BY <1>1 DEF TrafficInv, Archived, Tallied, Entries
<1>4. Passed'
  BY <1>1, <1>2 DEF TrafficInv, Passed
<1>5. FaultsAreReal'
  BY <1>1, <1>2 DEF TrafficInv, FaultsAreReal
<1> QED BY <1>3, <1>4, <1>5 DEF TrafficInv

\* A verdict that says nothing.
LEMMA RefuseKeeps ==
  ASSUME TrafficInv, Refuse
  PROVE  TrafficInv'
<1>1. told' = [success |-> FALSE, unverified |-> TRUE, about |-> {}] /\ tally = NoTally
      /\ UNCHANGED <<contract, traffic, sent, archive, origins, tally>>
  BY DEF Refuse, Say
<1>2. SuccessMeansConforming'
  BY <1>1 DEF SuccessMeansConforming
<1> QED BY <1>1, <1>2, SayKeeps

LEMMA ConcludeKeeps ==
  ASSUME TrafficInv, traffic # <<>>, Conclude
  PROVE  TrafficInv'
<1>1. /\ told' = [success |-> Clean, unverified |-> FALSE, about |-> Halves]
      /\ archive # None /\ tally.at = Len(traffic)
      /\ contract' = contract /\ traffic' = traffic /\ archive' = archive /\ origins' = origins /\ tally' = tally
  BY DEF Conclude, Say, Complete
<1>2. DOMAIN traffic = 1 .. tally.at
  BY <1>1, TrafficAssumption DEF TrafficInv
<1>3. told'.success = Clean /\ told'.about = Halves
  BY <1>1
<1>4. Clean => /\ \A i \in DOMAIN traffic, half \in Halves : Unseen(i, half) \/ Holds(traffic[i], half)
               /\ \E i \in DOMAIN traffic : IsApi(traffic[i])
  BY <1>1, <1>2 DEF TrafficInv, Passed, Clean
<1>5. /\ \A x : IsApi(x)' <=> IsApi(x)
      /\ \A i, half : Unseen(i, half)' <=> Unseen(i, half)
  BY <1>1 DEF IsApi, Unseen
<1>6. SuccessMeansConforming'
  BY <1>1, <1>3, <1>4, <1>5 DEF SuccessMeansConforming
<1>7. (archive = None /\ told = None => tally = NoTally)'
  BY <1>1
<1> QED BY <1>1, <1>6, <1>7, SayKeeps

\* An archive that grows, or is made, before the walk begins.
LEMMA ArchiveKeeps ==
  ASSUME TrafficInv, UNCHANGED <<contract, traffic, origins, tally, told>>, tally = NoTally, told = None, Archived'
  PROVE  TrafficInv'
<1>1. contract' = contract /\ traffic' = traffic /\ origins' = origins /\ tally' = tally /\ told' = told
  OBVIOUS
<1>2. tally.at = 0 /\ tally.entries = 0 /\ tally.results = {}
  BY DEF NoTally
<1>3. (traffic = <<>> \/ traffic \in Traffics)' /\ (archive = None /\ told = None => tally = NoTally)' /\ Tallied'
  BY <1>1 DEF TrafficInv, Tallied, NoTally
<1>4. Passed'
  BY <1>1, <1>2 DEF Passed
<1>5. FaultsAreReal'
  BY <1>1, <1>2 DEF FaultsAreReal
<1>6. SuccessMeansConforming'
  BY <1>1 DEF SuccessMeansConforming
<1> QED BY <1>3, <1>4, <1>5, <1>6 DEF TrafficInv

LEMMA RecordKeeps ==
  ASSUME TrafficInv, traffic # <<>>, Record
  PROVE  TrafficInv'
<1> DEFINE kept == IF archive = None THEN <<>> ELSE archive.entries
<1>1. /\ told = None /\ tally = NoTally /\ (archive # None => Len(archive.entries) < Len(traffic))
      /\ UNCHANGED <<contract, traffic, origins, tally, told>>
  BY DEF Record
<1>2. PICK response \in {"whole", "lost", "cut"}, request \in BOOLEAN :
         archive' = [by |-> "browser",
                     entries |-> Append(kept, [of |-> traffic[Len(kept) + 1], response |-> response, request |-> request])]
  BY DEF Record
<1>3. kept \in Seq(Entries) /\ Len(kept) < Len(traffic) /\ \A i \in 1 .. Len(kept) : kept[i].of = traffic[i]
  <2>1. Len(traffic) > 0
    BY TrafficAssumption DEF TrafficInv
  <2>2. CASE archive = None
    BY <2>1, <2>2
  <2>3. CASE archive # None
    BY <1>1, <2>3 DEF TrafficInv, Archived
  <2> QED BY <2>2, <2>3
<1> DEFINE new == [of |-> traffic[Len(kept) + 1], response |-> response, request |-> request]
<1> HIDE DEF kept
<1>4. DOMAIN traffic = 1 .. Len(traffic) /\ Len(kept) \in Nat
  BY <1>3, TrafficAssumption DEF TrafficInv
<1>5. Len(kept) + 1 \in DOMAIN traffic
  <2>1. Len(traffic) \in Int
    BY <1>3, <1>4, TrafficAssumption DEF TrafficInv
  <2> QED BY <1>3, <1>4, <2>1
<1>6. new \in Entries /\ new.of = traffic[Len(kept) + 1]
  BY <1>5 DEF Entries
<1> HIDE DEF new
<1>7. archive'.entries = Append(kept, new)
  BY <1>2 DEF new
<1>8. Append(kept, new) \in Seq(Entries) /\ Len(Append(kept, new)) = Len(kept) + 1
      /\ \A i \in 1 .. Len(kept) + 1 : Append(kept, new)[i].of = traffic[i]
  BY <1>3, <1>4, <1>6
<1>9. traffic' = traffic /\ Entries' = Entries
  BY <1>1 DEF Entries
<1>10. Archived'
  BY <1>3, <1>4, <1>5, <1>7, <1>8, <1>9 DEF Archived
<1> QED BY <1>1, <1>10, ArchiveKeeps

LEMMA ProduceKeeps ==
  ASSUME TrafficInv, traffic # <<>>, Produce
  PROVE  TrafficInv'
<1>1. told = None /\ archive = None /\ tally = NoTally /\ UNCHANGED <<contract, traffic, origins, tally>>
  BY DEF Produce, TrafficInv
<1>2. CASE sent # "sent"
  <2>1. told' = [success |-> FALSE, unverified |-> TRUE, about |-> {}] /\ archive' = archive
    BY <1>2 DEF Produce, Say
  <2>2. SuccessMeansConforming'
    BY <2>1 DEF SuccessMeansConforming
  <2> QED BY <1>1, <2>1, <2>2, SayKeeps
<1>3. CASE sent = "sent"
  <2> DEFINE all == [i \in DOMAIN traffic |-> [of |-> traffic[i], response |-> "whole", request |-> TRUE]]
  <2>1. archive' = [by |-> "run", entries |-> all] /\ told' = told
    BY <1>3 DEF Produce
  <2>2. DOMAIN traffic = 1 .. Len(traffic) /\ Len(traffic) > 0
    BY TrafficAssumption DEF TrafficInv
  <2>3. Len(traffic) \in Nat
    BY <2>2, TrafficAssumption DEF TrafficInv
  <2>4. \A i \in 1 .. Len(traffic) : all[i] \in Entries /\ all[i].of = traffic[i]
    BY <2>2 DEF Entries
  <2>5. DOMAIN all = 1 .. Len(traffic)
    BY <2>2
  <2>6. all \in Seq(Entries) /\ Len(all) = Len(traffic)
    BY <2>2, <2>3, <2>4 DEF Entries
  <2> HIDE DEF all
  <2>7. traffic' = traffic /\ Entries' = Entries /\ archive'.entries = all
    BY <1>1, <2>1 DEF Entries
  <2>8. Archived'
    BY <2>3, <2>4, <2>6, <2>7 DEF Archived
  <2> QED BY <1>1, <2>1, <2>8, ArchiveKeeps
<1> QED BY <1>2, <1>3

-----------------------------------------------------------------------------
(* Surfaces that hold the one exchange themselves.                         *)

LEMMA DirectKeeps ==
  ASSUME TrafficInv, traffic # <<>>, NEW x, NEW success \in BOOLEAN, NEW about \in SUBSET (Halves \cup {"document"}),
         NEW outcome, outcome.unverified \in BOOLEAN, Direct(x, success, about, outcome),
         ~ Valid(outcome) => AFault(outcome, 1),
         success /\ Valid(outcome) /\ ~ outcome.unverified =>
            \A half \in about : Unseen(1, half) \/ Holds(traffic[1], half)
  PROVE  TrafficInv'
<1>1. /\ told = None /\ archive = None /\ Len(traffic) = 1
      /\ told' = [success |-> success /\ Valid(outcome), unverified |-> outcome.unverified, about |-> about]
      /\ tally' = [NoTally EXCEPT !.results = {[of |-> 1, outcome |-> outcome]}]
      /\ contract' = contract /\ traffic' = traffic /\ archive' = archive /\ origins' = origins
  BY DEF Direct, Say
<1>0. PICK results : results = {[of |-> 1, outcome |-> outcome]}
  OBVIOUS
<1>2. tally' = [at |-> 0, entries |-> 0, results |-> results, unresolved |-> 0, noSignal |-> 0, exercised |-> {}]
  BY <1>0, <1>1 DEF NoTally
<1>3. DOMAIN traffic = {1}
  BY <1>1, TrafficAssumption DEF TrafficInv
<1>4. /\ \A i, half : Unseen(i, half)' <=> Unseen(i, half)
      /\ \A i, kind : Mistaken(i, kind)' <=> Mistaken(i, kind)
  BY <1>1 DEF IsApi, Unseen, Mistaken
<1>5. told' \in [success : BOOLEAN, unverified : BOOLEAN, about : SUBSET (Halves \cup {"document"})]
  BY <1>1 DEF Valid
<1>6. told' # None
  BY <1>5, TrafficAssumption
<1>7. (traffic = <<>> \/ traffic \in Traffics)' /\ (archive = None /\ told = None => tally = NoTally)' /\ Archived'
  BY <1>1, <1>6 DEF TrafficInv, Archived
<1>8. Tallied'
  <2>1. tally'.at = 0 /\ tally'.entries = 0 /\ tally'.results = results /\ tally'.unresolved = 0 /\ tally'.noSignal = 0
        /\ tally'.exercised = {}
    BY <1>2
  <2> QED BY <1>2, <2>1 DEF Tallied
<1>9. Passed'
  BY <1>1 DEF Passed
<1>10. FaultsAreReal'
  <2>1. tally'.results = results
    BY <1>2
  <2>2. \A r \in results : r.of = 1 /\ r.outcome = outcome
    BY <1>0
  <2> QED BY <1>1, <1>4, <2>1, <2>2 DEF FaultsAreReal, AFault
<1>11. SuccessMeansConforming'
  <2>1. /\ told'.success <=> success /\ Valid(outcome)
        /\ told'.unverified <=> outcome.unverified
        /\ told'.about = about
    BY <1>1
  <2> QED BY <1>1, <1>3, <1>4, <2>1 DEF SuccessMeansConforming
<1> QED BY <1>7, <1>8, <1>9, <1>10, <1>11 DEF TrafficInv

\* The one exchange of a direct surface.
LEMMA TheExchange ==
  ASSUME TrafficInv, traffic # <<>>
  PROVE  IsExchange(traffic[1])
BY TrafficAssumption DEF TrafficInv

\* A request held against the description, when it is of a service.
LEMMA HeldRequest ==
  ASSUME NEW x, IsExchange(x), x.proto = "rest"
  PROVE  LET half == WholeRequest(x)
         IN  (~ Valid(half) => ~ RequestConforms(x)) /\ (Valid(half) /\ ~ half.unverified => RequestConforms(x))
<1>1. \/ Body(x) = None /\ x.body = "none"
      \/ Body(x) = "raw" /\ x.body = "text"
      \/ Body(x) \in {"good", "bad"} /\ x.body = Body(x)
  BY DEF Body, IsExchange
<1> DEFINE kept == Body(x)
<1> HIDE DEF kept
<1>2. PICK authoritative \in BOOLEAN : authoritative = TRUE
  OBVIOUS
<1> DEFINE half == RequestHalf(x, kept, ContentType(x), authoritative)
<1>3. /\ ~ Valid(half) => ~ RequestConforms(x)
      /\ Valid(half) /\ ~ half.unverified =>
           RequestConforms(x) \/ (~ authoritative /\ kept = None /\ x.op # None /\ ~ x.op.body.required)
  BY <1>1, BodyHalf DEF kept
<1> HIDE DEF half
<1>4. half = WholeRequest(x)
  BY <1>2 DEF half, kept, WholeRequest
<1> QED BY <1>2, <1>3, <1>4

LEMMA ResponseToolKeeps ==
  ASSUME TrafficInv, traffic # <<>>, ValidateResponseTool
  PROVE  TrafficInv'
<1> DEFINE x == traffic[1]
           r == ValidateResponse(x)
<1>1. x.proto = "rest" /\ Direct(x, TRUE, {"response"}, r)
  BY DEF ValidateResponseTool
<1>2. IsExchange(x)
  BY TheExchange
<1>3. x.op # None => None \notin DOMAIN x.op.responses
  BY <1>1, <1>2 DEF IsExchange
<1> HIDE DEF x, r
<1>4. (Valid(r) <=> ResponseConforms(x)) /\ ~ r.unverified
  BY <1>3, ResponseHalf DEF r
<1>5. r.unverified \in BOOLEAN
  BY DEF r, ValidateResponse, Found, Fine, Outcome
<1>6. Holds(x, "response") <=> ResponseConforms(x)
  BY <1>1 DEF Holds
<1>7. "response" \in Halves
  BY DEF Halves
<1>8. {"response"} \in SUBSET (Halves \cup {"document"})
  BY <1>7
<1>9. PICK yes \in BOOLEAN, about \in SUBSET (Halves \cup {"document"}) : yes = TRUE /\ about = {"response"}
  BY <1>8
<1>10. Direct(x, yes, about, r)
  BY <1>1, <1>9
<1>11. ~ Valid(r) => AFault(r, 1)
  BY <1>4, <1>6, <1>7 DEF AFault, x
<1>12. yes /\ Valid(r) /\ ~ r.unverified => \A half \in about : Unseen(1, half) \/ Holds(traffic[1], half)
  BY <1>4, <1>6, <1>9 DEF x
<1> QED BY <1>5, <1>10, <1>11, <1>12, DirectKeeps DEF x

LEMMA RequestToolKeeps ==
  ASSUME TrafficInv, traffic # <<>>, ValidateRequestTool
  PROVE  TrafficInv'
<1> DEFINE x == traffic[1]
           r == WholeRequest(x)
<1>1. x.proto = "rest" /\ IF IsEnvelope(x) THEN Direct(x, FALSE, {}, Unverified) ELSE Direct(x, TRUE, {"request"}, r)
  BY DEF ValidateRequestTool
<1>2. IsExchange(x)
  BY TheExchange
<1> HIDE DEF x
<1>3. (~ Valid(r) => ~ RequestConforms(x)) /\ (Valid(r) /\ ~ r.unverified => RequestConforms(x))
  BY <1>1, <1>2, HeldRequest
<1>4. r.unverified \in BOOLEAN /\ Unverified.unverified \in BOOLEAN /\ Valid(Unverified)
  BY Outcomes DEF WholeRequest, RequestHalf, ValidateBody, ValidatePresent, ValidateForm, Found, Fine, Unverified, Outcome
<1> HIDE DEF r
<1>5. Holds(x, "request") <=> RequestConforms(x)
  BY <1>1 DEF Holds
<1>6. "request" \in Halves
  BY DEF Halves
<1>7. CASE IsEnvelope(x)
  <2>1. PICK yes \in BOOLEAN, about \in SUBSET (Halves \cup {"document"}) : yes = FALSE /\ about = {}
    OBVIOUS
  <2> DEFINE u == Unverified
  <2>2. Direct(x, yes, about, u) /\ u.unverified \in BOOLEAN /\ Valid(u)
    BY <1>1, <1>4, <1>7, <2>1
  <2> HIDE DEF u
  <2>3. yes /\ Valid(u) /\ ~ u.unverified => \A half \in about : Unseen(1, half) \/ Holds(traffic[1], half)
    BY <2>1
  <2>4. ~ Valid(u) => AFault(u, 1)
    BY <2>2
  <2>5. u.unverified \in BOOLEAN /\ Direct(x, yes, about, u)
    BY <2>2
  <2> QED BY <2>3, <2>4, <2>5, DirectKeeps
<1>8. CASE ~ IsEnvelope(x)
  <2>1. PICK yes \in BOOLEAN, about \in SUBSET (Halves \cup {"document"}) : yes = TRUE /\ about = {"request"}
    BY <1>6
  <2>2. Direct(x, yes, about, r)
    BY <1>1, <1>8, <2>1
  <2>3. ~ Valid(r) => AFault(r, 1)
    BY <1>3, <1>5, <1>6 DEF AFault, x
  <2>4. yes /\ Valid(r) /\ ~ r.unverified => \A half \in about : Unseen(1, half) \/ Holds(traffic[1], half)
    BY <1>3, <1>5, <2>1 DEF x
  <2> QED BY <1>4, <2>2, <2>3, <2>4, DirectKeeps
<1> QED BY <1>7, <1>8

\* A GraphQL exchange held against the schema, with its answer or without.
LEMMA HeldGraphql ==
  ASSUME NEW x, IsExchange(x), NEW response \in BOOLEAN, NEW coercers
  PROVE  LET half == GraphqlHalf(x, response, coercers)
         IN  /\ half.unverified \in BOOLEAN
             /\ x.proto = "rest" => ~ Valid(half) /\ "graphql-syntax" \in half.findings
             /\ x.proto = "graphql" =>
                  /\ ~ Valid(half) => ~ GraphqlConforms(x)
                  /\ Valid(half) /\ ~ half.unverified /\ x.variables # "absent" =>
                       (response => GraphqlConforms(x)) /\ GraphqlConforms([x EXCEPT !.errors = FALSE])
<1> DEFINE half == GraphqlHalf(x, response, coercers)
<1>1. half.unverified \in BOOLEAN
  BY DEF GraphqlHalf, ValidateGraphql, Both, Found, Outcome
<1>2. CASE x.proto = "rest"
  <2>1. half = Found("graphql-syntax")
    BY <1>2 DEF GraphqlHalf
  <2>2. ~ Valid(half) /\ "graphql-syntax" \in half.findings
    <3> HIDE DEF half
    <3> QED BY <2>1, Outcomes DEF Warnings, Found, Outcome
  <2> HIDE DEF half
  <2>3. x.proto # "graphql"
    BY <1>2
  <2> QED BY <1>1, <2>2, <2>3 DEF half
<1>3. CASE x.proto # "rest"
  <2>1. x.proto = "graphql"
    BY <1>3 DEF IsExchange
  <2>2. PICK authoritative : authoritative = TRUE
    OBVIOUS
  <2> DEFINE g == ValidateGraphql([x EXCEPT !.errors = @ /\ response], x.variables, authoritative, coercers)
             z == [x EXCEPT !.errors = FALSE]
  <2>3. /\ ~ Valid(g) => ~ GraphqlConforms(x)
        /\ Valid(g) /\ ~ g.unverified /\ x.variables # "absent" => (response => GraphqlConforms(x)) /\ GraphqlConforms(z)
    BY <2>1, GraphqlHalves
  <2>4. half = g
    BY <1>3, <2>2 DEF GraphqlHalf
  <2> HIDE DEF g, half, z
  <2>5. /\ ~ Valid(half) => ~ GraphqlConforms(x)
        /\ Valid(half) /\ ~ half.unverified /\ x.variables # "absent" => (response => GraphqlConforms(x)) /\ GraphqlConforms(z)
    BY <2>3, <2>4
  <2> QED BY <1>1, <1>3, <2>1, <2>5 DEF half, z
<1> QED BY <1>2, <1>3

LEMMA CmdValidateKeeps ==
  ASSUME TrafficInv, traffic # <<>>, CmdValidate
  PROVE  TrafficInv'
<1> DEFINE x == traffic[1]
<1>1. PICK coercers \in BOOLEAN, response \in BOOLEAN :
        /\ contract.graphql /\ x.proto = "graphql"
        /\ Direct(x, TRUE, IF response THEN {"graphql"} ELSE {"document"}, GraphqlHalf(x, response, coercers))
  BY DEF CmdValidate
<1>2. IsExchange(x)
  BY TheExchange
<1> DEFINE r == GraphqlHalf(x, response, coercers)
           z == [x EXCEPT !.errors = FALSE]
<1> HIDE DEF x
<1>3. /\ r.unverified \in BOOLEAN
      /\ ~ Valid(r) => ~ GraphqlConforms(x)
      /\ Valid(r) /\ ~ r.unverified /\ x.variables # "absent" => (response => GraphqlConforms(x)) /\ GraphqlConforms(z)
  BY <1>1, <1>2, HeldGraphql
<1>4. "graphql" \in Halves
  BY DEF Halves
<1>5. PICK yes \in BOOLEAN, about \in SUBSET (Halves \cup {"document"}) :
        yes = TRUE /\ about = IF response THEN {"graphql"} ELSE {"document"}
  <2>1. (IF response THEN {"graphql"} ELSE {"document"}) \in SUBSET (Halves \cup {"document"})
    BY <1>4
  <2> QED BY <2>1
<1> HIDE DEF r
<1>6. Direct(x, yes, about, r)
  BY <1>1, <1>5 DEF r
<1>7. (Holds(x, "graphql") <=> GraphqlConforms(x)) /\ (Holds(x, "document") <=> GraphqlConforms(z))
  BY <1>1 DEF Holds
<1> HIDE DEF z
<1>8. x.variables = "absent" => Unseen(1, "graphql") /\ Unseen(1, "document")
  BY <1>1 DEF Unseen, x
<1>9. ~ Valid(r) => AFault(r, 1)
  BY <1>3, <1>4, <1>7 DEF AFault, x
<1>10. yes /\ Valid(r) /\ ~ r.unverified => \A half \in about : Unseen(1, half) \/ Holds(traffic[1], half)
  BY <1>3, <1>5, <1>7, <1>8 DEF x
<1> QED BY <1>3, <1>6, <1>9, <1>10, DirectKeeps

LEMMA CmdRunKeeps ==
  ASSUME TrafficInv, traffic # <<>>, CmdRun
  PROVE  TrafficInv'
<1> DEFINE x == traffic[1]
           answered == sent # "withheld"
           about == (IF contract.openapi /\ answered THEN {"response"} ELSE {})
                    \cup (IF contract.openapi /\ ~ IsEnvelope(x) THEN {"request"} ELSE {})
                    \cup (IF contract.graphql /\ IsEnvelope(x) THEN {"graphql"} ELSE {})
           half(name, coercers) == IF name \notin about THEN Fine
                         ELSE CASE name = "response" -> ValidateResponse(x)
                                [] name = "request"  -> WholeRequest(x)
                                [] OTHER             -> GraphqlHalf(x, answered, coercers)
<1>1. PICK assertions \in BOOLEAN, coercers \in BOOLEAN :
        Direct(x, answered /\ assertions, about,
               Both(half("response", coercers), Both(half("request", coercers), half("graphql", coercers))))
  BY DEF CmdRun
<1> DEFINE a == IF "response" \notin about THEN Fine ELSE ValidateResponse(x)
           b == IF "request" \notin about THEN Fine ELSE WholeRequest(x)
           c == IF "graphql" \notin about THEN Fine ELSE GraphqlHalf(x, answered, coercers)
           r == Both(a, Both(b, c))
           success == answered /\ assertions
<1>2. IsExchange(x)
  BY TheExchange
<1>3. archive = None
  BY <1>1 DEF Direct
<1>4. Direct(x, success, about, r)
  <2>1. half("response", coercers) = a /\ half("request", coercers) = b /\ half("graphql", coercers) = c
    <3> HIDE DEF about, x
    <3> QED OBVIOUS
  <2> HIDE DEF half, a, b, c, about
  <2> QED BY <1>1, <2>1
<1>5. /\ "response" \in about => contract.openapi
      /\ "request" \in about => contract.openapi
      /\ "graphql" \in about => IsEnvelope(x)
      /\ about \subseteq {"response", "request", "graphql"}
  OBVIOUS
<1>6. answered \in BOOLEAN /\ success \in BOOLEAN
  OBVIOUS
<1> HIDE DEF half, about, x
<1>7. /\ Valid(r) <=> Valid(a) /\ Valid(b) /\ Valid(c)
      /\ r.unverified <=> a.unverified \/ b.unverified \/ c.unverified
      /\ r.unverified \in BOOLEAN
      /\ r.findings = a.findings \cup (b.findings \cup c.findings)
  <2> HIDE DEF a, b, c
  <2>1. /\ Valid(r) <=> Valid(a) /\ Valid(Both(b, c))
        /\ r.unverified <=> a.unverified \/ Both(b, c).unverified
        /\ r.findings = a.findings \cup Both(b, c).findings
    BY BothHalves
  <2>2. r.unverified \in BOOLEAN
    BY DEF Both, Outcome
  <2> QED BY <2>1, <2>2, BothHalves
<1>8. CASE x.proto = "rest"
  <2>1. x.op # None => None \notin DOMAIN x.op.responses
    BY <1>2, <1>8 DEF IsExchange
  <2>2. (Valid(ValidateResponse(x)) <=> ResponseConforms(x)) /\ ~ ValidateResponse(x).unverified
    BY <2>1, ResponseHalf
  <2>3. /\ ~ Valid(WholeRequest(x)) => ~ RequestConforms(x)
        /\ Valid(WholeRequest(x)) /\ ~ WholeRequest(x).unverified => RequestConforms(x)
    BY <1>2, <1>8, HeldRequest
  <2>4. /\ Holds(x, "response") <=> ResponseConforms(x)
        /\ Holds(x, "request") <=> RequestConforms(x)
        /\ Holds(x, "graphql")
    BY <1>8 DEF Holds
  <2>5. ~ Valid(a) => ~ Holds(x, "response")
    BY <2>2, <2>4, Outcomes
  <2>6. ~ Valid(b) => ~ Holds(x, "request")
    BY <2>3, <2>4, Outcomes
  <2>7. ~ Valid(c) => AFault(r, 1)
    <3>1. ~ Valid(c) => "graphql" \in about
      BY Outcomes
    <3>2. "graphql" \in about => x.search
      BY <1>5, <1>8 DEF IsEnvelope
    <3>3. x.search => Mistaken(1, "graphql-syntax")
      BY <1>8 DEF Mistaken, x
    <3>4. "graphql" \in about => c = GraphqlHalf(x, answered, coercers)
      OBVIOUS
    <3>5. "graphql-syntax" \in GraphqlHalf(x, answered, coercers).findings
      <4> HIDE DEF answered
      <4> QED BY <1>2, <1>6, <1>8, HeldGraphql
    <3> HIDE DEF a, b, c, r
    <3> QED BY <1>7, <3>1, <3>2, <3>3, <3>4, <3>5 DEF AFault
  <2>8. "response" \in about /\ Valid(a) => Holds(x, "response")
    BY <2>2, <2>4
  <2>9. "request" \in about /\ Valid(b) /\ ~ b.unverified => Holds(x, "request")
    BY <2>3, <2>4
  <2> HIDE DEF a, b, c, r
  <2>10. ~ Valid(r) => AFault(r, 1)
    BY <1>7, <2>5, <2>6, <2>7 DEF AFault, Halves, x
  <2>11. success /\ Valid(r) /\ ~ r.unverified => \A name \in about : Unseen(1, name) \/ Holds(traffic[1], name)
    <3>1. Valid(r) /\ ~ r.unverified => \A name \in about : Holds(x, name)
      BY <1>5, <1>7, <2>4, <2>8, <2>9
    <3> QED BY <3>1 DEF x
  <2>12. about \in SUBSET (Halves \cup {"document"})
    BY <1>5 DEF Halves
  <2> HIDE DEF success
  <2> QED BY <1>4, <1>6, <1>7, <2>10, <2>11, <2>12, DirectKeeps
<1>9. CASE x.proto # "rest"
  <2>1. x.proto = "graphql"
    BY <1>2, <1>9 DEF IsExchange
  <2>2. contract.openapi => Mistaken(1, "missing-operation")
    BY <1>3, <2>1 DEF Mistaken, x
  <2>3. Holds(x, "response") /\ Holds(x, "request") /\ (Holds(x, "graphql") <=> GraphqlConforms(x))
    BY <2>1 DEF Holds
  <2>4. ~ Valid(a) \/ ~ Valid(b) => AFault(r, 1)
    <3>0. x.op = None
      BY <1>2, <2>1 DEF IsExchange
    <3>1. (~ Valid(a) => "response" \in about) /\ (~ Valid(b) => "request" \in about)
      BY Outcomes
    <3>2. /\ "response" \in about => a = Found("missing-operation")
          /\ "request" \in about => b = Found("missing-operation")
      BY <3>0 DEF ValidateResponse, WholeRequest, RequestHalf
    <3>3. "missing-operation" \in Found("missing-operation").findings
      BY DEF Found, Outcome
    <3> HIDE DEF a, b, c, r
    <3> QED BY <1>5, <1>7, <2>2, <3>1, <3>2, <3>3 DEF AFault
  <2> DEFINE g == GraphqlHalf(x, answered, coercers)
  <2>5. /\ ~ Valid(g) => ~ GraphqlConforms(x)
        /\ Valid(g) /\ ~ g.unverified /\ x.variables # "absent" => (answered => GraphqlConforms(x))
    <3> HIDE DEF answered
    <3> QED BY <1>2, <1>6, <2>1, HeldGraphql
  <2>6. ~ Valid(c) => ~ Holds(x, "graphql")
    BY <2>3, <2>5, Outcomes
  <2>7. "graphql" \in about => c = g
    OBVIOUS
  <2>8. x.variables = "absent" => Unseen(1, "graphql")
    BY <2>1 DEF Unseen, x
  <2> HIDE DEF a, b, c, r, g
  <2>9. ~ Valid(r) => AFault(r, 1)
    BY <1>7, <2>3, <2>4, <2>6 DEF AFault, Halves, x
  <2>10. success /\ Valid(r) /\ ~ r.unverified => \A name \in about : Unseen(1, name) \/ Holds(traffic[1], name)
    <3>1. success /\ Valid(r) /\ ~ r.unverified /\ "graphql" \in about => Unseen(1, "graphql") \/ Holds(x, "graphql")
      BY <1>7, <2>3, <2>5, <2>7, <2>8
    <3> HIDE DEF success
    <3> QED BY <1>5, <2>3, <3>1 DEF x
  <2>11. about \in SUBSET (Halves \cup {"document"})
    BY <1>5 DEF Halves
  <2> HIDE DEF success
  <2> QED BY <1>4, <1>6, <1>7, <2>9, <2>10, <2>11, DirectKeeps
<1> QED BY <1>8, <1>9

-----------------------------------------------------------------------------
(* The theorems.                                                           *)

LEMMA TrafficStarts ==
  Init => TrafficInv
<1>1. ASSUME Init
      PROVE  /\ traffic = <<>> \/ traffic \in Traffics
             /\ archive = None /\ tally = NoTally /\ told = None
  BY <1>1 DEF Init, TrafficRests, TrafficInit, Unarchived
<1>2. ASSUME archive = None, tally = NoTally, told = None
      PROVE  Archived /\ Tallied /\ Passed /\ FaultsAreReal /\ SuccessMeansConforming
  BY <1>2 DEF Archived, Tallied, Passed, FaultsAreReal, SuccessMeansConforming, NoTally
<1> QED BY <1>1, <1>2 DEF TrafficInv

LEMMA TrafficSteps ==
  TrafficInv /\ [Next]_vars => TrafficInv'
<1> SUFFICES ASSUME TrafficInv, [Next]_vars PROVE TrafficInv'
  OBVIOUS
<1>1. ASSUME UNCHANGED tvars PROVE TrafficInv'
  <2>1. /\ contract' = contract /\ traffic' = traffic /\ archive' = archive /\ origins' = origins
        /\ tally' = tally /\ told' = told
    BY <1>1 DEF tvars
  <2>2. SuccessMeansConforming'
    <3>1. /\ \A x : IsApi(x)' <=> IsApi(x)
          /\ \A i, half : Unseen(i, half)' <=> Unseen(i, half)
      BY <2>1 DEF IsApi, Unseen
    <3> QED BY <2>1, <3>1 DEF TrafficInv, SuccessMeansConforming
  <2>3. (archive = None /\ told = None => tally = NoTally)'
    BY <2>1 DEF TrafficInv
  <2> QED BY <2>1, <2>2, <2>3, SayKeeps
<1>2. ASSUME traffic # <<>>, TrafficNext PROVE TrafficInv'
  <2>1. CASE Record BY <1>2, <2>1, RecordKeeps
  <2>2. CASE Produce BY <1>2, <2>2, ProduceKeeps
  <2>3. CASE Refuse BY <2>3, RefuseKeeps
  <2>4. CASE Skip BY <2>4, SkipKeeps
  <2>5. CASE Unresolved BY <2>5, UnresolvedKeeps
  <2>6. CASE NoSignal BY <2>6, NoSignalKeeps
  <2>7. CASE NoQuery BY <2>7, NoQueryKeeps
  <2>8. CASE CheckGraphql BY <2>8, CheckGraphqlKeeps
  <2>9. CASE CheckRest BY <2>9, CheckRestKeeps
  <2>10. CASE CmdValidateCapture \/ ValidateCaptureTool
    BY <1>2, <2>10, ConcludeKeeps DEF CmdValidateCapture, ValidateCaptureTool
  <2>11. CASE CmdRun BY <1>2, <2>11, CmdRunKeeps
  <2>12. CASE CmdValidate BY <1>2, <2>12, CmdValidateKeeps
  <2>13. CASE ValidateResponseTool BY <1>2, <2>13, ResponseToolKeeps
  <2>14. CASE CmdValidateRequest \/ ValidateRequestTool
    BY <1>2, <2>14, RequestToolKeeps DEF CmdValidateRequest
  <2> QED BY <1>2, <2>1, <2>2, <2>3, <2>4, <2>5, <2>6, <2>7, <2>8, <2>9, <2>10, <2>11, <2>12, <2>13, <2>14
             DEF TrafficNext
<1>3. UNCHANGED tvars \/ (traffic # <<>> /\ TrafficNext)
  BY DEF Next, Finished, vars
<1> QED BY <1>1, <1>2, <1>3

\* At every point of the walk: the archive has what happened, in its order, and
\* as long as nothing is unresolved, without signal or faulted, every exchange
\* walked so far keeps the contract (validateCapturedTraffic).
THEOREM TrafficHolds == Spec => []TrafficInv
BY TrafficStarts, TrafficSteps, PTL DEF Spec

\* Whatever an archive lost and whatever was sent: a surface that reports
\* success with nothing unverified speaks of exchanges that keep the contract
\* (har-capture.ts, "absence is never a pass").
THEOREM SuccessIsConformance == Spec => []SuccessMeansConforming
<1>1. TrafficInv => SuccessMeansConforming
  BY DEF TrafficInv
<1> QED BY <1>1, TrafficHolds, PTL

\* A result is faulted only for an exchange that breaches the contract, or that
\* a surface takes for one of another protocol.
THEOREM FaultsAreOfTheTraffic == Spec => []FaultsAreReal
<1>1. TrafficInv => FaultsAreReal
  BY DEF TrafficInv
<1> QED BY <1>1, TrafficHolds, PTL

-----------------------------------------------------------------------------
(* Texts.  A text is split lexeme by lexeme and joined part by part, so    *)
(* both are known by what one more does to them.                           *)

\* A set of numbers that is not empty has a least one.
LEMMA MinimalNumber ==
  ASSUME NEW Bad \in SUBSET Nat, Bad # {}
  PROVE  \E n \in Bad : \A k \in Bad : n <= k
<1>1. PICK n \in Bad : \A k \in Bad : ~ (<<k, n>> \in OpToRel(<, Nat))
  BY NatLessThanWellFounded, WFMin, Zenon
<1>2. \A k \in Bad : ~ (k < n)
  BY <1>1 DEF OpToRel
<1> QED BY <1>2

\* What holds at the start and is kept by one more holds throughout.
LEMMA Throughout ==
  ASSUME NEW n \in Nat, NEW Good, 0 \in Good, \A i \in 1 .. n : i - 1 \in Good => i \in Good
  PROVE  \A i \in 0 .. n : i \in Good
<1> DEFINE Bad == {i \in 0 .. n : i \notin Good}
<1> SUFFICES ASSUME Bad # {} PROVE FALSE
  OBVIOUS
<1>2. PICK i \in Bad : \A k \in Bad : i <= k
  <2>1. Bad \in SUBSET Nat /\ Bad # {}
    OBVIOUS
  <2> HIDE DEF Bad
  <2> QED BY <2>1, MinimalNumber
<1>3. i \in 1 .. n /\ i - 1 \in 0 .. n /\ i - 1 \notin Bad
  BY <1>2
<1> QED BY <1>2, <1>3

\* A recursion along an interval has a solution: h is what one more makes of
\* what there is.
Solves(g, n, a, h) == g = [k \in 0 .. n |-> IF k = 0 THEN a ELSE h[<<k, g[k - 1]>>]]

\* A function that is defined from one number to the next exists.
LEMMA Recursion ==
  ASSUME NEW n \in Nat, NEW a, NEW h
  PROVE  \E g : Solves(g, n, a, h)
<1> DEFINE Of(k, before) == IF k = 0 THEN a ELSE h[<<k, before>>]
           Upto(g, m) == g = [k \in 0 .. m |-> Of(k, g[k - 1])]
           Good == {m \in 0 .. n : \E g : Upto(g, m)}
<1>1. 0 \in Good
  <2>1. PICK g : g = [i \in 0 .. 0 |-> a]
    OBVIOUS
  <2>2. \A i \in 0 .. 0 : Of(i, g[i - 1]) = a
    OBVIOUS
  <2> HIDE DEF Of
  <2>3. g = [i \in 0 .. 0 |-> Of(i, g[i - 1])]
    BY <2>1, <2>2
  <2> QED BY <2>3
<1>3. \A x, y : Of(0, x) = Of(0, y)
  OBVIOUS
<1> HIDE DEF Of
<1>2. ASSUME NEW k \in 1 .. n, k - 1 \in Good
      PROVE  k \in Good
  <2>1. PICK g : Upto(g, k - 1)
    BY <1>2
  <2> DEFINE e == [i \in 0 .. k |-> IF i = k THEN Of(k, g[k - 1]) ELSE g[i]]
  <2>2. \A i \in 0 .. k - 1 : e[i] = g[i]
    OBVIOUS
  <2>3. \A i \in 0 .. k - 1 : g[i] = Of(i, g[i - 1])
    BY <2>1
  <2>4. e[k] = Of(k, e[k - 1])
    BY <2>2
  <2>5. \A i \in 0 .. k - 1 : e[i] = Of(i, e[i - 1])
    <3> SUFFICES ASSUME NEW i \in 0 .. k - 1 PROVE e[i] = Of(i, e[i - 1])
      OBVIOUS
    <3>1. e[i] = g[i] /\ (i > 0 => e[i - 1] = g[i - 1])
      BY <2>2
    <3> HIDE DEF e
    <3> QED BY <3>1, <1>3, <2>3
  <2>6. e = [i \in 0 .. k |-> e[i]]
    OBVIOUS
  <2> HIDE DEF e
  <2>7. \A i \in 0 .. k : e[i] = Of(i, e[i - 1])
    <3>1. \A i \in 0 .. k : i = k \/ i \in 0 .. k - 1
      OBVIOUS
    <3> QED BY <2>4, <2>5, <3>1
  <2>8. [i \in 0 .. k |-> e[i]] = [i \in 0 .. k |-> Of(i, e[i - 1])]
    BY <2>7
  <2>9. e = [i \in 0 .. k |-> Of(i, e[i - 1])]
    BY ONLY <2>6, <2>8
  <2> QED BY <2>9
<1>4. n \in Good
  <2> HIDE DEF Good
  <2> QED BY <1>1, <1>2, Throughout
<1>5. PICK g : Upto(g, n)
  BY <1>4
<1> QED BY <1>5 DEF Of, Solves

\* What such a function is, step by step.
LEMMA SolvesSteps ==
  ASSUME NEW n \in Nat, NEW a, NEW h, NEW g, Solves(g, n, a, h)
  PROVE  /\ g[0] = a /\ \A k \in 1 .. n : g[k] = h[<<k, g[k - 1]>>]
         /\ g = [k \in 0 .. n |-> g[k]]
<1> DEFINE Of(k) == IF k = 0 THEN a ELSE h[<<k, g[k - 1]>>]
<1>1. g = [k \in 0 .. n |-> Of(k)]
  BY DEF Solves
<1>2. Of(0) = a /\ \A k \in 1 .. n : Of(k) = h[<<k, g[k - 1]>>]
  OBVIOUS
<1> HIDE DEF Of
<1>3. \A k \in 0 .. n : g[k] = Of(k)
  BY <1>1
<1>4. 0 \in 0 .. n /\ \A k \in 1 .. n : k \in 0 .. n
  OBVIOUS
<1>5. g = [k \in 0 .. n |-> g[k]]
  BY <1>1
<1> QED BY ONLY <1>2, <1>3, <1>4, <1>5

\* The first k of a sequence.
First(s, k) == SubSeq(s, 1, k)

\* The first elements of a sequence, one more at a time.
LEMMA FirstOnes ==
  ASSUME NEW S, NEW s \in Seq(S)
  PROVE  /\ Len(s) \in Nat /\ First(s, 0) = <<>> /\ First(s, Len(s)) = s
         /\ \A k \in 0 .. Len(s) : First(s, k) \in Seq(S) /\ Len(First(s, k)) = k
         /\ \A k \in 1 .. Len(s) : s[k] \in S /\ First(s, k) = Append(First(s, k - 1), s[k])
<1>1. Len(s) \in Nat /\ \A k \in 1 .. Len(s) : s[k] \in S
  OBVIOUS
<1>2. ASSUME NEW k \in 0 .. Len(s)
      PROVE  /\ First(s, k) \in Seq(S) /\ Len(First(s, k)) = k
             /\ \A i \in 1 .. k : First(s, k)[i] = s[i]
  BY <1>1, SubSeqProperties DEF First
<1>3. First(s, 0) = <<>>
  BY SubSeqEmpty DEF First
<1>4. First(s, Len(s)) = s
  BY <1>1, <1>2, SeqEqual
<1>5. ASSUME NEW k \in 1 .. Len(s)
      PROVE  First(s, k) = Append(First(s, k - 1), s[k])
  <2>1. PICK t, u : t = First(s, k) /\ u = First(s, k - 1)
    OBVIOUS
  <2>6. k \in 0 .. Len(s) /\ k - 1 \in 0 .. Len(s)
    BY <1>1
  <2>2. /\ t \in Seq(S) /\ Len(t) = k /\ \A i \in 1 .. k : t[i] = s[i]
        /\ u \in Seq(S) /\ Len(u) = k - 1 /\ \A i \in 1 .. k - 1 : u[i] = s[i]
    BY ONLY <1>2, <2>1, <2>6
  <2>3. Append(u, s[k]) \in Seq(S) /\ Len(Append(u, s[k])) = k
    BY <1>1, <2>2
  <2>4. \A i \in 1 .. k : Append(u, s[k])[i] = s[i]
    BY <1>1, <2>2
  <2>5. t = Append(u, s[k])
    BY <2>2, <2>3, <2>4, SeqEqual
  <2> QED BY <2>1, <2>5
<1> QED BY <1>1, <1>2, <1>3, <1>4, <1>5

-----------------------------------------------------------------------------
(* Splitting.                                                              *)

\* What one more lexeme does to the parts.
Parted(before, x, mark) ==
  IF x = mark THEN Append(before, <<>>) ELSE [before EXCEPT ![Len(before)] = Append(@, x)]

\* What there is of a text always has an open part.
Parts(S) == {Append(f, v) : f \in Seq(Seq(S)), v \in Seq(S)}

\* One lexeme more closes the open part, or goes to its end.
LEMMA PartedIs ==
  ASSUME NEW S, NEW f \in Seq(Seq(S)), NEW v \in Seq(S), NEW x \in S, NEW mark
  PROVE  Parted(Append(f, v), x, mark) = IF x = mark THEN Append(Append(f, v), <<>>) ELSE Append(f, Append(v, x))
<1>1. CASE x = mark
  BY <1>1 DEF Parted
<1>2. CASE x # mark
  <2>1. PICK s, w : s = Append(f, v) /\ w = Append(v, x)
    OBVIOUS
  <2>2. w \in Seq(S)
    BY <2>1, AppendProperties
  <2>3. /\ s \in Seq(Seq(S)) /\ Len(s) = Len(f) + 1 /\ Len(f) \in Nat /\ s[Len(s)] = v
        /\ \A i \in 1 .. Len(f) : s[i] = f[i]
    BY <2>1, AppendProperties
  <2>4. PICK r : r = [s EXCEPT ![Len(s)] = w]
    OBVIOUS
  <2>5. /\ r \in Seq(Seq(S)) /\ Len(r) = Len(s) /\ \A i \in 1 .. Len(s) : r[i] = IF i = Len(s) THEN w ELSE s[i]
    BY <2>2, <2>3, <2>4, ExceptSeq
  <2>6. PICK q : q = Append(f, w)
    OBVIOUS
  <2>7. q \in Seq(Seq(S)) /\ Len(q) = Len(f) + 1 /\ q[Len(f) + 1] = w /\ \A i \in 1 .. Len(f) : q[i] = f[i]
    BY <2>2, <2>6, AppendProperties
  <2>8. \A i \in 1 .. Len(r) : r[i] = q[i]
    <3>1. PICK m \in Nat : m = Len(f)
      BY <2>3
    <3>2. \A i \in 1 .. m + 1 : i = m + 1 \/ i \in 1 .. m
      OBVIOUS
    <3>3. Len(s) = m + 1 /\ Len(r) = m + 1 /\ r[m + 1] = w /\ q[m + 1] = w
      BY <2>3, <2>5, <2>7, <3>1
    <3>4. ASSUME NEW i \in 1 .. m PROVE r[i] = q[i]
      <4>1. i \in 1 .. m + 1 /\ i # m + 1
        OBVIOUS
      <4>2. r[i] = s[i]
        BY <2>5, <3>3, <4>1
      <4> QED BY <2>3, <2>7, <3>1, <4>2
    <3> QED BY <3>2, <3>3, <3>4
  <2>9. r = q
    BY <2>3, <2>5, <2>7, <2>8, SeqEqual
  <2>10. [s EXCEPT ![Len(s)] = Append(@, x)] = r
    BY <2>1, <2>3, <2>4
  <2> QED BY <1>2, <2>1, <2>6, <2>9, <2>10 DEF Parted
<1> QED BY <1>1, <1>2

LEMMA WithOpenPart ==
  ASSUME NEW S, NEW e \in Seq(Seq(S)), NEW w \in Seq(S)
  PROVE  Append(e, w) \in Parts(S)
BY DEF Parts

LEMMA PartedInParts ==
  ASSUME NEW S, NEW s \in Parts(S), NEW x \in S, NEW mark
  PROVE  Parted(s, x, mark) \in Parts(S)
<1>1. PICK f \in Seq(Seq(S)), v \in Seq(S) : s = Append(f, v)
  BY DEF Parts
<1>2. Append(f, v) \in Seq(Seq(S))
  BY AppendProperties
<1>3. Append(v, x) \in Seq(S) /\ <<>> \in Seq(S)
  BY AppendProperties, EmptySeq
<1>4. Parted(s, x, mark) = IF x = mark THEN Append(Append(f, v), <<>>) ELSE Append(f, Append(v, x))
  BY <1>1, PartedIs
<1>5. Append(Append(f, v), <<>>) \in Parts(S) /\ Append(f, Append(v, x)) \in Parts(S)
  BY <1>2, <1>3, WithOpenPart
<1> QED BY <1>4, <1>5

\* The start of a split: one part, open and empty.
LEMMA OnePart ==
  ASSUME NEW S
  PROVE  << <<>> >> \in Parts(S) /\ << <<>> >> = Append(<<>>, <<>>)
<1>1. << <<>> >> = Append(<<>>, <<>>) /\ <<>> \in Seq(Seq(S)) /\ <<>> \in Seq(S)
  OBVIOUS
<1> QED BY ONLY <1>1, WithOpenPart

\* The parts of the first lexemes, as many as there are.
SplitRun(g, text, mark, n) ==
  /\ Split(text, mark) = g[n] /\ g[0] = << <<>> >>
  /\ \A k \in 1 .. n : g[k] = Parted(g[k - 1], text[k], mark)

LEMMA SplitRunInParts ==
  ASSUME NEW S, NEW text \in Seq(S), NEW mark, NEW n \in Nat, n = Len(text), NEW g, SplitRun(g, text, mark, n)
  PROVE  \A k \in 0 .. n : g[k] \in Parts(S)
<1> DEFINE Good == {k \in 0 .. n : g[k] \in Parts(S)}
<1>1. 0 \in Good
  BY OnePart DEF SplitRun
<1>2. ASSUME NEW k \in 1 .. n, k - 1 \in Good PROVE k \in Good
  <2>1. g[k - 1] \in Parts(S) /\ text[k] \in S
    BY <1>2
  <2>2. g[k] = Parted(g[k - 1], text[k], mark)
    BY DEF SplitRun
  <2>3. g[k] \in Parts(S)
    BY ONLY <2>1, <2>2, PartedInParts
  <2> QED BY <2>3
<1>3. \A k \in 0 .. n : k \in Good
  <2> HIDE DEF Good
  <2> QED BY <1>1, <1>2, Throughout
<1> QED BY <1>3

\* Split is such a run, for the text of any length.
LEMMA SplitRuns ==
  ASSUME NEW S, NEW text \in Seq(S), NEW mark, NEW n \in Nat, n = Len(text)
  PROVE  \E g : SplitRun(g, text, mark, n)
<1> DEFINE Here(g) == g = [k \in 0 .. n |-> IF k = 0 THEN << <<>> >> ELSE Parted(g[k - 1], text[k], mark)]
<1>0. \A k \in 1 .. n : text[k] \in S
  OBVIOUS
<1>1. \E g : Here(g)
  <2>1. PICK h : h = [q \in (1 .. n) \X Parts(S) |-> Parted(q[2], text[q[1]], mark)]
    OBVIOUS
  <2>0. PICK a : a = << <<>> >>
    OBVIOUS
  <2>2. PICK g : Solves(g, n, a, h)
    BY Recursion
  <2>3. g[0] = << <<>> >> /\ \A k \in 1 .. n : g[k] = h[<<k, g[k - 1]>>]
    BY <2>0, <2>2, SolvesSteps
  <2>4. \A k \in 1 .. n, s \in Parts(S) : h[<<k, s>>] = Parted(s, text[k], mark)
    BY <2>1
  <2>5. \A k \in 0 .. n : g[k] \in Parts(S)
    <3> DEFINE Good == {k \in 0 .. n : g[k] \in Parts(S)}
    <3>1. 0 \in Good
      BY OnePart, <2>3
    <3>2. ASSUME NEW k \in 1 .. n, k - 1 \in Good PROVE k \in Good
      <4>1. g[k - 1] \in Parts(S) /\ text[k] \in S
        BY <1>0, <3>2
      <4>2. g[k] = Parted(g[k - 1], text[k], mark)
        BY <2>3, <2>4, <4>1
      <4>3. g[k] \in Parts(S)
        BY ONLY <4>1, <4>2, PartedInParts
      <4> QED BY <4>3
    <3>3. \A k \in 0 .. n : k \in Good
      <4> HIDE DEF Good
      <4> QED BY <3>1, <3>2, Throughout
    <3> QED BY <3>3
  <2>6. \A k \in 1 .. n : g[k] = Parted(g[k - 1], text[k], mark)
    <3> TAKE k \in 1 .. n
    <3>1. k - 1 \in 0 .. n
      OBVIOUS
    <3> QED BY <2>3, <2>4, <2>5, <3>1
  <2>7. g = [k \in 0 .. n |-> IF k = 0 THEN << <<>> >> ELSE Parted(g[k - 1], text[k], mark)]
    <3>1. g = [k \in 0 .. n |-> g[k]]
      BY <2>2, SolvesSteps
    <3>2. \A k \in 0 .. n : g[k] = IF k = 0 THEN << <<>> >> ELSE Parted(g[k - 1], text[k], mark)
      BY <2>3, <2>6
    <3>3. [k \in 0 .. n |-> g[k]] = [k \in 0 .. n |-> IF k = 0 THEN << <<>> >> ELSE Parted(g[k - 1], text[k], mark)]
      BY <3>2
    <3> QED BY ONLY <3>1, <3>3
  <2> QED BY <2>7
<1>2. Split(text, mark) = (CHOOSE g : Here(g))[n]
  BY DEF Split, Parted
<1>3. PICK g : g = CHOOSE e : Here(e)
  OBVIOUS
<1>4. Here(g)
  BY <1>1, <1>3
<1>5. g[0] = << <<>> >> /\ \A k \in 1 .. n : g[k] = Parted(g[k - 1], text[k], mark)
  BY <1>4
<1> QED BY <1>2, <1>3, <1>5 DEF SplitRun

\* One more lexeme ends the open part or makes it longer.
LEMMA SplitGrows ==
  ASSUME NEW S, NEW text \in Seq(S), NEW x \in S, NEW mark
  PROVE  Split(Append(text, x), mark) = Parted(Split(text, mark), x, mark) /\ Split(text, mark) \in Parts(S)
<1>1. PICK more, n, m : more = Append(text, x) /\ n = Len(text) /\ m = n + 1
  OBVIOUS
<1>2. /\ more \in Seq(S) /\ m = Len(more) /\ n \in Nat /\ m \in Nat /\ more[m] = x
      /\ \A k \in 1 .. n : more[k] = text[k]
  BY <1>1, AppendProperties
<1>3. PICK g : SplitRun(g, text, mark, n)
  BY <1>1, <1>2, SplitRuns
<1>4. PICK h : SplitRun(h, more, mark, m)
  BY <1>2, SplitRuns
<1>5. h[n] = g[n]
  <2> DEFINE Good == {k \in 0 .. n : h[k] = g[k]}
  <2>1. 0 \in Good
    <3>1. g[0] = h[0]
      BY <1>3, <1>4 DEF SplitRun
    <3> QED BY <1>2, <3>1
  <2>2. ASSUME NEW k \in 1 .. n, k - 1 \in Good PROVE k \in Good
    <3>1. h[k - 1] = g[k - 1] /\ k \in 1 .. m /\ more[k] = text[k]
      BY <1>1, <1>2, <2>2
    <3>2. h[k] = Parted(h[k - 1], more[k], mark) /\ g[k] = Parted(g[k - 1], text[k], mark)
      BY <1>3, <1>4, <3>1 DEF SplitRun
    <3> QED BY <3>1, <3>2
  <2>3. n \in Good
    <3> HIDE DEF Good
    <3>1. n \in 0 .. n
      BY <1>2
    <3> QED BY <1>2, <2>1, <2>2, <3>1, Throughout
  <2> QED BY <2>3
<1>6. h[m] = Parted(h[n], x, mark)
  <2>1. m \in 1 .. m /\ m - 1 = n
    BY <1>1, <1>2
  <2>2. h[m] = Parted(h[m - 1], more[m], mark)
    BY <1>4, <2>1 DEF SplitRun
  <2> QED BY <1>2, <2>1, <2>2
<1>7. g[n] \in Parts(S)
  <2>1. \A k \in 0 .. n : g[k] \in Parts(S)
    BY <1>1, <1>2, <1>3, SplitRunInParts
  <2> QED BY <1>2, <2>1
<1> QED BY <1>1, <1>3, <1>4, <1>5, <1>6, <1>7 DEF SplitRun

LEMMA SplitOfNothing ==
  ASSUME NEW mark
  PROVE  Split(<<>>, mark) = Append(<<>>, <<>>)
<1>1. PICK text, n, S : text = <<>> /\ n = 0 /\ S = {}
  OBVIOUS
<1>2. text \in Seq(S) /\ n = Len(text) /\ n \in Nat
  BY <1>1
<1>3. PICK g : SplitRun(g, text, mark, n)
  BY <1>2, SplitRuns
<1> QED BY <1>1, <1>3, OnePart DEF SplitRun

-----------------------------------------------------------------------------
(* Joining.                                                                *)

Joined(before, k, text, mark) == IF k = 1 THEN text ELSE before \o <<mark>> \o text

JoinRun(g, texts, mark, n) ==
  /\ Join(texts, mark) = g[n] /\ g[0] = <<>>
  /\ \A k \in 1 .. n : g[k] = Joined(g[k - 1], k, texts[k], mark)

LEMMA JoinedIs ==
  ASSUME NEW S, NEW before \in Seq(S), NEW k, NEW text \in Seq(S), NEW mark \in S
  PROVE  Joined(before, k, text, mark) \in Seq(S)
<1>1. <<mark>> \in Seq(S)
  OBVIOUS
<1>2. before \o <<mark>> \in Seq(S)
  BY <1>1, ConcatProperties
<1>3. before \o <<mark>> \o text \in Seq(S)
  BY <1>2, ConcatProperties
<1> QED BY <1>3 DEF Joined

LEMMA JoinRunIsText ==
  ASSUME NEW S, NEW texts \in Seq(Seq(S)), NEW mark \in S, NEW n \in Nat, n = Len(texts), NEW g, JoinRun(g, texts, mark, n)
  PROVE  \A k \in 0 .. n : g[k] \in Seq(S)
<1> DEFINE Good == {k \in 0 .. n : g[k] \in Seq(S)}
<1>0. \A k \in 1 .. n : texts[k] \in Seq(S)
  BY ElementOfSeq
<1>1. 0 \in Good
  <2>1. g[0] \in Seq(S)
    BY EmptySeq DEF JoinRun
  <2>2. 0 \in 0 .. n
    OBVIOUS
  <2> QED BY <2>1, <2>2
<1>2. ASSUME NEW k \in 1 .. n, k - 1 \in Good PROVE k \in Good
  <2>1. g[k - 1] \in Seq(S) /\ texts[k] \in Seq(S)
    BY <1>0, <1>2
  <2>2. g[k] = Joined(g[k - 1], k, texts[k], mark)
    BY DEF JoinRun
  <2>3. g[k] \in Seq(S)
    BY <2>1, <2>2, JoinedIs
  <2> QED BY <2>3
<1>3. \A k \in 0 .. n : k \in Good
  <2> HIDE DEF Good
  <2> QED BY <1>1, <1>2, Throughout
<1> QED BY <1>3

\* Join is such a run.
LEMMA JoinRuns ==
  ASSUME NEW S, NEW texts \in Seq(Seq(S)), NEW mark \in S, NEW n \in Nat, n = Len(texts)
  PROVE  \E g : JoinRun(g, texts, mark, n)
<1> DEFINE Of(g, k) == IF k = 0 THEN <<>> ELSE IF k = 1 THEN texts[1] ELSE g[k - 1] \o <<mark>> \o texts[k]
           Here(g) == g = [k \in 0 .. n |-> Of(g, k)]
<1>0. \A k \in 1 .. n : texts[k] \in Seq(S)
  BY ElementOfSeq
<1>2. Join(texts, mark) = (CHOOSE g : Here(g))[n]
  BY DEF Join
<1>6. ASSUME NEW g
      PROVE  Of(g, 0) = <<>> /\ \A k \in 1 .. n : Of(g, k) = Joined(g[k - 1], k, texts[k], mark)
  BY DEF Joined
<1> HIDE DEF Of
<1>1. \E g : Here(g)
  <2>1. PICK h : h = [q \in (1 .. n) \X Seq(S) |-> Joined(q[2], q[1], texts[q[1]], mark)]
    OBVIOUS
  <2>0. PICK a : a = <<>>
    OBVIOUS
  <2>2. PICK g : Solves(g, n, a, h)
    BY Recursion
  <2>3. g[0] = <<>> /\ \A k \in 1 .. n : g[k] = h[<<k, g[k - 1]>>]
    BY <2>0, <2>2, SolvesSteps
  <2>4. \A k \in 1 .. n, s \in Seq(S) : h[<<k, s>>] = Joined(s, k, texts[k], mark)
    BY <2>1
  <2>5. \A k \in 0 .. n : g[k] \in Seq(S)
    <3> DEFINE Good == {k \in 0 .. n : g[k] \in Seq(S)}
    <3>1. 0 \in Good
      <4>1. g[0] \in Seq(S)
        BY EmptySeq, <2>3
      <4>2. 0 \in 0 .. n
        OBVIOUS
      <4> QED BY <4>1, <4>2
    <3>2. ASSUME NEW k \in 1 .. n, k - 1 \in Good PROVE k \in Good
      <4>1. g[k - 1] \in Seq(S) /\ texts[k] \in Seq(S)
        BY <1>0, <3>2
      <4>2. g[k] = Joined(g[k - 1], k, texts[k], mark)
        BY <2>3, <2>4, <4>1
      <4>3. g[k] \in Seq(S)
        BY <4>1, <4>2, JoinedIs
      <4> QED BY <4>3
    <3>3. \A k \in 0 .. n : k \in Good
      <4> HIDE DEF Good
      <4> QED BY <3>1, <3>2, Throughout
    <3> QED BY <3>3
  <2>6. \A k \in 1 .. n : g[k] = Joined(g[k - 1], k, texts[k], mark)
    <3> TAKE k \in 1 .. n
    <3>1. k - 1 \in 0 .. n
      OBVIOUS
    <3> QED BY <2>3, <2>4, <2>5, <3>1
  <2>7. g = [k \in 0 .. n |-> Of(g, k)]
    <3>1. g = [k \in 0 .. n |-> g[k]]
      BY <2>2, SolvesSteps
    <3>2. \A k \in 0 .. n : k = 0 \/ k \in 1 .. n
      OBVIOUS
    <3>3. \A k \in 0 .. n : g[k] = Of(g, k)
      BY ONLY <1>6, <2>3, <2>6, <3>2
    <3>4. [k \in 0 .. n |-> g[k]] = [k \in 0 .. n |-> Of(g, k)]
      BY <3>3
    <3> QED BY ONLY <3>1, <3>4
  <2> QED BY <2>7
<1>3. PICK g : g = CHOOSE e : Here(e)
  OBVIOUS
<1>4. Here(g)
  BY <1>1, <1>3
<1>5. g[0] = <<>> /\ \A k \in 1 .. n : g[k] = Joined(g[k - 1], k, texts[k], mark)
  <2>1. \A k \in 0 .. n : g[k] = Of(g, k)
    BY <1>4
  <2>2. 0 \in 0 .. n /\ \A k \in 1 .. n : k \in 0 .. n
    OBVIOUS
  <2> QED BY ONLY <1>6, <2>1, <2>2
<1> QED BY <1>2, <1>3, <1>5 DEF JoinRun

\* One more text comes behind a mark, the first one without.
LEMMA JoinGrows ==
  ASSUME NEW S, NEW texts \in Seq(Seq(S)), NEW text \in Seq(S), NEW mark \in S
  PROVE  /\ Join(texts, mark) \in Seq(S)
         /\ Join(Append(texts, text), mark) = Joined(Join(texts, mark), Len(texts) + 1, text, mark)
<1>1. PICK more, n, m : more = Append(texts, text) /\ n = Len(texts) /\ m = n + 1
  OBVIOUS
<1>2. /\ more \in Seq(Seq(S)) /\ m = Len(more) /\ n \in Nat /\ m \in Nat /\ more[m] = text
      /\ \A k \in 1 .. n : more[k] = texts[k]
  BY <1>1, AppendProperties
<1>3. PICK g : JoinRun(g, texts, mark, n)
  BY <1>1, <1>2, JoinRuns
<1>4. PICK h : JoinRun(h, more, mark, m)
  BY <1>2, JoinRuns
<1>5. h[n] = g[n]
  <2> DEFINE Good == {k \in 0 .. n : h[k] = g[k]}
  <2>1. 0 \in Good
    <3>1. g[0] = h[0]
      BY <1>3, <1>4 DEF JoinRun
    <3> QED BY <1>2, <3>1
  <2>2. ASSUME NEW k \in 1 .. n, k - 1 \in Good PROVE k \in Good
    <3>1. h[k - 1] = g[k - 1] /\ k \in 1 .. m /\ more[k] = texts[k]
      BY <1>1, <1>2, <2>2
    <3>2. h[k] = Joined(h[k - 1], k, more[k], mark) /\ g[k] = Joined(g[k - 1], k, texts[k], mark)
      BY <1>3, <1>4, <3>1 DEF JoinRun
    <3> QED BY <3>1, <3>2
  <2>3. n \in Good
    <3> HIDE DEF Good
    <3>1. n \in 0 .. n
      BY <1>2
    <3> QED BY <1>2, <2>1, <2>2, <3>1, Throughout
  <2> QED BY <2>3
<1>6. h[m] = Joined(h[n], m, text, mark)
  <2>1. m \in 1 .. m /\ m - 1 = n
    BY <1>1, <1>2
  <2>2. h[m] = Joined(h[m - 1], m, more[m], mark)
    BY <1>4, <2>1 DEF JoinRun
  <2> QED BY <1>2, <2>1, <2>2
<1>7. g[n] \in Seq(S)
  <2>1. \A k \in 0 .. n : g[k] \in Seq(S)
    BY <1>1, <1>2, <1>3, JoinRunIsText
  <2> QED BY <1>2, <2>1
<1> QED BY <1>1, <1>3, <1>4, <1>5, <1>6, <1>7 DEF JoinRun

LEMMA JoinOfNothing ==
  ASSUME NEW mark
  PROVE  Join(<<>>, mark) = <<>>
<1>1. PICK texts, n, S : texts = <<>> /\ n = 0 /\ S = {mark}
  OBVIOUS
<1>2. texts \in Seq(Seq(S)) /\ n = Len(texts) /\ n \in Nat /\ mark \in S
  BY <1>1
<1>3. PICK g : JoinRun(g, texts, mark, n)
  BY <1>2, JoinRuns
<1> QED BY <1>1, <1>3 DEF JoinRun

-----------------------------------------------------------------------------
(* The two undo each other.                                                *)

\* A text behind the mark, or behind nothing.
LEMMA JoinedLonger ==
  ASSUME NEW S, NEW texts \in Seq(Seq(S)), NEW v \in Seq(S), NEW x \in S, NEW mark \in S
  PROVE  Join(Append(texts, Append(v, x)), mark) = Append(Join(Append(texts, v), mark), x)
<1>1. PICK w, j, k : w = Append(v, x) /\ j = Join(texts, mark) /\ k = Len(texts) + 1
  OBVIOUS
<1>2. w \in Seq(S) /\ j \in Seq(S)
  BY <1>1, AppendProperties, JoinGrows
<1>3. Join(Append(texts, w), mark) = Joined(j, k, w, mark) /\ Join(Append(texts, v), mark) = Joined(j, k, v, mark)
  BY <1>1, <1>2, JoinGrows
<1>4. Joined(j, k, w, mark) = Append(Joined(j, k, v, mark), x)
  <2>1. CASE k = 1
    BY <1>1, <2>1 DEF Joined
  <2>2. CASE k # 1
    <3>1. PICK b : b = j \o <<mark>>
      OBVIOUS
    <3>2. b \in Seq(S)
      BY <1>2, <3>1, ConcatProperties
    <3>3. b \o Append(v, x) = Append(b \o v, x)
      <4>1. Append(v, x) = v \o <<x>> /\ <<x>> \in Seq(S)
        BY AppendIsConcat
      <4>2. b \o v \in Seq(S)
        BY <3>2, ConcatProperties
      <4>3. Append(b \o v, x) = (b \o v) \o <<x>>
        BY <4>2, AppendIsConcat
      <4>4. b \o (v \o <<x>>) = (b \o v) \o <<x>>
        BY <3>2, <4>1, ConcatAssociative
      <4> QED BY <4>1, <4>3, <4>4
    <3> QED BY <1>1, <2>2, <3>1, <3>3 DEF Joined
  <2> QED BY <2>1, <2>2
<1> QED BY <1>1, <1>3, <1>4

\* An empty part more is a mark more.
LEMMA JoinedEmpty ==
  ASSUME NEW S, NEW texts \in Seq(Seq(S)), texts # <<>>, NEW mark \in S
  PROVE  Join(Append(texts, <<>>), mark) = Append(Join(texts, mark), mark)
<1>1. PICK j, k, e : j = Join(texts, mark) /\ k = Len(texts) + 1 /\ e = <<>>
  OBVIOUS
<1>0. e \in Seq(S)
  BY <1>1, EmptySeq
<1>2. j \in Seq(S) /\ Join(Append(texts, e), mark) = Joined(j, k, e, mark)
  BY <1>0, <1>1, JoinGrows
<1>3. k # 1
  BY <1>1, EmptySeq
<1>4. PICK b : b = j \o <<mark>>
  OBVIOUS
<1>5. <<mark>> \in Seq(S) /\ b \in Seq(S)
  BY <1>2, <1>4, ConcatProperties
<1>6. b \o <<>> = b
  BY <1>5, ConcatEmptySeq
<1>7. b = Append(j, mark)
  BY <1>2, <1>4, AppendIsConcat
<1> QED BY <1>1, <1>2, <1>3, <1>4, <1>6, <1>7 DEF Joined

\* What was split is what the parts are joined to.
LEMMA JoinOfSplit ==
  ASSUME NEW S, NEW text \in Seq(S), NEW mark \in S
  PROVE  Join(Split(text, mark), mark) = text
<1> DEFINE n == Len(text)
           Good == {k \in 0 .. n : Join(Split(First(text, k), mark), mark) = First(text, k)}
<1>1. /\ n \in Nat /\ First(text, 0) = <<>> /\ First(text, n) = text
      /\ \A k \in 0 .. n : First(text, k) \in Seq(S)
      /\ \A k \in 1 .. n : text[k] \in S /\ First(text, k) = Append(First(text, k - 1), text[k])
  BY FirstOnes
<1>2. 0 \in Good
  <2>1. Split(<<>>, mark) = Append(<<>>, <<>>)
    BY SplitOfNothing
  <2>2. <<>> \in Seq(Seq(S)) /\ <<>> \in Seq(S) /\ Len(<<>>) + 1 = 1
    BY EmptySeq
  <2>3. Join(Append(<<>>, <<>>), mark) = Joined(Join(<<>>, mark), 1, <<>>, mark)
    BY <2>2, JoinGrows
  <2>4. Join(Split(<<>>, mark), mark) = <<>>
    BY <2>1, <2>3 DEF Joined
  <2>5. 0 \in 0 .. n
    BY <1>1
  <2> QED BY <1>1, <2>4, <2>5
<1>3. ASSUME NEW k \in 1 .. n, k - 1 \in Good PROVE k \in Good
  <2>1. PICK t, u, x : t = First(text, k - 1) /\ u = First(text, k) /\ x = text[k]
    OBVIOUS
  <2>11. k - 1 \in 0 .. n /\ k \in 0 .. n
    BY <1>1
  <2>12. Join(Split(First(text, k - 1), mark), mark) = First(text, k - 1)
    BY <1>3
  <2> HIDE DEF Good
  <2>2. t \in Seq(S) /\ x \in S /\ u = Append(t, x) /\ Join(Split(t, mark), mark) = t
    BY <1>1, <2>1, <2>11, <2>12
  <2>3. Split(u, mark) = Parted(Split(t, mark), x, mark) /\ Split(t, mark) \in Parts(S)
    BY <2>2, SplitGrows
  <2>4. PICK f \in Seq(Seq(S)), v \in Seq(S) : Split(t, mark) = Append(f, v)
    BY <2>3 DEF Parts
  <2>5. Split(u, mark) = IF x = mark THEN Append(Append(f, v), <<>>) ELSE Append(f, Append(v, x))
    BY <2>2, <2>3, <2>4, PartedIs
  <2>6. Join(Append(f, v), mark) = t
    BY <2>2, <2>4
  <2>7. Append(f, v) \in Seq(Seq(S)) /\ Append(f, v) # <<>>
    BY AppendProperties
  <2>8. Join(Append(Append(f, v), <<>>), mark) = Append(t, mark)
    BY <2>6, <2>7, JoinedEmpty
  <2>9. Join(Append(f, Append(v, x)), mark) = Append(t, x)
    <3>1. Join(Append(f, Append(v, x)), mark) = Append(Join(Append(f, v), mark), x)
      BY <2>2, JoinedLonger
    <3> QED BY <2>6, <3>1
  <2>10. Join(Split(u, mark), mark) = u
    BY <2>2, <2>5, <2>8, <2>9
  <2> QED BY <2>1, <2>2, <2>10, <2>11 DEF Good
<1>4. n \in Good
  <2> HIDE DEF Good, n
  <2>1. n \in 0 .. n
    BY <1>1
  <2> QED BY <1>1, <1>2, <1>3, <2>1, Throughout
<1> QED BY <1>1, <1>4

\* A text without the mark goes into the open part.
LEMMA SplitGoesOn ==
  ASSUME NEW S, NEW text \in Seq(S), NEW mark \in S, NEW f \in Seq(Seq(S)), NEW e \in Seq(S),
         Split(text, mark) = Append(f, <<>>), \A i \in 1 .. Len(e) : e[i] # mark
  PROVE  Split(text \o e, mark) = Append(f, e)
<1> DEFINE n == Len(e)
           Good == {k \in 0 .. n : Split(text \o First(e, k), mark) = Append(f, First(e, k))}
<1>1. /\ n \in Nat /\ First(e, 0) = <<>> /\ First(e, n) = e
      /\ \A k \in 0 .. n : First(e, k) \in Seq(S)
      /\ \A k \in 1 .. n : e[k] \in S /\ First(e, k) = Append(First(e, k - 1), e[k])
  BY FirstOnes
<1>2. 0 \in Good
  <2>1. text \o <<>> = text
    BY ConcatEmptySeq
  <2>2. 0 \in 0 .. n
    BY <1>1
  <2> QED BY <1>1, <2>1, <2>2
<1>3. ASSUME NEW k \in 1 .. n, k - 1 \in Good PROVE k \in Good
  <2>1. PICK t, u, x : t = First(e, k - 1) /\ u = First(e, k) /\ x = e[k]
    OBVIOUS
  <2>11. k - 1 \in 0 .. n /\ k \in 0 .. n
    BY <1>1
  <2>12. Split(text \o First(e, k - 1), mark) = Append(f, First(e, k - 1))
    BY <1>3
  <2> HIDE DEF Good
  <2>2. /\ t \in Seq(S) /\ x \in S /\ u = Append(t, x) /\ x # mark
        /\ Split(text \o t, mark) = Append(f, t)
    BY <1>1, <2>1, <2>11, <2>12
  <2>3. text \o t \in Seq(S)
    BY <2>2, ConcatProperties
  <2>4. text \o u = Append(text \o t, x)
    <3>1. u = t \o <<x>> /\ <<x>> \in Seq(S)
      BY <2>2, AppendIsConcat
    <3>2. Append(text \o t, x) = (text \o t) \o <<x>>
      BY <2>2, <2>3, AppendIsConcat
    <3>3. text \o (t \o <<x>>) = (text \o t) \o <<x>>
      BY <2>2, <3>1, ConcatAssociative
    <3> QED BY <3>1, <3>2, <3>3
  <2>5. Split(text \o u, mark) = Parted(Append(f, t), x, mark)
    <3>1. PICK a : a = text \o t
      OBVIOUS
    <3>2. Split(Append(a, x), mark) = Parted(Split(a, mark), x, mark)
      <4>1. a \in Seq(S) /\ x \in S
        BY <2>2, <2>3, <3>1
      <4> QED BY ONLY <4>1, SplitGrows
    <3> QED BY <2>2, <2>4, <3>1, <3>2
  <2>6. Split(text \o u, mark) = Append(f, u)
    BY <2>2, <2>5, PartedIs
  <2> QED BY <2>1, <2>6, <2>11 DEF Good
<1>4. n \in Good
  <2> HIDE DEF Good, n
  <2>1. n \in 0 .. n
    BY <1>1
  <2> QED BY <1>1, <1>2, <1>3, <2>1, Throughout
<1> QED BY <1>1, <1>4

Marked(text, mark) == \E i \in 1 .. Len(text) : text[i] = mark

\* Texts that do not have the mark are what the joined text is split into.
LEMMA SplitOfJoin ==
  ASSUME NEW S, NEW texts \in Seq(Seq(S)), texts # <<>>, NEW mark \in S,
         \A k \in 1 .. Len(texts) : ~ Marked(texts[k], mark)
  PROVE  Split(Join(texts, mark), mark) = texts
<1> DEFINE n == Len(texts)
           Good == {k \in 0 .. n : k = 0 \/ Split(Join(First(texts, k), mark), mark) = First(texts, k)}
<1>1. /\ n \in Nat /\ First(texts, 0) = <<>> /\ First(texts, n) = texts
      /\ \A k \in 0 .. n : First(texts, k) \in Seq(Seq(S)) /\ Len(First(texts, k)) = k
      /\ \A k \in 1 .. n : texts[k] \in Seq(S) /\ First(texts, k) = Append(First(texts, k - 1), texts[k])
  BY FirstOnes
<1>2. 0 \in Good
  BY <1>1
<1>3. ASSUME NEW k \in 1 .. n, k - 1 \in Good PROVE k \in Good
  <2>1. PICK t, u, x : t = First(texts, k - 1) /\ u = First(texts, k) /\ x = texts[k]
    OBVIOUS
  <2>11. k - 1 \in 0 .. n /\ k \in 0 .. n /\ (k - 1) + 1 = k /\ (k # 1 => k - 1 # 0)
    BY <1>1
  <2>12. k - 1 # 0 => Split(Join(First(texts, k - 1), mark), mark) = First(texts, k - 1)
    BY <1>3
  <2> HIDE DEF Good
  <2>2. /\ t \in Seq(Seq(S)) /\ x \in Seq(S) /\ u = Append(t, x) /\ Len(t) + 1 = k
        /\ k # 1 => Split(Join(t, mark), mark) = t
    BY <1>1, <2>1, <2>11, <2>12
  <2>3. \A i \in 1 .. Len(x) : x[i] # mark
    BY <2>1 DEF Marked
  <2>4. Join(t, mark) \in Seq(S) /\ Join(u, mark) = Joined(Join(t, mark), k, x, mark)
    BY <2>2, JoinGrows
  <2>5. CASE k = 1
    <3>1. t = <<>>
      BY <1>1, <2>1, <2>5
    <3>2. Split(<<>>, mark) = Append(<<>>, <<>>) /\ <<>> \in Seq(S) /\ <<>> \in Seq(Seq(S))
      BY SplitOfNothing, EmptySeq
    <3>3. Split(<<>> \o x, mark) = Append(<<>>, x)
      BY <2>2, <2>3, <3>2, SplitGoesOn
    <3>4. <<>> \o x = x
      BY <2>2, ConcatEmptySeq
    <3>5. Join(u, mark) = x
      BY <2>4, <2>5 DEF Joined
    <3> QED BY <2>1, <2>2, <2>11, <3>1, <3>3, <3>4, <3>5 DEF Good
  <2>6. CASE k # 1
    <3>1. PICK j, b : j = Join(t, mark) /\ b = Append(j, mark)
      OBVIOUS
    <3>2. j \in Seq(S) /\ b \in Seq(S) /\ b = j \o <<mark>>
      BY <2>4, <3>1, AppendProperties, AppendIsConcat
    <3>3. Split(j, mark) = t
      BY <2>2, <2>6, <3>1
    <3>4. Split(b, mark) = Append(t, <<>>)
      <4>1. Split(Append(j, mark), mark) = Parted(Split(j, mark), mark, mark)
        BY <3>2, SplitGrows
      <4> QED BY <3>1, <3>3, <4>1 DEF Parted
    <3>5. Split(b \o x, mark) = Append(t, x)
      BY <2>2, <2>3, <3>2, <3>4, SplitGoesOn
    <3>6. Join(u, mark) = b \o x
      BY <2>4, <2>6, <3>1, <3>2 DEF Joined
    <3> QED BY <2>1, <2>2, <2>11, <3>5, <3>6 DEF Good
  <2> QED BY <2>5, <2>6
<1>4. n \in Good
  <2> HIDE DEF Good, n
  <2>1. n \in 0 .. n
    BY <1>1
  <2> QED BY <1>1, <1>2, <1>3, <2>1, Throughout
<1>5. n # 0
  BY EmptySeq
<1> QED BY <1>1, <1>4, <1>5

-----------------------------------------------------------------------------
(* Lexemes and scalars.                                                    *)

Text == Seq(Lexemes)

LEMMA MarksAreLexemes ==
  {",", " ", "|", ";", ".", "p=", "k", "a"} \subseteq Lexemes
BY DEF Lexemes

LEMMA NothingMarked ==
  ASSUME NEW mark
  PROVE  ~ Marked(<<>>, mark)
BY DEF Marked

LEMMA OneLexeme ==
  ASSUME NEW x
  PROVE  Len(<<x>>) = 1 /\ <<x>>[1] = x /\ DOMAIN <<x>> = {1}
OBVIOUS

Types == {"string", "integer", "number", "boolean", "null"}

LEMMA ItemTypes ==
  ASSUME NEW item, IsItem(item)
  PROVE  /\ DOMAIN item.types = 1 .. Len(item.types) /\ Len(item.types) \in Nat
         /\ \A i \in DOMAIN item.types : item.types[i] \in Types
<1>1. item.types \in Seq(Types)
  BY DEF IsItem, Types
<1> QED BY <1>1, LenProperties, ElementOfSeq

\* The type a text is taken for, if any, is one that reads it.
LEMMA Coerced ==
  ASSUME NEW item, IsItem(item), NEW text
  PROVE  \/ CoerceScalar(text, item.types) = "null" /\ text = <<>> /\ Nullable(item)
         \/ /\ ~ (text = <<>> /\ Nullable(item))
            /\ \E i \in DOMAIN item.types :
                 Reads(item.types[i], text) /\ CoerceScalar(text, item.types) = item.types[i]
         \/ /\ ~ (text = <<>> /\ Nullable(item))
            /\ CoerceScalar(text, item.types) = NotCoerced
            /\ \A i \in DOMAIN item.types : ~ Reads(item.types[i], text)
<1> DEFINE ok == {i \in DOMAIN item.types : Reads(item.types[i], text)}
<1>1. CASE text = <<>> /\ Nullable(item)
  BY <1>1 DEF CoerceScalar, Nullable
<1>2. CASE ~ (text = <<>> /\ Nullable(item)) /\ ok = {}
  BY <1>2 DEF CoerceScalar, Nullable
<1>3. CASE ~ (text = <<>> /\ Nullable(item)) /\ ok # {}
  <2>1. ok \in SUBSET Nat
    BY ItemTypes
  <2>2. \E i \in ok : \A j \in ok : i <= j
    <3> HIDE DEF ok
    <3> QED BY <1>3, <2>1, MinimalNumber
  <2>3. PICK c : c = CHOOSE i \in ok : \A j \in ok : i <= j
    OBVIOUS
  <2>4. c \in ok
    <3> HIDE DEF ok
    <3> QED BY <2>2, <2>3
  <2>5. CoerceScalar(text, item.types) = item.types[c]
    BY <1>3, <2>3 DEF CoerceScalar, Nullable
  <2> QED BY <1>3, <2>4, <2>5
<1> QED BY <1>1, <1>2, <1>3

\* What is written for a value of a schema is taken for one: unless a union of
\* types restricts the values of one (coerceScalar, validateSchema).
LEMMA FitsIsChecked ==
  ASSUME NEW item, IsItem(item), Plainly(item), NEW text, Fits(item, text)
  PROVE  Checks(item, text)
<1>1. CASE text = <<>> /\ Nullable(item)
  <2>1. CoerceScalar(text, item.types) = "null"
    BY <1>1, Coerced
  <2> QED BY <2>1 DEF Checks, Accepts, NotCoerced
<1>2. CASE ~ (text = <<>> /\ Nullable(item))
  <2>1. PICK i \in DOMAIN item.types : Reads(item.types[i], text) /\ Accepts(item, item.types[i], text)
    BY <1>2 DEF Fits
  <2>2. PICK j \in DOMAIN item.types : CoerceScalar(text, item.types) = item.types[j]
    BY <1>2, <2>1, Coerced
  <2>3. item.types[j] # NotCoerced
    BY ItemTypes DEF Types, NotCoerced
  <2>4. item.narrow => i = j
    BY ItemTypes DEF Plainly
  <2>5. Accepts(item, item.types[j], text)
    BY <2>1, <2>4 DEF Accepts
  <2> QED BY <2>2, <2>3, <2>5 DEF Checks
<1> QED BY <1>1, <1>2

\* What is taken for a value of a schema is written for one.
LEMMA CheckedFits ==
  ASSUME NEW item, IsItem(item), NEW text, Checks(item, text)
  PROVE  Fits(item, text)
BY Coerced DEF Checks, Fits

\* A delimiter is in no text that an item one can split at may be written as.
LEMMA NoMark ==
  ASSUME NEW item, NEW dotted, Splittable(item.types, dotted), NEW text \in Text, Fits(item, text),
         NEW mark, mark \in {",", " ", "|", ";"} \/ (mark = "." /\ dotted)
  PROVE  ~ Marked(text, mark)
<1>0. DOMAIN text = 1 .. Len(text)
  BY LenProperties DEF Text
<1>1. CASE text = <<>>
  BY <1>1, NothingMarked
<1>2. CASE text # <<>>
  <2>1. PICK i \in DOMAIN item.types : Reads(item.types[i], text)
    BY <1>2 DEF Fits
  <2>2. item.types[i] \in {"integer", "boolean"} \/ (item.types[i] = "number" /\ ~ dotted)
    BY <2>1 DEF Splittable, Reads
  <2>4. \/ \A k \in DOMAIN text : text[k] = "1"
        \/ text = <<"true">>
        \/ ~ dotted /\ \A k \in DOMAIN text : text[k] \in {"1", "."}
    BY <2>1, <2>2 DEF Reads, IsInteger, IsNumber, IsBoolean, IsDigits, Digits
  <2>5. \A k \in DOMAIN text : text[k] # mark
    <3>1. CASE text = <<"true">>
      <4>1. DOMAIN text = {1} /\ text[1] = "true"
        BY <3>1, OneLexeme
      <4> QED BY <4>1
    <3> QED BY <2>4, <3>1
  <2> QED BY <1>0, <2>5 DEF Marked
<1> QED BY <1>1, <1>2

\* A lexeme put before a text is the first, and the text is the rest.
LEMMA Fronted ==
  ASSUME NEW S, NEW x \in S, NEW t \in Seq(S)
  PROVE  /\ <<x>> \o t \in Seq(S) /\ <<x>> \o t # <<>> /\ Head(<<x>> \o t) = x /\ Tail(<<x>> \o t) = t
         /\ t # <<>> /\ Head(t) = x => <<x>> \o Tail(t) = t
<1>1. <<x>> \in Seq(S) /\ Len(<<x>>) = 1 /\ <<x>>[1] = x
  OBVIOUS
<1>2. PICK s : s = <<x>> \o t
  OBVIOUS
<1>3. /\ s \in Seq(S) /\ Len(s) = 1 + Len(t)
      /\ \A i \in 1 .. 1 + Len(t) : s[i] = IF i <= 1 THEN <<x>>[i] ELSE t[i - 1]
  BY ONLY <1>1, <1>2, ConcatProperties, t \in Seq(S)
<1>4. s # <<>> /\ Head(s) = x
  BY <1>1, <1>3
<1>5. Tail(s) = t
  <2>1. Tail(s) \in Seq(S) /\ Len(Tail(s)) = Len(t) /\ \A i \in 1 .. Len(t) : Tail(s)[i] = s[i + 1]
    BY <1>3, <1>4, HeadTailProperties
  <2>2. \A i \in 1 .. Len(t) : s[i + 1] = t[i]
    BY <1>3
  <2> QED BY <2>1, <2>2, SeqEqual
<1>6. ASSUME t # <<>>, Head(t) = x PROVE <<x>> \o Tail(t) = t
  <2>1. Tail(t) \in Seq(S) /\ Len(Tail(t)) = Len(t) - 1 /\ \A i \in 1 .. Len(Tail(t)) : Tail(t)[i] = t[i + 1]
    BY <1>6, HeadTailProperties
  <2>2. PICK u : u = <<x>> \o Tail(t)
    OBVIOUS
  <2>3. /\ u \in Seq(S) /\ Len(u) = 1 + Len(Tail(t))
        /\ \A i \in 1 .. 1 + Len(Tail(t)) : u[i] = IF i <= 1 THEN <<x>>[i] ELSE Tail(t)[i - 1]
    BY ONLY <1>1, <2>1, <2>2, ConcatProperties
  <2>4. \A i \in 1 .. Len(t) : u[i] = t[i]
    BY <1>1, <1>6, <2>1, <2>3
  <2> QED BY <2>1, <2>2, <2>3, <2>4, SeqEqual
<1> QED BY <1>2, <1>3, <1>4, <1>5, <1>6

-----------------------------------------------------------------------------
(* Arrays: what is read back is what was written, where no element has the *)
(* delimiter in it; and what was read back is written as what was read.    *)

\* The delimiter of an array that is written as one text.
Between(p) ==
  IF p.in # "path" THEN Delimiter(p)
  ELSE IF Style(p) = "simple" THEN ","
  ELSE IF ~ Exploded(p) THEN "," ELSE IF Style(p) = "label" THEN "." ELSE ";"

\* The parts of an exploded matrix, with their name and without.
Named(e)       == [i \in DOMAIN e |-> <<"p=">> \o e[i]]
AllNamed(e)    == \A i \in DOMAIN e : StartsWith(e[i], "p=")
Unnamed(parts) == [i \in DOMAIN parts |-> Tail(parts[i])]

ArrayParam(p) ==
  /\ p.schema.kind = "array" /\ StyleSupported(p) /\ p.explode \in {"none", "true", "false"}

\* How an array that is supported is read and written, by its place and style.
LEMMA ReadAndWritten ==
  ASSUME NEW p, ArrayParam(p)
  PROVE  /\ Between(p) \in Lexemes
         /\ Between(p) \in {",", " ", "|", ";"} \/ (Between(p) = "." /\ SplitOnDot(p))
         /\ \/ /\ p.in = "query" \/ p.in = "header" \/ (p.in = "path" /\ Style(p) = "simple")
               /\ \A e : Written(p, e) = Join(e, Between(p))
               /\ \A t : Pieces(p, t) = Split(t, Between(p))
            \/ /\ p.in = "path" /\ Style(p) = "label"
               /\ \A e : Written(p, e) = <<".">> \o Join(e, Between(p))
               /\ \A t : Pieces(p, t) = IF StartsWith(t, ".") THEN Split(Tail(t), Between(p)) ELSE None
            \/ /\ p.in = "path" /\ Style(p) = "matrix" /\ Exploded(p) /\ Between(p) = ";"
               /\ \A e : Written(p, e) = <<";">> \o Join(Named(e), ";")
               /\ \A t : Pieces(p, t) =
                    LET parts == Split(Tail(t), ";")
                    IN  IF StartsWith(t, ";") /\ AllNamed(parts) THEN Unnamed(parts) ELSE None
            \/ /\ p.in = "path" /\ Style(p) = "matrix" /\ ~ Exploded(p) /\ Between(p) = ","
               /\ \A e : Written(p, e) = <<";", "p=">> \o Join(e, ",")
               /\ \A t : Pieces(p, t) = IF StartsWith(t, ";") /\ StartsWith(Tail(t), "p=")
                                            THEN Split(Tail(Tail(t)), ",") ELSE None
<1>1. p.in \in {"query", "header", "path"} /\ Style(p) \in ArrayStyles(p.in)
  BY DEF ArrayParam, StyleSupported, ArrayStyles
<1>2. CASE p.in = "query"
  <2>1. Between(p) = Delimiter(p) /\ Delimiter(p) \in {",", " ", "|"}
    BY <1>2 DEF Between, Delimiter
  <2> QED BY <1>2, <2>1, MarksAreLexemes DEF Written, Pieces
<1>3. CASE p.in = "header"
  <2>1. Between(p) = "," /\ Delimiter(p) = ","
    BY <1>1, <1>3 DEF Between, Delimiter, ArrayStyles
  <2> QED BY <1>3, <2>1, MarksAreLexemes DEF Written, Pieces
<1>4. CASE p.in = "path" /\ Style(p) = "simple"
  <2>1. Between(p) = ","
    BY <1>4 DEF Between
  <2> QED BY <1>4, <2>1, MarksAreLexemes DEF Written, Pieces
<1>5. CASE p.in = "path" /\ Style(p) = "label"
  <2>1. Exploded(p) <=> p.explode = "true"
    BY <1>5 DEF Exploded
  <2>2. Between(p) = IF p.explode = "true" THEN "." ELSE ","
    BY <1>5, <2>1 DEF Between
  <2>3. SplitOnDot(p) <=> p.explode = "true"
    BY <1>5 DEF SplitOnDot
  <2>4. Between(p) \in Lexemes /\ (Between(p) \in {",", " ", "|", ";"} \/ (Between(p) = "." /\ SplitOnDot(p)))
    BY <2>2, <2>3, MarksAreLexemes
  <2>5. \A e : Written(p, e) = <<".">> \o Join(e, Between(p))
    BY <1>5, <2>1, <2>2 DEF Written
  <2>6. \A t : Pieces(p, t) = IF StartsWith(t, ".") THEN Split(Tail(t), Between(p)) ELSE None
    BY <1>5, <2>2 DEF Pieces
  <2> QED BY <1>5, <2>4, <2>5, <2>6
<1>6. CASE p.in = "path" /\ Style(p) = "matrix"
  <2>1. Exploded(p) <=> p.explode = "true"
    BY <1>6 DEF Exploded
  <2>2. Between(p) = IF p.explode = "true" THEN ";" ELSE ","
    BY <1>6, <2>1 DEF Between
  <2>4. Between(p) \in Lexemes /\ Between(p) \in {",", " ", "|", ";"}
    BY <2>2, MarksAreLexemes
  <2>5. CASE p.explode = "true"
    <3>1. \A e : Written(p, e) = <<";">> \o Join(Named(e), ";")
      BY <1>6, <2>1, <2>5 DEF Written, Named
    <3>2. \A t : Pieces(p, t) =
                    LET parts == Split(Tail(t), ";")
                    IN  IF StartsWith(t, ";") /\ AllNamed(parts) THEN Unnamed(parts) ELSE None
      BY <1>6, <2>5 DEF Pieces, AllNamed, Unnamed
    <3> QED BY <1>6, <2>1, <2>2, <2>4, <2>5, <3>1, <3>2
  <2>6. CASE p.explode # "true"
    <3>1. \A e : Written(p, e) = <<";", "p=">> \o Join(e, ",")
      BY <1>6, <2>1, <2>6 DEF Written
    <3>2. \A t : Pieces(p, t) = IF StartsWith(t, ";") /\ StartsWith(Tail(t), "p=")
                                    THEN Split(Tail(Tail(t)), ",") ELSE None
      BY <1>6, <2>6 DEF Pieces
    <3> QED BY <1>6, <2>1, <2>2, <2>4, <2>6, <3>1, <3>2
  <2> QED BY <2>5, <2>6
<1> QED BY <1>1, <1>2, <1>3, <1>4, <1>5, <1>6 DEF ArrayStyles

LEMMA Single ==
  ASSUME NEW S, NEW x \in S
  PROVE  <<x>> \in Seq(S)
OBVIOUS

LEMMA LexemeInFront ==
  ASSUME NEW x \in Lexemes, NEW t \in Text
  PROVE  /\ <<x>> \o t \in Text /\ <<x>> \o t # <<>> /\ Head(<<x>> \o t) = x /\ Tail(<<x>> \o t) = t
         /\ <<x>> \in Text
BY Fronted, Single DEF Text

LEMMA Together ==
  ASSUME NEW a \in Text, NEW b \in Text
  PROVE  /\ a \o b \in Text /\ \A c \in Text : (a \o b) \o c = a \o (b \o c)
         /\ Len(a \o b) = Len(a) + Len(b) /\ Len(a) \in Nat /\ Len(b) \in Nat
         /\ \A i \in 1 .. Len(a) + Len(b) : (a \o b)[i] = IF i <= Len(a) THEN a[i] ELSE b[i - Len(a)]
<1>1. a \in Seq(Lexemes) /\ b \in Seq(Lexemes)
  BY DEF Text
<1>2. /\ a \o b \in Seq(Lexemes) /\ Len(a \o b) = Len(a) + Len(b)
      /\ \A i \in 1 .. Len(a) + Len(b) : (a \o b)[i] = IF i <= Len(a) THEN a[i] ELSE b[i - Len(a)]
  BY <1>1, ConcatProperties
<1>3. ASSUME NEW c \in Text PROVE (a \o b) \o c = a \o (b \o c)
  <2>1. c \in Seq(Lexemes)
    BY DEF Text
  <2> QED BY <1>1, <2>1, ConcatAssociative
<1>4. Len(a) \in Nat /\ Len(b) \in Nat
  BY <1>1, LenProperties
<1> QED BY <1>2, <1>3, <1>4 DEF Text

LEMMA Pair ==
  ASSUME NEW x, NEW y
  PROVE  <<x>> \o <<y>> = <<x, y>>
<1>1. PICK S, a, b, s, t : S = {x, y} /\ a = <<x>> /\ b = <<y>> /\ s = a \o b /\ t = <<x, y>>
  OBVIOUS
<1>2. a \in Seq(S) /\ b \in Seq(S) /\ Len(a) = 1 /\ Len(b) = 1 /\ a[1] = x /\ b[1] = y
  BY <1>1
<1>3. s \in Seq(S) /\ Len(s) = 2 /\ \A i \in 1 .. 2 : s[i] = IF i <= 1 THEN a[i] ELSE b[i - 1]
  <2>1. /\ a \o b \in Seq(S) /\ Len(a \o b) = Len(a) + Len(b)
        /\ \A i \in 1 .. Len(a) + Len(b) : (a \o b)[i] = IF i <= Len(a) THEN a[i] ELSE b[i - Len(a)]
    BY <1>2, ConcatProperties
  <2> QED BY <1>1, <1>2, <2>1
<1>4. t \in Seq(S) /\ Len(t) = 2 /\ t[1] = x /\ t[2] = y
  BY <1>1
<1>5. \A i \in 1 .. 2 : s[i] = t[i]
  <2>1. s[1] = x /\ s[2] = y
    BY <1>2, <1>3
  <2> QED BY <1>4, <2>1
<1> QED BY <1>1, <1>3, <1>4, <1>5, SeqEqual

\* A mark or a name in front of a text is read off again.
LEMMA InFront ==
  ASSUME NEW x \in {".", ";", "p="}, NEW t \in Text
  PROVE  /\ <<x>> \o t \in Text /\ <<x>> \o t # <<>> /\ Head(<<x>> \o t) = x /\ Tail(<<x>> \o t) = t
         /\ <<x>> \in Text /\ x \in Lexemes
<1>1. x \in Lexemes
  BY MarksAreLexemes
<1> QED BY <1>1, LexemeInFront

LEMMA Behind ==
  ASSUME NEW x \in {".", ";", "p="}, NEW t \in Text, t # <<>>, Head(t) = x
  PROVE  Tail(t) \in Text /\ <<x>> \o Tail(t) = t
<1>1. x \in Lexemes
  BY MarksAreLexemes
<1>2. Tail(t) \in Seq(Lexemes)
  BY HeadTailProperties DEF Text
<1> QED BY <1>1, <1>2, Fronted DEF Text

\* Naming every part is undone by taking the names away.
LEMMA Naming ==
  ASSUME NEW e \in Seq(Text), NEW named, named = Named(e)
  PROVE  /\ named \in Seq(Text) /\ Len(named) = Len(e)
         /\ \A i \in 1 .. Len(e) : named[i] = <<"p=">> \o e[i]
         /\ AllNamed(named) /\ Unnamed(named) = e
<1>1. DOMAIN e = 1 .. Len(e) /\ Len(e) \in Nat /\ \A i \in 1 .. Len(e) : e[i] \in Text
  BY LenProperties, ElementOfSeq
<1>2. ASSUME NEW i \in 1 .. Len(e)
      PROVE  /\ named[i] = <<"p=">> \o e[i] /\ named[i] \in Text /\ named[i] # <<>>
             /\ Head(named[i]) = "p=" /\ Tail(named[i]) = e[i]
  <2>1. named[i] = <<"p=">> \o e[i] /\ e[i] \in Text
    BY <1>1 DEF Named
  <2> QED BY ONLY <2>1, InFront
<1>3. DOMAIN named = 1 .. Len(e)
  BY <1>1 DEF Named
<1>4. named = [i \in 1 .. Len(e) |-> named[i]]
  BY <1>1 DEF Named
<1>5. named \in Seq(Text) /\ Len(named) = Len(e)
  BY <1>1, <1>2, <1>4, IsASeq
<1>6. Unnamed(named) = e
  <2>1. PICK r : r = [i \in 1 .. Len(e) |-> Tail(named[i])]
    OBVIOUS
  <2>2. r = [i \in 1 .. Len(e) |-> e[i]]
    BY <1>2, <2>1
  <2>3. e = [i \in 1 .. Len(e) |-> e[i]]
    BY <1>1
  <2> QED BY <1>3, <2>1, <2>2, <2>3 DEF Unnamed
<1> QED BY <1>2, <1>3, <1>5, <1>6 DEF StartsWith, AllNamed

\* What the parts of an exploded matrix are without their names has them again
\* when it is written.
LEMMA Unnaming ==
  ASSUME NEW parts \in Seq(Text), AllNamed(parts), NEW e, e = Unnamed(parts)
  PROVE  e \in Seq(Text) /\ Named(e) = parts
<1>1. DOMAIN parts = 1 .. Len(parts) /\ Len(parts) \in Nat /\ \A i \in 1 .. Len(parts) : parts[i] \in Text
  BY LenProperties, ElementOfSeq
<1>2. ASSUME NEW i \in 1 .. Len(parts)
      PROVE  e[i] = Tail(parts[i]) /\ e[i] \in Text /\ <<"p=">> \o e[i] = parts[i]
  <2>1. parts[i] \in Seq(Lexemes) /\ parts[i] # <<>> /\ Head(parts[i]) = "p=" /\ "p=" \in Lexemes
    BY <1>1, MarksAreLexemes DEF Text, StartsWith, AllNamed
  <2>2. e[i] = Tail(parts[i])
    BY <1>1 DEF Unnamed
  <2>3. Tail(parts[i]) \in Seq(Lexemes)
    BY <2>1, HeadTailProperties
  <2>4. <<"p=">> \o Tail(parts[i]) = parts[i]
    BY <2>1, Fronted
  <2> QED BY <2>2, <2>3, <2>4 DEF Text
<1>3. e = [i \in 1 .. Len(parts) |-> e[i]] /\ DOMAIN e = 1 .. Len(parts)
  BY <1>1 DEF Unnamed
<1>4. e \in Seq(Text)
  BY <1>1, <1>2, <1>3, IsASeq
<1>5. Named(e) = [i \in 1 .. Len(parts) |-> parts[i]]
  BY <1>2, <1>3 DEF Named
<1>6. parts = [i \in 1 .. Len(parts) |-> parts[i]]
  BY <1>1
<1> QED BY <1>4, <1>5, <1>6

LEMMA TwoInFront ==
  ASSUME NEW t \in Text
  PROVE  <<";", "p=">> \o t = <<";">> \o (<<"p=">> \o t)
<1>1. PICK a, b : a = <<";">> /\ b = <<"p=">>
  OBVIOUS
<1>3. a \in Text /\ b \in Text
  BY <1>1, InFront
<1>4. a \o b = <<";", "p=">>
  BY <1>1, Pair
<1>2. (a \o b) \o t = a \o (b \o t)
  BY <1>3, Together
<1> QED BY <1>1, <1>2, <1>4

LEMMA Joins ==
  ASSUME NEW e \in Seq(Text), NEW mark \in Lexemes
  PROVE  Join(e, mark) \in Text
BY EmptySeq, JoinGrows DEF Text

\* What an array was written as is read back, if no element has the delimiter.
LEMMA ReadBack ==
  ASSUME NEW p, ArrayParam(p), NEW e \in Seq(Text), e # <<>>,
         \A k \in 1 .. Len(e) : ~ Marked(e[k], Between(p))
  PROVE  Pieces(p, Written(p, e)) = e
<1> DEFINE j == Join(e, Between(p))
<1>1. Between(p) \in Lexemes
  BY ReadAndWritten
<1>2. j \in Text /\ Split(j, Between(p)) = e
  BY <1>1, SplitOfJoin, Joins DEF Text
<1>3. CASE p.in = "query" \/ p.in = "header" \/ (p.in = "path" /\ Style(p) = "simple")
  <2>1. Written(p, e) = j /\ Pieces(p, j) = Split(j, Between(p))
    BY <1>3, ReadAndWritten
  <2> QED BY <1>2, <2>1
<1>4. CASE p.in = "path" /\ Style(p) = "label"
  <2>1. PICK t : t = <<".">> \o j
    OBVIOUS
  <2>2. t # <<>> /\ Head(t) = "." /\ Tail(t) = j
    BY <1>2, <2>1, InFront
  <2>3. Written(p, e) = t /\ Pieces(p, t) = IF StartsWith(t, ".") THEN Split(Tail(t), Between(p)) ELSE None
    BY <1>4, <2>1, ReadAndWritten
  <2> QED BY <1>2, <2>2, <2>3 DEF StartsWith
<1>5. CASE p.in = "path" /\ Style(p) = "matrix" /\ Exploded(p)
  <2>0. Between(p) = ";"
    BY <1>5, ReadAndWritten
  <2>10. PICK named : named = Named(e)
    OBVIOUS
  <2>11. PICK t : t = <<";">> \o Join(named, ";")
    OBVIOUS
  <2>2. /\ named \in Seq(Text) /\ Len(named) = Len(e) /\ \A i \in 1 .. Len(e) : named[i] = <<"p=">> \o e[i]
        /\ AllNamed(named) /\ Unnamed(named) = e
    BY <2>10, Naming
  <2>3. ASSUME NEW i \in 1 .. Len(named) PROVE ~ Marked(named[i], ";")
    <3>1. e[i] \in Text /\ ~ Marked(e[i], ";")
      BY <2>0, <2>2, ElementOfSeq
    <3>2. PICK u : u = <<"p=">> \o e[i]
      OBVIOUS
    <3>7. PICK f : f = <<"p=">>
      OBVIOUS
    <3>3. f \in Text /\ Len(f) = 1 /\ f[1] = "p="
      <4>1. f \in Text
        BY <3>1, <3>7, InFront
      <4> QED BY <3>7, <4>1, OneLexeme
    <3>9. PICK v : v = e[i]
      OBVIOUS
    <3>8. u = f \o v /\ v \in Text
      BY <3>1, <3>2, <3>7, <3>9
    <3>4. Len(u) = 1 + Len(v) /\ \A k \in 1 .. 1 + Len(v) : u[k] = IF k <= 1 THEN f[k] ELSE v[k - 1]
      <4>1. f \in Text /\ v \in Text
        BY <3>3, <3>8
      <4>2. /\ Len(f \o v) = Len(f) + Len(v)
            /\ \A k \in 1 .. Len(f) + Len(v) : (f \o v)[k] = IF k <= Len(f) THEN f[k] ELSE v[k - Len(f)]
        BY ONLY <4>1, Together
      <4> QED BY <3>3, <3>8, <4>2
    <3>5. ASSUME NEW k \in 1 .. Len(u) PROVE u[k] # ";"
      <4>1. Len(v) \in Nat
        BY <3>8, LenProperties DEF Text
      <4>2. CASE k = 1
        <5>1. u[1] = "p="
          BY <3>3, <3>4, <4>1
        <5> QED BY <4>2, <5>1
      <4>3. CASE k # 1
        <5>1. k - 1 \in 1 .. Len(v) /\ u[k] = v[k - 1]
          BY <3>4, <4>1, <4>3
        <5> QED BY <3>1, <3>9, <5>1 DEF Marked
      <4> QED BY <4>2, <4>3
    <3> QED BY <2>2, <3>2, <3>5 DEF Marked
  <2>4. named # <<>>
    <3>1. Len(e) \in Nat /\ Len(e) # 0
      BY EmptySeq, LenProperties
    <3> QED BY <2>2, <3>1
  <2>5. Join(named, ";") \in Text /\ Split(Join(named, ";"), ";") = named
    BY <1>1, <2>0, <2>2, <2>3, <2>4, SplitOfJoin, Joins DEF Text
  <2>6. t # <<>> /\ Head(t) = ";" /\ Tail(t) = Join(named, ";")
    BY <2>5, <2>11, InFront
  <2>7. StartsWith(t, ";") /\ Split(Tail(t), ";") = named
    BY <2>5, <2>6 DEF StartsWith
  <2>8. Written(p, e) = t /\ Pieces(p, t) =
             LET parts == Split(Tail(t), ";")
             IN  IF StartsWith(t, ";") /\ AllNamed(parts) THEN Unnamed(parts) ELSE None
    BY <1>5, <2>10, <2>11, ReadAndWritten
  <2>9. Pieces(p, t) = Unnamed(named)
    BY ONLY <2>2, <2>7, <2>8
  <2> QED BY <2>2, <2>8, <2>9
<1>6. CASE p.in = "path" /\ Style(p) = "matrix" /\ ~ Exploded(p)
  <2>0. Between(p) = ","
    BY <1>6, ReadAndWritten
  <2>1. PICK u, t : u = <<"p=">> \o j /\ t = <<";">> \o u
    OBVIOUS
  <2>2. u \in Text /\ u # <<>> /\ Head(u) = "p=" /\ Tail(u) = j
    BY <1>2, <2>1, InFront
  <2>3. t # <<>> /\ Head(t) = ";" /\ Tail(t) = u
    BY <2>1, <2>2, InFront
  <2>4. Written(p, e) = t
    BY <1>2, <1>6, <2>0, <2>1, ReadAndWritten, TwoInFront DEF Text
  <2>5. Pieces(p, t) = IF StartsWith(t, ";") /\ StartsWith(Tail(t), "p=") THEN Split(Tail(Tail(t)), ",") ELSE None
    BY <1>6, ReadAndWritten
  <2> QED BY <1>2, <2>0, <2>2, <2>3, <2>4, <2>5 DEF StartsWith
<1> QED BY <1>3, <1>4, <1>5, <1>6, ReadAndWritten

\* An array without elements is read back as one empty text, or not at all.
LEMMA ReadBackNothing ==
  ASSUME NEW p, ArrayParam(p)
  PROVE  Pieces(p, Written(p, <<>>)) \in {None, << <<>> >>}
<1>1. \A mark : Join(<<>>, mark) = <<>> /\ Split(<<>>, mark) = << <<>> >>
  BY JoinOfNothing, SplitOfNothing, OnePart
<1>2. CASE p.in = "query" \/ p.in = "header" \/ (p.in = "path" /\ Style(p) = "simple")
  <2>1. Written(p, <<>>) = Join(<<>>, Between(p)) /\ Pieces(p, <<>>) = Split(<<>>, Between(p))
    BY <1>2, ReadAndWritten
  <2> QED BY <1>1, <2>1
<1>3. CASE p.in = "path" /\ Style(p) = "label"
  <2>1. PICK t : t = <<".">> \o <<>>
    OBVIOUS
  <2>2. Tail(t) = <<>>
    BY <2>1, EmptySeq, InFront DEF Text
  <2>3. Written(p, <<>>) = <<".">> \o Join(<<>>, Between(p))
    BY <1>3, ReadAndWritten
  <2>4. Pieces(p, t) = IF StartsWith(t, ".") THEN Split(Tail(t), Between(p)) ELSE None
    BY <1>3, ReadAndWritten
  <2> QED BY <1>1, <2>1, <2>2, <2>3, <2>4
<1>4. CASE p.in = "path" /\ Style(p) = "matrix" /\ Exploded(p)
  <2>1. PICK t : t = <<";">> \o <<>>
    OBVIOUS
  <2>2. Tail(t) = <<>>
    BY <2>1, EmptySeq, InFront DEF Text
  <2>3. PICK e : e = <<>>
    OBVIOUS
  <2>4. Written(p, e) = <<";">> \o Join(Named(e), ";")
    BY <1>4, ReadAndWritten
  <2>5. Named(e) = <<>>
    BY <2>3 DEF Named
  <2>6. Written(p, <<>>) = t
    BY <1>1, <2>1, <2>3, <2>4, <2>5
  <2>7. Pieces(p, t) =
             LET parts == Split(Tail(t), ";")
             IN  IF StartsWith(t, ";") /\ AllNamed(parts) THEN Unnamed(parts) ELSE None
    BY <1>4, ReadAndWritten
  <2>8. Split(Tail(t), ";") = << <<>> >> /\ ~ AllNamed(<< <<>> >>)
    <3>1. << <<>> >>[1] = <<>> /\ 1 \in DOMAIN << <<>> >>
      BY OneLexeme
    <3>2. ~ StartsWith(<<>>, "p=")
      BY DEF StartsWith
    <3>3. ~ AllNamed(<< <<>> >>)
      BY <3>1, <3>2 DEF AllNamed
    <3> QED BY <1>1, <2>2, <3>3
  <2>9. Pieces(p, t) = None
    BY ONLY <2>7, <2>8
  <2> QED BY <2>6, <2>9
<1>5. CASE p.in = "path" /\ Style(p) = "matrix" /\ ~ Exploded(p)
  <2>1. PICK t : t = <<";", "p=">> \o <<>>
    OBVIOUS
  <2>2. Tail(Tail(t)) = <<>>
    <3>1. <<>> \in Text
      BY EmptySeq DEF Text
    <3>2. t = <<";">> \o (<<"p=">> \o <<>>)
      BY <2>1, <3>1, TwoInFront
    <3>3. <<"p=">> \o <<>> \in Text /\ Tail(<<"p=">> \o <<>>) = <<>>
      BY <3>1, InFront
    <3>4. PICK u : u = <<"p=">> \o <<>>
      OBVIOUS
    <3>5. Tail(t) = u
      BY <3>2, <3>3, <3>4, InFront
    <3> QED BY <3>3, <3>4, <3>5
  <2>3. Written(p, <<>>) = <<";", "p=">> \o Join(<<>>, ",")
    BY <1>5, ReadAndWritten
  <2>5. Pieces(p, t) = IF StartsWith(t, ";") /\ StartsWith(Tail(t), "p=") THEN Split(Tail(Tail(t)), ",") ELSE None
    BY <1>5, ReadAndWritten
  <2> QED BY <1>1, <2>1, <2>2, <2>3, <2>5
<1> QED BY <1>2, <1>3, <1>4, <1>5, ReadAndWritten

\* Every text is split into texts.
LEMMA Splits ==
  ASSUME NEW t \in Text, NEW mark \in Lexemes
  PROVE  Split(t, mark) \in Seq(Text) /\ Join(Split(t, mark), mark) = t
<1>1. Split(t, mark) \in Parts(Lexemes)
  BY MarksAreLexemes, SplitGrows DEF Text
<1>2. Split(t, mark) \in Seq(Text)
  <2>1. PICK f \in Seq(Seq(Lexemes)), v \in Seq(Lexemes) : Split(t, mark) = Append(f, v)
    BY <1>1 DEF Parts
  <2> QED BY <2>1, AppendProperties DEF Text
<1> QED BY <1>2, JoinOfSplit DEF Text

\* What was read back is written as what was read.
LEMMA WrittenBack ==
  ASSUME NEW p, ArrayParam(p), NEW t \in Text, Pieces(p, t) # None
  PROVE  Pieces(p, t) \in Seq(Text) /\ Written(p, Pieces(p, t)) = t
<1> DEFINE d == Between(p)
<1>1. d \in Lexemes
  BY ReadAndWritten
<1>2. CASE p.in = "query" \/ p.in = "header" \/ (p.in = "path" /\ Style(p) = "simple")
  <2>1. PICK parts : parts = Split(t, d)
    OBVIOUS
  <2>2. Pieces(p, t) = parts /\ Written(p, parts) = Join(parts, d)
    BY <1>2, <2>1, ReadAndWritten
  <2> QED BY <1>1, <2>1, <2>2, Splits
<1>3. CASE p.in = "path" /\ Style(p) = "label"
  <2>1. Pieces(p, t) = IF StartsWith(t, ".") THEN Split(Tail(t), d) ELSE None
    BY <1>3, ReadAndWritten
  <2>2. t # <<>> /\ Head(t) = "." /\ Pieces(p, t) = Split(Tail(t), d)
    BY <2>1 DEF StartsWith
  <2>3. Tail(t) \in Text /\ <<".">> \o Tail(t) = t
    BY <2>2, Behind
  <2>4. Split(Tail(t), d) \in Seq(Text) /\ Join(Split(Tail(t), d), d) = Tail(t)
    BY <1>1, <2>3, Splits
  <2>5. PICK parts : parts = Split(Tail(t), d)
    OBVIOUS
  <2>6. Written(p, parts) = <<".">> \o Join(parts, d)
    BY <1>3, ReadAndWritten
  <2> QED BY <2>2, <2>3, <2>4, <2>5, <2>6
<1>4. CASE p.in = "path" /\ Style(p) = "matrix" /\ Exploded(p)
  <2>0. d = ";"
    BY <1>4, ReadAndWritten
  <2>1. PICK parts : parts = Split(Tail(t), ";")
    OBVIOUS
  <2>2. Pieces(p, t) = IF StartsWith(t, ";") /\ AllNamed(parts) THEN Unnamed(parts) ELSE None
    BY <1>4, <2>1, ReadAndWritten
  <2>3. t # <<>> /\ Head(t) = ";" /\ AllNamed(parts) /\ Pieces(p, t) = Unnamed(parts)
    BY <2>2 DEF StartsWith
  <2>4. Tail(t) \in Text /\ <<";">> \o Tail(t) = t
    BY <2>3, Behind
  <2>5. parts \in Seq(Text) /\ Join(parts, ";") = Tail(t)
    BY <1>1, <2>0, <2>1, <2>4, Splits
  <2>6. PICK e : e = Unnamed(parts)
    OBVIOUS
  <2>7. e \in Seq(Text) /\ Named(e) = parts
    BY <2>3, <2>5, <2>6, Unnaming
  <2>8. Written(p, e) = <<";">> \o Join(Named(e), ";")
    BY <1>4, ReadAndWritten
  <2> QED BY <2>3, <2>4, <2>5, <2>6, <2>7, <2>8
<1>5. CASE p.in = "path" /\ Style(p) = "matrix" /\ ~ Exploded(p)
  <2>0. d = ","
    BY <1>5, ReadAndWritten
  <2>1. Pieces(p, t) = IF StartsWith(t, ";") /\ StartsWith(Tail(t), "p=") THEN Split(Tail(Tail(t)), ",") ELSE None
    BY <1>5, ReadAndWritten
  <2>2. PICK u, w : u = Tail(t) /\ w = Tail(u)
    OBVIOUS
  <2>3. /\ t # <<>> /\ Head(t) = ";" /\ u # <<>> /\ Head(u) = "p="
        /\ Pieces(p, t) = Split(w, ",")
    BY <2>1, <2>2 DEF StartsWith
  <2>4. u \in Text /\ <<";">> \o u = t
    BY <2>2, <2>3, Behind
  <2>5. w \in Text /\ <<"p=">> \o w = u
    BY <2>2, <2>3, <2>4, Behind
  <2>6. Split(w, ",") \in Seq(Text) /\ Join(Split(w, ","), ",") = w
    BY <1>1, <2>0, <2>5, Splits
  <2>7. PICK e : e = Split(w, ",")
    OBVIOUS
  <2>8. Written(p, e) = <<";", "p=">> \o Join(e, ",")
    BY <1>5, ReadAndWritten
  <2>9. <<";", "p=">> \o w = t
    BY <2>4, <2>5, TwoInFront
  <2> QED BY <2>3, <2>6, <2>7, <2>8, <2>9
<1> QED BY <1>2, <1>3, <1>4, <1>5, ReadAndWritten

-----------------------------------------------------------------------------
(* Arrays.                                                                 *)

LEMMA Verdicts ==
  /\ Fine.findings = {} /\ ~ Fine.unverified /\ Unverified.findings = {} /\ Unverified.unverified
  /\ \A kind : Found(kind).findings # {}
BY DEF Fine, Unverified, Found, Outcome

\* The elements of an array are checked as its schema admits them.
\* Trimming drops blanks only: the rest of a text is found in what is left of it.
LEMMA Trimmed ==
  ASSUME NEW t \in Text
  PROVE  /\ Trim(t) \in Text
         /\ \A mark : mark # " " /\ Marked(t, mark) => Marked(Trim(t), mark)
<1>1. PICK solid : solid = {i \in DOMAIN t : t[i] # " "}
  OBVIOUS
<1>2. Len(t) \in Nat /\ DOMAIN t = 1 .. Len(t)
  BY LenProperties DEF Text
<1>5. \A i \in solid : i \in 1 .. Len(t)
  BY <1>1, <1>2
<1>6. solid \subseteq Nat
  BY <1>2, <1>5
<1>3. CASE solid = {}
  <2>1. Trim(t) = <<>>
    BY <1>1, <1>3 DEF Trim
  <2> QED BY <1>1, <1>2, <1>3, <2>1, EmptySeq DEF Text, Marked
<1>4. CASE solid # {}
  <2>1. PICK first \in solid : \A j \in solid : first <= j
    BY <1>4, <1>6, MinimalNumber
  <2>2. PICK last \in solid : \A j \in solid : j <= last
    <3>1. PICK back : back = {Len(t) - j : j \in solid}
      OBVIOUS
    <3>2. back \subseteq Nat /\ back # {}
      BY <1>2, <1>4, <1>5, <3>1
    <3>3. PICK m \in back : \A n \in back : m <= n
      BY <3>2, MinimalNumber
    <3>4. PICK last \in solid : m = Len(t) - last
      BY <3>1, <3>3
    <3>5. ASSUME NEW j \in solid PROVE j <= last
      <4>1. m <= Len(t) - j
        BY <3>1, <3>3
      <4>2. m = Len(t) - last /\ Len(t) \in Nat /\ last \in Nat /\ j \in Nat
        BY <1>2, <1>6, <3>4
      <4> QED BY <4>1, <4>2
    <3> QED BY <3>5
  <2>3. /\ first = CHOOSE i \in solid : \A j \in solid : i <= j
        /\ last = CHOOSE i \in solid : \A j \in solid : j <= i
    <3>1. \A i, j \in solid : i <= j /\ j <= i => i = j
      BY <1>6
    <3> QED BY <2>1, <2>2, <3>1
  <2>4. Trim(t) = SubSeq(t, first, last)
    BY <1>1, <1>4, <2>3 DEF Trim
  <2>5. first \in 1 .. Len(t) /\ last \in 1 .. Len(t) /\ first <= last
    BY <1>1, <1>2, <2>1
  <2>6. /\ Trim(t) \in Text /\ Len(Trim(t)) = last - first + 1
        /\ \A i \in 1 .. last - first + 1 : Trim(t)[i] = t[first + i - 1]
    BY <2>4, <2>5, SubSeqProperties DEF Text
  <2>7. ASSUME NEW mark, mark # " ", Marked(t, mark) PROVE Marked(Trim(t), mark)
    <3>1. PICK k \in 1 .. Len(t) : t[k] = mark
      BY <1>2, <2>7 DEF Marked
    <3>2. k \in solid
      BY <1>1, <1>2, <2>7, <3>1
    <3>3. first <= k /\ k <= last
      BY <2>1, <2>2, <3>2
    <3>4. k - first + 1 \in 1 .. last - first + 1 /\ first + (k - first + 1) - 1 = k
      BY <2>5, <3>1, <3>3
    <3> QED BY <2>6, <3>1, <3>4 DEF Marked
  <2> QED BY <2>6, <2>7
<1> QED BY <1>3, <1>4

\* The elements of an array are as many as what it falls apart into.
LEMMA ValuesAre ==
  ASSUME NEW p, NEW e \in Seq(Text)
  PROVE  /\ p.in # "header" => Values(p, e) = e
         /\ DOMAIN Values(p, e) = DOMAIN e
         /\ p.in = "header" => \A i \in DOMAIN e : Values(p, e)[i] = Trim(e[i])
BY DEF Values

LEMMA ElementsOfAdmitted ==
  ASSUME NEW schema, IsItem(schema.item), Plainly(schema.item), NEW e, Admits(schema, e)
  PROVE  Elements(schema, e) = Fine
BY FitsIsChecked DEF Admits, Elements

LEMMA AdmittedElements ==
  ASSUME NEW schema, IsItem(schema.item), NEW e, Elements(schema, e).findings = {}
  PROVE  Admits(schema, e)
BY Verdicts, CheckedFits DEF Admits, Elements

LEMMA OneText ==
  ASSUME NEW e \in Seq(Text), Len(e) = 1
  PROVE  e[1] \in Text /\ e = <<e[1]>> /\ e # <<>>
<1>1. PICK t : t = e[1]
  OBVIOUS
<1>2. t \in Text
  <2>1. 1 \in 1 .. Len(e)
    OBVIOUS
  <2> QED BY <1>1, <2>1, ElementOfSeq
<1>3. <<t>> \in Seq(Text) /\ Len(<<t>>) = 1 /\ <<t>>[1] = t
  BY <1>2
<1>4. \A i \in 1 .. Len(e) : e[i] = <<t>>[i]
  BY <1>1, <1>3
<1>5. e = <<t>>
  BY <1>3, <1>4, SeqEqual
<1> QED BY <1>1, <1>2, <1>5

LEMMA JoinOfOne ==
  ASSUME NEW t \in Text, NEW mark \in Lexemes
  PROVE  Join(<<t>>, mark) = t
<1>1. <<>> \in Seq(Seq(Lexemes)) /\ t \in Seq(Lexemes) /\ Len(<<>>) + 1 = 1 /\ Append(<<>>, t) = <<t>>
  BY EmptySeq DEF Text
<1>2. Join(Append(<<>>, t), mark) = Joined(Join(<<>>, mark), Len(<<>>) + 1, t, mark)
  BY <1>1, JoinGrows
<1> QED BY <1>1, <1>2 DEF Joined

\* The state that lookupParamValue gives the occurrences.
Looked(lk, here) ==
  /\ lk.values = here /\ lk.state \in {"multi", "present", "array-values"}
  /\ lk.state = "present" => Len(here) = 1
  /\ lk.state = "array-values" => Len(here) # 1

\* An array that is written as declared is never faulted: what cannot be told
\* apart is unverified (validateArrayParam).
LEMMA ArrayNotFaulted ==
  ASSUME NEW p, ArrayParam(p), IsItem(p.schema.item), Plainly(p.schema.item),
         NEW here, NEW lk, Looked(lk, here), IsWrittenArray(p, here)
  PROVE  ValidateArray(p, lk).findings = {}
<1>1. PICK e \in Lists : /\ WriteArray(p, e) = here \/ (p.in = "query" /\ e = here)
                         /\ Admits(p.schema, Values(p, e))
  BY DEF IsWrittenArray
<1>2. e \in Seq(Text)
  BY MessageAssumption DEF Text
<1>3. Elements(p.schema, Values(p, e)) = Fine
  BY <1>1, ElementsOfAdmitted
<1>4. CASE p.schema.item.frac \/ lk.state = "multi"
  BY <1>4, Verdicts DEF ValidateArray
<1>5. CASE ~ (p.schema.item.frac \/ lk.state = "multi") /\ lk.state = "array-values"
  <2>1. Len(<<Written(p, e)>>) = 1
    BY OneLexeme
  <2>2. here = e /\ p.in = "query"
    BY <1>1, <1>5, <2>1 DEF WriteArray, Looked
  <2>3. Values(p, e) = e
    BY <1>2, <2>2, ValuesAre
  <2> QED BY <1>3, <2>3, <1>5, <2>2, Verdicts DEF ValidateArray, Looked
<1>6. CASE ~ (p.schema.item.frac \/ lk.state = "multi") /\ lk.state = "present" /\ SingleExploded(p)
  <2>1. here = e
    BY <1>1, <1>6 DEF WriteArray, SingleExploded, Exploded, ArrayParam
  <2>2. Values(p, e) = e
    BY <1>2, <1>6, ValuesAre DEF SingleExploded
  <2> QED BY <1>3, <2>2, <1>6, <2>1, Verdicts DEF ValidateArray, Looked
<1>7. CASE ~ (p.schema.item.frac \/ lk.state = "multi") /\ lk.state = "present" /\ ~ SingleExploded(p)
  <2>1. PICK parts : parts = Pieces(p, here[1])
    OBVIOUS
  <2>2. \/ ValidateArray(p, lk) = Unverified
        \/ /\ Splittable(p.schema.item.types, SplitOnDot(p)) /\ parts # None
           /\ \A i \in DOMAIN Values(p, parts) : Values(p, parts)[i] # <<>>
           /\ ValidateArray(p, lk) = Elements(p.schema, Values(p, parts))
    <3>1. PICK values : values = SplitArray(p, here[1])
      OBVIOUS
    <3>2. \/ ValidateArray(p, lk) = Unverified
          \/ /\ Splittable(p.schema.item.types, SplitOnDot(p)) /\ values # None
             /\ \A i \in DOMAIN values : values[i] # <<>>
             /\ ValidateArray(p, lk) = Elements(p.schema, values)
      BY <1>7, <3>1 DEF ValidateArray, Looked
    <3>3. values = IF parts = None THEN None ELSE Values(p, parts)
      BY <2>1, <3>1 DEF SplitArray
    <3> QED BY <3>2, <3>3
  <2>3. ASSUME Splittable(p.schema.item.types, SplitOnDot(p)), parts # None,
               \A i \in DOMAIN Values(p, parts) : Values(p, parts)[i] # <<>>
        PROVE  parts = e
    <3>1. WriteArray(p, e) = <<Written(p, e)>>
      BY <1>7 DEF WriteArray, SingleExploded, Exploded
    <3>2. here[1] = Written(p, e)
      <4>1. CASE WriteArray(p, e) = here
        BY <3>1, <4>1, OneLexeme
      <4>2. CASE p.in = "query" /\ e = here
        <5>1. e[1] \in Text /\ e = <<e[1]>>
          BY <1>2, <1>7, <4>2, OneText DEF Looked
        <5>2. Written(p, e) = Join(e, Between(p)) /\ Between(p) \in Lexemes
          BY <4>2, ReadAndWritten
        <5> QED BY <4>2, <5>1, <5>2, JoinOfOne
      <4> QED BY <1>1, <4>1, <4>2
    <3>3. e # <<>>
      <4> SUFFICES ASSUME e = <<>> PROVE FALSE
        OBVIOUS
      <4>1. PICK nothing : nothing = <<>>
        OBVIOUS
      <4>2. <<nothing>>[1] = nothing /\ 1 \in DOMAIN <<nothing>> /\ nothing \in Text
        BY <4>1, OneLexeme, EmptySeq DEF Text
      <4>3. parts = <<nothing>>
        BY <2>1, <2>3, <3>2, <4>1, ReadBackNothing
      <4>4. <<nothing>> \in Seq(Text)
        BY <4>2
      <4>5. Trim(nothing) = nothing
        <5>1. {i \in DOMAIN nothing : nothing[i] # " "} = {}
          BY <4>1
        <5> QED BY <4>1, <5>1 DEF Trim
      <4>6. Values(p, parts)[1] = nothing /\ 1 \in DOMAIN Values(p, parts)
        BY <4>2, <4>3, <4>4, <4>5, ValuesAre
      <4> QED BY <2>3, <4>1, <4>6
    <3>4. ASSUME NEW k \in 1 .. Len(e) PROVE ~ Marked(e[k], Between(p))
      <4>1. e[k] \in Text /\ k \in DOMAIN e
        BY <1>2, ElementOfSeq, LenProperties
      <4>2. Fits(p.schema.item, Values(p, e)[k])
        BY <1>1, <1>2, <4>1, ValuesAre DEF Admits
      <4>3. Between(p) \in {",", " ", "|", ";"} \/ (Between(p) = "." /\ SplitOnDot(p))
        BY ReadAndWritten
      <4>4. CASE p.in # "header"
        <5>1. Values(p, e)[k] = e[k]
          BY <1>2, <4>4, ValuesAre
        <5> QED BY <2>3, <4>1, <4>2, <4>3, <5>1, NoMark
      <4>5. CASE p.in = "header"
        <5>1. Values(p, e)[k] = Trim(e[k]) /\ Trim(e[k]) \in Text
          BY <1>2, <4>1, <4>5, ValuesAre, Trimmed
        <5>2. Between(p) = ","
          BY <4>5 DEF Between, Delimiter, ArrayParam, StyleSupported, ArrayStyles
        <5>3. ~ Marked(Trim(e[k]), Between(p))
          BY <2>3, <4>2, <4>3, <5>1, NoMark
        <5> QED BY <4>1, <5>2, <5>3, Trimmed
      <4> QED BY <4>4, <4>5
    <3> QED BY <1>2, <2>1, <3>2, <3>3, <3>4, ReadBack
  <2> QED BY <1>3, <2>2, <2>3, Verdicts
<1> QED BY <1>4, <1>5, <1>6, <1>7 DEF Looked

\* An array that passes without a doubt is written as declared.
LEMMA ArraySilence ==
  ASSUME NEW p, ArrayParam(p), IsItem(p.schema.item), NEW here \in Seq(Text), NEW lk, Looked(lk, here),
         ValidateArray(p, lk).findings = {}, ~ ValidateArray(p, lk).unverified,
         p.in = "query" => here \in Lists, p.in # "query" => Len(here) = 1,
         Len(here) = 1 => Pieces(p, here[1]) \in Lists \cup {None}
  PROVE  IsWrittenArray(p, here)
<1>1. ~ (p.schema.item.frac \/ lk.state = "multi")
  BY Verdicts DEF ValidateArray
<1>2. CASE lk.state = "array-values" \/ SingleExploded(p)
  <2>1. p.in = "query"
    BY <1>2 DEF Looked, SingleExploded
  <2>2. ValidateArray(p, lk) \in {Elements(p.schema, here), Unverified}
    BY <1>1, <1>2 DEF ValidateArray, Looked
  <2>3. Admits(p.schema, here) /\ Values(p, here) = here
    BY <2>1, <2>2, AdmittedElements, Verdicts, ValuesAre
  <2> QED BY <2>1, <2>3 DEF IsWrittenArray
<1>3. CASE lk.state = "present" /\ ~ SingleExploded(p)
  <2>1. PICK parts : parts = Pieces(p, here[1])
    OBVIOUS
  <2>2. parts # None /\ ValidateArray(p, lk) = Elements(p.schema, Values(p, parts))
    <3>1. PICK values : values = SplitArray(p, here[1])
      OBVIOUS
    <3>2. values # None /\ ValidateArray(p, lk) = Elements(p.schema, values)
      BY <1>1, <1>3, <3>1, Verdicts DEF ValidateArray, Looked
    <3> QED BY <2>1, <3>1, <3>2 DEF SplitArray
  <2>3. here[1] \in Text /\ here = <<here[1]>>
    BY <1>3, OneText DEF Looked
  <2>4. Written(p, parts) = here[1]
    BY <2>1, <2>2, <2>3, WrittenBack
  <2>5. WriteArray(p, parts) = here
    BY <1>3, <2>3, <2>4 DEF WriteArray, SingleExploded, Exploded
  <2>6. parts \in Lists
    BY <1>3, <2>1, <2>2 DEF Looked
  <2>7. Admits(p.schema, Values(p, parts))
    BY <2>2, AdmittedElements
  <2> QED BY <2>5, <2>6, <2>7 DEF IsWrittenArray
<1> QED BY <1>1, <1>2, <1>3 DEF Looked

-----------------------------------------------------------------------------
(* Objects.                                                                *)

\* No value, or one.
AtMostOne(v) == v = <<>> \/ \E t : v = <<t>>

Pairs(name, v) == [i \in DOMAIN v |-> <<name, v[i]>>]

LEMMA PairsOf ==
  ASSUME NEW name, NEW v, AtMostOne(v)
  PROVE  Pairs(name, v) = IF v = <<>> THEN <<>> ELSE << <<name, v[1]>> >>
<1>1. CASE v = <<>>
  BY <1>1 DEF Pairs
<1>2. CASE v # <<>>
  <2>1. PICK t : v = <<t>>
    BY <1>2 DEF AtMostOne
  <2>2. DOMAIN v = {1} /\ v[1] = t
    BY <2>1, OneLexeme
  <2>3. Pairs(name, v) = [i \in {1} |-> <<name, t>>]
    BY <2>2 DEF Pairs
  <2>4. PICK a : a = <<name, t>>
    OBVIOUS
  <2>5. [i \in {1} |-> a] = <<a>>
    OBVIOUS
  <2> QED BY <1>2, <2>2, <2>3, <2>4, <2>5
<1> QED BY <1>1, <1>2

\* The pairs of a deep object whose properties are given once.
DeepOf(pairs, k, z) ==
  /\ k = <<>> /\ z = <<>> => pairs = <<>>
  /\ k # <<>> /\ z = <<>> => pairs = << << <<"k">>, k[1] >> >>
  /\ k = <<>> /\ z # <<>> => pairs = << << <<"z">>, z[1] >> >>
  /\ k # <<>> /\ z # <<>> => pairs = << << <<"k">>, k[1] >>, << <<"z">>, z[1] >> >>

LEMMA DeepPairs ==
  ASSUME NEW k, NEW z, AtMostOne(k), AtMostOne(z), NEW pairs, pairs = Pairs(<<"k">>, k) \o Pairs(<<"z">>, z)
  PROVE  DeepOf(pairs, k, z)
<1>1. PICK a, b : a = << <<"k">>, k[1] >> /\ b = << <<"z">>, z[1] >>
  OBVIOUS
<1>2. /\ Pairs(<<"k">>, k) = IF k = <<>> THEN <<>> ELSE <<a>>
      /\ Pairs(<<"z">>, z) = IF z = <<>> THEN <<>> ELSE <<b>>
  BY <1>1, PairsOf
<1>3. /\ <<>> \o <<>> = <<>> /\ <<a>> \o <<>> = <<a>> /\ <<>> \o <<b>> = <<b>> /\ <<a>> \o <<b>> = <<a, b>>
  <2>1. PICK S : S = {a, b}
    OBVIOUS
  <2>2. <<>> \in Seq(S) /\ <<a>> \in Seq(S) /\ <<b>> \in Seq(S)
    BY <2>1
  <2> QED BY <2>2, ConcatEmptySeq, Pair
<1> QED BY <1>1, <1>2, <1>3 DEF DeepOf

\* A pair holds when its value does, or when it may be there.
LEMMA PairOf ==
  ASSUME NEW p, NEW pairs, NEW i
  PROVE  /\ pairs[i][1] = <<"k">> /\ Checks(p.schema.item, pairs[i][2]) => PairHolds(p, pairs, i)
         /\ pairs[i][1] # <<"k">> => (PairHolds(p, pairs, i) <=> p.schema.extra # "none")
         /\ /\ pairs[i][1] = <<"k">> /\ PairHolds(p, pairs, i)
            /\ \A j \in DOMAIN pairs : j > i => pairs[j][1] # <<"k">>
            => Checks(p.schema.item, pairs[i][2])
BY DEF PairHolds, Checks

LEMMA TwoNames ==
  /\ <<"k">> # <<"z">>
  /\ \A a, b : /\ <<a, b>>[1] = a /\ <<a, b>>[2] = b /\ DOMAIN <<a, b>> = {1, 2} /\ Len(<<a, b>>) = 2
               /\ <<a>> # <<>> /\ <<a, b>> # <<>>
BY OneLexeme

\* What is not marked in an object that is written as a list.
LEMMA NoComma ==
  ASSUME NEW item, \A i \in DOMAIN item.types : item.types[i] \in {"integer", "boolean", "null"},
         NEW text \in Text, Fits(item, text)
  PROVE  ~ Marked(text, ",")
<1>1. CASE text = <<>>
  BY <1>1, NothingMarked
<1>2. CASE text # <<>>
  <2>1. PICK i \in DOMAIN item.types : Reads(item.types[i], text)
    BY <1>2 DEF Fits
  <2>2. item.types[i] # "null"
    BY <2>1 DEF Reads
  <2>3. Splittable(item.types, FALSE)
    BY <2>1, <2>2 DEF Splittable
  <2> QED BY <2>3, NoMark
<1> QED BY <1>1, <1>2

LEMMA MeantTexts ==
  Texts \subseteq Meant /\ Meant \subseteq Text /\ Texts \subseteq Text
<1>1. \A l \in Sent \cup Lists : l \in Seq(Text)
  BY MessageAssumption DEF Text
<1>2. Texts \subseteq Text
  <2>1. ASSUME NEW l \in Sent, Len(l) = 1 PROVE l[1] \in Text
    BY <1>1, <2>1, OneText
  <2> QED BY <2>1 DEF Texts
<1>3. ASSUME NEW l \in Lists, NEW i \in DOMAIN l PROVE l[i] \in Text
  BY <1>1, LenProperties, ElementOfSeq
<1> QED BY <1>2, <1>3 DEF Meant

LEMMA GivenIs ==
  ASSUME NEW T, NEW v \in Given(T)
  PROVE  AtMostOne(v) /\ (v # <<>> => v[1] \in T /\ v = <<v[1]>>) /\ Len(v) <= 1
<1>1. CASE v = <<>>
  BY <1>1 DEF AtMostOne
<1>2. CASE v # <<>>
  <2>1. PICK t \in T : v = <<t>>
    BY <1>2 DEF Given
  <2> QED BY <2>1, OneLexeme DEF AtMostOne
<1> QED BY <1>1, <1>2

\* Objects as they are supported.
ObjectParam(p) ==
  /\ p.schema.kind = "object" /\ StyleSupported(p) /\ p.in = "query"

\* The two styles an object can be read back from.
LEMMA ObjectStyles ==
  ASSUME NEW p, ObjectParam(p)
  PROVE  Style(p) = "deepObject" \/ (Style(p) = "form" /\ p.explode = "false" /\ ~ Exploded(p) /\ Delimiter(p) = ",")
BY DEF ObjectParam, StyleSupported, ObjectSupported, Exploded, Delimiter

\* The two ways in which such an object is written.
LEMMA WrittenDeep ==
  ASSUME NEW p, Style(p) = "deepObject", NEW k, NEW z, NEW query, query = WriteObject(p, k, z)
  PROVE  /\ query["p[k]"] = k /\ query["p[z]"] = z /\ DOMAIN query = Keys
         /\ \A key \in Keys \ Bracketed : query[key] = <<>>
         /\ k = <<>> /\ z = <<>> => query = EmptyQuery
<1>1. query = [EmptyQuery EXCEPT !["p[k]"] = k, !["p[z]"] = z]
  BY DEF WriteObject
<1>2. DOMAIN EmptyQuery = Keys /\ \A key \in Keys : EmptyQuery[key] = <<>>
  BY DEF EmptyQuery
<1>3. "p[k]" \in Keys /\ "p[z]" \in Keys /\ "p" \in Keys
  BY DEF Keys
<1>4. EmptyQuery = [key \in Keys |-> <<>>]
  BY DEF EmptyQuery
<1> QED BY <1>1, <1>2, <1>3, <1>4 DEF Bracketed

ListText(v) == Join(<< <<"k">>, v >>, ",")

LEMMA WrittenList ==
  ASSUME NEW p, Style(p) = "form", ~ Exploded(p), NEW k, AtMostOne(k), NEW z, z = <<>>,
         NEW query, query = WriteObject(p, k, z)
  PROVE  /\ DOMAIN query = Keys /\ \A key \in Keys \ {"p"} : query[key] = <<>>
         /\ k = <<>> => query = EmptyQuery /\ query["p"] = <<>>
         /\ k # <<>> => query["p"] = << ListText(k[1]) >> /\ query = [EmptyQuery EXCEPT !["p"] = << ListText(k[1]) >>]
<1>1. PICK ks : ks = IF k = <<>> THEN <<>> ELSE << <<"k">>, k[1] >>
  OBVIOUS
<1>2. ks \o <<>> = ks
  <2>1. PICK a, b, S : a = <<"k">> /\ b = k[1] /\ S = {a, b}
    OBVIOUS
  <2>2. <<>> \in Seq(S) /\ <<a, b>> \in Seq(S)
    BY <2>1
  <2> QED BY <1>1, <2>1, <2>2, ConcatEmptySeq
<1>3. query = IF ks = <<>> THEN EmptyQuery ELSE [EmptyQuery EXCEPT !["p"] = << Join(ks, ",") >>]
  <2>2. ks \o (IF z = <<>> THEN <<>> ELSE << <<"a">>, z[1] >>) = ks
    BY <1>2
  <2>3. WriteObject(p, k, z) = IF ks = <<>> THEN EmptyQuery ELSE [EmptyQuery EXCEPT !["p"] = << Join(ks, ",") >>]
    BY <1>1, <2>2 DEF WriteObject
  <2> QED BY <2>3
<1>4. DOMAIN EmptyQuery = Keys /\ "p" \in Keys /\ \A key \in Keys : EmptyQuery[key] = <<>>
  BY DEF EmptyQuery, Keys
<1>5. k # <<>> => ks # <<>>
  BY <1>1, TwoNames
<1> QED BY <1>1, <1>3, <1>4, <1>5 DEF ListText

\* An object that is written as declared is never faulted (validateObjectParam).
LEMMA ObjectNotFaulted ==
  ASSUME NEW p, ObjectParam(p), IsItem(p.schema.item), Plainly(p.schema.item),
         NEW held, IsWrittenObject(p, held.query), p.required => held.query # EmptyQuery, NEW authoritative
  PROVE  ValidateObject(p, held, authoritative).findings = {}
<1> DEFINE pairs == Collected(p, held)
<1>1. PICK k \in Given({t \in Meant : Fits(p.schema.item, t)}),
           z \in IF p.schema.extra = "none" THEN {<<>>} ELSE Given(Texts) :
             WriteObject(p, k, z) = held.query
  BY DEF IsWrittenObject
<1>2. AtMostOne(k) /\ Len(k) <= 1 /\ (k # <<>> => k[1] \in Meant /\ Fits(p.schema.item, k[1]))
  BY GivenIs
<1>3. AtMostOne(z) /\ Len(z) <= 1 /\ (z # <<>> => p.schema.extra # "none")
  <2>1. z \in Given(Texts)
    BY DEF Given
  <2> QED BY <2>1, GivenIs
<1>4. k # <<>> => Checks(p.schema.item, k[1])
  BY <1>2, FitsIsChecked
<1>5. SUFFICES ASSUME Reconstructible(p), pairs # None
               PROVE  /\ pairs = <<>> => held.query = EmptyQuery
                      /\ \A i \in DOMAIN pairs : PairHolds(p, pairs, i)
  BY Verdicts DEF ValidateObject
<1>6. CASE Style(p) = "deepObject"
  <2>1. held.query["p[k]"] = k /\ held.query["p[z]"] = z /\ (k = <<>> /\ z = <<>> => held.query = EmptyQuery)
    BY <1>1, <1>6, WrittenDeep
  <2>2. pairs = Pairs(<<"k">>, k) \o Pairs(<<"z">>, z)
    <3>1. ~ \E key \in Bracketed : Len(held.query[key]) > 1
      BY <1>5, <1>6 DEF Collected
    <3> QED BY <1>6, <2>1, <3>1 DEF Collected, Pairs
  <2>3. /\ k = <<>> /\ z = <<>> => pairs = <<>>
        /\ k # <<>> /\ z = <<>> => pairs = << << <<"k">>, k[1] >> >>
        /\ k = <<>> /\ z # <<>> => pairs = << << <<"z">>, z[1] >> >>
        /\ k # <<>> /\ z # <<>> => pairs = << << <<"k">>, k[1] >>, << <<"z">>, z[1] >> >>
    BY <1>2, <1>3, <2>2, DeepPairs DEF DeepOf
  <2> HIDE DEF pairs
  <2>4. ASSUME NEW i \in DOMAIN pairs
        PROVE  \/ k # <<>> /\ pairs[i][1] = <<"k">> /\ pairs[i][2] = k[1]
               \/ z # <<>> /\ pairs[i][1] = <<"z">>
    <3>1. CASE k = <<>> /\ z = <<>>
      BY <2>3, <3>1
    <3>2. CASE k # <<>> /\ z = <<>>
      BY <2>3, <3>2, OneLexeme, TwoNames
    <3>3. CASE k = <<>> /\ z # <<>>
      BY <2>3, <3>3, OneLexeme, TwoNames
    <3>4. CASE k # <<>> /\ z # <<>>
      <4>1. PICK a, b : a = << <<"k">>, k[1] >> /\ b = << <<"z">>, z[1] >>
        OBVIOUS
      <4>2. pairs = <<a, b>>
        BY <2>3, <3>4, <4>1
      <4>3. (i = 1 /\ pairs[i] = a) \/ (i = 2 /\ pairs[i] = b)
        BY <4>2, TwoNames
      <4>4. a[1] = <<"k">> /\ a[2] = k[1] /\ b[1] = <<"z">>
        BY <4>1, TwoNames
      <4> QED BY <3>4, <4>3, <4>4
    <3> QED BY <3>1, <3>2, <3>3, <3>4
  <2>5. \A i \in DOMAIN pairs : PairHolds(p, pairs, i)
    BY <1>3, <1>4, <2>4, PairOf, TwoNames
  <2>6. pairs = <<>> => k = <<>> /\ z = <<>>
    BY <2>3, TwoNames
  <2> QED BY <2>1, <2>5, <2>6
<1>7. CASE Style(p) # "deepObject"
  <2>1. Style(p) = "form" /\ ~ Exploded(p)
    BY <1>7, ObjectStyles
  <2>2. /\ p.schema.extra = "none"
        /\ \A i \in DOMAIN p.schema.item.types : p.schema.item.types[i] \in {"integer", "boolean", "null"}
    BY <1>5, <1>7 DEF Reconstructible
  <2>3. z = <<>>
    BY <2>2
  <2>4. CASE k = <<>>
    <3>1. held.query = EmptyQuery /\ held.query["p"] = <<>>
      BY <1>1, <1>2, <2>1, <2>3, <2>4, WrittenList
    <3>2. pairs = <<>>
      BY <1>7, <3>1 DEF Collected
    <3> QED BY <3>1, <3>2
  <2>5. CASE k # <<>>
    <3>1. PICK e : e = << <<"k">>, k[1] >>
      OBVIOUS
    <3>2. held.query["p"] = << Join(e, ",") >>
      <4>1. held.query["p"] = << ListText(k[1]) >>
        BY <1>1, <1>2, <2>1, <2>3, <2>5, WrittenList
      <4> QED BY <3>1, <4>1 DEF ListText
    <3>3. k[1] \in Text /\ <<"k">> \in Text
      <4>1. k[1] \in Text
        BY <1>2, <2>5, MeantTexts
      <4>2. <<"k">> \in Seq(Lexemes)
        BY MarksAreLexemes, Single
      <4> QED BY <4>1, <4>2 DEF Text
    <3>4. e \in Seq(Text) /\ Len(e) = 2 /\ e # <<>> /\ e[1] = <<"k">> /\ e[2] = k[1]
      BY <3>1, <3>3
    <3>5. ~ Marked(<<"k">>, ",") /\ ~ Marked(k[1], ",")
      <4>1. ~ Marked(<<"k">>, ",")
        <5>1. Len(<<"k">>) = 1 /\ <<"k">>[1] = "k"
          BY OneLexeme
        <5>2. \A i \in 1 .. 1 : i = 1
          OBVIOUS
        <5> QED BY <5>1, <5>2 DEF Marked
      <4> QED BY <1>2, <2>2, <2>5, <3>3, <4>1, NoComma
    <3>6. Split(Join(e, ","), ",") = e
      <4>1. \A i \in 1 .. Len(e) : ~ Marked(e[i], ",")
        <5>1. \A i \in 1 .. 2 : i = 1 \/ i = 2
          OBVIOUS
        <5> QED BY <3>4, <3>5, <5>1
      <4>2. "," \in Lexemes
        BY MarksAreLexemes
      <4> QED BY <3>4, <4>1, <4>2, SplitOfJoin DEF Text
    <3>7. PICK t : t = Join(e, ",")
      OBVIOUS
    <3>8. held.query["p"] = <<t>> /\ <<t>>[1] = t /\ <<t>> # <<>> /\ Split(t, ",") = e
      BY <3>2, <3>6, <3>7, OneLexeme, TwoNames
    <3>9. pairs = [i \in 1 .. Len(e) \div 2 |-> <<e[2 * i - 1], e[2 * i]>>]
      BY <1>5, <1>7, <3>8 DEF Collected
    <3>10. pairs = [i \in 1 .. 1 |-> <<e[2 * i - 1], e[2 * i]>>]
      BY <3>4, <3>9
    <3>11. DOMAIN pairs = {1} /\ pairs[1] = <<e[1], e[2]>>
      BY <3>10
    <3> HIDE DEF pairs
    <3>12. pairs[1][1] = <<"k">> /\ pairs[1][2] = k[1]
      BY <3>4, <3>11, TwoNames
    <3>13. PairHolds(p, pairs, 1)
      BY <1>4, <2>5, <3>12, PairOf
    <3>14. pairs # <<>>
      BY <3>11
    <3> QED BY <3>11, <3>13, <3>14
  <2> QED BY <2>4, <2>5
<1> QED BY <1>6, <1>7

\* What a query of a message is like.
LEMMA QueriesAre ==
  ASSUME NEW q \in Queries
  PROVE  /\ DOMAIN q = Keys /\ q = [key \in Keys |-> q[key]]
         /\ q["p[k]"] \in Given(Texts) /\ q["p[z]"] \in Given(Texts)
         /\ q["p"] \in Lists /\ q["p"] \in Seq(Text)
<1>1. q["p"] \in Lists /\ q["p"] \in Seq(Text)
  BY MessageAssumption DEF Text
<1>2. EmptyQuery = [key \in Keys |-> <<>>] /\ {"p", "p[k]", "p[z]", "k"} \subseteq Keys
  BY DEF EmptyQuery, Keys
<1>3. <<>> \in Given(Texts)
  BY DEF Given
<1>4. CASE \E o : q = [EmptyQuery EXCEPT !["p"] = o]
  BY <1>1, <1>2, <1>3, <1>4
<1>5. CASE \E p \in Params, k, z \in Given(Texts) : q = WriteObject(p, k, z)
  <2>1. PICK p \in Params, k \in Given(Texts), z \in Given(Texts) : q = WriteObject(p, k, z)
    BY <1>5
  <2>2. \/ q = [EmptyQuery EXCEPT !["p[k]"] = k, !["p[z]"] = z]
        \/ q = [EmptyQuery EXCEPT !["k"] = k]
        \/ q = EmptyQuery
        \/ \E o : q = [EmptyQuery EXCEPT !["p"] = o]
    BY <2>1 DEF WriteObject
  <2> QED BY <1>1, <1>2, <1>3, <2>1, <2>2
<1> QED BY <1>4, <1>5 DEF Queries

LEMMA SameQuery ==
  ASSUME NEW q \in Queries, NEW r, DOMAIN r = Keys, r = [key \in Keys |-> r[key]],
         \A key \in Keys : q[key] = r[key]
  PROVE  q = r
BY QueriesAre

\* A list names a property once.
Once(segments) ==
  \A i, j \in {n \in DOMAIN segments : n % 2 = 1} : segments[i] = segments[j] => i = j

\* An object whose pairs all hold is written as declared: deepObject.
LEMMA DeepSilence ==
  ASSUME NEW p, Style(p) = "deepObject", IsItem(p.schema.item), NEW q \in Queries,
         \A key \in Keys \ Bracketed : q[key] = <<>>,
         NEW k, k = q["p[k]"], NEW z, z = q["p[z]"],
         NEW pairs, pairs = Pairs(<<"k">>, k) \o Pairs(<<"z">>, z),
         pairs = <<>> => ~ p.required, \A i \in DOMAIN pairs : PairHolds(p, pairs, i)
  PROVE  IsWrittenObject(p, q) /\ (p.required => q # EmptyQuery)
<1>3. /\ {"p", "p[k]", "p[z]"} \subseteq Keys /\ EmptyQuery = [key \in Keys |-> <<>>]
  BY DEF Keys, EmptyQuery
<1>4. AtMostOne(k) /\ AtMostOne(z) /\ k \in Given(Texts) /\ z \in Given(Texts)
  BY QueriesAre, GivenIs
<1>9. DeepOf(pairs, k, z)
  BY ONLY <1>4, DeepPairs, pairs = Pairs(<<"k">>, k) \o Pairs(<<"z">>, z)
<1>5. /\ k = <<>> /\ z = <<>> => pairs = <<>>
      /\ k # <<>> /\ z = <<>> => pairs = << << <<"k">>, k[1] >> >>
      /\ k = <<>> /\ z # <<>> => pairs = << << <<"z">>, z[1] >> >>
      /\ k # <<>> /\ z # <<>> => pairs = << << <<"k">>, k[1] >>, << <<"z">>, z[1] >> >>
  BY ONLY <1>9 DEF DeepOf
<1>6. WriteObject(p, k, z) = q
  <2>1. PICK r : r = WriteObject(p, k, z)
    OBVIOUS
  <2>2. /\ r["p[k]"] = k /\ r["p[z]"] = z /\ DOMAIN r = Keys
        /\ \A key \in Keys \ Bracketed : r[key] = <<>>
    BY <2>1, WrittenDeep
  <2>3. r = [key \in Keys |-> r[key]]
    BY <2>1 DEF WriteObject, EmptyQuery
  <2>4. \A key \in Keys : q[key] = r[key]
    BY <2>2 DEF Bracketed
  <2>5. q = r
    BY ONLY <2>2, <2>3, <2>4, q \in Queries, SameQuery
  <2> QED BY ONLY <2>1, <2>5
<1>7. CASE k = <<>> /\ z = <<>>
  <2>1. pairs = <<>>
    BY <1>5, <1>7
  <2>2. k \in Given({t \in Meant : Fits(p.schema.item, t)}) /\ z \in {<<>>} /\ z \in Given(Texts)
    BY <1>7 DEF Given
  <2> QED BY <1>6, <2>1, <2>2 DEF IsWrittenObject
<1>8. CASE k # <<>> \/ z # <<>>
  <2>1. q # EmptyQuery
    BY <1>3, <1>8
  <2>2. k # <<>> => Checks(p.schema.item, k[1])
    <3>1. CASE k # <<>> /\ z = <<>>
      <4>1. PICK a : a = << <<"k">>, k[1] >>
        OBVIOUS
      <4>2. pairs = <<a>>
        BY <1>5, <3>1, <4>1
      <4>3. DOMAIN pairs = {1} /\ pairs[1] = a
        BY <4>2, OneLexeme
      <4>4. pairs[1][1] = <<"k">> /\ pairs[1][2] = k[1]
        BY <4>1, <4>3, TwoNames
      <4>5. PairHolds(p, pairs, 1) /\ \A j \in DOMAIN pairs : ~ j > 1
        BY <4>3
      <4> QED BY <4>4, <4>5, PairOf
    <3>2. CASE k # <<>> /\ z # <<>>
      <4>1. PICK a, b : a = << <<"k">>, k[1] >> /\ b = << <<"z">>, z[1] >>
        OBVIOUS
      <4>2. pairs = <<a, b>>
        BY <1>5, <3>2, <4>1
      <4>3. DOMAIN pairs = {1, 2} /\ pairs[1] = a /\ pairs[2] = b
        BY ONLY <4>2, TwoNames
      <4>4. pairs[1][1] = <<"k">> /\ pairs[1][2] = k[1] /\ pairs[2][1] # <<"k">>
        BY <4>1, <4>3, TwoNames
      <4>5. PairHolds(p, pairs, 1) /\ \A j \in DOMAIN pairs : j > 1 => j = 2
        BY <4>3
      <4>6. \A j \in DOMAIN pairs : j > 1 => pairs[j][1] # <<"k">>
        BY ONLY <4>4, <4>5
      <4> QED BY ONLY <4>4, <4>5, <4>6, PairOf
    <3> QED BY <3>1, <3>2
  <2>3. z # <<>> => p.schema.extra # "none"
    <3>1. CASE z # <<>> /\ k = <<>>
      <4>1. PICK b : b = << <<"z">>, z[1] >>
        OBVIOUS
      <4>2. pairs = <<b>>
        BY <1>5, <3>1, <4>1
      <4>3. DOMAIN pairs = {1} /\ pairs[1] = b
        BY <4>2, OneLexeme
      <4>4. pairs[1][1] # <<"k">> /\ PairHolds(p, pairs, 1)
        BY <4>1, <4>3, TwoNames
      <4> QED BY <4>4, PairOf
    <3>2. CASE z # <<>> /\ k # <<>>
      <4>1. PICK a, b : a = << <<"k">>, k[1] >> /\ b = << <<"z">>, z[1] >>
        OBVIOUS
      <4>2. pairs = <<a, b>>
        BY <1>5, <3>2, <4>1
      <4>3. DOMAIN pairs = {1, 2} /\ pairs[2] = b
        BY ONLY <4>2, TwoNames
      <4>4. pairs[2][1] # <<"k">> /\ PairHolds(p, pairs, 2)
        BY <4>1, <4>3, TwoNames
      <4> QED BY <4>4, PairOf
    <3> QED BY <3>1, <3>2
  <2>4. k \in Given({t \in Meant : Fits(p.schema.item, t)})
    <3>1. CASE k = <<>>
      BY <3>1 DEF Given
    <3>2. CASE k # <<>>
      <4>1. k[1] \in Meant /\ k = <<k[1]>>
        BY <1>4, <3>2, GivenIs, MeantTexts
      <4>2. Fits(p.schema.item, k[1])
        BY <2>2, <3>2, CheckedFits
      <4> QED BY <4>1, <4>2 DEF Given
    <3> QED BY <3>1, <3>2
  <2>5. z \in IF p.schema.extra = "none" THEN {<<>>} ELSE Given(Texts)
    BY <1>4, <2>3
  <2> QED BY <1>6, <2>1, <2>4, <2>5 DEF IsWrittenObject
<1> QED BY <1>7, <1>8

\* A list of pairs that all say the same name once is one pair.
LEMMA OnePair ==
  ASSUME NEW s \in Seq(Text), Len(s) # 0, Len(s) % 2 = 0, Once(s),
         NEW h, h = Len(s) \div 2, \A i \in 1 .. h : s[2 * i - 1] = <<"k">>
  PROVE  Len(s) = 2 /\ h = 1
<1>1. PICK n : n = Len(s)
  OBVIOUS
<1>2. n \in Nat /\ DOMAIN s = 1 .. n
  BY <1>1, LenProperties
<1>3. n # 0 /\ n % 2 = 0 /\ h = n \div 2
  BY <1>1
<1>4. h \in Nat /\ n = 2 * h
  <2>1. \A x \in Nat : x % 2 = 0 => x \div 2 \in Nat /\ x = 2 * (x \div 2)
    OBVIOUS
  <2> QED BY ONLY <1>2, <1>3, <2>1
<1>9. h = 1 => n = 2
  BY ONLY <1>4
<1>5. SUFFICES ASSUME h # 1 PROVE FALSE
  BY <1>1, <1>9
<1>6. 1 \in 1 .. h /\ 2 \in 1 .. h /\ 1 \in 1 .. n /\ 3 \in 1 .. n
  BY ONLY <1>3, <1>4, <1>5
<1>7. 2 * 1 - 1 = 1 /\ 2 * 2 - 1 = 3 /\ 1 % 2 = 1 /\ 3 % 2 = 1 /\ 1 # 3
  OBVIOUS
<1>8. s[1] = <<"k">> /\ s[3] = <<"k">>
  BY <1>6, <1>7
<1> QED BY <1>2, <1>6, <1>7, <1>8 DEF Once

LEMMA TwoTexts ==
  ASSUME NEW s \in Seq(Text), Len(s) = 2
  PROVE  s = <<s[1], s[2]>> /\ s[2] \in Text /\ DOMAIN s = {1, 2}
<1>1. 1 \in 1 .. Len(s) /\ 2 \in 1 .. Len(s)
  OBVIOUS
<1>2. s[1] \in Text /\ s[2] \in Text
  BY <1>1, ElementOfSeq
<1>3. PICK a, b, e : a = s[1] /\ b = s[2] /\ e = <<a, b>>
  OBVIOUS
<1>4. e \in Seq(Text) /\ Len(e) = 2 /\ e[1] = a /\ e[2] = b
  BY <1>2, <1>3
<1>5. \A i \in 1 .. 2 : i = 1 \/ i = 2
  OBVIOUS
<1>6. \A i \in 1 .. 2 : s[i] = e[i]
  BY <1>3, <1>4, <1>5
<1>7. s = e
  BY <1>4, <1>6, SeqEqual
<1>8. DOMAIN s = {1, 2}
  BY <1>5, <1>7, <1>3, TwoNames
<1> QED BY <1>2, <1>3, <1>7, <1>8

LEMMA PartsAre ==
  ASSUME NEW S, NEW s \in Parts(S)
  PROVE  s # <<>>
<1>1. PICK f \in Seq(Seq(S)), v \in Seq(S) : s = Append(f, v)
  BY DEF Parts
<1> QED BY <1>1, AppendProperties

LEMMA SmallSums == 2 * 1 - 1 = 1 /\ 2 * 1 = 2 /\ \A n \in Nat : n # 0 /\ ~ n > 1 => n = 1
OBVIOUS

\* The pairs of a list, name by name and value by value.
LEMMA PairByPair ==
  ASSUME NEW s, NEW h, NEW pairs, pairs = [i \in 1 .. h |-> <<s[2 * i - 1], s[2 * i]>>]
  PROVE  /\ DOMAIN pairs = 1 .. h
         /\ \A i \in DOMAIN pairs : pairs[i][1] = s[2 * i - 1] /\ pairs[i][2] = s[2 * i]
OBVIOUS

\* An object whose pairs all hold is written as declared: a list that names a
\* property once.
LEMMA ListSilence ==
  ASSUME NEW p \in Params, p.in = "query", Style(p) = "form", ~ Exploded(p), Delimiter(p) = ",",
         p.schema.extra = "none", IsItem(p.schema.item), NEW q \in Queries,
         \A key \in Keys \ {"p"} : q[key] = <<>>,
         NEW t \in Text, q["p"] = <<t>>, NEW s, s = Split(t, ","), Once(s), Len(s) % 2 = 0,
         NEW h, h = Len(s) \div 2, NEW pairs, pairs = [i \in 1 .. h |-> <<s[2 * i - 1], s[2 * i]>>],
         \A i \in DOMAIN pairs : PairHolds(p, pairs, i)
  PROVE  IsWrittenObject(p, q) /\ q # EmptyQuery
<1>1. s \in Seq(Text) /\ Join(s, ",") = t /\ "," \in Lexemes
  BY Splits, MarksAreLexemes
<1>2. Len(s) # 0
  <2>1. Split(t, ",") \in Parts(Lexemes)
    BY <1>1, SplitGrows, MarksAreLexemes DEF Text
  <2>2. s # <<>>
    BY <2>1, PartsAre
  <2> QED BY <1>1, <2>2, EmptySeq
<1>3. \A i \in DOMAIN pairs : pairs[i][1] = s[2 * i - 1] /\ pairs[i][2] = s[2 * i]
  BY ONLY PairByPair, pairs = [i \in 1 .. h |-> <<s[2 * i - 1], s[2 * i]>>]
<1>4. DOMAIN pairs = 1 .. h
  BY ONLY PairByPair, pairs = [i \in 1 .. h |-> <<s[2 * i - 1], s[2 * i]>>]
<1>5. ASSUME NEW i \in 1 .. h PROVE s[2 * i - 1] = <<"k">>
  <2>1. pairs[i][1] = s[2 * i - 1] /\ PairHolds(p, pairs, i)
    BY <1>3, <1>4
  <2> QED BY <2>1, PairOf
<1>6. Len(s) = 2 /\ h = 1
  BY <1>1, <1>2, <1>5, OnePair
<1>7. PICK v : v = s[2]
  OBVIOUS
<1>8. s = << <<"k">>, v >> /\ v \in Text /\ 2 \in DOMAIN s
  <2>1. 1 \in 1 .. h
    BY ONLY <1>6
  <2>3. s[2 * 1 - 1] = <<"k">>
    BY ONLY <1>5, <2>1
  <2>4. 2 * 1 - 1 = 1
    BY ONLY SmallSums
  <2>2. s[1] = <<"k">>
    BY ONLY <2>3, <2>4
  <2> QED BY <1>1, <1>6, <1>7, <2>2, TwoTexts
<1>9. Checks(p.schema.item, v)
  <2>1. 1 \in DOMAIN pairs /\ \A j \in DOMAIN pairs : ~ j > 1
    BY ONLY <1>4, <1>6
  <2>2. pairs[1][1] = s[2 * 1 - 1] /\ pairs[1][2] = s[2 * 1] /\ s[2 * 1 - 1] = <<"k">>
    BY ONLY <1>3, <1>4, <1>5, <2>1
  <2>5. 2 * 1 = 2
    BY ONLY SmallSums
  <2>3. pairs[1][1] = <<"k">> /\ pairs[1][2] = v
    BY ONLY <1>7, <2>2, <2>5
  <2>4. PairHolds(p, pairs, 1)
    BY <2>1
  <2> QED BY <2>1, <2>3, <2>4, PairOf
<1>10. v \in Meant
  <2>1. Pieces(p, t) = s
    BY DEF Pieces
  <2>2. q["p"] \in {x["p"] : x \in Queries} /\ Len(q["p"]) = 1 /\ q["p"][1] = t
    BY OneLexeme
  <2>3. Pieces(p, q["p"][1]) \in Lists \cup {None}
    BY <2>2, MessageAssumption
  <2>4. s # None
    BY <1>1, MessageAssumption DEF Text
  <2>5. s \in Lists
    BY <2>1, <2>2, <2>3, <2>4
  <2> QED BY ONLY <1>7, <1>8, <2>5 DEF Meant
<1>11. PICK k, z : k = <<v>> /\ z = <<>>
  OBVIOUS
<1>12. k # <<>> /\ k[1] = v /\ AtMostOne(k)
  BY <1>11, OneLexeme, TwoNames DEF AtMostOne
<1>13. k \in Given({x \in Meant : Fits(p.schema.item, x)})
  <2>1. Fits(p.schema.item, v)
    BY <1>9, CheckedFits
  <2> QED BY <1>10, <1>11, <2>1 DEF Given
<1>14. "p" \in Keys /\ EmptyQuery = [key \in Keys |-> <<>>]
  BY DEF Keys, EmptyQuery
<1>15. WriteObject(p, k, z) = q
  <2>1. PICK r : r = WriteObject(p, k, z)
    OBVIOUS
  <2>2. /\ DOMAIN r = Keys /\ \A key \in Keys \ {"p"} : r[key] = <<>>
        /\ r["p"] = << ListText(v) >> /\ r = [EmptyQuery EXCEPT !["p"] = << ListText(v) >>]
    BY ONLY <1>11, <1>12, <2>1, Style(p) = "form", ~ Exploded(p), WrittenList
  <2>3. r["p"] = q["p"]
    BY <1>1, <1>8, <2>2 DEF ListText
  <2>4. r = [key \in Keys |-> r[key]]
    BY <1>14, <2>2
  <2>5. \A key \in Keys : q[key] = r[key]
    BY <2>2, <2>3
  <2>7. q \in Queries /\ DOMAIN r = Keys
    BY <2>2
  <2>6. q = r
    BY ONLY <2>7, <2>4, <2>5, SameQuery
  <2> QED BY ONLY <2>1, <2>6
<1>16. q # EmptyQuery
  <2>1. EmptyQuery["p"] = <<>> /\ <<t>> # <<>>
    BY <1>14, TwoNames
  <2> QED BY <2>1
<1> QED BY <1>11, <1>13, <1>15, <1>16 DEF IsWrittenObject

\* Without an undocumented key a query has nothing but the parameter.
LEMMA NothingUndocumented ==
  ASSUME NEW p, p # None, NEW held, NEW q, held.query = q, Undocumented(p, held) = {}
  PROVE  \/ p.in = "query" /\ p.schema.kind = "object" /\ Style(p) = "deepObject"
            /\ \A key \in Keys \ Bracketed : q[key] = <<>>
         \/ p.in = "query" /\ p.schema.kind = "object" /\ Style(p) # "deepObject"
            /\ (Style(p) = "form" /\ p.explode = "false" => \A key \in Keys \ {"p"} : q[key] = <<>>)
         \/ p.in = "query" /\ p.schema.kind # "object" /\ \A key \in Keys \ {"p"} : q[key] = <<>>
         \/ p.in # "query" /\ \A key \in Keys : q[key] = <<>>
<1>1. CASE Suppressed(p)
  BY <1>1 DEF Suppressed
<1>2. CASE ~ Suppressed(p)
  <2>1. \A key \in Keys :
          held.query[key] # <<>> =>
            /\ p.in = "query"
            /\ IF p.schema.kind = "object" /\ Style(p) = "deepObject" THEN key \in Bracketed ELSE key = "p"
    BY <1>2 DEF Undocumented
  <2> QED BY <2>1
<1> QED BY <1>1, <1>2

\* An object that passes without a doubt is written as declared.
LEMMA ObjectSilence ==
  ASSUME NEW p \in Params, p # None, ObjectParam(p), IsItem(p.schema.item),
         NEW held, NEW q \in Queries, held.query = q, Undocumented(p, held) = {},
         ValidateObject(p, held, TRUE).findings = {}, ~ ValidateObject(p, held, TRUE).unverified,
         Len(q["p"]) = 1 => Once(Split(q["p"][1], ","))
  PROVE  IsWrittenObject(p, q) /\ (p.required => q # EmptyQuery)
<1>0. PICK pairs : pairs = Collected(p, held)
  OBVIOUS
<1>1. /\ Reconstructible(p) /\ pairs # None
      /\ pairs = <<>> => ~ p.required
      /\ \A i \in DOMAIN pairs : PairHolds(p, pairs, i)
  <2>1. pairs = <<>> => DOMAIN pairs = {}
    BY ONLY EmptySeq
  <2> QED BY <1>0, <2>1, Verdicts DEF ValidateObject
<1>2. q["p"] \in Seq(Text)
  BY QueriesAre
<1>3. CASE Style(p) = "deepObject"
  <2>4. p.in = "query" /\ p.schema.kind = "object" /\ "query" = "query"
    BY DEF ObjectParam
  <2>1. \A key \in Keys \ Bracketed : q[key] = <<>>
    BY ONLY <1>3, <2>4, NothingUndocumented, p # None, held.query = q, Undocumented(p, held) = {}
  <2>2. ~ \E key \in Bracketed : Len(q[key]) > 1
    BY <1>0, <1>1, <1>3 DEF Collected
  <2>3. pairs = Pairs(<<"k">>, q["p[k]"]) \o Pairs(<<"z">>, q["p[z]"])
    BY <1>0, <1>3, <2>2 DEF Collected, Pairs
  <2> QED BY <1>1, <1>3, <2>1, <2>3, DeepSilence
<1>4. CASE Style(p) # "deepObject"
  <2>1. Style(p) = "form" /\ p.explode = "false" /\ ~ Exploded(p) /\ Delimiter(p) = "," /\ p.in = "query"
    BY <1>4, ObjectStyles DEF ObjectParam
  <2>6. p.schema.kind = "object"
    BY DEF ObjectParam
  <2>2. \A key \in Keys \ {"p"} : q[key] = <<>>
    BY ONLY <1>4, <2>1, <2>6, NothingUndocumented, p # None, held.query = q, Undocumented(p, held) = {}
  <2>3. p.schema.extra = "none"
    BY <1>1, <1>4 DEF Reconstructible
  <2>4. CASE q["p"] = <<>>
    <3>1. PICK r, k : r = WriteObject(p, k, k) /\ k = <<>>
      OBVIOUS
    <3>2. k \in Given({t \in Meant : Fits(p.schema.item, t)}) /\ AtMostOne(k)
      BY <3>1 DEF Given, AtMostOne
    <3>3. r = EmptyQuery
      BY <2>1, <3>1, <3>2, WrittenList
    <3>4. EmptyQuery = [key \in Keys |-> <<>>]
      BY DEF EmptyQuery
    <3>5. q = EmptyQuery
      <4>1. \A key \in Keys : q[key] = EmptyQuery[key]
        BY <2>2, <2>4, <3>4
      <4>2. DOMAIN EmptyQuery = Keys /\ EmptyQuery = [key \in Keys |-> EmptyQuery[key]]
        BY <3>4
      <4> QED BY ONLY <4>1, <4>2, q \in Queries, SameQuery
    <3>6. pairs = <<>>
      BY <1>0, <1>4, <2>4 DEF Collected
    <3> QED BY <1>1, <2>3, <3>1, <3>2, <3>3, <3>5, <3>6 DEF IsWrittenObject
  <2>5. CASE q["p"] # <<>>
    <3>1. PICK t, s : t = q["p"][1] /\ s = Split(t, ",")
      OBVIOUS
    <3>2. /\ ~ Len(q["p"]) > 1 /\ Len(s) % 2 = 0
          /\ pairs = [i \in 1 .. Len(s) \div 2 |-> <<s[2 * i - 1], s[2 * i]>>]
      BY <1>0, <1>1, <1>4, <2>5, <3>1 DEF Collected
    <3>3. Len(q["p"]) = 1
      <4>1. Len(q["p"]) \in Nat /\ Len(q["p"]) # 0
        BY <1>2, <2>5, LenProperties, EmptySeq
      <4> QED BY ONLY <3>2, <4>1, SmallSums
    <3>4. t \in Text /\ q["p"] = <<t>>
      BY <1>2, <3>1, <3>3, OneText
    <3>5. Once(s)
      BY <3>1, <3>3
    <3>6. PICK h : h = Len(s) \div 2
      OBVIOUS
    <3>7. pairs = [i \in 1 .. h |-> <<s[2 * i - 1], s[2 * i]>>]
      BY <3>2, <3>6
    <3>8. IsItem(p.schema.item) /\ p \in Params /\ q \in Queries /\ s = Split(t, ",") /\ Len(s) % 2 = 0
          /\ \A i \in DOMAIN pairs : PairHolds(p, pairs, i)
      BY <1>1, <3>1, <3>2
    <3>9. IsWrittenObject(p, q) /\ q # EmptyQuery
      BY ONLY <2>1, <2>2, <2>3, <3>4, <3>5, <3>6, <3>7, <3>8, ListSilence
    <3> QED BY <3>9
  <2> QED BY <2>4, <2>5
<1> QED BY <1>3, <1>4

-----------------------------------------------------------------------------
(* The messages of a parameter.                                            *)

\* Where a message or what is held of it has the occurrences of a parameter.
Here(p, m) == CASE p.in = "query" -> m.query["p"] [] p.in = "header" -> m.header [] OTHER -> m.path

AParam(p) ==
  /\ IsItem(p.schema.item) /\ p.explode \in {"none", "true", "false"}
  /\ p.schema.kind \in {"scalar", "array", "object", "typeless"}

LEMMA AnyParam ==
  ASSUME NEW p \in Params \cup {NoParam}
  PROVE  AParam(p)
<1>1. <<"string">> \in Seq({"string", "integer", "number", "boolean", "null"})
  OBVIOUS
<1>2. AParam(NoParam)
  BY <1>1 DEF AParam, NoParam, IsItem
<1> QED BY <1>2, MessageAssumption DEF AParam

LEMMA WrittenIsText ==
  ASSUME NEW p, NEW e \in Seq(Text)
  PROVE  Written(p, e) \in Text
<1>1. \A mark \in {",", " ", "|", ";", "."} : Join(e, mark) \in Text
  BY Joins, MarksAreLexemes
<1>2. Join([i \in DOMAIN e |-> <<"p=">> \o e[i]], ";") \in Text
  <2>1. Named(e) \in Seq(Text)
    BY Naming
  <2>2. Join(Named(e), ";") \in Text
    BY <2>1, Joins, MarksAreLexemes
  <2> QED BY <2>2 DEF Named
<1>3. \A t \in Text : <<".">> \o t \in Text /\ <<";">> \o t \in Text /\ <<";", "p=">> \o t \in Text
  BY InFront, TwoInFront
<1>4. Delimiter(p) \in {",", " ", "|"}
  BY DEF Delimiter
<1>5. CASE p.in # "path"
  BY <1>1, <1>4, <1>5 DEF Written
<1>6. CASE p.in = "path"
  BY <1>1, <1>2, <1>3, <1>6 DEF Written
<1> QED BY <1>5, <1>6

\* In a header and in a path an array is one text.
LEMMA OccurrencesAre ==
  ASSUME NEW in \in {"header", "path"}, NEW o \in Occurrences(in), o # <<>>
  PROVE  Len(o) = 1 /\ o \in Seq(Text)
<1>1. PICK p \in Params, e \in Sent : p.in = in /\ o = WriteArray(p, e)
  BY DEF Occurrences
<1>2. e \in Seq(Text)
  BY MessageAssumption DEF Text
<1>3. o = << Written(p, e) >>
  BY <1>1 DEF WriteArray
<1>4. Written(p, e) \in Text
  BY <1>2, WrittenIsText
<1> QED BY <1>3, <1>4, OneLexeme, Single

\* What there is of a parameter in the messages that may be sent for it.
ParamMessage(p, m) ==
  /\ p.in = "query" => m.query \in Queries
  /\ p.in # "query" => m.query = EmptyQuery
  /\ p.in \notin {"query", "header"} => m.path # <<>>
  /\ p.in \in {"header", "path"} /\ Here(p, m) # <<>> => Here(p, m) \in Occurrences(p.in)

LEMMA BodyMessagesAre ==
  ASSUME NEW m \in BodyMessages
  PROVE  m.query = EmptyQuery /\ m.header = <<>> /\ m.path = <<>>
<1>1. PICK n : n = NoMessage
  OBVIOUS
<1>2. n.query = EmptyQuery /\ n.header = <<>> /\ n.path = <<>> /\ DOMAIN n = DOMAIN NoMessage
  BY <1>1 DEF NoMessage
<1>3. \/ m = n
      \/ \E g \in BOOLEAN : m = JsonMessage(g)
      \/ m = [n EXCEPT !.ct = "text", !.kind = "text"]
      \/ \E ct \in {"form", "multipart"}, f \in FormFields, x \in Extras : m = FormMessage(ct, f, x)
  BY <1>1 DEF BodyMessages
<1>4. ASSUME NEW ct, NEW f, NEW x, m = FormMessage(ct, f, x)
      PROVE  m.query = n.query /\ m.header = n.header /\ m.path = n.path
  BY <1>1, <1>4 DEF FormMessage, NoMessage
<1>5. \A g : JsonMessage(g).query = n.query /\ JsonMessage(g).header = n.header /\ JsonMessage(g).path = n.path
  BY <1>1 DEF JsonMessage, NoMessage
<1>6. CASE m = [n EXCEPT !.ct = "text", !.kind = "text"]
  BY <1>2, <1>6
<1> QED BY <1>2, <1>3, <1>4, <1>5, <1>6

LEMMA ParamMessagesAre ==
  ASSUME NEW p, NEW m, \/ p # None /\ m \in ParamMessages(p)
                       \/ p = NoParam /\ m \in BodyMessages
  PROVE  ParamMessage(p, m)
<1>1. CASE p = NoParam /\ m \in BodyMessages
  <2>1. NoParam.in = "header"
    BY DEF NoParam
  <2> QED BY <1>1, <2>1, BodyMessagesAre DEF ParamMessage, Here
<1>2. CASE p # None /\ m \in ParamMessages(p)
  <2>1. CASE p.in = "query"
    BY <1>2, <2>1 DEF ParamMessages, ParamMessage, NoMessage
  <2>2. CASE p.in = "header"
    BY <1>2, <2>2 DEF ParamMessages, ParamMessage, NoMessage, Here
  <2>3. CASE p.in \notin {"query", "header"}
    <3>1. PICK o \in Occurrences("path") \ {<<>>}, c \in BOOLEAN : m = PathMessage(o, c)
      BY <1>2, <2>3 DEF ParamMessages
    <3>2. m.query = EmptyQuery /\ m.path = o
      BY <3>1 DEF PathMessage, NoMessage
    <3> QED BY <2>3, <3>1, <3>2 DEF ParamMessage, Here
  <2> QED BY <2>1, <2>2, <2>3
<1> QED BY <1>1, <1>2

\* What a check of parameters reads of what is held is what was sent.
SameRequest(held, m) ==
  /\ held.query = m.query /\ held.header = m.header /\ held.path = m.path
  /\ held.composite = m.composite

\* lookupParamValue finds what the message has at the place of the parameter.
LEMMA LookedUp ==
  ASSUME NEW p, NEW m, NEW held, SameRequest(held, m), NEW lk, lk = Lookup(p, held)
  PROVE  /\ lk.values = Here(p, m)
         /\ lk.state = "absent" => Here(p, m) = <<>>
         /\ lk.state # "absent" => Looked(lk, Here(p, m)) /\ (Here(p, m) # <<>> \/ p.in = "path")
BY DEF Lookup, SameRequest, Here, Looked

-----------------------------------------------------------------------------
(* A parameter is faulted only when it does not conform.                   *)

\* What it takes to conform: the occurrences of a parameter that is no object.
LEMMA ConformingParam ==
  ASSUME NEW p, NEW m, ~ (p.schema.kind = "object" /\ p.in = "query")
  PROVE  ParamConforms(p, m) <=>
           /\ p.in # "path" /\ p.required =>
                IF p.in = "query" THEN m.query # EmptyQuery ELSE m.header # <<>>
           /\ \A key \in Keys \ {"p"} : m.query[key] = <<>>
           /\ Here(p, m) # <<>> =>
                CASE p.schema.kind = "scalar" -> Len(Here(p, m)) = 1 /\ Fits(p.schema.item, Here(p, m)[1])
                  [] p.schema.kind = "array" -> IsWrittenArray(p, Here(p, m))
                  [] OTHER -> TRUE
<1>1. PICK here : here = Here(p, m)
  OBVIOUS
<1>2. here = CASE p.in = "query" -> m.query["p"] [] p.in = "header" -> m.header [] OTHER -> m.path
  BY <1>1 DEF Here
<1>3. ParamConforms(p, m) <=>
           /\ p.in # "path" /\ p.required =>
                IF p.in = "query" THEN m.query # EmptyQuery ELSE m.header # <<>>
           /\ \A key \in Keys \ {"p"} : m.query[key] = <<>>
           /\ here # <<>> =>
                CASE p.schema.kind = "scalar" -> Len(here) = 1 /\ Fits(p.schema.item, here[1])
                  [] p.schema.kind = "array" -> IsWrittenArray(p, here)
                  [] OTHER -> TRUE
  BY <1>2, Zenon DEF ParamConforms
<1> QED BY ONLY <1>1, <1>3

LEMMA ConformingObject ==
  ASSUME NEW p, NEW m, p.schema.kind = "object" /\ p.in = "query"
  PROVE  ParamConforms(p, m) <=> (p.required => m.query # EmptyQuery) /\ IsWrittenObject(p, m.query)
BY DEF ParamConforms

LEMMA WrittenObjectIsDocumented ==
  ASSUME NEW p, NEW q, IsWrittenObject(p, q), NEW key \in Keys, q[key] # <<>>, ~ Suppressed(p),
         p.in = "query", p.schema.kind = "object"
  PROVE  IF Style(p) = "deepObject" THEN key \in Bracketed ELSE key = "p"
<1>1. PICK k, z : q = WriteObject(p, k, z)
  BY DEF IsWrittenObject
<1>2. CASE Style(p) = "deepObject"
  BY <1>1, <1>2, WrittenDeep
<1>3. CASE Style(p) # "deepObject"
  <2>1. Style(p) = "form" /\ p.explode = "false"
    BY <1>3 DEF Suppressed
  <2>2. ~ Exploded(p)
    BY <2>1 DEF Exploded
  <2>3. q = EmptyQuery \/ \E o : q = [EmptyQuery EXCEPT !["p"] = o]
    BY <1>1, <1>3, <2>2 DEF WriteObject
  <2>4. EmptyQuery = [x \in Keys |-> <<>>]
    BY DEF EmptyQuery
  <2>5. key = "p"
    BY <2>3, <2>4
  <2> QED BY <1>3, <2>5
<1> QED BY <1>2, <1>3

\* A message that conforms has no undocumented key.
LEMMA ConformingIsDocumented ==
  ASSUME NEW p, p # None, NEW m, ParamMessage(p, m), ParamConforms(p, m), NEW held, SameRequest(held, m)
  PROVE  Undocumented(p, held) = {}
<1>1. SUFFICES ASSUME ~ Suppressed(p), NEW key \in Keys, m.query[key] # <<>>
               PROVE  /\ p.in = "query"
                      /\ IF p.schema.kind = "object" /\ Style(p) = "deepObject"
                         THEN key \in Bracketed ELSE key = "p"
  BY Zenon DEF Undocumented, SameRequest
<1>2. CASE p.schema.kind = "object" /\ p.in = "query"
  <2>1. IsWrittenObject(p, m.query)
    BY <1>2, ConformingObject
  <2> QED BY <1>1, <1>2, <2>1, WrittenObjectIsDocumented
<1>3. CASE ~ (p.schema.kind = "object" /\ p.in = "query")
  <2>1. key = "p"
    BY <1>1, <1>3, ConformingParam
  <2>2. p.in # "query" => m.query = [x \in Keys |-> <<>>]
    BY DEF ParamMessage, EmptyQuery
  <2>3. p.in = "query"
    BY <1>1, <2>2
  <2> QED BY <1>3, <2>1, <2>3
<1> QED BY <1>2, <1>3

\* A supported parameter is at one of the places that a check knows.
LEMMA SupportedPlace ==
  ASSUME NEW p, StyleSupported(p)
  PROVE  p.in \in {"query", "header", "path"} /\ (p.schema.kind = "object" => ObjectParam(p))
BY DEF StyleSupported, ArrayStyles, ObjectSupported, ObjectParam

\* A parameter that conforms is never faulted (validateParam).
LEMMA ParamNotFaulted ==
  ASSUME NEW p, AParam(p), Plainly(p.schema.item), NEW m, ParamMessage(p, m), ParamConforms(p, m),
         NEW held, SameRequest(held, m), NEW authoritative
  PROVE  ValidateParam(p, held, authoritative).findings = {}
<1>1. PICK lk : lk = Lookup(p, held)
  OBVIOUS
<1>2. SUFFICES ASSUME p.schema.kind # "typeless", StyleSupported(p)
               PROVE  ValidateParam(p, held, authoritative).findings = {}
  BY Verdicts DEF ValidateParam
<1>3. PICK here : here = Here(p, m)
  OBVIOUS
<1>4. /\ lk.values = here
      /\ lk.state = "absent" => here = <<>>
      /\ lk.state # "absent" => Looked(lk, here) /\ (here # <<>> \/ p.in = "path")
  BY <1>1, <1>3, LookedUp
<1>5. p.in = "path" => here # <<>>
  BY <1>3 DEF ParamMessage, Here
<1>6. CASE p.schema.kind = "object"
  <2>1. ObjectParam(p) /\ p.in = "query"
    BY <1>2, <1>6, SupportedPlace DEF ObjectParam
  <2>2. held.query = m.query
    BY DEF SameRequest
  <2>3. (p.required => held.query # EmptyQuery) /\ IsWrittenObject(p, held.query)
    BY <1>6, <2>1, <2>2, ConformingObject
  <2>4. IsItem(p.schema.item)
    BY DEF AParam
  <2>5. ValidateObject(p, held, authoritative).findings = {}
    BY <2>1, <2>3, <2>4, ObjectNotFaulted
  <2> QED BY <1>2, <1>6, <2>5 DEF ValidateParam
<1>7. CASE p.schema.kind # "object" /\ lk.state = "absent"
  <2>1. here = <<>> /\ p.in # "path"
    BY <1>4, <1>5, <1>7
  <2>2. /\ \A key \in Keys \ {"p"} : m.query[key] = <<>>
        /\ p.in # "path" /\ p.required => IF p.in = "query" THEN m.query # EmptyQuery ELSE m.header # <<>>
    BY <1>7, ConformingParam
  <2>3. ~ p.required
    <3>1. SUFFICES ASSUME p.required PROVE FALSE
      OBVIOUS
    <3>2. CASE p.in = "query"
      <4>1. m.query["p"] = <<>> /\ m.query \in Queries
        BY <1>3, <2>1, <3>2 DEF Here, ParamMessage
      <4>2. \A key \in Keys : m.query[key] = EmptyQuery[key]
        BY <2>2, <4>1 DEF EmptyQuery
      <4>3. DOMAIN EmptyQuery = Keys /\ EmptyQuery = [key \in Keys |-> EmptyQuery[key]]
        BY DEF EmptyQuery
      <4>4. m.query = EmptyQuery
        BY ONLY <4>1, <4>2, <4>3, SameQuery
      <4> QED BY <2>2, <3>1, <3>2, <4>4
    <3>3. CASE p.in # "query"
      <4>1. p.in = "header"
        BY <1>2, <2>1, <3>3, SupportedPlace
      <4>2. m.header = <<>>
        BY <1>3, <2>1, <4>1 DEF Here
      <4> QED BY <2>2, <3>1, <4>1, <4>2
    <3> QED BY <3>2, <3>3
  <2>4. ValidateAbsent(p, authoritative) = Fine
    BY <2>1, <2>3 DEF ValidateAbsent
  <2> QED BY <1>1, <1>2, <1>7, <2>4, Verdicts DEF ValidateParam
<1>8. CASE p.schema.kind = "array" /\ lk.state # "absent"
  <2>1. IsWrittenArray(p, here)
    BY <1>3, <1>4, <1>5, <1>8, ConformingParam
  <2>2. ArrayParam(p) /\ IsItem(p.schema.item) /\ Looked(lk, here)
    BY <1>2, <1>4, <1>8 DEF ArrayParam, AParam
  <2>3. ValidateArray(p, lk).findings = {}
    BY <2>1, <2>2, ArrayNotFaulted
  <2> QED BY <1>1, <1>2, <1>8, <2>3 DEF ValidateParam
<1>9. CASE p.schema.kind = "scalar" /\ lk.state # "absent"
  <2>1. lk.state = "present" => Checks(p.schema.item, lk.values[1])
    <3>1. SUFFICES ASSUME lk.state = "present" PROVE Checks(p.schema.item, here[1])
      BY <1>4
    <3>2. here # <<>>
      BY <1>4, <1>5, <1>9
    <3>3. Fits(p.schema.item, here[1])
      BY <1>3, <1>9, <3>2, ConformingParam
    <3> QED BY <3>3, FitsIsChecked DEF AParam
  <2>2. ValidateScalar(p, lk).findings = {}
    BY <2>1, Verdicts DEF ValidateScalar
  <2> QED BY <1>1, <1>2, <1>9, <2>2 DEF ValidateParam
<1> QED BY <1>2, <1>6, <1>7, <1>8, <1>9 DEF AParam

LEMMA ParamsNotFaulted ==
  ASSUME NEW p \in Params \cup {None, NoParam}, NEW m, p # None => ParamMessage(p, m),
         p # None => ParamConforms(p, m) /\ Plainly(p.schema.item),
         NEW held, SameRequest(held, m), NEW authoritative
  PROVE  ValidateParams(p, held, authoritative).findings = {}
<1>1. CASE p = None
  <2>1. Undocumented(p, held) = {}
    BY <1>1 DEF Undocumented, Suppressed
  <2> QED BY <1>1, <2>1, Verdicts DEF ValidateParams, Both, Outcome
<1>2. CASE p # None
  <2>1. AParam(p)
    BY <1>2, AnyParam
  <2>2. Undocumented(p, held) = {} /\ ValidateParam(p, held, authoritative).findings = {}
    BY <1>2, <2>1, ConformingIsDocumented, ParamNotFaulted
  <2> QED BY <1>2, <2>2, Verdicts DEF ValidateParams, Both, Outcome
<1> QED BY <1>1, <1>2

-----------------------------------------------------------------------------
(* A parameter that passes conforms.                                       *)

\* What comes to nothing has found nothing, and has verified everything.
Silent(outcome) == outcome.findings = {} /\ ~ outcome.unverified

\* An occurrence at the place of a parameter is a text that is written there.
LEMMA HereIs ==
  ASSUME NEW p \in Params, NEW m, ParamMessage(p, m), NEW here, here = Here(p, m),
         p.in \in {"query", "header", "path"}, here # <<>>
  PROVE  /\ here \in Seq(Text)
         /\ p.in = "query" => here \in Lists
         /\ p.in # "query" => Len(here) = 1
         /\ Len(here) = 1 => Pieces(p, here[1]) \in Lists \cup {None}
<1>1. CASE p.in = "query"
  <2>1. m.query \in Queries /\ here = m.query["p"]
    BY <1>1 DEF ParamMessage, Here
  <2>2. here \in Seq(Text) /\ here \in Lists
    BY <2>1, QueriesAre
  <2>3. here \in {q["p"] : q \in Queries}
    BY <2>1
  <2>4. Len(here) = 1 => Pieces(p, here[1]) \in Lists \cup {None}
    BY <1>1, <2>3, MessageAssumption
  <2> QED BY <1>1, <2>2, <2>4
<1>2. CASE p.in # "query"
  <2>1. here \in Occurrences(p.in)
    BY <1>2 DEF ParamMessage
  <2>2. here \in Seq(Text) /\ Len(here) = 1
    BY <1>2, <2>1, OccurrencesAre
  <2>3. Pieces(p, here[1]) \in Lists \cup {None}
    BY <1>2, <2>1, <2>2, MessageAssumption
  <2> QED BY <1>2, <2>2, <2>3
<1> QED BY <1>1, <1>2

\* A parameter that passes without a doubt conforms.
LEMMA ParamSilence ==
  ASSUME NEW p \in Params \cup {NoParam}, p # None, NEW m, ParamMessage(p, m), p \notin Params => Here(p, m) = <<>>,
         NEW held, SameRequest(held, m), Undocumented(p, held) = {}, Silent(ValidateParam(p, held, TRUE)),
         p.in = "query" /\ p.schema.kind = "object" /\ Len(m.query["p"]) = 1 => Once(Split(m.query["p"][1], ","))
  PROVE  ParamConforms(p, m)
<1>1. PICK lk : lk = Lookup(p, held)
  OBVIOUS
<1>2. p.schema.kind # "typeless" /\ StyleSupported(p)
  BY Verdicts DEF ValidateParam, Silent
<1>3. PICK here : here = Here(p, m)
  OBVIOUS
<1>4. /\ lk.values = here
      /\ lk.state = "absent" => here = <<>>
      /\ lk.state # "absent" => Looked(lk, here) /\ (here # <<>> \/ p.in = "path")
  BY <1>1, <1>3, LookedUp
<1>5. AParam(p) /\ held.query = m.query /\ p.in \in {"query", "header", "path"} /\ (p.in = "path" => here # <<>>)
  BY <1>2, <1>3, AnyParam, SupportedPlace DEF SameRequest, ParamMessage, Here
<1>6. CASE p.schema.kind = "object"
  <2>1. ObjectParam(p) /\ p.in = "query"
    BY <1>2, <1>6, SupportedPlace DEF ObjectParam
  <2>2. p \in Params
    <3>1. NoParam.schema.kind = "scalar"
      BY DEF NoParam
    <3> QED BY <1>6, <3>1
  <2>3. m.query \in Queries
    BY <2>1 DEF ParamMessage
  <2>4. Silent(ValidateObject(p, held, TRUE))
    BY <1>2, <1>6 DEF ValidateParam
  <2>5. ValidateObject(p, held, TRUE).findings = {} /\ ~ ValidateObject(p, held, TRUE).unverified
    BY ONLY <2>4 DEF Silent
  <2>6. IsItem(p.schema.item) /\ (Len(m.query["p"]) = 1 => Once(Split(m.query["p"][1], ",")))
    BY <1>5, <1>6, <2>1 DEF AParam
  <2>7. IsWrittenObject(p, m.query) /\ (p.required => m.query # EmptyQuery)
    BY ONLY <1>5, <2>1, <2>2, <2>3, <2>5, <2>6, ObjectSilence, p # None, Undocumented(p, held) = {}
  <2> QED BY <1>6, <2>1, <2>7, ConformingObject
<1>7. CASE p.schema.kind # "object"
  <2>1. \A key \in Keys \ {"p"} : m.query[key] = <<>>
    <3>1. \/ p.in = "query" /\ \A key \in Keys \ {"p"} : m.query[key] = <<>>
          \/ p.in # "query" /\ \A key \in Keys : m.query[key] = <<>>
      BY ONLY <1>5, <1>7, NothingUndocumented, p # None, Undocumented(p, held) = {}
    <3> QED BY <3>1
  <2>2. p.in # "path" /\ p.required => IF p.in = "query" THEN m.query # EmptyQuery ELSE m.header # <<>>
    <3>1. CASE lk.state = "absent"
      <4>1. Silent(ValidateAbsent(p, TRUE))
        BY <1>1, <1>2, <1>7, <3>1 DEF ValidateParam
      <4> QED BY <4>1, Verdicts DEF ValidateAbsent, Silent
    <3>2. CASE lk.state # "absent" /\ p.in = "query"
      <4>1. m.query["p"] # <<>>
        BY <1>3, <1>4, <3>2 DEF Here
      <4>2. "p" \in Keys /\ EmptyQuery = [x \in Keys |-> <<>>]
        BY DEF Keys, EmptyQuery
      <4> QED BY <3>2, <4>1, <4>2
    <3>3. CASE lk.state # "absent" /\ p.in = "header"
      BY <1>3, <1>4, <3>3 DEF Here
    <3> QED BY <1>5, <3>1, <3>2, <3>3
  <2>3. ASSUME here # <<>>
        PROVE  CASE p.schema.kind = "scalar" -> Len(here) = 1 /\ Fits(p.schema.item, here[1])
                 [] p.schema.kind = "array" -> IsWrittenArray(p, here)
                 [] OTHER -> TRUE
    <3>1. p \in Params
      BY <1>3, <2>3
    <3>2. lk.state # "absent" /\ Looked(lk, here)
      <4>1. lk.state # "absent"
        BY <1>4, <2>3
      <4> QED BY <1>4, <4>1
    <3>3. IsItem(p.schema.item)
      BY <1>5 DEF AParam
    <3>4. CASE p.schema.kind = "scalar"
      <4>1. Silent(ValidateScalar(p, lk))
        BY <1>1, <1>2, <3>2, <3>4 DEF ValidateParam
      <4>2. lk.state = "present" /\ Checks(p.schema.item, lk.values[1])
        BY <4>1, Verdicts DEF ValidateScalar, Silent
      <4>3. Len(here) = 1 /\ Fits(p.schema.item, here[1])
        BY <1>4, <3>2, <3>3, <4>2, CheckedFits DEF Looked
      <4> QED BY <3>4, <4>3
    <3>5. CASE p.schema.kind = "array"
      <4>1. Silent(ValidateArray(p, lk))
        BY <1>1, <1>2, <3>2, <3>5 DEF ValidateParam
      <4>2. ValidateArray(p, lk).findings = {} /\ ~ ValidateArray(p, lk).unverified
        BY ONLY <4>1 DEF Silent
      <4>3. ArrayParam(p)
        BY <1>2, <1>5, <3>5 DEF ArrayParam, AParam
      <4>4. /\ here \in Seq(Text)
            /\ p.in = "query" => here \in Lists
            /\ p.in # "query" => Len(here) = 1
            /\ Len(here) = 1 => Pieces(p, here[1]) \in Lists \cup {None}
        BY ONLY <1>3, <1>5, <2>3, <3>1, HereIs, ParamMessage(p, m)
      <4>5. IsWrittenArray(p, here)
        BY ONLY <3>2, <3>3, <4>2, <4>3, <4>4, ArraySilence
      <4> QED BY <3>5, <4>5
    <3> QED BY <1>2, <1>5, <1>7, <3>4, <3>5 DEF AParam
  <2> QED BY <1>3, <1>7, <2>1, <2>2, <2>3, ConformingParam
<1> QED BY <1>6, <1>7

LEMMA ParamsSilence ==
  ASSUME NEW p \in Params \cup {None, NoParam}, NEW m,
         p # None => ParamMessage(p, m) /\ (p \notin Params => Here(p, m) = <<>>),
         NEW held, SameRequest(held, m), Silent(ValidateParams(p, held, TRUE)),
         p # None /\ p.in = "query" /\ p.schema.kind = "object" /\ Len(m.query["p"]) = 1 =>
           Once(Split(m.query["p"][1], ","))
  PROVE  p # None /\ ParamConforms(p, m)
<1>1. p # None
  BY Verdicts DEF ValidateParams, Both, Outcome, Silent
<1>2. Undocumented(p, held) = {} /\ Silent(ValidateParam(p, held, TRUE))
  BY <1>1, Verdicts DEF ValidateParams, Both, Outcome, Silent
<1>3. p \in Params \cup {NoParam}
  BY <1>1
<1>4. ParamMessage(p, m) /\ (p \notin Params => Here(p, m) = <<>>)
  BY <1>1
<1>5. p.in = "query" /\ p.schema.kind = "object" /\ Len(m.query["p"]) = 1 => Once(Split(m.query["p"][1], ","))
  BY <1>1
<1> QED BY ONLY <1>1, <1>2, <1>3, <1>4, <1>5, ParamSilence, SameRequest(held, m)

-----------------------------------------------------------------------------
(* The messages of a body.                                                 *)

FormKinds == {"form", "multipart"}

\* What there is of a body in the messages that may be sent.
BodyMessage(m) ==
  /\ m.kind \in {"none", "json", "text"} \cup FormKinds
  /\ m.kind = "none" => m.fields = None
  /\ m.kind # "none" => m.ct = m.kind
  /\ m.kind \in {"json", "text"} => m.fields = None
  /\ m.kind \in FormKinds => /\ m.fields # None /\ m.fields["s"] \in Seq(Text) /\ m.fields["t"] \in Seq(Text)
                             /\ m.files \subseteq {"s"}

LEMMA FieldsAre ==
  ASSUME NEW f \in FormFields
  PROVE  f["s"] \in Seq(Text) /\ f["t"] \in Seq(Text)
<1>1. f \in [Fields -> Seq(Text)]
  BY MessageAssumption DEF Text
<1> QED BY <1>1 DEF Fields

LEMMA FormMessageIs ==
  ASSUME NEW ct \in FormKinds, NEW f \in FormFields, NEW x \in Extras, NEW m, m = FormMessage(ct, f, x)
  PROVE  BodyMessage(m)
<1>1. /\ m.kind = ct /\ m.ct = ct
      /\ m.fields = [y \in Fields \cup {"y"} |-> IF y \in Fields THEN f[y]
                                               ELSE IF x = "undeclared" THEN << <<"a">> >> ELSE <<>>]
      /\ m.files = IF x = "file" THEN {"s"} ELSE {}
  BY DEF FormMessage, NoMessage
<1>2. m \in BodyMessages
  BY DEF BodyMessages, FormKinds
<1>3. m.fields # None
  BY <1>1, <1>2, MessageAssumption DEF FormKinds
<1>4. m.fields["s"] = f["s"] /\ m.fields["t"] = f["t"]
  BY <1>1 DEF Fields
<1>5. ct # "none" /\ ct \notin {"json", "text"}
  BY DEF FormKinds
<1> QED BY <1>1, <1>3, <1>4, <1>5, FieldsAre DEF BodyMessage

LEMMA BodyMessageIs ==
  ASSUME NEW m \in BodyMessages
  PROVE  BodyMessage(m)
<1>1. PICK n : n = NoMessage
  OBVIOUS
<1>2. n.kind = "none" /\ n.fields = None /\ n.ct = None /\ DOMAIN n = DOMAIN NoMessage
  BY <1>1 DEF NoMessage
<1>3. \/ m = n
      \/ \E g \in BOOLEAN : m = JsonMessage(g)
      \/ m = [n EXCEPT !.ct = "text", !.kind = "text"]
      \/ \E ct \in FormKinds, f \in FormFields, x \in Extras : m = FormMessage(ct, f, x)
  BY <1>1 DEF BodyMessages, FormKinds
<1>4. \A g : JsonMessage(g).kind = "json" /\ JsonMessage(g).ct = "json" /\ JsonMessage(g).fields = None
  BY DEF JsonMessage, NoMessage
<1>5. CASE m = [n EXCEPT !.ct = "text", !.kind = "text"]
  <2>1. m.ct = "text" /\ m.kind = "text" /\ m.fields = None
    BY <1>1, <1>5 DEF NoMessage
  <2> QED BY <2>1 DEF BodyMessage, FormKinds
<1>6. CASE \E g \in BOOLEAN : m = JsonMessage(g)
  <2>1. m.ct = "json" /\ m.kind = "json" /\ m.fields = None
    BY <1>4, <1>6
  <2> QED BY <2>1 DEF BodyMessage, FormKinds
<1>7. CASE m = n
  BY <1>2, <1>7 DEF BodyMessage, FormKinds
<1> QED BY <1>3, <1>5, <1>6, <1>7, FormMessageIs

LEMMA NoBodyMessage ==
  ASSUME NEW p, NEW m \in ParamMessages(p)
  PROVE  m.kind = "none" /\ m.fields = None
<1>1. \/ \E q : m = [NoMessage EXCEPT !.query = q]
      \/ \E o : m = [NoMessage EXCEPT !.header = o]
      \/ \E o, c : m = PathMessage(o, c)
  BY DEF ParamMessages
<1>2. \A o, c : PathMessage(o, c).kind = "none" /\ PathMessage(o, c).fields = None
  BY DEF PathMessage, NoMessage
<1>3. CASE \E q : m = [NoMessage EXCEPT !.query = q]
  BY <1>3 DEF NoMessage
<1>4. CASE \E o : m = [NoMessage EXCEPT !.header = o]
  BY <1>4 DEF NoMessage
<1> QED BY <1>1, <1>2, <1>3, <1>4

-----------------------------------------------------------------------------
(* What a surface holds of a body.                                         *)

Json(m) == CASE m.kind = "none" -> None
             [] m.kind = "json" -> IF m.good THEN "good" ELSE "bad"
             [] OTHER -> "raw"

\* The surface that sent a request has all of it (buildRequestFacts).
LEMMA PreparedIs ==
  ASSUME NEW m, NEW held, held = Prepared(m)
  PROVE  /\ SameRequest(held, m) /\ held.ct = m.ct /\ held.charset = m.charset /\ held.form = m.fields
         /\ held.files = m.files /\ held.json = Json(m)
BY DEF Prepared, SameRequest, Json

\* An archive has the whole of a part of a body, or nothing of it
\* (harEntriesToFacts).
LEMMA CapturedIs ==
  ASSUME NEW m, NEW attached, NEW listed, NEW held, held = Captured(m, attached, listed)
  PROVE  /\ SameRequest(held, m) /\ held.ct = m.ct /\ held.charset = m.charset
         /\ held.form = m.fields \/ held.form = None
         /\ held.files = m.files \/ (~ listed /\ held.files = {})
         /\ held.json = Json(m) \/ held.json = None
         /\ held.json # None => m.kind = "json" 
<1>1. PICK pre : pre = Prepared(m)
  OBVIOUS
<1>2. /\ SameRequest(pre, m) /\ pre.ct = m.ct /\ pre.charset = m.charset /\ pre.form = m.fields
      /\ pre.files = m.files /\ pre.json = Json(m)
  BY <1>1, PreparedIs
<1>3. PICK form, json, files :
        /\ form = CapturedForm(m, attached, listed)
        /\ json = IF m.kind = "json" /\ attached THEN pre.json ELSE None
        /\ files = IF listed THEN pre.files ELSE {}
  OBVIOUS
<1>4. held = [pre EXCEPT !.json = json, !.form = form, !.files = files]
  BY <1>1, <1>3 DEF Captured
<1>5. DOMAIN pre = {"query", "header", "path", "composite", "ct", "charset", "form", "files", "json"}
  BY <1>1 DEF Prepared
<1>6. held.json = json /\ held.form = form /\ held.files = files
  BY <1>4, <1>5
<1>7. /\ held.query = pre.query /\ held.header = pre.header /\ held.path = pre.path
      /\ held.composite = pre.composite /\ held.ct = pre.ct /\ held.charset = pre.charset
  BY <1>4, <1>5
<1>8. form = m.fields \/ form = None
  BY <1>3 DEF CapturedForm
<1> QED BY <1>2, <1>3, <1>6, <1>7, <1>8 DEF SameRequest

\* An archive synthesized from a run has neither a header nor a content type, and
\* no part of a multipart body (synthesizeRedactedHarZip).
LEMMA SynthesizedIs ==
  ASSUME NEW m, NEW held, held = Synthesized(m)
  PROVE  /\ held.query = m.query /\ held.path = m.path /\ held.composite = m.composite
         /\ held.header = <<>> /\ held.ct = None
         /\ held.form = m.fields \/ held.form = None
         /\ m.kind # "form" => held.form = None
         /\ held.json = Json(m) \/ held.json = None
         /\ held.json # None => m.kind = "json"
<1>1. PICK whole : whole = (m.kind # "multipart")
  OBVIOUS
<1>0. PICK listed : listed = FALSE
  OBVIOUS
<1>2. PICK kept : kept = Captured(m, whole, listed)
  OBVIOUS
<1>3. /\ SameRequest(kept, m)
      /\ kept.form = m.fields \/ kept.form = None
      /\ kept.json = Json(m) \/ kept.json = None
      /\ kept.json # None => m.kind = "json"
  BY <1>2, CapturedIs
<1>4. held = [kept EXCEPT !.ct = None, !.charset = FALSE, !.header = <<>>]
  BY <1>0, <1>1, <1>2 DEF Synthesized
<1>5. PICK pre, form, json, files : /\ pre = Prepared(m) /\ form = CapturedForm(m, whole, listed)
                                    /\ kept = [pre EXCEPT !.json = json, !.form = form, !.files = files]
  BY <1>2 DEF Captured
<1>6. DOMAIN pre = {"query", "header", "path", "composite", "ct", "charset", "form", "files", "json"}
  BY <1>5 DEF Prepared
<1>7. DOMAIN kept = DOMAIN pre /\ kept.form = form
  BY <1>5, <1>6
<1>8. m.kind # "form" => kept.form = None
  BY <1>0, <1>5, <1>7 DEF CapturedForm
<1>9. /\ held.query = kept.query /\ held.path = kept.path /\ held.composite = kept.composite
      /\ held.header = <<>> /\ held.ct = None /\ held.form = kept.form /\ held.json = kept.json
  BY <1>4, <1>6, <1>7
<1> QED BY <1>3, <1>8, <1>9 DEF SameRequest

\* A parameter that is not in a header is checked without the headers.
LEMMA HeadersUnread ==
  ASSUME NEW p, p = None \/ p.in # "header", NEW held, NEW other, NEW authoritative,
         held.query = other.query, held.path = other.path, held.composite = other.composite
  PROVE  ValidateParams(p, held, authoritative) = ValidateParams(p, other, authoritative)
<1>1. Undocumented(p, held) = Undocumented(p, other)
  BY DEF Undocumented
<1>2. ASSUME p # None PROVE ValidateParam(p, held, authoritative) = ValidateParam(p, other, authoritative)
  <2>1. Lookup(p, held) = Lookup(p, other)
    BY <1>2 DEF Lookup
  <2>2. Collected(p, held) = Collected(p, other)
    BY DEF Collected
  <2>3. ValidateObject(p, held, authoritative) = ValidateObject(p, other, authoritative)
    BY <2>2 DEF ValidateObject
  <2> QED BY <2>1, <2>3 DEF ValidateParam
<1> QED BY <1>1, <1>2 DEF ValidateParams

\* A header that is not there is no fault where headers may be missing.
LEMMA HeaderMissing ==
  ASSUME NEW p, p.in = "header", NEW held, held.header = <<>>
  PROVE  ValidateParam(p, held, FALSE).findings = {}
<1>1. Lookup(p, held).state = "absent"
  BY DEF Lookup
<1>2. StyleSupported(p) => p.schema.kind # "object"
  BY DEF StyleSupported, ObjectSupported
<1>3. ValidateAbsent(p, FALSE).findings = {}
  BY Verdicts DEF ValidateAbsent
<1>4. CASE p.schema.kind = "typeless" \/ ~ StyleSupported(p)
  BY <1>4, Verdicts DEF ValidateParam
<1>5. CASE ~ (p.schema.kind = "typeless" \/ ~ StyleSupported(p))
  <2>1. ValidateParam(p, held, FALSE) = ValidateAbsent(p, FALSE)
    BY <1>1, <1>2, <1>5 DEF ValidateParam
  <2> QED BY <1>3, <2>1
<1> QED BY <1>4, <1>5

\* Nor is a parameter that conforms faulted in a synthesized archive.
LEMMA ParamsNotFaultedWithoutHeaders ==
  ASSUME NEW p \in Params \cup {None, NoParam}, NEW m, p # None => ParamMessage(p, m),
         p # None => ParamConforms(p, m) /\ Plainly(p.schema.item),
         NEW held, held = Synthesized(m)
  PROVE  ValidateParams(p, held, FALSE).findings = {}
<1>1. PICK whole : whole = Prepared(m)
  OBVIOUS
<1>2. SameRequest(whole, m)
  BY <1>1, PreparedIs
<1>3. /\ held.query = whole.query /\ held.path = whole.path /\ held.composite = whole.composite
      /\ held.header = <<>>
  BY <1>2, SynthesizedIs DEF SameRequest
<1>4. CASE p = None \/ p.in # "header"
  <2>0. PICK authoritative : authoritative = FALSE
    OBVIOUS
  <2>1. ValidateParams(p, held, authoritative) = ValidateParams(p, whole, authoritative)
    BY ONLY <1>3, <1>4, HeadersUnread
  <2>2. ValidateParams(p, whole, authoritative).findings = {}
    BY ONLY <1>2, ParamsNotFaulted, p \in Params \cup {None, NoParam}, p # None => ParamMessage(p, m),
            p # None => ParamConforms(p, m) /\ Plainly(p.schema.item)
  <2> QED BY <2>0, <2>1, <2>2
<1>5. CASE p # None /\ p.in = "header"
  <2>1. Undocumented(p, whole) = {}
    BY <1>2, <1>5, ConformingIsDocumented
  <2>2. Undocumented(p, held) = Undocumented(p, whole)
    BY <1>3 DEF Undocumented
  <2>3. ValidateParam(p, held, FALSE).findings = {}
    BY <1>3, <1>5, HeaderMissing
  <2> QED BY <1>5, <2>1, <2>2, <2>3, Verdicts DEF ValidateParams, Both, Outcome
<1> QED BY <1>4, <1>5

\* What a surface holds of a body: all of it, or what an archive has.
HeldBody(held, m, authoritative) ==
  /\ held.ct = m.ct
  /\ held.form = m.fields \/ (~ authoritative /\ held.form = None)
  /\ held.files = m.files \/ (~ authoritative /\ held.files = {})
  /\ held.json = Json(m) \/ (~ authoritative /\ held.json = None)

FormTyped(b) ==
  b.content \cap FormKinds # {} => b.fields # None /\ IsItem(b.fields.s) /\ IsItem(b.fields.t)

LEMMA AnyBody ==
  ASSUME NEW b \in Bodies \cup {NoBody}
  PROVE  FormTyped(b)
<1>1. FormTyped(NoBody)
  BY DEF FormTyped, NoBody
<1> QED BY <1>1, MessageAssumption DEF FormTyped, FormKinds

\* What the fields of a form have to be like, by the schema alone.
FormFits(f, m) ==
  /\ f.required => m.fields["s"] # <<>> \/ "s" \in m.files
  /\ \A i \in DOMAIN m.fields["s"] : Fits(f.s, m.fields["s"][i])
  /\ Len(m.fields["s"]) <= 1
  /\ \A i \in DOMAIN m.fields["t"] : Fits(f.t, m.fields["t"][i])
  /\ f.card /\ m.fields["t"] # <<>> => Len(m.fields["t"]) >= 2
  /\ f.extra = "none" => m.fields["y"] = <<>>

\* What it takes to conform, case by case.
LEMMA ConformingBody ==
  ASSUME NEW b, NEW m
  PROVE  /\ b.declared = "unresolved" => BodyConforms(b, m)
         /\ b.declared = "no" => (BodyConforms(b, m) <=> m.kind = "none")
         /\ b.declared \notin {"unresolved", "no"} /\ m.kind = "none" => (BodyConforms(b, m) <=> ~ b.required)
         /\ b.declared \notin {"unresolved", "no"} /\ m.kind # "none" =>
              (BodyConforms(b, m) <=>
                 /\ {m.ct, Family(m.ct), "*/*"} \cap b.content # {}
                 /\ m.kind = "json" /\ "json" \in b.content /\ ~ b.bare => m.good
                 /\ m.kind \in FormKinds /\ m.ct \in b.content /\ ~ b.bare => FormFits(b.fields, m))
BY DEF BodyConforms, FormFits, FormKinds

\* A form that conforms is never faulted (validateFormBody).
LEMMA FormNotFaulted ==
  ASSUME NEW b, IsItem(b.fields.s), IsItem(b.fields.t), Plainly(b.fields.s), Plainly(b.fields.t),
         NEW m, m.fields["s"] \in Seq(Text), m.files \subseteq {"s"}, FormFits(b.fields, m),
         NEW held, NEW authoritative, held.form = m.fields,
         held.files = m.files \/ (~ authoritative /\ held.files = {})
  PROVE  ValidateForm(b, held, authoritative).findings = {}
<1>1. SUFFICES ASSUME ~ Unsound(b, held, authoritative) PROVE FormHolds(b.fields, m.fields)
  BY Verdicts DEF ValidateForm
<1>2. PICK f : f = b.fields
  OBVIOUS
<1>3. f.required => m.fields["s"] # <<>>
  <2>1. SUFFICES ASSUME f.required, m.fields["s"] = <<>> PROVE FALSE
    OBVIOUS
  <2>2. "s" \in m.files
    BY <1>2, <2>1 DEF FormFits
  <2>3. CASE held.files = m.files
    BY <1>1, <2>2, <2>3 DEF Unsound, Fields
  <2>4. CASE ~ authoritative
    BY <1>1, <1>2, <2>1, <2>4 DEF Unsound
  <2> QED BY <2>3, <2>4
<1>4. m.fields["s"] # <<>> => Checks(f.s, m.fields["s"][1])
  <2>1. SUFFICES ASSUME m.fields["s"] # <<>> PROVE Fits(f.s, m.fields["s"][1])
    BY <1>2, FitsIsChecked
  <2>2. 1 \in DOMAIN m.fields["s"]
    BY <2>1, LenProperties, EmptySeq
  <2> QED BY <1>2, <2>2 DEF FormFits
<1>5. \A i \in DOMAIN m.fields["t"] : Checks(f.t, m.fields["t"][i])
  BY <1>2, FitsIsChecked DEF FormFits
<1>6. /\ f.card /\ m.fields["t"] # <<>> => Len(m.fields["t"]) >= 2
      /\ m.fields["y"] # <<>> => f.extra # "none"
  BY <1>2 DEF FormFits
<1> QED BY <1>2, <1>3, <1>4, <1>5, <1>6 DEF FormHolds

Ranges == {"application/*", "multipart/*", "text/*", "*/*"}

LEMMA NoneIsNothing ==
  None \notin {"good", "bad", "raw", "json", "form", "multipart", "text",
               "application/*", "multipart/*", "text/*", "*/*"}
BY MessageAssumption

LEMMA Selected ==
  ASSUME NEW b, NEW ct, ct # None
  PROVE  /\ SelectContent(b.content, ct) \in {None, ct, Family(ct), "*/*"}
         /\ ct \in b.content => SelectContent(b.content, ct) = ct
         /\ ct \notin b.content => SelectContent(b.content, ct) \in {Family(ct), "*/*", None}
         /\ {ct, Family(ct), "*/*"} \cap b.content # {} <=> SelectContent(b.content, ct) # None
         /\ Family(ct) \in {"application/*", "multipart/*", "text/*"}
<1>1. Family(ct) \in {"application/*", "multipart/*", "text/*"}
  BY DEF Family
<1>2. PICK family : family = Family(ct)
  OBVIOUS
<1>3. None \notin {family, "*/*"}
  BY <1>1, <1>2, NoneIsNothing
<1>4. SelectContent(b.content, ct) = IF ct \in b.content THEN ct
                                     ELSE IF family \in b.content THEN family
                                     ELSE IF "*/*" \in b.content THEN "*/*" ELSE None
  BY <1>2 DEF SelectContent
<1>5. {ct, family, "*/*"} \cap b.content # {} <=> ct \in b.content \/ family \in b.content \/ "*/*" \in b.content
  OBVIOUS
<1> QED BY <1>1, <1>2, <1>3, <1>4, <1>5

\* A body that conforms is never faulted, on no surface.
LEMMA BodyNotFaulted ==
  ASSUME NEW b, FormTyped(b), b.fields # None => Plainly(b.fields.s) /\ Plainly(b.fields.t),
         NEW m, BodyMessage(m), BodyConforms(b, m), NEW authoritative, NEW held, HeldBody(held, m, authoritative)
  PROVE  ValidateBody(b, held, authoritative).findings = {}
<1>1. CASE b.declared = "unresolved"
  BY <1>1, Verdicts DEF ValidateBody
<1>2. CASE b.declared = "no"
  <2>1. m.kind = "none" /\ m.fields = None
    BY <1>2, ConformingBody DEF BodyMessage
  <2>2. ~ HasBody(held)
    BY <2>1 DEF HasBody, HeldBody, Json
  <2> QED BY <1>2, <2>2, Verdicts DEF ValidateBody
<1>3. CASE b.declared \notin {"unresolved", "no"} /\ ~ HasBody(held)
  <2>1. authoritative => m.kind = "none"
    BY <1>3, NoneIsNothing DEF HasBody, HeldBody, Json
  <2>2. authoritative => ~ b.required
    BY <1>3, <2>1, ConformingBody
  <2> QED BY <1>3, <2>2, Verdicts DEF ValidateBody
<1>4. CASE b.declared \notin {"unresolved", "no"} /\ HasBody(held)
  <2>1. m.kind # "none"
    BY <1>4 DEF HasBody, HeldBody, Json, BodyMessage
  <2>2. /\ {m.ct, Family(m.ct), "*/*"} \cap b.content # {}
        /\ m.kind = "json" /\ "json" \in b.content /\ ~ b.bare => m.good
        /\ m.kind \in FormKinds /\ m.ct \in b.content /\ ~ b.bare => FormFits(b.fields, m)
    BY <1>4, <2>1, ConformingBody
  <2>3. held.ct = m.kind /\ m.ct = m.kind /\ m.kind # None /\ m.kind # "*/*"
    BY <2>1, NoneIsNothing DEF HeldBody, BodyMessage, FormKinds
  <2>4. PICK media : media = SelectContent(b.content, held.ct)
    OBVIOUS
  <2>5. media # None /\ ((m.kind \in b.content /\ media = m.kind) \/ media \in Ranges)
    <3>1. media \in {Family(m.ct), "*/*", None} \/ (m.ct \in b.content /\ media = m.ct)
      BY <2>3, <2>4, Selected
    <3>2. media # None /\ Family(m.ct) \in Ranges
      BY <2>2, <2>3, <2>4, Selected DEF Ranges
    <3> QED BY <2>3, <3>1, <3>2 DEF Ranges
  <2>6. CASE media \in FormKinds /\ held.form # None /\ ~ b.bare
    <3>1. media = m.kind /\ m.kind \in FormKinds /\ m.kind \in b.content /\ held.form = m.fields
      BY <2>5, <2>6 DEF FormKinds, Ranges, HeldBody
    <3>2. FormFits(b.fields, m) /\ b.fields # None
      BY <2>2, <2>3, <2>6, <3>1 DEF FormTyped
    <3>3. IsItem(b.fields.s) /\ IsItem(b.fields.t) /\ Plainly(b.fields.s) /\ Plainly(b.fields.t)
      BY <3>1, <3>2 DEF FormTyped
    <3>4. m.fields["s"] \in Seq(Text) /\ m.files \subseteq {"s"}
      BY <3>1 DEF BodyMessage
    <3>5. held.files = m.files \/ (~ authoritative /\ held.files = {})
      BY DEF HeldBody
    <3>6. ValidateForm(b, held, authoritative).findings = {}
      BY ONLY <3>1, <3>2, <3>3, <3>4, <3>5, FormNotFaulted
    <3>7. ValidatePresent(b, held, authoritative) = ValidateForm(b, held, authoritative)
      BY <2>4, <2>5, <2>6 DEF ValidatePresent, FormKinds
    <3> QED BY <1>4, <3>6, <3>7 DEF ValidateBody
  <2>7. CASE ~ (media \in FormKinds /\ held.form # None /\ ~ b.bare) /\ (media # "json" \/ b.bare)
    <3>1. ValidatePresent(b, held, authoritative) = Unverified
      BY <2>4, <2>5, <2>7 DEF ValidatePresent, FormKinds
    <3> QED BY <1>4, <3>1, Verdicts DEF ValidateBody
  <2>8. CASE ~ (media \in FormKinds /\ held.form # None /\ ~ b.bare) /\ media = "json" /\ ~ b.bare
    <3>1. m.kind = "json" /\ m.good /\ m.fields = None
      BY <2>2, <2>5, <2>8 DEF Ranges, BodyMessage
    <3>2. held.json = "good"
      BY <1>4, <3>1 DEF HasBody, HeldBody, Json
    <3>3. ValidatePresent(b, held, authoritative) = Fine
      BY <2>4, <2>5, <2>8, <3>2 DEF ValidatePresent, FormKinds
    <3> QED BY <1>4, <3>3, Verdicts DEF ValidateBody
  <2> QED BY <2>6, <2>7, <2>8
<1> QED BY <1>1, <1>2, <1>3, <1>4

\* A body that conforms is not faulted in a synthesized archive, but for a form
\* that is taken for JSON.
LEMMA BodyNotFaultedWithoutType ==
  ASSUME NEW b, NEW m, BodyMessage(m), BodyConforms(b, m), ~ (m.kind = "form" /\ "json" \in b.content /\ ~ b.bare),
         NEW held, held = Synthesized(m)
  PROVE  ValidateBody(b, held, FALSE).findings = {}
<1>1. /\ held.ct = None
      /\ m.kind # "form" => held.form = None
      /\ held.form # None => m.fields # None
      /\ held.json = Json(m) \/ held.json = None
      /\ held.json # None => m.kind = "json"
  BY SynthesizedIs
<1>2. CASE b.declared = "unresolved"
  BY <1>2, Verdicts DEF ValidateBody
<1>3. CASE b.declared = "no"
  <2>1. m.kind = "none" /\ m.fields = None
    BY <1>3, ConformingBody DEF BodyMessage
  <2>2. ~ HasBody(held)
    BY <1>1, <2>1 DEF HasBody, Json
  <2> QED BY <1>3, <2>2, Verdicts DEF ValidateBody
<1>4. CASE b.declared \notin {"unresolved", "no"} /\ ~ HasBody(held)
  BY <1>4, Verdicts DEF ValidateBody
<1>5. CASE b.declared \notin {"unresolved", "no"} /\ HasBody(held)
  <2>1. m.kind \in {"json", "form"}
    BY <1>1, <1>5 DEF HasBody
  <2>2. PICK media : media = SelectContent(b.content, held.ct)
    OBVIOUS
  <2>3. media \in {"json", None} /\ (media # None => "json" \in b.content)
    BY <1>1, <2>2 DEF SelectContent
  <2>4. CASE media = None
    <3>1. ValidatePresent(b, held, FALSE) = Outcome({}, TRUE)
      BY <1>1, <2>2, <2>4 DEF ValidatePresent
    <3>2. Outcome({}, TRUE).findings = {}
      BY DEF Outcome
    <3> QED BY <1>5, <3>1, <3>2 DEF ValidateBody
  <2>5. CASE media # None /\ b.bare
    <3>1. ValidatePresent(b, held, FALSE) = Unverified
      BY <2>2, <2>3, <2>5 DEF ValidatePresent
    <3> QED BY <1>5, <3>1, Verdicts DEF ValidateBody
  <2>6. CASE media # None /\ ~ b.bare
    <3>1. m.kind = "json" /\ "json" \in b.content /\ m.kind # "none"
      BY <2>1, <2>3, <2>6
    <3>2. m.good
      BY <1>5, <2>6, <3>1, ConformingBody
    <3>3. held.json = "good"
      BY <1>1, <1>5, <3>1, <3>2 DEF HasBody, Json
    <3>4. ValidatePresent(b, held, FALSE) = Fine
      BY <2>2, <2>3, <2>6, <3>3 DEF ValidatePresent
    <3> QED BY <1>5, <3>4, Verdicts DEF ValidateBody
  <2> QED BY <2>4, <2>5, <2>6
<1> QED BY <1>2, <1>3, <1>4, <1>5

\* A form that passes without a doubt conforms.
LEMMA FormSilence ==
  ASSUME NEW b, IsItem(b.fields.s), IsItem(b.fields.t), NEW m, m.fields["s"] \in Seq(Text),
         m.fields["t"] \in Seq(Text), NEW held, held.form = m.fields,
         Silent(ValidateForm(b, held, TRUE))
  PROVE  FormFits(b.fields, m)
<1>1. ~ Unsound(b, held, TRUE) /\ FormHolds(b.fields, m.fields)
  BY Verdicts DEF ValidateForm, Silent
<1>2. Len(m.fields["s"]) <= 1
  <2>1. Len(m.fields["s"]) \in Nat /\ ~ Len(m.fields["s"]) > 1
    BY <1>1, LenProperties DEF Unsound
  <2> QED BY <2>1
<1>3. \A i \in DOMAIN m.fields["s"] : i = 1 /\ m.fields["s"] # <<>>
  BY <1>2, LenProperties, EmptySeq
<1>4. \A i \in DOMAIN m.fields["s"] : Fits(b.fields.s, m.fields["s"][i])
  BY <1>1, <1>3, CheckedFits DEF FormHolds
<1>5. \A i \in DOMAIN m.fields["t"] : Fits(b.fields.t, m.fields["t"][i])
  BY <1>1, CheckedFits DEF FormHolds
<1> QED BY <1>1, <1>2, <1>4, <1>5 DEF FormHolds, FormFits

\* A body that passes without a doubt conforms.
LEMMA BodySilence ==
  ASSUME NEW b, FormTyped(b), NEW m, BodyMessage(m), NEW held, HeldBody(held, m, TRUE),
         Silent(ValidateBody(b, held, TRUE))
  PROVE  BodyConforms(b, m)
<1>0. held.form = m.fields /\ held.json = Json(m) /\ held.ct = m.ct
  BY DEF HeldBody
<1>1. CASE b.declared = "unresolved"
  BY <1>1, ConformingBody
<1>2. m.kind # "none" => HasBody(held) /\ held.json # None
  BY <1>0, NoneIsNothing DEF HasBody, Json
<1>3. CASE b.declared = "no"
  <2>1. Outcome({"undocumented-body"}, TRUE).unverified
    BY DEF Outcome
  <2>2. ~ HasBody(held)
    BY <1>3, <2>1 DEF ValidateBody, Silent
  <2> QED BY <1>2, <1>3, <2>2, ConformingBody
<1>4. CASE b.declared \notin {"unresolved", "no"} /\ m.kind = "none"
  <2>1. ~ HasBody(held)
    BY <1>0, <1>4 DEF HasBody, Json, BodyMessage
  <2>2. ~ b.required
    BY <1>4, <2>1, Verdicts DEF ValidateBody, Silent
  <2> QED BY <1>4, <2>2, ConformingBody
<1>5. CASE b.declared \notin {"unresolved", "no"} /\ m.kind # "none"
  <2>1. Silent(ValidatePresent(b, held, TRUE))
    BY <1>2, <1>5 DEF ValidateBody
  <2>3. held.ct = m.kind /\ m.ct = m.kind /\ m.kind # None /\ m.kind # "*/*"
    BY <1>0, <1>5, NoneIsNothing DEF BodyMessage, FormKinds
  <2>4. PICK media : media = SelectContent(b.content, held.ct)
    OBVIOUS
  <2>5. media # None
    <3>1. \A found : Outcome(found, TRUE).unverified
      BY DEF Outcome
    <3> QED BY <2>1, <2>4, <3>1 DEF ValidatePresent, Silent
  <2>6. /\ {m.ct, Family(m.ct), "*/*"} \cap b.content # {}
        /\ m.ct \in b.content => media = m.kind
    BY <2>3, <2>4, <2>5, Selected
  <2>7. ASSUME m.kind = "json" /\ "json" \in b.content /\ ~ b.bare PROVE m.good
    <3>1. media = "json" /\ media \notin FormKinds
      BY <2>3, <2>6, <2>7 DEF FormKinds
    <3>2. held.json = "good"
      BY <2>1, <2>4, <2>5, <2>7, <3>1, Verdicts DEF ValidatePresent, Silent, FormKinds
    <3> QED BY <1>0, <2>7, <3>2 DEF Json
  <2>8. ASSUME m.kind \in FormKinds /\ m.ct \in b.content /\ ~ b.bare PROVE FormFits(b.fields, m)
    <3>1. media \in FormKinds /\ held.form # None
      BY <1>0, <2>3, <2>6, <2>8 DEF BodyMessage
    <3>2. Silent(ValidateForm(b, held, TRUE))
      BY <2>1, <2>4, <2>5, <2>8, <3>1 DEF ValidatePresent, FormKinds
    <3>3. IsItem(b.fields.s) /\ IsItem(b.fields.t)
      BY <2>3, <2>8 DEF FormTyped
    <3>4. m.fields["s"] \in Seq(Text) /\ m.fields["t"] \in Seq(Text) /\ held.form = m.fields
      BY <1>0, <2>8 DEF BodyMessage
    <3> QED BY ONLY <3>2, <3>3, <3>4, FormSilence
  <2> QED BY <1>5, <2>6, <2>7, <2>8, ConformingBody
<1> QED BY <1>1, <1>3, <1>4, <1>5

-----------------------------------------------------------------------------
(* A request on its way.                                                   *)

Operations ==
  {Operation(p, NoBody) : p \in Params \cup {None}} \cup {Operation(NoParam, b) : b \in Bodies}

MessagesOf(o) == IF o.param = NoParam THEN BodyMessages ELSE ParamMessages(o.param)

HeldBy(s, held, m) ==
  \/ s = "direct" /\ held = Prepared(m)
  \/ s = "capture" /\ \E attached, listed \in BOOLEAN : held = Captured(m, attached, listed)
  \/ s = "synthesized" /\ held = Synthesized(m)

UnderWay ==
  /\ op \in Operations
  /\ message # None => message \in MessagesOf(op)
  /\ surface # None => message # None /\ HeldBy(surface, facts, message)
  /\ surface = None => facts = None /\ verdict = None
  /\ verdict # None => verdict = ValidateRequest(op, facts, Authoritative)

MessageInv == MessageRests \/ UnderWay

LEMMA MessageStarts == Init => MessageInv
<1>1. MessageInit => UnderWay
  BY DEF MessageInit, UnderWay, Operations, Unsent
<1> QED BY <1>1 DEF Init, MessageInv

\* Every step of a request keeps what is known of it.
LEMMA MessageSteps == MessageInv /\ [Next]_vars => MessageInv'
<1> SUFFICES ASSUME MessageInv, [Next]_vars PROVE MessageInv'
  OBVIOUS
<1>1. CASE UNCHANGED rvars
  <2>1. op' = op /\ message' = message /\ surface' = surface /\ facts' = facts /\ verdict' = verdict
    BY <1>1 DEF rvars
  <2> QED BY <2>1 DEF MessageInv, MessageRests, Unsent, UnderWay, Authoritative
<1>2. CASE op # None /\ MessageNext
  <2>1. UnderWay
    BY <1>2 DEF MessageInv, MessageRests
  <2>2. None \notin {"direct", "capture", "synthesized"}
    BY MessageAssumption DEF Surfaces
  <2>3. CASE Send
    <3>1. surface = None /\ facts = None /\ verdict = None
      BY <2>1, <2>3 DEF Send, UnderWay
    <3>2. message' \in MessagesOf(op) /\ op' = op /\ surface' = None /\ facts' = None /\ verdict' = None
      BY <2>3, <3>1 DEF Send, MessagesOf
    <3> QED BY <2>1, <3>2 DEF MessageInv, UnderWay
  <2>4. ASSUME message # None, surface = None, surface' # None, HeldBy(surface', facts', message),
               UNCHANGED <<op, message, verdict>>
        PROVE  MessageInv'
    BY <2>1, <2>4 DEF MessageInv, UnderWay
  <2>5. CASE Run
    BY <2>2, <2>4, <2>5 DEF Run, HeldBy
  <2>6. CASE Capture
    BY <2>2, <2>4, <2>6 DEF Capture, HeldBy
  <2>7. CASE Synthesize
    BY <2>2, <2>4, <2>7 DEF Synthesize, HeldBy
  <2>8. CASE Judge
    <3>1. /\ verdict' = ValidateRequest(op, facts, Authoritative) /\ surface # None
          /\ op' = op /\ message' = message /\ surface' = surface /\ facts' = facts
      BY <2>1, <2>8 DEF Judge, UnderWay
    <3> QED BY <2>1, <3>1 DEF MessageInv, UnderWay, Authoritative
  <2> QED BY <1>2, <2>3, <2>5, <2>6, <2>7, <2>8 DEF MessageNext
<1>3. UNCHANGED rvars \/ (op # None /\ MessageNext)
  BY DEF Next, Finished, vars
<1> QED BY <1>1, <1>2, <1>3

\* What may be sent for an operation, of its parameter and of its body.
LEMMA MessageOfOperation ==
  ASSUME NEW o \in Operations, NEW m \in MessagesOf(o)
  PROVE  /\ o.param \in Params \cup {None, NoParam} /\ o.body \in Bodies \cup {NoBody}
         /\ o.param # None => ParamMessage(o.param, m) /\ (o.param \notin Params => Here(o.param, m) = <<>>)
         /\ BodyMessage(m)
<1>1. /\ o.param \in Params \cup {None, NoParam} /\ o.body \in Bodies \cup {NoBody}
  BY DEF Operations, Operation
<1>2. CASE o.param = NoParam
  <2>1. m \in BodyMessages
    BY <1>2 DEF MessagesOf
  <2>2. ParamMessage(o.param, m) /\ BodyMessage(m)
    BY <1>2, <2>1, ParamMessagesAre, BodyMessageIs
  <2>3. Here(NoParam, m) = <<>>
    <3>1. NoParam.in = "header"
      BY DEF NoParam
    <3> QED BY <2>1, <3>1, BodyMessagesAre DEF Here
  <2> QED BY <1>1, <1>2, <2>2, <2>3
<1>3. CASE o.param # NoParam
  <2>1. m \in ParamMessages(o.param)
    BY <1>3 DEF MessagesOf
  <2>2. BodyMessage(m)
    BY <2>1, NoBodyMessage DEF BodyMessage, FormKinds
  <2>3. o.param # None => ParamMessage(o.param, m)
    BY <2>1, ParamMessagesAre
  <2> QED BY <1>1, <1>3, <2>2, <2>3
<1> QED BY <1>2, <1>3

LEMMA HeldDirectly ==
  ASSUME NEW m, NEW held, HeldBy("direct", held, m)
  PROVE  SameRequest(held, m) /\ HeldBody(held, m, TRUE)
<1>1. held = Prepared(m)
  BY DEF HeldBy
<1> QED BY <1>1, PreparedIs DEF HeldBody

LEMMA HeldInACapture ==
  ASSUME NEW m, NEW held, HeldBy("capture", held, m)
  PROVE  SameRequest(held, m) /\ HeldBody(held, m, FALSE)
<1>1. PICK attached \in BOOLEAN, listed \in BOOLEAN : held = Captured(m, attached, listed)
  BY DEF HeldBy
<1>2. /\ SameRequest(held, m) /\ held.ct = m.ct
      /\ held.form = m.fields \/ held.form = None
      /\ held.files = m.files \/ held.files = {}
      /\ held.json = Json(m) \/ held.json = None
  BY <1>1, CapturedIs
<1> QED BY <1>2 DEF HeldBody

\* A surface holds of a request what it can see of it, and the verdict is that
\* of what it holds.
THEOREM MessageHolds == Spec => []MessageInv
BY MessageStarts, MessageSteps, PTL DEF Spec

\* Whatever is declared and whatever a client writes for it: a request that is
\* written as declared is never found fault with, whether the surface sent it or
\* has an archive of it; what cannot be reversed is unverified.  The one exception
\* is a form in a synthesized archive where JSON is declared too
\* (request-contract.ts).
THEOREM NoFalseFindings == Spec => []ConformingIsNotFaulted
<1>1. ASSUME MessageInv PROVE ConformingIsNotFaulted
  <2>1. SUFFICES ASSUME verdict # None, Conforms, Unambiguous, ~ FormTakenForJson
                 PROVE  verdict.findings = {}
    BY DEF ConformingIsNotFaulted
  <2>2. UnderWay
    BY <1>1, <2>1 DEF MessageInv, MessageRests, Unsent
  <2>3. PICK p, b : p = op.param /\ b = op.body
    OBVIOUS
  <2>4. /\ op \in Operations /\ message \in MessagesOf(op) /\ HeldBy(surface, facts, message)
        /\ verdict = ValidateRequest(op, facts, Authoritative)
    BY <2>1, <2>2 DEF UnderWay
  <2>5. /\ p \in Params \cup {None, NoParam} /\ b \in Bodies \cup {NoBody}
        /\ p # None => ParamMessage(p, message)
        /\ BodyMessage(message)
    BY <2>3, <2>4, MessageOfOperation
  <2>6. /\ p # None => ParamConforms(p, message) /\ Plainly(p.schema.item)
        /\ BodyConforms(b, message) /\ (b.fields # None => Plainly(b.fields.s) /\ Plainly(b.fields.t))
    BY <2>1, <2>3 DEF Conforms, Unambiguous
  <2>7. PICK a : a = Authoritative
    OBVIOUS
  <2>8. SUFFICES ValidateParams(p, facts, a).findings = {} /\ ValidateBody(b, facts, a).findings = {}
    BY <2>3, <2>4, <2>7 DEF ValidateRequest, Both, Outcome
  <2>9. CASE SameRequest(facts, message) /\ HeldBody(facts, message, a)
    <3>1. ValidateParams(p, facts, a).findings = {}
      BY ONLY <2>5, <2>6, <2>9, ParamsNotFaulted
    <3>2. ValidateBody(b, facts, a).findings = {}
      BY <2>5, <2>6, <2>9, AnyBody, BodyNotFaulted
    <3> QED BY <3>1, <3>2
  <2>10. CASE surface = "direct"
    BY <2>4, <2>7, <2>9, <2>10, HeldDirectly DEF Authoritative
  <2>11. CASE surface = "capture"
    <3>1. a = FALSE
      BY <2>7, <2>11 DEF Authoritative
    <3> QED BY <2>4, <2>9, <2>11, <3>1, HeldInACapture
  <2>12. CASE surface = "synthesized" /\ facts = Synthesized(message)
    <3>1. a = FALSE
      BY <2>7, <2>12 DEF Authoritative
    <3>2. ~ (message.kind = "form" /\ "json" \in b.content /\ ~ b.bare)
      BY <2>1, <2>3, <2>12 DEF FormTakenForJson
    <3>3. ValidateParams(p, facts, FALSE).findings = {}
      BY ONLY <2>5, <2>6, <2>12, ParamsNotFaultedWithoutHeaders
    <3>4. ValidateBody(b, facts, FALSE).findings = {}
      BY ONLY <2>5, <2>6, <2>12, <3>2, BodyNotFaultedWithoutType
    <3> QED BY <3>1, <3>3, <3>4
  <2> QED BY <2>4, <2>10, <2>11, <2>12 DEF HeldBy
<1> QED BY <1>1, MessageHolds, PTL

\* Where the surface that sent a request finds no fault and leaves nothing
\* unverified, the request is written as declared, but for a list that names a
\* property more than once.
THEOREM SilenceSaysConforming == Spec => []SilenceIsVerified
<1>1. ASSUME MessageInv PROVE SilenceIsVerified
  <2>1. SUFFICES ASSUME verdict # None, surface = "direct", NamedOnce, verdict.findings = {}, ~ verdict.unverified
                 PROVE  Conforms
    BY DEF SilenceIsVerified
  <2>2. UnderWay
    BY <1>1, <2>1 DEF MessageInv, MessageRests, Unsent
  <2>3. PICK p, b : p = op.param /\ b = op.body
    OBVIOUS
  <2>0. None # "direct"
    BY MessageAssumption DEF Surfaces
  <2>4. /\ op \in Operations /\ message \in MessagesOf(op) /\ HeldBy("direct", facts, message)
        /\ verdict = ValidateRequest(op, facts, TRUE)
    BY <2>0, <2>1, <2>2 DEF UnderWay, Authoritative
  <2>5. /\ p \in Params \cup {None, NoParam} /\ b \in Bodies \cup {NoBody}
        /\ p # None => ParamMessage(p, message) /\ (p \notin Params => Here(p, message) = <<>>)
        /\ BodyMessage(message)
    BY <2>3, <2>4, MessageOfOperation
  <2>6. SameRequest(facts, message) /\ HeldBody(facts, message, TRUE)
    BY <2>4, HeldDirectly
  <2>7. Silent(ValidateBody(b, facts, TRUE)) /\ Silent(ValidateParams(p, facts, TRUE))
    BY <2>1, <2>3, <2>4 DEF ValidateRequest, Both, Outcome, Silent
  <2>8. p # None /\ p.in = "query" /\ p.schema.kind = "object" /\ Len(message.query["p"]) = 1 =>
          Once(Split(message.query["p"][1], ","))
    BY <2>1, <2>3 DEF NamedOnce, Once
  <2>9. ParamConforms(p, message)
    BY ONLY <2>5, <2>6, <2>7, <2>8, ParamsSilence
  <2>10. BodyConforms(b, message)
    BY <2>5, <2>6, <2>7, AnyBody, BodySilence
  <2> QED BY <2>3, <2>9, <2>10 DEF Conforms
<1> QED BY <1>1, MessageHolds, PTL
=============================================================================
