----------------------------- MODULE ApiRunner -----------------------------
(***************************************************************************)
(* runSequenceForHar: the requests of a collection, one after the other.   *)
(* Each is prepared from the variables captured so far, gated, vetted by   *)
(* its resolved address, sent, and redirected within a budget with the     *)
(* policy applied again at every hop.  The driver of har-produce.ts        *)
(* archives the exchanges of a sequence that completed.  runSequence is    *)
(* the same without a capture and a driver.                                *)
(*                                                                         *)
(* The network is external: any server gives any answer, and a name may    *)
(* resolve to another address each time it is looked up.                   *)
(***************************************************************************)
EXTENDS Naturals, Sequences

CONSTANTS
  Entry,        \* the collection: its requests by name
  Run,          \* the runs asked for: names, options and variables
  Host,         \* hostnames
  AddressOf,    \* per host: the classes of addresses it may resolve to
  Var,          \* variables
  Environment,  \* the variables of the environment a run selects
  Status        \* the statuses servers answer with

Absent == "absent"        \* a key that is not in the scope
Undefined == "undefined"  \* a key without a value: a capture that matched nothing
NoHost == "no host"       \* hostOf of a URL that cannot be parsed
NoLocation == "no location"

Method == {"GET", "HEAD", "POST", "PUT"}
SafeMethods == {"GET", "HEAD", "OPTIONS"}
RedirectCodes == {301, 302, 303, 307, 308}
AddressClass == {"global", "private", "blocked"}

\* No body, one that an archive can hold as text, one that it cannot.
Body == {"none", "text", "binary"}

\* A URL names its host literally or by a variable.
RequestEntry ==
  [method : Method, url : Host \cup Var, credential : BOOLEAN, body : Body,
   captures : SUBSET Var, scripted : BOOLEAN]

RunOptions ==
  [allowUnsafe : BOOLEAN, allowedHosts : SUBSET Host, allowPrivate : BOOLEAN,
   maxRedirects : Nat, stopOnFailure : BOOLEAN]

Scope == [Var -> Host \cup {Absent, Undefined}]

ASSUME ApiRunnerAssumption ==
  /\ (Host \cup Var) \cap {Absent, Undefined, NoHost, NoLocation} = {}
  /\ Host \cap Var = {}
  /\ \A name \in DOMAIN Entry : Entry[name] \in RequestEntry
  /\ \A run \in Run : /\ run.names \in Seq(STRING)
                      /\ run.opts \in RunOptions
                      /\ run.vars \in Scope
  /\ AddressOf \in [Host -> SUBSET AddressClass]
  /\ Environment \in Scope
  /\ Status \subseteq Nat

VARIABLES
  names,      \* the names of the run
  opts,       \* its options
  steps,      \* the results so far
  scope,      \* the variables handed to the next request
  captured,   \* the variables captured over the sequence
  local,      \* the scope of the request under way
  current,    \* that request, as of its current hop
  res,        \* the answer to the hop
  redirects,  \* the hops followed for the request
  hops,       \* capture.hops
  truncated,  \* capture.redirectTruncated
  outcome,    \* what the driver made of the run
  pc,
  wire        \* history: the requests that left, with the answers they got

sequenceVars == <<steps, scope, captured>>
requestVars == <<local, current, res, redirects>>
captureVars == <<hops, truncated>>
vars == <<names, opts, sequenceVars, requestVars, captureVars, outcome, pc, wire>>

----------------------------------------------------------------------------
(* The policy. *)

IsMutating(method) == method \notin SafeMethods

\* Bug: either of the two unlocks is enough.
BugCheckGate(method, host) ==
  IsMutating(method) => opts.allowUnsafe \/ host \in opts.allowedHosts

\* A mutating request needs the opt-in and an allowlisted host.
CheckGate(method, host) ==
  IsMutating(method) => opts.allowUnsafe /\ host \in opts.allowedHosts

\* Whether resolveAndPin accepts an address of the class.
AddressAllowed(class) ==
  \/ class = "global"
  \/ class = "private" /\ opts.allowPrivate

\* A lookup of the host may find an address of the class.
Resolves(host, class) == host \in Host /\ class \in AddressOf[host]

----------------------------------------------------------------------------
(* Redirects. *)

\* Bug: a hop that stays on its host starts from the first headers again.
BugCarriesCredential(from, to) ==
  to = from /\ Entry[names[Len(steps) + 1]].credential

\* Authorization and Cookie are dropped on a hop to another host.
CarriesCredential(from, to) == to = from /\ current.credential

\* 303, and 301 or 302 after POST, go on with GET and without the body.
Downgrades(status, method) ==
  status = 303 \/ (status \in {301, 302} /\ method = "POST")

\* The request that follows the answer to its Location.
RedirectTransition ==
  [method |-> IF Downgrades(res.status, current.method) THEN "GET" ELSE current.method,
   host |-> res.location,
   credential |-> CarriesCredential(current.host, res.location),
   body |-> IF Downgrades(res.status, current.method) THEN "none" ELSE current.body]

\* Bug: the budget admits one hop too many.
BugFollows ==
  /\ res.status \in RedirectCodes
  /\ Len(redirects) <= opts.maxRedirects
  /\ res.location # NoLocation

\* The loop has another turn.
Follows ==
  /\ res.status \in RedirectCodes
  /\ Len(redirects) < opts.maxRedirects
  /\ res.location # NoLocation

\* The answer is the response to the request.
Terminal == ~Follows

\* The archive's record of the current hop: a text body becomes postData.
HopRecord ==
  [method |-> current.method, host |-> current.host, status |-> res.status,
   postData |-> current.body = "text"]

----------------------------------------------------------------------------
(* Variables. *)

\* Object.assign: the keys of source win, with or without a value.
Assign(target, source) ==
  [v \in Var |-> IF source[v] = Absent THEN target[v] ELSE source[v]]

\* What a script may leave of the variables: one set, or none.
Scripted(entry, before) ==
  {before} \cup IF entry.scripted
                  THEN {[before EXCEPT ![v] = h] : v \in Var, h \in Host}
                  ELSE {}

\* The host of an interpolated URL; a variable without a value stays a
\* placeholder, and the URL cannot be parsed.
Target(url, known) ==
  CASE url \in Host -> url
    [] url \in Var /\ known[url] \in Host -> known[url]
    [] OTHER -> NoHost

\* What the capture specs may take from an answer: each yields a key.
Extracted(entry) == {c \in Scope : \A v \in Var : (c[v] # Absent) <=> v \in entry.captures}

\* The post-response script adds the variables it changed.
Changed(after) == [v \in Var |-> IF after[v] = local[v] THEN Absent ELSE after[v]]

Captures(entry) ==
  {Assign(c, Changed(after)) : c \in Extracted(entry), after \in Scripted(entry, local)}

----------------------------------------------------------------------------

NoRequest == [method |-> "GET", host |-> NoHost, credential |-> FALSE, body |-> "none"]
NoAnswer == [status |-> 0, location |-> NoLocation]

Init ==
  /\ \E run \in Run : names = run.names /\ opts = run.opts /\ scope = run.vars
  /\ steps = <<>>
  /\ captured = [v \in Var |-> Absent]
  /\ local = scope
  /\ current = NoRequest
  /\ res = NoAnswer
  /\ redirects = <<>>
  /\ hops = <<>>
  /\ truncated = FALSE
  /\ outcome = "none"
  /\ pc = "next"
  /\ wire = <<>>

\* An exception of any await leaves the sequence and the driver.
Reject ==
  /\ pc' = "rejected"
  /\ outcome' = "thrown"
  /\ UNCHANGED <<names, opts, sequenceVars, requestVars, captureVars, wire>>

\* The request ends without a response; the sequence goes on.
Withheld(dryRun) ==
  /\ steps' = Append(steps, [sent |-> FALSE, dryRun |-> dryRun, status |-> 0,
                             redirects |-> 0, passed |-> FALSE])
  /\ pc' = "next"
  /\ UNCHANGED <<names, opts, scope, captured, captureVars, outcome, wire>>

\* The environment, the variables and the pre-request script make the scope
\* of the request, and the request is filled in from it.
PrepareRequest ==
  /\ pc = "next"
  /\ Len(steps) < Len(names)
  /\ names[Len(steps) + 1] \in DOMAIN Entry
  /\ LET entry == Entry[names[Len(steps) + 1]]
     IN  \E known \in Scripted(entry, Assign(Environment, scope)) :
           /\ local' = known
           /\ current' = [method |-> entry.method, host |-> Target(entry.url, known),
                          credential |-> entry.credential, body |-> entry.body]
  /\ res' = NoAnswer
  /\ redirects' = <<>>

\* The gate lets the request pass to the vetting of its address.
Prepare ==
  /\ PrepareRequest
  /\ CheckGate(current'.method, current'.host)
  /\ pc' = "vetting"
  /\ UNCHANGED <<names, opts, sequenceVars, captureVars, outcome, wire>>

DryRun ==
  /\ PrepareRequest
  /\ ~CheckGate(current'.method, current'.host)
  /\ Withheld(TRUE)

\* No such request, a missing secret, an unreadable file.
PrepareFails ==
  /\ pc = "next"
  /\ Len(steps) < Len(names)
  /\ Reject

\* request() puts the request on the network.  The address that was vetted is
\* thrown away: connecting looks the name up once more, and may find another.
Send(request, vetted, reached) ==
  /\ wire' = Append(wire, [step |-> Len(steps) + 1, method |-> request.method,
                           host |-> request.host, credential |-> request.credential,
                           postData |-> request.body = "text", vetted |-> vetted, reached |-> reached, status |-> 0])
  /\ pc' = "sent"
  /\ UNCHANGED <<names, opts, sequenceVars, captureVars, outcome>>

\* assertSsrfAllowed accepts the first address.
SendFirst ==
  /\ pc = "vetting"
  /\ \E vetted, reached \in AddressClass :
       /\ Resolves(current.host, vetted)
       /\ AddressAllowed(vetted)
       /\ Resolves(current.host, reached)
       /\ Send(current, vetted, reached)
  /\ UNCHANGED requestVars

\* It refuses it, or the URL cannot be parsed.
RefuseFirst ==
  /\ pc = "vetting"
  /\ \/ current.host = NoHost
     \/ \E class \in AddressClass : Resolves(current.host, class) /\ ~AddressAllowed(class)
  /\ Withheld(FALSE)
  /\ UNCHANGED requestVars

\* The name of the first or of the next host cannot be looked up.
LookupFails ==
  /\ \/ pc = "vetting" /\ current.host \in Host
     \/ pc = "following" /\ res.location \in Host
  /\ Reject

\* A Location is of interest with a redirect status only.
Answer ==
  /\ pc = "sent"
  /\ \E status \in Status, location \in Host \cup {NoHost, NoLocation} :
       /\ status \notin RedirectCodes => location = NoLocation
       /\ res' = [status |-> status, location |-> location]
       /\ wire' = [wire EXCEPT ![Len(wire)] = [@ EXCEPT !.status = status]]
  /\ pc' = "answered"
  /\ UNCHANGED <<names, opts, sequenceVars, local, current, redirects, captureVars, outcome>>

\* The connection cannot be made, or the deadline for the answer passes.
RequestFails ==
  /\ pc = "sent"
  /\ Reject

\* The connection breaks while the body is read, or the response cannot be
\* judged: a schema or a path is no good.
BodyFails ==
  /\ pc = "answered"
  /\ Reject

\* The loop reads the body and records the hop before it looks at the next; a
\* Location that cannot be parsed ends the loop after that.
RecordHop ==
  /\ pc = "answered"
  /\ Follows
  /\ hops' = Append(hops, HopRecord)
  /\ pc' = IF res.location = NoHost THEN "final" ELSE "following"
  /\ UNCHANGED <<names, opts, sequenceVars, local, current, res, redirects, truncated,
                 outcome, wire>>

\* The next hop passes the vetting and the gate.
SendNext ==
  /\ pc = "following"
  /\ CheckGate(RedirectTransition.method, RedirectTransition.host)
  /\ \E vetted, reached \in AddressClass :
       /\ Resolves(res.location, vetted)
       /\ AddressAllowed(vetted)
       /\ Resolves(res.location, reached)
       /\ Send(RedirectTransition, vetted, reached)
  /\ redirects' = Append(redirects, res)
  /\ current' = RedirectTransition
  /\ UNCHANGED <<local, res>>

RefuseNext ==
  /\ pc = "following"
  /\ \E class \in AddressClass : Resolves(res.location, class) /\ ~AddressAllowed(class)
  /\ Withheld(FALSE)
  /\ UNCHANGED requestVars

DryRunNext ==
  /\ pc = "following"
  /\ \E class \in AddressClass : Resolves(res.location, class) /\ AddressAllowed(class)
  /\ ~CheckGate(RedirectTransition.method, RedirectTransition.host)
  /\ Withheld(TRUE)
  /\ UNCHANGED requestVars

\* Whether the sequence ends at this response.
Stops(passed) == opts.stopOnFailure /\ ~passed

\* The response is read and judged, and its variables are threaded forward.
\* After a Location that could not be parsed the body is read a second time,
\* which an empty one survives, and the hop is recorded a second time.
Finish ==
  /\ \/ pc = "answered" /\ Terminal
     \/ pc = "final"
  /\ truncated' = (truncated \/ res.status \in RedirectCodes)
  /\ hops' = Append(hops, HopRecord)
  /\ \E passed \in BOOLEAN, values \in Captures(Entry[names[Len(steps) + 1]]) :
       /\ steps' = Append(steps, [sent |-> TRUE, dryRun |-> FALSE, status |-> res.status,
                                  redirects |-> Len(redirects), passed |-> passed])
       /\ scope' = Assign(scope, values)
       /\ captured' = Assign(captured, values)
       /\ pc' = IF Stops(passed) THEN "done" ELSE "next"
  /\ UNCHANGED <<names, opts, local, current, res, redirects, outcome, wire>>

\* A body with content has been used up when the loop breaks off.
ReadTwice ==
  /\ pc = "final"
  /\ Reject

\* Every name has had its turn.
Complete ==
  /\ pc = "next"
  /\ Len(steps) = Len(names)
  /\ pc' = "done"
  /\ UNCHANGED <<names, opts, sequenceVars, requestVars, captureVars, outcome, wire>>

\* Bug: looks at the last step only.
BugUnsent == Len(steps) > 0 /\ ~steps[Len(steps)].sent

\* Some step was withheld or blocked.
Unsent == \E i \in DOMAIN steps : ~steps[i].sent

\* runSequenceToHar: the exchanges are archived if all of them completed.
ProduceHar ==
  /\ pc = "done"
  /\ outcome = "none"
  /\ outcome' = IF Unsent \/ truncated THEN "thrown" ELSE "stored"
  /\ UNCHANGED <<names, opts, sequenceVars, requestVars, captureVars, pc, wire>>

\* What goes on by itself: the program, and lookups and requests, which have
\* deadlines and so are answered or fail.
Proceed ==
  \/ Prepare \/ DryRun \/ PrepareFails
  \/ SendFirst \/ RefuseFirst \/ SendNext \/ RefuseNext \/ DryRunNext \/ LookupFails
  \/ Answer \/ RequestFails
  \/ RecordHop \/ Finish \/ ReadTwice
  \/ Complete \/ ProduceHar

Next == Proceed \/ BodyFails

Spec == Init /\ [][Next]_vars

----------------------------------------------------------------------------

\* Results, records of the archive, and what went over the wire.
Result == [sent : BOOLEAN, dryRun : BOOLEAN, status : Nat, redirects : Nat, passed : BOOLEAN]
Hop == [method : Method, host : Host, status : Nat, postData : BOOLEAN]
Exchange == [step : Nat, method : Method, host : Host, credential : BOOLEAN,
             postData : BOOLEAN, vetted : AddressClass, reached : AddressClass, status : Nat]

\* The types of the variables; what was recorded or sent has a host.
TypeOK ==
  /\ names \in Seq(STRING)
  /\ opts \in RunOptions
  /\ steps \in Seq(Result)
  /\ scope \in Scope
  /\ captured \in Scope
  /\ local \in Scope
  /\ current \in [method : Method, host : Host \cup {NoHost}, credential : BOOLEAN, body : Body]
  /\ res \in [status : Nat, location : Host \cup {NoHost, NoLocation}]
  /\ redirects \in Seq([status : Nat, location : Host \cup {NoHost, NoLocation}])
  /\ hops \in Seq(Hop)
  /\ truncated \in BOOLEAN
  /\ outcome \in {"none", "thrown", "stored"}
  /\ pc \in {"next", "vetting", "sent", "answered", "following", "final", "done", "rejected"}
  /\ wire \in Seq(Exchange)

\* A credential reaches the host the request was made for and no other: once a
\* hop has left that host, none of the later ones carries it, not even one that
\* stays where it is or comes back.
CredentialsStayHome ==
  \A i, j \in DOMAIN wire :
    wire[i].credential /\ wire[j].step = wire[i].step /\ j <= i =>
      wire[j].host = wire[i].host

Permitted(class) == class # "blocked" /\ (class = "private" => opts.allowPrivate)

\* Whatever the variables, the redirects and the name service make of a
\* request, it leaves only as the options allow: a mutating one to an
\* allowlisted host, and any one to a host whose address, when it was looked up
\* to be vetted, was of a class that is permitted.  The address it connects to is
\* so too if the name has addresses of one class only; a name whose address
\* changes between the two lookups escapes (the window safety.ts:23 accepts).
EveryHopWithinPolicy ==
  \A i \in DOMAIN wire :
    /\ wire[i].method \in {"POST", "PUT"} =>
         opts.allowUnsafe /\ wire[i].host \in opts.allowedHosts
    /\ Permitted(wire[i].vetted)
    /\ AddressOf[wire[i].host] = {wire[i].reached} => Permitted(wire[i].reached)

\* An archive holds every exchange of the run once, in order, as it went over
\* the wire, and each request in it was followed to a response.
ArchiveIsTheTraffic ==
  outcome = "stored" =>
    /\ hops = [i \in DOMAIN wire |-> [method |-> wire[i].method, host |-> wire[i].host,
                                      status |-> wire[i].status,
                                      postData |-> wire[i].postData]]
    /\ \A i \in DOMAIN steps :
         \E j \in DOMAIN wire : wire[j].step = i /\ wire[j].status \notin RedirectCodes

\* The result of a request that was sent accounts for what left for it: one
\* exchange, one more for each redirect, no more than the budget, and the status
\* is that of the last.
ResultsMatchTheWire ==
  \A i \in DOMAIN steps :
    LET sentFor == {j \in DOMAIN wire : wire[j].step = i}
    IN  steps[i].sent =>
          /\ steps[i].redirects <= opts.maxRedirects
          /\ \E first \in sentFor :
               /\ sentFor = first .. first + steps[i].redirects
               /\ wire[first + steps[i].redirects].status = steps[i].status

=============================================================================
