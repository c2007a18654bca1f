-------------------------- MODULE ApiRunnerProofs --------------------------
(***************************************************************************)
(* What holds of ApiRunner for every collection, every run and every       *)
(* network: types, where a credential goes, and the policy at every hop;   *)
(* then what its results and its archive say of the traffic.               *)
(***************************************************************************)
EXTENDS ApiRunner, SequenceTheorems, TLAPS

InFlight == {"sent", "answered", "following", "final"}

\* What the request under way has passed by the time it is somewhere.
RequestInv ==
  /\ pc \in InFlight => current.host \in Host
  /\ pc = "following" => res.location \in Host
  /\ pc = "vetting" => CheckGate(current.method, current.host)
  /\ pc = "sent" => wire # <<>>

\* Nothing has left for a request before it is vetted, and as long as it has a
\* credential it has been at one host only.
WireInv ==
  /\ \A i \in DOMAIN wire : wire[i].step <= Len(steps) + 1
  /\ pc \in {"next", "vetting", "done"} => \A i \in DOMAIN wire : wire[i].step <= Len(steps)
  /\ pc \in InFlight /\ current.credential =>
       \A i \in DOMAIN wire : wire[i].step = Len(steps) + 1 => wire[i].host = current.host

IInv == TypeOK /\ RequestInv /\ WireInv /\ CredentialsStayHome /\ EveryHopWithinPolicy

Request == [method : Method, host : Host \cup {NoHost}, credential : BOOLEAN, body : Body]

-----------------------------------------------------------------------------
(* The helpers. *)

LEMMA AssignScope ==
  ASSUME NEW target \in Scope, NEW source \in Scope
  PROVE  Assign(target, source) \in Scope
BY DEF Assign, Scope

LEMMA ScriptedScope ==
  ASSUME NEW entry, NEW before \in Scope
  PROVE  Scripted(entry, before) \subseteq Scope
<1>1. ASSUME NEW v \in Var, NEW h \in Host
      PROVE  [before EXCEPT ![v] = h] \in Scope
  BY DEF Scope
<1> QED BY <1>1 DEF Scripted

LEMMA CapturesScope ==
  ASSUME NEW entry, local \in Scope
  PROVE  Captures(entry) \subseteq Scope
<1>1. ASSUME NEW after \in Scripted(entry, local)
      PROVE  Changed(after) \in Scope
  <2>1. after \in Scope
    BY <1>1, ScriptedScope
  <2> QED BY <2>1 DEF Scope, Changed
<1>2. ASSUME NEW c \in Scope, NEW after \in Scripted(entry, local)
      PROVE  Assign(c, Changed(after)) \in Scope
  BY <1>1, <1>2, AssignScope
<1>3. ASSUME NEW x \in Captures(entry)
      PROVE  x \in Scope
  <2>1. PICK c \in Scope, after \in Scripted(entry, local) : x = Assign(c, Changed(after))
    BY <1>3 DEF Captures, Extracted
  <2> QED BY <1>2, <2>1
<1> QED BY <1>3

LEMMA TargetHost ==
  ASSUME NEW url, NEW known
  PROVE  Target(url, known) \in Host \cup {NoHost}
BY DEF Target

LEMMA TransitionType ==
  ASSUME current \in Request, res.location \in Host
  PROVE  /\ RedirectTransition \in Request
         /\ RedirectTransition.host = res.location
         /\ RedirectTransition.credential => res.location = current.host /\ current.credential
<1>1. CarriesCredential(current.host, res.location) \in BOOLEAN
  BY DEF CarriesCredential, Request
<1>2. (IF Downgrades(res.status, current.method) THEN "GET" ELSE current.method) \in Method
  BY DEF Method, Request
<1>3. (IF Downgrades(res.status, current.method) THEN "none" ELSE current.body) \in Body
  BY DEF Body, Request
<1> QED BY <1>1, <1>2, <1>3 DEF RedirectTransition, Request, CarriesCredential

\* What a request adds to the history when it leaves.
LEMMA SendAppends ==
  ASSUME TypeOK, NEW request \in Request, request.host \in Host,
         NEW vetted \in AddressClass, NEW reached \in AddressClass, Send(request, vetted, reached)
  PROVE  /\ wire' \in Seq(Exchange)
         /\ DOMAIN wire' = 1 .. Len(wire) + 1
         /\ DOMAIN wire = 1 .. Len(wire)
         /\ Len(wire) \in Nat
         /\ \A i \in DOMAIN wire : wire'[i] = wire[i]
         /\ LET new == wire'[Len(wire) + 1]
            IN  /\ new.step = Len(steps) + 1
                /\ new.method = request.method
                /\ new.host = request.host
                /\ new.credential = request.credential
                /\ new.vetted = vetted
                /\ new.reached = reached
<1> DEFINE new == [step |-> Len(steps) + 1, method |-> request.method,
                   host |-> request.host, credential |-> request.credential,
                   postData |-> request.body = "text", vetted |-> vetted, reached |-> reached, status |-> 0]
<1>1. wire \in Seq(Exchange) /\ steps \in Seq(Result)
  BY DEF TypeOK
<1>2. Len(steps) + 1 \in Nat /\ Len(wire) \in Nat /\ DOMAIN wire = 1 .. Len(wire)
  BY <1>1
<1>3. new \in Exchange
  BY <1>2 DEF Exchange, Request
<1>4. wire' = Append(wire, new)
  BY DEF Send
<1> HIDE DEF new
<1>5. /\ wire' \in Seq(Exchange)
      /\ Len(wire') = Len(wire) + 1
      /\ \A i \in 1 .. Len(wire) : wire'[i] = wire[i]
      /\ wire'[Len(wire) + 1] = new
  BY <1>1, <1>3, <1>4, AppendProperties
<1>6. DOMAIN wire' = 1 .. Len(wire) + 1
  BY <1>5
<1> QED BY <1>2, <1>5, <1>6, SMTT(30) DEF new

\* An answer only adds its status.
LEMMA AnswerKeeps ==
  ASSUME TypeOK, RequestInv, Answer
  PROVE  /\ wire' \in Seq(Exchange)
         /\ DOMAIN wire' = DOMAIN wire
         /\ wire' # <<>>
         /\ \A i \in DOMAIN wire : /\ wire'[i].step = wire[i].step
                                   /\ wire'[i].method = wire[i].method
                                   /\ wire'[i].host = wire[i].host
                                   /\ wire'[i].credential = wire[i].credential
                                   /\ wire'[i].vetted = wire[i].vetted
                                   /\ wire'[i].reached = wire[i].reached
<1>1. PICK status \in Status : wire' = [wire EXCEPT ![Len(wire)] = [@ EXCEPT !.status = status]]
  BY DEF Answer
<1>2. wire \in Seq(Exchange) /\ wire # <<>> /\ status \in Nat
  BY ApiRunnerAssumption DEF TypeOK, RequestInv, Answer
<1>3. /\ Len(wire) \in Nat \ {0}
      /\ Len(wire) \in 1 .. Len(wire)
      /\ DOMAIN wire = 1 .. Len(wire)
  BY <1>2
<1>4. wire[Len(wire)] \in Exchange
  BY <1>2, <1>3
<1> DEFINE last == [wire[Len(wire)] EXCEPT !.status = status]
<1>5. /\ last \in Exchange
      /\ last.step = wire[Len(wire)].step
      /\ last.method = wire[Len(wire)].method
      /\ last.host = wire[Len(wire)].host
      /\ last.credential = wire[Len(wire)].credential
      /\ last.vetted = wire[Len(wire)].vetted
      /\ last.reached = wire[Len(wire)].reached
  BY <1>2, <1>4 DEF Exchange
<1>6. wire' = [wire EXCEPT ![Len(wire)] = last]
  BY <1>1
<1> HIDE DEF last
<1>7. /\ wire' \in Seq(Exchange)
      /\ Len(wire') = Len(wire)
      /\ \A i \in 1 .. Len(wire) : wire'[i] = IF i = Len(wire) THEN last ELSE wire[i]
  BY <1>2, <1>3, <1>5, <1>6, ExceptSeq
<1>8. DOMAIN wire' = 1 .. Len(wire)
  BY <1>7
<1>9. wire' # <<>>
  <2>1. Len(wire') # 0
    BY <1>3, <1>7
  <2> QED BY <2>1
<1> QED BY <1>3, <1>5, <1>7, <1>8, <1>9

LEMMA ResultAppends ==
  ASSUME NEW result \in Result, steps \in Seq(Result), steps' = Append(steps, result)
  PROVE  steps' \in Seq(Result) /\ Len(steps') = Len(steps) + 1 /\ Len(steps) \in Nat
BY AppendProperties

\* A request without a response is one more result, and the next name's turn.
LEMMA WithheldSteps ==
  ASSUME TypeOK, NEW dryRun \in BOOLEAN, Withheld(dryRun)
  PROVE  /\ steps' \in Seq(Result) /\ Len(steps') = Len(steps) + 1 /\ Len(steps) \in Nat
         /\ pc' = "next"
         /\ UNCHANGED <<names, opts, scope, captured, captureVars, outcome, wire>>
<1> DEFINE result == [sent |-> FALSE, dryRun |-> dryRun, status |-> 0,
                      redirects |-> 0, passed |-> FALSE]
<1>1. result \in Result
  BY DEF Result
<1>2. steps \in Seq(Result) /\ steps' = Append(steps, result)
  BY DEF TypeOK, Withheld
<1>3. steps' \in Seq(Result) /\ Len(steps') = Len(steps) + 1 /\ Len(steps) \in Nat
  BY <1>1, <1>2, ResultAppends
<1> QED BY <1>3 DEF Withheld

\* The result of a response.
LEMMA FinishSteps ==
  ASSUME TypeOK, RequestInv, Finish
  PROVE  /\ steps' \in Seq(Result) /\ Len(steps') = Len(steps) + 1 /\ Len(steps) \in Nat
         /\ pc' \in {"next", "done"}
         /\ wire' = wire /\ opts' = opts
<1>1. PICK passed \in BOOLEAN :
        /\ steps' = Append(steps, [sent |-> TRUE, dryRun |-> FALSE, status |-> res.status,
                                   redirects |-> Len(redirects), passed |-> passed])
        /\ pc' = IF Stops(passed) THEN "done" ELSE "next"
  BY DEF Finish
<1> DEFINE result == [sent |-> TRUE, dryRun |-> FALSE, status |-> res.status,
                      redirects |-> Len(redirects), passed |-> passed]
<1>2. res.status \in Nat /\ Len(redirects) \in Nat
  BY DEF TypeOK
<1>3. result \in Result
  BY <1>2 DEF Result
<1>4. steps \in Seq(Result) /\ steps' = Append(steps, result)
  BY <1>1 DEF TypeOK
<1>5. steps' \in Seq(Result) /\ Len(steps') = Len(steps) + 1 /\ Len(steps) \in Nat
  BY <1>3, <1>4, ResultAppends
<1> QED BY <1>1, <1>5 DEF Finish

LEMMA RecordType ==
  ASSUME TypeOK, current.host \in Host
  PROVE  HopRecord \in Hop
BY DEF TypeOK, HopRecord, Hop

-----------------------------------------------------------------------------
(* Types. *)

\* An exception changes nothing that the invariant looks at.
LEMMA RejectPreserves ==
  ASSUME IInv, Reject
  PROVE  IInv'
<1>1. UNCHANGED <<names, opts, steps, scope, captured, local, current, res,
                  redirects, hops, truncated, wire>>
  BY DEF Reject, sequenceVars, requestVars, captureVars
<1>2. pc' = "rejected" /\ outcome' = "thrown"
  BY DEF Reject
<1>3. TypeOK'
  BY <1>1, <1>2 DEF IInv, TypeOK
<1>4. RequestInv' /\ WireInv'
  BY <1>1, <1>2 DEF IInv, RequestInv, WireInv, InFlight
<1>5. CredentialsStayHome' /\ EveryHopWithinPolicy'
  BY <1>1 DEF IInv, CredentialsStayHome, EveryHopWithinPolicy, Permitted
<1> QED BY <1>3, <1>4, <1>5 DEF IInv

\* What a request is prepared to.
LEMMA PrepareType ==
  ASSUME TypeOK, PrepareRequest
  PROVE  /\ local' \in Scope /\ current' \in Request
         /\ res' \in [status : Nat, location : Host \cup {NoHost, NoLocation}]
         /\ redirects' \in Seq([status : Nat, location : Host \cup {NoHost, NoLocation}])
         /\ pc = "next"
<1> DEFINE entry == Entry[names[Len(steps) + 1]]
<1>1. entry \in RequestEntry
  BY ApiRunnerAssumption DEF PrepareRequest
<1>2. PICK known \in Scripted(entry, Assign(Environment, scope)) :
        /\ local' = known
        /\ current' = [method |-> entry.method, host |-> Target(entry.url, known),
                       credential |-> entry.credential, body |-> entry.body]
  BY DEF PrepareRequest
<1>3. Assign(Environment, scope) \in Scope
  BY AssignScope, ApiRunnerAssumption DEF TypeOK
<1>4. known \in Scope
  BY <1>2, <1>3, ScriptedScope
<1>5. Target(entry.url, known) \in Host \cup {NoHost}
  BY TargetHost
<1>6. current' \in Request
  BY <1>1, <1>2, <1>5 DEF RequestEntry, Request
<1>7. res' = NoAnswer /\ redirects' = <<>> /\ pc = "next"
  BY DEF PrepareRequest
<1>8. res' \in [status : Nat, location : Host \cup {NoHost, NoLocation}]
  BY <1>7 DEF NoAnswer
<1>9. redirects' \in Seq([status : Nat, location : Host \cup {NoHost, NoLocation}])
  BY <1>7
<1>10. local' \in Scope
  BY <1>2, <1>4
<1> QED BY <1>6, <1>7, <1>8, <1>9, <1>10

LEMMA TypeStep ==
  ASSUME IInv, Proceed, ~Reject
  PROVE  TypeOK'
<1> USE DEF IInv
<1>1. CASE Prepare
  BY <1>1, PrepareType DEF Prepare, TypeOK, Request, sequenceVars, captureVars
<1>2. CASE DryRun
  <2>1. PrepareRequest /\ Withheld(TRUE)
    BY <1>2 DEF DryRun
  <2> QED BY <2>1, PrepareType, WithheldSteps DEF TypeOK, Request, captureVars
<1>3. CASE SendFirst
  <2>1. PICK vetted \in AddressClass, reached \in AddressClass :
          Resolves(current.host, vetted) /\ Send(current, vetted, reached)
    BY <1>3 DEF SendFirst
  <2>2. current \in Request /\ current.host \in Host
    BY <2>1 DEF TypeOK, Request, Resolves
  <2>3. wire' \in Seq(Exchange)
    BY <2>1, <2>2, SendAppends
  <2>4. pc' = "sent" /\ UNCHANGED <<names, opts, sequenceVars, captureVars, outcome, requestVars>>
    BY <1>3, <2>1 DEF SendFirst, Send
  <2> QED BY <2>3, <2>4 DEF TypeOK, sequenceVars, captureVars, requestVars
<1>4. CASE RefuseFirst
  <2>1. Withheld(FALSE) /\ UNCHANGED requestVars
    BY <1>4 DEF RefuseFirst
  <2> QED BY <2>1, WithheldSteps DEF TypeOK, captureVars, requestVars
<1>5. CASE SendNext
  <2>1. PICK vetted \in AddressClass, reached \in AddressClass :
          Resolves(res.location, vetted) /\ Send(RedirectTransition, vetted, reached)
    BY <1>5 DEF SendNext
  <2>2. current \in Request /\ res.location \in Host
    BY <2>1 DEF TypeOK, Request, Resolves
  <2>3. RedirectTransition \in Request /\ RedirectTransition.host \in Host
    BY <2>2, TransitionType
  <2>4. wire' \in Seq(Exchange)
    BY <2>1, <2>3, SendAppends
  <2>5. /\ pc' = "sent" /\ UNCHANGED <<names, opts, sequenceVars, captureVars, outcome>>
        /\ redirects' = Append(redirects, res) /\ current' = RedirectTransition
        /\ UNCHANGED <<local, res>>
    BY <1>5, <2>1 DEF SendNext, Send
  <2>6. redirects' \in Seq([status : Nat, location : Host \cup {NoHost, NoLocation}])
    BY <2>5, AppendProperties DEF TypeOK
  <2> QED BY <2>3, <2>4, <2>5, <2>6 DEF TypeOK, Request, sequenceVars, captureVars
<1>6. CASE RefuseNext
  <2>1. Withheld(FALSE) /\ UNCHANGED requestVars
    BY <1>6 DEF RefuseNext
  <2> QED BY <2>1, WithheldSteps DEF TypeOK, captureVars, requestVars
<1>7. CASE DryRunNext
  <2>1. Withheld(TRUE) /\ UNCHANGED requestVars
    BY <1>7 DEF DryRunNext
  <2> QED BY <2>1, WithheldSteps DEF TypeOK, captureVars, requestVars
<1>8. CASE Answer
  <2>1. PICK status \in Status, location \in Host \cup {NoHost, NoLocation} :
          res' = [status |-> status, location |-> location]
    BY <1>8 DEF Answer
  <2>2. res' \in [status : Nat, location : Host \cup {NoHost, NoLocation}]
    BY <2>1, ApiRunnerAssumption
  <2>3. wire' \in Seq(Exchange)
    BY <1>8, AnswerKeeps
  <2> QED BY <1>8, <2>2, <2>3 DEF Answer, TypeOK, sequenceVars, captureVars
<1>9. CASE RecordHop
  <2>1. HopRecord \in Hop
    BY <1>9, RecordType DEF RecordHop, RequestInv, InFlight
  <2>2. hops' = Append(hops, HopRecord)
    BY <1>9 DEF RecordHop
  <2>3. hops' \in Seq(Hop)
    BY <2>1, <2>2, AppendProperties DEF TypeOK
  <2>4. /\ pc' \in {"final", "following"}
        /\ UNCHANGED <<names, opts, sequenceVars, local, current, res, redirects, truncated,
                       outcome, wire>>
    BY <1>9 DEF RecordHop
  <2> QED BY <2>3, <2>4 DEF TypeOK, sequenceVars
<1>10. CASE Finish
  <2>1. HopRecord \in Hop
    BY <1>10, RecordType DEF Finish, RequestInv, InFlight
  <2>2. hops' = Append(hops, HopRecord) /\ truncated' = (truncated \/ res.status \in RedirectCodes)
    BY <1>10 DEF Finish
  <2>3. hops' \in Seq(Hop) /\ truncated' \in BOOLEAN
    BY <2>1, <2>2, AppendProperties DEF TypeOK
  <2>4. PICK values \in Captures(Entry[names[Len(steps) + 1]]) :
          scope' = Assign(scope, values) /\ captured' = Assign(captured, values)
    BY <1>10 DEF Finish
  <2>5. values \in Scope
    BY <2>4, CapturesScope DEF TypeOK
  <2>6. scope' \in Scope /\ captured' \in Scope
    BY <2>4, <2>5, AssignScope DEF TypeOK
  <2>7. steps' \in Seq(Result) /\ pc' \in {"next", "done"}
    BY <1>10, FinishSteps
  <2>8. UNCHANGED <<names, opts, local, current, res, redirects, outcome, wire>>
    BY <1>10 DEF Finish
  <2> QED BY <2>3, <2>6, <2>7, <2>8 DEF TypeOK
<1>11. CASE Complete
  BY <1>11 DEF Complete, TypeOK, sequenceVars, requestVars, captureVars
<1>12. CASE ProduceHar
  BY <1>12 DEF ProduceHar, TypeOK, sequenceVars, requestVars, captureVars
<1> QED
  BY <1>1, <1>2, <1>3, <1>4, <1>5, <1>6, <1>7, <1>8, <1>9, <1>10, <1>11, <1>12
     DEF Proceed, PrepareFails, LookupFails, RequestFails, ReadTwice

-----------------------------------------------------------------------------
(* The request under way and the history. *)

\* Steps that leave nothing on the wire, for as long as results grow with them.
LEMMA QuietKeepsWire ==
  ASSUME IInv, wire' = wire, opts' = opts
  PROVE  CredentialsStayHome' /\ EveryHopWithinPolicy'
BY DEF IInv, CredentialsStayHome, EveryHopWithinPolicy, Permitted

\* A request that ends, with a response or without, leaves the wire to the next.
LEMMA EndingKeepsWire ==
  ASSUME IInv, wire' = wire, Len(steps') = Len(steps) + 1, Len(steps) \in Nat,
         pc' \in {"next", "done"}
  PROVE  RequestInv' /\ WireInv'
<1>1. wire \in Seq(Exchange)
  BY DEF IInv, TypeOK
<1>2. \A i \in DOMAIN wire : wire[i] \in Exchange
  BY <1>1
<1>3. \A i \in DOMAIN wire : wire[i].step \in Nat /\ wire[i].step <= Len(steps) + 1
  BY <1>2 DEF IInv, WireInv, Exchange
<1>4. \A i \in DOMAIN wire' : wire'[i].step <= Len(steps') /\ wire'[i].step <= Len(steps') + 1
  BY <1>3
<1> QED BY <1>4 DEF RequestInv, WireInv, InFlight

\* A request that leaves, the first time or to the next hop, is within the
\* policy, and with its credential it goes where its step has been only.
LEMMA SendingKeepsWire ==
  ASSUME IInv, NEW request \in Request, request.host \in Host,
         NEW vetted \in AddressClass, NEW reached \in AddressClass,
         Send(request, vetted, reached), AddressAllowed(vetted), Resolves(request.host, vetted),
         CheckGate(request.method, request.host),
         request.credential =>
           \A i \in DOMAIN wire : wire[i].step = Len(steps) + 1 => wire[i].host = request.host,
         current' = request
  PROVE  RequestInv' /\ WireInv' /\ CredentialsStayHome' /\ EveryHopWithinPolicy'
<1> DEFINE n == Len(wire) + 1
<1>1. /\ DOMAIN wire' = 1 .. n
      /\ DOMAIN wire = 1 .. Len(wire)
      /\ Len(wire) \in Nat
      /\ \A i \in DOMAIN wire : wire'[i] = wire[i]
      /\ wire'[n].step = Len(steps) + 1
      /\ wire'[n].method = request.method
      /\ wire'[n].host = request.host
      /\ wire'[n].credential = request.credential
      /\ wire'[n].vetted = vetted
      /\ wire'[n].reached = reached
  BY SendAppends DEF IInv
<1>2. pc' = "sent" /\ UNCHANGED <<opts, steps>>
  BY DEF Send, sequenceVars
<1>3. Len(steps) \in Nat
  BY DEF IInv, TypeOK
<1>4. DOMAIN wire' = DOMAIN wire \cup {n} /\ n \notin DOMAIN wire /\ n \in DOMAIN wire'
  BY <1>1
<1>5. RequestInv'
  <2>1. wire' # <<>>
    BY <1>4
  <2> QED BY <1>2, <2>1 DEF RequestInv, InFlight
<1>6. WireInv'
  <2>1. \A i \in DOMAIN wire' : wire'[i].step <= Len(steps') + 1
    BY <1>1, <1>2, <1>3, <1>4 DEF IInv, WireInv
  <2>2. current'.credential =>
          \A i \in DOMAIN wire' : wire'[i].step = Len(steps') + 1 => wire'[i].host = current'.host
    BY <1>1, <1>2, <1>4
  <2> QED BY <1>2, <2>1, <2>2 DEF WireInv
<1>7. CredentialsStayHome'
  <2> SUFFICES ASSUME NEW i \in DOMAIN wire', NEW j \in DOMAIN wire',
                      wire'[i].credential, wire'[j].step = wire'[i].step, j <= i
               PROVE  wire'[j].host = wire'[i].host
    BY DEF CredentialsStayHome
  <2>1. CASE i \in DOMAIN wire
    <3>1. j \in DOMAIN wire
      BY <1>1, <2>1
    <3> QED BY <1>1, <2>1, <3>1 DEF IInv, CredentialsStayHome
  <2>2. CASE i = n /\ j = n
    BY <2>2
  <2>3. CASE i = n /\ j \in DOMAIN wire
    BY <1>1, <2>3
  <2> QED BY <1>4, <2>1, <2>2, <2>3
<1>8. EveryHopWithinPolicy'
  <2>1. /\ wire'[n].method \in {"POST", "PUT"} =>
             opts.allowUnsafe /\ wire'[n].host \in opts.allowedHosts
        /\ Permitted(wire'[n].vetted)
    BY <1>1 DEF CheckGate, IsMutating, SafeMethods, AddressAllowed, Permitted
  <2>2. AddressOf[wire'[n].host] = {wire'[n].reached} => Permitted(wire'[n].reached)
    <3>1. vetted \in AddressOf[request.host]
      BY DEF Resolves
    <3> QED BY <1>1, <2>1, <3>1
  <2>3. \A i \in DOMAIN wire :
          /\ wire'[i].method \in {"POST", "PUT"} =>
               opts.allowUnsafe /\ wire'[i].host \in opts.allowedHosts
          /\ Permitted(wire'[i].vetted)
          /\ AddressOf[wire'[i].host] = {wire'[i].reached} => Permitted(wire'[i].reached)
    BY <1>1 DEF IInv, EveryHopWithinPolicy
  <2> QED BY <1>2, <1>4, <2>1, <2>2, <2>3 DEF EveryHopWithinPolicy, Permitted
<1> QED BY <1>5, <1>6, <1>7, <1>8

LEMMA WireStep ==
  ASSUME IInv, Proceed, ~Reject
  PROVE  RequestInv' /\ WireInv' /\ CredentialsStayHome' /\ EveryHopWithinPolicy'
<1> USE DEF IInv
<1>1. CASE Prepare
  <2>1. /\ pc = "next" /\ pc' = "vetting" /\ CheckGate(current'.method, current'.host)
        /\ UNCHANGED <<opts, steps, wire>>
    BY <1>1, PrepareType DEF Prepare, sequenceVars
  <2>2. RequestInv' /\ WireInv'
    BY <2>1 DEF RequestInv, WireInv, InFlight, CheckGate
  <2> QED BY <2>1, <2>2, QuietKeepsWire
<1>2. CASE DryRun
  <2>1. Withheld(TRUE)
    BY <1>2 DEF DryRun
  <2> QED BY <2>1, WithheldSteps, EndingKeepsWire, QuietKeepsWire
<1>3. CASE SendFirst
  <2>1. PICK vetted \in AddressClass, reached \in AddressClass :
          /\ Resolves(current.host, vetted)
          /\ AddressAllowed(vetted)
          /\ Send(current, vetted, reached)
    BY <1>3 DEF SendFirst
  <2>2. current \in Request /\ current.host \in Host
    BY <2>1 DEF TypeOK, Request, Resolves
  <2>3. pc = "vetting" /\ current' = current
    BY <1>3 DEF SendFirst, requestVars
  <2>4. CheckGate(current.method, current.host)
    BY <2>3 DEF RequestInv
  <2>5. \A i \in DOMAIN wire : wire[i].step # Len(steps) + 1
    <3>1. wire \in Seq(Exchange) /\ Len(steps) \in Nat
      BY DEF TypeOK
    <3>2. \A i \in DOMAIN wire : wire[i] \in Exchange
      BY <3>1
    <3>3. \A i \in DOMAIN wire : wire[i].step \in Nat /\ wire[i].step <= Len(steps)
      BY <2>3, <3>2 DEF WireInv, Exchange
    <3> QED BY <3>1, <3>3
  <2> QED BY <2>1, <2>2, <2>3, <2>4, <2>5, SendingKeepsWire
<1>4. CASE RefuseFirst
  <2>1. Withheld(FALSE)
    BY <1>4 DEF RefuseFirst
  <2> QED BY <2>1, WithheldSteps, EndingKeepsWire, QuietKeepsWire
<1>5. CASE SendNext
  <2>1. PICK vetted \in AddressClass, reached \in AddressClass :
          /\ Resolves(res.location, vetted)
          /\ AddressAllowed(vetted)
          /\ Send(RedirectTransition, vetted, reached)
    BY <1>5 DEF SendNext
  <2>2. current \in Request /\ res.location \in Host
    BY <2>1 DEF TypeOK, Request, Resolves
  <2>3. /\ RedirectTransition \in Request
        /\ RedirectTransition.host = res.location
        /\ RedirectTransition.credential => res.location = current.host /\ current.credential
    BY <2>2, TransitionType
  <2>4. /\ pc = "following" /\ current' = RedirectTransition
        /\ CheckGate(RedirectTransition.method, RedirectTransition.host)
    BY <1>5 DEF SendNext
  <2>5. RedirectTransition.credential =>
          \A i \in DOMAIN wire : wire[i].step = Len(steps) + 1 =>
            wire[i].host = RedirectTransition.host
    BY <2>3, <2>4 DEF WireInv, InFlight
  <2> HIDE DEF IInv
  <2> QED BY <2>1, <2>2, <2>3, <2>4, <2>5, SendingKeepsWire
<1>6. CASE RefuseNext
  <2>1. Withheld(FALSE)
    BY <1>6 DEF RefuseNext
  <2> QED BY <2>1, WithheldSteps, EndingKeepsWire, QuietKeepsWire
<1>7. CASE DryRunNext
  <2>1. Withheld(TRUE)
    BY <1>7 DEF DryRunNext
  <2> QED BY <2>1, WithheldSteps, EndingKeepsWire, QuietKeepsWire
<1>8. CASE Answer
  <2>1. /\ DOMAIN wire' = DOMAIN wire /\ wire' # <<>>
        /\ \A i \in DOMAIN wire : /\ wire'[i].step = wire[i].step
                                  /\ wire'[i].method = wire[i].method
                                  /\ wire'[i].host = wire[i].host
                                  /\ wire'[i].credential = wire[i].credential
                                  /\ wire'[i].vetted = wire[i].vetted
                                  /\ wire'[i].reached = wire[i].reached
    BY <1>8, AnswerKeeps
  <2>2. pc = "sent" /\ pc' = "answered" /\ UNCHANGED <<opts, steps, current>>
    BY <1>8 DEF Answer, sequenceVars
  <2>3. RequestInv' /\ WireInv'
    BY <2>1, <2>2 DEF RequestInv, WireInv, InFlight
  <2>4. CredentialsStayHome'
    BY <2>1 DEF CredentialsStayHome
  <2>5. EveryHopWithinPolicy'
    BY <2>1, <2>2 DEF EveryHopWithinPolicy, Permitted
  <2> QED BY <2>3, <2>4, <2>5
<1>9. CASE RecordHop
  <2>1. /\ pc = "answered" /\ res.location # NoLocation
        /\ pc' = IF res.location = NoHost THEN "final" ELSE "following"
        /\ UNCHANGED <<opts, steps, current, res, wire>>
    BY <1>9 DEF RecordHop, Follows, sequenceVars
  <2>2. pc' = "following" => res'.location \in Host
    BY <2>1 DEF TypeOK
  <2>3. RequestInv' /\ WireInv'
    BY <2>1, <2>2 DEF RequestInv, WireInv, InFlight
  <2> QED BY <2>1, <2>3, QuietKeepsWire
<1>10. CASE Finish
  BY <1>10, FinishSteps, EndingKeepsWire, QuietKeepsWire
<1>11. CASE Complete
  <2>1. pc = "next" /\ pc' = "done" /\ UNCHANGED <<opts, steps, current, res, wire>>
    BY <1>11 DEF Complete, sequenceVars, requestVars
  <2>2. RequestInv' /\ WireInv'
    BY <2>1 DEF RequestInv, WireInv, InFlight
  <2> QED BY <2>1, <2>2, QuietKeepsWire
<1>12. CASE ProduceHar
  <2>1. pc = "done" /\ UNCHANGED <<opts, steps, current, res, wire, pc>>
    BY <1>12 DEF ProduceHar, sequenceVars, requestVars
  <2>2. RequestInv' /\ WireInv'
    BY <2>1 DEF RequestInv, WireInv, InFlight
  <2> QED BY <2>1, <2>2, QuietKeepsWire
<1> QED
  BY <1>1, <1>2, <1>3, <1>4, <1>5, <1>6, <1>7, <1>8, <1>9, <1>10, <1>11, <1>12
     DEF Proceed, PrepareFails, LookupFails, RequestFails, ReadTwice

-----------------------------------------------------------------------------

LEMMA InitIInv == Init => IInv
<1> SUFFICES ASSUME Init
             PROVE  IInv
  OBVIOUS
<1>1. PICK run \in Run : names = run.names /\ opts = run.opts /\ scope = run.vars
  BY DEF Init
<1>2. names \in Seq(STRING) /\ opts \in RunOptions /\ scope \in Scope
  BY <1>1, ApiRunnerAssumption
<1>3. captured \in Scope /\ local \in Scope
  BY <1>2 DEF Init, Scope
<1>4. /\ current \in [method : Method, host : Host \cup {NoHost}, credential : BOOLEAN, body : Body]
      /\ res \in [status : Nat, location : Host \cup {NoHost, NoLocation}]
  BY DEF Init, NoRequest, NoAnswer, Method, Body
<1>5. steps \in Seq(Result) /\ hops \in Seq(Hop) /\ wire \in Seq(Exchange)
  BY DEF Init
<1>6. redirects \in Seq([status : Nat, location : Host \cup {NoHost, NoLocation}])
  BY DEF Init
<1>7. TypeOK
  BY <1>2, <1>3, <1>4, <1>5, <1>6 DEF Init, TypeOK
<1>8. DOMAIN wire = {} /\ pc = "next"
  BY DEF Init
<1>9. RequestInv /\ WireInv /\ CredentialsStayHome /\ EveryHopWithinPolicy
  BY <1>8 DEF RequestInv, WireInv, InFlight, CredentialsStayHome, EveryHopWithinPolicy, Permitted
<1> QED BY <1>7, <1>9 DEF IInv

LEMMA NextIInv == IInv /\ [Next]_vars => IInv'
<1> SUFFICES ASSUME IInv, [Next]_vars
             PROVE  IInv'
  OBVIOUS
<1>1. CASE Reject
  BY <1>1, RejectPreserves
<1>2. CASE Proceed /\ ~Reject
  BY <1>2, TypeStep, WireStep DEF IInv
<1>3. CASE UNCHANGED vars
  <2>1. UNCHANGED <<names, opts, steps, scope, captured, local, current, res, redirects, hops,
                    truncated, outcome, pc, wire>>
    BY <1>3 DEF vars, sequenceVars, requestVars, captureVars
  <2>2. TypeOK'
    BY <2>1 DEF IInv, TypeOK
  <2>3. RequestInv' /\ WireInv' /\ CredentialsStayHome'
    BY <2>1 DEF IInv, RequestInv, WireInv, InFlight, CheckGate, CredentialsStayHome
  <2>4. EveryHopWithinPolicy'
    BY <2>1 DEF IInv, EveryHopWithinPolicy, Permitted
  <2> QED BY <2>2, <2>3, <2>4 DEF IInv
<1> QED BY <1>1, <1>2, <1>3 DEF Next, BodyFails

THEOREM Inductive == Spec => []IInv
BY InitIInv, NextIInv, PTL DEF Spec

\* Every variable keeps its type, and whatever is recorded or sent has a host.
THEOREM TypeCorrect == Spec => []TypeOK
BY Inductive, PTL DEF IInv

\* A credential is not carried beyond the host it was sent to first.
THEOREM CredentialSafety == Spec => []CredentialsStayHome
BY Inductive, PTL DEF IInv

\* What leaves is within the policy at every hop, for any network: by its method
\* and host, and by the address that was vetted (checkGate, assertSsrfAllowed).
THEOREM PolicyAtEveryHop == Spec => []EveryHopWithinPolicy
BY Inductive, PTL DEF IInv

-----------------------------------------------------------------------------
(* What the results and the archive say of the traffic, for every          *)
(* collection, every run and every network: the invariant is strengthened  *)
(* by how far the records are behind the wire at each point of the loop.   *)

Shown(exchange) ==
  [method |-> exchange.method, host |-> exchange.host, status |-> exchange.status,
   postData |-> exchange.postData]

\* The exchanges of the request under way are the last ones, one for each
\* redirect it followed and one more, and the very last is the current hop.
RoundInv ==
  /\ pc = "vetting" => redirects = <<>>
  /\ pc \in InFlight =>
       /\ Len(redirects) < Len(wire)
       /\ Len(redirects) <= opts.maxRedirects
       /\ \A i \in DOMAIN wire :
            wire[i].step = Len(steps) + 1 <=> Len(wire) - Len(redirects) <= i
       /\ wire[Len(wire)].method = current.method
       /\ wire[Len(wire)].host = current.host
       /\ wire[Len(wire)].postData = (current.body = "text")
  /\ pc \in {"answered", "following", "final"} => wire[Len(wire)].status = res.status
  /\ pc = "following" => Len(redirects) < opts.maxRedirects
  /\ pc = "final" => res.status \in RedirectCodes

Pending == {"sent", "answered"}

\* Until a request is withheld or cut short, the archive holds what is on the
\* wire, but for the exchange that is under way.
Faithful ==
  /\ Len(wire) = IF pc \in Pending THEN Len(hops) + 1 ELSE Len(hops)
  /\ \A i \in DOMAIN hops : hops[i] = Shown(wire[i])

ArchiveInv ==
  /\ ~Unsent /\ ~truncated /\ pc # "rejected" => Faithful
  /\ \A i \in DOMAIN steps : steps[i].sent /\ steps[i].status \in RedirectCodes => truncated
  /\ outcome = "stored" => pc = "done" /\ ~Unsent /\ ~truncated

Traffic == RoundInv /\ ArchiveInv /\ ResultsMatchTheWire

TInv == IInv /\ Traffic

-----------------------------------------------------------------------------
(* Results. *)

\* Results say the same of a wire that is left alone.
LEMMA SameWire ==
  ASSUME ResultsMatchTheWire, UNCHANGED <<steps, opts, wire>>
  PROVE  ResultsMatchTheWire'
BY DEF ResultsMatchTheWire

\* The results and exchanges that lengths and indices range over.
LEMMA Shapes ==
  ASSUME TypeOK
  PROVE  /\ Len(steps) \in Nat /\ DOMAIN steps = 1 .. Len(steps)
         /\ Len(wire) \in Nat /\ DOMAIN wire = 1 .. Len(wire)
         /\ Len(hops) \in Nat /\ DOMAIN hops = 1 .. Len(hops)
         /\ Len(redirects) \in Nat
         /\ opts.maxRedirects \in Nat
         /\ \A i \in DOMAIN wire : wire[i].step \in Nat
         /\ \A i \in DOMAIN steps : steps[i].sent \in BOOLEAN
<1>1. \A i \in DOMAIN wire : wire[i] \in Exchange
  BY DEF TypeOK
<1>2. \A i \in DOMAIN steps : steps[i] \in Result
  BY DEF TypeOK
<1>3. opts.maxRedirects \in Nat
  BY DEF TypeOK, RunOptions
<1> QED BY <1>1, <1>2, <1>3 DEF TypeOK, Exchange, Result

\* A result is added: those before it stay.
LEMMA ResultAdded ==
  ASSUME TypeOK, NEW result \in Result, steps' = Append(steps, result)
  PROVE  /\ DOMAIN steps' = DOMAIN steps \cup {Len(steps) + 1}
         /\ \A i \in DOMAIN steps : steps'[i] = steps[i] /\ i # Len(steps) + 1
         /\ steps'[Len(steps) + 1] = result
<1>1. steps \in Seq(Result) /\ Len(steps) \in Nat
  BY DEF TypeOK
<1>2. /\ Len(steps') = Len(steps) + 1
      /\ steps' \in Seq(Result)
      /\ \A i \in 1 .. Len(steps) : steps'[i] = steps[i]
      /\ steps'[Len(steps) + 1] = result
  BY <1>1, AppendProperties
<1>3. DOMAIN steps = 1 .. Len(steps) /\ DOMAIN steps' = 1 .. Len(steps) + 1
  BY <1>1, <1>2
<1> QED BY <1>1, <1>2, <1>3

\* The results of earlier requests speak of earlier exchanges, and are as true
\* of a wire on which only those of the request under way have changed.
LEMMA EarlierResults ==
  ASSUME TInv, opts' = opts,
         DOMAIN wire \subseteq DOMAIN wire',
         \A i \in DOMAIN wire' : \/ i \in DOMAIN wire /\ wire'[i].step = wire[i].step
                                 \/ wire'[i].step = Len(steps) + 1,
         \A i \in DOMAIN wire : wire[i].step = Len(steps) + 1 \/ wire'[i] = wire[i],
         \A i \in DOMAIN wire : wire'[i].step = wire[i].step,
         NEW i \in DOMAIN steps, steps[i].sent
  PROVE  LET sentFor == {j \in DOMAIN wire' : wire'[j].step = i}
         IN  /\ steps[i].redirects <= opts'.maxRedirects
             /\ \E first \in sentFor :
                  /\ sentFor = first .. first + steps[i].redirects
                  /\ wire'[first + steps[i].redirects].status = steps[i].status
<1> DEFINE before == {j \in DOMAIN wire : wire[j].step = i}
           after == {j \in DOMAIN wire' : wire'[j].step = i}
<1>1. i # Len(steps) + 1
  BY Shapes DEF TInv, IInv
<1>2. after = before
  BY <1>1
<1>3. /\ steps[i].redirects <= opts.maxRedirects
      /\ \E first \in before :
           /\ before = first .. first + steps[i].redirects
           /\ wire[first + steps[i].redirects].status = steps[i].status
  BY DEF TInv, Traffic, ResultsMatchTheWire
<1>4. PICK first \in before :
        /\ before = first .. first + steps[i].redirects
        /\ wire[first + steps[i].redirects].status = steps[i].status
  BY <1>3
<1>5. steps[i].redirects \in Nat /\ first \in Nat
  <2>1. steps[i] \in Result
    BY DEF TInv, IInv, TypeOK
  <2> QED BY <2>1, Shapes DEF Result, TInv, IInv
<1>6. first + steps[i].redirects \in before
  BY <1>4, <1>5
<1>7. wire'[first + steps[i].redirects] = wire[first + steps[i].redirects]
  BY <1>1, <1>6
<1> QED BY <1>2, <1>3, <1>4, <1>7

-----------------------------------------------------------------------------
(* Requests that end without a response. *)

LEMMA WithheldTraffic ==
  ASSUME TInv, NEW dryRun \in BOOLEAN, Withheld(dryRun), pc # "done"
  PROVE  Traffic'
<1> DEFINE result == [sent |-> FALSE, dryRun |-> dryRun, status |-> 0,
                      redirects |-> 0, passed |-> FALSE]
<1> USE DEF TInv, IInv, Traffic
<1>1. /\ result \in Result /\ ~ result.sent
      /\ steps' = Append(steps, result)
      /\ pc' = "next"
      /\ UNCHANGED <<opts, hops, truncated, outcome, wire>>
  BY DEF Result, Withheld, captureVars
<1> HIDE DEF result
<1>2. /\ DOMAIN steps' = DOMAIN steps \cup {Len(steps) + 1}
      /\ \A i \in DOMAIN steps : steps'[i] = steps[i]
      /\ ~ steps'[Len(steps) + 1].sent
  BY <1>1, ResultAdded
<1>3. RoundInv'
  BY <1>1 DEF RoundInv, InFlight
<1>4. ArchiveInv'
  <2>1. Unsent'
    BY <1>2 DEF Unsent
  <2>2. \A i \in DOMAIN steps' : steps'[i].sent /\ steps'[i].status \in RedirectCodes => truncated'
    BY <1>1, <1>2 DEF ArchiveInv
  <2>3. outcome' # "stored"
    BY <1>1 DEF ArchiveInv
  <2> QED BY <2>1, <2>2, <2>3 DEF ArchiveInv
<1>5. ResultsMatchTheWire'
  <2> SUFFICES ASSUME NEW i \in DOMAIN steps', steps'[i].sent
               PROVE  LET sentFor == {j \in DOMAIN wire' : wire'[j].step = i}
                      IN  /\ steps'[i].redirects <= opts'.maxRedirects
                          /\ \E first \in sentFor :
                               /\ sentFor = first .. first + steps'[i].redirects
                               /\ wire'[first + steps'[i].redirects].status = steps'[i].status
    BY DEF ResultsMatchTheWire
  <2>1. i \in DOMAIN steps /\ steps'[i] = steps[i]
    BY <1>2
  <2> QED BY <1>1, <2>1 DEF ResultsMatchTheWire
<1> QED BY <1>3, <1>4, <1>5

-----------------------------------------------------------------------------
(* Requests that leave. *)

LEMMA SendShows ==
  ASSUME TypeOK, NEW request \in Request, request.host \in Host,
         NEW vetted \in AddressClass, NEW reached \in AddressClass, Send(request, vetted, reached)
  PROVE  wire'[Len(wire) + 1].postData = (request.body = "text")
<1> DEFINE new == [step |-> Len(steps) + 1, method |-> request.method,
                   host |-> request.host, credential |-> request.credential,
                   postData |-> request.body = "text", vetted |-> vetted, reached |-> reached, status |-> 0]
<1>1. wire \in Seq(Exchange) /\ Len(steps) + 1 \in Nat
  BY DEF TypeOK
<1>2. new \in Exchange /\ new.postData = (request.body = "text")
  BY <1>1 DEF Exchange, Request
<1>3. wire' = Append(wire, new)
  BY DEF Send
<1> HIDE DEF new
<1>4. wire'[Len(wire) + 1] = new
  BY <1>1, <1>2, <1>3, AppendProperties
<1> QED BY <1>2, <1>4

LEMMA SendTraffic ==
  ASSUME TInv, pc \in {"vetting", "following"},
         NEW request \in Request, request.host \in Host,
         NEW vetted \in AddressClass, NEW reached \in AddressClass, Send(request, vetted, reached), current' = request,
         Len(redirects') \in Nat, Len(redirects') <= Len(wire),
         Len(redirects') <= opts.maxRedirects,
         \A i \in DOMAIN wire :
           wire[i].step = Len(steps) + 1 <=> Len(wire) + 1 - Len(redirects') <= i
  PROVE  Traffic'
<1> DEFINE n == Len(wire) + 1
<1> USE DEF TInv, IInv, Traffic
<1>1. /\ DOMAIN wire' = 1 .. n
      /\ wire' \in Seq(Exchange)
      /\ \A i \in DOMAIN wire : wire'[i] = wire[i]
      /\ wire'[n].step = Len(steps) + 1
      /\ wire'[n].method = request.method
      /\ wire'[n].host = request.host
      /\ wire'[n].postData = (request.body = "text")
  BY SendAppends, SendShows
<1>2. pc' = "sent" /\ UNCHANGED <<opts, steps, hops, truncated, outcome>>
  BY DEF Send, sequenceVars, captureVars
<1>3. /\ Len(steps) \in Nat
      /\ Len(wire) \in Nat /\ DOMAIN wire = 1 .. Len(wire)
      /\ Len(hops) \in Nat /\ DOMAIN hops = 1 .. Len(hops)
  BY Shapes
<1>4. Len(wire') = n
  BY <1>1, <1>3
<1>5. RoundInv'
  <2>1. \A i \in DOMAIN wire' :
          wire'[i].step = Len(steps') + 1 <=> Len(wire') - Len(redirects') <= i
    <3> SUFFICES ASSUME NEW i \in 1 .. n
                 PROVE  wire'[i].step = Len(steps) + 1 <=> n - Len(redirects') <= i
      BY <1>1, <1>2, <1>4
    <3>1. CASE i = n
      BY <1>1, <1>3, <3>1
    <3>2. CASE i # n
      <4>1. i \in DOMAIN wire
        BY <1>3, <3>2
      <4> QED BY <1>1, <4>1
    <3> QED BY <3>1, <3>2
  <2>2. Len(redirects') < Len(wire')
    BY <1>3, <1>4
  <2> QED BY <1>1, <1>2, <1>4, <2>1, <2>2 DEF RoundInv
<1>6. ArchiveInv'
  <2>1. ASSUME ~ Unsent, ~ truncated
        PROVE  Faithful'
    <3>1. Len(wire) = Len(hops) /\ \A i \in DOMAIN hops : hops[i] = Shown(wire[i])
      BY <2>1 DEF ArchiveInv, Faithful, Pending
    <3>2. \A i \in DOMAIN hops : hops[i] = Shown(wire'[i])
      BY <1>1, <1>3, <3>1
    <3> QED BY <1>2, <1>4, <3>1, <3>2 DEF Faithful, Pending, Shown
  <2>2. outcome # "stored"
    BY DEF ArchiveInv
  <2> QED BY <1>2, <2>1, <2>2 DEF ArchiveInv, Unsent
<1>7. ResultsMatchTheWire'
  <2> SUFFICES ASSUME NEW i \in DOMAIN steps', steps'[i].sent
               PROVE  LET sentFor == {j \in DOMAIN wire' : wire'[j].step = i}
                      IN  /\ steps'[i].redirects <= opts'.maxRedirects
                          /\ \E first \in sentFor :
                               /\ sentFor = first .. first + steps'[i].redirects
                               /\ wire'[first + steps'[i].redirects].status = steps'[i].status
    BY DEF ResultsMatchTheWire
  <2>1. i \in DOMAIN steps /\ steps[i].sent /\ steps' = steps /\ opts' = opts
    BY <1>2
  <2>2. DOMAIN wire' = DOMAIN wire \cup {n} /\ n \notin DOMAIN wire
    BY <1>1, <1>3
  <2>3. \A j \in DOMAIN wire' : \/ j \in DOMAIN wire /\ wire'[j].step = wire[j].step
                                \/ wire'[j].step = Len(steps) + 1
    BY <1>1, <2>2
  <2> QED BY <1>1, <2>1, <2>2, <2>3, EarlierResults
<1> QED BY <1>5, <1>6, <1>7

-----------------------------------------------------------------------------
(* Answers. *)

LEMMA AnswerShows ==
  ASSUME TypeOK, RequestInv, Answer
  PROVE  /\ Len(wire') = Len(wire)
         /\ wire'[Len(wire)].status = res'.status
         /\ wire'[Len(wire)].postData = wire[Len(wire)].postData
         /\ \A i \in DOMAIN wire : i # Len(wire) => wire'[i] = wire[i]
<1>1. PICK status \in Status, location \in Host \cup {NoHost, NoLocation} :
        /\ res' = [status |-> status, location |-> location]
        /\ wire' = [wire EXCEPT ![Len(wire)] = [@ EXCEPT !.status = status]]
  BY DEF Answer
<1>2. wire \in Seq(Exchange) /\ wire # <<>> /\ status \in Nat
  BY ApiRunnerAssumption DEF TypeOK, RequestInv, Answer
<1>3. /\ Len(wire) \in 1 .. Len(wire)
      /\ DOMAIN wire = 1 .. Len(wire)
      /\ wire[Len(wire)] \in Exchange
  BY <1>2
<1> DEFINE last == [wire[Len(wire)] EXCEPT !.status = status]
<1>4. /\ last \in Exchange
      /\ last.status = status
      /\ last.postData = wire[Len(wire)].postData
  BY <1>2, <1>3 DEF Exchange
<1>5. wire' = [wire EXCEPT ![Len(wire)] = last]
  BY <1>1
<1>6. res'.status = status
  BY <1>1
<1> HIDE DEF last
<1>7. /\ Len(wire') = Len(wire)
      /\ \A i \in 1 .. Len(wire) : wire'[i] = IF i = Len(wire) THEN last ELSE wire[i]
  BY <1>2, <1>3, <1>4, <1>5, ExceptSeq
<1> QED BY <1>3, <1>4, <1>6, <1>7

LEMMA AnswerTraffic ==
  ASSUME TInv, Answer
  PROVE  Traffic'
<1> USE DEF TInv, IInv, Traffic
<1>1. /\ pc = "sent" /\ pc' = "answered"
      /\ UNCHANGED <<opts, steps, current, redirects, hops, truncated, outcome>>
  BY DEF Answer, sequenceVars, captureVars
<1>2. /\ DOMAIN wire' = DOMAIN wire
      /\ \A i \in DOMAIN wire : /\ wire'[i].step = wire[i].step
                                /\ wire'[i].method = wire[i].method
                                /\ wire'[i].host = wire[i].host
  BY AnswerKeeps
<1>3. /\ Len(wire') = Len(wire)
      /\ wire'[Len(wire)].status = res'.status
      /\ wire'[Len(wire)].postData = wire[Len(wire)].postData
      /\ \A i \in DOMAIN wire : i # Len(wire) => wire'[i] = wire[i]
  BY AnswerShows
<1>4. /\ Len(wire) \in Nat /\ DOMAIN wire = 1 .. Len(wire)
      /\ Len(hops) \in Nat /\ DOMAIN hops = 1 .. Len(hops)
      /\ Len(redirects) \in Nat
  BY Shapes
<1>5. Len(redirects) < Len(wire) /\ Len(wire) \in DOMAIN wire
  BY <1>1, <1>4 DEF RoundInv, InFlight
<1>6. wire[Len(wire)].step = Len(steps) + 1
  BY <1>1, <1>4, <1>5 DEF RoundInv, InFlight
<1>7. RoundInv'
  <2>1. \A i \in DOMAIN wire' :
          wire'[i].step = Len(steps') + 1 <=> Len(wire') - Len(redirects') <= i
    BY <1>1, <1>2, <1>3 DEF RoundInv, InFlight
  <2>2. /\ Len(redirects') < Len(wire')
        /\ Len(redirects') <= opts'.maxRedirects
        /\ wire'[Len(wire')].method = current'.method
        /\ wire'[Len(wire')].host = current'.host
        /\ wire'[Len(wire')].postData = (current'.body = "text")
        /\ wire'[Len(wire')].status = res'.status
    BY <1>1, <1>2, <1>3, <1>5 DEF RoundInv, InFlight
  <2> QED BY <1>1, <2>1, <2>2 DEF RoundInv
<1>8. ArchiveInv'
  <2>1. ASSUME ~ Unsent, ~ truncated
        PROVE  Faithful'
    <3>1. Len(wire) = Len(hops) + 1 /\ \A i \in DOMAIN hops : hops[i] = Shown(wire[i])
      BY <1>1, <2>1 DEF ArchiveInv, Faithful, Pending
    <3>2. \A i \in DOMAIN hops : wire'[i] = wire[i]
      BY <1>3, <1>4, <3>1
    <3> QED BY <1>1, <1>3, <3>1, <3>2 DEF Faithful, Pending, Shown
  <2>2. outcome # "stored"
    BY <1>1 DEF ArchiveInv
  <2> QED BY <1>1, <2>1, <2>2 DEF ArchiveInv, Unsent
<1>9. ResultsMatchTheWire'
  <2> SUFFICES ASSUME NEW i \in DOMAIN steps', steps'[i].sent
               PROVE  LET sentFor == {j \in DOMAIN wire' : wire'[j].step = i}
                      IN  /\ steps'[i].redirects <= opts'.maxRedirects
                          /\ \E first \in sentFor :
                               /\ sentFor = first .. first + steps'[i].redirects
                               /\ wire'[first + steps'[i].redirects].status = steps'[i].status
    BY DEF ResultsMatchTheWire
  <2>1. i \in DOMAIN steps /\ steps[i].sent /\ steps' = steps /\ opts' = opts
    BY <1>1
  <2>2. \A j \in DOMAIN wire : wire[j].step = Len(steps) + 1 \/ wire'[j] = wire[j]
    BY <1>3, <1>6
  <2> QED BY <1>2, <2>1, <2>2, EarlierResults
<1> QED BY <1>7, <1>8, <1>9

-----------------------------------------------------------------------------
(* Records and responses. *)

\* The record of the current hop is the next that the archive lacks.
LEMMA HopAppends ==
  ASSUME TInv, pc = "answered", hops' = Append(hops, HopRecord), UNCHANGED wire,
         Faithful
  PROVE  Len(wire') = Len(hops') /\ \A i \in DOMAIN hops' : hops'[i] = Shown(wire'[i])
<1> USE DEF TInv, IInv, Traffic
<1>1. /\ Len(wire) \in Nat /\ DOMAIN wire = 1 .. Len(wire)
      /\ Len(hops) \in Nat /\ DOMAIN hops = 1 .. Len(hops)
  BY Shapes
<1>2. Len(wire) = Len(hops) + 1 /\ \A i \in DOMAIN hops : hops[i] = Shown(wire[i])
  BY DEF Faithful, Pending
<1>3. HopRecord = Shown(wire[Len(wire)])
  BY DEF HopRecord, Shown, RoundInv, InFlight
<1>4. hops \in Seq(Hop) /\ HopRecord \in Hop
  BY RecordType DEF TypeOK, RequestInv, InFlight
<1>5. /\ hops' \in Seq(Hop)
      /\ Len(hops') = Len(hops) + 1
      /\ \A i \in 1 .. Len(hops) : hops'[i] = hops[i]
      /\ hops'[Len(hops) + 1] = HopRecord
  BY <1>4, AppendProperties
<1>6. DOMAIN hops' = 1 .. Len(hops) + 1
  BY <1>5
<1>7. \A i \in DOMAIN hops' : i \in DOMAIN hops \/ i = Len(wire)
  BY <1>1, <1>2, <1>6
<1> QED BY <1>1, <1>2, <1>3, <1>5, <1>7

LEMMA RecordTraffic ==
  ASSUME TInv, RecordHop
  PROVE  Traffic'
<1> USE DEF TInv, IInv, Traffic
<1>1. /\ pc = "answered" /\ Follows /\ hops' = Append(hops, HopRecord)
      /\ pc' \in {"final", "following"}
      /\ UNCHANGED <<opts, steps, current, res, redirects, truncated, outcome, wire>>
  BY DEF RecordHop, sequenceVars
<1>2. RoundInv'
  BY <1>1 DEF RoundInv, InFlight, Follows
<1>3. ArchiveInv'
  <2>1. ASSUME ~ Unsent, ~ truncated
        PROVE  Faithful'
    <3>1. Faithful
      BY <1>1, <2>1 DEF ArchiveInv
    <3>2. Len(wire') = Len(hops') /\ \A i \in DOMAIN hops' : hops'[i] = Shown(wire'[i])
      BY <1>1, <3>1, HopAppends
    <3> QED BY <1>1, <3>2 DEF Faithful, Pending
  <2>2. outcome # "stored"
    BY <1>1 DEF ArchiveInv
  <2> QED BY <1>1, <2>1, <2>2 DEF ArchiveInv, Unsent
<1>4. ResultsMatchTheWire'
  BY <1>1, SameWire
<1> QED BY <1>2, <1>3, <1>4

LEMMA FinishTraffic ==
  ASSUME TInv, Finish
  PROVE  Traffic'
<1> USE DEF TInv, IInv, Traffic
<1>1. PICK passed \in BOOLEAN :
        steps' = Append(steps, [sent |-> TRUE, dryRun |-> FALSE, status |-> res.status,
                                redirects |-> Len(redirects), passed |-> passed])
  BY DEF Finish
<1>2. /\ (pc = "answered" /\ Terminal) \/ pc = "final"
      /\ truncated' = (truncated \/ res.status \in RedirectCodes)
      /\ hops' = Append(hops, HopRecord)
      /\ pc' \in {"next", "done"}
      /\ UNCHANGED <<opts, current, res, redirects, outcome, wire>>
  BY FinishSteps DEF Finish
<1> DEFINE result == [sent |-> TRUE, dryRun |-> FALSE, status |-> res.status,
                      redirects |-> Len(redirects), passed |-> passed]
<1>3. /\ Len(steps) \in Nat /\ DOMAIN steps = 1 .. Len(steps)
      /\ Len(wire) \in Nat /\ DOMAIN wire = 1 .. Len(wire)
      /\ Len(redirects) \in Nat
  BY Shapes
<1>4. /\ result \in Result
      /\ result.sent
      /\ result.status = res.status
      /\ result.redirects = Len(redirects)
  BY <1>3 DEF Result, TypeOK
<1>5. steps' = Append(steps, result)
  BY <1>1
<1> HIDE DEF result
<1>6. /\ DOMAIN steps' = DOMAIN steps \cup {Len(steps) + 1}
      /\ \A i \in DOMAIN steps : steps'[i] = steps[i] /\ i # Len(steps) + 1
      /\ steps'[Len(steps) + 1] = result
  BY <1>4, <1>5, ResultAdded
<1>7. pc \in InFlight /\ pc \in {"answered", "following", "final"} /\ pc # "done"
  BY <1>2 DEF InFlight
<1>8. RoundInv'
  BY <1>2 DEF RoundInv, InFlight
<1>9. ArchiveInv'
  <2>1. ASSUME ~ Unsent', ~ truncated'
        PROVE  Faithful'
    <3>1. ~ Unsent /\ ~ truncated /\ pc # "final"
      BY <1>2, <1>6, <2>1 DEF Unsent, RoundInv
    <3>2. pc = "answered" /\ Faithful
      BY <1>2, <3>1 DEF ArchiveInv
    <3>3. Len(wire') = Len(hops') /\ \A i \in DOMAIN hops' : hops'[i] = Shown(wire'[i])
      BY <1>2, <3>2, HopAppends
    <3> QED BY <1>2, <3>3 DEF Faithful, Pending
  <2>2. \A i \in DOMAIN steps' : steps'[i].sent /\ steps'[i].status \in RedirectCodes => truncated'
    BY <1>2, <1>4, <1>6 DEF ArchiveInv
  <2>3. outcome' # "stored"
    BY <1>2, <1>7 DEF ArchiveInv
  <2> QED BY <2>1, <2>2, <2>3 DEF ArchiveInv
<1>10. ResultsMatchTheWire'
  <2> SUFFICES ASSUME NEW i \in DOMAIN steps', steps'[i].sent
               PROVE  LET sentFor == {j \in DOMAIN wire : wire[j].step = i}
                      IN  /\ steps'[i].redirects <= opts.maxRedirects
                          /\ \E first \in sentFor :
                               /\ sentFor = first .. first + steps'[i].redirects
                               /\ wire[first + steps'[i].redirects].status = steps'[i].status
    BY <1>2 DEF ResultsMatchTheWire
  <2>1. CASE i \in DOMAIN steps
    BY <1>6, <2>1 DEF ResultsMatchTheWire
  <2>2. CASE i = Len(steps) + 1
    <3> DEFINE first == Len(wire) - Len(redirects)
               sentFor == {j \in DOMAIN wire : wire[j].step = i}
    <3>1. /\ Len(redirects) < Len(wire)
          /\ Len(redirects) <= opts.maxRedirects
          /\ \A j \in DOMAIN wire : wire[j].step = Len(steps) + 1 <=> first <= j
          /\ wire[Len(wire)].status = res.status
      BY <1>7 DEF RoundInv
    <3>2. sentFor = first .. Len(wire)
      BY <1>3, <2>2, <3>1
    <3>3. first \in sentFor /\ first + Len(redirects) = Len(wire)
      BY <1>3, <3>1, <3>2
    <3>4. steps'[i].redirects = Len(redirects) /\ steps'[i].status = res.status
      BY <1>4, <1>6, <2>2
    <3> HIDE DEF first, sentFor
    <3>5. /\ sentFor = first .. first + steps'[i].redirects
          /\ wire[first + steps'[i].redirects].status = steps'[i].status
          /\ steps'[i].redirects <= opts.maxRedirects
      BY <3>1, <3>2, <3>3, <3>4
    <3> USE DEF sentFor
    <3> QED BY <3>3, <3>5
  <2> QED BY <1>6, <2>1, <2>2
<1> QED BY <1>8, <1>9, <1>10

-----------------------------------------------------------------------------

\* Steps that neither send nor record, outside of a request.
LEMMA QuietTraffic ==
  ASSUME TInv, UNCHANGED <<opts, steps, hops, truncated, wire>>,
         pc \in {"next", "done"}, pc' \in {"next", "vetting", "done"},
         pc' = "vetting" => redirects' = <<>>,
         outcome' = "stored" => pc' = "done" /\ ~ Unsent /\ ~ truncated
  PROVE  Traffic'
<1> USE DEF TInv, IInv, Traffic
<1>1. RoundInv'
  BY DEF RoundInv, InFlight
<1>2. ArchiveInv'
  <2>1. ~ Unsent /\ ~ truncated => Faithful'
    BY DEF ArchiveInv, Faithful, Pending, Shown
  <2> QED BY <2>1 DEF ArchiveInv, Unsent
<1>3. ResultsMatchTheWire'
  BY SameWire
<1> QED BY <1>1, <1>2, <1>3

\* A run that is rejected archives nothing.
LEMMA RejectTraffic ==
  ASSUME TInv, Reject
  PROVE  Traffic'
<1> USE DEF TInv, IInv, Traffic
<1>1. /\ pc' = "rejected" /\ outcome' = "thrown"
      /\ UNCHANGED <<opts, steps, hops, truncated, wire>>
  BY DEF Reject, sequenceVars, captureVars
<1>2. RoundInv'
  BY <1>1 DEF RoundInv, InFlight
<1>3. ArchiveInv'
  BY <1>1 DEF ArchiveInv
<1>4. ResultsMatchTheWire'
  BY <1>1, SameWire
<1> QED BY <1>2, <1>3, <1>4

LEMMA TrafficStep ==
  ASSUME TInv, Proceed, ~ Reject
  PROVE  Traffic'
<1> USE DEF TInv
<1>1. CASE Prepare
  <2>1. /\ pc = "next" /\ pc' = "vetting" /\ redirects' = <<>>
        /\ UNCHANGED <<opts, steps, hops, truncated, outcome, wire>>
    BY <1>1 DEF Prepare, PrepareRequest, sequenceVars, captureVars
  <2>2. outcome' # "stored"
    BY <2>1 DEF Traffic, ArchiveInv
  <2> QED BY <2>1, <2>2, QuietTraffic
<1>2. CASE DryRun
  BY <1>2, WithheldTraffic DEF DryRun, PrepareRequest
<1>3. CASE SendFirst
  <2>1. PICK vetted \in AddressClass, reached \in AddressClass :
          Resolves(current.host, vetted) /\ Send(current, vetted, reached)
    BY <1>3 DEF SendFirst
  <2>2. current \in Request /\ current.host \in Host
    BY <2>1 DEF IInv, TypeOK, Request, Resolves
  <2>3. pc = "vetting" /\ current' = current /\ redirects' = redirects
    BY <1>3 DEF SendFirst, requestVars
  <2>4. redirects' = <<>>
    BY <2>3 DEF Traffic, RoundInv
  <2>5. /\ Len(steps) \in Nat /\ Len(wire) \in Nat /\ DOMAIN wire = 1 .. Len(wire)
        /\ opts.maxRedirects \in Nat
        /\ \A i \in DOMAIN wire : wire[i].step \in Nat
    BY Shapes DEF IInv
  <2>6. \A i \in DOMAIN wire : wire[i].step <= Len(steps)
    BY <2>3 DEF IInv, WireInv
  <2>7. Len(redirects') = 0
    BY <2>4
  <2>8. \A i \in DOMAIN wire :
          wire[i].step = Len(steps) + 1 <=> Len(wire) + 1 - Len(redirects') <= i
    BY <2>5, <2>6, <2>7
  <2> QED BY <2>1, <2>2, <2>3, <2>5, <2>7, <2>8, SendTraffic
<1>4. CASE RefuseFirst
  BY <1>4, WithheldTraffic DEF RefuseFirst
<1>5. CASE SendNext
  <2>1. PICK vetted \in AddressClass, reached \in AddressClass :
          Resolves(res.location, vetted) /\ Send(RedirectTransition, vetted, reached)
    BY <1>5 DEF SendNext
  <2>2. current \in Request /\ res.location \in Host
    BY <2>1 DEF IInv, TypeOK, Request, Resolves
  <2>3. RedirectTransition \in Request /\ RedirectTransition.host \in Host
    BY <2>2, TransitionType
  <2>4. /\ pc = "following" /\ current' = RedirectTransition
        /\ redirects' = Append(redirects, res)
    BY <1>5 DEF SendNext
  <2>5. /\ Len(steps) \in Nat /\ Len(wire) \in Nat /\ Len(redirects) \in Nat
        /\ opts.maxRedirects \in Nat
    BY Shapes DEF IInv
  <2>6. Len(redirects') = Len(redirects) + 1
    BY <2>4, AppendProperties DEF IInv, TypeOK
  <2>7. /\ Len(redirects) < Len(wire)
        /\ Len(redirects) < opts.maxRedirects
        /\ \A i \in DOMAIN wire :
             wire[i].step = Len(steps) + 1 <=> Len(wire) - Len(redirects) <= i
    BY <2>4 DEF Traffic, RoundInv, InFlight
  <2>8. Len(wire) + 1 - Len(redirects') = Len(wire) - Len(redirects)
    BY <2>5, <2>6
  <2>9. Len(redirects') \in Nat /\ Len(redirects') <= Len(wire)
        /\ Len(redirects') <= opts.maxRedirects
    BY <2>5, <2>6, <2>7
  <2> HIDE DEF TInv
  <2> QED BY <2>1, <2>3, <2>4, <2>7, <2>8, <2>9, SendTraffic
<1>6. CASE RefuseNext
  BY <1>6, WithheldTraffic DEF RefuseNext
<1>7. CASE DryRunNext
  BY <1>7, WithheldTraffic DEF DryRunNext
<1>8. CASE Answer
  BY <1>8, AnswerTraffic
<1>9. CASE RecordHop
  BY <1>9, RecordTraffic
<1>10. CASE Finish
  BY <1>10, FinishTraffic
<1>11. CASE Complete
  <2>1. /\ pc = "next" /\ pc' = "done"
        /\ UNCHANGED <<opts, steps, hops, truncated, outcome, wire>>
    BY <1>11 DEF Complete, sequenceVars, captureVars
  <2>2. outcome' # "stored"
    BY <2>1 DEF Traffic, ArchiveInv
  <2> QED BY <2>1, <2>2, QuietTraffic
<1>12. CASE ProduceHar
  <2>1. /\ pc = "done" /\ pc' = "done"
        /\ outcome' = "stored" => ~ Unsent /\ ~ truncated
        /\ UNCHANGED <<opts, steps, hops, truncated, wire>>
    BY <1>12 DEF ProduceHar, sequenceVars, captureVars
  <2> QED BY <2>1, QuietTraffic
<1> QED
  BY <1>1, <1>2, <1>3, <1>4, <1>5, <1>6, <1>7, <1>8, <1>9, <1>10, <1>11, <1>12
     DEF Proceed, PrepareFails, LookupFails, RequestFails, ReadTwice

LEMMA InitTInv == Init => TInv
<1> SUFFICES ASSUME Init
             PROVE  TInv
  OBVIOUS
<1>1. /\ pc = "next" /\ wire = <<>> /\ hops = <<>> /\ steps = <<>> /\ ~ truncated
      /\ outcome = "none"
  BY DEF Init
<1>2. DOMAIN steps = {} /\ DOMAIN hops = {} /\ Len(wire) = 0 /\ Len(hops) = 0
  BY <1>1
<1>3. Traffic
  BY <1>1, <1>2 DEF Traffic, RoundInv, InFlight, ArchiveInv, Faithful, Pending, ResultsMatchTheWire
<1> QED BY <1>3, InitIInv DEF TInv

LEMMA NextTInv == TInv /\ [Next]_vars => TInv'
<1> SUFFICES ASSUME TInv, [Next]_vars
             PROVE  TInv'
  OBVIOUS
<1>1. IInv'
  BY NextIInv DEF TInv
<1>2. CASE Reject
  BY <1>1, <1>2, RejectTraffic DEF TInv
<1>3. CASE Proceed /\ ~ Reject
  BY <1>1, <1>3, TrafficStep DEF TInv
<1>4. CASE UNCHANGED vars
  <2>1. UNCHANGED <<opts, steps, wire, hops, truncated, outcome, pc, redirects, current, res>>
    BY <1>4 DEF vars, sequenceVars, requestVars, captureVars
  <2>2. RoundInv' /\ ArchiveInv'
    BY <2>1 DEF TInv, Traffic, RoundInv, ArchiveInv, Faithful, Shown, Unsent
  <2>3. ResultsMatchTheWire'
    BY <2>1, SameWire DEF TInv, Traffic
  <2> QED BY <1>1, <2>2, <2>3 DEF TInv, Traffic
<1> QED BY <1>2, <1>3, <1>4 DEF Next, BodyFails

\* The records keep up with the wire at every point of the loop.
THEOREM TrafficInductive == Spec => []TInv
BY InitTInv, NextTInv, PTL DEF Spec

\* Each result accounts for exactly what left for its request (runRequestImpl).
THEOREM ResultsAccount == Spec => []ResultsMatchTheWire
<1>1. TInv => ResultsMatchTheWire
  BY DEF TInv, Traffic
<1> QED BY <1>1, TrafficInductive, PTL

\* An archive that is stored is the traffic of the run, exchange by exchange,
\* and every request in it was followed to a response (runSequenceToHar).
THEOREM ArchiveFaithful == Spec => []ArchiveIsTheTraffic
<1>1. TInv => ArchiveIsTheTraffic
  <2> SUFFICES ASSUME TInv, outcome = "stored"
               PROVE  /\ hops = [i \in DOMAIN wire |->
                                   [method |-> wire[i].method, host |-> wire[i].host,
                                    status |-> wire[i].status, postData |-> wire[i].postData]]
                      /\ \A i \in DOMAIN steps :
                           \E j \in DOMAIN wire : wire[j].step = i /\ wire[j].status \notin RedirectCodes
    BY DEF ArchiveIsTheTraffic
  <2> USE DEF TInv, Traffic
  <2>1. pc = "done" /\ ~ Unsent /\ ~ truncated
    BY DEF ArchiveInv
  <2>2. Len(wire) = Len(hops) /\ \A i \in DOMAIN hops : hops[i] = Shown(wire[i])
    BY <2>1 DEF ArchiveInv, Faithful, Pending
  <2>3. hops \in Seq(Hop) /\ DOMAIN hops = DOMAIN wire
    BY <2>2, Shapes DEF IInv, TypeOK
  <2>4. hops = [i \in DOMAIN hops |-> hops[i]]
    BY <2>3
  <2>5. hops = [i \in DOMAIN wire |-> [method |-> wire[i].method, host |-> wire[i].host,
                                       status |-> wire[i].status, postData |-> wire[i].postData]]
    BY <2>2, <2>3, <2>4 DEF Shown
  <2>6. ASSUME NEW i \in DOMAIN steps
        PROVE  \E j \in DOMAIN wire : wire[j].step = i /\ wire[j].status \notin RedirectCodes
    <3>1. steps[i].sent
      BY <2>1, <2>6 DEF Unsent
    <3>2. steps[i].status \notin RedirectCodes
      BY <2>1, <2>6, <3>1 DEF ArchiveInv
    <3> DEFINE sentFor == {j \in DOMAIN wire : wire[j].step = i}
    <3>3. PICK first \in sentFor : /\ sentFor = first .. first + steps[i].redirects
                                   /\ wire[first + steps[i].redirects].status = steps[i].status
      BY <3>1 DEF ResultsMatchTheWire
    <3>4. steps[i] \in Result
      BY DEF IInv, TypeOK
    <3>5. steps[i].redirects \in Nat /\ first \in Nat
      BY <3>4, Shapes DEF Result, IInv
    <3>6. first + steps[i].redirects \in sentFor
      BY <3>3, <3>5
    <3> QED BY <3>2, <3>3, <3>6
  <2> QED BY <2>5, <2>6
<1> QED BY <1>1, TrafficInductive, PTL

=============================================================================
