----------------------------- MODULE LspSession -----------------------------
(***************************************************************************)
(* One LspClient and the language server at the other end of its           *)
(* connection (packages/lsp/src/client.ts): queries that wait out the      *)
(* indexing of the project, ask, and decide what the answer is worth, all  *)
(* against one operator deadline.                                          *)
(*                                                                         *)
(* What the server sends arrives in the order it was sent; between two     *)
(* messages the client's continuations run to their next await, so the     *)
(* reception of a message and the decision it triggers are one step.       *)
(*                                                                         *)
(* A server loads projects.  It asks the client for a work-done-progress   *)
(* token, begins it before it answers anything from the project it has     *)
(* meanwhile inferred, and ends it when the load is over.  It may hang.    *)
(***************************************************************************)
EXTENDS LspDocuments, Sequences, FiniteSets

CONSTANTS
  Doc,       \* documents
  Calls,     \* bound: calls of the client
  Loads,     \* bound: loads of a project, each with its progress token
  Timeout,   \* the operator's deadline
  MaxTime,   \* bound: the clock
  MaxWire,   \* bound: messages on their way to the client
  MaxEdits   \* bound: renames applied between queries

ASSUME SessionAssumption ==
  /\ Calls \in Nat /\ Loads \in Nat /\ Timeout \in Nat /\ MaxTime \in Nat /\ MaxEdits \in Nat
  /\ None \notin Nat /\ None \notin [text : Nat, nth : Nat]

VARIABLES
  docs,      \* the documents, at both ends
  texts,     \* disk: the text of each document, counted
  load,      \* server: before, asking, ready, active, after, of each token
  asked,     \* server: the requests it has to answer
  wire,      \* messages from the server, in order
  progress,  \* client: activeProgress
  pulls,     \* client: the server advertises diagnosticProvider
  query,     \* client: the calls
  now,       \* the clock
  hung,      \* the server has stopped for good, or is gone
  life       \* history: how often each document was opened, and whether a
             \*   report on it was on its way to the client when it last was

vars == <<docs, texts, load, asked, wire, progress, pulls, query, now, hung, life>>

Query == 1 .. Calls   \* the calls, in the order they are made
Load  == 1 .. Loads   \* the tokens

Indexing == progress # {}

-----------------------------------------------------------------------------
(* The server.                                                             *)

Loaded  == \A t \in Load : load[t] \in {"before", "after"}
Started == /\ \E t \in Load : load[t] # "before"
           /\ \A t \in Load : load[t] \notin {"asking", "ready"}

Sends(msg) == wire' = Append(wire, msg)

\* workDoneProgress/create, as workspace/configuration or applyEdit: the server
\* goes no further until the client replies.
AskToken(t) ==
  /\ ~ hung /\ load[t] = "before" /\ Len(wire) < MaxWire
  /\ \A p \in 1 .. t - 1 : load[p] # "before"
  /\ load' = [load EXCEPT ![t] = "asking"]
  /\ Sends([kind |-> "request", token |-> t])
  /\ UNCHANGED <<docs, texts, asked, progress, pulls, query, now, hung, life>>

BeginLoad(t) ==
  /\ ~ hung /\ load[t] = "ready"
  /\ load' = [load EXCEPT ![t] = "active"]
  /\ Sends([kind |-> "begin", token |-> t])
  /\ UNCHANGED <<docs, texts, asked, progress, pulls, query, now, hung, life>>

EndLoad(t) ==
  /\ ~ hung /\ load[t] = "active" /\ Len(wire) < MaxWire
  /\ load' = [load EXCEPT ![t] = "after"]
  /\ Sends([kind |-> "end", token |-> t])
  /\ UNCHANGED <<docs, texts, asked, progress, pulls, query, now, hung, life>>

\* An answer with content, an empty one, a soft "not ready" error or a failure.
\* What the loaded project has, an inferred one may miss.
Answer(q, content) ==
  /\ ~ hung /\ q \in asked /\ Started
  /\ asked' = asked \ {q}
  /\ Sends([kind |-> "answer", query |-> q, content |-> content, whole |-> Loaded])
  /\ UNCHANGED <<docs, texts, load, progress, pulls, query, now, hung, life>>

\* A report on a document is of a text, and of one time that it was opened.
Report(u) == [text |-> docs[u].buffer.text, nth |-> life[u].nth]

Reporting(u) == \E i \in DOMAIN wire : wire[i].kind = "publish" /\ wire[i].doc = u

\* News of an open document.
PublishReport(u) ==
  /\ ~ hung /\ docs[u].buffer.open /\ Started /\ Len(wire) < MaxWire
  /\ docs[u].awaiting \/ docs[u].cached # Report(u)
  /\ \A i \in DOMAIN wire : wire[i].kind # "publish"
  /\ Sends([kind |-> "publish", doc |-> u, report |-> Report(u)])
  /\ UNCHANGED <<docs, texts, load, asked, progress, pulls, query, now, hung, life>>

Hang ==
  /\ ~ hung
  /\ hung' = TRUE
  /\ UNCHANGED <<docs, texts, load, asked, wire, progress, pulls, query, now, life>>

-----------------------------------------------------------------------------
(* The client's calls.                                                     *)

Idle == [kind |-> "none", doc |-> None, pc |-> "idle", deadline |-> 0, attempt |-> 0,
         wake |-> 0, status |-> "none", whole |-> FALSE, late |-> FALSE, report |-> None]

Kinds == {"nav", "calls", "diagnostics"}

Running(q) == query[q].pc \notin {"idle", "done"}

Late(q) == now >= query[q].deadline

\* wrap: the call returns.
Returned(c, status, whole) ==
  [Idle EXCEPT !.kind = c.kind, !.pc = "done", !.status = status, !.whole = whole,
               !.late = now >= c.deadline, !.report = c.report]

\* decideStatus
DecideStatus(empty, ready) ==
  IF ~ empty THEN "ok" ELSE IF ready THEN "no_result" ELSE "not_ready"

Backoff(attempt) == IF attempt < 2 THEN 1 ELSE 2

\* Retry after a bounded backoff strictly inside the deadline.
Retry(c, status, whole) ==
  LET b == Backoff(c.attempt + 1)
  IN  IF now + b > c.deadline
      THEN Returned([c EXCEPT !.attempt = @ + 1], status, whole)
      ELSE [c EXCEPT !.attempt = @ + 1, !.pc = "backoff", !.wake = now + b]

\* A document that is open stays in its life.
Opened(u) ==
  life' = IF docs[u].open THEN life
          ELSE [life EXCEPT ![u] = [nth |-> @.nth + 1, crossed |-> Reporting(u)]]

\* manager.run under the document's lock: ensureOpen, then the method.
Call(q, kind, u) ==
  /\ query[q].pc = "idle"
  /\ \A p \in 1 .. q - 1 : query[p].pc # "idle"
  /\ \A p \in Query : Running(p) => query[p].doc # u
  /\ now + Timeout <= MaxTime
  /\ docs' = EnsureOpen(docs, u, texts[u])
  /\ query' = [query EXCEPT ![q] = [Idle EXCEPT !.kind = kind, !.doc = u, !.pc = "settle",
                                                !.deadline = now + Timeout]]
  /\ Opened(u)
  /\ UNCHANGED <<texts, load, asked, wire, progress, pulls, now, hung>>

Ask(q) == asked' = asked \cup {q}

IsPush(c) == c.kind = "diagnostics" /\ ~ pulls
IsPull(c) == c.kind = "diagnostics" /\ pulls

\* A nav query asks at the deadline whether or not the project has settled.
SendRequest(q) ==
  /\ query[q].pc = "settle" /\ ~ IsPush(query[q])
  /\ ~ Indexing \/ (Late(q) /\ ~ IsPull(query[q]))
  /\ Ask(q)
  /\ query' = [query EXCEPT ![q].pc = "await"]
  /\ UNCHANGED <<docs, texts, load, wire, progress, pulls, now, hung, life>>

PullNotSettled(q) ==
  /\ query[q].pc = "settle" /\ IsPull(query[q])
  /\ Indexing /\ Late(q)
  /\ query' = [query EXCEPT ![q] = Returned(@, "not_ready", FALSE)]
  /\ UNCHANGED <<docs, texts, load, asked, wire, progress, pulls, now, hung, life>>

\* pushDiagnostics: the cached report, or wait for the next.
BugReadReport(q) ==
  /\ query[q].pc = "settle" /\ IsPush(query[q])
  /\ ~ Indexing \/ Late(q)
  /\ query' = [query EXCEPT ![q] = Returned([@ EXCEPT !.report = docs[query[q].doc].cached], 
                                            IF Indexing THEN "not_ready" ELSE "ok", TRUE)]
  /\ UNCHANGED <<docs, texts, load, asked, wire, progress, pulls, now, hung, life>>

ReadReport(q) ==
  LET c == query[q]
      d == docs[c.doc]
      r == [c EXCEPT !.report = d.cached]
  IN  /\ c.pc = "settle" /\ IsPush(c)
      /\ ~ Indexing \/ Late(q)
      /\ query' = [query EXCEPT ![q] =
                     IF ~ Indexing /\ ~ d.awaiting THEN Returned(r, "ok", TRUE)
                     ELSE IF Late(q) THEN Returned(r, "not_ready", FALSE)
                     ELSE [c EXCEPT !.pc = "publish"]]
      /\ UNCHANGED <<docs, texts, load, asked, wire, progress, pulls, now, hung, life>>

\* The race of nextDiagnostics or a backoff against the clock.
Wake(q) ==
  /\ \/ query[q].pc = "publish" /\ Late(q)
     \/ query[q].pc = "backoff" /\ now >= query[q].wake
  /\ query' = [query EXCEPT ![q].pc = "settle"]
  /\ UNCHANGED <<docs, texts, load, asked, wire, progress, pulls, now, hung, life>>

-----------------------------------------------------------------------------
(* What an answer comes to.                                                *)

\* The answer is judged by its content alone.
BugNavAnswered(c, msg) == Returned(c, DecideStatus(msg.content # "full", TRUE), msg.whole)

NavAnswered(c, msg) ==
  LET empty == msg.content # "full"
      status == DecideStatus(empty, ~ Indexing)
  IN  IF Indexing /\ now < c.deadline THEN [c EXCEPT !.pc = "settle"]
      ELSE IF status = "ok" /\ c.kind = "calls" THEN [c EXCEPT !.pc = "items"]
      ELSE IF status # "no_result" \/ msg.content = "soft" THEN Returned(c, status, msg.whole)
      ELSE Retry(c, "no_result", msg.whole)

PullAnswered(c, msg) ==
  IF Indexing /\ now < c.deadline THEN [c EXCEPT !.pc = "settle"]
  ELSE IF msg.content # "soft"
  THEN Returned(c, IF Indexing THEN "not_ready" ELSE "ok", msg.whole)
  ELSE Retry(c, "not_ready", FALSE)

\* The second round trip of a call hierarchy is taken as it comes.
CallsAnswered(c, msg) == Returned(c, "ok", FALSE)

Answered(c, msg) ==
  IF msg.content = "failure" \/ (c.pc = "asked" /\ msg.content = "soft")
  THEN Returned(c, "error", FALSE)
  ELSE IF c.pc = "asked" THEN CallsAnswered(c, msg)
  ELSE IF IsPull(c) THEN PullAnswered(c, msg)
  ELSE NavAnswered(c, msg)

AskCalls(q) ==
  /\ query[q].pc = "items"
  /\ Ask(q)
  /\ query' = [query EXCEPT ![q].pc = "asked"]
  /\ UNCHANGED <<docs, texts, load, wire, progress, pulls, now, hung, life>>

-----------------------------------------------------------------------------
(* The messages the client receives.                                       *)

Heard(kind) == wire # <<>> /\ Head(wire).kind = kind /\ wire' = Tail(wire)

ReceiveProgress ==
  /\ \/ Heard("begin") /\ progress' = progress \cup {Head(wire).token}
     \/ Heard("end")   /\ progress' = progress \ {Head(wire).token}
  /\ UNCHANGED <<docs, texts, load, asked, pulls, query, now, hung, life>>

ReceiveAnswer ==
  /\ Heard("answer")
  /\ query' = [query EXCEPT ![Head(wire).query] = Answered(@, Head(wire))]
  /\ UNCHANGED <<docs, texts, load, asked, progress, pulls, now, hung, life>>

ReceiveReport ==
  LET u == Head(wire).doc
  IN  /\ Heard("publish")
      /\ docs'  = Publish(docs, u, Head(wire).report)
      /\ query' = [q \in Query |->
                     IF query[q].pc = "publish" /\ query[q].doc = u
                     THEN [query[q] EXCEPT !.pc = "settle"] ELSE query[q]]
      /\ UNCHANGED <<texts, load, asked, progress, pulls, now, hung, life>>

\* An id-bearing request without a handler.
BugReply(t) == load

\* Every request of the server's is answered at once, applyEdit with a refusal.
Reply(t) == [load EXCEPT ![t] = "ready"]

ReceiveRequest ==
  /\ Heard("request")
  /\ load' = Reply(Head(wire).token)
  /\ UNCHANGED <<docs, texts, asked, progress, pulls, query, now, hung, life>>

-----------------------------------------------------------------------------
(* A rename applied between two queries of a document, under its lock.     *)

Unlocked(u) == \A q \in Query : Running(q) => query[q].doc # u

\* Bound: edits of an open document, between two loads.
MayEdit(u) == docs[u].open /\ Unlocked(u) /\ Loaded /\ texts[u] <= MaxEdits

ApplyRename(u) ==
  /\ MayEdit(u)
  /\ texts' = [texts EXCEPT ![u] = @ + 1]
  /\ docs'  = ApplyEdited(docs, u, texts[u] + 1)
  /\ UNCHANGED <<load, asked, wire, progress, pulls, query, now, hung, life>>

\* The document is deleted, and another created in its place.
ReplaceFile(u) ==
  /\ MayEdit(u)
  /\ texts' = [texts EXCEPT ![u] = @ + 1]
  /\ docs'  = DidFileDelete(docs, u)
  /\ UNCHANGED <<load, asked, wire, progress, pulls, query, now, hung, life>>

Tick ==
  /\ now < MaxTime
  /\ now' = now + 1
  /\ UNCHANGED <<docs, texts, load, asked, wire, progress, pulls, query, hung, life>>

-----------------------------------------------------------------------------
Init ==
  /\ docs     = [u \in Doc |-> Closed]
  /\ texts    = [u \in Doc |-> 1]
  /\ load     = [t \in Load |-> "before"]
  /\ asked    = {}
  /\ wire     = <<>>
  /\ progress = {}
  /\ pulls   \in BOOLEAN
  /\ query    = [q \in Query |-> Idle]
  /\ now      = 0
  /\ hung     = FALSE
  /\ life     = [u \in Doc |-> [nth |-> 0, crossed |-> FALSE]]

ClientStep(q) == SendRequest(q) \/ PullNotSettled(q) \/ ReadReport(q) \/ Wake(q) \/ AskCalls(q)

Receive == ReceiveProgress \/ ReceiveAnswer \/ ReceiveReport \/ ReceiveRequest

ServerAnswers(q) == \E content \in {"full", "empty", "soft", "failure"} : Answer(q, content)

Next ==
  \/ \E t \in Load : AskToken(t) \/ BeginLoad(t) \/ EndLoad(t)
  \/ \E q \in Query : ServerAnswers(q)
  \/ \E u \in Doc : PublishReport(u) \/ ApplyRename(u) \/ ReplaceFile(u)
  \/ \E q \in Query, kind \in Kinds, u \in Doc : Call(q, kind, u)
  \/ \E q \in Query : ClientStep(q)
  \/ Receive
  \/ Tick
  \/ Hang

\* The event loop runs, the clock advances, and a server that has not hung
\* starts to load a project and answers what it is asked.  Nothing says that a
\* load ends, nor that the server does not hang.
Fairness ==
  /\ WF_vars(Tick) /\ WF_vars(Receive)
  /\ WF_vars(\E q \in Query : ClientStep(q)) /\ WF_vars(\E q \in Query : ServerAnswers(q))
  /\ WF_vars(\E t \in Load : AskToken(t) \/ BeginLoad(t))

Spec == Init /\ [][Next]_vars /\ Fairness

-----------------------------------------------------------------------------
(* Properties.                                                             *)

\* A definite answer of a navigation or a pull of diagnostics -- no_result at
\* any time, ok before the deadline -- comes from a loaded project, never from
\* the one the server inferred while it was loading (client.ts, withRetry).
DefiniteAnswersAreWhole ==
  \A q \in Query :
    LET c == query[q] IN
      c.pc = "done" /\ c.kind # "calls" /\ ~ IsPush(c) =>
        /\ c.status = "no_result" => c.whole
        /\ c.status = "ok" /\ ~ c.late => c.whole
        /\ c.status = "ok" /\ IsPull(c) => c.whole

\* Pushed diagnostics are ok only on a report of the time the document is open
\* now (client.ts, pushDiagnostics: "the file's first post-open publish has
\* landed"), and if it has not been changed since, of the text it has.  One case
\* is out: a report that was on its way when the document was opened anew ends
\* the wait for the next.  After a change, which does not mark the document as
\* awaiting a report, the one that is returned may be of the text before it.
CleanMeansReported ==
  [][\A q \in Query :
       LET u == query[q].doc
           r == query'[q].report
       IN  Running(q) /\ IsPush(query[q]) /\ query'[q].status = "ok" =>
             /\ r # None
             /\ ~ life[u].crossed =>
                  /\ r.nth = life[u].nth
                  /\ docs[u].version = 1 => r.text = texts[u]]_vars

\* Every call to a server that does not hang returns.  No bound in time is
\* claimed: the deadline ends the waits for indexing, for a report and for
\* another try, and none of the requests (client.ts, sendRequest).
CallsReturn == \A q \in Query : query[q].pc # "idle" ~> query[q].pc = "done" \/ hung

=============================================================================
