-------------------------- MODULE LspSessionProofs --------------------------
(***************************************************************************)
(* What holds of LspSession for any number of calls, loads and documents:  *)
(* a definite answer comes from a loaded project, and pushed diagnostics   *)
(* are those of the document as it is open now.                            *)
(***************************************************************************)
EXTENDS LspSession, SequenceTheorems, TLAPS

Text == Nat \cup {None}

Buffer == [open : BOOLEAN, version : Nat, text : Text]

Reported == [text : Nat, nth : Nat]

Document ==
  [open : BOOLEAN, refs : Nat, version : Nat, awaiting : BOOLEAN, cached : Reported \cup {None},
   buffer : Buffer, confused : BOOLEAN]

Stage == {"idle", "settle", "await", "items", "asked", "publish", "backoff", "done"}

Record ==
  [kind : Kinds \cup {"none"}, doc : Doc \cup {None}, pc : Stage, deadline : Nat, attempt : Nat,
   wake : Nat, status : {"none", "ok", "no_result", "not_ready", "error"}, whole : BOOLEAN,
   late : BOOLEAN, report : Reported \cup {None}]

AboutToken == [kind : {"request", "begin", "end"}, token : Load]
AboutQuery == [kind : {"answer"}, query : Query, content : {"full", "empty", "soft", "failure"},
               whole : BOOLEAN]
AboutDoc == [kind : {"publish"}, doc : Doc, report : Reported]

Message == AboutToken \cup AboutQuery \cup AboutDoc

TypeOK ==
  /\ docs \in [Doc -> Document]
  /\ texts \in [Doc -> Nat]
  /\ load \in [Load -> {"before", "asking", "ready", "active", "after"}]
  /\ asked \subseteq Query
  /\ wire \in Seq(Message)
  /\ progress \subseteq Load
  /\ pulls \in BOOLEAN
  /\ query \in [Query -> Record]
  /\ now \in Nat

LifeType == life \in [Doc -> [nth : Nat, crossed : BOOLEAN]]

\* A document that is open and awaits no report has one.
DocInv ==
  \A u \in Doc :
    /\ docs[u].open /\ ~ docs[u].awaiting => docs[u].cached # None
    /\ docs[u].buffer.open => docs[u].buffer.text # None

\* When it comes to the i-th message the client will know that t is loading.
Foreseen(t, i) ==
  /\ t \in progress \/ \E j \in 1 .. i - 1 : wire[j].kind = "begin" /\ wire[j].token = t
  /\ \A j \in 1 .. i - 1 : ~ (wire[j].kind = "end" /\ wire[j].token = t)

\* By the time it has heard everything the client will know it.
Announced(t) ==
  /\ t \in progress \/ \E j \in DOMAIN wire : wire[j].kind = "begin" /\ wire[j].token = t
  /\ \A j \in DOMAIN wire : ~ (wire[j].kind = "end" /\ wire[j].token = t)

\* What is on the wire of each load, and ahead of an answer given during one.
WireInv ==
  /\ \A i \in DOMAIN wire : wire[i].kind = "publish" => wire[i].report # None
  /\ \A i \in DOMAIN wire : wire[i].kind = "request" => load[wire[i].token] = "asking"
  /\ \A i, j \in DOMAIN wire :
       wire[i].kind = "request" /\ wire[j].kind = "request" /\ wire[i].token = wire[j].token => i = j
  /\ \A i \in DOMAIN wire : wire[i].kind = "end" => load[wire[i].token] = "after"
  /\ \A t \in Load : load[t] = "active" => Announced(t)
  /\ \A i \in DOMAIN wire :
       wire[i].kind = "answer" /\ ~ wire[i].whole => \E t \in Load : Foreseen(t, i)

\* A call under way has its document open.
LockInv == \A q \in Query : Running(q) => query[q].doc \in Doc /\ docs[query[q].doc].open

\* A call that has been asked and not heard of, which no wait for a pushed
\* report is.
Awaits(q) == query[q].pc \in {"await", "asked"} /\ ~ IsPush(query[q])

\* Each of them is with the server or has one answer on the wire.
AskedInv ==
  /\ \A q \in asked : Awaits(q)
  /\ \A i \in DOMAIN wire :
       wire[i].kind = "answer" => Awaits(wire[i].query) /\ wire[i].query \notin asked
  /\ \A i, j \in DOMAIN wire :
       wire[i].kind = "answer" /\ wire[j].kind = "answer" /\ wire[i].query = wire[j].query => i = j

\* What a call may return, and that it has no status before.
Sound(c) ==
  /\ c.pc \in {"items", "asked"} => c.kind = "calls"
  /\ c.pc # "done" => c.status = "none"
  /\ c.pc = "done" /\ c.kind # "calls" /\ ~ IsPush(c) =>
       /\ c.status = "no_result" => c.whole
       /\ c.status = "ok" /\ ~ c.late => c.whole
       /\ c.status = "ok" /\ IsPull(c) => c.whole
  /\ c.status = "ok" /\ IsPush(c) => c.report # None

SoundInv == \A q \in Query : Sound(query[q])

IInv == TypeOK /\ DocInv /\ WireInv /\ LockInv /\ AskedInv /\ SoundInv

-----------------------------------------------------------------------------
(* Messages.                                                               *)

LEMMA Kinds3 ==
  ASSUME NEW m \in Message
  PROVE  /\ m.kind \in {"request", "begin", "end"} => m.token \in Load
         /\ m.kind = "answer" => m \in AboutQuery
         /\ m.kind = "publish" => m.doc \in Doc /\ m.report \in Reported
BY DEF Message, AboutToken, AboutQuery, AboutDoc

LEMMA WireShape ==
  ASSUME TypeOK
  PROVE  /\ Len(wire) \in Nat
         /\ DOMAIN wire = 1 .. Len(wire)
         /\ \A i \in DOMAIN wire : wire[i] \in Message
BY DEF TypeOK

\* A message is sent behind those on the wire.
LEMMA SendShape ==
  ASSUME TypeOK, NEW m \in Message, Sends(m)
  PROVE  /\ wire' \in Seq(Message)
         /\ Len(wire') = Len(wire) + 1
         /\ DOMAIN wire' = DOMAIN wire \cup {Len(wire) + 1}
         /\ Len(wire) + 1 \notin DOMAIN wire
         /\ \A i \in DOMAIN wire : wire'[i] = wire[i]
         /\ wire'[Len(wire) + 1] = m
<1>1. wire \in Seq(Message) /\ wire' = Append(wire, m)
  BY DEF TypeOK, Sends
<1>2. /\ wire' \in Seq(Message)
      /\ Len(wire') = Len(wire) + 1
      /\ \A i \in 1 .. Len(wire) : wire'[i] = wire[i]
      /\ wire'[Len(wire) + 1] = m
  BY <1>1, AppendProperties
<1>3. Len(wire) \in Nat /\ DOMAIN wire = 1 .. Len(wire) /\ DOMAIN wire' = 1 .. Len(wire) + 1
  BY <1>1, <1>2
<1> QED BY <1>2, <1>3

\* The first message is taken off the wire.
LEMMA HeardShape ==
  ASSUME TypeOK, wire # <<>>, wire' = Tail(wire)
  PROVE  /\ wire' \in Seq(Message)
         /\ Head(wire) = wire[1]
         /\ 1 \in DOMAIN wire
         /\ wire[1] \in Message
         /\ Len(wire') \in Nat
         /\ Len(wire) = Len(wire') + 1
         /\ DOMAIN wire' = 1 .. Len(wire')
         /\ \A i \in 1 .. Len(wire') : i + 1 \in DOMAIN wire /\ wire'[i] = wire[i + 1]
<1>1. wire \in Seq(Message)
  BY DEF TypeOK
<1>2. /\ wire' \in Seq(Message)
      /\ Len(wire') = Len(wire) - 1
      /\ \A i \in 1 .. Len(wire') : wire'[i] = wire[i + 1]
      /\ Head(wire) = wire[1]
  BY <1>1, HeadTailProperties
<1>3. Len(wire) \in Nat \ {0} /\ DOMAIN wire = 1 .. Len(wire)
  BY <1>1
<1>4. DOMAIN wire' = 1 .. Len(wire')
  BY <1>2
<1>5. 1 \in DOMAIN wire /\ wire[1] \in Message
  BY <1>1, <1>3
<1>6. Len(wire') \in Nat /\ Len(wire) = Len(wire') + 1
  BY <1>2, <1>3
<1>7. \A i \in 1 .. Len(wire') : i + 1 \in DOMAIN wire
  BY <1>3, <1>6
<1> QED BY <1>2, <1>4, <1>5, <1>6, <1>7

\* What the client will know when it comes to a message does not depend on
\* what is sent behind it,
LEMMA ForeseenSent ==
  ASSUME TypeOK, NEW m \in Message, Sends(m), progress' = progress,
         NEW t, NEW i \in 1 .. Len(wire) + 1, Foreseen(t, i)
  PROVE  Foreseen(t, i)'
<1>1. /\ \A j \in DOMAIN wire : wire'[j] = wire[j]
      /\ DOMAIN wire = 1 .. Len(wire) /\ Len(wire) \in Nat
  BY SendShape, WireShape
<1>2. \A j \in 1 .. i - 1 : wire'[j] = wire[j]
  BY <1>1
<1> QED BY <1>2 DEF Foreseen

\* and is the same one message later.
LEMMA ForeseenHeard ==
  ASSUME TypeOK, wire # <<>>, wire' = Tail(wire),
         progress' = CASE wire[1].kind = "begin" -> progress \cup {wire[1].token}
                       [] wire[1].kind = "end" -> progress \ {wire[1].token}
                       [] OTHER -> progress,
         NEW t, NEW i \in 1 .. Len(wire), Foreseen(t, i + 1)
  PROVE  Foreseen(t, i)'
<1>1. /\ Len(wire') \in Nat /\ Len(wire) = Len(wire') + 1
      /\ \A j \in 1 .. Len(wire') : wire'[j] = wire[j + 1]
  BY HeardShape
<1>2. \A j \in 1 .. i - 1 : j + 1 \in 1 .. i /\ wire'[j] = wire[j + 1]
  BY <1>1
<1>3. \A j \in 1 .. i - 1 : ~ (wire'[j].kind = "end" /\ wire'[j].token = t)
  BY <1>2 DEF Foreseen
<1>4. t \in progress' \/ \E j \in 1 .. i - 1 : wire'[j].kind = "begin" /\ wire'[j].token = t
  <2>1. ~ (wire[1].kind = "end" /\ wire[1].token = t)
    BY DEF Foreseen
  <2>2. CASE t \in progress
    BY <2>1, <2>2
  <2>3. CASE t \notin progress
    <3>1. PICK j \in 1 .. i : wire[j].kind = "begin" /\ wire[j].token = t
      BY <2>3 DEF Foreseen
    <3>2. CASE j = 1
      BY <3>1, <3>2
    <3>3. CASE j # 1
      <4>1. j - 1 \in 1 .. i - 1 /\ (j - 1) + 1 = j
        BY <3>1, <3>3
      <4>2. wire'[j - 1] = wire[j]
        BY <1>2, <4>1
      <4> QED BY <3>1, <4>1, <4>2
    <3> QED BY <3>2, <3>3
  <2> QED BY <2>2, <2>3
<1> QED BY <1>3, <1>4 DEF Foreseen

\* A load that is under way is known to the client when the first message
\* foresees it.
LEMMA ForeseenNow ==
  ASSUME NEW t, Foreseen(t, 1)
  PROVE  t \in progress
BY DEF Foreseen

-----------------------------------------------------------------------------
(* What is on the wire of each load.                                       *)

\* A server that says something of a load does so in the order of the load;
\* an answer that is not of a loaded project comes during one.
LEMMA SendWire ==
  ASSUME TypeOK, WireInv, NEW m \in Message, Sends(m), progress' = progress,
         \A t \in Load : load'[t] = load[t] \/ (m.kind \in {"request", "begin", "end"} /\ t = m.token),
         m.kind = "request" => load[m.token] = "before" /\ load'[m.token] = "asking",
         m.kind = "begin" => load[m.token] = "ready" /\ load'[m.token] = "active",
         m.kind = "end" => load[m.token] = "active" /\ load'[m.token] = "after",
         m.kind = "answer" /\ ~ m.whole => \E t \in Load : load[t] = "active",
         m.kind = "publish" => m.report # None
  PROVE  WireInv'
<1> DEFINE n == Len(wire) + 1
<1>1. /\ Len(wire') = n
      /\ DOMAIN wire' = DOMAIN wire \cup {n}
      /\ n \notin DOMAIN wire
      /\ \A i \in DOMAIN wire : wire'[i] = wire[i]
      /\ wire'[n] = m
      /\ Len(wire) \in Nat /\ DOMAIN wire = 1 .. Len(wire)
      /\ \A i \in DOMAIN wire : wire[i] \in Message
  BY SendShape, WireShape
<1>2. \A i \in DOMAIN wire : wire[i].kind \in {"request", "begin", "end"} => wire[i].token \in Load
  BY <1>1, Kinds3
<1>3. m.kind \in {"request", "begin", "end"} => m.token \in Load
  BY Kinds3
<1>4. \A i \in DOMAIN wire' : wire'[i].kind = "publish" => wire'[i].report # None
  BY <1>1 DEF WireInv
<1>5. \A i \in DOMAIN wire' : wire'[i].kind = "request" => load'[wire'[i].token] = "asking"
  <2>1. ASSUME NEW i \in DOMAIN wire, wire[i].kind = "request"
        PROVE  load'[wire[i].token] = "asking"
    <3>1. wire[i].token \in Load /\ load[wire[i].token] = "asking"
      BY <1>2, <2>1 DEF WireInv
    <3>2. m.kind \in {"request", "begin", "end"} => wire[i].token # m.token
      BY <3>1
    <3> QED BY <3>1, <3>2
  <2> QED BY <1>1, <2>1
<1>6. \A i, j \in DOMAIN wire' :
        wire'[i].kind = "request" /\ wire'[j].kind = "request" /\ wire'[i].token = wire'[j].token
          => i = j
  <2>1. ASSUME NEW i \in DOMAIN wire, wire[i].kind = "request", m.kind = "request"
        PROVE  wire[i].token # m.token
    BY <2>1 DEF WireInv
  <2> QED BY <1>1, <2>1 DEF WireInv
<1>7. \A i \in DOMAIN wire' : wire'[i].kind = "end" => load'[wire'[i].token] = "after"
  <2>1. ASSUME NEW i \in DOMAIN wire, wire[i].kind = "end"
        PROVE  load'[wire[i].token] = "after"
    <3>1. wire[i].token \in Load /\ load[wire[i].token] = "after"
      BY <1>2, <2>1 DEF WireInv
    <3>2. m.kind \in {"request", "begin", "end"} => wire[i].token # m.token
      BY <3>1
    <3> QED BY <3>1, <3>2
  <2> QED BY <1>1, <2>1
<1>8. \A t \in Load : load'[t] = "active" => Announced(t)'
  <2> SUFFICES ASSUME NEW t \in Load, load'[t] = "active"
               PROVE  Announced(t)'
    OBVIOUS
  <2>1. CASE m.kind = "begin" /\ t = m.token
    <3>1. \A j \in DOMAIN wire : ~ (wire[j].kind = "end" /\ wire[j].token = t)
      BY <2>1 DEF WireInv
    <3> QED BY <1>1, <2>1, <3>1 DEF Announced
  <2>2. CASE ~ (m.kind = "begin" /\ t = m.token)
    <3>1. load[t] = "active" /\ ~ (m.kind = "end" /\ t = m.token)
      BY <2>2
    <3>2. Announced(t)
      BY <3>1 DEF WireInv
    <3> QED BY <1>1, <3>1, <3>2 DEF Announced
  <2> QED BY <2>1, <2>2
<1>9. \A i \in DOMAIN wire' :
        wire'[i].kind = "answer" /\ ~ wire'[i].whole => \E t \in Load : Foreseen(t, i)'
  <2> SUFFICES ASSUME NEW i \in DOMAIN wire', wire'[i].kind = "answer", ~ wire'[i].whole
               PROVE  \E t \in Load : Foreseen(t, i)'
    OBVIOUS
  <2>1. i \in 1 .. Len(wire) + 1
    BY <1>1
  <2>2. CASE i \in DOMAIN wire
    <3>1. PICK t \in Load : Foreseen(t, i)
      BY <1>1, <2>2 DEF WireInv
    <3>2. Foreseen(t, i)'
      BY <2>1, <3>1, ForeseenSent
    <3> QED BY <3>2
  <2>3. CASE i = n
    <3>1. PICK t \in Load : load[t] = "active"
      BY <1>1, <2>3
    <3>2. Announced(t)
      BY <3>1 DEF WireInv
    <3>3. 1 .. i - 1 = DOMAIN wire
      BY <1>1, <2>3
    <3>4. Foreseen(t, i)
      BY <3>2, <3>3 DEF Announced, Foreseen
    <3>5. Foreseen(t, i)'
      BY <2>1, <3>4, ForeseenSent
    <3> QED BY <3>5
  <2> QED BY <1>1, <2>2, <2>3
<1> QED BY <1>4, <1>5, <1>6, <1>7, <1>8, <1>9 DEF WireInv

\* The client hears the first message: only a request moves a load, on which
\* nothing else is on the wire.
LEMMA HeardWire ==
  ASSUME TypeOK, WireInv, wire # <<>>, wire' = Tail(wire),
         progress' = CASE wire[1].kind = "begin" -> progress \cup {wire[1].token}
                       [] wire[1].kind = "end" -> progress \ {wire[1].token}
                       [] OTHER -> progress,
         load' = IF wire[1].kind = "request" THEN [load EXCEPT ![wire[1].token] = "ready"] ELSE load
  PROVE  WireInv'
<1>1. /\ 1 \in DOMAIN wire
      /\ Len(wire') \in Nat /\ Len(wire) = Len(wire') + 1
      /\ DOMAIN wire' = 1 .. Len(wire')
      /\ \A i \in 1 .. Len(wire') : i + 1 \in DOMAIN wire /\ wire'[i] = wire[i + 1]
      /\ \A i \in DOMAIN wire : wire[i] \in Message
  BY HeardShape, WireShape
<1>2. \A i \in DOMAIN wire : wire[i].kind \in {"request", "begin", "end"} => wire[i].token \in Load
  BY <1>1, Kinds3
<1>3. \A t \in Load : load'[t] = IF wire[1].kind = "request" /\ t = wire[1].token
                                 THEN "ready" ELSE load[t]
  BY DEF TypeOK
<1>4. wire[1].kind = "request" => load[wire[1].token] = "asking"
  BY <1>1 DEF WireInv
<1>5. \A i \in DOMAIN wire' : wire'[i].kind = "publish" => wire'[i].report # None
  BY <1>1 DEF WireInv
<1>6. \A i \in DOMAIN wire' : wire'[i].kind = "request" => load'[wire'[i].token] = "asking"
  <2> SUFFICES ASSUME NEW i \in 1 .. Len(wire'), wire[i + 1].kind = "request"
               PROVE  load'[wire[i + 1].token] = "asking"
    BY <1>1
  <2>1. i + 1 \in DOMAIN wire /\ i + 1 # 1
    BY <1>1
  <2>2. load[wire[i + 1].token] = "asking" /\ wire[i + 1].token \in Load
    BY <1>2, <2>1 DEF WireInv
  <2>3. wire[1].kind = "request" => wire[1].token # wire[i + 1].token
    BY <1>1, <2>1 DEF WireInv
  <2> QED BY <1>3, <2>2, <2>3
<1>7. \A i, j \in DOMAIN wire' :
        wire'[i].kind = "request" /\ wire'[j].kind = "request" /\ wire'[i].token = wire'[j].token
          => i = j
  <2> SUFFICES ASSUME NEW i \in 1 .. Len(wire'), NEW j \in 1 .. Len(wire'),
                      wire[i + 1].kind = "request", wire[j + 1].kind = "request",
                      wire[i + 1].token = wire[j + 1].token
               PROVE  i = j
    BY <1>1
  <2>1. i + 1 = j + 1
    BY <1>1 DEF WireInv
  <2> QED BY <2>1
<1>8. \A i \in DOMAIN wire' : wire'[i].kind = "end" => load'[wire'[i].token] = "after"
  <2> SUFFICES ASSUME NEW i \in 1 .. Len(wire'), wire[i + 1].kind = "end"
               PROVE  load'[wire[i + 1].token] = "after"
    BY <1>1
  <2>1. load[wire[i + 1].token] = "after" /\ wire[i + 1].token \in Load
    BY <1>1, <1>2 DEF WireInv
  <2> QED BY <1>3, <1>4, <2>1
<1>9. \A t \in Load : load'[t] = "active" => Announced(t)'
  <2> SUFFICES ASSUME NEW t \in Load, load'[t] = "active"
               PROVE  Announced(t)'
    OBVIOUS
  <2>1. Announced(t)
    BY <1>3 DEF WireInv
  <2>2. PICK i \in 1 .. Len(wire) : i = Len(wire)
    BY <1>1
  <2>3. i \in Nat /\ DOMAIN wire = 1 .. (i + 1) - 1 /\ DOMAIN wire' = 1 .. i - 1
    BY <1>1, <2>2, WireShape
  <2>4. Foreseen(t, i + 1)
    BY <2>1, <2>3 DEF Announced, Foreseen
  <2>5. Foreseen(t, i)'
    BY <2>4, ForeseenHeard
  <2> QED BY <2>3, <2>5 DEF Announced, Foreseen
<1>10. \A i \in DOMAIN wire' :
         wire'[i].kind = "answer" /\ ~ wire'[i].whole => \E t \in Load : Foreseen(t, i)'
  <2> SUFFICES ASSUME NEW i \in 1 .. Len(wire'), wire[i + 1].kind = "answer", ~ wire[i + 1].whole
               PROVE  \E t \in Load : Foreseen(t, i)'
    BY <1>1
  <2>1. PICK t \in Load : Foreseen(t, i + 1)
    BY <1>1 DEF WireInv
  <2>2. i \in 1 .. Len(wire)
    BY <1>1
  <2>3. Foreseen(t, i)'
    BY <2>1, <2>2, ForeseenHeard
  <2> QED BY <2>3
<1> QED BY <1>5, <1>6, <1>7, <1>8, <1>9, <1>10 DEF WireInv

-----------------------------------------------------------------------------
(* Documents.                                                              *)

\* A document that is changed, to one that is sound.
LEMMA DocChange ==
  ASSUME docs \in [Doc -> Document], DocInv, NEW u \in Doc, NEW d \in Document,
         docs' = [docs EXCEPT ![u] = d],
         d.open /\ ~ d.awaiting => d.cached # None,
         d.buffer.open => d.buffer.text # None
  PROVE  docs' \in [Doc -> Document] /\ DocInv' /\ docs'[u] = d
         /\ \A v \in Doc : v # u => docs'[v] = docs[v]
BY DEF DocInv

\* Opening a document: what it had been sent of before is not counted.
LEMMA OpenDoc ==
  ASSUME docs \in [Doc -> Document], DocInv, NEW u \in Doc, NEW text \in Nat,
         docs' = EnsureOpen(docs, u, text), None \notin Nat
  PROVE  /\ docs' \in [Doc -> Document] /\ DocInv' /\ docs'[u].open
         /\ \A v \in Doc : docs[v].open => docs'[v].open
<1>1. docs[u] \in Document
  OBVIOUS
<1>2. CASE docs[u].open
  <2> DEFINE d == [docs[u] EXCEPT !.refs = @ + 1]
  <2>1. docs' = [docs EXCEPT ![u] = d]
    BY <1>2 DEF EnsureOpen
  <2>2. /\ d \in Document /\ d.open = docs[u].open /\ d.awaiting = docs[u].awaiting
        /\ d.cached = docs[u].cached /\ d.buffer = docs[u].buffer
    BY <1>1 DEF Document
  <2>3. /\ docs[u].open /\ ~ docs[u].awaiting => docs[u].cached # None
        /\ docs[u].buffer.open => docs[u].buffer.text # None
    BY DEF DocInv
  <2> HIDE DEF d
  <2> QED BY <1>2, <2>1, <2>2, <2>3, DocChange
<1>3. CASE ~ docs[u].open
  <2> DEFINE d == DidOpen(FreshlyOpen(docs[u], 1), text)
  <2>1. docs' = [docs EXCEPT ![u] = d]
    BY <1>3 DEF EnsureOpen
  <2> DEFINE f == FreshlyOpen(docs[u], 1)
             b == [open |-> TRUE, version |-> 1, text |-> text]
  <2>2. /\ f \in Document /\ f.open /\ f.awaiting
    BY <1>1 DEF Document, FreshlyOpen
  <2>3. b \in Buffer /\ b.open /\ b.text = text
    BY DEF Buffer, Text
  <2>4. f.buffer.open \in BOOLEAN /\ docs[u].buffer.open \in BOOLEAN
    BY <1>1, <2>2 DEF Document, Buffer
  <2>5. d = [f EXCEPT !.buffer = b, !.confused = f.confused \/ f.buffer.open]
    BY DEF DidOpen
  <2> HIDE DEF f, b, d
  <2>6. f.confused \in BOOLEAN
    BY <2>2 DEF Document
  <2>7. d \in Document /\ d.open /\ d.awaiting /\ d.buffer = b
    BY <2>2, <2>3, <2>4, <2>5, <2>6 DEF Document
  <2> QED BY <2>1, <2>3, <2>7, DocChange
<1> QED BY <1>1, <1>2, <1>3 DEF Document

\* A report is cached.
LEMMA PublishDoc ==
  ASSUME docs \in [Doc -> Document], DocInv, NEW u \in Doc, NEW report \in Reported,
         docs' = Publish(docs, u, report), report # None
  PROVE  /\ docs' \in [Doc -> Document] /\ DocInv'
         /\ \A v \in Doc : docs[v].open => docs'[v].open
<1> DEFINE d == [docs[u] EXCEPT !.cached = report, !.awaiting = FALSE]
<1>1. docs[u] \in Document
  OBVIOUS
<1>2. docs' = [docs EXCEPT ![u] = d]
  BY DEF Publish
<1>3. d \in Document /\ d.open = docs[u].open /\ d.cached = report /\ d.buffer = docs[u].buffer
  BY <1>1 DEF Document
<1>4. docs[u].buffer.open => docs[u].buffer.text # None
  BY DEF DocInv
<1> HIDE DEF d
<1> QED BY <1>2, <1>3, <1>4, DocChange

\* An edit reaches the server's buffer and leaves the report as it is.
LEMMA EditDoc ==
  ASSUME docs \in [Doc -> Document], DocInv, NEW u \in Doc, NEW text \in Nat,
         docs' = ApplyEdited(docs, u, text), None \notin Nat
  PROVE  /\ docs' \in [Doc -> Document] /\ DocInv'
         /\ \A v \in Doc : docs[v].open => docs'[v].open
<1>1. docs[u] \in Document
  OBVIOUS
<1>2. CASE docs[u].open
  <2> DEFINE e == [docs[u] EXCEPT !.version = docs[u].version + 1]
             d == DidChange(e, docs[u].version + 1, text)
  <2>1. docs' = [docs EXCEPT ![u] = d]
    BY <1>2 DEF ApplyEdited
  <2>2. /\ e \in Document /\ e.open = docs[u].open /\ e.awaiting = docs[u].awaiting
        /\ e.cached = docs[u].cached /\ e.buffer = docs[u].buffer
    BY <1>1 DEF Document
  <2>3. docs[u].version + 1 \in Nat
    BY <1>1 DEF Document
  <2>4. /\ docs[u].open /\ ~ docs[u].awaiting => docs[u].cached # None
        /\ docs[u].buffer.open => docs[u].buffer.text # None
    BY DEF DocInv
  <2> HIDE DEF e
  <2>5. CASE e.buffer.open /\ docs[u].version + 1 > e.buffer.version
    <3> DEFINE b == [e.buffer EXCEPT !.version = docs[u].version + 1, !.text = text]
    <3>1. e.buffer \in Buffer
      BY <2>2 DEF Document
    <3>2. b \in Buffer /\ b.text = text
      BY <2>3, <3>1 DEF Buffer, Text
    <3>3. d = [e EXCEPT !.buffer = b]
      BY <2>5 DEF DidChange
    <3> HIDE DEF b, d
    <3>4. /\ d \in Document /\ d.open = e.open /\ d.awaiting = e.awaiting
          /\ d.cached = e.cached /\ d.buffer = b
      BY <2>2, <3>2, <3>3 DEF Document
    <3> QED BY <2>1, <2>2, <2>4, <3>2, <3>4, DocChange
  <2>6. CASE ~ (e.buffer.open /\ docs[u].version + 1 > e.buffer.version)
    <3>1. d = e
      BY <2>6 DEF DidChange
    <3> HIDE DEF d
    <3> QED BY <2>1, <2>2, <2>4, <3>1, DocChange
  <2> QED BY <2>5, <2>6
<1>3. CASE ~ docs[u].open
  <2>1. docs' = docs
    BY <1>3 DEF ApplyEdited
  <2> QED BY <2>1 DEF DocInv
<1> QED BY <1>2, <1>3

\* A deleted document is closed at both ends; the others stay.
LEMMA DeleteDoc ==
  ASSUME docs \in [Doc -> Document], DocInv, NEW u \in Doc,
         docs' = DidFileDelete(docs, u)
  PROVE  /\ docs' \in [Doc -> Document] /\ DocInv'
         /\ \A v \in Doc : v # u /\ docs[v].open => docs'[v].open
<1>1. docs[u] \in Document
  OBVIOUS
<1>2. CASE docs[u].open
  <2> DEFINE e == [docs[u] EXCEPT !.open = FALSE, !.refs = 0, !.version = 0,
                                  !.awaiting = FALSE, !.cached = None]
             d == [e EXCEPT !.buffer = NoBuffer]
  <2>1. docs' = [docs EXCEPT ![u] = d]
    BY <1>2 DEF DidFileDelete, Evict, DidClose
  <2>2. e \in Document /\ ~ e.open
    BY <1>1 DEF Document, Text
  <2>3. NoBuffer \in Buffer /\ ~ NoBuffer.open
    BY DEF NoBuffer, Buffer, Text
  <2> HIDE DEF e
  <2>4. d \in Document /\ ~ d.open /\ d.buffer = NoBuffer
    BY <2>2, <2>3 DEF Document
  <2> HIDE DEF d
  <2> QED BY <2>1, <2>3, <2>4, DocChange
<1>3. CASE ~ docs[u].open
  <2>1. docs' = docs
    BY <1>3 DEF DidFileDelete
  <2> QED BY <2>1 DEF DocInv
<1> QED BY <1>2, <1>3

-----------------------------------------------------------------------------
(* Calls.                                                                  *)

Verdicts == {"none", "ok", "no_result", "not_ready", "error"}

LEMMA ReturnedRecord ==
  ASSUME NEW c \in Record, NEW status \in Verdicts, NEW whole \in BOOLEAN, now \in Nat
  PROVE  LET r == Returned(c, status, whole)
         IN  /\ r \in Record
             /\ r.kind = c.kind /\ r.pc = "done" /\ r.status = status /\ r.whole = whole
             /\ r.late = (now >= c.deadline) /\ r.report = c.report
<1>1. (now >= c.deadline) \in BOOLEAN
  BY DEF Record
<1> DEFINE late == now >= c.deadline
           r == [kind |-> c.kind, doc |-> None, pc |-> "done", deadline |-> 0, attempt |-> 0,
                 wake |-> 0, status |-> status, whole |-> whole, late |-> late,
                 report |-> c.report]
<1>2. Returned(c, status, whole) =
        [Idle EXCEPT !.kind = c.kind, !.pc = "done", !.status = status, !.whole = whole,
                     !.late = late, !.report = c.report]
  BY DEF Returned
<1>3. Returned(c, status, whole) = r
  <2> HIDE DEF late
  <2> QED BY <1>2 DEF Idle
<1>4. c.kind \in Kinds \cup {"none"} /\ c.report \in Reported \cup {None}
  BY DEF Record
<1> HIDE DEF late
<1>5. late \in BOOLEAN
  BY <1>1 DEF late
<1>6. r \in Record
  BY <1>4, <1>5 DEF Record, Stage, Verdicts
<1>7. /\ r.kind = c.kind /\ r.pc = "done" /\ r.status = status /\ r.whole = whole
      /\ r.late = late /\ r.report = c.report
  OBVIOUS
<1> QED BY <1>3, <1>6, <1>7 DEF late

LEMMA RetryRecord ==
  ASSUME NEW c \in Record, NEW status \in Verdicts, NEW whole \in BOOLEAN, now \in Nat
  PROVE  LET r == Retry(c, status, whole)
         IN  /\ r \in Record /\ r.kind = c.kind
             /\ \/ r.pc = "done" /\ r.status = status /\ r.whole = whole
                \/ r.pc = "backoff" /\ r.status = c.status /\ r.doc = c.doc /\ r.report = c.report
<1> DEFINE b == Backoff(c.attempt + 1)
           w == now + b
           tried == [c EXCEPT !.attempt = c.attempt + 1]
           waits == [c EXCEPT !.attempt = c.attempt + 1, !.pc = "backoff", !.wake = w]
<1>1. b \in Nat
  BY DEF Backoff
<1>2. c.attempt + 1 \in Nat /\ now + b \in Nat
  BY <1>1 DEF Record
<1> HIDE DEF b, w
<1>3. tried \in Record /\ tried.kind = c.kind
  BY <1>2 DEF Record
<1>4. /\ waits \in Record /\ waits.kind = c.kind /\ waits.pc = "backoff"
      /\ waits.status = c.status /\ waits.doc = c.doc /\ waits.report = c.report
  BY <1>2 DEF Record, Stage, w
<1>5. Retry(c, status, whole) = IF now + b > c.deadline THEN Returned(tried, status, whole) ELSE waits
  BY DEF Retry, b, w
<1> HIDE DEF tried, waits
<1>6. LET r == Returned(tried, status, whole)
      IN  /\ r \in Record /\ r.kind = c.kind /\ r.pc = "done" /\ r.status = status /\ r.whole = whole
  BY <1>3, ReturnedRecord
<1> QED BY <1>4, <1>5, <1>6

\* What an answer makes of a call: a definite one only from a loaded project.
LEMMA AnsweredSound ==
  ASSUME TypeOK, NEW c \in Record, Sound(c), c.pc \in {"await", "asked"}, ~ IsPush(c),
         NEW msg \in AboutQuery, ~ msg.whole => Indexing
  PROVE  LET r == Answered(c, msg)
         IN  /\ r \in Record /\ r.kind = c.kind /\ r.pc \notin {"idle", "await", "asked"}
             /\ r.pc # "done" => r.doc = c.doc
             /\ Sound(r)
<1> DEFINE r == Answered(c, msg)
<1>1. now \in Nat /\ msg.whole \in BOOLEAN /\ c.status = "none" /\ pulls \in BOOLEAN
  BY DEF TypeOK, AboutQuery, Sound
<1>2. \A status \in Verdicts, whole \in BOOLEAN :
        LET t == Returned(c, status, whole)
        IN  /\ t \in Record /\ t.kind = c.kind /\ t.pc = "done" /\ t.status = status
            /\ t.whole = whole /\ t.late = (now >= c.deadline)
  BY <1>1, ReturnedRecord
<1>3. \A status \in Verdicts, whole \in BOOLEAN :
        LET t == Retry(c, status, whole)
        IN  /\ t \in Record /\ t.kind = c.kind
            /\ \/ t.pc = "done" /\ t.status = status /\ t.whole = whole
               \/ t.pc = "backoff" /\ t.status = "none" /\ t.doc = c.doc
  BY <1>1, RetryRecord
<1>4. ASSUME NEW t, t.kind = c.kind
      PROVE  ~ IsPush(t) /\ (IsPull(t) <=> IsPull(c))
  BY <1>4 DEF IsPush, IsPull
<1>5. CASE msg.content = "failure" \/ (c.pc = "asked" /\ msg.content = "soft")
  <2>1. r = Returned(c, "error", FALSE)
    BY <1>5 DEF Answered
  <2>2. r \in Record /\ r.kind = c.kind /\ r.pc = "done" /\ r.status = "error"
    BY <1>2, <2>1 DEF Verdicts
  <2> HIDE DEF r
  <2>3. ~ IsPush(r)
    BY <1>4, <2>2
  <2> QED BY <2>2, <2>3 DEF Sound, r
<1> DEFINE failed == msg.content = "failure" \/ (c.pc = "asked" /\ msg.content = "soft")
<1>6. CASE ~ failed /\ c.pc = "asked"
  <2>1. r = Returned(c, "ok", FALSE)
    BY <1>6 DEF Answered, CallsAnswered
  <2>2. r \in Record /\ r.kind = c.kind /\ r.pc = "done" /\ c.kind = "calls"
    BY <1>2, <1>6, <2>1 DEF Verdicts, Sound
  <2> HIDE DEF r
  <2>3. ~ IsPush(r)
    BY <1>4, <2>2
  <2> QED BY <2>2, <2>3 DEF Sound, r
<1>7. CASE ~ failed /\ c.pc # "asked" /\ IsPull(c)
  <2>1. r = PullAnswered(c, msg)
    BY <1>7 DEF Answered
  <2>2. CASE Indexing /\ now < c.deadline
    <3>1. r = [c EXCEPT !.pc = "settle"]
      BY <2>1, <2>2 DEF PullAnswered
    <3>2. r \in Record /\ r.kind = c.kind /\ r.pc = "settle" /\ r.doc = c.doc /\ r.status = "none"
      BY <1>1, <3>1 DEF Record, Stage
    <3> HIDE DEF r
    <3> QED BY <3>2 DEF Sound, r
  <2>3. CASE ~ (Indexing /\ now < c.deadline) /\ msg.content # "soft"
    <3>1. r = Returned(c, IF Indexing THEN "not_ready" ELSE "ok", msg.whole)
      BY <2>1, <2>3 DEF PullAnswered
    <3>2. /\ r \in Record /\ r.kind = c.kind /\ r.pc = "done" /\ r.whole = msg.whole
          /\ r.status = IF Indexing THEN "not_ready" ELSE "ok"
      BY <1>1, <1>2, <3>1 DEF Verdicts
    <3> HIDE DEF r
    <3>3. ~ IsPush(r)
      BY <1>4, <3>2
    <3> QED BY <3>2, <3>3 DEF Sound, r
  <2>4. CASE ~ (Indexing /\ now < c.deadline) /\ msg.content = "soft"
    <3>1. r = Retry(c, "not_ready", FALSE)
      BY <2>1, <2>4 DEF PullAnswered
    <3>2. /\ r \in Record /\ r.kind = c.kind
          /\ \/ r.pc = "done" /\ r.status = "not_ready"
             \/ r.pc = "backoff" /\ r.status = "none" /\ r.doc = c.doc
      BY <1>3, <3>1 DEF Verdicts
    <3> HIDE DEF r
    <3>3. ~ IsPush(r)
      BY <1>4, <3>2
    <3> QED BY <3>2, <3>3 DEF Sound, r
  <2> QED BY <2>2, <2>3, <2>4
<1>8. CASE ~ failed /\ c.pc # "asked" /\ ~ IsPull(c)
  <2> DEFINE status == DecideStatus(msg.content # "full", ~ Indexing)
  <2>1. r = NavAnswered(c, msg)
    BY <1>8 DEF Answered
  <2>2. /\ status \in Verdicts
        /\ status = "no_result" => ~ Indexing
        /\ status \in {"ok", "no_result", "not_ready"}
    BY DEF DecideStatus, Verdicts
  <2>3. CASE Indexing /\ now < c.deadline
    <3>1. r = [c EXCEPT !.pc = "settle"]
      BY <2>1, <2>3 DEF NavAnswered
    <3>2. r \in Record /\ r.kind = c.kind /\ r.pc = "settle" /\ r.doc = c.doc /\ r.status = "none"
      BY <1>1, <3>1 DEF Record, Stage
    <3> HIDE DEF r
    <3> QED BY <3>2 DEF Sound, r
  <2> DEFINE due == ~ (Indexing /\ now < c.deadline)
  <2>4. CASE due /\ status = "ok" /\ c.kind = "calls"
    <3>1. r = [c EXCEPT !.pc = "items"]
      BY <2>1, <2>4 DEF NavAnswered
    <3>2. r \in Record /\ r.kind = c.kind /\ r.pc = "items" /\ r.doc = c.doc /\ r.status = "none"
      BY <1>1, <3>1 DEF Record, Stage
    <3> HIDE DEF r
    <3> QED BY <2>4, <3>2 DEF Sound, r
  <2>5. CASE due /\ ~ (status = "ok" /\ c.kind = "calls")
             /\ (status # "no_result" \/ msg.content = "soft")
    <3>1. r = Returned(c, status, msg.whole)
      BY <2>1, <2>5 DEF NavAnswered
    <3> HIDE DEF status
    <3>2. /\ r \in Record /\ r.kind = c.kind /\ r.pc = "done" /\ r.whole = msg.whole
          /\ r.status = status /\ r.late = (now >= c.deadline)
      BY <1>1, <1>2, <2>2, <3>1
    <3>3. c.deadline \in Nat
      BY DEF Record
    <3> HIDE DEF r
    <3>4. ~ IsPush(r) /\ ~ IsPull(r)
      BY <1>4, <1>8, <3>2
    <3>5. r.status = "no_result" => r.whole
      BY <2>2, <3>2
    <3>6. r.status = "ok" /\ ~ r.late => r.whole
      <4>1. ~ r.late => ~ (now >= c.deadline)
        BY <3>2
      <4>2. ~ r.late => now < c.deadline
        BY <1>1, <3>3, <4>1
      <4>3. ~ r.late => ~ Indexing
        BY <2>5, <4>2
      <4> QED BY <3>2, <4>3
    <3> QED BY <3>2, <3>4, <3>5, <3>6 DEF Sound, r
  <2>6. CASE due /\ ~ (status = "ok" /\ c.kind = "calls")
             /\ ~ (status # "no_result" \/ msg.content = "soft")
    <3>1. r = Retry(c, "no_result", msg.whole)
      BY <2>1, <2>6 DEF NavAnswered
    <3>2. ~ Indexing
      BY <2>2, <2>6
    <3>3. /\ r \in Record /\ r.kind = c.kind
          /\ \/ r.pc = "done" /\ r.status = "no_result" /\ r.whole = msg.whole
             \/ r.pc = "backoff" /\ r.status = "none" /\ r.doc = c.doc
      BY <1>1, <1>3, <3>1 DEF Verdicts
    <3> HIDE DEF r
    <3>4. ~ IsPush(r) /\ ~ IsPull(r)
      BY <1>4, <1>8, <3>3
    <3> QED BY <3>2, <3>3, <3>4 DEF Sound, r
  <2> QED BY <2>3, <2>4, <2>5, <2>6
<1> QED BY <1>5, <1>6, <1>7, <1>8

\* A call moves on, or returns with what it may.
LEMMA MoveQuery ==
  ASSUME TypeOK, SoundInv, LockInv, NEW q \in Query, NEW c \in Record,
         query' = [query EXCEPT ![q] = c], UNCHANGED <<docs, pulls>>,
         c.pc \notin {"idle", "done"} => Running(q) /\ c.doc = query[q].doc,
         Sound(c)
  PROVE  /\ query' \in [Query -> Record]
         /\ query'[q] = c
         /\ \A p \in Query : p # q => query'[p] = query[p]
         /\ SoundInv' /\ LockInv'
<1>1. query \in [Query -> Record]
  BY DEF TypeOK
<1>2. /\ query' \in [Query -> Record]
      /\ query'[q] = c
      /\ \A p \in Query : p # q => query'[p] = query[p]
  BY <1>1
<1>3. SoundInv'
  <2> SUFFICES ASSUME NEW p \in Query
               PROVE  Sound(query[p])'
    BY DEF SoundInv
  <2>1. CASE p = q
    BY <1>2, <2>1 DEF Sound, IsPush, IsPull
  <2>2. CASE p # q
    BY <1>2, <2>2 DEF SoundInv, Sound, IsPush, IsPull
  <2> QED BY <2>1, <2>2
<1>4. LockInv'
  BY <1>2 DEF LockInv, Running
<1> QED BY <1>2, <1>3, <1>4

-----------------------------------------------------------------------------
(* Who has been asked.                                                     *)

LEMMA AwaitsKept ==
  ASSUME NEW p, query'[p] = query[p], pulls' = pulls
  PROVE  Awaits(p)' <=> Awaits(p)
BY DEF Awaits, IsPush

\* A message that answers nobody.
LEMMA AskedSends ==
  ASSUME TypeOK, AskedInv, NEW m \in Message, m.kind # "answer", Sends(m),
         UNCHANGED <<asked, query, pulls>>
  PROVE  AskedInv'
<1>1. /\ DOMAIN wire' = DOMAIN wire \cup {Len(wire) + 1}
      /\ Len(wire) + 1 \notin DOMAIN wire
      /\ \A i \in DOMAIN wire : wire'[i] = wire[i]
      /\ wire'[Len(wire) + 1] = m
  BY SendShape
<1>2. \A p : Awaits(p)' <=> Awaits(p)
  BY DEF Awaits, IsPush
<1>3. \A i \in DOMAIN wire' : wire'[i].kind = "answer" => i \in DOMAIN wire
  BY <1>1
<1>4. \A q \in asked' : Awaits(q)'
  BY <1>2 DEF AskedInv
<1>5. \A i \in DOMAIN wire' :
        wire'[i].kind = "answer" => Awaits(wire[i].query)' /\ wire'[i].query \notin asked'
                                    /\ wire'[i] = wire[i]
  BY <1>1, <1>2, <1>3 DEF AskedInv
<1>6. \A i, j \in DOMAIN wire' :
        wire'[i].kind = "answer" /\ wire'[j].kind = "answer" /\ wire'[i].query = wire'[j].query
          => i = j
  BY <1>1, <1>3 DEF AskedInv
<1> QED BY <1>4, <1>5, <1>6 DEF AskedInv, Awaits

\* A message that is heard is, if anything, the only answer to its query.
LEMMA AskedHeard ==
  ASSUME TypeOK, AskedInv, wire # <<>>, wire' = Tail(wire), UNCHANGED <<asked, pulls>>,
         \A p \in Query : \/ query'[p] = query[p]
                          \/ ~ Awaits(p)
                          \/ wire[1].kind = "answer" /\ p = wire[1].query
  PROVE  AskedInv'
<1>1. /\ 1 \in DOMAIN wire
      /\ Len(wire') \in Nat
      /\ DOMAIN wire' = 1 .. Len(wire')
      /\ \A i \in 1 .. Len(wire') : i + 1 \in DOMAIN wire /\ wire'[i] = wire[i + 1]
      /\ \A i \in DOMAIN wire : wire[i] \in Message
  BY HeardShape, WireShape
<1>2. ASSUME NEW p \in Query, Awaits(p), ~ (wire[1].kind = "answer" /\ p = wire[1].query)
      PROVE  query'[p].pc \in {"await", "asked"} /\ ~ (query'[p].kind = "diagnostics" /\ ~ pulls')
  BY <1>2 DEF Awaits, IsPush
<1>3. \A p \in asked : ~ (wire[1].kind = "answer" /\ p = wire[1].query) /\ p \in Query /\ Awaits(p)
  BY <1>1 DEF AskedInv, TypeOK
<1>4. \A q \in asked' : Awaits(q)'
  BY <1>2, <1>3 DEF Awaits, IsPush
<1>5. ASSUME NEW i \in 1 .. Len(wire'), wire[i + 1].kind = "answer"
      PROVE  /\ wire[i + 1].query \in Query /\ Awaits(wire[i + 1].query)
             /\ wire[i + 1].query \notin asked
             /\ ~ (wire[1].kind = "answer" /\ wire[i + 1].query = wire[1].query)
  <2>1. i + 1 \in DOMAIN wire /\ i + 1 # 1
    BY <1>1, <1>5
  <2>2. wire[i + 1].query \in Query
    BY <1>1, <1>5, <2>1, Kinds3 DEF AboutQuery
  <2> QED BY <1>1, <1>5, <2>1, <2>2 DEF AskedInv
<1>6. \A i \in DOMAIN wire' :
        wire'[i].kind = "answer" =>
          /\ query'[wire'[i].query].pc \in {"await", "asked"}
          /\ ~ (query'[wire'[i].query].kind = "diagnostics" /\ ~ pulls')
          /\ wire'[i].query \notin asked'
  BY <1>1, <1>2, <1>5
<1>7. \A i, j \in DOMAIN wire' :
        wire'[i].kind = "answer" /\ wire'[j].kind = "answer" /\ wire'[i].query = wire'[j].query
          => i = j
  <2> SUFFICES ASSUME NEW i \in 1 .. Len(wire'), NEW j \in 1 .. Len(wire'),
                      wire[i + 1].kind = "answer", wire[j + 1].kind = "answer",
                      wire[i + 1].query = wire[j + 1].query
               PROVE  i = j
    BY <1>1
  <2>1. i + 1 = j + 1
    BY <1>1 DEF AskedInv
  <2> QED BY <2>1
<1> QED BY <1>4, <1>6, <1>7 DEF AskedInv, Awaits, IsPush

\* A call that moves before it is asked, or asks.
LEMMA AskedMoves ==
  ASSUME TypeOK, AskedInv, NEW q \in Query, ~ Awaits(q), UNCHANGED <<wire, pulls>>,
         \A p \in Query : p # q => query'[p] = query[p],
         asked' = asked \/ (asked' = asked \cup {q} /\ Awaits(q)')
  PROVE  AskedInv'
<1>1. q \notin asked
  BY DEF AskedInv
<1>2. \A i \in DOMAIN wire : wire[i].kind = "answer" => wire[i].query \in Query /\ wire[i].query # q
  BY WireShape, Kinds3 DEF AskedInv, AboutQuery
<1>3. ASSUME NEW p \in Query, p # q, Awaits(p)
      PROVE  query'[p].pc \in {"await", "asked"} /\ ~ (query'[p].kind = "diagnostics" /\ ~ pulls')
  BY <1>3 DEF Awaits, IsPush
<1>4. \A p \in asked' : Awaits(p)'
  BY <1>1, <1>3 DEF AskedInv, Awaits, IsPush, TypeOK
<1>5. \A i \in DOMAIN wire' :
        wire'[i].kind = "answer" =>
          /\ query'[wire'[i].query].pc \in {"await", "asked"}
          /\ ~ (query'[wire'[i].query].kind = "diagnostics" /\ ~ pulls')
          /\ wire'[i].query \notin asked'
  BY <1>2, <1>3 DEF AskedInv
<1> QED BY <1>4, <1>5 DEF AskedInv, Awaits, IsPush

\* The calls and the documents, when no step touches them.
LEMMA CallsFrame ==
  ASSUME SoundInv, LockInv, UNCHANGED <<docs, query, pulls>>
  PROVE  SoundInv' /\ LockInv'
BY DEF SoundInv, Sound, IsPush, IsPull, LockInv, Running

LEMMA WireFrame ==
  ASSUME WireInv, UNCHANGED <<wire, load, progress>>
  PROVE  WireInv'
BY DEF WireInv, Announced, Foreseen

-----------------------------------------------------------------------------
(* The steps of the server.                                                *)

\* What the server says of a load, or of a document, disturbs no call.
LEMMA SendStep ==
  ASSUME IInv, NEW m \in Message, m.kind # "answer", Sends(m),
         load' \in [Load -> {"before", "asking", "ready", "active", "after"}],
         UNCHANGED <<docs, texts, asked, progress, pulls, query, now>>,
         \A t \in Load : load'[t] = load[t] \/ (m.kind \in {"request", "begin", "end"} /\ t = m.token),
         m.kind = "request" => load[m.token] = "before" /\ load'[m.token] = "asking",
         m.kind = "begin" => load[m.token] = "ready" /\ load'[m.token] = "active",
         m.kind = "end" => load[m.token] = "active" /\ load'[m.token] = "after",
         m.kind = "publish" => m.report # None
  PROVE  IInv'
<1> USE DEF IInv
<1>1. TypeOK'
  BY SendShape DEF TypeOK
<1>2. WireInv'
  BY SendWire
<1>3. AskedInv'
  BY AskedSends
<1>4. SoundInv' /\ LockInv'
  BY CallsFrame
<1>5. DocInv'
  BY DEF DocInv
<1> QED BY <1>1, <1>2, <1>3, <1>4, <1>5

LEMMA LoadStep ==
  ASSUME IInv, NEW t \in Load, AskToken(t) \/ BeginLoad(t) \/ EndLoad(t)
  PROVE  IInv'
<1>1. load \in [Load -> {"before", "asking", "ready", "active", "after"}]
  BY DEF IInv, TypeOK
<1>2. ASSUME NEW kind \in {"request", "begin", "end"}
      PROVE  [kind |-> kind, token |-> t] \in Message
  BY DEF Message, AboutToken
<1>3. CASE AskToken(t)
  <2> DEFINE m == [kind |-> "request", token |-> t]
  <2>1. /\ load[t] = "before" /\ load' = [load EXCEPT ![t] = "asking"] /\ Sends(m)
        /\ UNCHANGED <<docs, texts, asked, progress, pulls, query, now>>
    BY <1>3 DEF AskToken
  <2>2. m \in Message /\ m.kind = "request" /\ m.token = t
    BY <1>2
  <2> HIDE DEF m
  <2> QED BY <1>1, <2>1, <2>2, SendStep
<1>4. CASE BeginLoad(t)
  <2> DEFINE m == [kind |-> "begin", token |-> t]
  <2>1. /\ load[t] = "ready" /\ load' = [load EXCEPT ![t] = "active"] /\ Sends(m)
        /\ UNCHANGED <<docs, texts, asked, progress, pulls, query, now>>
    BY <1>4 DEF BeginLoad
  <2>2. m \in Message /\ m.kind = "begin" /\ m.token = t
    BY <1>2
  <2> HIDE DEF m
  <2> QED BY <1>1, <2>1, <2>2, SendStep
<1>5. CASE EndLoad(t)
  <2> DEFINE m == [kind |-> "end", token |-> t]
  <2>1. /\ load[t] = "active" /\ load' = [load EXCEPT ![t] = "after"] /\ Sends(m)
        /\ UNCHANGED <<docs, texts, asked, progress, pulls, query, now>>
    BY <1>5 DEF EndLoad
  <2>2. m \in Message /\ m.kind = "end" /\ m.token = t
    BY <1>2
  <2> HIDE DEF m
  <2> QED BY <1>1, <2>1, <2>2, SendStep
<1> QED BY <1>3, <1>4, <1>5

\* A report is of a text and of a life of its document.
LEMMA ReportShape ==
  ASSUME IInv, LifeType, NEW u \in Doc, docs[u].buffer.open
  PROVE  Report(u) \in Reported /\ Report(u) # None
<1>1. docs[u].buffer.text \in Nat
  BY DEF IInv, TypeOK, DocInv, Document, Buffer, Text
<1>2. life[u].nth \in Nat
  BY DEF LifeType
<1>3. Report(u) \in Reported
  BY <1>1, <1>2 DEF Report, Reported
<1> QED BY <1>3, SessionAssumption DEF Reported

LEMMA PublishStep ==
  ASSUME IInv, LifeType, NEW u \in Doc, PublishReport(u)
  PROVE  IInv'
<1> DEFINE r == Report(u)
           m == [kind |-> "publish", doc |-> u, report |-> r]
<1>1. /\ docs[u].buffer.open /\ Sends(m)
      /\ UNCHANGED <<docs, texts, load, asked, progress, pulls, query, now>>
  BY DEF PublishReport
<1>2. r \in Reported /\ r # None
  BY <1>1, ReportShape
<1> HIDE DEF r
<1>3. m \in Message /\ m.kind = "publish" /\ m.report = r
  BY <1>2 DEF Message, AboutDoc
<1>5. load' \in [Load -> {"before", "asking", "ready", "active", "after"}]
  BY <1>1 DEF IInv, TypeOK
<1> HIDE DEF m
<1> QED BY <1>1, <1>2, <1>3, <1>5, SendStep

\* An answer that is not of a loaded project is given during a load.
LEMMA AnswerStep ==
  ASSUME IInv, NEW q \in Query, NEW content \in {"full", "empty", "soft", "failure"},
         Answer(q, content)
  PROVE  IInv'
<1> USE DEF IInv
<1> DEFINE m == [kind |-> "answer", query |-> q, content |-> content, whole |-> Loaded]
<1>1. /\ q \in asked /\ Started /\ asked' = asked \ {q} /\ Sends(m)
      /\ UNCHANGED <<docs, texts, load, progress, pulls, query, now>>
  BY DEF Answer
<1>2. Loaded \in BOOLEAN
  BY DEF Loaded
<1>3. m \in Message /\ m.kind = "answer" /\ m.query = q /\ (~ m.whole => ~ Loaded)
  BY <1>2 DEF Message, AboutQuery
<1>4. ~ m.whole => \E t \in Load : load[t] = "active"
  BY <1>1, <1>3 DEF Loaded, Started, TypeOK
<1> HIDE DEF m
<1>5. /\ DOMAIN wire' = DOMAIN wire \cup {Len(wire) + 1}
      /\ Len(wire) + 1 \notin DOMAIN wire
      /\ \A i \in DOMAIN wire : wire'[i] = wire[i]
      /\ wire'[Len(wire) + 1] = m
      /\ wire' \in Seq(Message)
  BY <1>1, <1>3, SendShape
<1>6. TypeOK'
  BY <1>1, <1>5 DEF TypeOK
<1>7. WireInv'
  BY <1>1, <1>3, <1>4, SendWire
<1>8. AskedInv'
  <2>1. \A p : Awaits(p)' <=> Awaits(p)
    BY <1>1 DEF Awaits, IsPush
  <2>2. \A p \in asked' : Awaits(p)'
    BY <1>1, <2>1 DEF AskedInv
  <2>3. Awaits(q)
    BY <1>1 DEF AskedInv
  <2>4. \A i \in DOMAIN wire : wire[i].kind = "answer" => wire[i].query # q
    BY <1>1 DEF AskedInv
  <2>5. \A i \in DOMAIN wire' :
          wire'[i].kind = "answer" =>
            /\ query'[wire'[i].query].pc \in {"await", "asked"}
            /\ ~ (query'[wire'[i].query].kind = "diagnostics" /\ ~ pulls')
            /\ wire'[i].query \notin asked'
    BY <1>1, <1>3, <1>5, <2>3 DEF AskedInv, Awaits, IsPush
  <2>6. \A i, j \in DOMAIN wire' :
          wire'[i].kind = "answer" /\ wire'[j].kind = "answer" /\ wire'[i].query = wire'[j].query
            => i = j
    BY <1>3, <1>5, <2>4 DEF AskedInv
  <2> QED BY <2>2, <2>5, <2>6 DEF AskedInv, Awaits, IsPush
<1>9. SoundInv' /\ LockInv'
  BY <1>1, CallsFrame
<1>10. DocInv'
  BY <1>1 DEF DocInv
<1> QED BY <1>6, <1>7, <1>8, <1>9, <1>10

-----------------------------------------------------------------------------
(* The steps of a call.                                                    *)

\* A call that was not waiting for an answer moves on, asks, or returns.
LEMMA CallStep ==
  ASSUME IInv, NEW q \in Query, NEW c \in Record,
         query[q].pc \notin {"idle", "await", "asked", "done"},
         query' = [query EXCEPT ![q] = c],
         UNCHANGED <<docs, texts, load, wire, progress, pulls, now>>,
         c.pc \notin {"idle", "done"} => c.doc = query[q].doc,
         Sound(c),
         asked' = asked \/ (Ask(q) /\ c.pc \in {"await", "asked"} /\ ~ IsPush(c))
  PROVE  IInv'
<1> USE DEF IInv
<1>1. Running(q) /\ ~ Awaits(q)
  BY DEF Running, Awaits
<1>2. /\ query' \in [Query -> Record]
      /\ query'[q] = c
      /\ \A p \in Query : p # q => query'[p] = query[p]
      /\ SoundInv' /\ LockInv'
  BY <1>1, MoveQuery
<1>3. TypeOK'
  BY <1>2 DEF TypeOK, Ask
<1>4. WireInv'
  BY WireFrame
<1>5. c.pc \in {"await", "asked"} /\ ~ IsPush(c) => Awaits(q)'
  BY <1>2 DEF Awaits, IsPush
<1>6. AskedInv'
  BY <1>1, <1>2, <1>5, AskedMoves DEF Ask
<1>7. DocInv'
  BY DEF DocInv
<1> QED BY <1>2, <1>3, <1>4, <1>6, <1>7

LEMMA ClientSteps ==
  ASSUME IInv, NEW q \in Query, ClientStep(q)
  PROVE  IInv'
<1> DEFINE c == query[q]
<1>1. /\ c \in Record /\ Sound(c) /\ now \in Nat /\ pulls \in BOOLEAN
      /\ c.status \in Verdicts /\ c.doc \in Doc \cup {None}
      /\ query \in [Query -> Record]
  BY DEF IInv, TypeOK, SoundInv, Record, Verdicts
<1>2. ASSUME NEW stage \in Stage
      PROVE  LET r == [c EXCEPT !.pc = stage]
             IN  /\ r \in Record /\ r.pc = stage /\ r.kind = c.kind /\ r.doc = c.doc
                 /\ r.status = c.status /\ r.report = c.report
  BY <1>1 DEF Record
<1>3. CASE SendRequest(q)
  <2> DEFINE r == [c EXCEPT !.pc = "await"]
  <2>1. /\ c.pc = "settle" /\ ~ IsPush(c) /\ Ask(q)
        /\ query' = [query EXCEPT ![q] = r]
        /\ UNCHANGED <<docs, texts, load, wire, progress, pulls, now>>
    BY <1>3 DEF SendRequest
  <2>2. r \in Record /\ r.pc = "await" /\ r.kind = c.kind /\ r.doc = c.doc /\ r.status = c.status
    BY <1>2 DEF Stage
  <2> HIDE DEF r
  <2>3. Sound(r) /\ ~ IsPush(r)
    BY <1>1, <2>1, <2>2 DEF Sound, IsPush
  <2> QED BY <2>1, <2>2, <2>3, CallStep
<1>4. CASE AskCalls(q)
  <2> DEFINE r == [c EXCEPT !.pc = "asked"]
  <2>1. /\ c.pc = "items" /\ Ask(q)
        /\ query' = [query EXCEPT ![q] = r]
        /\ UNCHANGED <<docs, texts, load, wire, progress, pulls, now>>
    BY <1>4 DEF AskCalls
  <2>2. r \in Record /\ r.pc = "asked" /\ r.kind = c.kind /\ r.doc = c.doc /\ r.status = c.status
    BY <1>2 DEF Stage
  <2>3. c.kind = "calls" /\ c.status = "none"
    BY <1>1, <2>1 DEF Sound
  <2> HIDE DEF r
  <2>4. Sound(r) /\ ~ IsPush(r)
    BY <2>2, <2>3 DEF Sound, IsPush
  <2> QED BY <2>1, <2>2, <2>4, CallStep
<1>5. CASE PullNotSettled(q)
  <2> DEFINE r == Returned(c, "not_ready", FALSE)
  <2>1. /\ c.pc = "settle" /\ IsPull(c) /\ query' = [query EXCEPT ![q] = r]
        /\ UNCHANGED <<docs, texts, load, asked, wire, progress, pulls, now>>
    BY <1>5 DEF PullNotSettled
  <2>2. r \in Record /\ r.pc = "done" /\ r.status = "not_ready"
    BY <1>1, ReturnedRecord DEF Verdicts
  <2> HIDE DEF r
  <2>3. Sound(r)
    BY <2>2 DEF Sound
  <2> QED BY <2>1, <2>2, <2>3, CallStep
<1>6. CASE ReadReport(q)
  <2> DEFINE d == docs[c.doc]
             r == [c EXCEPT !.report = d.cached]
  <2>1. /\ c.pc = "settle" /\ IsPush(c)
        /\ query' = [query EXCEPT ![q] =
                       IF ~ Indexing /\ ~ d.awaiting THEN Returned(r, "ok", TRUE)
                       ELSE IF Late(q) THEN Returned(r, "not_ready", FALSE)
                       ELSE [c EXCEPT !.pc = "publish"]]
        /\ UNCHANGED <<docs, texts, load, asked, wire, progress, pulls, now>>
    BY <1>6 DEF ReadReport
  <2>2. c.doc \in Doc /\ d.open
    BY <2>1 DEF IInv, LockInv, Running
  <2>3. d \in Document /\ (~ d.awaiting => d.cached # None)
    BY <2>2 DEF IInv, TypeOK, DocInv
  <2> HIDE DEF d
  <2>4. r \in Record /\ r.kind = c.kind /\ r.report = d.cached
    BY <1>1, <2>3 DEF Record, Document
  <2> HIDE DEF r
  <2>5. c.kind = "diagnostics" /\ ~ pulls
    BY <2>1 DEF IsPush
  <2>6. CASE ~ Indexing /\ ~ d.awaiting
    <3> DEFINE e == Returned(r, "ok", TRUE)
    <3>1. /\ e \in Record /\ e.kind = c.kind /\ e.pc = "done" /\ e.status = "ok"
          /\ e.report = d.cached
      BY <1>1, <2>4, ReturnedRecord DEF Verdicts
    <3>2. query' = [query EXCEPT ![q] = e]
      BY <2>1, <2>6
    <3> HIDE DEF e
    <3>3. Sound(e)
      BY <2>3, <2>5, <2>6, <3>1 DEF Sound, IsPush, IsPull
    <3> QED BY <2>1, <3>1, <3>2, <3>3, CallStep
  <2>7. CASE ~ (~ Indexing /\ ~ d.awaiting) /\ Late(q)
    <3> DEFINE e == Returned(r, "not_ready", FALSE)
    <3>1. e \in Record /\ e.pc = "done" /\ e.status = "not_ready"
      BY <1>1, <2>4, ReturnedRecord DEF Verdicts
    <3>2. query' = [query EXCEPT ![q] = e]
      BY <2>1, <2>7
    <3> HIDE DEF e
    <3>3. Sound(e)
      BY <3>1 DEF Sound
    <3> QED BY <2>1, <3>1, <3>2, <3>3, CallStep
  <2>8. CASE ~ (~ Indexing /\ ~ d.awaiting) /\ ~ Late(q)
    <3> DEFINE e == [c EXCEPT !.pc = "publish"]
    <3>1. e \in Record /\ e.pc = "publish" /\ e.kind = c.kind /\ e.doc = c.doc /\ e.status = c.status
      BY <1>2 DEF Stage
    <3>2. query' = [query EXCEPT ![q] = e]
      BY <2>1, <2>8
    <3> HIDE DEF e
    <3>3. Sound(e)
      BY <1>1, <2>1, <3>1 DEF Sound
    <3> QED BY <2>1, <3>1, <3>2, <3>3, CallStep
  <2> QED BY <2>6, <2>7, <2>8
<1>7. CASE Wake(q)
  <2> DEFINE r == [c EXCEPT !.pc = "settle"]
  <2>1. /\ c.pc \in {"publish", "backoff"} /\ query' = [query EXCEPT ![q] = r]
        /\ UNCHANGED <<docs, texts, load, asked, wire, progress, pulls, now>>
    BY <1>7 DEF Wake
  <2>2. r \in Record /\ r.pc = "settle" /\ r.kind = c.kind /\ r.doc = c.doc /\ r.status = c.status
    BY <1>2 DEF Stage
  <2> HIDE DEF r
  <2>3. Sound(r)
    BY <1>1, <2>1, <2>2 DEF Sound
  <2> QED BY <2>1, <2>2, <2>3, CallStep
<1> QED BY <1>3, <1>4, <1>5, <1>6, <1>7 DEF ClientStep

\* A new call: its document is open by the time it waits.
LEMMA NewCall ==
  ASSUME IInv, NEW q \in Query, NEW kind \in Kinds, NEW u \in Doc, Call(q, kind, u)
  PROVE  IInv'
<1> USE DEF IInv
<1>1. PICK end \in Nat : end = now + Timeout
  BY SessionAssumption DEF TypeOK
<1>2. PICK c : c = [Idle EXCEPT !.kind = kind, !.doc = u, !.pc = "settle", !.deadline = end]
  OBVIOUS
<1>3. /\ query[q].pc = "idle"
      /\ docs' = EnsureOpen(docs, u, texts[u])
      /\ query' = [query EXCEPT ![q] = c]
      /\ UNCHANGED <<texts, load, asked, wire, progress, pulls, now>>
  BY <1>1, <1>2 DEF Call
<1>5. c \in Record /\ c.pc = "settle" /\ c.doc = u /\ c.status = "none"
  <2> DEFINE a == [Idle EXCEPT !.kind = kind, !.doc = u]
             b == [a EXCEPT !.pc = "settle", !.deadline = end]
  <2>1. Idle \in Record /\ Idle.status = "none"
    BY DEF Idle, Record, Stage, Text
  <2>2. a \in Record /\ a.doc = u /\ a.status = "none"
    BY <2>1 DEF Record
  <2> HIDE DEF a
  <2>3. b \in Record /\ b.pc = "settle" /\ b.doc = u /\ b.status = "none"
    BY <2>2 DEF Record, Stage
  <2>4. c = b
    BY <1>2 DEF a
  <2> HIDE DEF b
  <2> QED BY <2>3, <2>4
<1>6. Sound(c)
  BY <1>5 DEF Sound
<1>7. /\ docs' \in [Doc -> Document] /\ DocInv' /\ docs'[u].open
      /\ \A v \in Doc : docs[v].open => docs'[v].open
  <2>1. texts[u] \in Nat /\ docs \in [Doc -> Document] /\ None \notin Nat
    BY SessionAssumption DEF TypeOK
  <2> QED BY <1>3, <2>1, OpenDoc
<1>8. /\ query' \in [Query -> Record]
      /\ query'[q] = c
      /\ \A p \in Query : p # q => query'[p] = query[p]
  BY <1>3, <1>5 DEF TypeOK
<1>9. TypeOK'
  BY <1>3, <1>7, <1>8 DEF TypeOK
<1>10. WireInv'
  BY <1>3, WireFrame
<1>11. ~ Awaits(q)
  BY <1>3 DEF Awaits
<1>12. AskedInv'
  BY <1>3, <1>8, <1>11, AskedMoves
<1>13. SoundInv'
  <2> SUFFICES ASSUME NEW p \in Query
               PROVE  Sound(query[p])'
    BY DEF SoundInv
  <2>1. CASE p = q
    BY <1>3, <1>6, <1>8, <2>1 DEF Sound, IsPush, IsPull
  <2>2. CASE p # q
    BY <1>3, <1>8, <2>2 DEF SoundInv, Sound, IsPush, IsPull
  <2> QED BY <2>1, <2>2
<1>14. LockInv'
  BY <1>5, <1>7, <1>8 DEF LockInv, Running
<1> QED BY <1>7, <1>9, <1>10, <1>12, <1>13, <1>14

-----------------------------------------------------------------------------
(* What the client hears.                                                  *)

LEMMA ProgressStep ==
  ASSUME IInv, ReceiveProgress
  PROVE  IInv'
<1> USE DEF IInv
<1>1. /\ wire # <<>> /\ wire' = Tail(wire)
      /\ UNCHANGED <<docs, texts, load, asked, pulls, query, now>>
  BY DEF ReceiveProgress, Heard
<1>2. wire' \in Seq(Message) /\ Head(wire) = wire[1] /\ wire[1] \in Message
  BY <1>1, HeardShape
<1>3. \/ wire[1].kind = "begin" /\ progress' = progress \cup {wire[1].token}
      \/ wire[1].kind = "end" /\ progress' = progress \ {wire[1].token}
  BY <1>2 DEF ReceiveProgress, Heard
<1>4. wire[1].token \in Load
  BY <1>2, <1>3, Kinds3
<1>5. TypeOK'
  BY <1>1, <1>2, <1>3, <1>4 DEF TypeOK
<1>6. /\ progress' = CASE wire[1].kind = "begin" -> progress \cup {wire[1].token}
                       [] wire[1].kind = "end" -> progress \ {wire[1].token}
                       [] OTHER -> progress
      /\ load' = IF wire[1].kind = "request" THEN [load EXCEPT ![wire[1].token] = "ready"] ELSE load
  BY <1>1, <1>3
<1>7. WireInv'
  BY <1>1, <1>6, HeardWire
<1>8. AskedInv'
  BY <1>1, AskedHeard
<1>9. SoundInv' /\ LockInv'
  BY <1>1, CallsFrame
<1>10. DocInv'
  BY <1>1 DEF DocInv
<1> QED BY <1>5, <1>7, <1>8, <1>9, <1>10

LEMMA RequestStep ==
  ASSUME IInv, ReceiveRequest
  PROVE  IInv'
<1> USE DEF IInv
<1>1. /\ wire # <<>> /\ wire' = Tail(wire) /\ Head(wire).kind = "request"
      /\ load' = [load EXCEPT ![Head(wire).token] = "ready"]
      /\ UNCHANGED <<docs, texts, asked, progress, pulls, query, now>>
  BY DEF ReceiveRequest, Reply, Heard
<1>2. wire' \in Seq(Message) /\ Head(wire) = wire[1] /\ wire[1] \in Message
  BY <1>1, HeardShape
<1>3. wire[1].token \in Load
  BY <1>1, <1>2, Kinds3
<1>4. TypeOK'
  BY <1>1, <1>2, <1>3 DEF TypeOK
<1>5. /\ progress' = CASE wire[1].kind = "begin" -> progress \cup {wire[1].token}
                       [] wire[1].kind = "end" -> progress \ {wire[1].token}
                       [] OTHER -> progress
      /\ load' = IF wire[1].kind = "request" THEN [load EXCEPT ![wire[1].token] = "ready"] ELSE load
  BY <1>1, <1>2
<1>6. WireInv'
  BY <1>1, <1>5, HeardWire
<1>7. AskedInv'
  BY <1>1, AskedHeard
<1>8. SoundInv' /\ LockInv'
  BY <1>1, CallsFrame
<1>9. DocInv'
  BY <1>1 DEF DocInv
<1> QED BY <1>4, <1>6, <1>7, <1>8, <1>9

\* The answer that is heard was foreseen: if the project was being loaded when
\* it was given, the client knows.
LEMMA AnswerHeard ==
  ASSUME IInv, ReceiveAnswer
  PROVE  IInv'
<1> USE DEF IInv
<1> DEFINE m == wire[1]
           q == m.query
           r == Answered(query[q], m)
<1>1. /\ wire # <<>> /\ wire' = Tail(wire) /\ Head(wire).kind = "answer"
      /\ query' = [query EXCEPT ![Head(wire).query] = Answered(@, Head(wire))]
      /\ UNCHANGED <<docs, texts, load, asked, progress, pulls, now>>
  BY DEF ReceiveAnswer, Heard
<1>2. wire' \in Seq(Message) /\ Head(wire) = m /\ m \in Message /\ 1 \in DOMAIN wire
  BY <1>1, HeardShape
<1>3. m.kind = "answer" /\ m \in AboutQuery
  BY <1>1, <1>2, Kinds3
<1>4. q \in Query
  BY <1>3 DEF AboutQuery
<1>5. query' = [query EXCEPT ![q] = r]
  BY <1>1, <1>2
<1>6. Awaits(q)
  BY <1>2, <1>3 DEF AskedInv
<1>7. ~ m.whole => Indexing
  <2> SUFFICES ASSUME ~ m.whole
               PROVE  progress # {}
    BY DEF Indexing
  <2>1. PICK t \in Load : Foreseen(t, 1)
    BY <1>2, <1>3 DEF WireInv
  <2> QED BY <2>1, ForeseenNow
<1>8. query[q] \in Record /\ Sound(query[q]) /\ query[q].pc \in {"await", "asked"} /\ ~ IsPush(query[q])
  BY <1>4, <1>6 DEF TypeOK, SoundInv, Awaits
<1>9. /\ r \in Record /\ r.pc \notin {"idle", "await", "asked"}
      /\ r.pc # "done" => r.doc = query[q].doc
      /\ Sound(r)
  BY <1>3, <1>7, <1>8, AnsweredSound
<1>10. Running(q)
  BY <1>8 DEF Running
<1> HIDE DEF m, q, r
<1>11. /\ query' \in [Query -> Record]
       /\ query'[q] = r
       /\ \A p \in Query : p # q => query'[p] = query[p]
       /\ SoundInv' /\ LockInv'
  BY <1>1, <1>4, <1>5, <1>9, <1>10, MoveQuery
<1>12. TypeOK'
  BY <1>1, <1>2, <1>11 DEF TypeOK
<1>13. WireInv'
  <2>1. /\ progress' = CASE wire[1].kind = "begin" -> progress \cup {wire[1].token}
                         [] wire[1].kind = "end" -> progress \ {wire[1].token}
                         [] OTHER -> progress
        /\ load' = IF wire[1].kind = "request" THEN [load EXCEPT ![wire[1].token] = "ready"] ELSE load
    BY <1>1, <1>3 DEF m
  <2> QED BY <1>1, <2>1, HeardWire
<1>14. AskedInv'
  <2>1. \A p \in Query : query'[p] = query[p] \/ (wire[1].kind = "answer" /\ p = wire[1].query)
    BY <1>3, <1>11 DEF m, q
  <2> QED BY <1>1, <2>1, AskedHeard
<1>15. DocInv'
  BY <1>1 DEF DocInv
<1> QED BY <1>11, <1>12, <1>13, <1>14, <1>15

\* A report is cached, and the calls that wait for it look again.
LEMMA ReportStep ==
  ASSUME IInv, ReceiveReport
  PROVE  IInv'
<1> USE DEF IInv
<1> DEFINE u == wire[1].doc
<1>1. /\ wire # <<>> /\ wire' = Tail(wire) /\ Head(wire).kind = "publish"
      /\ UNCHANGED <<texts, load, asked, progress, pulls, now>>
  BY DEF ReceiveReport, Heard
<1>2. wire' \in Seq(Message) /\ Head(wire) = wire[1] /\ wire[1] \in Message /\ 1 \in DOMAIN wire
  BY <1>1, HeardShape
<1>3. wire[1].kind = "publish" /\ u \in Doc /\ wire[1].report \in Reported /\ wire[1].report # None
  BY <1>1, <1>2, Kinds3 DEF WireInv
<1>4. /\ docs' = Publish(docs, u, wire[1].report)
      /\ query' = [p \in Query |->
                     IF query[p].pc = "publish" /\ query[p].doc = u
                     THEN [query[p] EXCEPT !.pc = "settle"] ELSE query[p]]
  BY <1>2 DEF ReceiveReport
<1>5. /\ docs' \in [Doc -> Document] /\ DocInv'
      /\ \A v \in Doc : docs[v].open => docs'[v].open
  BY <1>3, <1>4, PublishDoc DEF TypeOK
<1>6. ASSUME NEW p \in Query
      PROVE  \/ query'[p] = query[p]
             \/ /\ query[p].pc = "publish"
                /\ query'[p] \in Record /\ query'[p].pc = "settle" /\ query'[p].kind = query[p].kind
                /\ query'[p].doc = query[p].doc /\ query'[p].status = query[p].status
  <2> DEFINE r == [query[p] EXCEPT !.pc = "settle"]
  <2>1. query[p] \in Record
    BY DEF TypeOK
  <2>2. /\ r \in Record /\ r.pc = "settle" /\ r.kind = query[p].kind /\ r.doc = query[p].doc
        /\ r.status = query[p].status
    BY <2>1 DEF Record, Stage
  <2>3. query'[p] = query[p] \/ (query[p].pc = "publish" /\ query'[p] = r)
    BY <1>4
  <2> HIDE DEF r
  <2> QED BY <2>2, <2>3
<1> HIDE DEF u
<1>7. query' \in [Query -> Record]
  <2>1. \A p \in Query : query'[p] \in Record
    BY <1>6 DEF TypeOK
  <2> QED BY <1>4, <2>1
<1>8. TypeOK'
  BY <1>1, <1>2, <1>5, <1>7 DEF TypeOK
<1>9. WireInv'
  <2>1. /\ progress' = CASE wire[1].kind = "begin" -> progress \cup {wire[1].token}
                         [] wire[1].kind = "end" -> progress \ {wire[1].token}
                         [] OTHER -> progress
        /\ load' = IF wire[1].kind = "request" THEN [load EXCEPT ![wire[1].token] = "ready"] ELSE load
    BY <1>1, <1>3
  <2> QED BY <1>1, <2>1, HeardWire
<1>10. AskedInv'
  <2>1. \A p \in Query : query'[p] = query[p] \/ ~ Awaits(p)
    BY <1>6 DEF Awaits
  <2> QED BY <1>1, <2>1, AskedHeard
<1>11. SoundInv'
  <2> SUFFICES ASSUME NEW p \in Query
               PROVE  Sound(query[p])'
    BY DEF SoundInv
  <2>1. Sound(query[p])
    BY DEF SoundInv
  <2>2. CASE query'[p] = query[p]
    BY <1>1, <2>1, <2>2 DEF Sound, IsPush, IsPull
  <2>3. CASE query[p].pc = "publish" /\ query'[p].pc = "settle" /\ query'[p].status = query[p].status
    BY <2>1, <2>3 DEF Sound
  <2> QED BY <1>6, <2>2, <2>3
<1>12. LockInv'
  <2> SUFFICES ASSUME NEW p \in Query, Running(p)'
               PROVE  query'[p].doc \in Doc /\ docs'[query'[p].doc].open
    BY DEF LockInv
  <2>1. Running(p) /\ query'[p].doc = query[p].doc
    BY <1>6 DEF Running
  <2> QED BY <1>5, <2>1 DEF LockInv
<1> QED BY <1>5, <1>8, <1>9, <1>10, <1>11, <1>12

-----------------------------------------------------------------------------
(* Edits between two calls of a document.                                  *)

\* Documents that calls have open stay so.
LEMMA EditStep ==
  ASSUME IInv, docs' \in [Doc -> Document], DocInv', texts' \in [Doc -> Nat],
         \A q \in Query : Running(q) => docs'[query[q].doc].open,
         UNCHANGED <<load, asked, wire, progress, pulls, query, now>>
  PROVE  IInv'
<1> USE DEF IInv
<1>1. TypeOK'
  BY DEF TypeOK
<1>2. WireInv'
  BY WireFrame
<1>3. AskedInv'
  BY DEF AskedInv, Awaits, IsPush
<1>4. SoundInv'
  BY DEF SoundInv, Sound, IsPush, IsPull
<1>5. LockInv'
  BY DEF LockInv, Running
<1> QED BY <1>1, <1>2, <1>3, <1>4, <1>5

LEMMA RenameStep ==
  ASSUME IInv, NEW u \in Doc, ApplyRename(u) \/ ReplaceFile(u)
  PROVE  IInv'
<1>1. /\ MayEdit(u) /\ texts' = [texts EXCEPT ![u] = @ + 1]
      /\ UNCHANGED <<load, asked, wire, progress, pulls, query, now>>
  BY DEF ApplyRename, ReplaceFile
<1>2. /\ docs \in [Doc -> Document] /\ DocInv /\ texts \in [Doc -> Nat] /\ texts[u] + 1 \in Nat
      /\ None \notin Nat
  BY SessionAssumption DEF IInv, TypeOK
<1>3. texts' \in [Doc -> Nat]
  BY <1>1, <1>2
<1>4. \A q \in Query : Running(q) => query[q].doc \in Doc /\ docs[query[q].doc].open /\ query[q].doc # u
  BY <1>1 DEF IInv, LockInv, MayEdit, Unlocked
<1>5. CASE ApplyRename(u)
  <2>1. docs' = ApplyEdited(docs, u, texts[u] + 1)
    BY <1>5 DEF ApplyRename
  <2>2. /\ docs' \in [Doc -> Document] /\ DocInv'
        /\ \A v \in Doc : docs[v].open => docs'[v].open
    BY <1>2, <2>1, EditDoc
  <2> QED BY <1>1, <1>3, <1>4, <2>2, EditStep
<1>6. CASE ReplaceFile(u)
  <2>1. docs' = DidFileDelete(docs, u)
    BY <1>6 DEF ReplaceFile
  <2>2. /\ docs' \in [Doc -> Document] /\ DocInv'
        /\ \A v \in Doc : v # u /\ docs[v].open => docs'[v].open
    BY <1>2, <2>1, DeleteDoc
  <2> QED BY <1>1, <1>3, <1>4, <2>2, EditStep
<1> QED BY <1>5, <1>6

-----------------------------------------------------------------------------

LEMMA InitInvariant == Init => IInv
<1> SUFFICES ASSUME Init
             PROVE  IInv
  OBVIOUS
<1>1. Closed \in Document
  <2>1. NoBuffer \in Buffer
    BY DEF NoBuffer, Buffer, Text
  <2> QED BY <2>1 DEF Closed, Document, Text
<1>2. Idle \in Record
  BY DEF Idle, Record, Stage, Text
<1>3. wire = <<>> /\ wire \in Seq(Message) /\ DOMAIN wire = {}
  BY DEF Init
<1>4. TypeOK
  BY <1>1, <1>2, <1>3 DEF Init, TypeOK
<1>5. \A q \in Query : query[q].pc = "idle" /\ query[q].status = "none"
  BY DEF Init, Idle
<1>6. DocInv
  BY DEF Init, DocInv, Closed, NoBuffer
<1>7. WireInv
  BY <1>3 DEF Init, WireInv
<1>8. LockInv
  BY <1>5 DEF LockInv, Running
<1>9. AskedInv
  BY <1>3 DEF Init, AskedInv
<1>10. SoundInv
  BY <1>5 DEF SoundInv, Sound
<1> QED BY <1>4, <1>6, <1>7, <1>8, <1>9, <1>10 DEF IInv

LEMMA NextInvariant == IInv /\ LifeType /\ [Next]_vars => IInv'
<1> SUFFICES ASSUME IInv, LifeType, [Next]_vars
             PROVE  IInv'
  OBVIOUS
<1>1. CASE \E t \in Load : AskToken(t) \/ BeginLoad(t) \/ EndLoad(t)
  BY <1>1, LoadStep
<1>2. CASE \E q \in Query : ServerAnswers(q)
  BY <1>2, AnswerStep DEF ServerAnswers
<1>3. CASE \E u \in Doc : PublishReport(u) \/ ApplyRename(u) \/ ReplaceFile(u)
  BY <1>3, PublishStep, RenameStep
<1>4. CASE \E q \in Query, kind \in Kinds, u \in Doc : Call(q, kind, u)
  BY <1>4, NewCall
<1>5. CASE \E q \in Query : ClientStep(q)
  BY <1>5, ClientSteps
<1>6. CASE Receive
  BY <1>6, ProgressStep, AnswerHeard, ReportStep, RequestStep DEF Receive
<1>7. CASE Tick \/ Hang \/ UNCHANGED vars
  <2>1. UNCHANGED <<docs, texts, load, asked, wire, progress, pulls, query>> /\ now' \in Nat
    BY <1>7 DEF Tick, Hang, vars, IInv, TypeOK
  <2>2. TypeOK' /\ DocInv'
    BY <2>1 DEF IInv, TypeOK, DocInv
  <2>3. WireInv'
    BY <2>1, WireFrame DEF IInv
  <2>4. AskedInv'
    BY <2>1 DEF IInv, AskedInv, Awaits, IsPush
  <2>5. SoundInv' /\ LockInv'
    BY <2>1, CallsFrame DEF IInv
  <2> QED BY <2>2, <2>3, <2>4, <2>5 DEF IInv
<1> QED BY <1>1, <1>2, <1>3, <1>4, <1>5, <1>6, <1>7 DEF Next

-----------------------------------------------------------------------------
(* The lives of a document.                                                *)

\* A report of the document's present life, and of its text if that has not
\* been changed in it.
OfNow(u, r) == r.nth = life[u].nth /\ (docs[u].version = 1 => r.text = texts[u])

\* Both ends hold the same text; what they are told of it is of this life,
\* unless something was under way when it began.
DocLife(u) ==
  /\ docs[u].open => /\ docs[u].buffer.open
                     /\ docs[u].buffer.version = docs[u].version
                     /\ docs[u].version >= 1
                     /\ docs[u].buffer.text = texts[u]
  /\ ~ docs[u].open => ~ docs[u].buffer.open
  /\ docs[u].open /\ ~ life[u].crossed =>
       /\ \A i \in DOMAIN wire :
            wire[i].kind = "publish" /\ wire[i].doc = u => OfNow(u, wire[i].report)
       /\ ~ docs[u].awaiting => OfNow(u, docs[u].cached)

LifeInv == LifeType /\ \A u \in Doc : DocLife(u)

\* Nothing but a report on its way, or a document, disturbs it.
LEMMA LifeFrame ==
  ASSUME IInv, LifeInv, UNCHANGED <<docs, texts, life>>,
         \A i \in DOMAIN wire' :
           wire'[i].kind = "publish" => \E j \in DOMAIN wire : wire[j] = wire'[i]
  PROVE  LifeInv'
<1> SUFFICES ASSUME NEW u \in Doc
             PROVE  DocLife(u)'
  BY DEF LifeInv, LifeType
<1>1. DocLife(u)
  BY DEF LifeInv
<1>2. \A i \in DOMAIN wire' :
        docs[u].open /\ ~ life[u].crossed /\ wire'[i].kind = "publish" /\ wire'[i].doc = u
          => OfNow(u, wire'[i].report)
  BY <1>1 DEF DocLife
<1> QED BY <1>1, <1>2 DEF DocLife, OfNow

\* What is heard was on the wire,
LEMMA HeardLife ==
  ASSUME IInv, LifeInv, UNCHANGED <<docs, texts, life>>, wire # <<>>, wire' = Tail(wire)
  PROVE  LifeInv'
<1>1. TypeOK
  BY DEF IInv
<1>2. /\ DOMAIN wire' = 1 .. Len(wire')
      /\ \A i \in 1 .. Len(wire') : i + 1 \in DOMAIN wire /\ wire'[i] = wire[i + 1]
  BY <1>1, HeardShape
<1>3. \A i \in DOMAIN wire' :
        wire'[i].kind = "publish" => \E j \in DOMAIN wire : wire[j] = wire'[i]
  BY <1>2
<1> QED BY <1>3, LifeFrame

\* and what is sent is no report.
LEMMA SentLife ==
  ASSUME IInv, LifeInv, UNCHANGED <<docs, texts, life>>, NEW m \in Message, Sends(m),
         m.kind # "publish"
  PROVE  LifeInv'
<1>1. TypeOK
  BY DEF IInv
<1>2. /\ DOMAIN wire' = DOMAIN wire \cup {Len(wire) + 1}
      /\ \A i \in DOMAIN wire : wire'[i] = wire[i]
      /\ wire'[Len(wire) + 1] = m
  BY <1>1, SendShape
<1>3. \A i \in DOMAIN wire' :
        wire'[i].kind = "publish" => \E j \in DOMAIN wire : wire[j] = wire'[i]
  BY <1>2
<1> QED BY <1>3, LifeFrame

\* The server's steps.
LEMMA ServerLife ==
  ASSUME IInv, LifeInv,
         \/ \E t \in Load : AskToken(t) \/ BeginLoad(t) \/ EndLoad(t)
         \/ \E q \in Query : ServerAnswers(q)
  PROVE  LifeInv'
<1>1. CASE \E t \in Load : AskToken(t) \/ BeginLoad(t) \/ EndLoad(t)
  <2>1. PICK t \in Load, k \in {"request", "begin", "end"} :
          Sends([kind |-> k, token |-> t]) /\ UNCHANGED <<docs, texts, life>>
    BY <1>1 DEF AskToken, BeginLoad, EndLoad
  <2>2. PICK m : m = [kind |-> k, token |-> t]
    OBVIOUS
  <2>3. m \in Message /\ m.kind # "publish" /\ Sends(m)
    BY <2>1, <2>2 DEF Message, AboutToken
  <2> QED BY <2>1, <2>3, SentLife
<1>2. CASE \E q \in Query : ServerAnswers(q)
  <2>1. PICK q \in Query, c \in {"full", "empty", "soft", "failure"} : Answer(q, c)
    BY <1>2 DEF ServerAnswers
  <2>2. PICK m : m = [kind |-> "answer", query |-> q, content |-> c, whole |-> Loaded]
    OBVIOUS
  <2>3. Loaded \in BOOLEAN
    BY DEF Loaded
  <2>4. m \in Message /\ m.kind # "publish"
    BY <2>2, <2>3 DEF Message, AboutQuery
  <2>5. Sends(m) /\ UNCHANGED <<docs, texts, life>>
    BY <2>1, <2>2 DEF Answer
  <2> QED BY <2>4, <2>5, SentLife
<1> QED BY <1>1, <1>2

\* A report that is sent is of the life the document is in, and of its text.
LEMMA PublishLife ==
  ASSUME IInv, LifeInv, NEW u \in Doc, PublishReport(u)
  PROVE  LifeInv'
<1>1. LifeType /\ TypeOK
  BY DEF LifeInv, IInv
<1>2. PICK r : r = Report(u)
  OBVIOUS
<1>3. PICK m : m = [kind |-> "publish", doc |-> u, report |-> r]
  OBVIOUS
<1>4. docs[u].buffer.open /\ Sends(m) /\ UNCHANGED <<docs, texts, life>>
  BY <1>2, <1>3 DEF PublishReport
<1>5. r \in Reported /\ r.text = docs[u].buffer.text /\ r.nth = life[u].nth
  BY <1>1, <1>2, <1>4, ReportShape DEF Report
<1>6. m \in Message /\ m.kind = "publish" /\ m.doc = u /\ m.report = r
  BY <1>3, <1>5 DEF Message, AboutDoc
<1>7. /\ DOMAIN wire' = DOMAIN wire \cup {Len(wire) + 1}
      /\ \A i \in DOMAIN wire : wire'[i] = wire[i]
      /\ wire'[Len(wire) + 1] = m
  BY <1>1, <1>4, <1>6, SendShape
<1> SUFFICES ASSUME NEW v \in Doc
             PROVE  DocLife(v)'
  BY <1>1, <1>4 DEF LifeInv, LifeType
<1>8. DocLife(v)
  BY DEF LifeInv
<1>9. docs[u].open => OfNow(u, r)
  <2>1. DocLife(u)
    BY DEF LifeInv
  <2> QED BY <1>5, <2>1 DEF DocLife, OfNow
<1>10. ASSUME docs[v].open, ~ life[v].crossed, NEW i \in DOMAIN wire',
              wire'[i].kind = "publish", wire'[i].doc = v
       PROVE  OfNow(v, wire'[i].report)
  <2>1. CASE i \in DOMAIN wire
    BY <1>7, <1>8, <1>10, <2>1 DEF DocLife
  <2>2. CASE i = Len(wire) + 1
    BY <1>6, <1>7, <1>9, <1>10, <2>2
  <2> QED BY <1>7, <2>1, <2>2
<1> QED BY <1>4, <1>8, <1>10 DEF DocLife, OfNow

\* Opening a document begins a life, or goes on with one.
LEMMA OpenLife ==
  ASSUME IInv, LifeInv, NEW q \in Query, NEW kind \in Kinds, NEW u \in Doc, Call(q, kind, u)
  PROVE  LifeInv'
<1>1. /\ docs' = EnsureOpen(docs, u, texts[u]) /\ Opened(u) /\ UNCHANGED <<texts, wire>>
      /\ docs \in [Doc -> Document] /\ life \in [Doc -> [nth : Nat, crossed : BOOLEAN]]
  BY DEF Call, IInv, TypeOK, LifeInv, LifeType
<1>2. docs[u] \in Document
  BY <1>1
<1>3. CASE docs[u].open
  <2>1. PICK d : d = [docs[u] EXCEPT !.refs = @ + 1]
    OBVIOUS
  <2>2. /\ d.open = docs[u].open /\ d.awaiting = docs[u].awaiting /\ d.version = docs[u].version
        /\ d.cached = docs[u].cached /\ d.buffer = docs[u].buffer
    BY <1>2, <2>1 DEF Document
  <2>3. docs' = [docs EXCEPT ![u] = d] /\ life' = life
    BY <1>1, <1>3, <2>1 DEF EnsureOpen, Opened
  <2>4. \A v \in Doc : /\ docs'[v].open = docs[v].open /\ docs'[v].awaiting = docs[v].awaiting
                       /\ docs'[v].version = docs[v].version
                       /\ docs'[v].cached = docs[v].cached /\ docs'[v].buffer = docs[v].buffer
    BY <1>1, <2>2, <2>3
  <2> SUFFICES ASSUME NEW v \in Doc
               PROVE  DocLife(v)'
    BY <2>3 DEF LifeInv, LifeType
  <2>5. DocLife(v)
    BY DEF LifeInv
  <2> QED BY <1>1, <2>3, <2>4, <2>5 DEF DocLife, OfNow
<1>4. CASE ~ docs[u].open
  <2>1. PICK f : f = FreshlyOpen(docs[u], 1)
    OBVIOUS
  <2>2. PICK b : b = [open |-> TRUE, version |-> 1, text |-> texts[u]]
    OBVIOUS
  <2>3. PICK d : d = DidOpen(f, texts[u])
    OBVIOUS
  <2>4. f.open /\ f.awaiting /\ f.version = 1 /\ f \in Document
    BY <1>2, <2>1 DEF FreshlyOpen, Document
  <2>5. d = [f EXCEPT !.buffer = b, !.confused = f.confused \/ f.buffer.open]
    BY <2>2, <2>3 DEF DidOpen
  <2>6. d.open /\ d.awaiting /\ d.version = 1 /\ d.buffer = b
    BY <2>4, <2>5 DEF Document
  <2>7. docs' = [docs EXCEPT ![u] = d]
    BY <1>1, <1>4, <2>1, <2>3 DEF EnsureOpen
  <2>8. PICK l : l = [nth |-> life[u].nth + 1, crossed |-> Reporting(u)]
    OBVIOUS
  <2>9. life' = [life EXCEPT ![u] = l]
    BY <1>1, <1>4, <2>8 DEF Opened
  <2>10. Reporting(u) \in BOOLEAN
    BY DEF Reporting
  <2>11. l \in [nth : Nat, crossed : BOOLEAN] /\ l.crossed = Reporting(u)
    BY <1>1, <2>8, <2>10
  <2>12. LifeType'
    BY <1>1, <2>9, <2>11 DEF LifeType
  <2> SUFFICES ASSUME NEW v \in Doc
               PROVE  DocLife(v)'
    BY <2>12 DEF LifeInv
  <2>13. CASE v = u
    <3>1. docs'[v] = d /\ life'[v] = l
      BY <1>1, <2>7, <2>9, <2>13
    <3>2. ~ l.crossed => ~ \E i \in DOMAIN wire : wire[i].kind = "publish" /\ wire[i].doc = u
      BY <2>11 DEF Reporting
    <3>3. b.open /\ b.version = 1 /\ b.text = texts[u]
      BY <2>2
    <3> QED BY <1>1, <2>6, <2>13, <3>1, <3>2, <3>3 DEF DocLife
  <2>14. CASE v # u
    <3>1. docs'[v] = docs[v] /\ life'[v] = life[v]
      BY <1>1, <2>7, <2>9, <2>14
    <3>2. DocLife(v)
      BY DEF LifeInv
    <3> QED BY <1>1, <3>1, <3>2 DEF DocLife, OfNow
  <2> QED BY <2>13, <2>14
<1> QED BY <1>3, <1>4

\* A report that is heard was on the wire.
LEMMA CachedLife ==
  ASSUME IInv, LifeInv, ReceiveReport
  PROVE  LifeInv'
<1>1. TypeOK
  BY DEF IInv
<1>2. /\ wire # <<>> /\ wire' = Tail(wire) /\ Head(wire).kind = "publish"
      /\ docs' = Publish(docs, Head(wire).doc, Head(wire).report) /\ UNCHANGED <<texts, life>>
  BY DEF ReceiveReport, Heard
<1>3. /\ Head(wire) = wire[1] /\ 1 \in DOMAIN wire /\ wire[1] \in Message
      /\ DOMAIN wire' = 1 .. Len(wire')
      /\ \A i \in 1 .. Len(wire') : i + 1 \in DOMAIN wire /\ wire'[i] = wire[i + 1]
  BY <1>1, <1>2, HeardShape
<1>4. PICK u \in Doc, r \in Reported : u = wire[1].doc /\ r = wire[1].report
  BY <1>2, <1>3, Kinds3
<1>5. PICK d : d = [docs[u] EXCEPT !.cached = r, !.awaiting = FALSE]
  OBVIOUS
<1>6. docs' = [docs EXCEPT ![u] = d]
  BY <1>2, <1>3, <1>4, <1>5 DEF Publish
<1>7. docs[u] \in Document /\ docs \in [Doc -> Document]
  BY <1>1 DEF TypeOK
<1>8. /\ d.open = docs[u].open /\ d.version = docs[u].version /\ d.buffer = docs[u].buffer
      /\ d.cached = r
  BY <1>5, <1>7 DEF Document
<1> SUFFICES ASSUME NEW v \in Doc
             PROVE  DocLife(v)'
  BY <1>2 DEF LifeInv, LifeType
<1>9. DocLife(v)
  BY DEF LifeInv
<1>10. /\ docs'[v].open = docs[v].open /\ docs'[v].version = docs[v].version
       /\ docs'[v].buffer = docs[v].buffer
       /\ v # u => docs'[v] = docs[v]
       /\ v = u => docs'[v].cached = r
  BY <1>6, <1>7, <1>8
<1>11. \A i \in DOMAIN wire' :
         docs[v].open /\ ~ life[v].crossed /\ wire'[i].kind = "publish" /\ wire'[i].doc = v
           => OfNow(v, wire'[i].report)
  BY <1>3, <1>9 DEF DocLife
<1>12. v = u /\ docs[v].open /\ ~ life[v].crossed => OfNow(v, r)
  BY <1>2, <1>3, <1>4, <1>9 DEF DocLife
<1>13. docs'[v].open /\ ~ life'[v].crossed /\ ~ docs'[v].awaiting => OfNow(v, docs'[v].cached)
  BY <1>2, <1>9, <1>10, <1>12 DEF DocLife
<1> QED BY <1>2, <1>9, <1>10, <1>11, <1>13 DEF DocLife, OfNow

\* An edit ends the claim on the text, a deletion the life.
LEMMA EditLife ==
  ASSUME IInv, LifeInv, NEW u \in Doc, ApplyRename(u) \/ ReplaceFile(u)
  PROVE  LifeInv'
<1>1. /\ docs[u].open /\ texts' = [texts EXCEPT ![u] = @ + 1] /\ UNCHANGED <<wire, life>>
      /\ docs \in [Doc -> Document] /\ texts \in [Doc -> Nat]
  BY DEF ApplyRename, ReplaceFile, MayEdit, IInv, TypeOK
<1>2. DocLife(u) /\ docs[u] \in Document
  BY <1>1 DEF LifeInv
<1>3. ASSUME NEW v \in Doc, v # u, docs'[v] = docs[v]
      PROVE  DocLife(v)'
  <2>1. DocLife(v) /\ texts'[v] = texts[v]
    BY <1>1, <1>3 DEF LifeInv
  <2> QED BY <1>1, <1>3, <2>1 DEF DocLife, OfNow
<1>4. LifeType'
  BY <1>1 DEF LifeInv, LifeType
<1>5. CASE ApplyRename(u)
  <2>1. PICK n \in Nat : n = docs[u].version + 1
    BY <1>2 DEF Document
  <2>2. PICK e : e = [docs[u] EXCEPT !.version = n]
    OBVIOUS
  <2>3. PICK b : b = [e.buffer EXCEPT !.version = n, !.text = texts[u] + 1]
    OBVIOUS
  <2>4. PICK d : d = [e EXCEPT !.buffer = b]
    OBVIOUS
  <2>5. /\ e.open = docs[u].open /\ e.version = n /\ e.buffer = docs[u].buffer
        /\ e.awaiting = docs[u].awaiting /\ e.cached = docs[u].cached /\ e \in Document
    BY <1>2, <2>1, <2>2 DEF Document
  <2>6. e.buffer.open /\ e.buffer.version = docs[u].version /\ e.buffer \in Buffer
    BY <1>1, <1>2, <2>5 DEF DocLife, Document
  <2>7. b.open /\ b.version = n /\ b.text = texts[u] + 1
    BY <2>3, <2>6 DEF Buffer
  <2>8. n > e.buffer.version
    BY <2>1, <2>6 DEF Buffer
  <2>9. DidChange(e, n, texts[u] + 1) = d
    BY <2>3, <2>4, <2>6, <2>8 DEF DidChange
  <2>10. docs' = [docs EXCEPT ![u] = d]
    BY <1>1, <1>5, <2>1, <2>2, <2>9 DEF ApplyRename, ApplyEdited
  <2>11. /\ d.open = docs[u].open /\ d.version = n /\ d.buffer = b
         /\ d.awaiting = docs[u].awaiting /\ d.cached = docs[u].cached
    BY <2>4, <2>5 DEF Document
  <2>12. docs'[u] = d /\ \A v \in Doc : v # u => docs'[v] = docs[v]
    BY <1>1, <2>10
  <2>13. n # 1 /\ n >= 1
    BY <1>1, <1>2, <2>1 DEF DocLife, Document
  <2>14. texts'[u] = texts[u] + 1
    BY <1>1
  <2>15. \A r : OfNow(u, r) => OfNow(u, r)'
    BY <1>1, <2>11, <2>12, <2>13 DEF OfNow
  <2>16. /\ docs'[u].open /\ docs'[u].buffer.open /\ docs'[u].buffer.version = docs'[u].version
         /\ docs'[u].version >= 1 /\ docs'[u].buffer.text = texts'[u]
    BY <1>1, <2>7, <2>11, <2>12, <2>13, <2>14
  <2>17. ~ life[u].crossed /\ ~ docs'[u].awaiting => OfNow(u, docs[u].cached)'
    <3>1. docs'[u].awaiting = docs[u].awaiting /\ docs'[u].cached = docs[u].cached
      BY <2>11, <2>12
    <3>2. ~ life[u].crossed /\ ~ docs[u].awaiting => OfNow(u, docs[u].cached)
      BY <1>1, <1>2 DEF DocLife
    <3>3. docs'[u].version # 1
      BY <2>11, <2>12, <2>13
    <3> QED BY <1>1, <3>1, <3>2, <3>3 DEF OfNow
  <2>18. DocLife(u)'
    <3>1. \A i \in DOMAIN wire :
            ~ life[u].crossed /\ wire[i].kind = "publish" /\ wire[i].doc = u
              => OfNow(u, wire[i].report)
      BY <1>1, <1>2 DEF DocLife
    <3>2. \A i \in DOMAIN wire :
            ~ life[u].crossed /\ wire[i].kind = "publish" /\ wire[i].doc = u
              => OfNow(u, wire[i].report)'
      <4>1. docs'[u].version # 1
        BY <2>11, <2>12, <2>13
      <4> QED BY <1>1, <3>1, <4>1 DEF OfNow
    <3> QED BY <1>1, <2>16, <2>17, <3>2 DEF DocLife, OfNow
  <2> QED BY <1>3, <1>4, <2>12, <2>18 DEF LifeInv
<1>6. CASE ReplaceFile(u)
  <2>1. PICK d : d = Evict(docs[u])
    OBVIOUS
  <2>2. docs' = [docs EXCEPT ![u] = d]
    BY <1>1, <1>6, <2>1 DEF ReplaceFile, DidFileDelete
  <2>3. ~ d.open /\ ~ d.buffer.open
    BY <1>2, <2>1 DEF Evict, DidClose, NoBuffer, Document
  <2>4. docs'[u] = d /\ \A v \in Doc : v # u => docs'[v] = docs[v]
    BY <1>1, <2>2
  <2>5. DocLife(u)'
    BY <2>3, <2>4 DEF DocLife
  <2> QED BY <1>3, <1>4, <2>4, <2>5 DEF LifeInv
<1> QED BY <1>5, <1>6

LEMMA NextLife == IInv /\ LifeInv /\ [Next]_vars => LifeInv'
<1> SUFFICES ASSUME IInv, LifeInv, [Next]_vars
             PROVE  LifeInv'
  OBVIOUS
<1>1. CASE \/ \E t \in Load : AskToken(t) \/ BeginLoad(t) \/ EndLoad(t)
           \/ \E q \in Query : ServerAnswers(q)
  BY <1>1, ServerLife
<1>2. CASE \E u \in Doc : PublishReport(u) \/ ApplyRename(u) \/ ReplaceFile(u)
  BY <1>2, PublishLife, EditLife
<1>3. CASE \E q \in Query, kind \in Kinds, u \in Doc : Call(q, kind, u)
  BY <1>3, OpenLife
<1>4. CASE ReceiveReport
  BY <1>4, CachedLife
<1>5. CASE ReceiveProgress \/ ReceiveAnswer \/ ReceiveRequest
  <2>1. wire # <<>> /\ wire' = Tail(wire) /\ UNCHANGED <<docs, texts, life>>
    BY <1>5 DEF ReceiveProgress, ReceiveAnswer, ReceiveRequest, Heard
  <2> QED BY <2>1, HeardLife
<1>6. CASE (\E q \in Query : ClientStep(q)) \/ Tick \/ Hang \/ UNCHANGED vars
  <2>1. UNCHANGED <<docs, texts, life, wire>>
    BY <1>6 DEF ClientStep, SendRequest, PullNotSettled, ReadReport, Wake, AskCalls, Tick, Hang, vars
  <2> QED BY <2>1, LifeFrame
<1> QED BY <1>1, <1>2, <1>3, <1>4, <1>5, <1>6 DEF Next, Receive

LEMMA InitLife == Init => LifeInv
<1> SUFFICES ASSUME Init
             PROVE  LifeInv
  OBVIOUS
<1>1. LifeType
  BY DEF Init, LifeType
<1>2. \A u \in Doc : ~ docs[u].open /\ ~ docs[u].buffer.open
  BY DEF Init, Closed, NoBuffer
<1> QED BY <1>1, <1>2 DEF LifeInv, DocLife

\* Only a call that reads its document's report returns it as ok, and what it
\* reads is what the document's life says of it.
LEMMA ReadIsOfNow == IInv /\ LifeInv /\ [Next]_vars =>
  \A q \in Query :
    Running(q) /\ IsPush(query[q]) /\ query'[q].status = "ok" =>
      /\ query'[q].report # None
      /\ ~ life[query[q].doc].crossed => OfNow(query[q].doc, query'[q].report)
<1> SUFFICES ASSUME IInv, LifeInv, [Next]_vars, NEW q \in Query, Running(q), IsPush(query[q]),
                    query'[q].status = "ok"
             PROVE  /\ query'[q].report # None
                    /\ ~ life[query[q].doc].crossed => OfNow(query[q].doc, query'[q].report)
  OBVIOUS
<1>1. /\ query[q].status = "none" /\ query[q].pc # "idle" /\ query \in [Query -> Record]
      /\ query[q] \in Record /\ TypeOK
  BY DEF IInv, TypeOK, SoundInv, Sound, Running
<1>2. query'[q] # query[q]
  BY <1>1
<1>3. CASE ReadReport(q)
  <2> DEFINE c == query[q]
             d == docs[c.doc]
             r == [c EXCEPT !.report = d.cached]
  <2>1. query' = [query EXCEPT ![q] =
                    IF ~ Indexing /\ ~ d.awaiting THEN Returned(r, "ok", TRUE)
                    ELSE IF Late(q) THEN Returned(r, "not_ready", FALSE)
                    ELSE [c EXCEPT !.pc = "publish"]]
    BY <1>3 DEF ReadReport
  <2>2. c.doc \in Doc /\ d.open /\ now \in Nat
    BY DEF IInv, LockInv, TypeOK
  <2>3. d \in Document /\ (~ d.awaiting => d.cached # None)
    BY <1>1, <2>2 DEF IInv, TypeOK, DocInv
  <2>4. r \in Record /\ r.report = d.cached
    BY <1>1, <2>3 DEF Record, Document
  <2>5. ~ d.awaiting /\ ~ life[c.doc].crossed => OfNow(c.doc, d.cached)
    BY <2>2 DEF LifeInv, DocLife
  <2>6. PICK e : e = [c EXCEPT !.pc = "publish"]
    OBVIOUS
  <2>7. e.status = "none"
    BY <1>1, <2>6 DEF Record
  <2> HIDE DEF d, r
  <2>8. Returned(r, "not_ready", FALSE).status = "not_ready"
    BY <2>2, <2>4, ReturnedRecord DEF Verdicts
  <2>9. Returned(r, "ok", TRUE).report = d.cached
    BY <2>2, <2>4, ReturnedRecord DEF Verdicts
  <2>10. query'[q] = IF ~ Indexing /\ ~ d.awaiting THEN Returned(r, "ok", TRUE)
                     ELSE IF Late(q) THEN Returned(r, "not_ready", FALSE) ELSE e
    BY <1>1, <2>1, <2>6
  <2>11. ~ d.awaiting /\ query'[q] = Returned(r, "ok", TRUE)
    BY <2>7, <2>8, <2>10
  <2>12. query'[q].report = d.cached /\ query'[q].report # None
    BY <2>3, <2>9, <2>11
  <2> QED BY <2>5, <2>11, <2>12
<1>4. CASE ~ ReadReport(q)
  <2>1. ASSUME NEW p \in Query, ClientStep(p)
        PROVE  FALSE
    <3>1. CASE p # q
      BY <1>1, <1>2, <2>1, <3>1 DEF ClientStep, SendRequest, PullNotSettled, ReadReport, Wake, AskCalls
    <3>2. CASE p = q
      <4>1. PICK s : query'[q] = [query[q] EXCEPT !.pc = s]
        <5>1. SendRequest(q) \/ Wake(q) \/ AskCalls(q)
          BY <1>4, <2>1, <3>2 DEF ClientStep, PullNotSettled, IsPull, IsPush, SendRequest
        <5> QED BY <1>1, <5>1 DEF SendRequest, Wake, AskCalls
      <4> QED BY <1>1, <4>1 DEF Record
    <3> QED BY <3>1, <3>2
  <2>2. ASSUME NEW p \in Query, NEW kind \in Kinds, NEW u \in Doc, Call(p, kind, u)
        PROVE  FALSE
    BY <1>1, <1>2, <2>2 DEF Call
  <2>3. ASSUME ReceiveAnswer
        PROVE  FALSE
    <3>1. /\ Head(wire) = wire[1] /\ 1 \in DOMAIN wire /\ wire[1].kind = "answer"
          /\ query' = [query EXCEPT ![Head(wire).query] = Answered(@, Head(wire))]
      BY <1>1, <2>3, HeardShape DEF ReceiveAnswer, Heard
    <3>2. Awaits(wire[1].query)
      BY <3>1 DEF IInv, AskedInv
    <3>3. wire[1].query # q
      BY <3>2 DEF Awaits
    <3> QED BY <1>1, <1>2, <3>1, <3>3
  <2>4. ASSUME ReceiveReport
        PROVE  FALSE
    <3>1. query'[q] = [query[q] EXCEPT !.pc = "settle"]
      BY <1>1, <1>2, <2>4 DEF ReceiveReport
    <3> QED BY <1>1, <3>1 DEF Record
  <2>5. query'[q] = query[q] \/ ReceiveReport \/ ReceiveAnswer
        \/ (\E p \in Query : ClientStep(p))
        \/ (\E p \in Query, kind \in Kinds, u \in Doc : Call(p, kind, u))
    BY DEF Next, vars, Receive, ReceiveProgress, ReceiveRequest, AskToken, BeginLoad, EndLoad,
           ServerAnswers, Answer, PublishReport, ApplyRename, ReplaceFile, Tick, Hang
  <2> QED BY <1>2, <2>1, <2>2, <2>3, <2>4, <2>5
<1> QED BY <1>3, <1>4

\* The inductive invariant holds in every reachable state.
THEOREM Invariant == Spec => [](IInv /\ LifeInv)
<1>1. IInv /\ LifeInv /\ [Next]_vars => (IInv /\ LifeInv)'
  BY NextInvariant, NextLife DEF LifeInv
<1> QED BY <1>1, InitInvariant, InitLife, PTL DEF Spec

\* Every variable keeps its type.
THEOREM TypeCorrect == Spec => []TypeOK
<1>1. IInv => TypeOK
  BY DEF IInv
<1> QED BY <1>1, Invariant, PTL

\* A definite answer comes from a loaded project, whatever is on the wire when
\* it is asked for and given (withRetry, pullDiagnostics).
THEOREM DefiniteWhole == Spec => []DefiniteAnswersAreWhole
<1>1. IInv => DefiniteAnswersAreWhole
  BY DEF IInv, SoundInv, Sound, DefiniteAnswersAreWhole
<1> QED BY <1>1, Invariant, PTL

\* Diagnostics returned as ok were reported in the present life of the
\* document, and of its text unless that was changed in it, if nothing was on
\* the wire when the document was opened (pushDiagnostics).
THEOREM CleanReported == Spec => CleanMeansReported
<1>1. IInv /\ LifeInv /\ [Next]_vars =>
        \A q \in Query :
          LET u == query[q].doc
              r == query'[q].report
          IN  Running(q) /\ IsPush(query[q]) /\ query'[q].status = "ok" =>
                /\ r # None
                /\ ~ life[u].crossed =>
                     /\ r.nth = life[u].nth
                     /\ docs[u].version = 1 => r.text = texts[u]
  BY ReadIsOfNow DEF OfNow
<1> QED BY <1>1, Invariant, PTL DEF Spec, CleanMeansReported

=============================================================================
