----------------------- MODULE BrowserSessionsProofs -----------------------
(***************************************************************************)
(* What holds of BrowserSessions for every set of sessions and calls, and  *)
(* every cap: a context is closed by one, a recorder is stopped once, and  *)
(* the registry holds no stale session.  One inductive invariant, IInv,    *)
(* carries the three.                                                      *)
(***************************************************************************)
EXTENDS BrowserSessions, FiniteSetTheorems, TLAPS

\* Somebody will close the context of s: the reaper or a call once it finds it
\* in the map, shutdown, or a closer already under way.
Kept(s) ==
  \/ s \in sessions
  \/ Leaving(s)
  \/ \E r \in teardown : r.of = s

\* The manager has not stored s yet.
Early(s) == stage[s] \in {"new", "awaitBrowser", "awaitContext", "routing"}

\* What open_session has made of a session, and what may know of it by then: a
\* session that is being set up, or is registered, will be closed, unless its
\* closing went wrong, and what onClosed has finalized is registered no more.
OpenInv ==
  \A s \in Session :
    /\ stage[s] \in {"routing", "setup", "open"} => context[s] # "none"
    /\ har[s] = "final" => stage[s] = "open" /\ s \notin registry
    /\ stage[s] # "open" => recorder[s] = "none" /\ s \notin registry
    /\ Early(s) => ~ Kept(s)
    /\ s \in registry \/ (stage[s] = "setup" /\ Usable(s)) => Kept(s) \/ Miscarried(s)
    /\ s \in sessions /\ stage[s] = "open" => s \in registry

\* The three who may close a context exclude each other, and a call that closes
\* one is the one that was queued for it.
CloseInv ==
  /\ \A q, r \in teardown : q.of = r.of => q = r
  /\ \A r \in teardown : r.of \notin sessions /\ ~ Leaving(r.of)
  /\ \A s \in sessions : ~ Leaving(s)
  /\ \A r \in teardown :
       r.by # Reaper => r.at = "close" /\ pc[r.by] = "closing" /\ on[r.by] = r.of

Active(c) == pc[c] \in {"running", "flushing", "closing"}

Heads(c) == tail[on[c]] # <<>> /\ Head(tail[on[c]]) = c

\* A call waits in the queue of its session, and heads it while it works.
QueueInv ==
  \A c \in Caller :
    /\ pc[c] = "idle" <=> on[c] = NoSession
    /\ pc[c] = "queued" => \E i \in 1 .. Len(tail[on[c]]) : tail[on[c]][i] = c
    /\ Active(c) => Heads(c)

\* A recorder that is being stopped is being stopped by somebody, and by one.
FlushInv ==
  /\ \A c \in Caller : pc[c] = "flushing" => recorder[on[c]] = "stopping"
  /\ \A r \in teardown : r.at = "flush" => recorder[r.of] = "stopping"
  /\ \A c \in Caller, r \in teardown : pc[c] = "flushing" /\ r.at = "flush" => on[c] # r.of
  /\ \A s \in Session :
       recorder[s] = "stopping" => \/ \E c \in Caller : pc[c] = "flushing" /\ on[c] = s
                                  \/ \E r \in teardown : r.at = "flush" /\ r.of = s

IInv == TypeOK /\ OpenInv /\ CloseInv /\ QueueInv /\ FlushInv

-----------------------------------------------------------------------------
(* Frames: what the steps that leave some state alone cannot disturb.      *)

\* A step that moves no session and no closer opens and strands nothing.
LEMMA OpenFrame ==
  ASSUME OpenInv, UNCHANGED <<stage, context, sessions, registry, recorder, har, teardown, down, leaving>>
  PROVE  OpenInv'
BY DEF OpenInv, Kept, Leaving, Early, Miscarried, Usable

\* A step that moves no closer keeps them apart.
LEMMA CloseFrame ==
  ASSUME CloseInv, UNCHANGED <<sessions, teardown, down, leaving, pc, on>>
  PROVE  CloseInv'
BY DEF CloseInv, Leaving

\* A step that moves no call keeps the queues.
LEMMA QueueFrame ==
  ASSUME QueueInv, UNCHANGED <<tail, pc, on>>
  PROVE  QueueInv'
BY DEF QueueInv, Active, Heads

\* A step that moves no call, no closer and no recorder keeps the flushes.
LEMMA FlushFrame ==
  ASSUME FlushInv, UNCHANGED <<pc, on, teardown, recorder>>
  PROVE  FlushInv'
BY DEF FlushInv

\* A call that is under way is on some session.
LEMMA OnSession ==
  ASSUME IInv, NEW c \in Caller, pc[c] # "idle"
  PROVE  on[c] \in Session
BY DEF IInv, TypeOK, QueueInv

-----------------------------------------------------------------------------
(* open_session.                                                           *)

\* A session that is being opened is nobody's to close.
LEMMA BeginOpenStep ==
  ASSUME IInv, NEW s \in Session, BeginOpen(s)
  PROVE  IInv'
<1>1. TypeOK'
  BY DEF IInv, TypeOK, BeginOpen, Stage, callVars, downVars
<1>2. OpenInv'
  BY DEF IInv, TypeOK, OpenInv, Kept, Leaving, Early, Usable, Miscarried, BeginOpen, downVars
<1>3. CloseInv' /\ QueueInv' /\ FlushInv'
  BY CloseFrame, QueueFrame, FlushFrame DEF IInv, BeginOpen, callVars, downVars
<1> QED BY <1>1, <1>2, <1>3 DEF IInv

\* A launch that settles moves the sessions that await it, and they are early.
LEMMA LaunchStep ==
  ASSUME IInv, NEW outcome \in {"up", "broken"}, NEW next \in {"awaitContext", "failed"},
         LaunchSettles(outcome, next)
  PROVE  IInv'
<1>1. TypeOK'
  BY DEF IInv, TypeOK, LaunchSettles, Stage, callVars, downVars
<1>2. OpenInv'
  BY DEF IInv, TypeOK, OpenInv, Kept, Leaving, Early, Usable, Miscarried, LaunchSettles, downVars
<1>3. CloseInv' /\ QueueInv' /\ FlushInv'
  BY CloseFrame, QueueFrame, FlushFrame DEF IInv, LaunchSettles, callVars, downVars
<1> QED BY <1>1, <1>2, <1>3 DEF IInv

\* The context of a session comes, and is still nobody's to close.
LEMMA ContextOkStep ==
  ASSUME IInv, NEW s \in Session, ContextOk(s)
  PROVE  IInv'
<1>1. TypeOK'
  BY DEF IInv, TypeOK, ContextOk, Stage, callVars, downVars
<1>2. OpenInv'
  BY DEF IInv, TypeOK, OpenInv, Kept, Leaving, Early, Usable, Miscarried, ContextOk, downVars
<1>3. CloseInv' /\ QueueInv' /\ FlushInv'
  BY CloseFrame, QueueFrame, FlushFrame DEF IInv, ContextOk, callVars, downVars
<1> QED BY <1>1, <1>2, <1>3 DEF IInv

\* A session that nobody closes yet comes into the map.
LEMMA RoutesOkStep ==
  ASSUME IInv, NEW s \in Session, RoutesOk(s)
  PROVE  IInv'
<1>1. ~ Kept(s)
  BY DEF IInv, OpenInv, Early, RoutesOk
<1>2. TypeOK'
  <2>1. 0 \in 0 .. IdleTtl
    BY ConstantsAssumption
  <2> QED BY <2>1 DEF IInv, TypeOK, RoutesOk, Stage, callVars, downVars
<1>3. OpenInv'
  BY DEF IInv, TypeOK, OpenInv, Kept, Leaving, Early, Usable, Miscarried, RoutesOk, downVars
<1>4. CloseInv'
  BY <1>1 DEF IInv, TypeOK, CloseInv, Leaving, Kept, RoutesOk, callVars, downVars
<1>5. QueueInv' /\ FlushInv'
  BY QueueFrame, FlushFrame DEF IInv, RoutesOk, callVars
<1> QED BY <1>2, <1>3, <1>4, <1>5 DEF IInv

\* A session is registered while its context is alive: somebody will close it.
LEMMA SetupOkStep ==
  ASSUME IInv, NEW s \in Session, SetupOk(s)
  PROVE  IInv'
<1>1. recorder[s] = "none"
  BY DEF IInv, OpenInv, SetupOk
<1>2. TypeOK'
  BY DEF IInv, TypeOK, SetupOk, Stage, callVars, downVars
<1>3. OpenInv'
  BY <1>1 DEF IInv, TypeOK, OpenInv, Kept, Leaving, Early, Usable, Miscarried, SetupOk, downVars
<1>4. CloseInv' /\ QueueInv'
  BY CloseFrame, QueueFrame DEF IInv, SetupOk, callVars, downVars
<1>5. FlushInv'
  <2>1. \A t \in Session : recorder'[t] = "stopping" <=> recorder[t] = "stopping"
    BY <1>1 DEF IInv, TypeOK, SetupOk
  <2>2. UNCHANGED <<pc, on, teardown>>
    BY DEF SetupOk, callVars
  <2>3. \A c \in Caller : pc[c] = "flushing" => on[c] \in Session
    BY OnSession
  <2>4. \A r \in teardown : r.of \in Session
    BY DEF IInv, TypeOK
  <2> QED BY <2>1, <2>2, <2>3, <2>4 DEF IInv, FlushInv
<1> QED BY <1>2, <1>3, <1>4, <1>5 DEF IInv

\* An open that fails leaves what it had stored to those who close.
LEMMA OpenFailsStep ==
  ASSUME IInv, NEW s \in Session, OpenFails(s)
  PROVE  IInv'
<1>1. TypeOK'
  BY DEF IInv, TypeOK, OpenFails, Stage, callVars, downVars
<1>2. OpenInv'
  BY DEF IInv, TypeOK, OpenInv, Kept, Leaving, Early, Usable, Miscarried, OpenFails, downVars
<1>3. CloseInv' /\ QueueInv' /\ FlushInv'
  BY CloseFrame, QueueFrame, FlushFrame DEF IInv, OpenFails, callVars, downVars
<1> QED BY <1>1, <1>2, <1>3 DEF IInv

-----------------------------------------------------------------------------
(* Calls that come, go and close.                                          *)

\* The call that heads a queue leaves it, and the others keep their places.
LEMMA LeaveKeepsQueues ==
  ASSUME TypeOK, QueueInv, NEW c \in Caller, on[c] \in Session, Heads(c), Leave(c)
  PROVE  /\ tail' \in [Session -> Seq(Caller)]
         /\ pc' \in [Caller -> {"idle", "queued", "running", "flushing", "closing"}]
         /\ on' \in [Caller -> Session \cup {NoSession}]
         /\ kind' \in [Caller -> {"step", "close"}]
         /\ QueueInv'
<1>1. /\ tail[on[c]] \in Seq(Caller)
      /\ Tail(tail[on[c]]) \in Seq(Caller)
      /\ Len(Tail(tail[on[c]])) = Len(tail[on[c]]) - 1
      /\ \A i \in 2 .. Len(tail[on[c]]) : Tail(tail[on[c]])[i - 1] = tail[on[c]][i]
      /\ tail[on[c]][1] = c
  BY DEF TypeOK, Heads
<1>2. \A s \in Session : tail'[s] = IF s = on[c] THEN Tail(tail[s]) ELSE tail[s]
  BY DEF TypeOK, Leave
<1>3. \A d \in Caller : /\ pc'[d] = IF d = c THEN "idle" ELSE pc[d]
                        /\ on'[d] = IF d = c THEN NoSession ELSE on[d]
  BY DEF TypeOK, Leave
<1>4. QueueInv'
  <2> SUFFICES ASSUME NEW d \in Caller
               PROVE  /\ pc'[d] = "idle" <=> on'[d] = NoSession
                      /\ pc'[d] = "queued" => \E i \in 1 .. Len(tail'[on'[d]]) : tail'[on'[d]][i] = d
                      /\ Active(d)' => Heads(d)'
    BY DEF QueueInv
  <2>1. CASE d = c
    BY <1>3, <2>1 DEF Active
  <2>2. CASE d # c /\ on[d] # on[c]
    <3>1. /\ pc'[d] = pc[d] /\ on'[d] = on[d]
          /\ on[d] \in Session => tail'[on[d]] = tail[on[d]]
          /\ on[d] = NoSession => ~ Active(d) /\ pc[d] # "queued"
      BY <1>2, <1>3, <2>2 DEF QueueInv, Active
    <3>2. on[d] \in Session \cup {NoSession}
      BY DEF TypeOK
    <3> QED BY <3>1, <3>2 DEF QueueInv, Active, Heads
  <2>3. CASE d # c /\ on[d] = on[c]
    <3>1. pc[d] = "queued"
      BY <2>3, ConstantsAssumption DEF QueueInv, TypeOK, Active, Heads
    <3>2. PICK i \in 1 .. Len(tail[on[c]]) : tail[on[c]][i] = d
      BY <2>3, <3>1 DEF QueueInv
    <3>3. i \in 2 .. Len(tail[on[c]])
      BY <1>1, <2>3, <3>2
    <3>4. Tail(tail[on[c]])[i - 1] = d /\ i - 1 \in 1 .. Len(Tail(tail[on[c]]))
      BY <1>1, <3>2, <3>3
    <3> QED BY <1>2, <1>3, <2>3, <3>1, <3>4, ConstantsAssumption DEF Active
  <2> QED BY <2>1, <2>2, <2>3
<1> QED BY <1>1, <1>4 DEF TypeOK, Leave

\* The call that heads a queue goes on to its next await.
LEMMA MoveKeepsQueues ==
  ASSUME TypeOK, QueueInv, NEW c \in Caller, on[c] \in Session, Heads(c),
         NEW p \in {"running", "flushing", "closing"}, pc' = [pc EXCEPT ![c] = p],
         UNCHANGED <<tail, on>>
  PROVE  pc' \in [Caller -> {"idle", "queued", "running", "flushing", "closing"}] /\ QueueInv'
<1>1. \A d \in Caller : pc'[d] = IF d = c THEN p ELSE pc[d]
  BY DEF TypeOK
<1> QED BY <1>1, ConstantsAssumption DEF TypeOK, QueueInv, Active, Heads

\* A call whose turn it is heads its queue.
LEMMA ReadyHeads ==
  ASSUME IInv, NEW c \in Caller, Ready(c)
  PROVE  on[c] \in Session /\ Heads(c)
BY OnSession DEF IInv, TypeOK, QueueInv, Ready, Heads

\* closeSession, called by a call that need not flush: the session passes from
\* the map to its closer, and no flush begins or ends.
LEMMA CallCloseKeeps ==
  ASSUME IInv, NEW c \in Caller, on[c] \in Session, Heads(c), pc[c] \in {"queued", "flushing"},
         ~ NeedsFlush(on[c]), CallClose(c), UNCHANGED <<down, leaving>>
  PROVE  /\ sessions' \subseteq sessions /\ sessions' \in SUBSET Session
         /\ teardown' \in SUBSET [of : Session, by : Caller \cup {Reaper}, at : {"flush", "close"}]
         /\ tail' \in [Session -> Seq(Caller)]
         /\ pc' \in [Caller -> {"idle", "queued", "running", "flushing", "closing"}]
         /\ on' \in [Caller -> Session \cup {NoSession}]
         /\ kind' \in [Caller -> {"step", "close"}]
         /\ QueueInv' /\ CloseInv'
         /\ \A s \in Session : Kept(s)' <=> Kept(s)
         /\ \A r : r.at = "flush" => (r \in teardown' <=> r \in teardown)
         /\ \A d \in Caller \ {c} : pc'[d] = pc[d] /\ on'[d] = on[d]
         /\ pc'[c] # "flushing"
<1>1. CASE on[c] \in sessions
  <2> DEFINE mine == [of |-> on[c], by |-> c, at |-> "close"]
  <2>1. /\ sessions' = sessions \ {on[c]}
        /\ teardown' = teardown \cup {mine}
        /\ pc' = [pc EXCEPT ![c] = "closing"]
        /\ UNCHANGED <<tail, on, kind>>
    BY <1>1 DEF CallClose, Forget, Closings
  <2>2. QueueInv' /\ pc' \in [Caller -> {"idle", "queued", "running", "flushing", "closing"}]
    BY <2>1, MoveKeepsQueues DEF IInv
  <2>3. CloseInv'
    <3>1. \A r \in teardown : r.of # on[c] /\ r.by # c
      BY <1>1, ConstantsAssumption DEF IInv, CloseInv, Leaving
    <3>2. \A d \in Caller : pc'[d] = IF d = c THEN "closing" ELSE pc[d]
      BY <2>1 DEF IInv, TypeOK
    <3> QED BY <1>1, <2>1, <3>1, <3>2 DEF IInv, TypeOK, CloseInv, Leaving
  <2>4. \A s \in Session : Kept(s)' <=> Kept(s)
    <3>1. mine \in teardown' /\ mine.of = on[c] /\ \A r \in teardown' : r = mine \/ r \in teardown
      BY <2>1
    <3>2. ASSUME NEW s \in Session, s = on[c]
          PROVE  Kept(s)' /\ Kept(s)
      BY <1>1, <3>1, <3>2 DEF Kept, Leaving
    <3>3. ASSUME NEW s \in Session, s # on[c]
          PROVE  Kept(s)' <=> Kept(s)
      BY <2>1, <3>1, <3>3 DEF Kept, Leaving
    <3> QED BY <3>2, <3>3
  <2> QED BY <2>1, <2>2, <2>3, <2>4 DEF IInv, TypeOK
<1>2. CASE on[c] \notin sessions
  <2>1. Leave(c) /\ UNCHANGED <<sessions, teardown>>
    BY <1>2 DEF CallClose
  <2>2. \A d \in Caller \ {c} : pc'[d] = pc[d] /\ on'[d] = on[d]
    BY <2>1 DEF Leave, IInv, TypeOK
  <2>3. pc'[c] = "idle"
    BY <2>1 DEF Leave, IInv, TypeOK
  <2>4. CloseInv'
    BY <2>1, <2>2 DEF IInv, TypeOK, CloseInv, Leaving
  <2> QED BY <2>1, <2>2, <2>3, <2>4, LeaveKeepsQueues DEF IInv, TypeOK, Kept, Leaving
<1> QED BY <1>1, <1>2

\* A request queues a call behind those there are, on a session in the map.
LEMMA RequestStep ==
  ASSUME IInv, NEW c \in Caller, NEW s \in Session, NEW k \in {"step", "close"}, Request(c, s, k)
  PROVE  IInv'
<1>1. \A d \in Caller : /\ pc'[d] = IF d = c THEN "queued" ELSE pc[d]
                        /\ on'[d] = IF d = c THEN s ELSE on[d]
  BY DEF IInv, TypeOK, Request
<1>2. /\ tail[s] \in Seq(Caller)
      /\ tail' = [tail EXCEPT ![s] = Append(tail[s], c)]
      /\ Append(tail[s], c) \in Seq(Caller)
      /\ Len(Append(tail[s], c)) = Len(tail[s]) + 1
      /\ Append(tail[s], c)[Len(tail[s]) + 1] = c
      /\ \A i \in 1 .. Len(tail[s]) : Append(tail[s], c)[i] = tail[s][i]
  BY DEF IInv, TypeOK, Request
<1>3. TypeOK'
  <2>1. 0 \in 0 .. IdleTtl
    BY ConstantsAssumption
  <2> QED BY <1>2, <2>1 DEF IInv, TypeOK, Request, openVars, downVars
<1>4. OpenInv'
  BY OpenFrame DEF IInv, Request, openVars, downVars
<1>5. CloseInv'
  BY <1>1 DEF IInv, TypeOK, CloseInv, Leaving, Request, downVars
<1>6. QueueInv'
  <2> SUFFICES ASSUME NEW d \in Caller
               PROVE  /\ pc'[d] = "idle" <=> on'[d] = NoSession
                      /\ pc'[d] = "queued" => \E i \in 1 .. Len(tail'[on'[d]]) : tail'[on'[d]][i] = d
                      /\ Active(d)' => Heads(d)'
    BY DEF QueueInv
  <2>1. CASE d = c
    <3>1. tail'[s] = Append(tail[s], c) /\ pc'[d] = "queued" /\ on'[d] = s
      BY <1>1, <1>2, <2>1 DEF IInv, TypeOK
    <3>2. Len(tail[s]) + 1 \in 1 .. Len(tail'[s])
      BY <1>2, <3>1
    <3>3. tail'[s][Len(tail[s]) + 1] = d
      BY <1>2, <2>1, <3>1
    <3>4. \E i \in 1 .. Len(tail'[on'[d]]) : tail'[on'[d]][i] = d
      BY <3>1, <3>2, <3>3
    <3>5. s # NoSession
      BY ConstantsAssumption
    <3>6. ~ Active(d)'
      BY <3>1 DEF Active
    <3> QED BY <3>1, <3>4, <3>5, <3>6
  <2>2. CASE d # c /\ on[d] # s
    <3>1. pc'[d] = pc[d] /\ on'[d] = on[d] /\ (on[d] \in Session => tail'[on[d]] = tail[on[d]])
      BY <1>1, <1>2, <2>2 DEF IInv, TypeOK
    <3>2. pc[d] # "idle" => on[d] \in Session
      BY OnSession
    <3> QED BY <3>1, <3>2 DEF IInv, QueueInv, Active, Heads
  <2>3. CASE d # c /\ on[d] = s
    <3>1. tail'[s] = Append(tail[s], c) /\ pc'[d] = pc[d] /\ on'[d] = s
      BY <1>1, <1>2, <2>3 DEF IInv, TypeOK
    <3>2. pc[d] = "queued" => \E i \in 1 .. Len(Append(tail[s], c)) : Append(tail[s], c)[i] = d
      BY <1>2, <2>3 DEF IInv, QueueInv
    <3>3. Active(d) => Append(tail[s], c) # <<>> /\ Head(Append(tail[s], c)) = d
      BY <1>2, <2>3 DEF IInv, QueueInv, Heads
    <3> QED BY <2>3, <3>1, <3>2, <3>3 DEF IInv, QueueInv, Active, Heads
  <2> QED BY <2>1, <2>2, <2>3
<1>7. FlushInv'
  <2>1. \A d \in Caller : pc'[d] = "flushing" <=> (pc[d] = "flushing" /\ d # c)
    BY <1>1
  <2>2. pc[c] = "idle" /\ UNCHANGED <<recorder, teardown>>
    BY DEF Request
  <2> QED BY <1>1, <2>1, <2>2 DEF IInv, FlushInv
<1> QED BY <1>3, <1>4, <1>5, <1>6, <1>7 DEF IInv

\* A refused call drops an entry that the map does not have.
LEMMA RefuseStep ==
  ASSUME IInv, NEW s \in Session, Refuse(s)
  PROVE  IInv'
<1>1. TypeOK'
  BY DEF IInv, TypeOK, Refuse, openVars, callVars, downVars
<1>2. OpenInv'
  <2>1. stage[s] = "open"
    BY DEF IInv, OpenInv, Refuse
  <2> QED BY <2>1 DEF IInv, OpenInv, Kept, Leaving, Early, Usable, Miscarried, Refuse, openVars, downVars
<1>3. CloseInv' /\ QueueInv' /\ FlushInv'
  BY CloseFrame, QueueFrame, FlushFrame DEF IInv, Refuse, callVars, downVars
<1> QED BY <1>1, <1>2, <1>3 DEF IInv

\* A step that ends, well or not, leaves the queue.
LEMMA StepEndsStep ==
  ASSUME IInv, NEW c \in Caller, NEW ok \in BOOLEAN, StepEnds(c, ok)
  PROVE  IInv'
<1>1. on[c] \in Session /\ Heads(c)
  BY OnSession DEF IInv, QueueInv, Active, StepEnds
<1>2. TypeOK' /\ QueueInv'
  BY <1>1, LeaveKeepsQueues DEF IInv, TypeOK, StepEnds, openVars, downVars
<1>3. OpenInv'
  BY OpenFrame DEF IInv, StepEnds, openVars, downVars
<1>4. \A d \in Caller : /\ pc'[d] = IF d = c THEN "idle" ELSE pc[d]
                        /\ on'[d] = IF d = c THEN NoSession ELSE on[d]
  BY DEF IInv, TypeOK, StepEnds, Leave
<1>5. CloseInv'
  BY <1>4 DEF IInv, TypeOK, CloseInv, Leaving, StepEnds, downVars
<1>6. FlushInv'
  <2>1. pc[c] = "running" /\ UNCHANGED <<recorder, teardown>>
    BY DEF StepEnds
  <2> QED BY <1>4, <2>1 DEF IInv, FlushInv
<1> QED BY <1>2, <1>3, <1>5, <1>6 DEF IInv

\* A call whose turn it is runs its step, stops the recorder that nobody stops,
\* or closes.
LEMMA StartStep ==
  ASSUME IInv, NEW c \in Caller, Start(c)
  PROVE  IInv'
<1>1. on[c] \in Session /\ Heads(c) /\ pc[c] = "queued"
  BY ReadyHeads DEF Start, Ready
<1>2. CASE kind[c] = "step" /\ pc' = [pc EXCEPT ![c] = "running"]
           /\ UNCHANGED <<sessions, recorder, tail, on, kind, teardown>>
  <2>1. TypeOK' /\ QueueInv'
    BY <1>1, <1>2, MoveKeepsQueues DEF IInv, TypeOK, Start, openVars, downVars
  <2>2. OpenInv'
    BY <1>2, OpenFrame DEF IInv, Start, openVars, downVars
  <2>3. \A d \in Caller : pc'[d] = IF d = c THEN "running" ELSE pc[d]
    BY <1>2 DEF IInv, TypeOK
  <2>4. CloseInv'
    BY <1>1, <1>2, <2>3 DEF IInv, TypeOK, CloseInv, Leaving, Start, downVars
  <2>5. FlushInv'
    BY <1>1, <1>2, <2>3 DEF IInv, FlushInv
  <2> QED BY <2>1, <2>2, <2>4, <2>5 DEF IInv
<1>3. CASE recorder[on[c]] = "on" /\ recorder' = [recorder EXCEPT ![on[c]] = "stopping"]
           /\ pc' = [pc EXCEPT ![c] = "flushing"] /\ UNCHANGED <<sessions, tail, on, kind, teardown>>
  <2>1. TypeOK' /\ QueueInv'
    BY <1>1, <1>3, MoveKeepsQueues DEF IInv, TypeOK, Start, openVars, downVars
  <2>2. \A s \in Session : recorder'[s] = IF s = on[c] THEN "stopping" ELSE recorder[s]
    BY <1>3 DEF IInv, TypeOK
  <2>3. \A d \in Caller : pc'[d] = IF d = c THEN "flushing" ELSE pc[d]
    BY <1>3 DEF IInv, TypeOK
  <2>4. OpenInv'
    BY <1>1, <1>3, <2>2 DEF IInv, OpenInv, Kept, Leaving, Early, Usable, Miscarried, Start, openVars, downVars
  <2>5. CloseInv'
    BY <1>1, <1>3, <2>3 DEF IInv, TypeOK, CloseInv, Leaving, Start, downVars
  <2>6. \A d \in Caller : pc[d] = "flushing" => on[d] \in Session /\ on[d] # on[c]
    BY <1>3, OnSession DEF IInv, FlushInv
  <2>7. \A r \in teardown : r.of \in Session /\ (r.at = "flush" => r.of # on[c])
    BY <1>3 DEF IInv, TypeOK, FlushInv
  <2>8. FlushInv'
    BY <1>1, <1>3, <2>2, <2>3, <2>6, <2>7 DEF IInv, FlushInv
  <2> QED BY <2>1, <2>4, <2>5, <2>8 DEF IInv
<1>4. CASE recorder[on[c]] # "on" /\ CallClose(c) /\ UNCHANGED recorder
  <2>1. ~ NeedsFlush(on[c]) /\ UNCHANGED <<stage, context, registry, har, down, leaving>>
    BY <1>4 DEF NeedsFlush, Start, openVars, downVars
  <2>2. TypeOK' /\ QueueInv' /\ CloseInv'
    BY <1>1, <1>4, <2>1, CallCloseKeeps DEF IInv, TypeOK, Start, openVars, downVars
  <2>3. sessions' \subseteq sessions /\ \A s \in Session : Kept(s)' <=> Kept(s)
    BY <1>1, <1>4, <2>1, CallCloseKeeps
  <2>4. OpenInv'
    BY <1>4, <2>1, <2>3 DEF IInv, OpenInv, Early, Usable, Miscarried
  <2>5. /\ \A r : r.at = "flush" => (r \in teardown' <=> r \in teardown)
        /\ \A d \in Caller \ {c} : pc'[d] = pc[d] /\ on'[d] = on[d]
        /\ pc'[c] # "flushing"
    BY <1>1, <1>4, <2>1, CallCloseKeeps
  <2>6. FlushInv'
    BY <1>1, <1>4, <2>5 DEF IInv, FlushInv
  <2> QED BY <2>2, <2>4, <2>6 DEF IInv
<1> QED BY <1>2, <1>3, <1>4 DEF Start

\* close_session's flush ends its recorder's stopping, and with it the call or
\* the session.
LEMMA CloserFlushesStep ==
  ASSUME IInv, NEW c \in Caller, NEW ok \in BOOLEAN, CloserFlushes(c, ok)
  PROVE  IInv'
<1> DEFINE s == on[c]
<1>1. s \in Session /\ Heads(c) /\ pc[c] = "flushing"
  BY OnSession DEF IInv, QueueInv, Active, CloserFlushes
<1>2. recorder[s] = "stopping" /\ ~ NeedsFlush(s) /\ stage[s] = "open"
  BY <1>1 DEF IInv, FlushInv, OpenInv, NeedsFlush
<1>3. /\ UNCHANGED <<stage, context, registry, har, down, leaving>>
      /\ \A t \in Session : recorder'[t] = IF t # s THEN recorder[t] ELSE IF ok THEN "flushed" ELSE "failed"
  BY DEF IInv, TypeOK, CloserFlushes, openVars, downVars
<1>4. \A d \in Caller \ {c} : pc[d] = "flushing" => on[d] \in Session /\ on[d] # s
  BY <1>1, OnSession DEF IInv, QueueInv, Active, Heads
<1>5. \A r \in teardown : r.of \in Session /\ (r.at = "flush" => r.of # s)
  BY <1>1 DEF IInv, TypeOK, FlushInv
<1>6. CASE ok
  <2>1. CallClose(c)
    BY <1>6 DEF CloserFlushes
  <2>2. TypeOK' /\ QueueInv' /\ CloseInv'
    BY <1>1, <1>2, <1>3, <2>1, CallCloseKeeps DEF IInv, TypeOK, CloserFlushes, openVars, downVars
  <2>3. sessions' \subseteq sessions /\ \A t \in Session : Kept(t)' <=> Kept(t)
    BY <1>1, <1>2, <1>3, <2>1, CallCloseKeeps
  <2>4. OpenInv'
    BY <1>2, <1>3, <2>3 DEF IInv, OpenInv, Early, Usable, Miscarried
  <2>5. /\ \A r : r.at = "flush" => (r \in teardown' <=> r \in teardown)
        /\ \A d \in Caller \ {c} : pc'[d] = pc[d] /\ on'[d] = on[d]
        /\ pc'[c] # "flushing"
    BY <1>1, <1>2, <1>3, <2>1, CallCloseKeeps
  <2>6. FlushInv'
    BY <1>1, <1>3, <1>4, <1>5, <2>5 DEF IInv, FlushInv
  <2> QED BY <2>2, <2>4, <2>6 DEF IInv
<1>7. CASE ~ ok
  <2>1. Leave(c) /\ UNCHANGED <<sessions, teardown>>
    BY <1>7 DEF CloserFlushes
  <2>2. TypeOK' /\ QueueInv'
    BY <1>1, <1>3, <2>1, LeaveKeepsQueues DEF IInv, TypeOK, CloserFlushes, openVars, downVars
  <2>3. \A d \in Caller : /\ pc'[d] = IF d = c THEN "idle" ELSE pc[d]
                          /\ on'[d] = IF d = c THEN NoSession ELSE on[d]
    BY <2>1 DEF IInv, TypeOK, Leave
  <2>4. OpenInv'
    BY <1>2, <1>3, <2>1 DEF IInv, OpenInv, Kept, Leaving, Early, Usable, Miscarried
  <2>5. CloseInv'
    BY <1>1, <1>3, <2>1, <2>3 DEF IInv, TypeOK, CloseInv, Leaving
  <2>6. FlushInv'
    BY <1>1, <1>3, <1>4, <1>5, <2>1, <2>3 DEF IInv, FlushInv
  <2> QED BY <2>2, <2>4, <2>5, <2>6 DEF IInv
<1> QED BY <1>6, <1>7

-----------------------------------------------------------------------------
(* Closers, the reaper's and the calls'.                                   *)

\* The reaper's flush ends; its closer goes on, or the trace is lost.
LEMMA FlushEndsStep ==
  ASSUME IInv, NEW r \in teardown, NEW ok \in BOOLEAN, FlushEnds(r, ok)
  PROVE  IInv'
<1> DEFINE s == r.of
           next == [of |-> s, by |-> Reaper, at |-> "close"]
<1>0. r \in [of : Session, by : Caller \cup {Reaper}, at : {"flush", "close"}]
  BY DEF IInv, TypeOK
<1>1. s \in Session /\ r.by = Reaper /\ r.at = "flush"
  BY <1>0 DEF IInv, CloseInv, Leaving, FlushEnds
<1>2. recorder[s] = "stopping" /\ stage[s] = "open"
  BY <1>1 DEF IInv, FlushInv, OpenInv
<1>3. \A q \in teardown : q.of \in Session /\ (q # r => q.of # s)
  BY DEF IInv, TypeOK, CloseInv, Leaving
<1>4. \A c \in Caller : pc[c] = "flushing" => on[c] \in Session /\ on[c] # s
  <2>1. \A c \in Caller : pc[c] = "flushing" => on[c] # s
    BY <1>1 DEF IInv, FlushInv
  <2> QED BY <2>1, OnSession
<1>5. QueueInv'
  BY QueueFrame DEF IInv, FlushEnds, callVars
<1>6. CASE ok
  <2>1. /\ teardown' = (teardown \ {r}) \cup {next}
        /\ UNCHANGED <<stage, context, sessions, registry, har, down, leaving, pc, on>>
        /\ \A t \in Session : recorder'[t] = IF t = s THEN "flushed" ELSE recorder[t]
    <3>1. [r EXCEPT !.at = "close"] = next
      BY <1>0, <1>1
    <3> QED BY <1>6, <3>1 DEF IInv, TypeOK, FlushEnds, openVars, callVars, downVars
  <2>2. TypeOK'
    BY <1>1, <1>6, <2>1 DEF IInv, TypeOK, FlushEnds, openVars, callVars, downVars
  <2>3. \A t \in Session : Kept(t)' <=> Kept(t)
    <3>1. \A t \in Session : (\E q \in teardown' : q.of = t) <=> (\E q \in teardown : q.of = t)
      <4>1. next.of = s /\ next \in teardown' /\ \A q \in teardown' : q = next \/ q \in teardown
        BY <2>1
      <4>2. \A q \in teardown \ {r} : q \in teardown'
        BY <2>1
      <4> QED BY <4>1, <4>2
    <3> QED BY <2>1, <3>1 DEF Kept, Leaving
  <2>4. OpenInv'
    BY <1>2, <2>1, <2>3 DEF IInv, OpenInv, Early, Usable, Miscarried
  <2>5. CloseInv'
    BY <1>1, <1>3, <2>1 DEF IInv, CloseInv, Leaving
  <2>6. FlushInv'
    BY <1>1, <1>3, <1>4, <2>1 DEF IInv, FlushInv
  <2> QED BY <1>5, <2>2, <2>4, <2>5, <2>6 DEF IInv
<1>7. CASE ~ ok
  <2>1. /\ teardown' = teardown \ {r}
        /\ UNCHANGED <<stage, context, sessions, registry, har, down, leaving, pc, on>>
        /\ \A t \in Session : recorder'[t] = IF t = s THEN "lost" ELSE recorder[t]
    BY <1>7 DEF IInv, TypeOK, FlushEnds, openVars, callVars, downVars
  <2>2. TypeOK'
    BY <1>1, <1>7, <2>1 DEF IInv, TypeOK, FlushEnds, openVars, callVars, downVars
  <2>3. \A t \in Session \ {s} : Kept(t)' <=> Kept(t)
    BY <2>1 DEF Kept, Leaving
  <2>4. OpenInv'
    BY <1>2, <2>1, <2>3 DEF IInv, OpenInv, Early, Usable, Miscarried
  <2>5. CloseInv'
    BY <2>1 DEF IInv, CloseInv, Leaving
  <2>6. FlushInv'
    BY <1>1, <1>3, <1>4, <2>1 DEF IInv, FlushInv
  <2> QED BY <1>5, <2>2, <2>4, <2>5, <2>6 DEF IInv
<1> QED BY <1>6, <1>7

\* A context has closed and onClosed has run: the session is in no map, and the
\* call that closed it is over.
LEMMA ContextClosesStep ==
  ASSUME IInv, NEW r \in teardown, NEW outcome \in Outcome, ContextCloses(r, outcome)
  PROVE  IInv'
<1> DEFINE s == r.of
<1>1. s \in Session /\ r.at = "close" /\ r.by \in Caller \cup {Reaper}
  BY DEF IInv, TypeOK, ContextCloses
<1>2. /\ teardown' = teardown \ {r}
      /\ registry' = IF outcome = "closed" THEN registry \ {s} ELSE registry
      /\ context' = [context EXCEPT ![s] = IF outcome = "refused" THEN "stuck" ELSE "closed"]
      /\ UNCHANGED <<browser, stage, sessions, age, recorder, reaper, down, leaving, hung>>
  BY DEF ContextCloses, openVars, downVars
<1>3. /\ har' \in [Session -> {"none", "raw", "final"}]
      /\ \A t \in Session \ {s} : har'[t] = har[t]
      /\ har'[s] = "final" /\ har[s] # "final" => outcome = "closed" /\ s \in registry
      /\ outcome = "unfinalized" => har'[s] = "raw"
  BY <1>1 DEF IInv, TypeOK, ContextCloses, Outcome, Finalized, Written
<1>4. OpenInv'
  <2>1. \A t \in Session \ {s} : Kept(t)' <=> Kept(t)
    BY <1>2 DEF Kept, Leaving
  <2>2. \A t \in Session : context'[t] = IF t # s THEN context[t]
                                         ELSE IF outcome = "refused" THEN "stuck" ELSE "closed"
    BY <1>2 DEF IInv, TypeOK
  <2>3. Kept(s)
    BY DEF Kept
  <2>4. s \notin sessions
    BY DEF IInv, CloseInv
  <2>5. ~ Early(s)
    BY <1>1, <2>3 DEF IInv, OpenInv
  <2>6. ASSUME NEW t \in Session, t # s
        PROVE  /\ stage'[t] = stage[t] /\ context'[t] = context[t] /\ har'[t] = har[t]
               /\ recorder'[t] = recorder[t] /\ (t \in registry' <=> t \in registry)
               /\ (t \in sessions' <=> t \in sessions) /\ (Kept(t)' <=> Kept(t))
    BY <1>2, <1>3, <2>1, <2>2, <2>6
  <2>7. /\ stage'[s] # "open" => recorder'[s] = "none" /\ s \notin registry'
        /\ ~ Early(s)'
        /\ s \in registry' => context'[s] = "stuck" \/ (context'[s] = "closed" /\ har'[s] # "final")
        /\ context'[s] # "alive" /\ context'[s] # "none"
        /\ har'[s] = "final" => stage'[s] = "open" /\ s \notin registry'
        /\ s \notin sessions'
    BY <1>1, <1>2, <1>3, <2>2, <2>4, <2>5 DEF IInv, OpenInv, Early, Outcome
  <2>8. ASSUME NEW t \in Session
        PROVE  /\ stage'[t] \in {"routing", "setup", "open"} => context'[t] # "none"
               /\ har'[t] = "final" => stage'[t] = "open" /\ t \notin registry'
               /\ stage'[t] # "open" => recorder'[t] = "none" /\ t \notin registry'
               /\ Early(t)' => ~ Kept(t)'
               /\ t \in registry' \/ (stage'[t] = "setup" /\ Usable(t)') => Kept(t)' \/ Miscarried(t)'
               /\ t \in sessions' /\ stage'[t] = "open" => t \in registry'
    <3>1. CASE t = s
      BY <2>7, <3>1 DEF Usable, Miscarried
    <3>2. CASE t # s
      BY <2>6, <3>2 DEF IInv, OpenInv, Early, Usable, Miscarried
    <3> QED BY <3>1, <3>2
  <2> QED BY <2>8 DEF OpenInv
<1>5. CASE r.by = Reaper
  <2>1. UNCHANGED <<tail, pc, on, kind>>
    BY <1>5 DEF ContextCloses, callVars
  <2>2. TypeOK'
    BY <1>1, <1>2, <1>3, <2>1 DEF IInv, TypeOK
  <2>3. CloseInv' /\ QueueInv'
    BY <1>2, <2>1, QueueFrame DEF IInv, CloseInv, Leaving
  <2>4. FlushInv'
    BY <1>1, <1>2, <2>1 DEF IInv, FlushInv
  <2> QED BY <1>4, <2>2, <2>3, <2>4 DEF IInv
<1>6. CASE r.by # Reaper
  <2> DEFINE c == r.by
  <2>1. c \in Caller /\ pc[c] = "closing" /\ on[c] = s /\ Heads(c) /\ Leave(c)
    BY <1>1, <1>6 DEF IInv, CloseInv, Leaving, QueueInv, Active, ContextCloses
  <2>2. TypeOK' /\ QueueInv'
    BY <1>1, <1>2, <1>3, <2>1, LeaveKeepsQueues DEF IInv, TypeOK
  <2>3. \A d \in Caller : /\ pc'[d] = IF d = c THEN "idle" ELSE pc[d]
                          /\ on'[d] = IF d = c THEN NoSession ELSE on[d]
    BY <2>1 DEF IInv, TypeOK, Leave
  <2>4. \A q \in teardown \ {r} : q.by # c
    BY <1>6, <2>1 DEF IInv, CloseInv, Leaving
  <2>5. CloseInv'
    BY <1>2, <2>3, <2>4 DEF IInv, TypeOK, CloseInv, Leaving
  <2>6. FlushInv'
    BY <1>1, <1>2, <2>1, <2>3 DEF IInv, FlushInv
  <2> QED BY <1>4, <2>2, <2>5, <2>6 DEF IInv
<1> QED BY <1>5, <1>6

\* The sweep takes each session it closes out of the map, and stops the
\* recorders that nobody stops.
LEMMA SweepIdleStep ==
  ASSUME IInv, SweepIdle
  PROVE  IInv'
<1> DEFINE S == {s \in Session : Idle(s)}
           new(s) == [of |-> s, by |-> Reaper, at |-> IF NeedsFlush(s) THEN "flush" ELSE "close"]
<1>1. S \subseteq sessions
  BY DEF Idle
<1>2. /\ sessions' = sessions \ S
      /\ teardown' = teardown \cup {new(s) : s \in S}
      /\ recorder' = [s \in Session |-> IF s \in S /\ NeedsFlush(s) THEN "stopping" ELSE recorder[s]]
      /\ UNCHANGED <<browser, stage, context, registry, age, har, tail, pc, on, kind, reaper, down,
                     leaving, hung>>
  BY DEF SweepIdle, Forget, StopRecorders, Closings, openVars, callVars, downVars
<1>3. \A r \in teardown : r.of \in Session /\ r.of \notin S
  BY <1>1 DEF IInv, TypeOK, CloseInv, Leaving
<1>4. \A r \in teardown' : r \in teardown \/ (r.of \in S /\ r = new(r.of))
  BY <1>2
<1>5. \A s \in S : new(s) \in teardown'
  BY <1>2
<1>6. \A s \in Session : NeedsFlush(s) => recorder[s] = "on"
  BY DEF NeedsFlush
<1>7. TypeOK'
  <2>1. \A s \in S : new(s) \in [of : Session, by : Caller \cup {Reaper}, at : {"flush", "close"}]
    OBVIOUS
  <2>2. teardown' \in SUBSET [of : Session, by : Caller \cup {Reaper}, at : {"flush", "close"}]
    BY <1>2, <2>1 DEF IInv, TypeOK
  <2> QED BY <1>2, <2>2 DEF IInv, TypeOK
<1>8. OpenInv'
  <2>1. \A s \in Session : Kept(s)' <=> Kept(s)
    <3>1. ASSUME NEW s \in S
          PROVE  Kept(s)' /\ Kept(s)
      <4>1. new(s) \in teardown' /\ new(s).of = s
        BY <1>5
      <4> QED BY <1>1, <4>1 DEF Kept, Leaving
    <3>2. ASSUME NEW s \in Session \ S
          PROVE  Kept(s)' <=> Kept(s)
      <4>1. \A r : r.of = s => (r \in teardown' <=> r \in teardown)
        BY <1>2, <1>4
      <4> QED BY <1>2, <4>1 DEF Kept, Leaving
    <3> QED BY <3>1, <3>2
  <2>2. \A s \in Session : recorder'[s] = recorder[s] \/ (recorder[s] = "on" /\ recorder'[s] = "stopping")
    BY <1>2, <1>6
  <2> QED BY <1>2, <2>1, <2>2 DEF IInv, OpenInv, Early, Usable, Miscarried
<1>9. CloseInv'
  BY <1>1, <1>2, <1>3, <1>4 DEF IInv, TypeOK, CloseInv, Leaving
<1>10. QueueInv'
  BY <1>2, QueueFrame DEF IInv
<1>11. FlushInv'
  <2>1. \A c \in Caller : pc[c] = "flushing" => on[c] \in Session /\ recorder[on[c]] = "stopping"
    BY OnSession DEF IInv, FlushInv
  <2>2. \A s \in Session : recorder[s] = "stopping" => recorder'[s] = "stopping"
    BY <1>2
  <2>3. \A r \in teardown' : r.at = "flush" =>
           \/ r \in teardown
           \/ r.of \in Session /\ recorder[r.of] = "on" /\ recorder'[r.of] = "stopping"
    BY <1>2, <1>4, <1>6
  <2>4. \A s \in Session : recorder'[s] = "stopping" =>
           recorder[s] = "stopping" \/ (new(s) \in teardown' /\ new(s).at = "flush" /\ new(s).of = s)
    BY <1>2, <1>5
  <2>5. \A c \in Caller : pc'[c] = "flushing" => recorder'[on'[c]] = "stopping"
    BY <1>2, <2>1, <2>2
  <2>6. \A r \in teardown' : r.at = "flush" => recorder'[r.of] = "stopping"
    BY <1>3, <2>2, <2>3 DEF IInv, FlushInv
  <2>7. \A c \in Caller, r \in teardown' : pc'[c] = "flushing" /\ r.at = "flush" => on'[c] # r.of
    BY <1>2, <2>1, <2>3 DEF IInv, FlushInv
  <2>8. \A s \in Session :
          recorder'[s] = "stopping" => \/ \E c \in Caller : pc'[c] = "flushing" /\ on'[c] = s
                                      \/ \E r \in teardown' : r.at = "flush" /\ r.of = s
    BY <1>2, <2>4 DEF IInv, FlushInv
  <2> QED BY <2>5, <2>6, <2>7, <2>8 DEF FlushInv
<1> QED BY <1>7, <1>8, <1>9, <1>10, <1>11 DEF IInv

-----------------------------------------------------------------------------
(* shutdown, the interval and the clock.                                   *)

\* Shutdown takes over the sessions of the map.  Those that an earlier one, cut
\* short, had taken are not for it to close.
LEMMA ShutdownStep ==
  ASSUME IInv, Shutdown
  PROVE  IInv'
<1>1. TypeOK'
  BY DEF IInv, TypeOK, Shutdown, Forget, openVars, callVars
<1>2. OpenInv'
  <2>1. /\ sessions' = {} /\ down' = "contexts" /\ leaving' = sessions
        /\ \A s \in Session : Leaving(s) => context[s] # "alive"
        /\ UNCHANGED <<stage, context, registry, recorder, har, teardown>>
    BY DEF Shutdown, Forget, Leaving, openVars
  <2>2. \A s \in Session : Kept(s)' => Kept(s)
    BY <2>1 DEF Kept, Leaving
  <2>3. \A s \in Session : Kept(s) => Kept(s)' \/ Leaving(s)
    BY <2>1 DEF Kept, Leaving
  <2>4. \A s \in Session : Leaving(s) /\ (s \in registry \/ (stage[s] = "setup" /\ Usable(s))) => Miscarried(s)
    BY <2>1 DEF IInv, TypeOK, OpenInv, Usable, Miscarried
  <2> QED BY <2>1, <2>2, <2>3, <2>4 DEF IInv, OpenInv, Early, Usable, Miscarried
<1>3. CloseInv'
  BY DEF IInv, CloseInv, Leaving, Shutdown, Forget, callVars
<1>4. QueueInv' /\ FlushInv'
  BY QueueFrame, FlushFrame DEF IInv, Shutdown, callVars
<1> QED BY <1>1, <1>2, <1>3, <1>4 DEF IInv

\* A context that shutdown closes, or cannot close, is in its hands until then.
LEMMA DownContextStep ==
  ASSUME IInv, NEW s \in Session, NEW ok \in BOOLEAN, DownContext(s, ok)
  PROVE  IInv'
<1>1. /\ Leaving(s) /\ context[s] = "alive"
      /\ \A t \in Session : /\ context'[t] = IF t # s THEN context[t] ELSE IF ok THEN "closed" ELSE "stuck"
                            /\ har'[t] = IF t = s /\ ok THEN "raw" ELSE har[t]
                            /\ Leaving(t)' <=> Leaving(t)
      /\ UNCHANGED <<stage, sessions, registry, recorder, teardown, tail, pc, on>>
  BY DEF IInv, TypeOK, DownContext, Leaving, openVars, callVars
<1>2. TypeOK'
  BY DEF IInv, TypeOK, DownContext, openVars, callVars
<1>3. OpenInv'
  <2>1. \A t \in Session : Kept(t)' <=> Kept(t)
    BY <1>1 DEF Kept
  <2> QED BY <1>1, <2>1 DEF IInv, OpenInv, Early, Usable, Miscarried
<1>4. CloseInv'
  BY <1>1 DEF IInv, TypeOK, CloseInv
<1>5. QueueInv' /\ FlushInv'
  BY <1>1, QueueFrame, FlushFrame DEF IInv
<1> QED BY <1>2, <1>3, <1>4, <1>5 DEF IInv

\* onClosed drops what shutdown has closed; the rest was kept by others.
LEMMA DownClosedStep ==
  ASSUME IInv, DownClosed
  PROVE  IInv'
<1>1. /\ down = "contexts" /\ down' \in {"browser", "no"}
      /\ registry' = registry \ leaving
      /\ \A s \in leaving : context[s] = "closed"
      /\ \A s \in Session : har'[s] = har[s] \/ s \in leaving
      /\ \A s \in Session : har'[s] = "final" => har[s] = "final" \/ s \in registry
      /\ UNCHANGED <<stage, context, sessions, age, recorder, tail, pc, on, kind, teardown, reaper>>
  BY DEF IInv, TypeOK, DownClosed, callVars, Finalized, Written
<1>2. TypeOK'
  BY DEF IInv, TypeOK, DownClosed, callVars, Finalized, Written
<1>3. OpenInv'
  <2>1. \A s \in Session : Kept(s)' => Kept(s)
    BY <1>1 DEF Kept, Leaving
  <2>2. \A s \in Session : Kept(s) => Kept(s)' \/ s \in leaving
    BY <1>1 DEF Kept, Leaving
  <2>3. \A s \in sessions : s \notin leaving
    BY <1>1 DEF IInv, CloseInv, Leaving
  <2>4. \A s \in Session : har'[s] = "final" => stage[s] = "open" /\ s \notin registry'
    BY <1>1 DEF IInv, OpenInv
  <2>5. \A s \in Session : s \in leaving => s \notin registry' /\ ~ Usable(s)'
    BY <1>1 DEF Usable
  <2>6. \A s \in Session : s \notin leaving => (s \in registry' <=> s \in registry) /\ har'[s] = har[s]
    BY <1>1
  <2>7. ASSUME NEW s \in Session, s \in registry' \/ (stage'[s] = "setup" /\ Usable(s)')
        PROVE  Kept(s)' \/ Miscarried(s)'
    BY <1>1, <2>2, <2>5, <2>6, <2>7 DEF IInv, OpenInv, Usable, Miscarried
  <2> QED BY <1>1, <2>1, <2>3, <2>4, <2>6, <2>7 DEF IInv, OpenInv, Early
<1>4. CloseInv'
  BY <1>1 DEF IInv, CloseInv, Leaving
<1>5. QueueInv' /\ FlushInv'
  BY <1>1, QueueFrame, FlushFrame DEF IInv
<1> QED BY <1>2, <1>3, <1>4, <1>5 DEF IInv

\* What onClosed has not come to when shutdown is cut short is closed, and its
\* archive is not final.
LEMMA DownCutShortStep ==
  ASSUME IInv, DownCutShort
  PROVE  IInv'
<1>1. PICK Done \in SUBSET leaving :
        /\ har' = [s \in Session |-> IF s \in Done THEN Finalized(s) ELSE har[s]]
        /\ registry' = registry \ Done
  BY DEF DownCutShort
<1>2. /\ down = "contexts" /\ down' = "no" /\ leaving' = {}
      /\ \A s \in leaving : context[s] = "closed"
      /\ \A s \in Session : har'[s] = har[s] \/ s \in Done
      /\ \A s \in Session : har'[s] = "final" => har[s] = "final" \/ (s \in registry /\ s \in Done)
      /\ \A s \in Session : har'[s] \in {"none", "raw", "final"}
      /\ UNCHANGED <<browser, stage, context, sessions, age, recorder, tail, pc, on, kind, teardown,
                     reaper, hung>>
  BY <1>1 DEF IInv, TypeOK, DownCutShort, openVars, callVars, Finalized, Written
<1>3. TypeOK'
  BY <1>1, <1>2 DEF IInv, TypeOK
<1>4. OpenInv'
  <2>1. \A s \in Session : Kept(s) => Kept(s)' \/ s \in leaving
    BY <1>2 DEF Kept, Leaving
  <2>2. \A s \in Session : Kept(s)' => Kept(s)
    BY <1>2 DEF Kept, Leaving
  <2>3. \A s \in leaving : s \in registry' => har[s] # "final" /\ har'[s] = har[s]
    BY <1>1, <1>2 DEF IInv, TypeOK, OpenInv
  <2>4. Done \subseteq leaving /\ \A s \in sessions : s \notin leaving
    BY <1>1, <1>2 DEF IInv, CloseInv, Leaving
  <2> QED BY <1>1, <1>2, <2>1, <2>2, <2>3, <2>4 DEF IInv, OpenInv, Early, Usable, Miscarried
<1>5. CloseInv'
  BY <1>2 DEF IInv, CloseInv, Leaving
<1>6. QueueInv' /\ FlushInv'
  BY <1>2, QueueFrame, FlushFrame DEF IInv
<1> QED BY <1>3, <1>4, <1>5, <1>6 DEF IInv

\* The browser takes with it the contexts made on it meanwhile.
LEMMA DownBrowserStep ==
  ASSUME IInv, NEW ok \in BOOLEAN, DownBrowser(ok)
  PROVE  IInv'
<1>1. TypeOK'
  BY DEF IInv, TypeOK, DownBrowser, Stage, callVars
<1>2. /\ down = "browser" /\ down' = "no"
      /\ UNCHANGED <<sessions, registry, recorder, har, teardown, tail, pc, on>>
      /\ \A s \in Session :
           /\ stage'[s] = stage[s] \/ (stage[s] = "awaitContext" /\ stage'[s] = "failed")
           /\ context'[s] = context[s] \/ (context[s] = "alive" /\ context'[s] = "closed")
  BY DEF IInv, TypeOK, DownBrowser, callVars
<1>3. OpenInv'
  <2>1. \A s \in Session : Kept(s)' <=> Kept(s)
    BY <1>2 DEF Kept, Leaving
  <2> QED BY <1>2, <2>1 DEF IInv, OpenInv, Early, Usable, Miscarried
<1>4. CloseInv' /\ QueueInv' /\ FlushInv'
  BY <1>2, QueueFrame, FlushFrame DEF IInv, CloseInv, Leaving
<1> QED BY <1>1, <1>3, <1>4 DEF IInv

\* A page that stops answering changes nothing that is stored.
LEMMA HangStep ==
  ASSUME IInv, NEW s \in Session, Hang(s)
  PROVE  IInv'
<1>1. TypeOK'
  BY DEF IInv, TypeOK, Hang, openVars, callVars, downVars
<1>2. OpenInv' /\ CloseInv' /\ QueueInv' /\ FlushInv'
  BY OpenFrame, CloseFrame, QueueFrame, FlushFrame DEF IInv, Hang, openVars, callVars, downVars
<1> QED BY <1>1, <1>2 DEF IInv

\* Installing the interval moves nothing else.
LEMMA StartReaperStep ==
  ASSUME IInv, StartReaper
  PROVE  IInv'
<1>1. TypeOK'
  BY DEF IInv, TypeOK, StartReaper, openVars, callVars
<1>2. OpenInv' /\ CloseInv' /\ QueueInv' /\ FlushInv'
  BY OpenFrame, CloseFrame, QueueFrame, FlushFrame DEF IInv, StartReaper, openVars, callVars
<1> QED BY <1>1, <1>2 DEF IInv

\* The passing of time only makes sessions older.
LEMMA TickStep ==
  ASSUME IInv, Tick
  PROVE  IInv'
<1>1. TypeOK'
  <2>1. \A s \in Session : age'[s] \in 0 .. IdleTtl
    BY ConstantsAssumption DEF IInv, TypeOK, Tick, Older
  <2> QED BY <2>1 DEF IInv, TypeOK, Tick, openVars, callVars, downVars
<1>2. OpenInv' /\ CloseInv' /\ QueueInv' /\ FlushInv'
  BY OpenFrame, CloseFrame, QueueFrame, FlushFrame DEF IInv, Tick, openVars, callVars, downVars
<1> QED BY <1>1, <1>2 DEF IInv

-----------------------------------------------------------------------------
(* The theorems.                                                           *)

\* Before anything is opened nothing is kept, queued or flushed.
LEMMA InitInvariant == Init => IInv
<1> SUFFICES ASSUME Init PROVE IInv
  OBVIOUS
<1>1. TypeOK
  <2>1. 0 \in 0 .. IdleTtl /\ <<>> \in Seq(Caller)
    BY ConstantsAssumption
  <2> QED BY <2>1 DEF Init, TypeOK, Stage
<1>2. OpenInv /\ CloseInv /\ QueueInv /\ FlushInv
  BY DEF Init, OpenInv, Kept, Leaving, Early, Usable, Miscarried, CloseInv, Leaving, QueueInv, Active, Heads, FlushInv
<1> QED BY <1>1, <1>2 DEF IInv

\* Every step keeps the invariant.
LEMMA NextInvariant == IInv /\ [Next]_vars => IInv'
<1> SUFFICES ASSUME IInv, [Next]_vars PROVE IInv'
  OBVIOUS
<1>1. ASSUME NEW s \in Session, SessionStep(s) PROVE IInv'
  BY <1>1, BeginOpenStep, ContextOkStep, RoutesOkStep, SetupOkStep, OpenFailsStep, RefuseStep,
     DownContextStep, HangStep DEF SessionStep
<1>2. ASSUME NEW c \in Caller, CallerStep(c) PROVE IInv'
  BY <1>2, RequestStep, StartStep, StepEndsStep, CloserFlushesStep DEF CallerStep
<1>3. ASSUME NEW r \in teardown, CloserStep(r) PROVE IInv'
  BY <1>3, FlushEndsStep, ContextClosesStep DEF CloserStep
<1>4. CASE LaunchOk \/ LaunchFails
  BY <1>4, LaunchStep DEF LaunchOk, LaunchFails
<1>5. CASE \/ SweepIdle \/ Shutdown \/ DownClosed \/ DownCutShort \/ StartReaper \/ Tick
           \/ \E ok \in BOOLEAN : DownBrowser(ok)
  BY <1>5, SweepIdleStep, ShutdownStep, DownClosedStep, DownCutShortStep, DownBrowserStep,
     StartReaperStep, TickStep
<1>6. CASE UNCHANGED vars
  <2>1. TypeOK'
    BY <1>6 DEF IInv, TypeOK, vars, openVars, callVars, downVars
  <2> QED BY <1>6, <2>1, OpenFrame, CloseFrame, QueueFrame, FlushFrame
          DEF IInv, vars, openVars, callVars, downVars
<1> QED BY <1>1, <1>2, <1>3, <1>4, <1>5, <1>6 DEF Next

\* The inductive invariant holds in every reachable state.
THEOREM Invariant == Spec => []IInv
BY InitInvariant, NextInvariant, PTL DEF Spec

\* Every variable keeps its type.
THEOREM TypeCorrect == Spec => []TypeOK
<1>1. IInv => TypeOK
  BY DEF IInv
<1> QED BY <1>1, Invariant, PTL

\* A set whose members are all one has at most one.
LEMMA AtMostOne ==
  ASSUME NEW S, \A x, y \in S : x = y
  PROVE  Cardinality(S) <= 1
<1>1. CASE S = {}
  BY <1>1, FS_EmptySet
<1>2. CASE S # {}
  <2>1. PICK x : S = {x}
    BY <1>2
  <2> QED BY <2>1, FS_Singleton
<1> QED BY <1>1, <1>2

\* A context is closed by one closer, whether a call, the reaper or shutdown
\* (closeSession, shutdown).
THEOREM OneCloser == Spec => []ClosedByOne
<1>1. IInv => ClosedByOne
  <2> SUFFICES ASSUME IInv, NEW s \in Session
               PROVE  /\ Cardinality({r \in teardown : r.of = s}) <= 1
                      /\ Leaving(s) => {r \in teardown : r.of = s} = {}
                      /\ s \in sessions => {r \in teardown : r.of = s} = {}
    BY DEF ClosedByOne
  <2>1. \A q, r \in {r \in teardown : r.of = s} : q = r
    BY DEF IInv, CloseInv, Leaving
  <2>2. Cardinality({r \in teardown : r.of = s}) <= 1
    BY <2>1, AtMostOne
  <2> QED BY <2>2 DEF IInv, CloseInv, Leaving
<1> QED BY <1>1, Invariant, PTL

\* A recorder is stopped once, by close_session or by the reaper's onReap.
THEOREM OneFlush == Spec => []FlushedOnce
<1>1. IInv => FlushedOnce
  <2> SUFFICES ASSUME IInv, NEW s \in Session
               PROVE  /\ Cardinality(Flushers(s)) <= 1
                      /\ recorder[s] = "stopping" <=> Flushers(s) # {}
    BY DEF FlushedOnce
  <2>1. \A c, d \in Caller : pc[c] = "flushing" /\ pc[d] = "flushing" /\ on[c] = s /\ on[d] = s => c = d
    BY DEF IInv, QueueInv, Active, Heads
  <2>2. \A q, r \in teardown : q.of = s /\ r.of = s => q = r
    BY DEF IInv, CloseInv, Leaving
  <2>3. \A c \in Caller, r \in teardown : pc[c] = "flushing" /\ on[c] = s /\ r.at = "flush" => r.of # s
    BY DEF IInv, FlushInv
  <2>4. \A x, y \in Flushers(s) : x = y
    BY <2>1, <2>2, <2>3 DEF Flushers
  <2>5. Cardinality(Flushers(s)) <= 1
    BY <2>4, AtMostOne
  <2>6. recorder[s] = "stopping" <=> Flushers(s) # {}
    BY DEF IInv, FlushInv, Flushers
  <2> QED BY <2>5, <2>6
<1> QED BY <1>1, Invariant, PTL

\* What the registry lists is in the manager's map, is being closed, or is left
\* from a closing that went wrong; and an open session of the map is registered.
THEOREM RegistryAccounted == Spec => []RegistryIsAccountedFor
<1>1. IInv => RegistryIsAccountedFor
  BY DEF IInv, TypeOK, OpenInv, Kept, RegistryIsAccountedFor
<1> QED BY <1>1, Invariant, PTL

=============================================================================
