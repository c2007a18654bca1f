-------------------------- MODULE LspManagerProofs --------------------------
(***************************************************************************)
(* What holds of LspManager for every set of callers, roots and documents  *)
(* and every number of processes.  One inductive invariant, IInv, carries  *)
(* all the safety properties; the reaper's property follows from it by an  *)
(* argument about the waiting call that is furthest along in the order of  *)
(* documents.                                                              *)
(***************************************************************************)
EXTENDS LspManager, FiniteSetTheorems, SequenceTheorems, WellFoundedInduction, TLAPS

\* Where a caller is fits what it holds and the server it uses.
CallerInv ==
  \A c \in Caller :
    /\ on[c] = NoProc <=> pc[c] = "idle"
    /\ pc[c] # "idle" => (pc[c] = "awaiting" <=> phase[on[c]] = "initializing")
    /\ pc[c] \in {"idle", "awaiting", "acquired"} => held[c] = {}
    /\ pc[c] = "waiting" => at[c] \in todo[c]
    /\ held[c] \cap todo[c] = {}

\* An initialization under way is registered under the key it is for.
InitingInv ==
  \A k \in Key :
    initing[k] # NoProc => /\ key[initing[k]] = k
                           /\ phase[initing[k]] = "initializing"

\* A locked document's chain is headed by the caller that locked it.
HolderInv ==
  \A c \in Caller : \A u \in held[c] : HeadOf(on[c], u, c)

\* Every place in a chain belongs to a caller of that server which holds the
\* document or waits for it.
ChainInv ==
  \A p \in Proc, u \in Uri : \A i \in 1 .. Len(queue[p][u]) :
    LET d == queue[p][u][i]
    IN  /\ on[d] = p
        /\ u \in held[d] \/ (pc[d] = "waiting" /\ at[d] = u)

\* A caller stands in a chain once.
OnceInv ==
  \A p \in Proc, u \in Uri : \A i, j \in 1 .. Len(queue[p][u]) :
    queue[p][u][i] = queue[p][u][j] => i = j

\* A waiting caller is in the chain it waits in, and waits for a document
\* past all those it holds.
OrderInv ==
  \A c \in Caller :
    pc[c] = "waiting" =>
      /\ \E i \in 1 .. Len(queue[on[c]][at[c]]) : queue[on[c]][at[c]][i] = c
      /\ \A u \in held[c] : u < at[c]
      /\ \A u \in todo[c] : at[c] <= u

LockInv == HolderInv /\ ChainInv /\ OnceInv /\ OrderInv

\* Who uses which server, and what the maps say of it.
ServerInv ==
  /\ CallerInv
  /\ TrackedServersAreReady
  /\ InitingInv
  /\ ServesRequest
  /\ ServersStayConfined

IInv == TypeOK /\ ServerInv /\ LockInv /\ InFlightExact

\* The key given to a process that was never bound is a key.
LEMMA AnyKeyType == AnyKey \in Key
BY ConstantsAssumption DEF AnyKey, Key

-----------------------------------------------------------------------------
(* Frames: what the steps that move no caller leave as it is.              *)

\* A step that moves no caller and no chain disturbs no lock.
LEMMA LockFrame ==
  ASSUME LockInv, UNCHANGED <<queue, callerVars>>
  PROVE  LockInv'
BY DEF LockInv, HolderInv, ChainInv, OnceInv, OrderInv, HeadOf, callerVars

\* A step that moves no caller and touches no counter keeps them exact.
LEMMA CounterFrame ==
  ASSUME InFlightExact, UNCHANGED <<inFlight, pc, on>>
  PROVE  InFlightExact'
BY DEF InFlightExact

\* A server process that stops answering changes nothing the invariant reads.
LEMMA HangStep ==
  ASSUME IInv, NEW p \in Proc, Hang(p)
  PROVE  IInv'
<1>1. TypeOK'
  BY DEF IInv, TypeOK, Hang, Health, mapVars, callerVars
<1>2. ServerInv'
  BY DEF IInv, ServerInv, CallerInv, TrackedServersAreReady, InitingInv, ServesRequest,
         ServersStayConfined, Hang, mapVars, callerVars
<1>3. LockInv' /\ InFlightExact'
  BY LockFrame, CounterFrame DEF IInv, Hang, callerVars
<1> QED BY <1>1, <1>2, <1>3 DEF IInv

\* A server process that ends keeps its entry and its users: the manager does
\* not watch for it.
LEMMA ExitStep ==
  ASSUME IInv, NEW p \in Proc, Exit(p)
  PROVE  IInv'
<1>1. TypeOK'
  BY DEF IInv, TypeOK, Exit, Health, Phase, mapVars, callerVars
<1>2. ServerInv'
  BY DEF IInv, TypeOK, ServerInv, CallerInv, TrackedServersAreReady, InitingInv,
         ServesRequest, ServersStayConfined, Exit, mapVars, callerVars, NoProc, Proc
<1>3. LockInv' /\ InFlightExact'
  BY LockFrame, CounterFrame DEF IInv, Exit, callerVars
<1> QED BY <1>1, <1>2, <1>3 DEF IInv

\* The answer to a shutdown request concerns a server no map knows any more.
LEMMA ShutdownReplyStep ==
  ASSUME IInv, NEW p \in Proc, ShutdownReply(p)
  PROVE  IInv'
<1>1. TypeOK'
  BY DEF IInv, TypeOK, ShutdownReply, Phase, mapVars, callerVars
<1>2. ServerInv'
  BY DEF IInv, TypeOK, ServerInv, CallerInv, TrackedServersAreReady, InitingInv,
         ServesRequest, ServersStayConfined, ShutdownReply, mapVars, callerVars, NoProc, Proc
<1>3. LockInv' /\ InFlightExact'
  BY LockFrame, CounterFrame DEF IInv, ShutdownReply, callerVars
<1> QED BY <1>1, <1>2, <1>3 DEF IInv

\* Disposing of a stopped server concerns a server no map knows any more.
LEMMA DisposeStep ==
  ASSUME IInv, NEW p \in Proc, Dispose(p)
  PROVE  IInv'
<1>1. TypeOK'
  BY DEF IInv, TypeOK, Dispose, Phase, Health, mapVars, callerVars
<1>2. ServerInv'
  BY DEF IInv, TypeOK, ServerInv, CallerInv, TrackedServersAreReady, InitingInv,
         ServesRequest, ServersStayConfined, Dispose, mapVars, callerVars, NoProc, Proc
<1>3. LockInv' /\ InFlightExact'
  BY LockFrame, CounterFrame DEF IInv, Dispose, callerVars
<1> QED BY <1>1, <1>2, <1>3 DEF IInv

\* The passing of time only makes servers older.
LEMMA TickStep ==
  ASSUME IInv, Tick
  PROVE  IInv'
<1>1. TypeOK'
  <2>1. \A p \in Proc : age'[p] \in 0 .. IdleTtl
    BY ConstantsAssumption DEF IInv, TypeOK, Tick
  <2> QED BY <2>1 DEF IInv, TypeOK, Tick, mapVars, callerVars
<1>2. ServerInv'
  BY DEF IInv, ServerInv, CallerInv, TrackedServersAreReady, InitingInv, ServesRequest,
         ServersStayConfined, Tick, mapVars, callerVars
<1>3. LockInv' /\ InFlightExact'
  BY LockFrame, CounterFrame DEF IInv, Tick, callerVars
<1> QED BY <1>1, <1>2, <1>3 DEF IInv

\* Installing the reaping interval moves nothing else.
LEMMA StartReaperStep ==
  ASSUME IInv, StartReaper
  PROVE  IInv'
<1>1. TypeOK'
  BY DEF IInv, TypeOK, StartReaper, procVars, callerVars
<1>2. ServerInv'
  BY DEF IInv, ServerInv, CallerInv, TrackedServersAreReady, InitingInv, ServesRequest,
         ServersStayConfined, StartReaper, procVars, callerVars
<1>3. LockInv' /\ InFlightExact'
  BY LockFrame, CounterFrame DEF IInv, StartReaper, procVars, callerVars
<1> QED BY <1>1, <1>2, <1>3 DEF IInv

\* Stopping servers that were tracked keeps the maps and the callers in step.
LEMMA StopKeepsServers ==
  ASSUME IInv, NEW S \in SUBSET Proc, \A p \in S : Tracked(p), Stop(S),
         UNCHANGED <<key, callerVars>>, \A k \in Key : initing'[k] \in {initing[k], NoProc}
  PROVE  /\ phase' \in [Proc -> Phase]
         /\ servers' \in [Key -> Proc \cup {NoProc}]
         /\ ServerInv'
<1>1. \A p \in S : phase[p] = "ready"
  BY DEF IInv, ServerInv, TrackedServersAreReady, Tracked, Proc, NoProc
<1>2. \A p \in Proc : phase'[p] = IF p \in S THEN AfterRequest(p) ELSE phase[p]
  BY DEF Stop
<1>3. \A p \in Proc : AfterRequest(p) \in {"grace", "stopping"}
  BY DEF AfterRequest
<1>4. phase' \in [Proc -> Phase]
  BY <1>3 DEF IInv, TypeOK, Stop, Phase
<1>5. servers' \in [Key -> Proc \cup {NoProc}]
  BY DEF IInv, TypeOK, Stop
<1>6. CallerInv'
  <2>1. \A p \in Proc : phase'[p] = "initializing" <=> phase[p] = "initializing"
    BY <1>1, <1>2, <1>3
  <2>2. \A c \in Caller : pc[c] # "idle" => on[c] \in Proc
    BY DEF IInv, TypeOK, ServerInv, CallerInv
  <2> QED BY <2>1, <2>2 DEF IInv, ServerInv, CallerInv, callerVars
<1>7. TrackedServersAreReady'
  BY <1>2 DEF IInv, TypeOK, ServerInv, TrackedServersAreReady, Stop, Proc, NoProc
<1>8. InitingInv'
  BY <1>1, <1>2 DEF IInv, TypeOK, ServerInv, InitingInv, Proc, NoProc
<1>9. ServesRequest' /\ ServersStayConfined'
  BY <1>1, <1>2 DEF IInv, ServerInv, ServesRequest, ServersStayConfined, callerVars
<1> QED BY <1>4, <1>5, <1>6, <1>7, <1>8, <1>9 DEF ServerInv

\* Reaping removes each server it stops from the map in the same step.
LEMMA SweepIdleStep ==
  ASSUME IInv, SweepIdle
  PROVE  IInv'
<1> DEFINE S == {p \in Proc : Idle(p)}
<1>1. /\ phase' \in [Proc -> Phase]
      /\ servers' \in [Key -> Proc \cup {NoProc}]
      /\ ServerInv'
  <2>1. \A p \in S : Tracked(p)
    BY DEF Idle
  <2>2. \A k \in Key : initing'[k] \in {initing[k], NoProc}
    BY DEF SweepIdle
  <2> QED BY <2>1, <2>2, StopKeepsServers DEF SweepIdle, callerVars
<1>2. TypeOK'
  BY <1>1 DEF IInv, TypeOK, SweepIdle, callerVars
<1>3. LockInv' /\ InFlightExact'
  BY LockFrame, CounterFrame DEF IInv, SweepIdle, callerVars
<1> QED BY <1>1, <1>2, <1>3 DEF IInv

\* Shutdown stops exactly the servers it takes out of the map.
LEMMA ShutdownStep ==
  ASSUME IInv, Shutdown
  PROVE  IInv'
<1> DEFINE S == {p \in Proc : Tracked(p)}
<1>1. /\ phase' \in [Proc -> Phase]
      /\ servers' \in [Key -> Proc \cup {NoProc}]
      /\ ServerInv'
  <2>1. \A k \in Key : initing'[k] \in {initing[k], NoProc}
    BY DEF Shutdown
  <2> QED BY <2>1, StopKeepsServers DEF Shutdown
<1>2. TypeOK'
  BY <1>1 DEF IInv, TypeOK, Shutdown, callerVars
<1>3. LockInv' /\ InFlightExact'
  BY LockFrame, CounterFrame DEF IInv, Shutdown, callerVars
<1> QED BY <1>1, <1>2, <1>3 DEF IInv

-----------------------------------------------------------------------------
(* Calls and handshakes: callers that are in no chain before and after.    *)

\* Callers outside every chain may change and chains nobody uses may be
\* emptied without disturbing a lock.
LEMMA OutsiderFrame ==
  ASSUME TypeOK, CallerInv, LockInv, NEW C \in SUBSET Caller,
         \A c \in C : pc[c] \in {"idle", "awaiting"},
         \A c \in C : held'[c] = {} /\ pc'[c] # "waiting",
         \A c \in Caller \ C : /\ pc'[c] = pc[c] /\ on'[c] = on[c] /\ at'[c] = at[c]
                               /\ todo'[c] = todo[c] /\ held'[c] = held[c],
         \A p \in Proc, u \in Uri :
           \/ queue'[p][u] = queue[p][u]
           \/ queue'[p][u] = <<>> /\ Users(p) = {}
  PROVE  LockInv'
<1>1. \A c \in C : held[c] = {}
  BY DEF CallerInv
<1>2. \A c \in Caller : c \notin C => on[c] = NoProc \/ on[c] \in Proc
  BY DEF TypeOK
<1>3. \A c \in Caller \ C : on[c] \in Proc => \A u \in Uri : queue'[on[c]][u] = queue[on[c]][u]
  BY DEF Users
<1>4. \A c \in Caller \ C : held[c] # {} \/ pc[c] = "waiting" => on[c] \in Proc
  BY DEF TypeOK, CallerInv
<1>5. \A p \in Proc, u \in Uri : \A i \in 1 .. Len(queue[p][u]) :
        queue[p][u][i] \in Caller \ C
  <2> SUFFICES ASSUME NEW p \in Proc, NEW u \in Uri, NEW i \in 1 .. Len(queue[p][u])
               PROVE  queue[p][u][i] \in Caller \ C
    OBVIOUS
  <2>1. queue[p][u][i] \in Caller
    BY DEF TypeOK
  <2> QED BY <2>1, <1>1 DEF LockInv, ChainInv
<1>6. HolderInv'
  <2> SUFFICES ASSUME NEW c \in Caller, NEW u \in held'[c]
               PROVE  queue'[on'[c]][u] # <<>> /\ Head(queue'[on'[c]][u]) = c
    BY DEF HolderInv, HeadOf
  <2>1. c \in Caller \ C /\ u \in held[c] /\ u \in Uri /\ on'[c] = on[c]
    BY DEF TypeOK
  <2>2. queue'[on[c]][u] = queue[on[c]][u]
    BY <2>1, <1>3, <1>4
  <2> QED BY <2>1, <2>2 DEF LockInv, HolderInv, HeadOf
<1>7. ChainInv'
  <2> SUFFICES ASSUME NEW p \in Proc, NEW u \in Uri, NEW i \in 1 .. Len(queue'[p][u])
               PROVE  /\ on'[queue'[p][u][i]] = p
                      /\ \/ u \in held'[queue'[p][u][i]]
                         \/ pc'[queue'[p][u][i]] = "waiting" /\ at'[queue'[p][u][i]] = u
    BY DEF ChainInv
  <2>1. queue'[p][u] = queue[p][u]
    OBVIOUS
  <2> QED BY <2>1, <1>5 DEF LockInv, ChainInv
<1>8. OnceInv'
  BY DEF LockInv, OnceInv
<1>9. OrderInv'
  <2> SUFFICES ASSUME NEW c \in Caller, pc'[c] = "waiting"
               PROVE  /\ \E i \in 1 .. Len(queue'[on'[c]][at'[c]]) : queue'[on'[c]][at'[c]][i] = c
                      /\ \A u \in held'[c] : u < at'[c]
                      /\ \A u \in todo'[c] : at'[c] <= u
    BY DEF OrderInv
  <2>1. /\ c \in Caller \ C /\ pc[c] = "waiting" /\ on'[c] = on[c]
        /\ at'[c] = at[c] /\ todo'[c] = todo[c] /\ held'[c] = held[c]
    OBVIOUS
  <2>2. at[c] \in Uri
    BY <2>1 DEF TypeOK, CallerInv
  <2>3. queue'[on[c]][at[c]] = queue[on[c]][at[c]]
    BY <2>1, <2>2, <1>3, <1>4
  <2> QED BY <2>1, <2>3 DEF LockInv, OrderInv
<1> QED BY <1>6, <1>7, <1>8, <1>9 DEF LockInv

\* The number of running calls on each server is the same as before.
LEMMA SameRunners ==
  ASSUME InFlightExact, UNCHANGED inFlight,
         \A c \in Caller : pc[c] = "running" <=> pc'[c] = "running",
         \A c \in Caller : pc[c] = "running" => on'[c] = on[c]
  PROVE  InFlightExact'
<1> SUFFICES ASSUME NEW p \in Proc
             PROVE  inFlight'[p]
                      = Cardinality({c \in Caller : on'[c] = p /\ pc'[c] = "running"})
  BY DEF InFlightExact
<1>1. {c \in Caller : on'[c] = p /\ pc'[c] = "running"}
        = {c \in Caller : on[c] = p /\ pc[c] = "running"}
  OBVIOUS
<1> QED BY <1>1 DEF InFlightExact

\* The end of a handshake releases the callers that shared it into the chains.
LEMMA InitOkStep ==
  ASSUME IInv, NEW p \in Proc, InitOk(p)
  PROVE  IInv'
<1>1. \A c \in Caller : on[c] = p <=> (on[c] \in Proc /\ on[c] = p /\ pc[c] = "awaiting")
  BY DEF IInv, ServerInv, CallerInv, InitOk, Proc, NoProc
<1>2. \A c \in Caller : pc'[c] = IF on[c] = p THEN "acquired" ELSE pc[c]
  BY DEF InitOk
<1>3. TypeOK'
  BY ConstantsAssumption, <1>2 DEF IInv, TypeOK, InitOk, Phase, Pc
<1>4. ServerInv'
  <2>1. CallerInv'
    <3>1. \A q \in Proc : phase'[q] = "initializing" <=> phase[q] = "initializing" /\ q # p
      BY DEF IInv, TypeOK, InitOk
    <3>2. \A c \in Caller : pc[c] # "idle" => on[c] \in Proc
      BY DEF IInv, TypeOK, ServerInv, CallerInv
    <3> QED BY <1>1, <1>2, <3>1, <3>2 DEF IInv, ServerInv, CallerInv, InitOk
  <2>2. TrackedServersAreReady'
    BY DEF IInv, TypeOK, ServerInv, TrackedServersAreReady, InitOk, Proc, NoProc
  <2>3. InitingInv'
    BY DEF IInv, TypeOK, ServerInv, InitingInv, InitOk, Proc, NoProc
  <2>4. ServesRequest' /\ ServersStayConfined'
    BY DEF IInv, TypeOK, ServerInv, ServesRequest, ServersStayConfined, InitOk
  <2> QED BY <2>1, <2>2, <2>3, <2>4 DEF ServerInv
<1>5. LockInv'
  <2>1. \A c \in Users(p) : pc[c] = "awaiting" /\ held[c] = {}
    BY <1>1 DEF Users, IInv, ServerInv, CallerInv
  <2> QED BY <1>2, <2>1, OutsiderFrame DEF IInv, ServerInv, InitOk, Users
<1>6. InFlightExact'
  BY <1>1, <1>2, SameRunners DEF IInv, InitOk
<1> QED BY <1>3, <1>4, <1>5, <1>6 DEF IInv

\* A failed handshake fails its callers, none of which holds a lock.
LEMMA InitFailStep ==
  ASSUME IInv, NEW p \in Proc, InitFail(p)
  PROVE  IInv'
<1>1. \A c \in Users(p) : pc[c] = "awaiting"
  BY DEF IInv, ServerInv, CallerInv, InitFail, Users, Proc, NoProc
<1>2. \A q \in Proc : phase'[q] = IF q = p THEN LeftAlone(p) ELSE phase[q]
  BY DEF IInv, TypeOK, InitFail
<1>3. LeftAlone(p) \in {"absent", "failed"}
  BY DEF LeftAlone
<1>4. TypeOK'
  BY <1>3 DEF IInv, TypeOK, InitFail, Phase, Pc, Reset, AnyKey, Key
<1>5. ServerInv'
  <2>1. CallerInv'
    <3>1. \A q \in Proc : phase'[q] = "initializing" <=> phase[q] = "initializing" /\ q # p
      BY <1>2, <1>3 DEF InitFail
    <3>2. \A c \in Caller : pc[c] # "idle" => on[c] \in Proc
      BY DEF IInv, TypeOK, ServerInv, CallerInv
    <3> QED BY <3>1, <3>2 DEF IInv, ServerInv, CallerInv, InitFail, Reset, Users
  <2>2. TrackedServersAreReady'
    BY <1>2, <1>3 DEF IInv, TypeOK, ServerInv, TrackedServersAreReady, InitFail, Proc, NoProc
  <2>3. InitingInv'
    BY <1>2, <1>3 DEF IInv, TypeOK, ServerInv, InitingInv, InitFail, Proc, NoProc
  <2>4. ServesRequest'
    BY DEF IInv, ServerInv, ServesRequest, InitFail, Reset, Users
  <2>5. ServersStayConfined'
    BY <1>2 DEF IInv, ServerInv, ServersStayConfined, InitFail
  <2> QED BY <2>1, <2>2, <2>3, <2>4, <2>5 DEF ServerInv
<1>6. LockInv'
  BY <1>1, OutsiderFrame DEF IInv, ServerInv, InitFail, Reset, Users
<1>7. InFlightExact'
  BY <1>1, SameRunners DEF IInv, InitFail, Reset, Users
<1> QED BY <1>4, <1>5, <1>6, <1>7 DEF IInv

\* An idle caller that is bound to a server disturbs no lock and no counter.
LEMMA BindKeepsLocks ==
  ASSUME IInv, NEW c \in Caller, NEW p \in Proc, NEW k \in Key, NEW U \in SUBSET Uri,
         NEW where \in {"acquired", "awaiting"}, pc[c] = "idle",
         Bind(c, p, k, U, where), UNCHANGED <<inFlight, queue>>
  PROVE  LockInv' /\ InFlightExact'
<1>1. \A d \in Caller \ {c} : /\ pc'[d] = pc[d] /\ on'[d] = on[d] /\ at'[d] = at[d]
                              /\ todo'[d] = todo[d] /\ held'[d] = held[d]
  BY DEF Bind, IInv, TypeOK
<1>2. pc'[c] = where /\ held'[c] = {}
  BY DEF Bind, IInv, TypeOK, ServerInv, CallerInv
<1>3. LockInv'
  <2>1. \A d \in {c} : pc[d] \in {"idle", "awaiting"} /\ held'[d] = {} /\ pc'[d] # "waiting"
    BY <1>2
  <2>2. \A q \in Proc, u \in Uri : queue'[q][u] = queue[q][u]
    OBVIOUS
  <2>3. TypeOK /\ CallerInv /\ LockInv /\ {c} \in SUBSET Caller
    BY DEF IInv, ServerInv
  <2> QED BY <1>1, <2>1, <2>2, <2>3, OutsiderFrame
<1>4. InFlightExact'
  BY <1>1, <1>2, SameRunners DEF IInv
<1> QED BY <1>3, <1>4

\* Types and callers after a caller is bound to a server in a fitting phase.
LEMMA BindKeepsCallers ==
  ASSUME IInv, NEW c \in Caller, NEW p \in Proc, NEW k \in Key, NEW U \in SUBSET Uri,
         NEW where \in {"acquired", "awaiting"}, pc[c] = "idle",
         Bind(c, p, k, U, where),
         \A q \in Proc : Users(q) # {} => phase'[q] = phase[q],
         where = "awaiting" <=> phase'[p] = "initializing"
  PROVE  /\ CallerInv'
         /\ pc' \in [Caller -> Pc] /\ on' \in [Caller -> Proc \cup {NoProc}]
         /\ want' \in [Caller -> Key] /\ todo' \in [Caller -> SUBSET Uri]
         /\ at' \in [Caller -> Uri \cup {NoUri}] /\ held' \in [Caller -> SUBSET Uri]
<1>1. /\ pc' \in [Caller -> Pc] /\ on' \in [Caller -> Proc \cup {NoProc}]
      /\ want' \in [Caller -> Key] /\ todo' \in [Caller -> SUBSET Uri]
      /\ at' \in [Caller -> Uri \cup {NoUri}] /\ held' \in [Caller -> SUBSET Uri]
  BY DEF IInv, TypeOK, Bind, Pc
<1>2. \A d \in Caller \ {c} : pc[d] # "idle" => phase'[on[d]] = phase[on[d]]
  BY DEF IInv, TypeOK, ServerInv, CallerInv, Users
<1>3. CallerInv'
  <2> SUFFICES ASSUME NEW d \in Caller
               PROVE  /\ on'[d] = NoProc <=> pc'[d] = "idle"
                      /\ pc'[d] # "idle" => (pc'[d] = "awaiting" <=> phase'[on'[d]] = "initializing")
                      /\ pc'[d] \in {"idle", "awaiting", "acquired"} => held'[d] = {}
                      /\ pc'[d] = "waiting" => at'[d] \in todo'[d]
                      /\ held'[d] \cap todo'[d] = {}
    BY DEF CallerInv
  <2>1. CASE d = c
    BY <2>1 DEF IInv, TypeOK, ServerInv, CallerInv, Bind, Proc, NoProc
  <2>2. CASE d # c
    BY <1>2, <2>2 DEF IInv, TypeOK, ServerInv, CallerInv, Bind
  <2> QED BY <2>1, <2>2
<1> QED BY <1>1, <1>3

\* A call bound to the server already stored under its key.
LEMMA CallExistingStep ==
  ASSUME IInv, NEW c \in Caller, NEW k \in Key, NEW U \in SUBSET Uri, CallExisting(c, k, U)
  PROVE  IInv'
<1>1. servers[k] \in Proc /\ phase[servers[k]] = "ready" /\ key[servers[k]] = k
  BY DEF IInv, TypeOK, ServerInv, TrackedServersAreReady, CallExisting
<1>2. pc[c] = "idle" /\ Bind(c, servers[k], k, U, "acquired") /\ UNCHANGED <<inFlight, queue, phase>>
  BY DEF CallExisting, Asks
<1>3. LockInv' /\ InFlightExact'
  BY <1>1, <1>2, BindKeepsLocks
<1>4. /\ CallerInv'
      /\ pc' \in [Caller -> Pc] /\ on' \in [Caller -> Proc \cup {NoProc}]
      /\ want' \in [Caller -> Key] /\ todo' \in [Caller -> SUBSET Uri]
      /\ at' \in [Caller -> Uri \cup {NoUri}] /\ held' \in [Caller -> SUBSET Uri]
  BY <1>1, <1>2, BindKeepsCallers
<1>5. TypeOK'
  <2>1. age' \in [Proc -> 0 .. IdleTtl]
    BY ConstantsAssumption DEF IInv, TypeOK, CallExisting
  <2>2. UNCHANGED <<phase, health, key, inFlight, queue, servers, initing, reaper>> /\ closed' = FALSE
    BY DEF CallExisting, Bind
  <2> QED BY <1>4, <2>1, <2>2 DEF IInv, TypeOK
<1>6. TrackedServersAreReady' /\ InitingInv' /\ ServersStayConfined'
  BY DEF IInv, ServerInv, TrackedServersAreReady, InitingInv, ServersStayConfined, CallExisting
<1>7. ServesRequest'
  BY <1>1 DEF IInv, TypeOK, ServerInv, ServesRequest, CallExisting, Bind
<1> QED BY <1>3, <1>4, <1>5, <1>6, <1>7 DEF IInv, ServerInv

\* A call that joins the initialization already under way for its key.
LEMMA CallJoinStep ==
  ASSUME IInv, NEW c \in Caller, NEW k \in Key, NEW U \in SUBSET Uri, CallJoin(c, k, U)
  PROVE  IInv'
<1>1. initing[k] \in Proc /\ phase[initing[k]] = "initializing" /\ key[initing[k]] = k
  BY DEF IInv, TypeOK, ServerInv, InitingInv, CallJoin
<1>2. pc[c] = "idle" /\ Bind(c, initing[k], k, U, "awaiting") /\ UNCHANGED <<procVars, queue>>
  BY DEF CallJoin, Asks
<1>3. LockInv' /\ InFlightExact'
  BY <1>1, <1>2, BindKeepsLocks DEF procVars
<1>4. /\ CallerInv'
      /\ pc' \in [Caller -> Pc] /\ on' \in [Caller -> Proc \cup {NoProc}]
      /\ want' \in [Caller -> Key] /\ todo' \in [Caller -> SUBSET Uri]
      /\ at' \in [Caller -> Uri \cup {NoUri}] /\ held' \in [Caller -> SUBSET Uri]
  BY <1>1, <1>2, BindKeepsCallers DEF procVars
<1>5. TypeOK'
  BY <1>4 DEF IInv, TypeOK, CallJoin, Bind, procVars
<1>6. TrackedServersAreReady' /\ InitingInv' /\ ServersStayConfined'
  BY DEF IInv, ServerInv, TrackedServersAreReady, InitingInv, ServersStayConfined, CallJoin,
         procVars
<1>7. ServesRequest'
  BY <1>1 DEF IInv, TypeOK, ServerInv, ServesRequest, CallJoin, Bind, procVars
<1> QED BY <1>3, <1>4, <1>5, <1>6, <1>7 DEF IInv, ServerInv

\* A call that grows a server: the folders already served stay served.
LEMMA CallGrowStep ==
  ASSUME IInv, NEW c \in Caller, NEW k \in Key, NEW U \in SUBSET Uri, CallGrow(c, k, U)
  PROVE  IInv'
<1> PICK p \in Proc :
      /\ Grows(k, p)
      /\ servers' = [servers EXCEPT ![key[p]] = NoProc, ![k] = p]
      /\ key' = [key EXCEPT ![p] = k]
      /\ age' = [age EXCEPT ![p] = 0]
      /\ Bind(c, p, k, U, "acquired")
  BY DEF CallGrow
<1>1. /\ servers[key[p]] = p /\ phase[p] = "ready"
      /\ key[p].lang = k.lang /\ key[p].roots \subseteq k.roots
  BY DEF IInv, ServerInv, TrackedServersAreReady, Grows, Candidates, Tracked, Proc, NoProc
<1>2. pc[c] = "idle" /\ UNCHANGED <<inFlight, queue, phase>> /\ k.roots \subseteq AllowedRoots
  BY DEF CallGrow, Asks, Allowed
<1>3. LockInv' /\ InFlightExact'
  BY <1>2, BindKeepsLocks
<1>4. /\ CallerInv'
      /\ pc' \in [Caller -> Pc] /\ on' \in [Caller -> Proc \cup {NoProc}]
      /\ want' \in [Caller -> Key] /\ todo' \in [Caller -> SUBSET Uri]
      /\ at' \in [Caller -> Uri \cup {NoUri}] /\ held' \in [Caller -> SUBSET Uri]
  BY <1>1, <1>2, BindKeepsCallers
<1>5. TypeOK'
  <2>1. age' \in [Proc -> 0 .. IdleTtl] /\ key' \in [Proc -> Key]
    BY ConstantsAssumption DEF IInv, TypeOK
  <2>2. servers' \in [Key -> Proc \cup {NoProc}]
    BY DEF IInv, TypeOK
  <2>3. UNCHANGED <<phase, health, inFlight, queue, initing, reaper>> /\ closed' = FALSE
    BY DEF CallGrow, Bind
  <2> QED BY <1>4, <2>1, <2>2, <2>3 DEF IInv, TypeOK
<1>6. TrackedServersAreReady'
  BY <1>1, <1>2 DEF IInv, TypeOK, ServerInv, TrackedServersAreReady, Proc, NoProc
<1>7. InitingInv'
  BY <1>1, <1>2 DEF IInv, TypeOK, ServerInv, InitingInv, CallGrow, Proc, NoProc
<1>8. ServersStayConfined'
  BY <1>2 DEF IInv, TypeOK, ServerInv, ServersStayConfined
<1>9. ServesRequest'
  BY <1>1 DEF IInv, TypeOK, ServerInv, ServesRequest, Bind
<1> QED BY <1>3, <1>4, <1>5, <1>6, <1>7, <1>8, <1>9 DEF IInv, ServerInv

\* A call that spawns a process takes one that nobody uses.
LEMMA CallSpawnStep ==
  ASSUME IInv, NEW c \in Caller, NEW k \in Key, NEW U \in SUBSET Uri, CallSpawn(c, k, U)
  PROVE  IInv'
<1> PICK p \in Proc :
      /\ Free(p)
      /\ phase' = [phase EXCEPT ![p] = "initializing"]
      /\ health' = [health EXCEPT ![p] = "ok"]
      /\ key' = [key EXCEPT ![p] = k]
      /\ age' = [age EXCEPT ![p] = 0]
      /\ inFlight' = [inFlight EXCEPT ![p] = 0]
      /\ queue' = [queue EXCEPT ![p] = [u \in Uri |-> <<>>]]
      /\ initing' = [initing EXCEPT ![k] = p]
      /\ Bind(c, p, k, U, "awaiting")
  BY DEF CallSpawn
<1>1. phase[p] = "absent" /\ Users(p) = {}
  BY DEF Free
<1>2. pc[c] = "idle" /\ k.roots \subseteq AllowedRoots /\ UNCHANGED servers
  BY DEF CallSpawn, Asks, Allowed
<1>3. LockInv'
  <2>1. \A d \in Caller \ {c} : /\ pc'[d] = pc[d] /\ on'[d] = on[d] /\ at'[d] = at[d]
                              /\ todo'[d] = todo[d] /\ held'[d] = held[d]
    BY DEF Bind, IInv, TypeOK
  <2>2. pc'[c] = "awaiting" /\ held'[c] = {}
    BY <1>2 DEF Bind, IInv, TypeOK, ServerInv, CallerInv
  <2>3. \A q \in Proc, u \in Uri :
          queue'[q][u] = queue[q][u] \/ (queue'[q][u] = <<>> /\ Users(q) = {})
    BY <1>1 DEF IInv, TypeOK
  <2>4. \A d \in {c} : pc[d] \in {"idle", "awaiting"}
    BY <1>2
  <2>5. \A d \in {c} : held'[d] = {} /\ pc'[d] # "waiting"
    BY <2>2
  <2>6. TypeOK /\ CallerInv /\ LockInv /\ {c} \in SUBSET Caller
    BY DEF IInv, ServerInv
  <2> QED BY <2>1, <2>3, <2>4, <2>5, <2>6, OutsiderFrame, ZenonT(60)
<1>4. /\ CallerInv'
      /\ pc' \in [Caller -> Pc] /\ on' \in [Caller -> Proc \cup {NoProc}]
      /\ want' \in [Caller -> Key] /\ todo' \in [Caller -> SUBSET Uri]
      /\ at' \in [Caller -> Uri \cup {NoUri}] /\ held' \in [Caller -> SUBSET Uri]
  <2>1. \A q \in Proc : Users(q) # {} => phase'[q] = phase[q]
    BY <1>1 DEF IInv, TypeOK
  <2>2. phase'[p] = "initializing"
    BY DEF IInv, TypeOK
  <2> QED BY <1>2, <2>1, <2>2, BindKeepsCallers
<1>5. TypeOK'
  <2>1. [u \in Uri |-> <<>>] \in [Uri -> Seq(Caller)]
    BY EmptySeq
  <2>2. age' \in [Proc -> 0 .. IdleTtl] /\ key' \in [Proc -> Key]
    BY ConstantsAssumption DEF IInv, TypeOK
  <2>3. phase' \in [Proc -> Phase] /\ health' \in [Proc -> Health]
    BY DEF IInv, TypeOK, Phase, Health
  <2>4. inFlight' \in [Proc -> Nat] /\ initing' \in [Key -> Proc \cup {NoProc}]
    BY DEF IInv, TypeOK
  <2>5. queue' \in [Proc -> [Uri -> Seq(Caller)]]
    BY <2>1 DEF IInv, TypeOK
  <2>6. UNCHANGED <<servers, reaper>> /\ closed' = FALSE
    BY DEF CallSpawn, Bind
  <2> QED BY <1>4, <2>2, <2>3, <2>4, <2>5, <2>6 DEF IInv, TypeOK
<1>6. TrackedServersAreReady'
  BY <1>1, <1>2 DEF IInv, TypeOK, ServerInv, TrackedServersAreReady
<1>7. InitingInv'
  BY <1>1 DEF IInv, TypeOK, ServerInv, InitingInv
<1>8. ServersStayConfined'
  BY <1>2 DEF IInv, TypeOK, ServerInv, ServersStayConfined
<1>9. ServesRequest'
  BY <1>1 DEF IInv, TypeOK, ServerInv, ServesRequest, Bind, Users
<1>10. InFlightExact'
  <2> SUFFICES ASSUME NEW q \in Proc
               PROVE  inFlight'[q]
                        = Cardinality({d \in Caller : on'[d] = q /\ pc'[d] = "running"})
    BY DEF InFlightExact
  <2>1. \A d \in Caller : on'[d] = q /\ pc'[d] = "running" <=> on[d] = q /\ pc[d] = "running"
    BY <1>2 DEF Bind, IInv, TypeOK
  <2>2. {d \in Caller : on'[d] = q /\ pc'[d] = "running"}
          = {d \in Caller : on[d] = q /\ pc[d] = "running"}
    BY <2>1
  <2>3. CASE q = p
    <3>1. {d \in Caller : on[d] = q /\ pc[d] = "running"} = {}
      BY <1>1, <2>3 DEF Users
    <3> QED BY <2>2, <2>3, <3>1, FS_EmptySet DEF IInv, TypeOK
  <2>4. CASE q # p
    BY <2>2, <2>4 DEF IInv, TypeOK, InFlightExact
  <2> QED BY <2>3, <2>4
<1> QED BY <1>3, <1>4, <1>5, <1>6, <1>7, <1>8, <1>9, <1>10 DEF IInv, ServerInv

-----------------------------------------------------------------------------
(* The lock chains.                                                        *)

\* A chain is a sequence of callers; its head is its first place.
LEMMA ChainType ==
  ASSUME TypeOK, NEW p \in Proc, NEW u \in Uri
  PROVE  /\ queue[p][u] \in Seq(Caller)
         /\ Len(queue[p][u]) \in Nat
         /\ queue[p][u] # <<>> => /\ Len(queue[p][u]) >= 1
                                  /\ Head(queue[p][u]) = queue[p][u][1]
                                  /\ Head(queue[p][u]) \in Caller
BY EmptySeq, LenProperties, HeadTailProperties DEF TypeOK

\* What appending a caller to one chain does to all of them.
LEMMA JoinFacts ==
  ASSUME TypeOK, NEW c \in Caller, on[c] \in Proc, NEW u \in Uri, JoinChain(c, u)
  PROVE  /\ queue' \in [Proc -> [Uri -> Seq(Caller)]]
         /\ \A p \in Proc, v \in Uri : p # on[c] \/ v # u => queue'[p][v] = queue[p][v]
         /\ Len(queue'[on[c]][u]) = Len(queue[on[c]][u]) + 1
         /\ \A i \in 1 .. Len(queue[on[c]][u]) : queue'[on[c]][u][i] = queue[on[c]][u][i]
         /\ queue'[on[c]][u][Len(queue[on[c]][u]) + 1] = c
         /\ queue'[on[c]][u] # <<>>
         /\ queue[on[c]][u] # <<>> => Head(queue'[on[c]][u]) = Head(queue[on[c]][u])
<1>1. queue'[on[c]][u] = Append(queue[on[c]][u], c)
  BY DEF TypeOK, JoinChain
<1>2. \A p \in Proc, v \in Uri : p # on[c] \/ v # u => queue'[p][v] = queue[p][v]
  BY DEF TypeOK, JoinChain
<1>3. queue[on[c]][u] \in Seq(Caller) /\ Len(queue[on[c]][u]) \in Nat
  BY ChainType
<1>4. Append(queue[on[c]][u], c) \in Seq(Caller)
  BY <1>3
<1>5. queue' \in [Proc -> [Uri -> Seq(Caller)]]
  BY <1>4 DEF TypeOK, JoinChain
<1> QED BY <1>1, <1>2, <1>3, <1>5, SMTT(30)

\* A caller that joins the chain of the next document, in order, keeps every
\* lock invariant.
LEMMA JoinKeepsLocks ==
  ASSUME IInv, NEW c \in Caller, on[c] \in Proc, NEW u \in Uri, JoinChain(c, u),
         \A d \in Caller \ {c} : /\ pc'[d] = pc[d] /\ todo'[d] = todo[d] /\ held'[d] = held[d],
         on' = on, pc'[c] = "waiting",
         held'[c] \in SUBSET Uri, held[c] \subseteq held'[c],
         pc[c] = "waiting" => at[c] \in held'[c],
         \A v \in held'[c] : v < u /\ HeadOf(on[c], v, c),
         \A v \in todo'[c] : u <= v
  PROVE  LockInv'
<1> DEFINE q == queue[on[c]][u]
<1>1. /\ \A p \in Proc, v \in Uri : p # on[c] \/ v # u => queue'[p][v] = queue[p][v]
      /\ Len(queue'[on[c]][u]) = Len(q) + 1
      /\ \A i \in 1 .. Len(q) : queue'[on[c]][u][i] = q[i]
      /\ queue'[on[c]][u][Len(q) + 1] = c
      /\ queue'[on[c]][u] # <<>>
      /\ q # <<>> => Head(queue'[on[c]][u]) = Head(q)
  BY JoinFacts DEF IInv
<1>2. Len(q) \in Nat
  BY ChainType DEF IInv
<1>3. u \notin held'[c]
  BY DEF Uri
<1>4. \A i \in 1 .. Len(q) : q[i] # c
  BY <1>3 DEF IInv, LockInv, ChainInv
<1>5. \A d \in Caller \ {c} : at'[d] = at[d]
  BY DEF JoinChain, IInv, TypeOK
<1>6. at'[c] = u
  BY DEF JoinChain, IInv, TypeOK
<1>7. \A d \in Caller : held[d] \subseteq Uri /\ (held[d] # {} => on[d] \in Proc)
  BY DEF IInv, TypeOK, ServerInv, CallerInv
<1>8. HolderInv'
  <2> SUFFICES ASSUME NEW d \in Caller, NEW v \in held'[d]
               PROVE  queue'[on[d]][v] # <<>> /\ Head(queue'[on[d]][v]) = d
    BY DEF HolderInv, HeadOf
  <2>1. v \in Uri /\ on[d] \in Proc /\ HeadOf(on[d], v, d)
    BY <1>7 DEF IInv, LockInv, HolderInv
  <2> QED BY <1>1, <2>1 DEF HeadOf
<1>9. ChainInv'
  <2> SUFFICES ASSUME NEW p \in Proc, NEW v \in Uri, NEW i \in 1 .. Len(queue'[p][v])
               PROVE  /\ on[queue'[p][v][i]] = p
                      /\ \/ v \in held'[queue'[p][v][i]]
                         \/ pc'[queue'[p][v][i]] = "waiting" /\ at'[queue'[p][v][i]] = v
    BY DEF ChainInv
  <2>1. CASE p = on[c] /\ v = u /\ i = Len(q) + 1
    BY <1>1, <1>6, <2>1
  <2>2. CASE ~ (p = on[c] /\ v = u /\ i = Len(q) + 1)
    <3>1. i \in 1 .. Len(queue[p][v]) /\ queue'[p][v][i] = queue[p][v][i]
      <4>1. CASE p = on[c] /\ v = u
        <5>1. i \in 1 .. Len(q) + 1 /\ i # Len(q) + 1
          BY <1>1, <2>2, <4>1
        <5>2. i \in 1 .. Len(q)
          BY <1>2, <5>1
        <5> QED BY <1>1, <4>1, <5>2
      <4>2. CASE p # on[c] \/ v # u
        BY <1>1, <4>2
      <4> QED BY <4>1, <4>2
    <3>2. queue[p][v][i] \in Caller
      BY <3>1, ChainType, ElementOfSeq DEF IInv
    <3>3. on[queue[p][v][i]] = p
      BY <3>1 DEF IInv, LockInv, ChainInv
    <3>4. \/ v \in held[queue[p][v][i]]
          \/ pc[queue[p][v][i]] = "waiting" /\ at[queue[p][v][i]] = v
      BY <3>1 DEF IInv, LockInv, ChainInv
    <3>5. CASE queue[p][v][i] = c
      BY <3>1, <3>3, <3>4, <3>5
    <3>6. CASE queue[p][v][i] # c
      BY <1>5, <3>1, <3>2, <3>3, <3>4, <3>6
    <3> QED BY <3>5, <3>6
  <2> QED BY <2>1, <2>2
<1>10. OnceInv'
  <2> SUFFICES ASSUME NEW p \in Proc, NEW v \in Uri,
                      NEW i \in 1 .. Len(queue'[p][v]), NEW j \in 1 .. Len(queue'[p][v]),
                      queue'[p][v][i] = queue'[p][v][j]
               PROVE  i = j
    BY DEF OnceInv
  <2>1. CASE p = on[c] /\ v = u
    <3>1. i \in 1 .. Len(q) + 1 /\ j \in 1 .. Len(q) + 1
      BY <1>1, <2>1
    <3>2. \A m \in 1 .. Len(q) + 1 : m \in 1 .. Len(q) \/ m = Len(q) + 1
      BY <1>2
    <3>3. \A m, n \in 1 .. Len(q) : q[m] = q[n] => m = n
      BY DEF IInv, LockInv, OnceInv
    <3>4. \A m \in 1 .. Len(q) : queue'[p][v][m] = q[m] /\ q[m] # c
      BY <1>1, <1>4, <2>1
    <3>5. queue'[p][v][Len(q) + 1] = c
      BY <1>1, <2>1
    <3>6. CASE i \in 1 .. Len(q) /\ j \in 1 .. Len(q)
      BY <3>3, <3>4, <3>6
    <3>7. CASE i = Len(q) + 1 /\ j = Len(q) + 1
      BY <3>7
    <3>8. CASE i \in 1 .. Len(q) /\ j = Len(q) + 1
      BY <3>4, <3>5, <3>8
    <3>9. CASE i = Len(q) + 1 /\ j \in 1 .. Len(q)
      BY <3>4, <3>5, <3>9
    <3> HIDE DEF q
    <3> QED BY <3>1, <3>2, <3>6, <3>7, <3>8, <3>9
  <2>2. CASE ~ (p = on[c] /\ v = u)
    BY <1>1, <2>2, SMTT(30) DEF IInv, LockInv, OnceInv
  <2> QED BY <2>1, <2>2
<1>11. OrderInv'
  <2> SUFFICES ASSUME NEW d \in Caller, pc'[d] = "waiting"
               PROVE  /\ \E i \in 1 .. Len(queue'[on[d]][at'[d]]) : queue'[on[d]][at'[d]][i] = d
                      /\ \A v \in held'[d] : v < at'[d]
                      /\ \A v \in todo'[d] : at'[d] <= v
    BY DEF OrderInv
  <2>1. CASE d = c
    BY <1>1, <1>2, <1>6, <2>1, SMTT(30)
  <2>2. CASE d # c
    <3>1. pc[d] = "waiting" /\ at'[d] = at[d] /\ held'[d] = held[d] /\ todo'[d] = todo[d]
      BY <1>5, <2>2
    <3>2. at[d] \in Uri /\ on[d] \in Proc
      BY <3>1 DEF IInv, TypeOK, ServerInv, CallerInv
    <3>3. PICK i \in 1 .. Len(queue[on[d]][at[d]]) : queue[on[d]][at[d]][i] = d
      BY <3>1 DEF IInv, LockInv, OrderInv
    <3>4. i \in 1 .. Len(queue'[on[d]][at[d]]) /\ queue'[on[d]][at[d]][i] = d
      <4>1. CASE on[d] = on[c] /\ at[d] = u
        <5>1. i \in 1 .. Len(q) /\ q[i] = d
          BY <3>3, <4>1
        <5>2. i \in 1 .. Len(q) + 1
          BY <1>2, <5>1
        <5> QED BY <1>1, <4>1, <5>1, <5>2
      <4>2. CASE on[d] # on[c] \/ at[d] # u
        BY <1>1, <3>2, <3>3, <4>2
      <4> QED BY <4>1, <4>2
    <3> QED BY <3>1, <3>4 DEF IInv, LockInv, OrderInv
  <2> QED BY <2>1, <2>2
<1> QED BY <1>8, <1>9, <1>10, <1>11 DEF LockInv

\* A step that moves only callers' places in the chains leaves the servers,
\* the maps and the counters as they are.
LEMMA EnterChainStep ==
  ASSUME IInv, NEW c \in Caller, EnterChain(c)
  PROVE  IInv'
<1> PICK u \in Uri : IsNext(todo[c], u) /\ JoinChain(c, u)
  BY DEF EnterChain
<1>1. /\ pc[c] = "acquired" /\ on[c] \in Proc /\ held[c] = {}
      /\ pc' = [pc EXCEPT ![c] = "waiting"] /\ at' = [at EXCEPT ![c] = u]
      /\ UNCHANGED <<procVars, mapVars, on, want, todo, held>>
  BY DEF EnterChain, JoinChain, IInv, TypeOK, ServerInv, CallerInv
<1>2. TypeOK'
  <2>1. queue' \in [Proc -> [Uri -> Seq(Caller)]]
    BY <1>1, JoinFacts DEF IInv
  <2> QED BY <1>1, <2>1 DEF IInv, TypeOK, Pc, procVars, mapVars
<1>3. CallerInv'
  BY <1>1 DEF IInv, TypeOK, ServerInv, CallerInv, IsNext, procVars
<1>4. TrackedServersAreReady' /\ InitingInv' /\ ServesRequest' /\ ServersStayConfined'
  BY <1>1 DEF IInv, ServerInv, TrackedServersAreReady, InitingInv, ServesRequest,
              ServersStayConfined, procVars, mapVars
<1>5. LockInv'
  <2>1. \A d \in Caller \ {c} : /\ pc'[d] = pc[d] /\ todo'[d] = todo[d] /\ held'[d] = held[d]
    BY <1>1 DEF IInv, TypeOK
  <2>2. pc'[c] = "waiting" /\ held'[c] = {} /\ \A v \in todo'[c] : u <= v
    BY <1>1 DEF IInv, TypeOK, IsNext
  <2> QED BY <1>1, <2>1, <2>2, JoinKeepsLocks
<1>6. InFlightExact'
  <2>1. \A d \in Caller : pc[d] = "running" <=> pc'[d] = "running"
    BY <1>1 DEF IInv, TypeOK
  <2> QED BY <1>1, <2>1, SameRunners DEF IInv, procVars
<1> QED BY <1>2, <1>3, <1>4, <1>5, <1>6 DEF IInv, ServerInv

\* What a waiting caller at the head of its chain knows.
LEMMA TakeFacts ==
  ASSUME IInv, NEW c \in Caller, Take(c)
  PROVE  /\ on[c] \in Proc /\ at[c] \in Uri /\ at[c] \in todo[c] /\ at[c] \notin held[c]
         /\ held'[c] = held[c] \cup {at[c]} /\ todo'[c] = todo[c] \ {at[c]}
         /\ \A d \in Caller \ {c} : todo'[d] = todo[d] /\ held'[d] = held[d]
         /\ held' \in [Caller -> SUBSET Uri] /\ todo' \in [Caller -> SUBSET Uri]
         /\ \A v \in held[c] \cup {at[c]} : v \in Uri /\ v <= at[c] /\ HeadOf(on[c], v, c)
BY DEF IInv, TypeOK, ServerInv, CallerInv, LockInv, HolderInv, OrderInv, Take, Uri

\* A caller that takes a lock and joins the next chain.
LEMMA TakeLockStep ==
  ASSUME IInv, NEW c \in Caller, TakeLock(c)
  PROVE  IInv'
<1> PICK u \in Uri : IsNext(todo[c] \ {at[c]}, u) /\ JoinChain(c, u)
  BY DEF TakeLock
<1>1. /\ on[c] \in Proc /\ at[c] \in Uri /\ at[c] \in todo[c] /\ at[c] \notin held[c]
      /\ held'[c] = held[c] \cup {at[c]} /\ todo'[c] = todo[c] \ {at[c]}
      /\ \A d \in Caller \ {c} : todo'[d] = todo[d] /\ held'[d] = held[d]
      /\ held' \in [Caller -> SUBSET Uri] /\ todo' \in [Caller -> SUBSET Uri]
      /\ \A v \in held[c] \cup {at[c]} : v \in Uri /\ v <= at[c] /\ HeadOf(on[c], v, c)
  BY TakeFacts DEF TakeLock
<1>2. /\ pc[c] = "waiting" /\ at' = [at EXCEPT ![c] = u]
      /\ UNCHANGED <<procVars, mapVars, pc, on, want>>
  BY DEF TakeLock, Take, JoinChain
<1>3. at[c] < u
  BY <1>1, <1>2 DEF IsNext, Uri, IInv, LockInv, OrderInv
<1>4. TypeOK'
  <2>1. queue' \in [Proc -> [Uri -> Seq(Caller)]]
    BY <1>1, JoinFacts DEF IInv
  <2> QED BY <1>1, <1>2, <2>1 DEF IInv, TypeOK, procVars, mapVars
<1>5. CallerInv'
  BY <1>1, <1>2 DEF IInv, TypeOK, ServerInv, CallerInv, IsNext, procVars
<1>6. TrackedServersAreReady' /\ InitingInv' /\ ServesRequest' /\ ServersStayConfined'
  BY <1>2 DEF IInv, ServerInv, TrackedServersAreReady, InitingInv, ServesRequest,
              ServersStayConfined, procVars, mapVars
<1>7. LockInv'
  <2>1. \A v \in held'[c] : v < u /\ HeadOf(on[c], v, c)
    BY <1>1, <1>3 DEF Uri
  <2>2. \A v \in todo'[c] : u <= v
    BY <1>1 DEF IsNext
  <2> QED BY <1>1, <1>2, <2>1, <2>2, JoinKeepsLocks
<1>8. InFlightExact'
  BY <1>2, CounterFrame DEF IInv, procVars
<1> QED BY <1>4, <1>5, <1>6, <1>7, <1>8 DEF IInv, ServerInv

\* A caller that takes its last lock raises the counter in the same step.
LEMMA EnterStep ==
  ASSUME IInv, NEW c \in Caller, Enter(c)
  PROVE  IInv'
<1>1. /\ on[c] \in Proc /\ at[c] \in Uri /\ at[c] \in todo[c] /\ at[c] \notin held[c]
      /\ held'[c] = held[c] \cup {at[c]} /\ todo'[c] = todo[c] \ {at[c]}
      /\ \A d \in Caller \ {c} : todo'[d] = todo[d] /\ held'[d] = held[d]
      /\ held' \in [Caller -> SUBSET Uri] /\ todo' \in [Caller -> SUBSET Uri]
      /\ \A v \in held[c] \cup {at[c]} : v \in Uri /\ v <= at[c] /\ HeadOf(on[c], v, c)
  BY TakeFacts DEF Enter
<1>2. /\ pc[c] = "waiting" /\ pc' = [pc EXCEPT ![c] = "running"]
      /\ at' = [at EXCEPT ![c] = NoUri]
      /\ inFlight' = [inFlight EXCEPT ![on[c]] = @ + 1]
      /\ age' = [age EXCEPT ![on[c]] = 0]
      /\ UNCHANGED <<phase, health, key, queue, mapVars, on, want>>
  BY DEF Enter, Take
<1>3. \A d \in Caller \ {c} : pc'[d] = pc[d] /\ at'[d] = at[d]
  BY <1>2 DEF IInv, TypeOK
<1>4. TypeOK'
  <2>1. 0 \in 0 .. IdleTtl
    BY ConstantsAssumption
  <2>2. inFlight[on[c]] + 1 \in Nat
    BY <1>1 DEF IInv, TypeOK
  <2>3. age' \in [Proc -> 0 .. IdleTtl]
    BY <1>2, <2>1 DEF IInv, TypeOK
  <2>4. inFlight' \in [Proc -> Nat]
    BY <1>2, <2>2 DEF IInv, TypeOK
  <2> QED BY <1>1, <1>2, <2>3, <2>4 DEF IInv, TypeOK, Pc, mapVars
<1>5. CallerInv'
  BY <1>1, <1>2 DEF IInv, TypeOK, ServerInv, CallerInv
<1>6. TrackedServersAreReady' /\ InitingInv' /\ ServesRequest' /\ ServersStayConfined'
  BY <1>2 DEF IInv, ServerInv, TrackedServersAreReady, InitingInv, ServesRequest,
              ServersStayConfined, mapVars
<1>7. LockInv'
  <2>1. HolderInv'
    BY <1>1, <1>2 DEF IInv, LockInv, HolderInv, HeadOf
  <2>2. ChainInv'
    <3> SUFFICES ASSUME NEW p \in Proc, NEW v \in Uri, NEW i \in 1 .. Len(queue[p][v])
                 PROVE  /\ on[queue[p][v][i]] = p
                        /\ \/ v \in held'[queue[p][v][i]]
                           \/ pc'[queue[p][v][i]] = "waiting" /\ at'[queue[p][v][i]] = v
      BY <1>2 DEF ChainInv
    <3>1. queue[p][v][i] \in Caller
      BY ChainType, ElementOfSeq DEF IInv
    <3>2. /\ on[queue[p][v][i]] = p
          /\ \/ v \in held[queue[p][v][i]]
             \/ pc[queue[p][v][i]] = "waiting" /\ at[queue[p][v][i]] = v
      BY DEF IInv, LockInv, ChainInv
    <3>3. CASE queue[p][v][i] = c
      BY <1>1, <3>2, <3>3
    <3>4. CASE queue[p][v][i] # c
      BY <1>1, <1>3, <3>1, <3>2, <3>4
    <3> QED BY <3>3, <3>4
  <2>3. OnceInv'
    BY <1>2 DEF IInv, LockInv, OnceInv
  <2>4. OrderInv'
    <3> SUFFICES ASSUME NEW d \in Caller, pc'[d] = "waiting"
                 PROVE  /\ \E i \in 1 .. Len(queue[on[d]][at'[d]]) : queue[on[d]][at'[d]][i] = d
                        /\ \A v \in held'[d] : v < at'[d]
                        /\ \A v \in todo'[d] : at'[d] <= v
      BY <1>2 DEF OrderInv
    <3>1. d # c
      BY <1>2 DEF IInv, TypeOK
    <3>2. /\ pc[d] = "waiting" /\ at'[d] = at[d]
          /\ held'[d] = held[d] /\ todo'[d] = todo[d]
      BY <1>1, <1>3, <3>1
    <3> QED BY <3>2 DEF IInv, LockInv, OrderInv
  <2> QED BY <2>1, <2>2, <2>3, <2>4 DEF LockInv
<1>8. InFlightExact'
  <2> SUFFICES ASSUME NEW p \in Proc
               PROVE  inFlight'[p]
                        = Cardinality({d \in Caller : on'[d] = p /\ pc'[d] = "running"})
    BY DEF InFlightExact
  <2> DEFINE R == {d \in Caller : on[d] = p /\ pc[d] = "running"}
             RR == {d \in Caller : on'[d] = p /\ pc'[d] = "running"}
  <2>1. inFlight[p] = Cardinality(R)
    BY DEF IInv, InFlightExact
  <2>2. CASE p = on[c]
    <3>1. RR = R \cup {c} /\ c \notin R
      BY <1>2, <1>3, <2>2 DEF IInv, TypeOK
    <3>2. R \in SUBSET Caller
      OBVIOUS
    <3>3. IsFiniteSet(R)
      BY <3>2, FS_Subset, ConstantsAssumption
    <3>4. Cardinality(RR) = Cardinality(R) + 1
      BY <3>1, <3>3, FS_AddElement
    <3> QED BY <1>2, <2>1, <2>2, <3>4 DEF IInv, TypeOK
  <2>3. CASE p # on[c]
    <3>1. RR = R
      BY <1>2, <1>3, <2>3 DEF IInv, TypeOK
    <3> QED BY <1>2, <2>1, <2>3, <3>1 DEF IInv, TypeOK
  <2> QED BY <2>2, <2>3
<1> QED BY <1>4, <1>5, <1>6, <1>7, <1>8 DEF IInv, ServerInv

\* What releasing a caller's locks does to the chains: those it holds lose
\* their head, which is that caller, the others stay.
LEMMA ReleaseFacts ==
  ASSUME IInv, NEW c \in Caller, pc[c] = "running", queue' = Released(c)
  PROVE  /\ queue' \in [Proc -> [Uri -> Seq(Caller)]]
         /\ \A p \in Proc, u \in Uri : p # on[c] \/ u \notin held[c] =>
              queue'[p][u] = queue[p][u]
         /\ \A u \in held[c] :
              /\ Len(queue[on[c]][u]) >= 1
              /\ queue[on[c]][u][1] = c
              /\ Len(queue'[on[c]][u]) = Len(queue[on[c]][u]) - 1
              /\ \A i \in 1 .. Len(queue'[on[c]][u]) :
                   queue'[on[c]][u][i] = queue[on[c]][u][i + 1]
<1>1. on[c] \in Proc /\ held[c] \subseteq Uri
  BY DEF IInv, TypeOK, ServerInv, CallerInv
<1>2. \A p \in Proc, u \in Uri : p # on[c] \/ u \notin held[c] => queue'[p][u] = queue[p][u]
  BY <1>1 DEF IInv, TypeOK, Released
<1>3. \A u \in held[c] : queue'[on[c]][u] = Tail(queue[on[c]][u])
  BY <1>1 DEF IInv, TypeOK, Released
<1>4. \A u \in held[c] : /\ queue[on[c]][u] \in Seq(Caller)
                         /\ queue[on[c]][u] # <<>>
                         /\ Head(queue[on[c]][u]) = c
  BY <1>1 DEF IInv, TypeOK, LockInv, HolderInv, HeadOf
<1>5. \A u \in held[c] : Tail(queue[on[c]][u]) \in Seq(Caller)
  BY <1>4, HeadTailProperties
<1>6. queue' \in [Proc -> [Uri -> Seq(Caller)]]
  <2>1. [u \in Uri |-> IF u \in held[c] THEN Tail(queue[on[c]][u]) ELSE queue[on[c]][u]]
          \in [Uri -> Seq(Caller)]
    BY <1>1, <1>5 DEF IInv, TypeOK
  <2> QED BY <1>1, <2>1 DEF IInv, TypeOK, Released
<1>7. ASSUME NEW u \in held[c]
      PROVE  /\ Len(queue[on[c]][u]) >= 1
             /\ queue[on[c]][u][1] = c
             /\ Len(queue'[on[c]][u]) = Len(queue[on[c]][u]) - 1
             /\ \A i \in 1 .. Len(queue'[on[c]][u]) :
                  queue'[on[c]][u][i] = queue[on[c]][u][i + 1]
  <2> DEFINE q == queue[on[c]][u]
  <2>1. q \in Seq(Caller) /\ q # <<>> /\ Head(q) = c /\ queue'[on[c]][u] = Tail(q)
    BY <1>3, <1>4
  <2> HIDE DEF q
  <2>2. Len(q) >= 1 /\ q[1] = c
    BY <2>1, EmptySeq, LenProperties, HeadTailProperties
  <2>3. Len(Tail(q)) = Len(q) - 1 /\ \A i \in 1 .. Len(Tail(q)) : Tail(q)[i] = q[i + 1]
    BY <2>1, HeadTailProperties
  <2> QED BY <2>1, <2>2, <2>3 DEF q
<1> QED BY <1>2, <1>6, <1>7

\* A caller that is done leaves every chain, and only it does.
LEMMA ReleaseKeepsLocks ==
  ASSUME IInv, NEW c \in Caller, pc[c] = "running", queue' = Released(c),
         Reset({c}), at' = at
  PROVE  LockInv'
<1>1. /\ \A p \in Proc, u \in Uri : p # on[c] \/ u \notin held[c] =>
           queue'[p][u] = queue[p][u]
      /\ \A u \in held[c] :
           /\ Len(queue[on[c]][u]) >= 1
           /\ queue[on[c]][u][1] = c
           /\ Len(queue'[on[c]][u]) = Len(queue[on[c]][u]) - 1
           /\ \A i \in 1 .. Len(queue'[on[c]][u]) :
                queue'[on[c]][u][i] = queue[on[c]][u][i + 1]
  BY ReleaseFacts
<1>2. \A d \in Caller \ {c} : /\ pc'[d] = pc[d] /\ on'[d] = on[d] /\ at'[d] = at[d]
                              /\ todo'[d] = todo[d] /\ held'[d] = held[d]
  BY DEF Reset
<1>3. pc'[c] = "idle" /\ held'[c] = {}
  BY DEF Reset
<1>4. on[c] \in Proc /\ held[c] \subseteq Uri
  BY DEF IInv, TypeOK, ServerInv, CallerInv
<1>5. \A p \in Proc, u \in Uri : Len(queue[p][u]) \in Nat
  BY ChainType DEF IInv
\* Where a place in a new chain comes from.
<1>6. ASSUME NEW p \in Proc, NEW u \in Uri, NEW i \in 1 .. Len(queue'[p][u])
      PROVE  \E k \in {0, 1} : /\ i + k \in 1 .. Len(queue[p][u])
                               /\ queue'[p][u][i] = queue[p][u][i + k]
                               /\ k = 1 <=> p = on[c] /\ u \in held[c]
  <2>1. CASE p = on[c] /\ u \in held[c]
    <3>1. Len(queue'[p][u]) = Len(queue[p][u]) - 1 /\ queue'[p][u][i] = queue[p][u][i + 1]
      BY <1>1, <2>1
    <3> QED BY <1>5, <2>1, <3>1
  <2>2. CASE p # on[c] \/ u \notin held[c]
    <3>1. queue'[p][u] = queue[p][u]
      BY <1>1, <2>2
    <3> QED BY <2>2, <3>1
  <2> QED BY <2>1, <2>2
<1>7. ASSUME NEW p \in Proc, NEW u \in Uri, NEW i \in 1 .. Len(queue'[p][u])
      PROVE  queue'[p][u][i] \in Caller \ {c}
  <2>1. PICK k \in {0, 1} : /\ i + k \in 1 .. Len(queue[p][u])
                            /\ queue'[p][u][i] = queue[p][u][i + k]
                            /\ k = 1 <=> p = on[c] /\ u \in held[c]
    BY <1>6
  <2>2. queue[p][u][i + k] \in Caller
    BY <2>1, ChainType, ElementOfSeq DEF IInv
  <2>3. CASE p = on[c] /\ u \in held[c]
    <3>1. queue[p][u][1] = c /\ 1 \in 1 .. Len(queue[p][u]) /\ i + k # 1
      BY <1>1, <1>5, <2>1, <2>3
    <3> QED BY <2>1, <2>2, <3>1 DEF IInv, LockInv, OnceInv
  <2>4. CASE p # on[c] \/ u \notin held[c]
    <3>1. /\ on[queue[p][u][i + k]] = p
          /\ u \in held[queue[p][u][i + k]] \/ pc[queue[p][u][i + k]] = "waiting"
      BY <2>1 DEF IInv, LockInv, ChainInv
    <3> QED BY <2>1, <2>2, <2>4, <3>1
  <2> QED BY <2>3, <2>4
<1>8. HolderInv'
  <2> SUFFICES ASSUME NEW d \in Caller, NEW u \in held'[d]
               PROVE  queue'[on'[d]][u] # <<>> /\ Head(queue'[on'[d]][u]) = d
    BY DEF HolderInv, HeadOf
  <2>1. d # c
    BY <1>3
  <2>2. u \in held[d] /\ on'[d] = on[d] /\ u \in Uri /\ on[d] \in Proc
    BY <1>2, <2>1 DEF IInv, TypeOK, ServerInv, CallerInv
  <2>3. queue[on[d]][u] # <<>> /\ Head(queue[on[d]][u]) = d
    BY <2>2 DEF IInv, LockInv, HolderInv, HeadOf
  <2>4. ~ (on[d] = on[c] /\ u \in held[c])
    BY <2>1, <2>3 DEF IInv, LockInv, HolderInv, HeadOf
  <2> QED BY <1>1, <2>2, <2>3, <2>4
<1>9. ChainInv'
  <2> SUFFICES ASSUME NEW p \in Proc, NEW u \in Uri, NEW i \in 1 .. Len(queue'[p][u])
               PROVE  /\ on'[queue'[p][u][i]] = p
                      /\ \/ u \in held'[queue'[p][u][i]]
                         \/ pc'[queue'[p][u][i]] = "waiting" /\ at'[queue'[p][u][i]] = u
    BY DEF ChainInv
  <2>1. PICK m \in 1 .. Len(queue[p][u]) : queue'[p][u][i] = queue[p][u][m]
    BY <1>6
  <2>2. /\ on[queue[p][u][m]] = p
        /\ \/ u \in held[queue[p][u][m]]
           \/ pc[queue[p][u][m]] = "waiting" /\ at[queue[p][u][m]] = u
    BY DEF IInv, LockInv, ChainInv
  <2> QED BY <1>2, <1>7, <2>1, <2>2
<1>10. OnceInv'
  <2> SUFFICES ASSUME NEW p \in Proc, NEW u \in Uri,
                      NEW i \in 1 .. Len(queue'[p][u]), NEW j \in 1 .. Len(queue'[p][u]),
                      queue'[p][u][i] = queue'[p][u][j]
               PROVE  i = j
    BY DEF OnceInv
  <2>1. PICK k \in {0, 1} : /\ i + k \in 1 .. Len(queue[p][u])
                            /\ queue'[p][u][i] = queue[p][u][i + k]
                            /\ k = 1 <=> p = on[c] /\ u \in held[c]
    BY <1>6, SMTT(30)
  <2>2. PICK l \in {0, 1} : /\ j + l \in 1 .. Len(queue[p][u])
                            /\ queue'[p][u][j] = queue[p][u][j + l]
                            /\ l = 1 <=> p = on[c] /\ u \in held[c]
    BY <1>6
  <2>3. i + k = j + l
    BY <2>1, <2>2 DEF IInv, LockInv, OnceInv
  <2> QED BY <2>1, <2>2, <2>3
<1>11. OrderInv'
  <2> SUFFICES ASSUME NEW d \in Caller, pc'[d] = "waiting"
               PROVE  /\ \E i \in 1 .. Len(queue'[on'[d]][at[d]]) : queue'[on'[d]][at[d]][i] = d
                      /\ \A u \in held'[d] : u < at[d]
                      /\ \A u \in todo'[d] : at[d] <= u
    BY DEF OrderInv
  <2>1. d # c
    BY <1>3
  <2>2. /\ pc[d] = "waiting" /\ on'[d] = on[d] /\ held'[d] = held[d] /\ todo'[d] = todo[d]
    BY <1>2, <2>1
  <2>3. on[d] \in Proc /\ at[d] \in Uri
    BY <2>2 DEF IInv, TypeOK, ServerInv, CallerInv
  <2>4. PICK i \in 1 .. Len(queue[on[d]][at[d]]) : queue[on[d]][at[d]][i] = d
    BY <2>2 DEF IInv, LockInv, OrderInv
  <2>5. \E j \in 1 .. Len(queue'[on[d]][at[d]]) : queue'[on[d]][at[d]][j] = d
    <3>1. CASE on[d] = on[c] /\ at[d] \in held[c]
      <4>1. queue[on[d]][at[d]][1] = c /\ i # 1
        BY <1>1, <2>1, <2>4, <3>1
      <4>2. i - 1 \in 1 .. Len(queue'[on[d]][at[d]])
        BY <1>1, <1>5, <2>3, <3>1, <4>1
      <4>3. queue'[on[d]][at[d]][i - 1] = queue[on[d]][at[d]][(i - 1) + 1]
        BY <1>1, <3>1, <4>2
      <4>4. (i - 1) + 1 = i
        BY <1>5, <2>3
      <4> QED BY <2>4, <4>2, <4>3, <4>4
    <3>2. CASE on[d] # on[c] \/ at[d] \notin held[c]
      BY <1>1, <2>3, <2>4, <3>2
    <3> QED BY <3>1, <3>2
  <2> QED BY <2>2, <2>5 DEF IInv, LockInv, OrderInv
<1> QED BY <1>8, <1>9, <1>10, <1>11 DEF LockInv

\* The end of a call, in success or error, preserves the invariant: the
\* counter comes down by the one the call had raised.
LEMMA FinishStep ==
  ASSUME IInv, NEW c \in Caller, NEW ok \in BOOLEAN, Finish(c, ok)
  PROVE  IInv'
<1>1. /\ pc[c] = "running" /\ on[c] \in Proc
      /\ inFlight' = [inFlight EXCEPT ![on[c]] = @ - 1]
      /\ age' = [age EXCEPT ![on[c]] = IF ok THEN 0 ELSE @]
      /\ queue' = Released(c)
      /\ Reset({c})
      /\ UNCHANGED <<phase, health, key, mapVars, at>>
  BY DEF Finish, IInv, TypeOK, ServerInv, CallerInv
<1>2. /\ \A d \in Caller \ {c} : /\ pc'[d] = pc[d] /\ on'[d] = on[d] /\ want'[d] = want[d]
                                 /\ todo'[d] = todo[d] /\ held'[d] = held[d]
      /\ pc'[c] = "idle" /\ on'[c] = NoProc /\ held'[c] = {} /\ todo'[c] = {}
  BY <1>1 DEF Reset
<1>3. \A p \in Proc : inFlight'[p] \in Nat
                      /\ inFlight'[p] = Cardinality({d \in Caller : on'[d] = p /\ pc'[d] = "running"})
  <2> SUFFICES ASSUME NEW p \in Proc
               PROVE  /\ inFlight'[p] \in Nat
                      /\ inFlight'[p]
                           = Cardinality({d \in Caller : on'[d] = p /\ pc'[d] = "running"})
    OBVIOUS
  <2> DEFINE R == {d \in Caller : on[d] = p /\ pc[d] = "running"}
             RR == {d \in Caller : on'[d] = p /\ pc'[d] = "running"}
  <2>1. inFlight[p] = Cardinality(R) /\ inFlight[p] \in Nat
    BY DEF IInv, TypeOK, InFlightExact
  <2>2. R \in SUBSET Caller
    OBVIOUS
  <2>3. IsFiniteSet(R)
    BY <2>2, FS_Subset, ConstantsAssumption
  <2>4. CASE p = on[c]
    <3>1. RR = R \ {c} /\ c \in R
      BY <1>1, <1>2, <2>4 DEF IInv, TypeOK, NoProc, Proc
    <3>2. Cardinality(RR) = Cardinality(R) - 1
      BY <2>3, <3>1, FS_RemoveElement
    <3>3. Cardinality(R) # 0
      BY <2>3, <3>1, FS_EmptySet
    <3>4. inFlight'[p] = inFlight[p] - 1
      BY <1>1, <2>4 DEF IInv, TypeOK
    <3> HIDE DEF R, RR
    <3>5. inFlight[p] - 1 \in Nat
      BY <2>1, <3>3
    <3> QED BY <2>1, <3>2, <3>4, <3>5 DEF RR
  <2>5. CASE p # on[c]
    <3>1. RR = R
      BY <1>1, <1>2, <2>5 DEF IInv, TypeOK, NoProc, Proc
    <3> QED BY <1>1, <2>1, <2>5, <3>1 DEF IInv, TypeOK
  <2> QED BY <2>4, <2>5
<1>4. TypeOK'
  <2>1. inFlight' \in [Proc -> Nat]
    BY <1>1, <1>3 DEF IInv, TypeOK
  <2>2. queue' \in [Proc -> [Uri -> Seq(Caller)]]
    BY <1>1, ReleaseFacts
  <2>3. age' \in [Proc -> 0 .. IdleTtl]
    <3>1. 0 \in 0 .. IdleTtl
      BY ConstantsAssumption
    <3> QED BY <1>1, <3>1 DEF IInv, TypeOK
  <2>4. want' \in [Caller -> Key]
    BY <1>1, AnyKeyType DEF Reset, IInv, TypeOK
  <2>5. /\ pc' \in [Caller -> Pc] /\ on' \in [Caller -> Proc \cup {NoProc}]
        /\ todo' \in [Caller -> SUBSET Uri] /\ held' \in [Caller -> SUBSET Uri]
    BY <1>1 DEF Reset, IInv, TypeOK, Pc
  <2> QED BY <1>1, <2>1, <2>2, <2>3, <2>4, <2>5 DEF IInv, TypeOK, mapVars
<1>5. CallerInv'
  BY <1>1, <1>2 DEF IInv, ServerInv, CallerInv
<1>6. TrackedServersAreReady' /\ InitingInv' /\ ServersStayConfined'
  BY <1>1 DEF IInv, ServerInv, TrackedServersAreReady, InitingInv, ServersStayConfined, mapVars
<1>7. ServesRequest'
  BY <1>1, <1>2 DEF IInv, ServerInv, ServesRequest
<1>8. LockInv'
  BY <1>1, ReleaseKeepsLocks
<1>9. InFlightExact'
  BY <1>3 DEF InFlightExact
<1> QED BY <1>4, <1>5, <1>6, <1>7, <1>8, <1>9 DEF IInv, ServerInv

-----------------------------------------------------------------------------
(* The invariant.                                                          *)

\* The manager starts with no process, no caller and empty chains.
LEMMA InitHolds ==
  ASSUME Init
  PROVE  IInv
<1>1. TypeOK
  <2>1. /\ <<>> \in Seq(Caller) /\ 0 \in 0 .. IdleTtl
        /\ AnyKey \in Key
    BY ConstantsAssumption, AnyKeyType, EmptySeq
  <2> QED BY <2>1 DEF Init, TypeOK, Phase, Health, Pc
<1>2. ServerInv
  BY DEF Init, ServerInv, CallerInv, TrackedServersAreReady, InitingInv, ServesRequest,
         ServersStayConfined
<1>3. LockInv
  <2>1. \A p \in Proc, u \in Uri : queue[p][u] = <<>>
    BY DEF Init
  <2>2. \A p \in Proc, u \in Uri : 1 .. Len(queue[p][u]) = {}
    BY <2>1, EmptySeq
  <2>3. ChainInv /\ OnceInv
    BY <2>2 DEF ChainInv, OnceInv
  <2>4. HolderInv /\ OrderInv
    BY DEF Init, HolderInv, OrderInv
  <2> QED BY <2>3, <2>4 DEF LockInv
<1>4. InFlightExact
  <2> SUFFICES ASSUME NEW p \in Proc
               PROVE  inFlight[p] = Cardinality({c \in Caller : on[c] = p /\ pc[c] = "running"})
    BY DEF InFlightExact
  <2>1. {c \in Caller : on[c] = p /\ pc[c] = "running"} = {}
    BY DEF Init
  <2> QED BY <2>1, FS_EmptySet DEF Init
<1> QED BY <1>1, <1>2, <1>3, <1>4 DEF IInv

\* Every step of the manager, of a caller or of a server preserves the invariant.
LEMMA NextHolds ==
  ASSUME IInv, [Next]_vars
  PROVE  IInv'
<1>1. CASE UNCHANGED vars
  BY <1>1 DEF vars, procVars, mapVars, callerVars, IInv, TypeOK, ServerInv, CallerInv,
              TrackedServersAreReady, InitingInv, ServesRequest, ServersStayConfined,
              LockInv, HolderInv, ChainInv, OnceInv, OrderInv, HeadOf, InFlightExact
<1>2. ASSUME NEW c \in Caller, CallerStep(c)
      PROVE  IInv'
  BY <1>2, EnterChainStep, TakeLockStep, EnterStep, FinishStep, CallExistingStep,
     CallGrowStep, CallJoinStep, CallSpawnStep DEF CallerStep
<1>3. ASSUME NEW p \in Proc, ServerStep(p)
      PROVE  IInv'
  BY <1>3, InitOkStep, InitFailStep, ShutdownReplyStep, DisposeStep, HangStep, ExitStep
     DEF ServerStep
<1>4. CASE SweepIdle \/ Shutdown \/ StartReaper \/ Tick
  BY <1>4, SweepIdleStep, ShutdownStep, StartReaperStep, TickStep
<1> QED BY <1>1, <1>2, <1>3, <1>4 DEF Next

\* The inductive invariant holds in every state of every behaviour.
THEOREM Invariant == Spec => []IInv
<1>1. Init => IInv
  BY InitHolds
<1>2. IInv /\ [Next]_vars => IInv'
  BY NextHolds
<1> QED BY <1>1, <1>2, PTL DEF Spec

\* Every variable keeps its type: in particular the in-flight counter never
\* goes below zero, whatever order calls, reaping and shutdown come in.
THEOREM TypeCorrect == Spec => []TypeOK
<1>1. IInv => TypeOK
  BY DEF IInv
<1> QED BY <1>1, Invariant, PTL

\* acquire never hands out a server that is being initialized or torn down,
\* nor one stored under another key than its own.
THEOREM TrackedReady == Spec => []TrackedServersAreReady
<1>1. IInv => TrackedServersAreReady
  BY DEF IInv, ServerInv
<1> QED BY <1>1, Invariant, PTL

\* A server grown for one call still serves the others.
THEOREM ServedAsAsked == Spec => []ServesRequest
<1>1. IInv => ServesRequest
  BY DEF IInv, ServerInv
<1> QED BY <1>1, Invariant, PTL

\* No server process is bound to a folder off the operator's allowlist.
THEOREM Confined == Spec => []ServersStayConfined
<1>1. IInv => ServersStayConfined
  BY DEF IInv, ServerInv
<1> QED BY <1>1, Invariant, PTL

\* The counter the reaper trusts counts exactly the calls under way.
THEOREM CounterExact == Spec => []InFlightExact
<1>1. IInv => InFlightExact
  BY DEF IInv
<1> QED BY <1>1, Invariant, PTL

\* No two calls have a document of one server locked at once: both would be
\* the head of its chain.
THEOREM MutualExclusion == Spec => []UriMutex
<1>1. IInv => UriMutex
  BY DEF IInv, LockInv, HolderInv, HeadOf, UriMutex
<1> QED BY <1>1, Invariant, PTL

-----------------------------------------------------------------------------
(* The reaper.                                                             *)

\* The order of the naturals as the library's well-founded relation.
LEMMA LessPairs ==
  ASSUME NEW m \in Nat, NEW n \in Nat, m < n
  PROVE  <<m, n>> \in OpToRel(<, Nat)
BY DEF OpToRel

\* A nonempty set of documents has a last one in the order of locking.
LEMMA LastUri ==
  ASSUME NEW S \in SUBSET Uri, S # {}
  PROVE  \E u \in S : \A v \in S : v <= u
<1> DEFINE T == {NumUris - u : u \in S}
<1>1. T \in SUBSET Nat /\ T # {}
  BY ConstantsAssumption DEF Uri
<1>2. PICK m \in T : \A n \in T : <<n, m>> \notin OpToRel(<, Nat)
  BY <1>1, NatLessThanWellFounded, WFMin
<1>3. PICK u \in S : m = NumUris - u
  OBVIOUS
<1>4. ASSUME NEW v \in S
      PROVE  v <= u
  <2>1. NumUris - v \in Nat /\ NumUris - u \in Nat
    BY <1>1
  <2>2. <<NumUris - v, NumUris - u>> \notin OpToRel(<, Nat)
    BY <1>2, <1>3
  <2>3. ~ (NumUris - v < NumUris - u)
    BY <2>1, <2>2, LessPairs
  <2>4. u \in Nat /\ v \in Nat
    BY DEF Uri
  <2> QED BY <2>3, <2>4, ConstantsAssumption
<1> QED BY <1>4

\* Between two turns of the event loop, a server some call has locks or waits
\* for locks on has a call in flight: of the calls that wait, the one furthest
\* along in the order waits for a call that waits for nothing.
LEMMA UserInFlight ==
  ASSUME IInv, Quiescent, NEW p \in Proc, phase[p] = "ready", inFlight[p] = 0
  PROVE  Users(p) = {}
<1> SUFFICES ASSUME Users(p) # {}
             PROVE  FALSE
  OBVIOUS
<1>1. \A c \in Users(p) : pc[c] # "running"
  <2> SUFFICES ASSUME NEW c \in Users(p), pc[c] = "running"
               PROVE  FALSE
    OBVIOUS
  <2> DEFINE R == {d \in Caller : on[d] = p /\ pc[d] = "running"}
  <2>1. R \in SUBSET Caller /\ c \in R
    BY DEF Users
  <2>2. IsFiniteSet(R)
    BY <2>1, FS_Subset, ConstantsAssumption
  <2>3. Cardinality(R) # 0
    BY <2>1, <2>2, FS_EmptySet
  <2> QED BY <2>3 DEF IInv, InFlightExact
<1>2. \A c \in Users(p) : c \in Caller /\ on[c] = p /\ pc[c] = "waiting" /\ at[c] \in Uri
  BY <1>1 DEF IInv, TypeOK, Pc, ServerInv, CallerInv, Users, Quiescent, Proc, NoProc
<1>3. PICK c \in Users(p) : \A d \in Users(p) : at[d] <= at[c]
  <2> DEFINE S == {at[c] : c \in Users(p)}
  <2>1. S \in SUBSET Uri /\ S # {}
    BY <1>2
  <2> QED BY <2>1, LastUri
<1> DEFINE u == at[c]
           h == queue[p][u][1]
<1>4. c \in Caller /\ on[c] = p /\ pc[c] = "waiting" /\ u \in Uri
  BY <1>2
<1>5. Len(queue[p][u]) \in Nat /\ Len(queue[p][u]) >= 1
  <2>1. Len(queue[p][u]) \in Nat
    BY <1>4, ChainType DEF IInv
  <2>2. PICK i \in 1 .. Len(queue[p][u]) : queue[p][u][i] = c
    BY <1>4 DEF IInv, LockInv, OrderInv
  <2> QED BY <2>1, <2>2
<1>6. h \in Caller /\ HeadOf(p, u, h)
  BY <1>4, <1>5, ChainType, EmptySeq DEF IInv, HeadOf
<1>7. on[h] = p /\ (u \in held[h] \/ (pc[h] = "waiting" /\ at[h] = u))
  BY <1>4, <1>5 DEF IInv, LockInv, ChainInv
<1>8. h \in Users(p) /\ pc[h] = "waiting"
  BY <1>2, <1>6, <1>7 DEF Users
<1>9. u \in held[h]
  BY <1>6, <1>7, <1>8 DEF Quiescent
<1>10. u < at[h]
  BY <1>6, <1>8, <1>9 DEF IInv, LockInv, OrderInv
<1> QED BY <1>2, <1>3, <1>8, <1>10 DEF Uri

\* Only the reaper and shutdown stop a server that is ready.
LEMMA WhoStops ==
  ASSUME IInv, Next, NEW p \in Proc, phase[p] = "ready", phase'[p] # "ready"
  PROVE  SweepIdle \/ Shutdown
<1>1. ASSUME NEW c \in Caller, CallerStep(c)
      PROVE  phase'[p] = "ready"
  BY <1>1 DEF CallerStep, EnterChain, TakeLock, Enter, Finish, CallExisting, CallGrow,
              CallJoin, CallSpawn, Free, IInv, TypeOK, procVars
<1>2. ASSUME NEW q \in Proc, ServerStep(q)
      PROVE  phase'[p] = "ready"
  BY <1>2 DEF ServerStep, InitOk, InitFail, ShutdownReply, Dispose, Hang, Exit, IInv, TypeOK
<1>3. ~ StartReaper /\ ~ Tick
  BY DEF StartReaper, Tick, procVars
<1> QED BY <1>1, <1>2, <1>3 DEF Next

\* The reaper never stops a server some call is using, although its counter
\* does not see the calls that wait for a document.
THEOREM ReaperSafe == Spec => ReaperSparesUsers
<1>1. ASSUME IInv, [Next]_vars, NEW p \in Proc,
             phase[p] = "ready", phase'[p] # "ready", ~ closed'
      PROVE  Users(p) = {}
  <2>1. Next
    BY <1>1 DEF vars, procVars
  <2>2. SweepIdle
    BY <1>1, <2>1, WhoStops DEF Shutdown
  <2>3. Quiescent /\ Idle(p)
    BY <1>1, <2>2 DEF SweepIdle, Stop, IInv, TypeOK
  <2> QED BY <1>1, <2>3, UserInFlight DEF Idle
<1>2. IInv /\ [Next]_vars =>
        [\A p \in Proc :
           phase[p] = "ready" /\ phase'[p] # "ready" /\ ~ closed' => Users(p) = {}]_vars
  BY <1>1
<1> QED BY <1>2, Invariant, PTL DEF Spec, ReaperSparesUsers

=============================================================================
