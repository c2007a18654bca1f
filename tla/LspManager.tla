----------------------------- MODULE LspManager -----------------------------
(***************************************************************************)
(* LanguageServerManager (packages/lsp/src/manager.ts): the resident       *)
(* language servers shared by every caller.  A server is looked up by its  *)
(* key (language, root group), spawned lazily, grown to a larger group     *)
(* when that avoids a spawn, used under a mutex per (server, document),    *)
(* reaped when idle and stopped by shutdown.                               *)
(*                                                                         *)
(* The program runs on one JavaScript thread.  EnterChain, TakeLock and    *)
(* Enter are promise continuations: they run before any timer callback or  *)
(* new call does, which is the guard Quiescent of those actions.           *)
(***************************************************************************)
EXTENDS Integers, Sequences, FiniteSets

CONSTANTS
  Caller,        \* concurrent users of the manager (tool calls)
  Language,      \* the languages the operator's registry binds
  Root,          \* project roots a caller may name
  AllowedRoots,  \* the operator's allowlist
  GrowLanguage,  \* languages whose server accepts workspace-folder changes
  NumUris,       \* number of documents
  MaxProcs,      \* bound: server processes that exist at once
  MaxServers,    \* the option maxServers
  IdleTtl        \* the option idleTtlMs, in ticks

ASSUME ConstantsAssumption ==
  /\ Language # {}
  /\ AllowedRoots \subseteq Root
  /\ GrowLanguage \subseteq Language
  /\ NumUris \in Nat \ {0}
  /\ MaxProcs \in Nat \ {0}
  /\ MaxServers \in Nat \ {0}
  /\ IdleTtl \in Nat \ {0}
  /\ IsFiniteSet(Caller)

VARIABLES
  phase,     \* what became of each server process
  health,    \* of the operating-system process: it may hang, it may exit
  key,       \* the language and root group each process is bound to
  age,       \* ticks since lastUsedAt, saturating at IdleTtl
  inFlight,  \* the counter the reaper reads
  queue,     \* the lock chain of each (server, document), its head the holder
  servers,   \* the map from key to server
  initing,   \* the map from key to the initialization under way
  reaper,    \* is the reaping interval installed?
  closed,    \* shutdown has been called and no call since
  pc,        \* where each caller is
  on,        \* the server it uses
  want,      \* the key it asked for
  todo,      \* documents it has still to lock
  at,        \* the document whose chain it waits in
  held       \* documents it has locked

procVars   == <<phase, health, key, age, inFlight>>
mapVars    == <<servers, initing, reaper, closed>>
callerVars == <<pc, on, want, todo, at, held>>
vars       == <<procVars, queue, mapVars, callerVars>>

Proc   == 1 .. MaxProcs
NoProc == 0
Uri    == 1 .. NumUris  \* a document is its rank in the order of sort()
NoUri  == 0
Key    == [lang : Language, roots : SUBSET Root]
AnyKey == [lang |-> CHOOSE l \in Language : TRUE, roots |-> {}]

Phase  == {"absent", "initializing", "ready", "failed", "stopping", "grace"}
Health == {"ok", "hung", "exited"}
Pc     == {"idle", "awaiting", "acquired", "waiting", "running"}

TypeOK ==
  /\ phase    \in [Proc -> Phase]
  /\ health   \in [Proc -> Health]
  /\ key      \in [Proc -> Key]
  /\ age      \in [Proc -> 0 .. IdleTtl]
  /\ inFlight \in [Proc -> Nat]
  /\ queue    \in [Proc -> [Uri -> Seq(Caller)]]
  /\ servers  \in [Key -> Proc \cup {NoProc}]
  /\ initing  \in [Key -> Proc \cup {NoProc}]
  /\ reaper   \in BOOLEAN
  /\ closed   \in BOOLEAN
  /\ pc       \in [Caller -> Pc]
  /\ on       \in [Caller -> Proc \cup {NoProc}]
  /\ want     \in [Caller -> Key]
  /\ todo     \in [Caller -> SUBSET Uri]
  /\ at       \in [Caller -> Uri \cup {NoUri}]
  /\ held     \in [Caller -> SUBSET Uri]

Init ==
  /\ phase    = [p \in Proc |-> "absent"]
  /\ health   = [p \in Proc |-> "exited"]
  /\ key      = [p \in Proc |-> AnyKey]
  /\ age      = [p \in Proc |-> 0]
  /\ inFlight = [p \in Proc |-> 0]
  /\ queue    = [p \in Proc |-> [u \in Uri |-> <<>>]]
  /\ servers  = [k \in Key |-> NoProc]
  /\ initing  = [k \in Key |-> NoProc]
  /\ reaper   = FALSE
  /\ closed   = FALSE
  /\ pc       = [c \in Caller |-> "idle"]
  /\ on       = [c \in Caller |-> NoProc]
  /\ want     = [c \in Caller |-> AnyKey]
  /\ todo     = [c \in Caller |-> {}]
  /\ at       = [c \in Caller |-> NoUri]
  /\ held     = [c \in Caller |-> {}]

Users(p)   == {c \in Caller : on[c] = p}
Tracked(p) == \E k \in Key : servers[k] = p
ServerKeys == {k \in Key : servers[k] # NoProc}
Free(p)    == phase[p] = "absent" /\ Users(p) = {}

-----------------------------------------------------------------------------
(* The per-(server, document) mutex.                                       *)

\* Locking in whatever order the caller listed the documents.
BugIsNext(S, u) == u \in S

IsNext(S, u) == u \in S /\ \A v \in S : u <= v

\* A chain nobody waits in: every caller in it proceeds.
BugHeadOf(p, u, c) == \E i \in DOMAIN queue[p][u] : queue[p][u][i] = c

\* The chain's head has every earlier holder's promise resolved.
HeadOf(p, u, c) == queue[p][u] # <<>> /\ Head(queue[p][u]) = c

Quiescent ==
  \A c \in Caller :
    /\ pc[c] # "acquired"
    /\ pc[c] = "waiting" => ~ HeadOf(on[c], at[c], c)

JoinChain(c, u) ==
  /\ queue' = [queue EXCEPT ![on[c]][u] = Append(@, c)]
  /\ at' = [at EXCEPT ![c] = u]

EnterChain(c) ==
  /\ pc[c] = "acquired"
  /\ \E u \in Uri : IsNext(todo[c], u) /\ JoinChain(c, u)
  /\ pc' = [pc EXCEPT ![c] = "waiting"]
  /\ UNCHANGED <<procVars, mapVars, on, want, todo, held>>

Take(c) ==
  /\ pc[c] = "waiting"
  /\ HeadOf(on[c], at[c], c)
  /\ held' = [held EXCEPT ![c] = @ \cup {at[c]}]
  /\ todo' = [todo EXCEPT ![c] = @ \ {at[c]}]

TakeLock(c) ==
  /\ Take(c)
  /\ \E u \in Uri : IsNext(todo[c] \ {at[c]}, u) /\ JoinChain(c, u)
  /\ UNCHANGED <<procVars, mapVars, pc, on, want>>

\* A path to fn that does not raise the counter.
BugEnter(c) ==
  /\ Take(c)
  /\ todo[c] \subseteq {at[c]}
  /\ pc' = [pc EXCEPT ![c] = "running"]
  /\ age' = [age EXCEPT ![on[c]] = 0]
  /\ at' = [at EXCEPT ![c] = NoUri]
  /\ UNCHANGED <<phase, health, key, inFlight, queue, mapVars, on, want>>

\* The last lock is held: the call is in flight from here on.
Enter(c) ==
  /\ Take(c)
  /\ todo[c] \subseteq {at[c]}
  /\ pc' = [pc EXCEPT ![c] = "running"]
  /\ inFlight' = [inFlight EXCEPT ![on[c]] = @ + 1]
  /\ age' = [age EXCEPT ![on[c]] = 0]
  /\ at' = [at EXCEPT ![c] = NoUri]
  /\ UNCHANGED <<phase, health, key, queue, mapVars, on, want>>

Reset(C) ==
  /\ pc'   = [c \in Caller |-> IF c \in C THEN "idle" ELSE pc[c]]
  /\ on'   = [c \in Caller |-> IF c \in C THEN NoProc ELSE on[c]]
  /\ want' = [c \in Caller |-> IF c \in C THEN AnyKey ELSE want[c]]
  /\ todo' = [c \in Caller |-> IF c \in C THEN {} ELSE todo[c]]
  /\ held' = [c \in Caller |-> IF c \in C THEN {} ELSE held[c]]

Released(c) ==
  [queue EXCEPT ![on[c]] =
     [u \in Uri |-> IF u \in held[c] THEN Tail(@[u]) ELSE @[u]]]

\* A finally that runs only on success would leave the counter raised.
BugFinish(c, ok) ==
  /\ pc[c] = "running"
  /\ inFlight' = [inFlight EXCEPT ![on[c]] = IF ok THEN @ - 1 ELSE @]
  /\ age' = [age EXCEPT ![on[c]] = IF ok THEN 0 ELSE @]
  /\ queue' = Released(c)
  /\ Reset({c})
  /\ UNCHANGED <<phase, health, key, mapVars, at>>

\* fn settled; an error leaves lastUsedAt as it was.
Finish(c, ok) ==
  /\ pc[c] = "running"
  /\ inFlight' = [inFlight EXCEPT ![on[c]] = @ - 1]
  /\ age' = [age EXCEPT ![on[c]] = IF ok THEN 0 ELSE @]
  /\ queue' = Released(c)
  /\ Reset({c})
  /\ UNCHANGED <<phase, health, key, mapVars, at>>

-----------------------------------------------------------------------------
(* acquire: find, grow, join or spawn.                                     *)

Bind(c, p, k, U, where) ==
  /\ pc'   = [pc EXCEPT ![c] = where]
  /\ on'   = [on EXCEPT ![c] = p]
  /\ want' = [want EXCEPT ![c] = k]
  /\ todo' = [todo EXCEPT ![c] = U]
  /\ closed' = FALSE
  /\ UNCHANGED <<at, held>>

Allowed(roots) == roots # {} /\ roots \subseteq AllowedRoots

\* Every call starts here: a group with a root off the allowlist is refused.
Asks(c, k, U) ==
  /\ pc[c] = "idle"
  /\ U # {}
  /\ Allowed(k.roots)
  /\ Quiescent

\* Growing any server of the language, whatever folders it already has.
BugCandidates(k) ==
  {p \in Proc : /\ Tracked(p)
                /\ key[p].lang = k.lang
                /\ k.lang \in GrowLanguage}

\* Tracked servers of the language whose group is a strict subset.
Candidates(k) ==
  {p \in Proc : /\ Tracked(p)
                /\ key[p].lang = k.lang
                /\ k.lang \in GrowLanguage
                /\ key[p].roots \subseteq k.roots
                /\ key[p].roots # k.roots}

\* The candidate to grow: only the uniquely largest one.
Grows(k, p) ==
  /\ p \in Candidates(k)
  /\ \A q \in Candidates(k) \ {p} :
       Cardinality(key[q].roots) < Cardinality(key[p].roots)

CallExisting(c, k, U) ==
  /\ Asks(c, k, U)
  /\ servers[k] # NoProc
  /\ Bind(c, servers[k], k, U, "acquired")
  /\ age' = [age EXCEPT ![servers[k]] = 0]
  /\ UNCHANGED <<phase, health, key, inFlight, queue, servers, initing, reaper>>

CallGrow(c, k, U) ==
  /\ Asks(c, k, U)
  /\ servers[k] = NoProc
  /\ \E p \in Proc :
       /\ Grows(k, p)
       /\ servers' = [servers EXCEPT ![key[p]] = NoProc, ![k] = p]
       /\ key' = [key EXCEPT ![p] = k]
       /\ age' = [age EXCEPT ![p] = 0]
       /\ Bind(c, p, k, U, "acquired")
  /\ UNCHANGED <<phase, health, inFlight, queue, initing, reaper>>

CannotReuse(k) == servers[k] = NoProc /\ \A p \in Proc : ~ Grows(k, p)

CallJoin(c, k, U) ==
  /\ Asks(c, k, U)
  /\ CannotReuse(k)
  /\ initing[k] # NoProc
  /\ Bind(c, initing[k], k, U, "awaiting")
  /\ UNCHANGED <<procVars, queue, servers, initing, reaper>>

\* Beyond maxServers the call is refused before any spawn: no step.
CallSpawn(c, k, U) ==
  /\ Asks(c, k, U)
  /\ CannotReuse(k)
  /\ initing[k] = NoProc
  /\ Cardinality(ServerKeys) < MaxServers
  /\ \E p \in Proc :
       /\ Free(p)
       /\ \A q \in Proc : q < p => ~ Free(q)
       /\ phase' = [phase EXCEPT ![p] = "initializing"]
       /\ health' = [health EXCEPT ![p] = "ok"]
       /\ key' = [key EXCEPT ![p] = k]
       /\ age' = [age EXCEPT ![p] = 0]
       /\ inFlight' = [inFlight EXCEPT ![p] = 0]
       /\ queue' = [queue EXCEPT ![p] = [u \in Uri |-> <<>>]]
       /\ initing' = [initing EXCEPT ![k] = p]
       /\ Bind(c, p, k, U, "awaiting")
  /\ UNCHANGED <<servers, reaper>>

LeftAlone(p) == IF health[p] = "exited" THEN "absent" ELSE "failed"

\* The handshake's answer: the entry is stored, and every caller that shared
\* the initialization goes on to the lock chain.
InitOk(p) ==
  /\ phase[p] = "initializing"
  /\ health[p] = "ok"
  /\ Quiescent
  /\ phase' = [phase EXCEPT ![p] = "ready"]
  /\ age' = [age EXCEPT ![p] = 0]
  /\ servers' = [servers EXCEPT ![key[p]] = p]
  /\ initing' = [initing EXCEPT ![key[p]] = NoProc]
  /\ pc' = [c \in Caller |-> IF on[c] = p THEN "acquired" ELSE pc[c]]
  /\ UNCHANGED <<health, key, inFlight, queue, reaper, closed,
                 on, want, todo, at, held>>

\* An error: the callers fail, and the process is left to itself.
InitFail(p) ==
  /\ phase[p] = "initializing"
  /\ health[p] # "hung"
  /\ Quiescent
  /\ phase' = [phase EXCEPT ![p] = LeftAlone(p)]
  /\ initing' = [initing EXCEPT ![key[p]] = NoProc]
  /\ Reset(Users(p))
  /\ UNCHANGED <<health, key, age, inFlight, queue, servers, reaper, closed, at>>

-----------------------------------------------------------------------------
(* Reaping and shutdown.                                                   *)

\* gracefulStop: a request to a process that is gone throws at once.
AfterRequest(p) == IF health[p] = "exited" THEN "grace" ELSE "stopping"

\* Deciding on the idle time alone.
BugIdle(p) == Tracked(p) /\ age[p] = IdleTtl

Idle(p) == Tracked(p) /\ inFlight[p] = 0 /\ age[p] = IdleTtl

Stop(S) ==
  /\ phase' = [p \in Proc |-> IF p \in S THEN AfterRequest(p) ELSE phase[p]]
  /\ servers' = [k \in Key |-> IF servers[k] \in S THEN NoProc ELSE servers[k]]

SweepIdle ==
  /\ reaper
  /\ Quiescent
  /\ \E p \in Proc : Idle(p)
  /\ Stop({p \in Proc : Idle(p)})
  /\ UNCHANGED <<health, key, age, inFlight, queue, initing, reaper, closed,
                 callerVars>>

Shutdown ==
  /\ Quiescent
  /\ Stop({p \in Proc : Tracked(p)})
  /\ initing' = [k \in Key |-> NoProc]
  /\ reaper' = FALSE
  /\ closed' = TRUE
  /\ UNCHANGED <<health, key, age, inFlight, queue, callerVars>>

\* The shutdown request, which has no deadline, settles with a result or an error.
ShutdownReply(p) ==
  /\ phase[p] = "stopping"
  /\ health[p] # "hung"
  /\ phase' = [phase EXCEPT ![p] = "grace"]
  /\ UNCHANGED <<health, key, age, inFlight, queue, mapVars, callerVars>>

\* The grace delay is over: dispose the connection and kill the process.
Dispose(p) ==
  /\ phase[p] = "grace"
  /\ phase' = [phase EXCEPT ![p] = "absent"]
  /\ health' = [health EXCEPT ![p] = "exited"]
  /\ UNCHANGED <<key, age, inFlight, queue, mapVars, callerVars>>

StartReaper ==
  /\ ~ reaper
  /\ reaper' = TRUE
  /\ UNCHANGED <<procVars, queue, servers, initing, closed, callerVars>>

-----------------------------------------------------------------------------
(* The environment.                                                        *)

Tick ==
  /\ Quiescent
  /\ \E p \in Proc : Tracked(p) /\ age[p] < IdleTtl
  /\ age' = [p \in Proc |-> IF Tracked(p) /\ age[p] < IdleTtl
                            THEN age[p] + 1 ELSE age[p]]
  /\ UNCHANGED <<phase, health, key, inFlight, queue, mapVars, callerVars>>

\* A server process stops answering, or ends.  The manager watches for neither.
Hang(p) ==
  /\ health[p] = "ok"
  /\ health' = [health EXCEPT ![p] = "hung"]
  /\ UNCHANGED <<phase, key, age, inFlight, queue, mapVars, callerVars>>

Exit(p) ==
  /\ health[p] # "exited"
  /\ health' = [health EXCEPT ![p] = "exited"]
  /\ phase' = [phase EXCEPT ![p] = IF @ = "failed" THEN "absent" ELSE @]
  /\ UNCHANGED <<key, age, inFlight, queue, mapVars, callerVars>>

CallerStep(c) ==
  \/ EnterChain(c)
  \/ TakeLock(c)
  \/ Enter(c)
  \/ \E ok \in BOOLEAN : Finish(c, ok)
  \/ \E k \in Key, U \in SUBSET Uri :
       \/ CallExisting(c, k, U)
       \/ CallGrow(c, k, U)
       \/ CallJoin(c, k, U)
       \/ CallSpawn(c, k, U)

ServerStep(p) ==
  \/ InitOk(p)
  \/ InitFail(p)
  \/ ShutdownReply(p)
  \/ Dispose(p)
  \/ Hang(p)
  \/ Exit(p)

Next ==
  \/ \E c \in Caller : CallerStep(c)
  \/ \E p \in Proc : ServerStep(p)
  \/ SweepIdle
  \/ Shutdown
  \/ StartReaper
  \/ Tick

Spec == Init /\ [][Next]_vars

\* A call on a server that answers settles, with a result or an error.  The
\* client gives no request a deadline: a call to a server that hangs or has
\* exited may stay, with its locks, for ever.
Settles(c) ==
  /\ \E p \in Proc : on[c] = p /\ health[p] = "ok"
  /\ \E ok \in BOOLEAN : Finish(c, ok)

\* Continuations run; timers fire however busy the queue is; a server that is
\* well answers what is asked of it, save that nothing obliges it to answer
\* initialize.
Fairness ==
  /\ \A c \in Caller :
       /\ WF_vars(EnterChain(c))
       /\ WF_vars(TakeLock(c))
       /\ WF_vars(Enter(c))
       /\ WF_vars(Settles(c))
  /\ \A p \in Proc :
       /\ WF_vars(health[p] = "ok" /\ ShutdownReply(p))
       /\ WF_vars(Dispose(p))
  /\ SF_vars(SweepIdle)
  /\ SF_vars(Tick)

FairSpec == Spec /\ Fairness

-----------------------------------------------------------------------------
(* Properties.                                                             *)

\* Two calls running on one server hold disjoint sets of documents: open,
\* query and write of a document are serialized whatever mix of single- and
\* multi-document calls is under way (withUriLock, withUriLocks).
UriMutex ==
  \A c, d \in Caller :
    c # d /\ on[c] = on[d] => held[c] \cap held[d] = {}

\* A tracked server is bound to exactly the key it is stored under, has
\* finished its handshake and is not being stopped, so acquire never hands
\* out a server that is being torn down (tryGrowExisting, reap).
TrackedServersAreReady ==
  \A k \in Key :
    servers[k] # NoProc => key[servers[k]] = k /\ phase[servers[k]] = "ready"

\* The server a call was given still covers the call's language and folders
\* for as long as the call uses it, although other calls may grow it.
ServesRequest ==
  \A c \in Caller :
    on[c] # NoProc => /\ key[on[c]].lang = want[c].lang
                      /\ want[c].roots \subseteq key[on[c]].roots

\* No server process is ever bound to a folder off the allowlist, by the
\* spawn or by a later grow (resolveGroup).
ServersStayConfined ==
  \A p \in Proc :
    phase[p] # "absent" => key[p].roots \subseteq AllowedRoots

\* The counter the reaper trusts is the number of calls running on the server.
InFlightExact ==
  \A p \in Proc :
    inFlight[p] = Cardinality({c \in Caller : on[c] = p /\ pc[c] = "running"})

\* The reaper never stops a server some call is using.  The counter does not
\* see a call that still waits for a document: the lock it waits for is held
\* by a call that is counted.
ReaperSparesUsers ==
  [][\A p \in Proc :
       phase[p] = "ready" /\ phase'[p] # "ready" /\ ~ closed' => Users(p) = {}]_vars

\* A call in a lock chain gets its documents and completes, unless its server
\* stops answering: sorted acquisition leaves no cycle, first come first served
\* no starvation.  Behind a server that hangs the call that holds the lock and
\* those that wait for it stay for ever, since no request has a deadline.
WaitersAreServed ==
  \A c \in Caller :
    pc[c] = "waiting" ~>
      \/ pc[c] = "idle"
      \/ \E p \in Proc : on[c] = p /\ health[p] # "ok"

\* While the reaper is installed, a server nobody uses any more does not stay.
IdleServersAreReaped ==
  \A p \in Proc : <>[](reaper /\ Users(p) = {}) => <>[](~ Tracked(p))

=============================================================================
