-------------------------- MODULE BrowserSessions --------------------------
(***************************************************************************)
(* The browser sessions of the MCP server: BrowserManager                  *)
(* (packages/browser/src/manager.ts), which owns the shared browser and    *)
(* one context per session, and the registry of packages/mcp/src/browser.ts*)
(* which holds each session's page, recorder and call queue and listens to *)
(* the manager's callbacks.                                                *)
(*                                                                         *)
(* A session's id is minted by the open_session call, so each id lives     *)
(* once.  Capturing is on: every context records an archive (HAR), written *)
(* raw when the context closes and finalized by the onClosed callback, and *)
(* every page has a recorder.  maxSessionMs and videoDir are unset.  The    *)
(* browser may refuse whatever it is asked, or never answer (Hang), which   *)
(* matters to liveness only: no guard reads what hangs.                    *)
(*                                                                         *)
(* The program runs on one thread.  Start is a promise continuation; every *)
(* other action begins with a request, a timer or an answer of the browser.*)
(***************************************************************************)
EXTENDS Integers, Sequences, FiniteSets

CONSTANTS
  Session,      \* the ids open_session will mint
  NoSession,    \* of a call that is not under way
  Caller,       \* concurrent tool calls
  Reaper,       \* the reaping interval, as one who closes sessions
  MaxContexts,  \* the option maxContexts
  IdleTtl,      \* the option idleTtlMs, in ticks
  MayHang       \* the sessions whose page may stop answering

ASSUME ConstantsAssumption ==
  /\ NoSession \notin Session
  /\ Reaper \notin Caller
  /\ MaxContexts \in Nat \ {0}
  /\ IdleTtl \in Nat \ {0}
  /\ MayHang \subseteq Session

VARIABLES
  browser,   \* the shared browser and the promise of its launch
  stage,     \* how far open_session got with each session
  context,   \* its browser context
  sessions,  \* the manager's map
  registry,  \* the MCP server's map
  age,       \* ticks since lastUsedAt, saturating at IdleTtl
  recorder,  \* its RunRecorder
  har,       \* its archive on disk
  tail,      \* the calls queued on it, the running one first
  pc, on, kind,  \* of each tool call
  teardown,  \* the calls of closeSession under way
  hung,      \* the sessions for which some request will not be answered
  reaper,    \* is the interval installed?
  down,      \* progress of shutdown
  leaving    \* the sessions shutdown is closing

openVars  == <<browser, stage>>
callVars  == <<tail, pc, on, kind>>
downVars  == <<reaper, down, leaving>>
vars == <<openVars, context, sessions, registry, age, recorder, har, callVars,
          teardown, downVars, hung>>

\* An open whose routes cannot be installed is "unrouted": its context is in no
\* map.  Any other that fails is "failed".
Stage == {"new", "awaitBrowser", "awaitContext", "routing", "setup", "open", "unrouted", "failed"}

TypeOK ==
  /\ browser  \in {"none", "launching", "up", "broken"}
  /\ stage    \in [Session -> Stage]
  /\ context  \in [Session -> {"none", "alive", "stuck", "closed"}]  \* stuck: close() failed
  /\ sessions \in SUBSET Session
  /\ registry \in SUBSET Session
  /\ age      \in [Session -> 0 .. IdleTtl]
  /\ recorder \in [Session -> {"none", "on", "stopping", "flushed", "failed", "lost"}]
  /\ har      \in [Session -> {"none", "raw", "final"}]
  /\ tail     \in [Session -> Seq(Caller)]
  /\ pc       \in [Caller -> {"idle", "queued", "running", "flushing", "closing"}]
  /\ on       \in [Caller -> Session \cup {NoSession}]
  /\ kind     \in [Caller -> {"step", "close"}]
  /\ teardown \in SUBSET [of : Session, by : Caller \cup {Reaper}, at : {"flush", "close"}]
  /\ reaper   \in BOOLEAN
  /\ down     \in {"no", "contexts", "rejected", "browser"}
  /\ leaving  \in SUBSET Session
  /\ hung     \in SUBSET Session

Init ==
  /\ browser  = "none"
  /\ stage    = [s \in Session |-> "new"]
  /\ context  = [s \in Session |-> "none"]
  /\ sessions = {}
  /\ registry = {}
  /\ age      = [s \in Session |-> 0]
  /\ recorder = [s \in Session |-> "none"]
  /\ har      = [s \in Session |-> "none"]
  /\ tail     = [s \in Session |-> <<>>]
  /\ pc       = [c \in Caller |-> "idle"]
  /\ on       = [c \in Caller |-> NoSession]
  /\ kind     = [c \in Caller |-> "step"]
  /\ teardown = {}
  /\ reaper   = FALSE
  /\ down     = "no"
  /\ leaving  = {}
  /\ hung     = {}

\* A queued call whose predecessors have all settled runs before anything else.
Ready(c) == pc[c] = "queued" /\ Head(tail[on[c]]) = c
Quiescent == \A c \in Caller : ~ Ready(c)

-----------------------------------------------------------------------------
(* open_session: createSession, newPage, the recorder, the registry.       *)

\* The cap is tested here and the session is stored only in RoutesOk.  A
\* launch that failed once is remembered: every later call is refused.
BeginOpen(s) ==
  /\ Quiescent
  /\ stage[s] = "new"
  /\ Cardinality(sessions) < MaxContexts
  /\ \/ /\ browser \in {"none", "launching"}
        /\ browser' = "launching"
        /\ stage' = [stage EXCEPT ![s] = "awaitBrowser"]
     \/ /\ browser = "up"
        /\ stage' = [stage EXCEPT ![s] = "awaitContext"]
        /\ UNCHANGED browser
  /\ UNCHANGED <<context, sessions, registry, age, recorder, har, callVars,
                 teardown, downVars, hung>>

LaunchSettles(outcome, next) ==
  /\ Quiescent
  /\ browser = "launching"
  /\ browser' = outcome
  /\ stage' = [s \in Session |-> IF stage[s] = "awaitBrowser" THEN next ELSE stage[s]]
  /\ UNCHANGED <<context, sessions, registry, age, recorder, har, callVars,
                 teardown, downVars, hung>>

LaunchOk == LaunchSettles("up", "awaitContext")
LaunchFails == LaunchSettles("broken", "failed")

ContextOk(s) ==
  /\ Quiescent
  /\ stage[s] = "awaitContext"
  /\ stage' = [stage EXCEPT ![s] = "routing"]
  /\ context' = [context EXCEPT ![s] = "alive"]
  /\ UNCHANGED <<browser, sessions, registry, age, recorder, har, callVars, teardown, downVars, hung>>

\* A context whose close() failed may still serve.
Usable(s) == context[s] \in {"alive", "stuck"}

\* The safety routes are installed, and the manager stores the session.
RoutesOk(s) ==
  /\ Quiescent
  /\ stage[s] = "routing"
  /\ Usable(s)
  /\ stage' = [stage EXCEPT ![s] = "setup"]
  /\ sessions' = sessions \cup {s}
  /\ age' = [age EXCEPT ![s] = 0]
  /\ UNCHANGED <<browser, context, registry, recorder, har, callVars, teardown, downVars, hung>>

SetupOk(s) ==
  /\ Quiescent
  /\ stage[s] = "setup"
  /\ Usable(s)
  /\ stage' = [stage EXCEPT ![s] = "open"]
  /\ registry' = registry \cup {s}
  /\ recorder' = [recorder EXCEPT ![s] = "on"]
  /\ UNCHANGED <<browser, context, sessions, age, har, callVars, teardown, downVars, hung>>

\* newContext, the routes, newPage or the recorder fails: the call does, and
\* whatever it had made or stored so far stays.
OpenFails(s) ==
  /\ Quiescent
  /\ stage[s] \in {"awaitContext", "routing", "setup"}
  /\ stage' = [stage EXCEPT ![s] = IF @ = "routing" THEN "unrouted" ELSE "failed"]
  /\ UNCHANGED <<browser, context, sessions, registry, age, recorder, har, callVars,
                 teardown, downVars, hung>>

-----------------------------------------------------------------------------
(* closeSession, whoever calls it.                                         *)

\* Forgetting the session once it is closed would let two closers at it.
BugForget(S) == UNCHANGED sessions

Forget(S) == sessions' = sessions \ S

NeedsFlush(s) == s \in registry /\ recorder[s] = "on"

\* A flag set only when the flush is over.
BugStopRecorders(S) == UNCHANGED recorder

\* recorderStopped is set before stop() is awaited.
StopRecorders(S) ==
  recorder' = [s \in Session |-> IF s \in S /\ NeedsFlush(s) THEN "stopping" ELSE recorder[s]]

\* The onReap callback comes first, then the context is closed.
Closings(S, who) ==
  {[of |-> s, by |-> who, at |-> IF NeedsFlush(s) THEN "flush" ELSE "close"] : s \in S}

\* The call at the head of the queue is over, and leaves it.
Leave(c) ==
  /\ tail' = [tail EXCEPT ![on[c]] = Tail(@)]
  /\ pc' = [pc EXCEPT ![c] = "idle"]
  /\ on' = [on EXCEPT ![c] = NoSession]
  /\ kind' = [kind EXCEPT ![c] = "step"]

\* closeSession called by a tool call; a session that is gone is a no-op.
CallClose(c) ==
  IF on[c] \in sessions
  THEN /\ Forget({on[c]})
       /\ teardown' = teardown \cup Closings({on[c]}, c)
       /\ pc' = [pc EXCEPT ![c] = "closing"]
       /\ UNCHANGED <<tail, on, kind>>
  ELSE Leave(c) /\ UNCHANGED <<sessions, teardown>>

\* The reaper's flush: the callback is awaited, then the context closes.  If
\* stopping the trace or storing it throws, as it does once the context is gone,
\* the closing is abandoned, with the session in the map no more.
FlushEnds(r, ok) ==
  /\ Quiescent
  /\ r.at = "flush"
  /\ ok => Usable(r.of)
  /\ recorder' = [recorder EXCEPT ![r.of] = IF ok THEN "flushed" ELSE "lost"]
  /\ teardown' = (teardown \ {r}) \cup (IF ok THEN {[r EXCEPT !.at = "close"]} ELSE {})
  /\ UNCHANGED <<openVars, context, sessions, registry, age, har, callVars, downVars, hung>>

\* The archive on disk once the context has closed: closing it writes it.
Written(s) == IF Usable(s) THEN "raw" ELSE har[s]

\* The same once onClosed has run too, which looks for a session it still knows.
Finalized(s) == IF s \in registry /\ Written(s) = "raw" THEN "final" ELSE Written(s)

\* How closing a context may end: context.close() rejects and onClosed is not
\* called, or finalizeHar throws and onClosed goes no further, or all is well.
Outcome == {"refused", "unfinalized", "closed"}

\* A registry that forgets only the sessions whose recorder has been flushed.
BugContextCloses(r, outcome) ==
  /\ Quiescent
  /\ r.at = "close"
  /\ outcome = "refused" => context[r.of] = "alive"
  /\ outcome = "unfinalized" => r.of \in registry /\ Written(r.of) = "raw"
  /\ context' = [context EXCEPT ![r.of] = IF outcome = "refused" THEN "stuck" ELSE "closed"]
  /\ har' = [har EXCEPT ![r.of] = CASE outcome = "closed" -> Finalized(r.of)
                                    [] outcome = "unfinalized" -> "raw"
                                    [] outcome = "refused" -> @]
  /\ registry' = IF outcome = "closed" /\ recorder[r.of] = "flushed" THEN registry \ {r.of} ELSE registry
  /\ teardown' = teardown \ {r}
  /\ IF r.by = Reaper THEN UNCHANGED callVars ELSE Leave(r.by)
  /\ UNCHANGED <<openVars, sessions, age, recorder, downVars, hung>>

ContextCloses(r, outcome) ==
  /\ Quiescent
  /\ r.at = "close"
  /\ outcome = "refused" => context[r.of] = "alive"
  /\ outcome = "unfinalized" => r.of \in registry /\ Written(r.of) = "raw"
  /\ context' = [context EXCEPT ![r.of] = IF outcome = "refused" THEN "stuck" ELSE "closed"]
  /\ har' = [har EXCEPT ![r.of] = CASE outcome = "closed" -> Finalized(r.of)
                                    [] outcome = "unfinalized" -> "raw"
                                    [] outcome = "refused" -> @]
  /\ registry' = IF outcome = "closed" THEN registry \ {r.of} ELSE registry
  /\ teardown' = teardown \ {r}
  /\ IF r.by = Reaper THEN UNCHANGED callVars ELSE Leave(r.by)
  /\ UNCHANGED <<openVars, sessions, age, recorder, downVars, hung>>

\* Reaping only what the MCP server has registered.
BugIdle(s) == s \in sessions \cap registry /\ age[s] = IdleTtl

Idle(s) == s \in sessions /\ age[s] = IdleTtl

SweepIdle ==
  /\ Quiescent
  /\ reaper
  /\ \E s \in Session : Idle(s)
  /\ LET S == {s \in Session : Idle(s)}
     IN  /\ Forget(S)
         /\ StopRecorders(S)
         /\ teardown' = teardown \cup Closings(S, Reaper)
  /\ UNCHANGED <<openVars, context, registry, age, har, callVars, downVars, hung>>

-----------------------------------------------------------------------------
(* Tool calls on a session.                                                *)

\* requireSession, or the same test of close_session, which does not touch
\* the session; then the call is queued.
Request(c, s, k) ==
  /\ Quiescent
  /\ pc[c] = "idle"
  /\ s \in registry \cap sessions
  /\ pc' = [pc EXCEPT ![c] = "queued"]
  /\ on' = [on EXCEPT ![c] = s]
  /\ kind' = [kind EXCEPT ![c] = k]
  /\ tail' = [tail EXCEPT ![s] = Append(@, c)]
  /\ age' = [age EXCEPT ![s] = IF k = "step" THEN 0 ELSE @]
  /\ UNCHANGED <<openVars, context, sessions, registry, recorder, har, teardown, downVars, hung>>

\* A call on a session the manager no longer has is refused, and drops the
\* registry's entry.
Refuse(s) ==
  /\ Quiescent
  /\ s \in registry \ sessions
  /\ registry' = registry \ {s}
  /\ UNCHANGED <<openVars, context, sessions, age, recorder, har, callVars, teardown,
                 downVars, hung>>

Start(c) ==
  /\ Ready(c)
  /\ \/ /\ kind[c] = "step"
        /\ pc' = [pc EXCEPT ![c] = "running"]
        /\ UNCHANGED <<sessions, recorder, tail, on, kind, teardown>>
     \/ /\ kind[c] = "close"
        /\ recorder[on[c]] = "on"
        /\ recorder' = [recorder EXCEPT ![on[c]] = "stopping"]
        /\ pc' = [pc EXCEPT ![c] = "flushing"]
        /\ UNCHANGED <<sessions, tail, on, kind, teardown>>
     \/ /\ kind[c] = "close"
        /\ recorder[on[c]] # "on"
        /\ CallClose(c)
        /\ UNCHANGED recorder
  /\ UNCHANGED <<openVars, context, registry, age, har, downVars, hung>>

\* A queue that only a success moves on.
BugStepEnds(c, ok) ==
  /\ Quiescent
  /\ pc[c] = "running"
  /\ IF ok THEN Leave(c)
     ELSE /\ pc' = [pc EXCEPT ![c] = "idle"]
          /\ UNCHANGED <<tail, on, kind>>
  /\ UNCHANGED <<openVars, context, sessions, registry, age, recorder, har, teardown,
                 downVars, hung>>

StepEnds(c, ok) ==
  /\ Quiescent
  /\ pc[c] = "running"
  /\ Leave(c)
  /\ UNCHANGED <<openVars, context, sessions, registry, age, recorder, har, teardown,
                 downVars, hung>>

\* close_session's own flush; an error ends the call with the session in the map.
CloserFlushes(c, ok) ==
  /\ Quiescent
  /\ pc[c] = "flushing"
  /\ ok => Usable(on[c])
  /\ recorder' = [recorder EXCEPT ![on[c]] = IF ok THEN "flushed" ELSE "failed"]
  /\ IF ok THEN CallClose(c)
     ELSE Leave(c) /\ UNCHANGED <<sessions, teardown>>
  /\ UNCHANGED <<openVars, context, registry, age, har, downVars, hung>>

-----------------------------------------------------------------------------
(* shutdown, the reaping interval and the clock.                           *)

\* Is shutdown closing the contexts it has taken?  It has "rejected" once one
\* of them could not be closed, while the others still close.
Leaving(s) == down \in {"contexts", "rejected"} /\ s \in leaving

Shutdown ==
  /\ Quiescent
  /\ \/ down = "no"
     \/ down = "rejected" /\ \A s \in leaving : context[s] # "alive"
  /\ down' = "contexts"
  /\ leaving' = sessions
  /\ Forget(sessions)
  /\ reaper' = FALSE
  /\ UNCHANGED <<openVars, context, registry, age, recorder, har, callVars, teardown, hung>>

\* One of the contexts shutdown waits for has closed, or cannot be closed: the
\* call rejects, no onClosed runs, and the browser is left as it is.
DownContext(s, ok) ==
  /\ Quiescent
  /\ Leaving(s)
  /\ context[s] = "alive"
  /\ IF ok
     THEN /\ context' = [context EXCEPT ![s] = "closed"]
          /\ har' = [har EXCEPT ![s] = "raw"]
          /\ UNCHANGED down
     ELSE /\ context' = [context EXCEPT ![s] = "stuck"]
          /\ down' = "rejected"
          /\ UNCHANGED har
  /\ UNCHANGED <<openVars, sessions, registry, age, recorder, callVars, teardown, reaper, leaving, hung>>

\* All have: onClosed runs for each, then the browser is closed with every
\* context made on it meanwhile.
DownClosed ==
  /\ Quiescent
  /\ down = "contexts"
  /\ \A s \in leaving : context[s] = "closed"
  /\ har' = [s \in Session |-> IF s \in leaving THEN Finalized(s) ELSE har[s]]
  /\ registry' = registry \ leaving
  /\ IF browser = "up"
     THEN /\ browser' = "none"
          /\ down' = "browser"
          /\ leaving' = {s \in Session : context[s] = "alive" \/ stage[s] = "awaitContext"}
     ELSE /\ down' = "no"
          /\ leaving' = {}
          /\ UNCHANGED browser
  /\ UNCHANGED <<stage, context, sessions, age, recorder, callVars, teardown, reaper, hung>>

\* finalizeHar throws for one of them: shutdown ends there, with some of the
\* others done and the browser left as it is.
DownCutShort ==
  /\ Quiescent
  /\ down = "contexts"
  /\ \A s \in leaving : context[s] = "closed"
  /\ \E f \in {s \in leaving \cap registry : har[s] = "raw"}, Done \in SUBSET leaving :
       /\ f \notin Done
       /\ har' = [s \in Session |-> IF s \in Done THEN Finalized(s) ELSE har[s]]
       /\ registry' = registry \ Done
  /\ down' = "no"
  /\ leaving' = {}
  /\ UNCHANGED <<openVars, context, sessions, age, recorder, callVars, teardown, reaper, hung>>

DownBrowser(ok) ==
  /\ Quiescent
  /\ down = "browser"
  /\ down' = "no"
  /\ leaving' = {}
  /\ IF ok
     THEN /\ context' = [s \in Session |->
                 IF s \in leaving /\ context[s] = "alive" THEN "closed" ELSE context[s]]
          /\ stage' = [s \in Session |->
                 IF s \in leaving /\ stage[s] = "awaitContext" THEN "failed" ELSE stage[s]]
     ELSE UNCHANGED <<context, stage>>
  /\ UNCHANGED <<browser, sessions, registry, age, recorder, har, callVars, teardown, reaper, hung>>

StartReaper ==
  /\ Quiescent
  /\ ~ reaper
  /\ reaper' = TRUE
  /\ UNCHANGED <<openVars, context, sessions, registry, age, recorder, har, callVars,
                 teardown, down, leaving, hung>>

Older(s) == IF age[s] < IdleTtl THEN age[s] + 1 ELSE age[s]

Tick ==
  /\ Quiescent
  /\ \E s \in sessions : age[s] < IdleTtl
  /\ age' = [s \in Session |-> IF s \in sessions THEN Older(s) ELSE age[s]]
  /\ UNCHANGED <<openVars, context, sessions, registry, recorder, har, callVars, teardown,
                 downVars, hung>>

\* A page stops answering.  saveAs, the keyboard, the mouse, the stop of a
\* trace and the close of a context have no timeout: what is under way on the
\* session, or begins later, may never end.
Hang(s) ==
  /\ Quiescent
  /\ s \in MayHang \ hung
  /\ context[s] = "alive"
  /\ hung' = hung \cup {s}
  /\ UNCHANGED <<openVars, context, sessions, registry, age, recorder, har, callVars,
                 teardown, downVars>>

-----------------------------------------------------------------------------
SessionStep(s) ==
  \/ BeginOpen(s)
  \/ ContextOk(s)
  \/ RoutesOk(s)
  \/ SetupOk(s)
  \/ OpenFails(s)
  \/ Refuse(s)
  \/ \E ok \in BOOLEAN : DownContext(s, ok)
  \/ Hang(s)

CallerStep(c) ==
  \/ \E s \in Session, k \in {"step", "close"} : Request(c, s, k)
  \/ Start(c)
  \/ \E ok \in BOOLEAN : StepEnds(c, ok) \/ CloserFlushes(c, ok)

CloserStep(r) ==
  \/ \E ok \in BOOLEAN : FlushEnds(r, ok)
  \/ \E outcome \in Outcome : ContextCloses(r, outcome)

Next ==
  \/ \E s \in Session : SessionStep(s)
  \/ \E c \in Caller : CallerStep(c)
  \/ \E r \in teardown : CloserStep(r)
  \/ LaunchOk
  \/ LaunchFails
  \/ SweepIdle
  \/ Shutdown
  \/ DownClosed
  \/ DownCutShort
  \/ \E ok \in BOOLEAN : DownBrowser(ok)
  \/ StartReaper
  \/ Tick

Spec == Init /\ [][Next]_vars

\* The queue moves on; what is asked for a session ends, with success or an
\* error, unless the session hangs; the interval and the clock go on.
Fairness ==
  /\ \A c \in Caller :
       /\ WF_vars(Start(c))
       /\ SF_vars(on[c] \notin hung /\ \E ok \in BOOLEAN : StepEnds(c, ok))
       /\ SF_vars(on[c] \notin hung /\ \E ok \in BOOLEAN : CloserFlushes(c, ok))
  /\ \A s \in Session :
       /\ SF_vars(s \notin hung /\ \E ok \in BOOLEAN : DownContext(s, ok))
       /\ SF_vars(s \notin hung /\ \E r \in teardown : r.of = s /\ CloserStep(r))
  /\ SF_vars(SweepIdle)
  /\ SF_vars(Tick)

FairSpec == Spec /\ Fairness

-----------------------------------------------------------------------------
(* Properties.                                                             *)

Flushers(s) ==
  {c \in Caller : pc[c] = "flushing" /\ on[c] = s}
    \cup {r \in teardown : r.at = "flush" /\ r.of = s}

\* A context is closed by one of those who may: a close_session call, the
\* reaper, shutdown.  Whoever comes second finds the session gone from the
\* manager's map (closeSession, shutdown).
ClosedByOne ==
  \A s \in Session :
    LET R == {r \in teardown : r.of = s}
    IN  /\ Cardinality(R) <= 1
        /\ Leaving(s) => R = {}
        /\ s \in sessions => R = {}

\* A session's recorder is stopped once: RunRecorder.stop throws on a second
\* call, and the reaper's onReap and close_session may both reach for it.
FlushedOnce ==
  \A s \in Session :
    /\ Cardinality(Flushers(s)) <= 1
    /\ recorder[s] = "stopping" <=> Flushers(s) # {}

\* The closing of a session went wrong: its trace could not be stopped, its
\* context could not be closed, or nobody finalized its archive.
Miscarried(s) ==
  \/ recorder[s] = "lost"
  \/ context[s] = "stuck"
  \/ context[s] = "closed" /\ har[s] # "final"

\* The two maps agree.  What the registry lists is in the manager's map or is
\* being closed, and only a closing that went wrong leaves an entry behind
\* (onClosed, requireSession); and what the manager holds of an open session the
\* registry lists, so that it can be called and closed.
RegistryIsAccountedFor ==
  \A s \in Session :
    /\ s \in registry =>
         \/ s \in sessions
         \/ Leaving(s)
         \/ \E r \in teardown : r.of = s
         \/ Miscarried(s)
    /\ s \in sessions /\ stage[s] = "open" => s \in registry

\* A queued call runs and ends, whether the calls before it succeed or fail
\* and whoever closes the session meanwhile (enqueue).  Behind a call that hangs
\* it waits for ever.
CallsComplete ==
  \A c \in Caller : pc[c] = "queued" ~> pc[c] = "idle" \/ on[c] \in hung

\* With the reaper installed, the context of a session nobody calls any more is
\* released, even one whose open_session failed halfway.  Lost are the contexts
\* whose routes were not installed, whose trace could not be stopped in a sweep,
\* which could not be closed or which hang.
IdleContextsAreReleased ==
  \A s \in Session :
    <>[](/\ reaper
         /\ \A c \in Caller : pc[c] = "idle" \/ on[c] # s
         /\ stage[s] \notin {"routing", "unrouted"}
         /\ recorder[s] # "lost" /\ context[s] # "stuck" /\ s \notin hung)
      => <>[](context[s] # "alive")

=============================================================================
