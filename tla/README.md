# A formal model of Sackville

Sackville is a family of MCP servers and command-line tools that give a coding agent language
servers, a browser, HTTP requests, dependency audits, coverage, mutation and flakiness checks, and
one verdict over them. This directory models the parts of it whose difficulty is in the *order* of
things: who holds what while somebody else waits, what is torn down while it is used, and what a
partial result may claim.

TLC checks the models on small instances (the `MC*.tla` modules and their `.cfg` files). The
`*Proofs.tla` modules hold theorems for every value of the constants, checked by TLAPS.
`PROJECT.json` maps each definition to the lines it translates and lists the runs, the hazards, the
findings and the theorems.

## Inventory

All paths are below `src/packages/` unless they start with `py/`.

| Component | State it keeps | Operations | Interacts with | What is hard |
|---|---|---|---|---|
| **lsp: server manager** `lsp/src/manager.ts` | maps of servers and of initializations under way, per-document promise chains, in-flight counters, idle clocks, the reaping interval | `run`, `runWithUris`, `acquire` (find, grow, join, spawn), `sweepIdle`, `shutdown` | server processes; the callers are tool calls of `mcp/src/lsp.ts` and the CLI | concurrent calls across `await`s, lock order, reaping against use, hung servers |
| **lsp: client session** `lsp/src/client.ts`, `query.ts` | open documents, pushed diagnostics, progress tokens, pending requests | `ensureOpen`, queries, pull and push diagnostics, `withRetry` | one server process; called under the manager's locks | notifications that race with requests, indexing, retries against one deadline |
| **lsp: rename and edits** `lsp/src/rename.ts`, `normalize.ts`, `apply.ts`, `confine.ts` | the projected fate of every file of a batch | `computeRename`, `applyRename`, the commit, `resync` | client, file system | several files written one by one, partial failure, resynchronization, others writing meanwhile |
| **lsp: encoding, registry** | none | position conversion, server commands | client | positions at boundaries |
| **browser: sessions** `browser/src/manager.ts`, registry in `mcp/src/browser.ts` | shared browser, sessions, idle clocks; the server's registry with a call queue and a recorder per session | open, step, close, `sweepIdle`, `shutdown`, `onReap` and `onClosed` callbacks | Playwright; the HAR and evidence on disk | three closers of one session, callbacks in between, opens that fail halfway |
| **browser: driver, recorder, evidence** | bounded buffers, a trace | steps, snapshots, flows | Playwright | rendering mostly |
| **verdict and verify** `verify/src/orchestrate.ts`, `verdict/src/*.ts`, `mcp/src/bin-verify.ts` | the pillars of one request that still run | run the pillars concurrently, adapt each result, fold five into one | api, coverage, deps, flake, mutate, browser | partial failure, absence that must not read as success |
| **artifacts** `artifacts/src/store.ts` | handles, hashes and sizes in memory; files on disk shared by processes | `put`, `get`, sweep by age and by size | every package that stores evidence | several stores on one directory, eviction against use |
| **api: runner and sequences** `api/src/runner.ts`, `sequence.ts`, `safety.ts` | variables captured along a sequence | one request with redirects, a sequence | network, secrets, artifacts | the safety policy at every hop, failing steps |
| **api: contracts and capture** `api/src/request-contract.ts`, `har-capture.ts`, `har-synth.ts`, `contract.ts`, `graphql.ts`; `cli/src/api.ts`, `mcp/src/api.ts` | none between calls; a tally along an archive | validate a request, a response, a capture, a run | runner, browser archives | what an archive lost must neither be a finding nor pass for verified |
| **api: import, collections** | none | convert, load | files | data only |
| **flake** `flake/src/*.ts`, `mcp/src/flake.ts`, `cli/src/flake.ts` | run history and quarantine (SQLite) | record runs, classify, repeat, quarantine, release | test runners | several writers, expiry, a repetition that fails halfway |
| **mutate** `mutate/src/*.ts`, `mcp/src/mutate.ts`, `cli/src/mutate.ts` | a report, a cache and a scoped configuration at fixed paths in the project | run a tool, summarize | mutation tools | what an earlier or a concurrent run left |
| **coverage** `coverage/src/*.ts`, `mcp/src/coverage.ts`, `cli/src/coverage.ts` | a temporary directory per call | run tests, compare lines with a diff | test runners | which file of a report is meant |
| **deps** `deps/src/*.ts`, `mcp/src/deps.ts`, `cli/src/deps.ts`, `core/src/project.ts` | the state of a classifier along a diff; the audits so far | detect, fetch, match advisories, audit a project | registry, OSV snapshot | hunks that start anywhere, versions written in many ways, isolated failures |
| **mcp servers, cli** | registration tables | dispatch | all of the above | wiring |
| **core search, ingest** | a documentation database | build, query | SQLite | data only |
| **shared helpers** `spawn`, `safety`, `severity`, `diff`, `assert`, `pyscope`, `embed` | none | pure functions, one process spawn | | data only |

### What makes each component correct

* *Server manager*: a document is opened, queried or written by one call at a time; nobody waits for
  ever on a server that answers; the reaper stops what is unused and only that; a server serves the folders it was asked for
  and none off the allowlist; the maps and counters say what is the case.
* *Browser sessions*: one closer per context; evidence is flushed once, before the context is gone;
  no archive stays unfinalized; a session that failed halfway is released.
* *Verify*: no finding is hidden by another pillar, a pass is earned by all five, the order of the
  results does not matter, a verdict is always given.
* *Artifacts*: a handle returned by `put` resolves to what was put until somebody writes or evicts it; a
  hash is that of the bytes it comes with; a sweep takes no more than the policy asks, oldest first.
* *Client*: an answer that says it is whole is whole; clean means that a report was received since the
  document was opened; every call returns if the server answers.
* *Rename*: what lands is what executing the operations in their order would give; the server's
  buffers and the audit record agree with the disk, also after a failure; nobody else's text is lost.
* *API runner*: no request leaves the policy at any hop; a credential reaches no other host; results
  and archives say what was exchanged.
* *API contracts*: a request written as the operation declares is not faulted; what was
  not seen is called unverified; a pass means conforming traffic and a finding a real fault.
* *Flake*: verdicts are those of the tests that ran.
* *Mutate*: what was asked for was mutated, or reused from the incremental file the caller named;
  survivors are those of the run they are reported for.
* *Coverage*: a diff passes only if every executable line it adds was hit.
* *Deps*: an audit says what the advisories say of the version; silence means unaffected; only real
  changes are attributed to a diff.

## Modules

| Module | Models | Role |
|---|---|---|
| `LspManager` | `lsp/src/manager.ts` with the life of the server processes | state machine and properties |
| `LspManagerProofs` | | inductive invariant and theorems |
| `LspDocuments` | the document tables of `lsp/src/client.ts` and the server's buffers | operators shared by the next two |
| `LspSession` | `lsp/src/client.ts` from a call to its answer | state machine, properties, fairness |
| `LspSessionProofs` | | inductive invariant and theorems |
| `LspRename` | `lsp/src/rename.ts` | state machine and properties |
| `LspRenameProofs` | | inductive invariant; the disk, the buffers and the audit after a batch of any length |
| `BrowserSessions` | `browser/src/manager.ts` composed with the registry of `mcp/src/browser.ts` and the recorder's stop | state machine and properties |
| `BrowserSessionsProofs` | | inductive invariant and theorems |
| `Posture` | what a verdict promises while results come in | abstract specification |
| `Verify` | `orchestrate`, the adapters, `composeVerdict`, the deps audit loop | state machine, refinement of `Posture` |
| `VerifyProofs` | | inductive invariant, theorems, refinement |
| `ApiRunner` | `api/src/runner.ts`, `sequence.ts`, `safety.ts`, `prepare.ts`, the driver in `har-produce.ts` | state machine and properties |
| `ApiRunnerProofs` | | inductive invariants; credentials and policy, results and archive against the wire |
| `WireFormats` | texts as a request carries them, and reading them back (`request-contract.ts`) | operators |
| `RequestContract` | `validateOpenApiRequest` | operators |
| `ApiContracts` | a request from the client's values to the findings about it, on each surface | state machine and properties |
| `CaptureBridge` | traffic from the wire to a verdict: `har-capture.ts`, `har-produce.ts`, the commands and tools over them | state machine and properties |
| `ContractChecks` | | composition of the two |
| `ContractChecksProofs` | | inductive invariants of the walk over traffic and of a request on its way; the verdicts on either against what conforms |
| `Absence` | what is null or undefined | one constant |
| `Sorting` | a finite set in a given order, as `sort` and `ORDER BY` leave it | operators |
| `ToolScope` | `pyscope`, `mutate/src/scope.ts`, `config.ts`: what a tool is asked to look at | operators |
| `MutationReports`, `MutationRuns` | the reports of three tools and their summaries; the drivers, commands and tools | operators; state machine |
| `DiffCoverage`, `CoverageRuns` | which added lines no test ran; the drivers, commands and tools | operators; state machine |
| `FlakeHistory`, `FlakeRuns` | history, classification, quarantine; the runner, commands and tools | operators; state machine |
| `Advisories`, `ChangedDependencies`, `DependencyAudit` | the audit of a version; the classifiers of a diff; the loops over packages | operators; state machine |
| `ArtifactStore` | `artifacts/src/store.ts`: processes that share a directory | state machine and properties |
| `ProjectPillars` | | composition of the four pillars that look at the project, and the store that keeps what they found |
| `ProjectPillarsProofs` | | inductive invariants; the store and its sweep, coverage's exit code, the dependencies a diff touches and their audits, the mutation runs, the flake history |

Each state machine that is run on its own, and each of the two compositions, has a module `MC...` with
the instances TLC checks.

### LspManager

A server process `p` carries what the code keeps in a `ServerEntry` (`key`, `age` for `lastUsedAt`,
`inFlight`), its `phase` in the manager's handling of it and its `health` as an operating-system
process. `servers` and `initing` are the two maps. `queue[p][u]` is the promise chain of document
`u`: its head is the call whose predecessors have all settled. A caller's `pc` follows `run` and
`runWithUris`: `awaiting` the initialization, `acquired` (about to join the first chain), `waiting`
in one, `running` the callback.

`CallExisting`, `CallGrow`, `CallJoin` and `CallSpawn` are the four ways through `acquire`; the
test of the allowlist, of the exact key, of the uniquely largest growable candidate, of a shared
initialization and of the cap come in the order of the code. `TakeLock` and `Enter` acquire the
documents in sorted order; the counter is raised in `Enter`, when the last lock is held, exactly as
the code does. `Finish` is the `finally`. `InitOk` and `InitFail` settle an initialization for every
caller that shares it. `SweepIdle` and `Shutdown` take entries out of the map before the first
`await`; `ShutdownReply` and `Dispose` are the two halves of `gracefulStop`.

The program has one thread. A promise continuation runs before the next timer or request does:
`Quiescent` guards every action that starts from a timer, a request or a server's message, and the
continuations (`EnterChain`, `TakeLock`, `Enter`) have no such guard. `jsonrpc` is external: a
request that is pending when the process hangs or exits may settle with an error or stay pending for
ever. A request refused at the cap or off the allowlist changes nothing and is no step.
Whether a server accepts changes of its workspace folders is its own capability: the constant
`GrowLanguage`.

### LspDocuments and LspSession

A document is what `LspClient` keeps of it (`open` with its version, the last report, whether one is
awaited) and the server's buffer. A notification changes both in one step: notifications precede the
requests sent after them.

A query's `pc` is where it stands: `settle` (in `awaitIndexingSettled`), `await` (asked, no answer yet),
`items` and `asked` (the second round trip of a call hierarchy), `publish` (waiting for a pushed report),
`backoff` (asleep in `withRetry`). `wire` holds what the server sent and the client
has not read; `Receive` handles one message and runs whatever continuation it resolves, up to the next
`await`. The server loads projects in the order the protocol gives (token, begin, end); an answer
before the end of a load comes from an inferred project and may lack parts. `ApplyRename` and
`ReplaceFile` are edits by other calls between two requests, under the document's lock, which a query
holds (`Unlocked`).

### LspRename

`Compute` is the locked first phase: the server's operations and what the checks make of them
(`Assess`). `Drift` is anybody else's write until the second phase. `Apply` is the rest, which runs in
one turn of the event loop: the replay of the operations over a *fate* per file (`Replay`), the guards
(`WhyNot`), the plan of writes, renames and removals (`Plan`), its execution up to the step that fails
(`Committed`, `Disks`), the roll-back or what landed (`Landed`), the server's buffers (`Resync`) and the audit
record. A text is its origin, what the edit's site reads, the edits applied and whether another wrote
it: enough to tell whose text is where. `InOrder` executes the operations one by one on a disk, which
is what the protocol means by `documentChanges`, and is the reference for the replay. The loops over
operations and documents are recursive functions of how far they got (`Replays`, `Disks`, `ResyncedLive`,
`Meanings`), which is how the proofs speak of a step of theirs. `Straight` batches take no file away from a
path that an earlier operation of the batch renamed, revived or overwrote.

### BrowserSessions

`stage` follows `browser_open_session` through the shared launch, `newContext`, the installation of the
routes, after which the manager stores the session, and the setup of the page and recorder; an error at any
of these leaves behind whatever had been made or stored by then, as in the code. `sessions`
is the manager's map and `registry` the server's. `teardown` holds the `closeSession` calls under way,
with who called and whether they are still in the `onReap` callback. `tail` is the promise chain of
calls on a session. `har` is what is on disk: raw once the context has closed, final once the
`onClosed` callback found the session in the registry. Each of the three steps of a closing may throw, and
ends it there: the flush (`FlushEnds`, `CloserFlushes`), `context.close()` and `finalizeHar` (the outcomes of
`ContextCloses`). `Shutdown`, `DownContext`, `DownClosed` and `DownBrowser` are the stages of `shutdown`, which
one context that cannot be closed, or one archive that cannot be finalized (`DownCutShort`), cuts short.
`Hang` lets the page of a session in `MayHang` stop answering at any time: what is asked of it may still end, but need not.

Capturing is on for every session; `maxSessionMs` (a second clock with the same effect) and
`videoDir` are unset. `browser.close` closes the contexts it finds without an archive of their own.
In the code a flush that throws in a sweep rejects a promise nobody awaits, and with Node's default
settings that ends the process; the model abandons that one closing and goes on, so that the states
after it are still examined.

### Verify and Posture

A pillar's native result is a set of *marks*: which kinds of facts are in it (`"error"`,
`"uncovered"`, `"survivor"`, ...). The adapters ask for nothing else, so their branches, and the
order of the branches, are those of the code. `Init` is the request as `verify_change` builds it;
`Return` and `Reject` settle a pillar, `VisitPackage` is one turn of the audit loop with its
`try`/`catch`, `DepsReturns` hands on what the deps runner returns (the audits, not the errors), and
`Fold` is the end of `Promise.all` with `composeVerdict`. The headline and the counts of a verdict
are left out. A request with a wrong number of contract targets is refused before anything runs.

`Posture` says what all this is for in three lines: there is an outcome so far, results only worsen
it, and the answer is the outcome when everything has been heard. `Verify` implements it with
`posture <- Status(SoFar, policy)`, where a pillar that still runs counts as a pass.

### ApiRunner

`pc` follows one request through `runRequestImpl`: `next` (between requests), `vetting` (prepared and
gated, its address being looked up), `sent`, `answered`, `following` (a hop was recorded and the
address of the next is being looked up), `final` (the loop broke off after the body was read).
`current` is the request as of its hop, `local` its scope, `scope` and `captured` those of the
sequence, `hops` and `truncated` the capture. Methods, the statuses of redirects and the transitions
between methods are those of the code. A URL is its host, which a variable may name; a credential is
an `Authorization` or `Cookie` header; a body is none, text or binary, which is what the archive
distinguishes. A lookup finds an address of some class, another one each time if need be, and each hop makes
two: one to vet the name (`vetted`), whose result the code throws away, and one to connect (`reached`). `wire` is a
history of what left. `DryRunNext` and `RefuseNext` report `sent: false` although hops of the request
have left by then: see the hazard at `runner.ts:402`.

Secret values, their redaction and the facts for contract validation are left out: a missing secret
is `PrepareFails`. `runSequence` is the same loop without a capture and a driver, and
`runRequestToHar`, which `verify_change` uses, is a sequence of one name.

### WireFormats, RequestContract, ApiContracts

A text is a sequence of lexemes (`Lexemes` has all that the validator tells apart), so that a delimiter
inside a value is a delimiter: `Join` and `Split` do what the serialization styles do. `ApiContracts` lets a client write any values in the declared
style or another, and lets a surface see the request: the runner as sent, a browser's archive
(`Captured`, which may have lost a body or the fields of a form) or an archive synthesized from a run
(`Synthesized`). `Judge` is `validateOpenApiRequest` on what that surface holds. The reference is
`Conforms`: what the client meant conforms to the operation and is written as it declares. Where a
text admits two readings (`Unambiguous`) nothing is claimed; nor is silence said to be verified where an
object list says a name twice (`NamedOnce`), of which the code checks the last (`PairHolds`).
`MessageAssumption` says what may be drawn from: texts are of these lexemes, schemas are of the five
scalar types, and `Lists`, what a client may have meant, has whatever can be read back from what it wrote.

### CaptureBridge and ContractChecks

An exchange says what was really exchanged; `archive` has what `Record`, an entry at a time, or
`Produce`, at once, keeps of it. `Walk` is the loop of `validateCapturedTraffic` over an archive,
`CheckRest` and `CheckGraphql` its two branches, `Conclude` the result, and the `Cmd...` and `...Tool`
actions what the commands and tools make of it. JSON Schema is reduced to whether a body is good, and
a GraphQL document to whether it is fine, has several operations, has drifted from the schema or does
not parse. `ContractChecks` runs either machine.

### MutationRuns, CoverageRuns, FlakeRuns

A call's `at` is the next process it starts or report it reads. In `MutationRuns` the calls share
`disk`: Stryker's report and incremental file, mutmut's cache and the scoped configuration of cosmic-ray. A
tool may die at any step, leaving what it had written; a Stryker that ends well may leave no report; and with
`--incremental` it takes any of the results an earlier run left, its file's or not, and tries the rest.
`found`, `reused` and `wrote` are ghosts: the mutants a call's own processes tried, the results its Stryker
reused, and whether it left a report.
`CoverageRuns` is one call, which writes to a directory of its own. In `FlakeRuns` the calls share the
database, one transaction for each report or entry, and a clock; a time is an instant and the offset
it was written with, because one query compares texts and another instants. `executed` is a ghost: what
the tests whose reports were recorded did. The gate of the command line (a flag) and of the server (a
list of roots) are those of the code.

### Advisories, ChangedDependencies, DependencyAudit

A diff has two sides, the old file and the new, and a removed line is of the one, an added line of the other, a
line of context of both. `real` is where the side that moved last stands in its file and what the lines change, and
its `away` where the other side is when that is elsewhere (after a closing brace was removed, or a header was
added); a classifier sees the lines of the hunks only, in one sequence, and carries its block, array or section from
one to the next. `Steps` are the lines a file of each kind may have at a place, with the place after it and the
names it declares; `OnOne` and `OnBoth` move the sides. A version is a release of three numbers,
stable or not, and the form it is written in. A version's place in the order is a number
(`Number`, of `NumberBase`, a bound on its second and third numbers as semver has one). `AuditOne` is one package: detection, fetch, advisories;
`Ended` and the actions after it are what the five surfaces say at the end. `real.doubt` collects the
constructs by which the code takes a line for one of another part of the file (see the divergences): `"sides"` when
a line of the side that is away is read by what the classifier knows of the other, `"inline"`, `"section"` and
`"metadata"`. The reference for a range
is `InWindow`, which looks for the last event at or before the version instead of scanning with a flag.

### ArtifactStore

A process in `stores` does one operation at a time; the program is one thread, and the calls of the file
system it makes are the steps (`at`), between which another process may take its own. `put` is `Put`
(the directory), `OpenFile`, `WriteFile`, `OpenSidecar` and `WriteSidecar`, which also remembers the
handle and begins the sweep that is due; the sweep is `ListRuns`, `StatRun` for each run, `Decide`, and
`RemoveFiles` and `RemoveRun` for each victim. `attached` says that the file a process is writing is
still the one in the directory. A directory's time changes when an entry is new or removed, and not when
a file is written anew. `StoreDies` loses what a process remembers and leaves the disk as it is.
`issued` and `meddled` are ghosts: what a `put` has returned the handle of, untouched since, and what
other processes have touched. Segments of a handle, the confinement of a path and handles of another
prefix, which are read as `GetFromDisk` reads, are left out; so is a run whose files disappear between
the listing of its directory and the look at one, which the code skips as one that went away.

## Runs

| Run | Instance | Shows |
|---|---|---|
| `lsp_manager_safety` | 2 callers, 2 processes, 2 allowed roots and 1 that is not, 2 documents | mutual exclusion, the maps, the counter, and that the reaper spares a server in use, through every interleaving of calls, growth, reaping, shutdown, hangs and exits |
| `lsp_manager_liveness` | 3 callers, 1 process, 1 root, 2 documents, `FairSpec` | a waiting call completes unless its server stops answering; an unused server is reaped |
| `lsp_session` | 2 calls on 1 document, 2 loads, deadline 2, 1 edit, with fairness | an answer given as whole before the deadline is whole; clean means reported since the document was opened; every call returns unless the server hangs |
| `lsp_rename` | 3 files and 1 outside the workspace, up to 3 operations, symmetric files | straight batches leave the server's buffers with what landed, after success and failure, and land as if executed in order if no edit of theirs awaits confirmation; of every batch the audit names what landed, and nobody else's text is lost |
| `lsp_rename_order` (violation) | the same | the replay is not the execution in order when a path is vacated, revived or overwritten first |
| `contract_checks` | every parameter style, type and explosion with 1 or 2 values, an object list of two pairs with one name; forms of two fields; 1 or 2 exchanges against REST, GraphQL or both | a conforming request is not faulted, but for a form in a synthesized archive where JSON is declared too; silence is verified silence; success means conforming traffic; a fault is real or that of a mistaken protocol |
| `project_pillars` | 2 concurrent mutation calls, 1 coverage call, 2 concurrent flake calls over 3 instants, diffs of up to 6 lines, 2 packages; 2 processes with 3 puts, or 2 and a death, and 1 process with 3 puts of 3 runs under 18 policies | what was asked for was mutated, survivors are the run's, a passing diff was hit, verdicts are of what ran, audits are the advisories', quiet is unaffected, changes are real; a get says what is so, a sweep takes the oldest |
| `browser_sessions` | 2 sessions, 2 calls, cap 1, reaper and shutdown | one closer, one flush; registry and map agree but for closings that went wrong |
| `browser_sessions_liveness` | 1 session, 2 calls, `FairSpec` | queued calls complete unless one before them hangs; idle contexts are released, also after an open that failed halfway |
| `verify` | 3 requests, 3 cuts, a result for each branch of each adapter, 2 packages | findings surface, a pass is earned, refinement of `Posture` |
| `verify_absence` (violation) | the same | packages whose audit failed leave no trace, and the rest passes |
| `api_runner` | 6 runs of 1 to 3 names, 3 policies, 2 hosts, up to 2 redirects, 5 statuses | a credential stays at its host, each hop is within the policy by what was vetted, results and archive agree with what left |

**Why these bounds.** In `LspManager` the races are between two calls, or a call and a timer; a third
caller adds a waiter behind a waiter and is there for liveness. Two documents make the opposite lock
orders possible. Two processes let one run while another starts or stops, and with two roots a group
can be grown, be grown past, or have two incomparable candidates. `IdleTtl = 1` makes a clock either
fresh or due, which is all the sweep asks. In `LspSession` two loads give one that is under way when a
query starts and one that the query causes; the second call meets what the first left open. In
`LspRename` three operations are the shortest batch in which a path is vacated, taken again and
renamed on, and three files let a fourth operand not matter; `MaxWeight` bounds how many of a batch's
operations are peculiar (outside the workspace, onto themselves, with options). In `BrowserSessions`
two sessions put a cap of one at its limit and let `shutdown` meet a session that is opening; two calls
queue one behind the other. What hangs is read by no guard and no invariant, so only the liveness run lets a
session hang (`MayHang`). In `Verify` two packages make one fail beside one that does not; a third
adds no combination of marks that the adapter distinguishes and two do not reach. In `ApiRunner` a
chain of two redirects can leave a host and then stay or come back, which is where a credential could
reappear; two requests thread a variable, a third name is one the collection lacks. Each of the six
runs pairs names and options that bring something about: a dry run first or at a later hop, a blocked
address, a host taken from a capture, a capture without a value. In `ApiContracts` one value or two
tell a list from its single element; the check of one parameter or body does not look at another. In
`CaptureBridge` the tally of an archive combines entries by "or" and by counting, which two entries
show. In `MutationRuns` the races are between two calls over one project. In `FlakeRuns` two repetitions
and a call between them, and a clock of three instants, let a quarantine be active, extended and over.
In `DependencyAudit` seven lines open a block, close it and enter another with changed lines in each
and a hunk that starts in the middle; the two packages are the one a question is about and another;
a range has up to three events. In `ArtifactStore` three runs, two sizes and three instants make every cap
bite alone and after another; two processes with three puts let one write, evict or rewrite what the other
is putting, reading or sweeping.

`contract_checks` and `project_pillars` draw their inputs from sets of *suites*, each of which varies
some components of the input and fixes the others: a product of all of them would repeat the same
comparisons.

**Symmetry.** Callers and roots, sessions and calls, and the files other than the queried one are
symmetric: no action or property names one, and symmetry is used in safety runs only.

**Deadlock** is checked in `contract_checks` and `project_pillars`, where a behaviour ends in `Finished`
once all calls are over and nowhere else. The other models may come to rest in the middle of nothing
(no more process to spawn, every session id used, the verdict given), and it is not checked there.

**Fairness.** *LspManager*: a continuation whose promise has resolved runs; a request, the
shutdown request too, settles on a server that is well (an error counts), and the grace timer fires. No
request has a deadline of its own, so on a server that hangs or exits nothing is promised to a call, nor to
the calls behind it, and `WaitersAreServed` excuses them. Strong fairness of the sweep and of the clock, because the queue of
continuations keeps disabling them for a moment and the event loop does not starve timers. Nothing
obliges a server to answer `initialize`, and nothing obliges a caller to call. *LspSession*: messages
are received, continuations and timers run, and a server that has not hung answers what it is asked and
begins the loads it announced once its own requests are answered; nothing obliges it to end a load, and the
deadline must do without. It may hang at any time (`Hang`), and then nothing is promised: the deadline
bounds the waits between the requests and none of the requests. *BrowserSessions*: continuations and timers
run, and the steps, flushes and closes of a session that has not hung end, well or not. Several of
Playwright's operations have no timeout (`saveAs`, the keyboard and the mouse at `driver.ts:234`, `:465`, `:508`,
`tracing.stop`, `context.close`), so nothing is promised of a session that hangs, nor of the calls queued
behind the one that does. Nothing obliges `open_session` to be called or to get
on, nor `browser.close()` to end. The other models are checked for safety only.

## Proofs

**LspManagerProofs**, from `ConstantsAssumption` alone (at least one language, document, process and
tick; the allowlist is a set of roots; finitely many callers). `IInv` is `TypeOK`, `ServerInv`,
`LockInv` and `InFlightExact`. Mutual exclusion is not inductive: it needs that a locked document's
chain is headed by its holder (`HolderInv`), that every place in a chain belongs to a caller that
holds or awaits the document on that server (`ChainInv`), and that nobody stands in a chain twice
(`OnceInv`). The maps need that an initialization is registered under its own key (`InitingInv`) and
that a caller's place agrees with the phase of its server (`CallerInv`). There is one lemma per
action, and frame lemmas for the steps that move no caller.

`ReaperSafe` is the theorem the code's comments worry about: the counter does not see a call that
waits for a lock, and yet the reaper never stops a server some call uses. Of the waiting calls of a
server take the one that waits for the last document in the order (`OrderInv`: it waits for a
document past all those it holds). The head of that chain holds the document; were it waiting, it
would wait for a later one. So it runs, it is counted, and the server is not idle.

**LspSessionProofs**, from `SessionAssumption` alone (the bounds are natural numbers, and no text is
`None`): any calls, loads and edits. What an answer is worth depends on what the server was doing when it
gave it and what the client knows when it hears it, with other messages in between. `WireInv` bridges
them: a load the server is in will be known to the client once it has heard everything (`Announced`), and
ahead of an answer of an unloaded project stands the begin of a load and not its end (`Foreseen`), so the
client is indexing when it comes to the answer. That needs each token to be asked for once, and an end on
the wire to mean the load is over. `AskedInv`: a call that awaits an answer is with the server or has
exactly one on the wire; without it an answer could reach a call that has moved on. `DocInv` (an open
document that awaits no report has one) and `LockInv` (the document of a call under way stays open) carry
a report from the time it comes to the time it is read; `SoundInv` is what
`DefiniteAnswersAreWhole` says of each call. `LifeInv` follows the documents: both ends hold the same text, and
what the client has or will hear of a document is of its present life and, if it has not been edited in it, of
its text, unless a report was on the wire when that life began. `CleanMeansReported` follows for the step that
reads.

**BrowserSessionsProofs**, from `ConstantsAssumption` alone: any sessions, calls and cap. `IInv` adds to
`TypeOK` what the code keeps by the order of its statements. `OpenInv`: nothing knows of a session before
its routes are in place, and from `sessions.set` on somebody will close it, be it whoever finds it in the map,
`shutdown` with the sessions it took, or a closer under way, or else has tried and failed, which shows in its
recorder, its context or its archive; what is final is registered no more. `CloseInv`: these three exclude each other,
because each takes a session out of the map before its first `await`; a call that closes a session is the
one the chain runs. `QueueInv`: a call that works heads the chain of its session, so two never do.
`FlushInv`: a recorder is being stopped exactly when somebody stops it, and by one, which needs the other
three: the reaper passes over a recorder that is stopping, and a call that stops one is alone on its chain.
`ClosedByOne`, `FlushedOnce` and `RegistryIsAccountedFor` are read off.

**VerifyProofs**, from `VerifyAssumption` alone: the requests, cuts and results are arbitrary sets of
the right type. `IInv` says that pillars see facts of their own kind, and a rejected one nothing else
than its rejection (`SeenInv`), that vulnerabilities are seen with a snapshot only (`SnapshotInv`),
that a settled pillar contributes what its adapter makes of them (`ContributionInv`) and that the verdict is the
fold (`VerdictInv`). `PassEarned`, `FindingsShown`, `CutEscalates` and `CulpritNamed` follow from it
and from lemmas about the adapters and the fold. `PostureRefined` is the refinement: replacing a pending pass by any
result never lowers the status (`StatusWorsens`).

**ApiRunnerProofs**, from `ApiRunnerAssumption` alone: any collection, any runs, any network.
`CredentialsStayHome` speaks of pairs of exchanges and is not inductive: `WireInv` adds that a request
that still has its credential has been at one host only, and that nothing has left for a request
that is being prepared or vetted, so that the next exchange can be compared with those before it.
`RequestInv` keeps the decision of the gate from `Prepare` to `SendFirst`, with an await in between.
`SendingKeepsWire` does the work for the first hop and for later ones alike.

Its second part strengthens that invariant by how far the records are behind the wire. `RoundInv`:
the exchanges of the request under way are the last `Len(redirects) + 1` of the wire and the very last is
the current hop, so that a new result finds its exchanges in one piece and an old one's are no longer
touched (`EarlierResults`). `ArchiveInv`: until a request is withheld or a chain cut short, `hops` lacks
the exchange that is under way and nothing else. The hop that the code records twice, after a `Location`
it could not parse, is no exception: that request counts as cut short, and the driver stores no such
archive. `ResultsMatchTheWire` and `ArchiveIsTheTraffic` follow.

**ContractChecksProofs**, from `TrafficAssumption` (traffic is a non-empty sequence of exchanges, each of a
REST service or of a GraphQL endpoint; the path of an endpoint is no operation of the description; `None`
is none of the values it stands beside): any description, any responses and bodies, any number of
exchanges. The reference is what conforms, stated by the documents alone (`ResponseConforms`,
`RequestConforms`, `GraphqlConforms`), so a lemma for each half of a check comes first: what it faults
breaches the contract, and what it passes with nothing unverified keeps it, unless it is one of the things
the surface does not look at (`ResponseHalf`, `BodyHalf`, `DocumentHalf`, `GraphqlHalves`). Neither property
is inductive along the walk over an archive, where the verdict is given only at the end: `TrafficInv` adds
that the archive has the exchanges in their order (`Archived`) and that, while nothing is unresolved, without
signal or faulted, every exchange walked so far keeps the contract (`Passed`). `WalkKeeps` says what an entry
has to contribute to a tally for that to stay true, and each branch of the loop is shown to contribute no
more; `DirectKeeps` does the same for the surfaces that hold one exchange. The proof found several
definitions of the model whose `CASE` had overlapping guards, which say less than TLC makes of them; they
are `IF`s in the order of the code now.

**ContractChecksProofs**, a single request, from `MessageAssumption`: any operation of one parameter and one body, any of the styles in
any place, any list of scalar types, texts and lists of any length, whatever an archive has of a body. Both
properties say that reading a serialization back gives what was written or is `unverified`, and that rests
on `Split` and `Join`, which are functions from one length to the next. `Recursion` and `Throughout` are
induction on that length, from the least counterexample; so `JoinOfSplit` (what is split and joined is the text) and
`SplitOfJoin` (texts without the mark are what their join is split into) hold of any text. On them rest, for each
place and style, `ReadBack` and `WrittenBack` for arrays; `NoMark` says why the code's test is enough: a text of a
type that `itemTypesSplittable` lets pass has no delimiter in it (`Splittable`; a number has a point, hence the
label style). `FitsIsChecked` and `CheckedFits` compare `coerceScalar`, which takes the first type that reads a text,
with a value of any of the types. From there a lemma for each kind of parameter and for a body: what conforms is not
faulted (`ArrayNotFaulted`, `ObjectNotFaulted`, `ParamNotFaulted`, `BodyNotFaulted`), and what is silent conforms
(`ArraySilence`, `ObjectSilence`, `ParamSilence`, `BodySilence`). `MessageInv` is plain: a surface holds what
it can see of the message. The proof needed two things said that the model had passed over: that a union of types
which also restricts a value is as ambiguous in a form as in a parameter (`Unambiguous`), and that an object
list may name a property twice, which is silent whatever the first value is (`NamedOnce`; TLC finds it with
the list `k,11,k,1`).

**LspRenameProofs**, from `FilesAssumption` alone (the queried document is one of the files, and the model's
own words for no text and for a place outside are none of them): any number of files, batches of any
length, any gates, drift and point of failure. The apply phase is one step, so `RenameInv` is short: either
nothing was written, or the disk is that of a prefix of the plan made from the replay of the operations,
the documents are what the resynchronization makes of them, and the result says how far the commit got
(`AppliedTo`). The weight is in what three nested loops do. Induction over an operator is out of the provers'
reach; each loop is a recursive function on an interval, and the set of the positions where its invariant holds is
shown, with a least counterexample, to be the whole interval (`UpTo`).

`ReplayInv` is what every operation keeps of the replay: the order lists the files with a fate, once
(`Ordered`); a live file ends at a path whose alias it is (`Homed`), so no two end at the same; what left a
path left it free, or another's (`Freed`, `Contained`); what is live and was not created had a text on the disk
(`Founded`). From it, and from the collision guard, follows what the plan holds: exactly the writes, moves and
removals the fates need, once each, moves before the write that follows them and removals last (`Planned`).
`Standing` then says what a path holds after so many operations of the plan: the move or the write onto it if
that is among them, what was there before if not, and nothing if it was taken away. `AuditNamesWhatLanded` and
`NothingIsClobbered` are read off for every batch.

`StraightAppliedInOrder` asks for a simulation besides: after each operation, the disk that executing the batch in order
has reached is the one the fates so far would project (`Simulates`), as long as no operation takes away what an
earlier one renamed, revived or overwrote (`Tracks`, `Clear`). That is exactly where the single fate per origin loses what
happened before, and the hypothesis is used in the cases of delete and rename only; that no edit awaits confirmation is used in the
case of an edit. `BuffersFollowTheDisk`
follows the resynchronization, file by file in the order of the replay, and shows that a path's buffer is as it was
until its file's turn and in line with the disk from then on (`SyncedTo`, `EvictedTo`): a buffer is changed by the file whose text now lies at its path, or
closed by the one that left.

This proof found a property false as it was stated. `BuffersFollowTheDisk` spoke of every batch, which holds of
three operations and not of four: *delete A, create A, delete A, rename C to A* leaves A among the
created, whose deletion is not resynchronized (`rename.ts:1011`), and no write or move of its own
follows, so A's buffer keeps the old text; and *delete A, create A, rename A onto B* of an open B, where A is
queried, opens B a second time (`rename.ts:989`, which does not close it first as `:1001` does). Random
simulation of the model with batches of four and five confirmed both and found nothing else once the property was
restricted to straight batches, of which it is now proved.

The next six parts are of one module and speak of `ProjectPillars`, the specification the runs check, so each invariant
also says that a pillar which is not the one of a behaviour stays at rest.

**ProjectPillarsProofs**, the artifact store, from `StoreAssumption` (sizes, times and bounds are numbers, a suite has
finitely many artifacts, `None` is none of the values it stands beside). `AnswersAreHonest` excuses a get
that another process interferes with, so the invariant has to say of the disk what one process may rely
on. `StoreInv` does so for each process and artifact: what the process remembers of a file is the file,
up to what others have touched (`meddled`) and up to the put, the read or the eviction the process is
itself in the middle of; and what is issued is on the disk with its sidecar and its own hash. Each step is
taken for the process that makes it, and for the others it is enough that they see it as meddling.
`SweepsTakeTheOldest` rests on `SweepInv`: what a sweep has seen of the runs is a table of numbers that
no other process changes, and from the decision on, its victims are `Evictions` of that table. That those
are the oldest, few enough and not too many is a fact about `Evictions` alone: the survivors of the age are
ordered by time, the size of a prefix of the order grows with it (from lemmas about sums over finite
sets), and the cut is the least number that fits. Where that asks for an induction, a least counterexample
of a finite set is taken instead.

**ProjectPillarsProofs**, mutation runs, from `MutationAssumption` (a mutant has one of four fates, there are finitely many,
a line of a diff is a file and a number). Calls share the project, Stryker's report, mutmut's cache and
cosmic-ray's configuration, so `MutationInv` says of each call what no other call can spoil. `StageInv`
keeps what was selected; `LeftInv` says what the tool has left when it is over: a report Stryker wrote is that
of the mutants found and the results reused as long as no other call touched it (`Alone`), and otherwise still
names files with mutants only; a session of mutmut or cosmic-ray is what the tool says of the mutants found, or is empty, or is of
mutants not tried. That the last two end in no answer is a fact about sums over the report
(`NothingIsIncomplete`, `PendingIsIncomplete`); that a cosmic-ray run under another call's configuration
does is that of the reconciliation. A lemma per tool (`StrykerAnswers`, `MutmutAnswers`, `CosmicAnswers`)
then gives both properties at the end of a run. The proof changed the model twice. `Distinct` compared
modules, which two files can share (`pkg/calc.py`, `pkg/calc/__init__.py`), and compares files now; and
every project of the run had suffix twins, so that mutmut's clause of `RequestedWasMutated` was never tried.

**ProjectPillarsProofs**, coverage, from `CoverageAssumption` (a line of a diff is a file and a number;
coverage.py lists a line as executed or missing and not both; Istanbul's counts are numbers).
`CoverageInv` says what the report of the tests is (`MeasuredInv`) and what is known of the answer at each
step of a command (`ToldInv`): a report it could not read, or tests it could not tell the result of, never
end with an answer and exit code 0. `OkMeansHit` then is about the analysis: a file of the diff is looked up
under its own key (`OwnKeyIsMatched`), and a line with no hit is among the uncovered (`UnhitIsUncovered`).

**ProjectPillarsProofs**, dependencies of a diff, from what `AuditAssumption` says of them (only a project has
a diff, and `None` is none of the names). `AuditInv` relates three things a diff moves at once. `Follows` sets what a classifier
remembers against the place of the side that moved last, one clause for each kind of file, until a line of the
other side is read by it: for package.json an
open block when the diff showed it opened; for pyproject.toml the section as far as the hunk showed its
header, and for an array whether it is one of requirements; for a lockfile that a block is touched when
the classifier says so and bears the name the classifier holds. `FoundInv` sets the names found, with the one a
lockfile's block would still flush, against the names that are changed. `LineReads` says what a line must
make of both, and is proved for each kind of file (`NpmLine`, `PyprojectLine`, `LockLine`, `RowLine`) and a
line from where the last one was; a line of the side that is away brings the classifier back in step (`ResumingLine`:
a header, or the line that closes the part for the second side) or puts the diff in doubt, and then only the
shape of a classifier is kept (`OutOfStep`).
`ChangesAreInScope` and `NothingIsInvented` are read off. The proof showed that an inline block of
dependencies does not put a change out of the scope, so the first of them no longer excludes it.

**ProjectPillarsProofs**, audits, from the rest of `AuditAssumption` (a version is three numbers, a release or not; an event of
a range introduces, fixes or is the last affected, and names a version its ecosystem can read or the
beginning; severities are the five words; a registry and a project say versions) and `BaseAssumption`: any number of
advisories, ranges, events and versions, the events in any order. What OSV's scan over sorted events finds
is compared with `InWindow`, which sorts nothing. `Sorted` is a choice by rank, so what it contains, and in which
order, follows from the cardinality of initial segments (`SortedPlaces`), without an induction. `ScanStands` says
what the flag is after so many events, again by a least counterexample: up when one of them raised it and
none since took it down. As the events are taken in the order of `Key` (`EventsInTurn`), that is what the last event at or before the
version says (`ScanMeetsWindow`), and a fix at the version of an introduction comes after it. `MatchesAreAgainst` carries it to an advisory,
`LowestIsSafe` to the upgrade, which is the least of those that no advisory affects; `WorstIsKnown` says that
a match always has a severity an answer shows, without which a quiet answer would mean nothing. `DepsInv`
keeps what each audit was made of until the answer is given. A version or an event that cannot be read is outside
these theorems: the first is excluded by the properties themselves, as the code calls it clean, the second by
the assumption. `NewerIsPrecedence` shows that `Number` is the precedence of semver and no mere
encoding.

**ProjectPillarsProofs**, flake history, from `FlakeAssumption` (a time is an instant and an offset, both integers; a
report is a sequence of tests with their statuses; only pytest's have errors; the clock ends somewhere):
any number of calls, tests and reports, in any order of their transactions. `RowsTell` is the invariant: for each test
the database has a run that passed exactly when some report said so, and one that failed exactly
when some report said failed or error. That a report adds just what it says is a recursion over the report
(`RecordedRunsSay`, with a least counterexample); that a history has the rows of one test, sorted by their time and all of
them, is `HistorySays`. `FlakeInv` adds that a call whose tests are running is a `run`, so that what it records bears a time
of the clock. `VerdictsMatchExecutions` follows from it for every test a command speaks of.

Theorems about definitions no run checks any more (`ServersStayConfined` and `TrackedServersAreReady` of
`LspManager`, the type
invariants of `Verify` and `ApiRunner`, `PolicyOnlyEscalates` and `CulpritIsNamed` of `Verify`) hold
for every value of the constants and need no run.

**Only model-checked**: liveness (`CallsReturn`, `WaitersAreServed`, `IdleServersAreReaped`, `CallsComplete`,
`IdleContextsAreReleased`), which needs `ENABLED`; and what a run reports as violated. Every invariant and
every action property of the passing runs is a theorem.

## Findings

Two statements of the repository's own comments are violated by what the code does and have a run
whose counterexample shows it, with the quotation in `PROJECT.json`:

* `AppliedInOrder` (`lsp_rename_order`): the replay over fates is not the execution of
  `documentChanges` in order when an operation names a path again that an earlier one of the batch
  vacated, revived or overwrote (`lsp/src/rename.ts:731`).
* `AbsenceIsNeverAPass` (`verify_absence`): audits that failed are dropped before the adapter sees the
  result (`mcp/src/bin-verify.ts:258`).

### Divergences without a run

Met while modelling. The models do what the code does, and the properties are stated so that they
hold of it; where one says less than a reader might expect, the reason is in this list.

Servers and sessions:

* `maxServers` does not count initializations under way (`lsp/src/manager.ts:295` against `:51`); the
  browser's cap is likewise tested before an `await` (`browser/src/manager.ts:146`).
* A server that initializes during `shutdown` survives it (`manager.ts:462` against `:457`), and one
  that ends initialization after another grew to its key takes its place in the map (`:328`).
* The request that asks a hung server to stop has no deadline, so it is never disposed of (`:433`
  against `:435`); neither has any query (`client.ts:683`, `:800`, `:859`), so a call to a hung server keeps its
  documents for ever and the calls behind it wait for ever.
* `withRetry` returns a non-empty answer as `ok` at the deadline while the project still loads
  (`client.ts:813`), and the awaits of a request itself have no timeout although the calls run
  "inside one operator deadline".
* Pushed diagnostics of an open document are those of the text before a rename until the server
  publishes again, and are returned as `ok` (`client.ts:652`, "the cached diagnostics are
  authoritative"); a report sent before a document was closed ends the wait of the document opened anew
  ("the file's first post-open publish"). `CleanMeansReported` names both as exceptions, and without
  either TLC finds it violated.
* `ensureOpen` ignores the text it is given of a document that is open; a rename onto an open document
  opens it a second time (`rename.ts:989`).
* The buffer of a document that one batch deletes, creates and deletes again, and then renames another
  onto, keeps its first text (`rename.ts:1011`).
* A call hierarchy's second round trip is not guarded by the wait for indexing; the ranges of outgoing
  calls are mapped with the text of the queried document.
* Edits that a server marks as needing confirmation are applied (`rename.ts:830`), which
  `normalize.ts:466` and `docs/decisions/0011-lsp-bridge.md:334` rule out ("excluded from apply"). `Meaning`
  leaves such an edit out as they say, `ReplayEdit` applies it as the code does, and `StraightAppliedInOrder`
  and `AppliedInOrder` are about the batches without one (`AsksNothing`). A queried file that the same batch renames is edited unchecked when it drifted.
* A call refused while `close_session` is closing loses the archive's finalization
  (`mcp/src/browser.ts:248` against `:211`), and the reaper may close the context that
  `close_session` is flushing (`:203` against `browser/src/manager.ts:215`).
* What a closing leaves when it throws, after the session is gone from the map (`manager.ts:238`): a flush
  that throws in a sweep (`recorder.ts:198-226`) leaves the context open and nobody to close it;
  a rejecting `context.close()` (`manager.ts:240`) skips `onClosed`, and so does every other session's in
  `shutdown` (`:284`), which then leaves the browser open too; a throw of `finalizeHar` (`har.ts:80`, `:85`) leaves
  the raw archive on disk, against "an unredacted HAR is never left on disk" (`mcp/src/browser.ts:211`), and the
  registry's entry. `Miscarried` names these. In a sweep the rejection is nobody's, and ends the process.
* An open whose safety routes cannot be installed leaves a context in no map (`manager.ts:181` against `:195`).
* A call whose browser operation has no timeout, and does not end, blocks its session's queue for ever
  (`mcp/src/browser.ts:260`), `close_session` included.
* A failed browser launch is remembered for ever (`browser/src/manager.ts:132`).

Requests and contracts:

* An address is vetted and looked up anew to connect (`api/src/runner.ts:335` and `:361`, `:397` and `:430`): a
  name whose address changes in between reaches one that is not permitted, the window that `safety.ts:23`
  accepts. `EveryHopWithinPolicy` speaks of the vetted address, and of the other where the name has one class.
* A request whose redirect is blocked is reported as not sent, although its first hop left
  (`api/src/runner.ts:402` against `model.ts:202`).
* A synthesized archive has no headers, so a body is judged without its content type
  (`har-synth.ts`), by the JSON schema if one is declared (`request-contract.ts:674`): a form that conforms to an
  operation which takes forms and JSON is found fault with there, against "never a false finding" (`:484`, `:703`).
  `FormTakenForJson` excludes it from `ConformingIsNotFaulted`.
* A conforming GraphQL call to the endpoint whose body an archive lost is found fault with, as one without a query
  (`har-capture.ts:516`, where a REST call's lost body is nothing, `:573`). `Mistaken` names it.
* A captured body of an operation whose body is optional or undeclared is dropped
  (`request-contract.ts:19`).
* An object written as a list that names a property twice is silently accepted for its last value, whatever
  the first one is (`request-contract.ts:589`).
* Repeated query keys are accepted where `explode` is false; a multipart file that is not declared is
  not checked, and a required file is missed when it is declared elsewhere; a union of integer and
  string reads as whichever comes first.
* `validate-request` and `run` on the command line and in the server exit with success when a check was
  `unverified`.
* Responses that are not JSON are filtered out of a captured archive; the first declared content is
  taken for JSON when none is.
* A GraphQL request without `variables` in an archive counts as clean, a REST body with a string
  `query` is judged as GraphQL, and a GraphQL `GET` is a hard finding.

The project's tools:

* A scoped pytest run none of whose sources has a test runs the whole suite when the gap is only
  reported (`coverage/src/run-python.ts`, `flake/src/runner.ts`).
* The reconciliation of mutmut's scope matches by suffix, so `calc.py` counts as mutated when only
  `pkg/calc.py` was (`mutate/src/scope.ts`).
* The report read after a Stryker run is whatever lies at its path (`mutate/src/run.ts:244`): a run that died
  is answered from an earlier run's with its exit code beside it, and one that ended with 0 without the `json`
  reporter, which only fails when no report is there (`mutate/src/run.test.ts:116`), is told an earlier
  run's survivors as its own. Both mutation properties are said of a Stryker that left a report (`Answered`).
* mutmut's cache answers for a run that died; two scoped
  cosmic-ray runs share one configuration (`:488`); a scoped mutmut run over a project that declares no
  paths does nothing.
* Active quarantines are compared as texts (`flake/src/quarantine.ts:168`), so an expiry with an offset
  may be listed after it has passed; quarantining again extends without a bound.
* Two vitest tests of one title are one history and make each other flaky; ingesting a report twice
  counts it twice; a report ingested without the project's root begins another history.
* A relative `--project-root`, as the documented `.` (`cli/README.md:233`), is allowed as it resolves
  (`coverage/src/run.ts:106`) but matched as it was typed (`:164`), so it names no absolute key: a file with a twin
  in another package is then ambiguous, counts as a file without coverage, and its unhit lines leave the exit code
  at zero. `OkMeansHit` is said of the paths the typed root decides (`Decided`).
* A diff whose added lines are all non-executable passes (`verdict/src/adapters.ts:149`); a file
  without coverage leaves the exit code at zero; matching by suffix may take the coverage of another
  package's file (`coverage/src/report.ts:63`).
* With a snapshot loaded, an audit of no packages is a clean one (`verdict/src/adapters.ts:214`), so `PassIsEarned`
  asks of the deps pillar that it found nothing adverse, which says nothing of how many packages it looked at.
* Without a `SACKVILLE_*_TIMEOUT_MS` a hung test command withholds the verdict
  (`mcp/src/bin-verify.ts:170`).

Artifacts:

* "A just-written run is evicted last" (`artifacts/src/store.ts:199`, `docs/decisions/0017-artifact-retention.md:39`)
  holds of new runs only: writing a file of a run again leaves its directory's time alone, and a run that
  is put again, as the audit of one project is, may be the first to go, in the sweep its own put makes.
* A handle's `get` throws when another process has evicted its run (`store.ts:281` against `:267`, "never a
  read of a deleted path"), and gives the hash and size of its own put for bytes that another process wrote.
* A sweep throws when another process puts a file into the run it removes; the `put` that began it then
  fails although its artifact is stored, and the handles of that run are kept. A `put` fails when its
  directory is evicted while it writes.
* A reader sees a file that is opened and not yet written, and a put whose process died in the middle, as
  an artifact like any other, at best with an inferred type.

Dependencies:

* A version that cannot be read, or a constraint in its place, is reported clean (`deps/src/osv.ts:147`).
* A unified diff is read as one sequence of lines. Where a hunk removes the closing brace of `dependencies` (or
  moves it, so that it appears as removed first), the block is closed for the added side too, and an entry added
  before the new brace is missed (`deps/src/changed.ts:86`); where the header of a block is replaced,
  `-  "dependencies": {` by `+  "engines": {`, the block stays open for the added side, and `engines` and `node` are named as
  changed dependencies (`:80-94`), against "never invents a dependency" (`:28`, `:317`). A dependency's name
  replaced within the lines of one lockfile block is counted under the removed name. `ChangesAreInScope` and
  `NothingIsInvented` are said of diffs whose sides go through the file together.
* A re-indented `"dependencies": {` is an entry of the block it opened itself, and invents `dependencies`; a
  requirement on the opening line of an array that spans several lines is missed; of a deleted manifest
  (`+++ /dev/null`) nothing is read (`:339`). A diff of the model has none of these.
* An inline `"dependencies": {}` opens a block; a
  change of `[metadata]` is attributed to the package before it; a `dependencies = [` whose header is
  outside the hunk is accepted from any table (`deps/src/changed.ts`).
* `fixedIn` lists the fixes of ranges that do not match; enumerated versions are compared as texts; the
  registry's latest is taken also when it is a pre-release or withdrawn.
* `audit-project` exits with success when every package failed or no snapshot is there
  (`cli/src/deps.ts`).

## Not modelled, and why

* Of `artifacts/src/store.ts`, the segments of a handle and the confinement of a path are tests on
  strings and links.
* Import and collections, the query language of documents, position encoding, changelogs, redaction and
  the parsing of diffs are functions of strings: what is interesting in them is the string, which a
  model made of a few values would lose.
* The browser's driver, recorder and evidence wrap Playwright and render; `gate.ts` and `runtime.ts`
  are checks and wiring.
* `core`'s search and the ingest are queries and a batch job over SQLite.
* Registration of tools, argument parsing, rendering and wording are left out throughout.

## Plan

1. Done: the server manager, the client session and the rename; the browser sessions; the verdict with
   its refinement; the API runner; the contract checks; the four pillars over a project; the artifact
   store. Proofs of the manager, the client session, the browser sessions, the verdict, the API runner, the
   rename, the artifact store, the mutation runs, coverage, the dependencies of a diff, the audits, the flake
   history, the walk over traffic and the contract of a single request.
2. The recorder's bounded buffers, and `live-capture.ts` over `BrowserSessions`.
