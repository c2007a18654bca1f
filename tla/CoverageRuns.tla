---------------------------- MODULE CoverageRuns ----------------------------
(***************************************************************************)
(* Coverage of a change: run.ts and run-python.ts of packages/coverage and *)
(* the commands and tools over them.  A call writes into a directory of    *)
(* its own, so one call stands for any number.                             *)
(***************************************************************************)
EXTENDS DiffCoverage

CONSTANTS CoverageSuites   \* what the call may be asked, and what its tests leave

VARIABLES covers,  \* the call: [tool, surface, allow, roots, root, relative, changed, mode, diff, exists, measured]
          ccall    \* its progress: [at, selectors, unmatched, coverage, code, told]

cvars == <<covers, ccall>>

Asked(job) ==
  /\ covers = job
  /\ ccall = [at |-> "asked", selectors |-> {}, unmatched |-> {}, coverage |-> None, code |-> 0, told |-> None]

CoverageInit ==
  \E suite \in CoverageSuites :
    \E q \in suite.jobs, changed \in suite.changed, diff \in suite.diffs, measured \in suite.measured :
      Asked([tool |-> q.tool, surface |-> q.surface, allow |-> q.allow, roots |-> q.roots, root |-> q.root, relative |-> q.relative,
             changed |-> changed, mode |-> q.mode, diff |-> diff, exists |-> q.exists, measured |-> measured])

\* coverage.py lists a line as executed or as missing; Istanbul counts.
ASSUME CoverageAssumption ==
  \A suite \in CoverageSuites :
    /\ \A diff \in suite.diffs : diff # None =>
         /\ \A l \in diff : l = <<l[1], l[2]>>
         /\ None \notin [uncovered : SUBSET diff, withoutCoverage : SUBSET {l[1] : l \in diff}]
    /\ \A q \in suite.jobs, report \in suite.measured :
         /\ None \notin DOMAIN report
         /\ \A key \in DOMAIN report :
              IF q.tool \in {"coveragepy", "pytest"} THEN report[key].executed \cap report[key].missing = {}
              ELSE IsFiniteSet(report[key]) /\ \A s \in report[key] : s.hits \in Nat

\* cmdRunScoped
CmdRunScoped(j) == [allowRun |-> j.allow, root |-> j.root, allowedRoots |-> {j.root}]

\* run_scoped, registered only for an operator who allowed runs somewhere.
RunScopedTool(j) == [allowRun |-> j.allow /\ j.roots # {}, root |-> j.root, allowedRoots |-> j.roots]

\* py_run_scoped, registered with it.
PyRunScopedTool(j) == RunScopedTool(j)

MayCover(j) ==
  AssertAllowed(CASE j.surface = "cli" -> CmdRunScoped(j)
                  [] j.tool = "vitest" -> RunScopedTool(j)
                  [] OTHER             -> PyRunScopedTool(j))

Scope(j) == SelectPytestScope(j.changed, j.mode, j.exists)

\* runScoped, runScopedPython: what there is nothing to run for.
NothingToRun(j) ==
  \/ j.changed = {}
  \/ j.tool = "pytest" /\ Scope(j).selectors = {} /\ Scope(j).unmatched = {}

\* The root as it was typed.  It is allowed by what it resolves to, and keys
\* are matched with what was typed: under `.' a path is the path itself.
TypedRoot == IF covers.relative THEN None ELSE covers.root

IsInconclusiveExit(code) == code \in 2 .. 5

Analyses == covers.tool \in {"istanbul", "coveragepy"}

Analysed ==
  /\ ccall' = [ccall EXCEPT !.at = "done", !.told =
       UncoveredInDiff(covers.diff,
         IF covers.tool = "coveragepy" THEN CoveragePyToIstanbul(covers.measured) ELSE covers.measured, TypedRoot)]
  /\ UNCHANGED covers

\* cmdUncoveredInDiff: a report that is given is analysed, nothing runs.
CmdUncoveredInDiff == Analyses /\ ccall.at = "asked" /\ covers.surface = "cli" /\ Analysed

\* uncovered_in_diff: without a diff or a report it fails.
UncoveredInDiffTool ==
  /\ Analyses /\ ccall.at = "asked" /\ covers.surface = "mcp"
  /\ \/ Analysed
     \/ ccall' = [ccall EXCEPT !.at = "error"] /\ UNCHANGED covers

CoverageRefused ==
  /\ ~ Analyses /\ ccall.at = "asked" /\ ~ MayCover(covers)
  /\ ccall' = [ccall EXCEPT !.at = "refused"]
  /\ UNCHANGED covers

CoverageNoop ==
  /\ ~ Analyses /\ ccall.at = "asked" /\ MayCover(covers) /\ NothingToRun(covers)
  /\ ccall' = [ccall EXCEPT !.at = "noop"]
  /\ UNCHANGED covers

\* A widened run selects nothing, and so does one of which no source has a test.
StartScopedRun ==
  /\ ~ Analyses /\ ccall.at = "asked" /\ MayCover(covers) /\ ~ NothingToRun(covers)
  /\ ccall' = [ccall EXCEPT
       !.at = "tests",
       !.selectors = IF covers.tool = "pytest" THEN Scope(covers).selectors ELSE covers.changed,
       !.unmatched = IF covers.tool = "pytest" THEN Scope(covers).unmatched ELSE {}]
  /\ UNCHANGED covers

\* External: the tests end with a code, and leave a report or none.
TestsRun ==
  /\ ccall.at = "tests"
  /\ \E code \in {0, 1, 5}, written \in BOOLEAN :
       /\ code = 5 => covers.tool = "pytest"
       /\ ccall' = [ccall EXCEPT !.at = "report", !.code = code,
                                 !.coverage = IF written THEN covers.measured ELSE None]
  /\ UNCHANGED covers

Inconclusive == covers.tool = "pytest" /\ IsInconclusiveExit(ccall.code)

\* No report fails the call, except where the tests could not say anything.
CoverageFails ==
  /\ ccall.at = "report" /\ ccall.coverage = None /\ ~ Inconclusive
  /\ ccall' = [ccall EXCEPT !.at = "error"]
  /\ UNCHANGED covers

CoverageReported ==
  LET coverage == IF ccall.coverage = None THEN <<>>
                  ELSE IF covers.tool = "pytest" THEN CoveragePyToIstanbul(ccall.coverage) ELSE ccall.coverage
      analysed == covers.diff # None /\ (covers.tool = "pytest" => ~ Inconclusive /\ coverage # <<>>)
  IN  /\ ccall.at = "report" /\ (ccall.coverage # None \/ Inconclusive)
      /\ ccall' = [ccall EXCEPT !.at = "done",
                                !.told = IF analysed THEN UncoveredInDiff(covers.diff, coverage, TypedRoot) ELSE None]
      /\ UNCHANGED covers

CoverageOver == ccall.at \in {"refused", "noop", "error", "done"}

CoverageNext ==
  \/ CmdUncoveredInDiff \/ UncoveredInDiffTool \/ CoverageRefused \/ CoverageNoop \/ StartScopedRun
  \/ TestsRun \/ CoverageFails \/ CoverageReported

-----------------------------------------------------------------------------

\* cmdRunScoped, cmdUncoveredInDiff: what exits with 0: tests that passed and said something,
\* and no uncovered line where a diff was analysed.
ExitsZero ==
  /\ ccall.at = "done"
  /\ Analyses \/ (ccall.code = 0 /\ ~ Inconclusive)
  /\ ccall.told # None => ccall.told.uncovered = {}

\* The lines a run under the project's root found and left unhit: of several
\* statements of a line, all.
Unhit(p, key) ==
  IF covers.tool \in {"coveragepy", "pytest"} THEN covers.measured[key].missing
  ELSE {s.line : s \in covers.measured[key]} \ {s.line : s \in {s \in covers.measured[key] : s.hits > 0}}

OwnKey(p) ==
  IF [root |-> covers.root, path |-> p] \in DOMAIN covers.measured THEN [root |-> covers.root, path |-> p]
  ELSE [root |-> None, path |-> p]

\* A path has a key the command can tell is its own: the one under an absolute
\* root, the path itself, or the only one that ends with it.
Decided(p) ==
  \/ TypedRoot # None
  \/ OwnKey(p).root = None
  \/ /\ [root |-> None, path |-> p] \notin DOMAIN covers.measured
     /\ {k \in DOMAIN covers.measured : EndsWith(k, p)} = {OwnKey(p)}

\* Where a command with a diff exits with 0, no line the diff adds to a file
\* this run measured is left unhit: neither a file of the same name in another
\* package, nor another statement of the line, nor a run that could not say
\* anything speaks for it.  Said of the paths the typed root decides: under a
\* relative root, a file with a twin in another package counts as one without
\* coverage, and its unhit lines leave the exit code at 0 (coverage/src/report.ts,
\* matchCoverageKey).
OkMeansHit ==
  ExitsZero /\ covers.diff # None =>
    \A l \in covers.diff :
      OwnKey(l[1]) \in DOMAIN covers.measured /\ Decided(l[1]) => l[2] \notin Unhit(l[1], OwnKey(l[1]))
=============================================================================
