---------------------------- MODULE DiffCoverage ----------------------------
(***************************************************************************)
(* Which of the lines a diff adds no test ran: uncovered.ts, report.ts and *)
(* coveragepy.ts of packages/coverage.                                     *)
(*                                                                         *)
(* Coverage is a function from keys to sets of statements [n, line, hits]. *)
(* A key is [root, path]: what it begins with when it is absolute, else    *)
(* None.  A diff is a set of <<path, line>>.                               *)
(***************************************************************************)
EXTENDS ToolScope

\* lineHitCounts: of the statements that start on a line, the most hit.
LineHitCounts(statements) ==
  [l \in {s.line : s \in statements} |-> Max({s.hits : s \in {s \in statements : s.line = l}})]

\* A line without a statement is neither covered nor not.
UncoveredNewLines(statements, lines) ==
  LET hits == LineHitCounts(statements)
      executable == lines \cap DOMAIN hits
  IN  [uncovered     |-> {l \in executable : hits[l] = 0},
       covered       |-> {l \in executable : hits[l] > 0},
       nonExecutable |-> lines \ executable]

EndsWith(key, p) ==
  /\ key.path.stem = p.stem /\ key.path.form = p.form /\ IsSuffix(p.dir, key.path.dir)
  /\ key # [root |-> None, path |-> p]

BugMatchCoverageKey(p, keys, root) ==
  LET suffix == {k \in keys : EndsWith(k, p)}
  IN  IF suffix # {} THEN CHOOSE k \in suffix : \A o \in suffix : Len(k.path.dir) >= Len(o.path.dir)
      ELSE IF [root |-> None, path |-> p] \in keys THEN [root |-> None, path |-> p] ELSE None

\* matchCoverageKey: under the root, as it is, or the only key it ends.
MatchCoverageKey(p, keys, root) ==
  LET suffix == {k \in keys : EndsWith(k, p)}
  IN  IF root # None /\ [root |-> root, path |-> p] \in keys THEN [root |-> root, path |-> p]
      ELSE IF [root |-> None, path |-> p] \in keys THEN [root |-> None, path |-> p]
      ELSE IF Cardinality(suffix) = 1 THEN CHOOSE k \in suffix : TRUE ELSE None

\* uncoveredInDiff
UncoveredInDiff(diff, coverage, root) ==
  LET files    == {l[1] : l \in diff}
      key(p)   == MatchCoverageKey(p, DOMAIN coverage, root)
      found    == {p \in files : key(p) # None}
      added(p) == {l[2] : l \in {l \in diff : l[1] = p}}
  IN  [uncovered |-> UNION {{<<p, l>> : l \in UncoveredNewLines(coverage[key(p)], added(p)).uncovered} : p \in found},
       withoutCoverage |-> files \ found]

\* fileCoverageFromCoveragePy: a statement for every line that is not excluded.
FileCoverageFromCoveragePy(file) ==
  {[n |-> l, line |-> l, hits |-> 1] : l \in file.executed} \cup {[n |-> l, line |-> l, hits |-> 0] : l \in file.missing}

CoveragePyToIstanbul(report) == [k \in DOMAIN report |-> FileCoverageFromCoveragePy(report[k])]
=============================================================================
