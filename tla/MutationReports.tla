--------------------------- MODULE MutationReports ---------------------------
(***************************************************************************)
(* From what a mutation tool writes to the summary a caller gets:          *)
(* summarize.ts, cosmic-ray.ts, mutmut.ts and line-scope.ts of             *)
(* packages/mutate.                                                        *)
(*                                                                         *)
(* A result is a mutant and what the tool says of it: [file, from, to,     *)
(* said].  A report is a function from file names to sets of mutants       *)
(* [from, to, status].                                                     *)
(***************************************************************************)
EXTENDS ToolScope

Statuses == {"Killed", "Survived", "Timeout", "NoCoverage", "CompileError", "RuntimeError", "Ignored", "Pending"}

\* statusOf: what was not executed, or says nothing known, is pending.
CosmicStatus(said) ==
  CASE said.worker = "normal" /\ said.test = "killed"      -> "Killed"
    [] said.worker = "normal" /\ said.test = "survived"    -> "Survived"
    [] said.worker = "normal" /\ said.test = "incompetent" -> "RuntimeError"
    [] said.worker = "no_test"                             -> "NoCoverage"
    [] said.worker = "skipped"                             -> "Ignored"
    [] said.worker \in {"exception", "abnormal"}           -> "RuntimeError"
    [] said.worker = "timeout"                             -> "Timeout"
    [] OTHER                                               -> "Pending"

\* MUTMUT_STATUS: a suspicious mutant was not killed.
MutmutStatus(word) ==
  CASE word = "killed"                   -> "Killed"
    [] word \in {"survived", "suspicious"} -> "Survived"
    [] word = "no tests"                 -> "NoCoverage"
    [] word = "timeout"                  -> "Timeout"
    [] word = "skipped"                  -> "Ignored"
    [] word = "segfault"                 -> "RuntimeError"
    [] OTHER                             -> "Pending"

\* A report of pairs of a file and a mutant.
Grouped(pairs) == [f \in {p[1] : p \in pairs} |-> {p[2] : p \in {q \in pairs : q[1] = f}}]

\* parseCosmicRayDump
ParseCosmicRayDump(results) ==
  Grouped({<<r.file, [from |-> r.from, to |-> r.to, status |-> CosmicStatus(r.said)]>> : r \in results})

\* moduleOf, parseMutmutResults: mutmut names no lines; a mutant has a number.
ParseMutmutResults(results) ==
  Grouped({<<PyPathToModule(r.file), [from |-> 0, to |-> r.from, status |-> MutmutStatus(r.said)]>> : r \in results})

-----------------------------------------------------------------------------

Tally(mutants) == [s \in Statuses |-> Cardinality({m \in mutants : m.status = s})]

MetricsFrom(c) ==
  LET detected   == c["Killed"] + c["Timeout"]
      undetected == c["Survived"] + c["NoCoverage"]
      invalid    == c["CompileError"] + c["RuntimeError"]
  IN  [detected |-> detected,
       covered  |-> detected + c["Survived"],
       valid    |-> detected + undetected,
       total    |-> detected + undetected + invalid + c["Ignored"] + c["Pending"],
       pending  |-> c["Pending"]]

\* summarizeMutation: the survivors are the mutants no test noticed.
SummarizeMutation(report) ==
  LET counts == [f \in DOMAIN report |-> Tally(report[f])]
      SumCounts(s) == SumFunction([f \in DOMAIN report |-> counts[f][s]])
  IN  [metrics   |-> MetricsFrom([s \in Statuses |-> SumCounts(s)]),
       files     |-> [f \in DOMAIN report |-> MetricsFrom(counts[f]).total],
       survivors |-> UNION {{[file |-> f, line |-> m.from] : m \in {m \in report[f] : m.status \in {"Survived", "NoCoverage"}}}
                              : f \in DOMAIN report}]

\* assertComplete: no mutant at all, or one that was not tried, decides nothing.
AssertComplete(summary) == summary.metrics.total > 0 /\ summary.metrics.pending = 0

-----------------------------------------------------------------------------
(* changed: a function from files to the lines a diff adds.                *)

ChangedLinesByFile(diff) == [f \in {l[1] : l \in diff} |-> {l[2] : l \in {l \in diff : l[1] = f}}]

BugSpanHitsChanged(m, lines) == m.from \in lines

SpanHitsChanged(m, lines) == \E n \in m.from .. m.to : n \in lines

\* filterToChangedLines
FilterToChangedLines(report, changed) ==
  LET hit(f) == {m \in report[f] : SpanHitsChanged(m, changed[f])}
  IN  [f \in {f \in DOMAIN report \cap DOMAIN changed : hit(f) # {}} |-> hit(f)]
=============================================================================
