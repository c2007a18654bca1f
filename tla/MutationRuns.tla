---------------------------- MODULE MutationRuns ----------------------------
(***************************************************************************)
(* Mutation runs over one project: run.ts of packages/mutate and the       *)
(* commands and tools that start them.  Calls share what lies in the       *)
(* project: Stryker's report at its fixed path and its incremental file,   *)
(* mutmut's cache, and .sackville-cosmic.toml, the scoped configuration of *)
(* cosmic-ray.  The tools are external; one may die at any step, and the   *)
(* runner then only reports a code.                                        *)
(*                                                                         *)
(* Three fields of a call are ghosts: `found', the mutants its own         *)
(* processes tried, `reused', the results Stryker took from its            *)
(* incremental file instead, and `wrote', whether it left a report.        *)
(***************************************************************************)
EXTENDS MutationReports

CONSTANTS MutateCalls,    \* the calls
          MutationSuites  \* what they may be asked, and in which project

VARIABLES tree,    \* the project: [exists, base, imported, mutants]
          mutates, \* per call: [surface, allow, roots, root, tool, files, diff, incremental]
          disk,    \* what the calls share: [report, incremental, cache, config]
          mcalls   \* per call: [at, scope, config, session, found, reused, wrote, code, told]

mvars == <<tree, mutates, disk, mcalls>>

Tools == {"stryker", "mutmut", "cosmic-ray"}

Mutating(project, jobs, left) ==
  /\ tree = project
  /\ mutates = jobs
  /\ disk = left
  /\ mcalls = [c \in MutateCalls |-> [at |-> "asked", scope |-> None, config |-> None, session |-> {},
                                      found |-> {}, reused |-> {}, wrote |-> FALSE, code |-> 0, told |-> None]]

MutationInit ==
  \E suite \in MutationSuites :
    \E project \in suite.projects, jobs \in [MutateCalls -> suite.jobs], left \in suite.left :
      Mutating(project, jobs, left)

\* A mutant has one of four fates; an added line is a file and a number.
ASSUME MutationAssumption ==
  \A suite \in MutationSuites :
    /\ \A project \in suite.projects :
         /\ None \notin project.exists
         /\ IsFiniteSet(project.mutants)
         /\ \A m \in project.mutants : m.fate \in {"killed", "survived", "uncovered", "invalid"}
    /\ \A j \in suite.jobs : j.diff # None => \A l \in j.diff : l = <<l[1], l[2]>>
    /\ \A left \in suite.left :
         left = [report |-> left.report, incremental |-> left.incremental, cache |-> left.cache, config |-> left.config]

-----------------------------------------------------------------------------

\* cmdRun: the root a person types is the root allowed.
CmdRun(j) == [allowRun |-> j.allow, root |-> j.root, allowedRoots |-> {j.root}]

\* mutate_run, registered only for an operator who allowed runs somewhere.
MutateRun(j) == [allowRun |-> j.allow /\ j.roots # {}, root |-> j.root, allowedRoots |-> j.roots]

MayMutate(j) == AssertAllowed(IF j.surface = "cli" THEN CmdRun(j) ELSE MutateRun(j))

\* Only cosmic-ray's report has lines to narrow.
ChangedLines(j) == IF j.tool = "cosmic-ray" /\ j.diff # None THEN ChangedLinesByFile(j.diff) ELSE None

Mutable(j, p) == IF j.tool = "stryker" THEN IsStrykerMutableSource(p) ELSE IsPythonSource(p)

\* Stryker owns the whole project; a mutmut project that declares nothing owns nothing.
Roots(j) ==
  IF j.tool = "stryker" THEN {[dir |-> <<>>, file |-> None]}
  ELSE IF tree.base = None THEN {} ELSE OwnedRoots(tree.base)

Selection(j) == SelectMutationScope({p \in j.files : Mutable(j, p)}, Roots(j), tree.exists).files

FirstStep(tool) == CASE tool = "stryker" -> "stryker" [] tool = "mutmut" -> "run" [] OTHER -> "init"

\* What a scoped run is configured with: mutmut's in a sandbox of its own.
ScopedConfig(j, selected) ==
  CASE j.tool = "stryker"    -> None
    [] j.tool = "cosmic-ray" -> SynthesizeScopedCosmicRayConfig(tree.base, selected)
    [] OTHER -> PlanMutmutScope(selected, DefaultListSources(Roots(j), tree.exists),
                                IF tree.base = None THEN {} ELSE tree.base.left_out)

Summarizes(c) == mutates[c].tool \notin Tools

Reads(c, report) ==
  /\ mcalls' = [mcalls EXCEPT
       ![c].at = IF report = None THEN "error" ELSE "read",
       ![c].told = IF report = None THEN None
                   ELSE [survivors |-> SummarizeMutation(report).survivors, mutated |-> {}]]
  /\ UNCHANGED <<tree, mutates, disk>>

\* cmdSummarize: read the report that lies there, run nothing.
CmdSummarize(c) ==
  /\ Summarizes(c) /\ mcalls[c].at = "asked" /\ mutates[c].surface = "cli"
  /\ Reads(c, IF mutates[c].tool = "summarize" THEN disk.report ELSE ParseMutmutResults(disk.cache))

\* mutate_summarize: a report given inline, or at a path.
MutateSummarize(c) ==
  /\ Summarizes(c) /\ mcalls[c].at = "asked" /\ mutates[c].surface = "mcp"
  /\ \/ Reads(c, IF mutates[c].tool = "summarize" THEN disk.report ELSE ParseMutmutResults(disk.cache))
     \/ Reads(c, None)

MutationRefused(c) ==
  /\ ~ Summarizes(c) /\ mcalls[c].at = "asked" /\ ~ MayMutate(mutates[c])
  /\ mcalls' = [mcalls EXCEPT ![c].at = "refused"]
  /\ UNCHANGED <<tree, mutates, disk>>

\* No files given: the whole project, with the configuration it has.
StartWhole(c) ==
  LET j == mutates[c]
  IN  /\ ~ Summarizes(c) /\ mcalls[c].at = "asked" /\ MayMutate(j) /\ j.files = None
      /\ mcalls' = [mcalls EXCEPT ![c].at = FirstStep(j.tool), ![c].config = tree.base]
      /\ UNCHANGED <<tree, mutates, disk>>

\* Files given: an empty selection spawns nothing.
StartScoped(c) ==
  LET j == mutates[c]
      selected == Selection(j)
      unreadable == j.tool = "cosmic-ray" /\ tree.base = None
  IN  /\ ~ Summarizes(c) /\ mcalls[c].at = "asked" /\ MayMutate(j) /\ j.files # None
      /\ \/ /\ unreadable
            /\ mcalls' = [mcalls EXCEPT ![c].at = "error"]
            /\ disk' = disk
         \/ /\ ~ unreadable /\ selected = {}
            /\ mcalls' = [mcalls EXCEPT ![c].at = "noop", ![c].scope = {}]
            /\ disk' = disk
         \/ /\ ~ unreadable /\ selected # {}
            /\ mcalls' = [mcalls EXCEPT ![c].at = FirstStep(j.tool), ![c].scope = selected,
                                        ![c].config = ScopedConfig(j, selected)]
            /\ disk' = IF j.tool = "cosmic-ray" THEN [disk EXCEPT !.config = ScopedConfig(j, selected)] ELSE disk
      /\ UNCHANGED <<tree, mutates>>

-----------------------------------------------------------------------------
(* The tools.                                                              *)

Entry(m, said) == [file |-> m.file, from |-> m.from, to |-> m.to, said |-> said]

Reach(config) ==
  IF config = None THEN {} ELSE {m \in tree.mutants : m.file \in InReach(config, tree.exists)}

StrykerReach(c) ==
  {m \in tree.mutants : IF mcalls[c].scope = None THEN Mutable(mutates[c], m.file) ELSE m.file \in mcalls[c].scope}

StrykerSays(fate) ==
  CASE fate = "killed" -> "Killed" [] fate = "survived" -> "Survived"
    [] fate = "uncovered" -> "NoCoverage" [] OTHER -> "CompileError"

MutmutSays(fate) ==
  CASE fate = "uncovered" -> "no tests" [] fate = "invalid" -> "segfault" [] OTHER -> fate

CosmicSays(fate) ==
  CASE fate = "uncovered" -> [worker |-> "normal", test |-> "survived"]
    [] fate = "invalid"   -> [worker |-> "normal", test |-> "incompetent"]
    [] OTHER              -> [worker |-> "normal", test |-> fate]

Untried == [worker |-> "none", test |-> "none"]

\* What --incremental finds of earlier runs.
Remembered(c) ==
  IF mutates[c].incremental
  THEN {e \in disk.incremental : \E m \in tree.mutants : e = Entry(m, e.said)} ELSE {}

StrykerReport(results) ==
  Grouped({<<e.file, [from |-> e.from, to |-> e.to, status |-> e.said]>> : e \in results})

\* A run that dies leaves the report that was there, and so may one that ends
\* well.  An incremental run tries what it does not take from earlier runs.
StrykerRuns(c) ==
  /\ mcalls[c].at = "stryker"
  /\ \/ /\ mcalls' = [mcalls EXCEPT ![c].at = "finish", ![c].code = 1]
        /\ disk' = disk
     \/ \E code \in {0, 1}, wrote \in BOOLEAN, reused \in SUBSET Remembered(c) :
          LET new     == {m \in StrykerReach(c) : \A e \in reused : e # Entry(m, e.said)}
              results == reused \cup {Entry(m, StrykerSays(m.fate)) : m \in new}
          IN  /\ mcalls' = [mcalls EXCEPT ![c].at = "finish", ![c].code = code, ![c].found = new,
                                          ![c].reused = reused, ![c].wrote = wrote]
              /\ disk' = [disk EXCEPT !.report = IF wrote THEN StrykerReport(results) ELSE @,
                                      !.incremental = IF mutates[c].incremental THEN results ELSE @]
  /\ UNCHANGED <<tree, mutates>>

\* mutmut run: what the cache holds of a mutant is not tried again.  A project
\* whose tests import a file that was not copied has a baseline that fails.
MutmutRuns(c) ==
  LET config == mcalls[c].config
      reach  == Reach(config)
      kept   == IF mcalls[c].scope = None THEN disk.cache ELSE {}
      new    == {m \in reach : \A e \in kept : <<e.file, e.from, e.to>> # <<m.file, m.from, m.to>>}
      broken == mcalls[c].scope # None /\ ~ (tree.imported \subseteq (mcalls[c].scope \cup config.copied))
      Left(results) == IF mcalls[c].scope = None THEN [disk EXCEPT !.cache = kept \cup results] ELSE disk
  IN  /\ mcalls[c].at = "run"
      /\ \/ LET results == {Entry(m, "not checked") : m \in new}
            IN  /\ mcalls' = [mcalls EXCEPT ![c].at = "results", ![c].session = results]
                /\ disk' = Left(results)
         \/ LET results == {Entry(m, MutmutSays(m.fate)) : m \in new}
            IN  /\ ~ broken
                /\ mcalls' = [mcalls EXCEPT ![c].at = "results", ![c].session = results, ![c].found = new]
                /\ disk' = Left(results)
      /\ UNCHANGED <<tree, mutates>>

MutmutResults(c) ==
  /\ mcalls[c].at = "results"
  /\ \/ mcalls' = [mcalls EXCEPT ![c].at = "finish", ![c].code = 1, ![c].session = {}]
     \/ mcalls' = [mcalls EXCEPT ![c].at = "finish", ![c].code = 0,
                                 ![c].session = IF mcalls[c].scope = None THEN disk.cache ELSE @]
  /\ UNCHANGED <<tree, mutates, disk>>

\* The configuration a process of the call finds when it starts.
CosmicConfig(c) == IF mcalls[c].scope = None THEN tree.base ELSE disk.config

CosmicInit(c) ==
  /\ mcalls[c].at = "init"
  /\ \/ mcalls' = [mcalls EXCEPT ![c].at = "exec"]
     \/ mcalls' = [mcalls EXCEPT ![c].at = "exec",
                                 ![c].session = {Entry(m, Untried) : m \in Reach(CosmicConfig(c))}]
  /\ UNCHANGED <<tree, mutates, disk>>

CosmicExec(c) ==
  LET session   == mcalls[c].session
      Of(r)     == CHOOSE m \in tree.mutants : Entry(m, Untried) = r
      tried(rs) == {Entry(Of(r), CosmicSays(Of(r).fate)) : r \in rs}
  IN  /\ mcalls[c].at = "exec"
      /\ \/ /\ CosmicConfig(c) # None
            /\ mcalls' = [mcalls EXCEPT ![c].at = "dump", ![c].code = 0, ![c].session = tried(session),
                                        ![c].found = {Of(r) : r \in session}]
         \/ \E left \in SUBSET session :
              /\ left = session \/ Cardinality(left) = 1
              /\ mcalls' = [mcalls EXCEPT ![c].at = "dump", ![c].code = 1,
                                          ![c].session = left \cup tried(session \ left),
                                          ![c].found = {Of(r) : r \in session \ left}]
      /\ UNCHANGED <<tree, mutates, disk>>

CosmicDump(c) ==
  /\ mcalls[c].at = "dump"
  /\ \/ mcalls' = [mcalls EXCEPT ![c].at = "finish"]
     \/ mcalls' = [mcalls EXCEPT ![c].at = "finish", ![c].session = {}]
  /\ UNCHANGED <<tree, mutates, disk>>

-----------------------------------------------------------------------------

\* What the call reads when its last process has ended.
Report(c) ==
  CASE mutates[c].tool = "stryker" -> disk.report
    [] mutates[c].tool = "mutmut"  -> ParseMutmutResults(mcalls[c].session)
    [] OTHER                       -> ParseCosmicRayDump(mcalls[c].session)

Reconciled(c, summary) ==
  IF mutates[c].tool = "mutmut" THEN ReconcileMutmutScope(mcalls[c].scope, summary.files)
  ELSE ReconcileScope(mcalls[c].scope, summary.files)

\* Nothing to read, an incomplete session or a file never mutated: no answer.
Conclusive(c, report) ==
  /\ report # None
  /\ mutates[c].tool # "stryker" => AssertComplete(SummarizeMutation(report))
  /\ mcalls[c].scope # None => Reconciled(c, SummarizeMutation(report)).missing = {}

\* The lines are narrowed after the whole report was checked.
Reported(c, report) ==
  LET changed == ChangedLines(mutates[c])
  IN  IF mcalls[c].scope # None /\ changed # None
      THEN SummarizeMutation(FilterToChangedLines(report, changed)) ELSE SummarizeMutation(report)

FinishMutation(c) ==
  LET report == Report(c)
  IN  /\ mcalls[c].at = "finish"
      /\ \/ /\ Conclusive(c, report)
            /\ mcalls' = [mcalls EXCEPT
                 ![c].at = "done",
                 ![c].told = [survivors |-> Reported(c, report).survivors,
                              mutated   |-> IF mcalls[c].scope = None THEN {}
                                            ELSE Reconciled(c, SummarizeMutation(report)).mutated]]
         \/ /\ ~ Conclusive(c, report)
            /\ mcalls' = [mcalls EXCEPT ![c].at = "error"]
      /\ disk' = IF mutates[c].tool = "cosmic-ray" /\ mcalls[c].scope # None THEN [disk EXCEPT !.config = None] ELSE disk
      /\ UNCHANGED <<tree, mutates>>

MutationOver(c) == mcalls[c].at \in {"refused", "error", "noop", "read", "done"}

MutationNext ==
  \E c \in DOMAIN mcalls :
    \/ CmdSummarize(c) \/ MutateSummarize(c) \/ MutationRefused(c) \/ StartWhole(c) \/ StartScoped(c)
    \/ StrykerRuns(c) \/ MutmutRuns(c) \/ MutmutResults(c)
    \/ CosmicInit(c) \/ CosmicExec(c) \/ CosmicDump(c) \/ FinishMutation(c)

-----------------------------------------------------------------------------

\* cmdRun: the tool's code, and 1 for a refusal and an error.
CmdRunExit(c) == IF mcalls[c].at \in {"noop", "done"} /\ mcalls[c].code = 0 THEN 0 ELSE 1

Clean(c) == mcalls[c].at = "done" /\ CmdRunExit(c) = 0

\* No two sources of the project have names of modules one of which ends the other.
Distinct ==
  \A p, q \in {p \in tree.exists : IsPythonSource(p)} : IsSuffix(PyPathToModule(p), PyPathToModule(q)) => p = q

\* A run of Stryker that ended well without leaving its report is answered
\* with the report that lay there: nothing holds of it.
Answered(c) == mutates[c].tool = "stryker" => mcalls[c].wrote

\* A scoped run that ends well had every selected file mutated by its own
\* processes, or told of from the incremental file the caller asked to reuse,
\* whoever else wrote the scoped configuration, the report or the sandboxes:
\* a tool that skipped a file, or worked on the scope of another call, makes
\* the run inconclusive (mutate/src/scope.ts, "ZERO false-passes").  Not said
\* of a Stryker that left no report of its own, since the one that lay there
\* is read (mutate/src/run.ts, readReport), nor of mutmut where one source's
\* module name ends another's, since it names modules by suffix.
RequestedWasMutated ==
  \A c \in DOMAIN mcalls :
    Clean(c) /\ Answered(c) /\ mcalls[c].scope # None /\ (mutates[c].tool = "mutmut" => Distinct)
      => \A p \in mcalls[c].scope : \E x \in mcalls[c].found \cup mcalls[c].reused : x.file = p

Survivors(c) ==
  {m \in mcalls[c].found :
    /\ m.fate \in {"survived", "uncovered"}
    /\ mcalls[c].scope # None /\ ChangedLines(mutates[c]) # None
         => \E n \in m.from .. m.to : <<m.file, n>> \in mutates[c].diff}
  \cup {e \in mcalls[c].reused : e.said \in {"Survived", "NoCoverage"}}

Named(c, m) ==
  IF mutates[c].tool = "mutmut" THEN [file |-> PyPathToModule(m.file), line |-> 0]
  ELSE [file |-> m.file, line |-> m.from]

\* The survivors a run that ends well tells are those its own processes left,
\* on a changed line where it is narrowed to a diff, and those of the results
\* an incremental Stryker reused: none is hidden by a status read wrongly, by
\* a mutant that spans lines or by a file of another name.  Not said of a
\* Stryker that left no report of its own or of two at once, which share one
\* report, nor of mutmut over a whole project, whose cache answers for it.
SurvivorsAreTheRuns ==
  \A c \in DOMAIN mcalls :
    /\ Clean(c) /\ Answered(c)
    /\ mutates[c].tool = "stryker" =>
         \A o \in DOMAIN mcalls \ {c} : mutates[o].tool # "stryker" \/ mcalls[o].at \in {"asked", "refused", "noop"}
    /\ mutates[c].tool = "mutmut" => mcalls[c].scope # None
    => mcalls[c].told.survivors = {Named(c, m) : m \in Survivors(c)}
=============================================================================
