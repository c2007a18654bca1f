------------------------------ MODULE FlakeRuns ------------------------------
(***************************************************************************)
(* The users of one flake database: runner.ts of packages/flake, and the   *)
(* commands and tools over the history and the quarantine.  They write in  *)
(* transactions of their own, one per report or entry.                     *)
(*                                                                         *)
(* `executed' is a ghost: what the tests whose reports were recorded did.  *)
(***************************************************************************)
EXTENDS FlakeHistory, Integers

CONSTANTS FlakeCalls,   \* the calls
          FlakeSuites,  \* what they may be asked, and what their tests report
          LastInstant,  \* bound: the clock stops there
          DefaultMinRuns

VARIABLES flakes,    \* per call: [op, ...], see Do below
          reports,   \* what a suite run may report
          rows,      \* the history: [id, passed, at]
          entries,   \* the quarantine
          now,       \* the clock
          fcalls,    \* per call: [at, operands, done, told]
          executed   \* ghost: <<id, status>>

fvars == <<flakes, reports, rows, entries, now, fcalls, executed>>

Opening(jobs, possible) ==
  /\ flakes = jobs
  /\ reports = possible
  /\ rows = <<>>
  /\ entries = <<>>
  /\ now = 0
  /\ fcalls = [c \in FlakeCalls |-> [at |-> "asked", operands |-> {}, done |-> 0, told |-> None]]
  /\ executed = {}

FlakeInit ==
  \E suite \in FlakeSuites : \E jobs \in [FlakeCalls -> suite.jobs] : Opening(jobs, suite.reports)

Times == [instant : Int, offset : Int]

TestReports == Seq([test : [title : STRING, n : Nat], status : STRING])

\* A time is a text, and the reports of a suite are of its framework: only one
\* of pytest has errors.
ASSUME FlakeAssumption ==
  /\ LastInstant \in Nat
  /\ \A suite \in FlakeSuites :
       /\ suite.reports \subseteq TestReports
       /\ \A j \in suite.jobs :
            /\ j.op = "ingest" => j.time \in Times \cup {None}
            /\ j.op \in {"run", "ingest"} /\ j.framework # "pytest" =>
                 \A report \in suite.reports : \A i \in DOMAIN report : report[i].status # "error"

Now == [instant |-> now, offset |-> 0]

Everything == [since |-> None, limit |-> None, minRuns |-> DefaultMinRuns]

\* The database is one file: what a call commits, the next one reads.
Record(framework, report, opts) ==
  /\ rows' = rows \o RecordedRuns(framework, report, opts)
  /\ executed' = executed \cup {<<TestId(framework, report[i].test, opts.rooted), report[i].status>> : i \in DOMAIN report}

Answers(c, told) == fcalls' = [fcalls EXCEPT ![c].at = "done", ![c].told = told]

OnlyTheStoreMoves == UNCHANGED <<flakes, reports, entries, now>>

-----------------------------------------------------------------------------

\* cmdRun
CmdRunFlake(j) == [allowRun |-> j.allow, root |-> j.root, allowedRoots |-> {j.root}]

\* flake_run
FlakeRunTool(j) == [allowRun |-> j.allow /\ j.roots # {}, root |-> j.root, allowedRoots |-> j.roots]

MayRunFlake(j) == AssertAllowed(IF j.surface = "cli" THEN CmdRunFlake(j) ELSE FlakeRunTool(j))

RelatedScope(j) == SelectPytestScope(j.files, j.mode, j.exists)

\* runAndRecordWith: no repeats, no files for a related run, or none of its
\* sources with a test.
NothingToRepeat(j) ==
  \/ j.repeat <= 0
  \/ j.related /\ \/ j.files = {}
                  \/ j.framework = "pytest" /\ RelatedScope(j).selectors = {} /\ ~ RelatedScope(j).widened

FlakeRefused(c) ==
  /\ flakes[c].op = "run" /\ fcalls[c].at = "asked" /\ ~ MayRunFlake(flakes[c])
  /\ fcalls' = [fcalls EXCEPT ![c].at = "refused"]
  /\ OnlyTheStoreMoves /\ UNCHANGED <<rows, executed>>

FlakeNoop(c) ==
  /\ flakes[c].op = "run" /\ fcalls[c].at = "asked" /\ MayRunFlake(flakes[c]) /\ NothingToRepeat(flakes[c])
  /\ Answers(c, Classify(rows, Everything))
  /\ OnlyTheStoreMoves /\ UNCHANGED <<rows, executed>>

StartRepeats(c) ==
  LET j == flakes[c]
  IN  /\ j.op = "run" /\ fcalls[c].at = "asked" /\ MayRunFlake(j) /\ ~ NothingToRepeat(j)
      /\ fcalls' = [fcalls EXCEPT ![c].at = "running",
                                  ![c].operands = IF j.related /\ j.framework = "pytest"
                                                  THEN RelatedScope(j).selectors ELSE j.files]
      /\ OnlyTheStoreMoves /\ UNCHANGED <<rows, executed>>

\* One run of the suite: its report is recorded at once, or there is none and
\* the call fails, what it recorded before staying.
Repeat(c) ==
  LET j == flakes[c]
  IN  /\ fcalls[c].at = "running" /\ fcalls[c].done < j.repeat
      /\ \/ \E report \in reports :
              /\ Record(j.framework, report, [at |-> Now, rooted |-> TRUE])
              /\ fcalls' = [fcalls EXCEPT ![c].done = @ + 1]
         \/ /\ fcalls' = [fcalls EXCEPT ![c].at = "error"]
            /\ UNCHANGED <<rows, executed>>
      /\ OnlyTheStoreMoves

EndRepeats(c) ==
  /\ fcalls[c].at = "running" /\ fcalls[c].done = flakes[c].repeat
  /\ Answers(c, Classify(rows, Everything))
  /\ OnlyTheStoreMoves /\ UNCHANGED <<rows, executed>>

Asks(c, op, surface) == flakes[c].op = op /\ flakes[c].surface = surface /\ fcalls[c].at = "asked"

Ingested(c, report) ==
  LET j == flakes[c]
  IN  Record(j.framework, report, [at |-> IF j.time = None THEN Now ELSE j.time, rooted |-> j.rooted])

\* cmdIngest: a report of elsewhere, at the time it is given.
CmdIngest(c) ==
  /\ Asks(c, "ingest", "cli")
  /\ \E report \in reports : Ingested(c, report)
  /\ Answers(c, None)
  /\ OnlyTheStoreMoves

\* flake_ingest tells the verdicts, those of the report included.
FlakeIngest(c) ==
  /\ Asks(c, "ingest", "mcp")
  /\ \E report \in reports : Ingested(c, report) /\ Answers(c, Classify(rows', Everything))
  /\ OnlyTheStoreMoves

Reading(c, told) == Answers(c, told) /\ OnlyTheStoreMoves /\ UNCHANGED <<rows, executed>>

CmdStatus(c) ==
  /\ Asks(c, "status", "cli")
  /\ Reading(c, [verdicts |-> Classify(rows, flakes[c].window), quarantined |-> Active(entries, Now)])

FlakeStatus(c) ==
  /\ Asks(c, "status", "mcp")
  /\ Reading(c, [verdicts |-> Classify(rows, flakes[c].window), quarantined |-> Active(entries, Now)])

CmdCandidates(c) ==
  Asks(c, "candidates", "cli") /\ Reading(c, QuarantineCandidates(Classify(rows, Everything)))

FlakeCandidates(c) ==
  Asks(c, "candidates", "mcp") /\ Reading(c, QuarantineCandidates(Classify(rows, Everything)))

-----------------------------------------------------------------------------

OnlyTheQuarantineMoves == UNCHANGED <<flakes, reports, rows, now, executed>>

Quarantining(c) ==
  LET j == flakes[c]
      granted == MayQuarantine(j.policy, j.reason, j.until, Now)
  IN  /\ entries' = IF granted THEN Quarantined(entries, j.id, j.until, Now) ELSE entries
      /\ fcalls' = [fcalls EXCEPT ![c].at = IF granted THEN "done" ELSE "refused"]
      /\ OnlyTheQuarantineMoves

\* cmdQuarantine takes the policy from its own flags, and needs a reason.
CmdQuarantine(c) == Asks(c, "quarantine", "cli") /\ flakes[c].reason # "" /\ Quarantining(c)

\* flake_quarantine is registered under a policy of the operator's that allows.
FlakeQuarantine(c) ==
  Asks(c, "quarantine", "mcp") /\ flakes[c].policy.allowed /\ flakes[c].policy.cap > 0 /\ Quarantining(c)

\* A command without a reason, a tool that is not registered.
QuarantineUnavailable(c) ==
  /\ \/ Asks(c, "quarantine", "cli") /\ flakes[c].reason = ""
     \/ Asks(c, "quarantine", "mcp") /\ ~ (flakes[c].policy.allowed /\ flakes[c].policy.cap > 0)
  /\ fcalls' = [fcalls EXCEPT ![c].at = "refused"]
  /\ UNCHANGED entries
  /\ OnlyTheQuarantineMoves

Releasing(c) ==
  /\ entries' = Released(entries, flakes[c].id)
  /\ fcalls' = [fcalls EXCEPT ![c].at = "done"]
  /\ OnlyTheQuarantineMoves

\* Never gated.
CmdRelease(c) == Asks(c, "release", "cli") /\ Releasing(c)

FlakeRelease(c) == Asks(c, "release", "mcp") /\ Releasing(c)

TimePasses ==
  /\ now < LastInstant
  /\ now' = now + 1
  /\ UNCHANGED <<flakes, reports, rows, entries, fcalls, executed>>

FlakeOver(c) == fcalls[c].at \in {"refused", "error", "done"}

FlakeNext ==
  \/ \E c \in DOMAIN fcalls :
       \/ FlakeRefused(c) \/ FlakeNoop(c) \/ StartRepeats(c) \/ Repeat(c) \/ EndRepeats(c)
       \/ CmdIngest(c) \/ FlakeIngest(c) \/ CmdStatus(c) \/ FlakeStatus(c)
       \/ CmdCandidates(c) \/ FlakeCandidates(c)
       \/ CmdQuarantine(c) \/ FlakeQuarantine(c) \/ QuarantineUnavailable(c)
       \/ CmdRelease(c) \/ FlakeRelease(c)
  \/ TimePasses

-----------------------------------------------------------------------------

Did(id, statuses) == \E s \in statuses : <<id, s>> \in executed

\* What a classification of the whole history says of a test is what the
\* reports recorded so far saw it do, whoever recorded them and in whatever
\* order: it is flaky exactly when it both passed and failed, and a test that
\* failed is never told reliable nor one that passed broken.  A skipped test
\* says nothing, and an error in pytest's fixtures is a failure.
VerdictsMatchExecutions ==
  LET verdicts == Classify(rows, Everything)
  IN  \A id \in DOMAIN verdicts :
        /\ verdicts[id] = "flaky" <=> Did(id, {"passed"}) /\ Did(id, {"failed", "error"})
        /\ verdicts[id] = "reliable" => ~ Did(id, {"failed", "error"})
        /\ verdicts[id] = "broken" => ~ Did(id, {"passed"})

=============================================================================
