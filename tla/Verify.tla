------------------------------- MODULE Verify -------------------------------
(***************************************************************************)
(* verify_change: the pillars a request names run concurrently, each       *)
(* result is mapped by its adapter (verdict/adapters.ts) to a pillar       *)
(* verdict, a rejected run becomes a pillar verdict too, and when all have *)
(* settled composeVerdict folds the five into one.                         *)
(*                                                                         *)
(* A pillar's native result is abstracted to the set of kinds of facts in  *)
(* it: an adapter asks only whether there is a fact of a kind.  The deps   *)
(* pillar's result grows package by package, as its audit loop does.       *)
(***************************************************************************)
EXTENDS Naturals

CONSTANTS
  Request,      \* the sets of pillars a request may name
  Policy,       \* the values of failAtOrAbove, "unset" among them or not
  Result,       \* per pillar but deps: the results its run may return
  AuditResult,  \* the results one package's audit may have
  MaxPackages   \* bound: packages in the scope of one audit

Pillar == {"contract", "coverage", "deps", "flake", "mutate"}

\* The order of the breakdown, which breaks ties for the worst pillar.
Order == [contract |-> 1, coverage |-> 2, deps |-> 3, flake |-> 4, mutate |-> 5]

Severity == {"none", "low", "moderate", "high", "critical"}
Rank == [none |-> 0, low |-> 1, moderate |-> 2, high |-> 3, critical |-> 4]
PillarStatus == {"pass", "warn", "fail", "no-signal", "missing"}
Provenance == {"", "gate-not-set", "error"}

\* What a result may hold.  A contract entry without findings is "valid"; a
\* coverage mark is the state of an added line, or a file the coverage map
\* does not know; a flaky test's mark is the severity of its score.
ContractMark == {"valid", "warning", "error", "unresolved", "unsupported"}
CoverageMark == {"covered", "uncovered", "nonExecutable", "file not found"}
Vulnerable == {"low", "moderate", "high", "critical"}
AuditMark == Vulnerable \cup {"clean", "unknown", "deprecated"}
FlakyMark == {"flaky low", "flaky moderate", "flaky high"}
FlakeMark == FlakyMark \cup {"broken", "reliable", "insufficient data"}
MutateMark == {"detected", "survivor"}
DepsMark == AuditMark \cup {"snapshot", "failed audit"}
Mark == ContractMark \cup CoverageMark \cup DepsMark \cup FlakeMark
          \cup MutateMark \cup {"denied", "crashed"}

ASSUME VerifyAssumption ==
  /\ Request \subseteq SUBSET Pillar
  /\ Policy \subseteq Severity \cup {"unset"}
  /\ Result \in [Pillar \ {"deps"} -> SUBSET SUBSET Mark]
  /\ Result["contract"] \subseteq SUBSET ContractMark
  /\ Result["coverage"] \subseteq SUBSET CoverageMark
  /\ Result["flake"] \subseteq SUBSET FlakeMark
  /\ Result["mutate"] \subseteq SUBSET MutateMark
  /\ AuditResult \subseteq SUBSET AuditMark
  /\ MaxPackages \in Nat

VARIABLES
  requested,     \* the pillars of the request
  policy,        \* its failAtOrAbove
  pending,       \* pillars whose run has not settled
  seen,          \* what each pillar's run reported
  packages,      \* packages the audit loop has still to visit
  contribution,  \* the pillar verdicts, as composeVerdict would read them
  verdict        \* the composite verdict

vars == <<requested, policy, pending, seen, packages, contribution, verdict>>

----------------------------------------------------------------------------
(* The adapters: from a native result to a pillar verdict. *)

PillarVerdict == [status : PillarStatus, severity : Severity, reason : Provenance]

Verdict(status, severity) == [status |-> status, severity |-> severity, reason |-> ""]

\* A pillar the request did not name.
MissingPillar == Verdict("missing", "none")

NoSignal == Verdict("no-signal", "none")

\* Bug: looks at completeness before it looks at errors.
BugFromCaptureVerdict(marks) ==
  IF marks = {} \/ marks \cap {"unresolved", "unsupported"} # {} THEN NoSignal
  ELSE IF "error" \in marks THEN Verdict("fail", "high")
  ELSE IF "warning" \in marks THEN Verdict("warn", "low")
  ELSE Verdict("pass", "none")

FromCaptureVerdict(marks) ==
  IF "error" \in marks THEN Verdict("fail", "high")
  ELSE IF marks = {} \/ marks \cap {"unresolved", "unsupported"} # {} THEN NoSignal
  ELSE IF "warning" \in marks THEN Verdict("warn", "low")
  ELSE Verdict("pass", "none")

FromDiffCoverage(marks) ==
  IF marks \subseteq {"file not found"} THEN NoSignal
  ELSE IF "uncovered" \in marks THEN Verdict("fail", "moderate")
  ELSE Verdict("pass", "none")

WorstOf(S) == CHOOSE s \in S : \A t \in S : Rank[t] <= Rank[s]

\* The audits only: the adapter is not given the packages that failed.
FromDependencyAudits(marks) ==
  IF "snapshot" \notin marks THEN NoSignal
  ELSE IF marks \cap Vulnerable # {} THEN Verdict("warn", WorstOf(marks \cap Vulnerable))
  ELSE IF "deprecated" \in marks THEN Verdict("warn", "low")
  ELSE IF "unknown" \in marks THEN NoSignal
  ELSE Verdict("pass", "none")

FlakeSeverity(marks) ==
  IF "flaky high" \in marks THEN "high"
  ELSE IF "flaky moderate" \in marks THEN "moderate"
  ELSE "low"

FromFlakeVerdicts(marks) ==
  IF marks = {} THEN NoSignal
  ELSE IF "broken" \in marks THEN Verdict("fail", "high")
  ELSE IF marks \cap FlakyMark # {} THEN Verdict("warn", FlakeSeverity(marks))
  ELSE IF "insufficient data" \in marks THEN NoSignal
  ELSE Verdict("pass", "none")

\* Bug: a run without a valid mutant has no survivor, hence passes.
BugFromMutationSummary(marks) ==
  IF "survivor" \in marks THEN Verdict("warn", "moderate")
  ELSE Verdict("pass", "none")

FromMutationSummary(marks) ==
  IF marks = {} THEN NoSignal
  ELSE IF "survivor" \in marks THEN Verdict("warn", "moderate")
  ELSE Verdict("pass", "none")

Adapt(p, marks) ==
  CASE p = "contract" -> FromCaptureVerdict(marks)
    [] p = "coverage" -> FromDiffCoverage(marks)
    [] p = "deps"     -> FromDependencyAudits(marks)
    [] p = "flake"    -> FromFlakeVerdicts(marks)
    [] p = "mutate"   -> FromMutationSummary(marks)

\* A rejected run: a gate that denied it, or a crash.
RejectionToPillar(mark) ==
  [NoSignal EXCEPT !.reason = IF mark = "denied" THEN "gate-not-set" ELSE "error"]

----------------------------------------------------------------------------
(* composeVerdict. *)

FailsByPolicy(v, cut) ==
  /\ cut # "unset"
  /\ v.status \in {"warn", "fail"}
  /\ Rank[v.severity] >= Rank[cut]

Inconclusive(v) == v.status \in {"missing", "no-signal"} \/ v.reason # ""

\* Bug: absence is looked at before the warnings.
BugStatus(verdicts, cut) ==
  IF \E p \in Pillar : verdicts[p].status = "fail" \/ FailsByPolicy(verdicts[p], cut)
  THEN "fail"
  ELSE IF \E p \in Pillar : Inconclusive(verdicts[p]) THEN "inconclusive"
  ELSE IF \E p \in Pillar : verdicts[p].status = "warn" THEN "warn"
  ELSE "pass"

Status(verdicts, cut) ==
  IF \E p \in Pillar : verdicts[p].status = "fail" \/ FailsByPolicy(verdicts[p], cut)
  THEN "fail"
  ELSE IF \E p \in Pillar : verdicts[p].status = "warn" THEN "warn"
  ELSE IF \E p \in Pillar : Inconclusive(verdicts[p]) THEN "inconclusive"
  ELSE "pass"

WorstSeverity(verdicts) == WorstOf({verdicts[p].severity : p \in Pillar})

\* The first pillar, in order, with the worst severity, when there is any.
WorstPillar(verdicts) ==
  LET worst == {p \in Pillar : verdicts[p].severity = WorstSeverity(verdicts)}
  IN  IF WorstSeverity(verdicts) = "none" THEN "nobody"
      ELSE CHOOSE p \in worst : \A q \in worst : Order[p] <= Order[q]

NoVerdict == [status |-> "none", worst |-> "nobody"]

ComposeVerdict(verdicts, cut) ==
  [status |-> Status(verdicts, cut), worst |-> WorstPillar(verdicts)]

----------------------------------------------------------------------------
(* orchestrate. *)

Init ==
  /\ requested \in Request
  /\ policy \in Policy
  /\ pending = requested
  /\ packages \in IF "deps" \in requested THEN 0..MaxPackages ELSE {0}
  /\ \E snapshot \in SUBSET {"snapshot"} :
       seen = [p \in Pillar |-> IF p \in requested \cap {"deps"} THEN snapshot ELSE {}]
  /\ contribution = [p \in Pillar |-> MissingPillar]
  /\ verdict = NoVerdict

\* The run of pillar p is over: marks is what it reported, v what that comes to.
Settle(p, v, marks) ==
  /\ p \in pending
  /\ pending' = pending \ {p}
  /\ seen' = [seen EXCEPT ![p] = marks]
  /\ contribution' = [contribution EXCEPT ![p] = v]
  /\ UNCHANGED <<requested, policy, packages, verdict>>

Return(p) ==
  /\ p # "deps"
  /\ \E marks \in Result[p] : Settle(p, Adapt(p, marks), marks)

\* One turn of the audit loop, which catches the error of the package.
VisitPackage(marks) ==
  /\ "deps" \in pending
  /\ packages > 0
  /\ packages' = packages - 1
  /\ seen' = [seen EXCEPT !["deps"] = @ \cup marks]
  /\ UNCHANGED <<requested, policy, pending, contribution, verdict>>

\* Without a snapshot there is no advisory to match.
AuditPackage ==
  \E marks \in AuditResult :
    /\ "snapshot" \in seen["deps"] \/ marks \cap (Vulnerable \cup {"unknown"}) = {}
    /\ VisitPackage(marks)

PackageFails == VisitPackage({"failed audit"})

DepsReturns ==
  /\ packages = 0
  /\ Settle("deps", Adapt("deps", seen["deps"]), seen["deps"])

\* A gate's denial or a crash; an audit under way isolates its own errors.
Reject(p) ==
  /\ p = "deps" => seen["deps"] \subseteq {"snapshot"}
  /\ \E mark \in {"denied", "crashed"} :
       Settle(p, RejectionToPillar(mark), seen[p] \cup {mark})

\* Promise.all has resolved.
Fold ==
  /\ pending = {}
  /\ verdict = NoVerdict
  /\ verdict' = ComposeVerdict(contribution, policy)
  /\ UNCHANGED <<requested, policy, pending, seen, packages, contribution>>

Next ==
  \/ \E p \in Pillar : Return(p) \/ Reject(p)
  \/ AuditPackage
  \/ PackageFails
  \/ DepsReturns
  \/ Fold

Spec == Init /\ [][Next]_vars

----------------------------------------------------------------------------
(* Properties. *)

\* Every variable keeps its type.
TypeOK ==
  /\ requested \in SUBSET Pillar
  /\ policy \in Severity \cup {"unset"}
  /\ pending \in SUBSET requested
  /\ seen \in [Pillar -> SUBSET Mark]
  /\ packages \in 0..MaxPackages
  /\ contribution \in [Pillar -> PillarVerdict]
  /\ verdict \in [status : {"none", "pass", "inconclusive", "warn", "fail"},
                   worst : Pillar \cup {"nobody"}]

Adverse == Mark \ {"valid", "covered", "nonExecutable", "file not found", "snapshot",
                   "clean", "failed audit", "reliable", "detected"}

\* A pass means that all five pillars were asked for, that none was denied or
\* crashed, that none of them saw anything adverse, and that those that can
\* come back empty did not: one pillar's silence is never covered by another's
\* success (composeVerdict and the adapters together).
PassIsEarned ==
  verdict.status = "pass" =>
    /\ requested = Pillar
    /\ \A p \in Pillar : seen[p] \cap Adverse = {}
    /\ \A p \in {"contract", "flake", "mutate"} : seen[p] # {}
    /\ "snapshot" \in seen["deps"]

\* What fails a change by itself, and what makes it at least suspicious.
Breaches == UNION {seen["contract"] \cap {"error"}, seen["coverage"] \cap {"uncovered"},
                   seen["flake"] \cap {"broken"}}
Weaknesses == UNION {seen["flake"] \cap FlakyMark, seen["mutate"] \cap {"survivor"},
                     IF "snapshot" \in seen["deps"]
                       THEN seen["deps"] \cap (Vulnerable \cup {"deprecated"}) ELSE {}}

\* Whatever another pillar does (crash, be denied, be absent, be worse), a
\* finding of one pillar shows in the verdict: a breach fails it, a weakness at
\* least makes it warn, and a vulnerability at or above the cut fails it.
FindingsSurface ==
  verdict # NoVerdict =>
    /\ Breaches # {} => verdict.status = "fail"
    /\ Weaknesses # {} => verdict.status \in {"warn", "fail"}
    /\ \A s \in seen["deps"] \cap Vulnerable :
         policy # "unset" /\ Rank[s] >= Rank[policy] => verdict.status = "fail"

\* The cut never softens a verdict and never invents one: compared with the same
\* results under no cut, it can only turn a warning into a failure.
PolicyOnlyEscalates ==
  verdict # NoVerdict =>
    LET plain == Status(contribution, "unset")
    IN  verdict.status = plain \/ (verdict.status = "fail" /\ plain = "warn")

\* A verdict that blames names a culprit that has a finding, and one that does
\* not blame names nobody: absence never carries a severity.
CulpritIsNamed ==
  verdict # NoVerdict =>
    /\ verdict.status \in {"warn", "fail"} <=> verdict.worst \in Pillar
    /\ verdict.worst \in Pillar => contribution[verdict.worst].status \in {"warn", "fail"}

\* The posture so far: the fold, with a pass for each pillar still running.
SoFar == [p \in Pillar |-> IF p \in pending THEN Verdict("pass", "none") ELSE contribution[p]]

P == INSTANCE Posture WITH posture <- Status(SoFar, policy), answer <- verdict.status

\* orchestrate keeps the promise of Posture: results arrive in any order, no
\* result makes the outcome better than what is known, and the verdict is what
\* all of them come to.
PostureOnlyWorsens == P!Spec

\* adapters.ts, lines 7-8: no absence ever becomes a pass.  A package whose audit
\* failed is an absence.
AbsenceIsNeverAPass ==
  verdict.status = "pass" => "failed audit" \notin seen["deps"]

=============================================================================
