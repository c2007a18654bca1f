---------------------------- MODULE VerifyProofs ----------------------------
(***************************************************************************)
(* What holds of Verify for every set of requests, of cuts and of results  *)
(* the pillars may return.  The inductive invariant says that a settled    *)
(* pillar's contribution is what its adapter makes of what the pillar saw, *)
(* and that the verdict is the fold of the contributions.                  *)
(***************************************************************************)
EXTENDS Verify, TLAPS

Rejected == {"denied", "crashed"}

\* The marks of each pillar's own results.
Own == [contract |-> ContractMark, coverage |-> CoverageMark, deps |-> DepsMark,
        flake |-> FlakeMark, mutate |-> MutateMark]

\* A pillar sees facts of its own kind only, none when it was not asked, and
\* nothing but its rejection when it was rejected.
SeenInv ==
  \A p \in Pillar :
    /\ seen[p] \subseteq Own[p] \cup Rejected
    /\ p \notin requested => seen[p] = {}
    /\ p \in pending => seen[p] \subseteq Own[p] /\ (p # "deps" => seen[p] = {})
    /\ seen[p] \cap Rejected # {} => seen[p] \subseteq Rejected \cup {"snapshot"}

\* Only a loaded snapshot lets an audit see a vulnerability.
SnapshotInv == seen["deps"] \cap Vulnerable # {} => "snapshot" \in seen["deps"]

\* A pillar contributes what its run came to.
ContributionInv ==
  \A p \in Pillar :
    /\ p \notin requested \/ p \in pending => contribution[p] = MissingPillar
    /\ p \in requested \ pending =>
         IF seen[p] \cap Rejected = {}
           THEN contribution[p] = Adapt(p, seen[p])
           ELSE contribution[p].status = "no-signal" /\ contribution[p].severity = "none"

\* The verdict is given once, when all have settled.
VerdictInv ==
  verdict # NoVerdict => pending = {} /\ verdict = ComposeVerdict(contribution, policy)

IInv == TypeOK /\ SeenInv /\ SnapshotInv /\ ContributionInv /\ VerdictInv

-----------------------------------------------------------------------------

\* A set of severities that is not empty has a worst one.
LEMMA WorstExists ==
  ASSUME NEW S \in SUBSET Severity, S # {}
  PROVE  /\ WorstOf(S) \in S
         /\ \A t \in S : Rank[t] <= Rank[WorstOf(S)]
<1>1. \E s \in S : \A t \in S : Rank[t] <= Rank[s]
  <2>1. CASE "critical" \in S
    BY <2>1 DEF Severity, Rank
  <2>2. CASE "critical" \notin S /\ "high" \in S
    BY <2>2 DEF Severity, Rank
  <2>3. CASE "critical" \notin S /\ "high" \notin S /\ "moderate" \in S
    BY <2>3 DEF Severity, Rank
  <2>4. CASE S \subseteq {"none", "low"} /\ "low" \in S
    BY <2>4 DEF Severity, Rank
  <2>5. CASE S = {"none"}
    BY <2>5 DEF Severity, Rank
  <2> QED
    BY <2>1, <2>2, <2>3, <2>4, <2>5 DEF Severity
<1> QED
  BY <1>1 DEF WorstOf

\* Every adapter returns a pillar verdict.
LEMMA AdaptType ==
  ASSUME NEW p \in Pillar, NEW marks
  PROVE  Adapt(p, marks) \in PillarVerdict
<1>1. ASSUME marks \cap Vulnerable # {}
      PROVE  WorstOf(marks \cap Vulnerable) \in Severity
  BY <1>1, WorstExists, marks \cap Vulnerable \in SUBSET Severity DEF Vulnerable, Severity
<1>2. \A s \in PillarStatus, v \in Severity : Verdict(s, v) \in PillarVerdict
  BY DEF Verdict, PillarVerdict, Provenance
<1>3. FromDependencyAudits(marks) \in PillarVerdict
  BY <1>1, <1>2 DEF FromDependencyAudits, NoSignal, PillarStatus, Severity
<1>4. FlakeSeverity(marks) \in Severity
  BY DEF FlakeSeverity, Severity
<1>5. FromFlakeVerdicts(marks) \in PillarVerdict
  BY <1>2, <1>4 DEF FromFlakeVerdicts, NoSignal, PillarStatus, Severity
<1>6. FromCaptureVerdict(marks) \in PillarVerdict
  BY <1>2 DEF FromCaptureVerdict, NoSignal, PillarStatus, Severity
<1>7. FromDiffCoverage(marks) \in PillarVerdict
  BY <1>2 DEF FromDiffCoverage, NoSignal, PillarStatus, Severity
<1>8. FromMutationSummary(marks) \in PillarVerdict
  BY <1>2 DEF FromMutationSummary, NoSignal, PillarStatus, Severity
<1> QED
  BY <1>3, <1>5, <1>6, <1>7, <1>8 DEF Adapt, Pillar

\* No adapter adds a reason, and none gives a severity without a finding.
LEMMA AdaptShape ==
  ASSUME NEW p \in Pillar, NEW marks
  PROVE  /\ Adapt(p, marks).reason = ""
         /\ Adapt(p, marks).status \in {"warn", "fail"} <=> Adapt(p, marks).severity # "none"
         /\ Adapt(p, marks).status \in {"pass", "no-signal", "warn", "fail"}
<1> DEFINE Good(v) == /\ v.reason = ""
                      /\ v.status \in {"warn", "fail"} <=> v.severity # "none"
                      /\ v.status \in {"pass", "no-signal", "warn", "fail"}
<1>1. ASSUME marks \cap Vulnerable # {}
      PROVE  WorstOf(marks \cap Vulnerable) # "none"
  BY <1>1, WorstExists, marks \cap Vulnerable \in SUBSET Severity DEF Vulnerable, Severity
<1>2. Good(FromDependencyAudits(marks))
  BY <1>1 DEF FromDependencyAudits, NoSignal, Verdict
<1>3. Good(FromFlakeVerdicts(marks))
  BY DEF FromFlakeVerdicts, NoSignal, Verdict, FlakeSeverity
<1>4. Good(FromCaptureVerdict(marks))
  BY DEF FromCaptureVerdict, NoSignal, Verdict
<1>5. Good(FromDiffCoverage(marks))
  BY DEF FromDiffCoverage, NoSignal, Verdict
<1>6. Good(FromMutationSummary(marks))
  BY DEF FromMutationSummary, NoSignal, Verdict
<1> QED
  BY <1>2, <1>3, <1>4, <1>5, <1>6, ZenonT(60) DEF Adapt, Pillar

\* A rejected run contributes an absence without severity.
LEMMA RejectionShape ==
  ASSUME NEW mark
  PROVE  /\ RejectionToPillar(mark) \in PillarVerdict
         /\ RejectionToPillar(mark).status = "no-signal"
         /\ RejectionToPillar(mark).severity = "none"
BY DEF RejectionToPillar, NoSignal, Verdict, PillarVerdict, PillarStatus, Severity, Provenance

\* The worst pillar is one of those with the worst severity, if that is any.
LEMMA WorstPillarShape ==
  ASSUME NEW f \in [Pillar -> PillarVerdict]
  PROVE  /\ WorstSeverity(f) \in Severity
         /\ \A p \in Pillar : Rank[f[p].severity] <= Rank[WorstSeverity(f)]
         /\ IF WorstSeverity(f) = "none"
              THEN WorstPillar(f) = "nobody"
              ELSE /\ WorstPillar(f) \in Pillar
                   /\ f[WorstPillar(f)].severity = WorstSeverity(f)
<1> DEFINE S == {f[p].severity : p \in Pillar}
           W == {p \in Pillar : f[p].severity = WorstSeverity(f)}
<1>1. S \in SUBSET Severity /\ S # {}
  BY DEF Pillar, PillarVerdict
<1>2. WorstSeverity(f) \in S /\ \A t \in S : Rank[t] <= Rank[WorstSeverity(f)]
  BY <1>1, WorstExists DEF WorstSeverity
<1>3. W \in SUBSET Pillar /\ W # {}
  BY <1>2
<1>4. \E p \in W : \A q \in W : Order[p] <= Order[q]
  <2>1. CASE "contract" \in W
    BY <2>1 DEF Order, Pillar
  <2>2. CASE "contract" \notin W /\ "coverage" \in W
    BY <1>3, <2>2 DEF Order, Pillar
  <2>3. CASE W \subseteq {"deps", "flake", "mutate"} /\ "deps" \in W
    BY <2>3 DEF Order, Pillar
  <2>4. CASE W \subseteq {"flake", "mutate"} /\ "flake" \in W
    BY <2>4 DEF Order, Pillar
  <2>5. CASE W \subseteq {"mutate"}
    BY <1>3, <2>5 DEF Order, Pillar
  <2> QED
    BY <1>3, <2>1, <2>2, <2>3, <2>4, <2>5 DEF Pillar
<1>5. WorstSeverity(f) # "none" => WorstPillar(f) \in W
  BY <1>4 DEF WorstPillar
<1> QED
  BY <1>1, <1>2, <1>5 DEF WorstPillar

\* The fold returns one of the four statuses.
LEMMA StatusType ==
  ASSUME NEW f, NEW cut
  PROVE  Status(f, cut) \in {"pass", "inconclusive", "warn", "fail"}
BY DEF Status

\* The results of a pillar tell no rejection, and are all marks.
LEMMA OwnMarks ==
  ASSUME NEW p \in Pillar
  PROVE  Own[p] \cup Rejected \subseteq Mark /\ Own[p] \cap Rejected = {}
<1>1. \A S \in {ContractMark, CoverageMark, DepsMark, FlakeMark, MutateMark} :
        S \subseteq Mark
  BY DEF Mark
<1>2. \A S \in {ContractMark, CoverageMark, DepsMark, FlakeMark, MutateMark} :
        S \cap Rejected = {}
  BY DEF Rejected, ContractMark, CoverageMark, DepsMark, AuditMark, Vulnerable, FlakeMark,
         FlakyMark, MutateMark
<1>3. Own[p] \in {ContractMark, CoverageMark, DepsMark, FlakeMark, MutateMark}
  BY DEF Own, Pillar
<1>4. Rejected \subseteq Mark
  BY DEF Rejected, Mark
<1> QED
  BY <1>1, <1>2, <1>3, <1>4

-----------------------------------------------------------------------------
(* The invariant. *)

LEMMA InitInvariant == Init => IInv
<1> SUFFICES ASSUME Init PROVE IInv
  OBVIOUS
<1> USE VerifyAssumption
<1>1. MissingPillar \in PillarVerdict
  BY DEF MissingPillar, Verdict, PillarVerdict, PillarStatus, Severity, Provenance
<1>2. \A p \in Pillar : seen[p] \in SUBSET {"snapshot"} /\ (p # "deps" => seen[p] = {})
  BY DEF Init, Pillar
<1>3. TypeOK
  <2>1. seen \in [Pillar -> SUBSET Mark]
    <3>1. PICK snapshot \in SUBSET {"snapshot"} :
            seen = [p \in Pillar |-> IF p \in requested \cap {"deps"} THEN snapshot ELSE {}]
      BY DEF Init
    <3>2. snapshot \in SUBSET Mark
      BY DEF Mark, DepsMark
    <3> QED
      BY <3>1, <3>2
  <2>2. packages \in 0..MaxPackages
    BY DEF Init
  <2> QED
    BY <1>1, <2>1, <2>2 DEF Init, TypeOK, NoVerdict
<1>4. SeenInv
  <2> SUFFICES ASSUME NEW p \in Pillar
               PROVE  /\ seen[p] \subseteq Own[p] \cup Rejected
                      /\ p \notin requested => seen[p] = {}
                      /\ p \in pending =>
                           seen[p] \subseteq Own[p] /\ (p # "deps" => seen[p] = {})
                      /\ seen[p] \cap Rejected # {} => seen[p] \subseteq Rejected \cup {"snapshot"}
    BY DEF SeenInv
  <2>1. CASE p = "deps"
    BY <2>1, <1>2 DEF Init, Own, DepsMark
  <2>2. CASE p # "deps"
    BY <2>2, <1>2
  <2> QED
    BY <2>1, <2>2
<1>5. ContributionInv /\ VerdictInv
  BY DEF Init, ContributionInv, VerdictInv
<1>6. SnapshotInv
  BY <1>2 DEF SnapshotInv, Pillar
<1> QED
  BY <1>3, <1>4, <1>5, <1>6 DEF IInv

\* A run that settles leaves the invariant intact when its marks are its own
\* and its contribution is what they come to.
LEMMA SettleInvariant ==
  ASSUME IInv, NEW p \in Pillar, NEW v \in PillarVerdict, NEW marks,
         Settle(p, v, marks),
         \/ marks \subseteq Own[p] /\ v = Adapt(p, marks)
         \/ /\ marks \subseteq Own[p] \cup Rejected
            /\ marks \cap Rejected # {}
            /\ marks \subseteq Rejected \cup {"snapshot"}
            /\ v.status = "no-signal" /\ v.severity = "none",
         p = "deps" /\ marks \cap Vulnerable # {} => "snapshot" \in marks
  PROVE  IInv'
<1> USE DEF IInv
<1>1. marks \in SUBSET Mark /\ Own[p] \cap Rejected = {}
  BY OwnMarks
<1>2. TypeOK'
  BY <1>1 DEF TypeOK, Settle
<1>3. SeenInv'
  BY <1>1 DEF SeenInv, Settle, TypeOK
<1>4. ContributionInv'
  <2> SUFFICES ASSUME NEW q \in Pillar
               PROVE  /\ q \notin requested' \/ q \in pending' => contribution'[q] = MissingPillar
                      /\ q \in requested' \ pending' =>
                           IF seen'[q] \cap Rejected = {}
                             THEN contribution'[q] = Adapt(q, seen'[q])
                             ELSE /\ contribution'[q].status = "no-signal"
                                  /\ contribution'[q].severity = "none"
    BY DEF ContributionInv
  <2>1. CASE q = p
    <3>1. seen'[p] = marks /\ contribution'[p] = v /\ p \notin pending' /\ p \in requested'
      BY DEF Settle, TypeOK
    <3>2. marks \subseteq Own[p] => marks \cap Rejected = {}
      BY <1>1
    <3> QED
      BY <2>1, <3>1, <3>2
  <2>2. CASE q # p
    BY <2>2 DEF Settle, TypeOK, ContributionInv
  <2> QED
    BY <2>1, <2>2
<1>5. VerdictInv'
  BY DEF VerdictInv, Settle
<1>6. SnapshotInv'
  <2>1. CASE p = "deps"
    BY <2>1 DEF SnapshotInv, Settle, TypeOK
  <2>2. CASE p # "deps"
    BY <2>2 DEF SnapshotInv, Settle, TypeOK
  <2> QED
    BY <2>1, <2>2
<1> QED
  BY <1>2, <1>3, <1>4, <1>5, <1>6

LEMMA NextInvariant == IInv /\ [Next]_vars => IInv'
<1> SUFFICES ASSUME IInv, [Next]_vars PROVE IInv'
  OBVIOUS
<1> USE VerifyAssumption
<1>1. ASSUME NEW p \in Pillar, Return(p) PROVE IInv'
  <2>1. PICK marks \in Result[p] : Settle(p, Adapt(p, marks), marks)
    BY <1>1 DEF Return
  <2>2. marks \subseteq Own[p]
    BY <1>1 DEF Return, Own, Pillar
  <2>3. Adapt(p, marks) \in PillarVerdict
    BY AdaptType
  <2>4. p # "deps"
    BY <1>1 DEF Return
  <2> QED
    BY <2>1, <2>2, <2>3, <2>4, SettleInvariant
<1>2. ASSUME NEW p \in Pillar, Reject(p) PROVE IInv'
  <2>1. PICK mark \in Rejected : Settle(p, RejectionToPillar(mark), seen[p] \cup {mark})
    BY <1>2 DEF Reject, Rejected
  <2>2. seen[p] \subseteq Own[p] /\ seen[p] \subseteq {"snapshot"}
    BY <1>2, <2>1 DEF Settle, IInv, SeenInv, Reject
  <2>3. /\ seen[p] \cup {mark} \subseteq Own[p] \cup Rejected
        /\ (seen[p] \cup {mark}) \cap Rejected # {}
        /\ seen[p] \cup {mark} \subseteq Rejected \cup {"snapshot"}
    BY <2>2
  <2>4. (seen[p] \cup {mark}) \cap Vulnerable = {}
    BY <2>2 DEF Vulnerable, Rejected
  <2> QED
    BY <2>1, <2>3, <2>4, RejectionShape, SettleInvariant
<1>3. ASSUME NEW marks \in SUBSET DepsMark, VisitPackage(marks),
             "snapshot" \in seen["deps"] \/ marks \cap Vulnerable = {}
      PROVE  IInv'
  <2> USE <1>3 DEF VisitPackage, IInv
  <2>1. /\ "deps" \in Pillar /\ Own["deps"] = DepsMark
        /\ DepsMark \subseteq Mark /\ DepsMark \cap Rejected = {}
    BY OwnMarks DEF Pillar, Own, Mark
  <2>2. TypeOK'
    BY <2>1 DEF TypeOK
  <2>3. SeenInv'
    BY <2>1 DEF SeenInv, TypeOK
  <2>4. ContributionInv'
    BY DEF ContributionInv, TypeOK
  <2>5. VerdictInv'
    BY DEF VerdictInv
  <2>6. SnapshotInv'
    BY DEF SnapshotInv, TypeOK
  <2> QED
    BY <2>2, <2>3, <2>4, <2>5, <2>6
<1>4. CASE AuditPackage
  <2>1. \A marks \in AuditResult : marks \in SUBSET DepsMark
    BY DEF DepsMark
  <2> QED
    BY <1>3, <1>4, <2>1 DEF AuditPackage
<1>5. CASE PackageFails
  <2>1. {"failed audit"} \in SUBSET DepsMark /\ {"failed audit"} \cap Vulnerable = {}
    BY DEF DepsMark, Vulnerable
  <2> QED
    BY <1>3, <1>5, <2>1 DEF PackageFails
<1>6. CASE DepsReturns
  <2>1. "deps" \in Pillar /\ seen["deps"] \subseteq Own["deps"]
    BY <1>6 DEF DepsReturns, Settle, IInv, SeenInv, Pillar
  <2>2. Adapt("deps", seen["deps"]) \in PillarVerdict
    BY <2>1, AdaptType
  <2>3. seen["deps"] \cap Vulnerable # {} => "snapshot" \in seen["deps"]
    BY DEF IInv, SnapshotInv
  <2> QED
    BY <1>6, <2>1, <2>2, <2>3, SettleInvariant DEF DepsReturns
<1>7. CASE Fold
  <2> USE <1>7 DEF Fold, IInv
  <2>1. ComposeVerdict(contribution, policy) \in
          [status : {"none", "pass", "inconclusive", "warn", "fail"}, worst : Pillar \cup {"nobody"}]
    BY StatusType, WorstPillarShape DEF ComposeVerdict, TypeOK
  <2>2. TypeOK'
    BY <2>1 DEF TypeOK
  <2>3. SeenInv' /\ SnapshotInv' /\ ContributionInv'
    BY DEF SeenInv, SnapshotInv, ContributionInv
  <2>4. VerdictInv'
    BY DEF VerdictInv
  <2> QED
    BY <2>2, <2>3, <2>4
<1>8. CASE UNCHANGED vars
  BY <1>8 DEF vars, IInv, TypeOK, SeenInv, SnapshotInv, ContributionInv, VerdictInv
<1> QED
  BY <1>1, <1>2, <1>4, <1>5, <1>6, <1>7, <1>8 DEF Next

\* The inductive invariant of orchestrate and of the fold that ends it.
THEOREM Invariant == Spec => []IInv
  BY InitInvariant, NextInvariant, PTL DEF Spec

\* The variables keep their types, whatever the pillars return.
THEOREM TypeCorrect == Spec => []TypeOK
<1>1. IInv => TypeOK
  BY DEF IInv
<1> QED
  BY <1>1, Invariant, PTL

-----------------------------------------------------------------------------
(* What the verdict says of the runs. *)

\* The results each adapter passes.
LEMMA PassCondition ==
  ASSUME NEW marks
  PROVE  /\ FromCaptureVerdict(marks).status = "pass" =>
              marks # {} /\ marks \cap {"error", "unresolved", "unsupported", "warning"} = {}
         /\ FromDiffCoverage(marks).status = "pass" => "uncovered" \notin marks
         /\ FromDependencyAudits(marks).status = "pass" =>
              "snapshot" \in marks /\ marks \cap (Vulnerable \cup {"deprecated", "unknown"}) = {}
         /\ FromFlakeVerdicts(marks).status = "pass" =>
              marks # {} /\ marks \cap (FlakyMark \cup {"broken", "insufficient data"}) = {}
         /\ FromMutationSummary(marks).status = "pass" =>
              marks # {} /\ "survivor" \notin marks
<1>1. \A s, v : Verdict(s, v).status = s
  BY DEF Verdict
<1>2. NoSignal.status # "pass"
  BY <1>1 DEF NoSignal
<1>3. FromCaptureVerdict(marks).status = "pass" =>
        marks # {} /\ marks \cap {"error", "unresolved", "unsupported", "warning"} = {}
  BY <1>1, <1>2 DEF FromCaptureVerdict
<1>4. FromDiffCoverage(marks).status = "pass" => "uncovered" \notin marks
  BY <1>1, <1>2 DEF FromDiffCoverage
<1>5. FromDependencyAudits(marks).status = "pass" =>
        "snapshot" \in marks /\ marks \cap (Vulnerable \cup {"deprecated", "unknown"}) = {}
  BY <1>1, <1>2 DEF FromDependencyAudits
<1>6. FromFlakeVerdicts(marks).status = "pass" =>
        marks # {} /\ marks \cap (FlakyMark \cup {"broken", "insufficient data"}) = {}
  BY <1>1, <1>2 DEF FromFlakeVerdicts
<1>7. FromMutationSummary(marks).status = "pass" => marks # {} /\ "survivor" \notin marks
  BY <1>1, <1>2 DEF FromMutationSummary
<1> QED
  BY <1>3, <1>4, <1>5, <1>6, <1>7

\* An adapter passes a result only when nothing in it is adverse, and never an
\* empty result of a pillar that can come back empty.
LEMMA AdaptPass ==
  ASSUME NEW p \in Pillar, NEW marks \in SUBSET Own[p], Adapt(p, marks).status = "pass"
  PROVE  /\ marks \cap Adverse = {}
         /\ p \in {"contract", "flake", "mutate"} => marks # {}
         /\ p = "deps" => "snapshot" \in marks
<1>1. CASE p = "contract"
  <2>1. FromCaptureVerdict(marks).status = "pass" /\ marks \subseteq ContractMark
    BY <1>1 DEF Adapt, Own
  <2>2. marks # {} /\ marks \cap {"error", "unresolved", "unsupported", "warning"} = {}
    BY <2>1, PassCondition
  <2>3. marks \cap Adverse = {}
    BY <2>1, <2>2 DEF Adverse, ContractMark
  <2> QED
    BY <1>1, <2>2, <2>3
<1>2. CASE p = "coverage"
  <2>1. FromDiffCoverage(marks).status = "pass" /\ marks \subseteq CoverageMark
    BY <1>2 DEF Adapt, Own
  <2>2. "uncovered" \notin marks
    BY <2>1, PassCondition
  <2>3. marks \cap Adverse = {}
    BY <2>1, <2>2 DEF Adverse, CoverageMark
  <2> QED
    BY <1>2, <2>3
<1>3. CASE p = "deps"
  <2>1. FromDependencyAudits(marks).status = "pass" /\ marks \subseteq DepsMark
    BY <1>3 DEF Adapt, Own
  <2>2. "snapshot" \in marks /\ marks \cap (Vulnerable \cup {"deprecated", "unknown"}) = {}
    BY <2>1, PassCondition
  <2>3. marks \cap Adverse = {}
    BY <2>1, <2>2 DEF Adverse, DepsMark, AuditMark
  <2> QED
    BY <1>3, <2>2, <2>3
<1>4. CASE p = "flake"
  <2>1. FromFlakeVerdicts(marks).status = "pass" /\ marks \subseteq FlakeMark
    BY <1>4 DEF Adapt, Own
  <2>2. marks # {} /\ marks \cap (FlakyMark \cup {"broken", "insufficient data"}) = {}
    BY <2>1, PassCondition
  <2>3. marks \cap Adverse = {}
    BY <2>1, <2>2 DEF Adverse, FlakeMark
  <2> QED
    BY <1>4, <2>2, <2>3
<1>5. CASE p = "mutate"
  <2>1. FromMutationSummary(marks).status = "pass" /\ marks \subseteq MutateMark
    BY <1>5 DEF Adapt, Own
  <2>2. marks # {} /\ "survivor" \notin marks
    BY <2>1, PassCondition
  <2>3. marks \cap Adverse = {}
    BY <2>1, <2>2 DEF Adverse, MutateMark
  <2> QED
    BY <1>5, <2>2, <2>3
<1> QED
  BY <1>1, <1>2, <1>3, <1>4, <1>5 DEF Pillar

\* A pillar that contributes a pass was asked, was not rejected, and its adapter
\* passed what it saw.
LEMMA PassedPillar ==
  ASSUME IInv, NEW p \in Pillar, contribution[p].status = "pass"
  PROVE  /\ p \in requested
         /\ seen[p] \cap Adverse = {}
         /\ p \in {"contract", "flake", "mutate"} => seen[p] # {}
         /\ p = "deps" => "snapshot" \in seen[p]
<1>1. contribution[p] # MissingPillar
  <2>1. MissingPillar.status = "missing"
    BY DEF MissingPillar, Verdict
  <2> QED
    BY <2>1
<1>2. p \in requested \ pending /\ seen[p] \cap Rejected = {}
  BY <1>1 DEF IInv, ContributionInv
<1>3. seen[p] \in SUBSET Own[p] /\ Adapt(p, seen[p]).status = "pass"
  BY <1>2 DEF IInv, ContributionInv, SeenInv
<1> QED
  BY <1>2, <1>3, AdaptPass

\* A pass is earned: all five pillars ran, and none saw anything adverse.
THEOREM PassEarned == Spec => []PassIsEarned
<1>1. ASSUME IInv PROVE PassIsEarned
  <2> DEFINE AllPass == \A p \in Pillar : contribution[p].status = "pass"
  <2>1. verdict.status = "pass" => AllPass
    <3> SUFFICES ASSUME verdict.status = "pass" PROVE AllPass
      OBVIOUS
    <3>1. Status(contribution, policy) = "pass"
      BY <1>1 DEF IInv, VerdictInv, NoVerdict, ComposeVerdict
    <3> QED
      BY <1>1, <3>1 DEF Status, Inconclusive, IInv, TypeOK, PillarVerdict, PillarStatus
  <2>2. ASSUME AllPass, NEW p \in Pillar
        PROVE  /\ p \in requested
               /\ seen[p] \cap Adverse = {}
               /\ p \in {"contract", "flake", "mutate"} => seen[p] # {}
               /\ p = "deps" => "snapshot" \in seen[p]
    BY <1>1, <2>2, PassedPillar
  <2>3. AllPass => requested = Pillar
    <3>1. requested \subseteq Pillar
      BY <1>1 DEF IInv, TypeOK
    <3> QED
      BY <2>2, <3>1
  <2>4. AllPass => \A p \in {"contract", "flake", "mutate"} : seen[p] # {}
    <3>1. {"contract", "flake", "mutate"} \subseteq Pillar
      BY DEF Pillar
    <3> HIDE DEF AllPass
    <3> QED
      BY <2>2, <3>1
  <2>5. AllPass => "snapshot" \in seen["deps"]
    <3>1. "deps" \in Pillar
      BY DEF Pillar
    <3> HIDE DEF AllPass
    <3> QED
      BY <2>2, <3>1
  <2>6. AllPass => \A p \in Pillar : seen[p] \cap Adverse = {}
    BY <2>2
  <2> HIDE DEF AllPass
  <2> QED
    BY <2>1, <2>3, <2>4, <2>5, <2>6 DEF PassIsEarned
<1> QED
  BY <1>1, Invariant, PTL

\* The cut only turns warnings into failures.
THEOREM CutEscalates == Spec => []PolicyOnlyEscalates
<1>1. ASSUME IInv PROVE PolicyOnlyEscalates
  <2> SUFFICES ASSUME verdict # NoVerdict
               PROVE  LET plain == Status(contribution, "unset")
                      IN  verdict.status = plain \/ (verdict.status = "fail" /\ plain = "warn")
    BY DEF PolicyOnlyEscalates
  <2>1. verdict.status = Status(contribution, policy)
    BY <1>1 DEF IInv, VerdictInv, ComposeVerdict
  <2>2. \A p \in Pillar :
          /\ ~ FailsByPolicy(contribution[p], "unset")
          /\ FailsByPolicy(contribution[p], policy) => contribution[p].status \in {"warn", "fail"}
    BY DEF FailsByPolicy
  <2> QED
    BY <2>1, <2>2 DEF Status
<1> QED
  BY <1>1, Invariant, PTL

\* Only a pillar with a finding carries a severity.
LEMMA SeverityNeedsFinding ==
  ASSUME IInv, NEW p \in Pillar
  PROVE  contribution[p].status \in {"warn", "fail"} <=> contribution[p].severity # "none"
<1>1. CASE p \notin requested \/ p \in pending
  <2>1. contribution[p] = MissingPillar
    BY <1>1 DEF IInv, ContributionInv
  <2>2. MissingPillar.status = "missing" /\ MissingPillar.severity = "none"
    BY DEF MissingPillar, Verdict
  <2> QED
    BY <2>1, <2>2
<1>2. CASE p \in requested \ pending /\ seen[p] \cap Rejected = {}
  <2>1. contribution[p] = Adapt(p, seen[p])
    BY <1>2 DEF IInv, ContributionInv
  <2>2. Adapt(p, seen[p]).status \in {"warn", "fail"} <=> Adapt(p, seen[p]).severity # "none"
    BY AdaptShape
  <2> QED
    BY <2>1, <2>2
<1>3. CASE p \in requested \ pending /\ seen[p] \cap Rejected # {}
  BY <1>3 DEF IInv, ContributionInv
<1> QED
  BY <1>1, <1>2, <1>3

\* A verdict that blames names a pillar with a finding, any other names nobody.
THEOREM CulpritNamed == Spec => []CulpritIsNamed
<1>1. ASSUME IInv PROVE CulpritIsNamed
  <2> SUFFICES ASSUME verdict # NoVerdict
               PROVE  /\ verdict.status \in {"warn", "fail"} <=> verdict.worst \in Pillar
                      /\ verdict.worst \in Pillar =>
                           contribution[verdict.worst].status \in {"warn", "fail"}
    BY DEF CulpritIsNamed
  <2> DEFINE worst == WorstSeverity(contribution)
  <2>1. /\ verdict.status = Status(contribution, policy)
        /\ verdict.worst = WorstPillar(contribution)
    BY <1>1 DEF IInv, VerdictInv, ComposeVerdict
  <2>2. /\ \A p \in Pillar : Rank[contribution[p].severity] <= Rank[worst]
        /\ IF worst = "none"
             THEN verdict.worst = "nobody"
             ELSE verdict.worst \in Pillar /\ contribution[verdict.worst].severity = worst
    BY <1>1, <2>1, WorstPillarShape DEF IInv, TypeOK
  <2>3. worst = "none" <=> \A p \in Pillar : contribution[p].severity = "none"
    <3>1. \A p \in Pillar : contribution[p].severity \in Severity
      BY <1>1 DEF IInv, TypeOK, PillarVerdict
    <3>2. \A s \in Severity : Rank[s] <= Rank["none"] => s = "none"
      BY DEF Severity, Rank
    <3> QED
      BY <2>2, <3>1, <3>2
  <2>4. verdict.status \in {"warn", "fail"} <=>
          \E p \in Pillar : contribution[p].status \in {"warn", "fail"}
    BY <2>1 DEF Status, FailsByPolicy
  <2>5. "nobody" \notin Pillar
    BY DEF Pillar
  <2> QED
    BY <1>1, <2>2, <2>3, <2>4, <2>5, SeverityNeedsFinding
<1> QED
  BY <1>1, Invariant, PTL

\* What each adapter makes of a finding.
LEMMA FindingCondition ==
  ASSUME NEW marks
  PROVE  /\ "error" \in marks => FromCaptureVerdict(marks).status = "fail"
         /\ "uncovered" \in marks => FromDiffCoverage(marks).status = "fail"
         /\ "broken" \in marks => FromFlakeVerdicts(marks).status = "fail"
         /\ marks \cap FlakyMark # {} => FromFlakeVerdicts(marks).status \in {"warn", "fail"}
         /\ "survivor" \in marks => FromMutationSummary(marks).status = "warn"
         /\ "snapshot" \in marks /\ marks \cap (Vulnerable \cup {"deprecated"}) # {} =>
              FromDependencyAudits(marks).status = "warn"
<1>1. \A s, v : Verdict(s, v).status = s
  BY DEF Verdict
<1>2. "error" \in marks => FromCaptureVerdict(marks).status = "fail"
  BY <1>1 DEF FromCaptureVerdict
<1>3. "uncovered" \in marks => FromDiffCoverage(marks).status = "fail"
  BY <1>1 DEF FromDiffCoverage
<1>4. /\ "broken" \in marks => FromFlakeVerdicts(marks).status = "fail"
      /\ marks \cap FlakyMark # {} => FromFlakeVerdicts(marks).status \in {"warn", "fail"}
  BY <1>1 DEF FromFlakeVerdicts
<1>5. "survivor" \in marks => FromMutationSummary(marks).status = "warn"
  BY <1>1 DEF FromMutationSummary
<1>6. "snapshot" \in marks /\ marks \cap (Vulnerable \cup {"deprecated"}) # {} =>
        FromDependencyAudits(marks).status = "warn"
  BY <1>1 DEF FromDependencyAudits
<1> QED
  BY <1>2, <1>3, <1>4, <1>5, <1>6

\* A vulnerability is reported with a severity no lower than its own.
LEMMA VulnerabilityRated ==
  ASSUME NEW marks, "snapshot" \in marks, NEW s \in marks \cap Vulnerable
  PROVE  /\ FromDependencyAudits(marks).status = "warn"
         /\ Rank[s] <= Rank[FromDependencyAudits(marks).severity]
<1> DEFINE found == marks \cap Vulnerable
<1>1. FromDependencyAudits(marks) = Verdict("warn", WorstOf(found))
  BY DEF FromDependencyAudits
<1>2. /\ Verdict("warn", WorstOf(found)).status = "warn"
      /\ Verdict("warn", WorstOf(found)).severity = WorstOf(found)
  BY DEF Verdict
<1>3. Rank[s] <= Rank[WorstOf(found)]
  <2>1. found \in SUBSET Severity /\ found # {}
    BY DEF Vulnerable, Severity
  <2> QED
    BY <2>1, WorstExists
<1> HIDE DEF found
<1> QED
  BY <1>1, <1>2, <1>3

\* A pillar that saw more than its rejection contributes its adapter's verdict.
LEMMA FindingContributes ==
  ASSUME IInv, pending = {}, NEW p \in Pillar,
         ~ (seen[p] \subseteq Rejected \cup {"snapshot"})
  PROVE  contribution[p] = Adapt(p, seen[p])
<1>1. p \in requested \ pending
  BY DEF IInv, SeenInv
<1>2. seen[p] \cap Rejected = {}
  BY DEF IInv, SeenInv
<1> QED
  BY <1>1, <1>2 DEF IInv, ContributionInv

\* The fold fails on a failing pillar, and warns at least on one that warns.
LEMMA FoldShows ==
  ASSUME NEW f, NEW cut, NEW p \in Pillar
  PROVE  /\ f[p].status = "fail" => Status(f, cut) = "fail"
         /\ f[p].status \in {"warn", "fail"} => Status(f, cut) \in {"warn", "fail"}
         /\ FailsByPolicy(f[p], cut) => Status(f, cut) = "fail"
BY DEF Status

\* A finding of one pillar shows in the verdict, whatever the others do.
THEOREM FindingsShown == Spec => []FindingsSurface
<1>1. ASSUME IInv, verdict # NoVerdict
      PROVE  pending = {} /\ verdict.status = Status(contribution, policy)
  BY <1>1 DEF IInv, VerdictInv, ComposeVerdict
<1>2. Pillar = {"contract", "coverage", "deps", "flake", "mutate"}
  BY DEF Pillar
<1>3. /\ \A x \in {"error", "uncovered", "broken", "survivor", "deprecated"} :
           x \notin Rejected \cup {"snapshot"}
      /\ (FlakyMark \cup Vulnerable) \cap (Rejected \cup {"snapshot"}) = {}
  BY DEF Rejected, FlakyMark, Vulnerable
<1>4. ASSUME IInv, verdict # NoVerdict, Breaches # {}
      PROVE  Status(contribution, policy) = "fail"
  <2>1. CASE "error" \in seen["contract"]
    <3>1. contribution["contract"] = FromCaptureVerdict(seen["contract"])
      BY <1>1, <1>2, <1>3, <1>4, <2>1, FindingContributes DEF Adapt
    <3> QED
      BY <1>2, <2>1, <3>1, FindingCondition, FoldShows
  <2>2. CASE "uncovered" \in seen["coverage"]
    <3>1. contribution["coverage"] = FromDiffCoverage(seen["coverage"])
      BY <1>1, <1>2, <1>3, <1>4, <2>2, FindingContributes DEF Adapt
    <3> QED
      BY <1>2, <2>2, <3>1, FindingCondition, FoldShows
  <2>3. CASE "broken" \in seen["flake"]
    <3>1. contribution["flake"] = FromFlakeVerdicts(seen["flake"])
      BY <1>1, <1>2, <1>3, <1>4, <2>3, FindingContributes DEF Adapt
    <3> QED
      BY <1>2, <2>3, <3>1, FindingCondition, FoldShows
  <2> QED
    BY <1>4, <2>1, <2>2, <2>3 DEF Breaches
<1>5. ASSUME IInv, verdict # NoVerdict, Weaknesses # {}
      PROVE  Status(contribution, policy) \in {"warn", "fail"}
  <2>1. CASE seen["flake"] \cap FlakyMark # {}
    <3>1. contribution["flake"] = FromFlakeVerdicts(seen["flake"])
      BY <1>1, <1>2, <1>3, <1>5, <2>1, FindingContributes DEF Adapt
    <3> QED
      BY <1>2, <2>1, <3>1, FindingCondition, FoldShows
  <2>2. CASE "survivor" \in seen["mutate"]
    <3>1. contribution["mutate"] = FromMutationSummary(seen["mutate"])
      BY <1>1, <1>2, <1>3, <1>5, <2>2, FindingContributes DEF Adapt
    <3> QED
      BY <1>2, <2>2, <3>1, FindingCondition, FoldShows
  <2>3. CASE "snapshot" \in seen["deps"] /\ seen["deps"] \cap (Vulnerable \cup {"deprecated"}) # {}
    <3>1. contribution["deps"] = FromDependencyAudits(seen["deps"])
      BY <1>1, <1>2, <1>3, <1>5, <2>3, FindingContributes DEF Adapt
    <3> QED
      BY <1>2, <2>3, <3>1, FindingCondition, FoldShows
  <2> QED
    BY <1>5, <2>1, <2>2, <2>3 DEF Weaknesses
<1>6. ASSUME IInv, verdict # NoVerdict, NEW s \in seen["deps"] \cap Vulnerable,
             policy # "unset", Rank[s] >= Rank[policy]
      PROVE  Status(contribution, policy) = "fail"
  <2>1. "snapshot" \in seen["deps"]
    BY <1>6 DEF IInv, SnapshotInv
  <2>2. contribution["deps"] = FromDependencyAudits(seen["deps"])
    BY <1>1, <1>2, <1>3, <1>6, FindingContributes DEF Adapt
  <2>3. contribution["deps"].status = "warn" /\ Rank[s] <= Rank[contribution["deps"].severity]
    BY <2>1, <2>2, VulnerabilityRated
  <2>4. \A t \in Severity : Rank[t] \in Nat
    BY DEF Severity, Rank
  <2>5. s \in Severity /\ policy \in Severity /\ contribution["deps"].severity \in Severity
    BY <1>2, <1>6 DEF IInv, TypeOK, PillarVerdict, Vulnerable, Severity
  <2>6. Rank[contribution["deps"].severity] >= Rank[policy]
    BY <1>6, <2>3, <2>4, <2>5
  <2>7. FailsByPolicy(contribution["deps"], policy)
    BY <1>6, <2>3, <2>6 DEF FailsByPolicy
  <2> QED
    BY <1>2, <2>7, FoldShows
<1>7. IInv => FindingsSurface
  BY <1>1, <1>4, <1>5, <1>6 DEF FindingsSurface
<1> QED
  BY <1>7, Invariant, PTL

-----------------------------------------------------------------------------
(* Verify implements Posture. *)

\* A result in the place of a pass never improves the status of the fold.
LEMMA StatusWorsens ==
  ASSUME NEW f, NEW g, NEW cut, NEW p \in Pillar,
         f[p] = Verdict("pass", "none"),
         \A q \in Pillar \ {p} : g[q] = f[q]
  PROVE  P!Level[Status(g, cut)] >= P!Level[Status(f, cut)]
<1> DEFINE Failing(h) == \E q \in Pillar : h[q].status = "fail" \/ FailsByPolicy(h[q], cut)
           Warning(h) == \E q \in Pillar : h[q].status = "warn"
           Lacking(h) == \E q \in Pillar : Inconclusive(h[q])
<1>1. f[p].status = "pass" /\ f[p].reason = ""
  <2>1. Verdict("pass", "none").status = "pass" /\ Verdict("pass", "none").reason = ""
    BY DEF Verdict
  <2> QED
    BY <2>1
<1>2. ~ FailsByPolicy(f[p], cut) /\ ~ Inconclusive(f[p])
  BY <1>1 DEF FailsByPolicy, Inconclusive
<1>3. (Failing(f) => Failing(g)) /\ (Warning(f) => Warning(g)) /\ (Lacking(f) => Lacking(g))
  BY <1>1, <1>2
<1>4. \A h : Status(h, cut) = IF Failing(h) THEN "fail"
                              ELSE IF Warning(h) THEN "warn"
                              ELSE IF Lacking(h) THEN "inconclusive"
                              ELSE "pass"
  BY DEF Status
<1> HIDE DEF Failing, Warning, Lacking
<1> QED
  BY <1>3, <1>4 DEF P!Level

\* Before the fold nothing has been answered.
LEMMA NothingAnswered ==
  ASSUME IInv, pending # {}
  PROVE  verdict.status = "none"
BY DEF IInv, VerdictInv, NoVerdict

LEMMA InitRefines == Init => P!Init
<1> SUFFICES ASSUME Init PROVE P!Init
  OBVIOUS
<1>1. \A p \in Pillar : SoFar[p] \in {MissingPillar, Verdict("pass", "none")}
  BY DEF Init, SoFar
<1>2. \A p \in Pillar : SoFar[p].status \notin {"warn", "fail"}
  <2>1. MissingPillar.status = "missing" /\ Verdict("pass", "none").status = "pass"
    BY DEF MissingPillar, Verdict
  <2> QED
    BY <1>1, <2>1
<1>3. Status(SoFar, policy) \in {"pass", "inconclusive"}
  BY <1>2 DEF Status, FailsByPolicy
<1>4. verdict.status = "none"
  BY DEF Init, NoVerdict
<1> QED
  BY <1>3, <1>4 DEF P!Init

\* A run that settles is heard.
LEMMA SettleRefines ==
  ASSUME IInv, NEW p \in Pillar, NEW v, NEW marks, Settle(p, v, marks)
  PROVE  P!Hear
<1>1. SoFar[p] = Verdict("pass", "none")
  BY DEF SoFar, Settle
<1>2. \A q \in Pillar \ {p} : SoFar'[q] = SoFar[q]
  BY DEF SoFar, Settle, IInv, TypeOK
<1>3. P!Level[Status(SoFar', policy)] >= P!Level[Status(SoFar, policy)]
  BY <1>1, <1>2, StatusWorsens
<1>4. Status(SoFar', policy) \in P!OverallStatus
  BY StatusType DEF P!OverallStatus
<1>5. policy' = policy /\ verdict' = verdict
  BY DEF Settle
<1>6. verdict.status = "none"
  BY NothingAnswered DEF Settle
<1> QED
  BY <1>3, <1>4, <1>5, <1>6 DEF P!Hear

LEMMA FoldRefines ==
  ASSUME IInv, Fold
  PROVE  P!Answer
<1>1. SoFar = contribution /\ SoFar' = contribution
  BY DEF Fold, SoFar, IInv, TypeOK
<1>2. policy' = policy
  BY DEF Fold
<1>3. verdict.status = "none"
  BY DEF Fold, NoVerdict
<1>4. verdict'.status = Status(contribution, policy)
  BY DEF Fold, ComposeVerdict
<1> QED
  BY <1>1, <1>2, <1>3, <1>4 DEF P!Answer

LEMMA StutterRefines ==
  ASSUME UNCHANGED <<policy, pending, contribution, verdict>>
  PROVE  UNCHANGED P!vars
<1>1. SoFar' = SoFar
  BY DEF SoFar
<1> QED
  BY <1>1 DEF P!vars

\* orchestrate implements Posture: results only worsen the posture, and the
\* verdict is the posture when all have reported.
THEOREM PostureRefined == Spec => PostureOnlyWorsens
<1>1. IInv /\ [Next]_vars => [P!Next]_(P!vars)
  <2> SUFFICES ASSUME IInv, [Next]_vars PROVE P!Next \/ UNCHANGED P!vars
    OBVIOUS
  <2>1. ASSUME NEW p \in Pillar, Return(p) PROVE P!Hear
    BY <2>1, SettleRefines DEF Return
  <2>2. ASSUME NEW p \in Pillar, Reject(p) PROVE P!Hear
    BY <2>2, SettleRefines DEF Reject
  <2>3. ASSUME NEW marks, VisitPackage(marks) PROVE UNCHANGED P!vars
    BY <2>3, StutterRefines DEF VisitPackage
  <2>4. CASE AuditPackage
    BY <2>3, <2>4 DEF AuditPackage
  <2>5. CASE PackageFails
    BY <2>3, <2>5 DEF PackageFails
  <2>6. CASE DepsReturns
    BY <2>6, SettleRefines DEF DepsReturns, Pillar, P!Next
  <2>7. CASE Fold
    BY <2>7, FoldRefines DEF P!Next
  <2>8. CASE UNCHANGED vars
    <3>1. UNCHANGED <<policy, pending, contribution, verdict>>
      BY <2>8 DEF vars
    <3> QED
      BY <3>1, StutterRefines
  <2> QED
    BY <2>1, <2>2, <2>4, <2>5, <2>6, <2>7, <2>8 DEF Next, P!Next
<1> QED
  BY <1>1, InitRefines, Invariant, PTL DEF Spec, PostureOnlyWorsens, P!Spec

=============================================================================
