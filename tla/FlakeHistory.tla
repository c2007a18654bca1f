---------------------------- MODULE FlakeHistory ----------------------------
(***************************************************************************)
(* The run history of tests, its classification and the quarantine:        *)
(* report.ts, pytest.ts, store.ts, classify.ts and quarantine.ts of        *)
(* packages/flake.                                                         *)
(*                                                                         *)
(* A time is a text [instant, offset]: what SQLite compares is what the    *)
(* text shows, what Date.parse reads is the instant.  A report is a        *)
(* sequence of [test, status]; a test is [title, n], and two tests may     *)
(* have one title.                                                         *)
(***************************************************************************)
EXTENDS ToolScope, Sorting

Shown(t) == t.instant + t.offset

BugOutcome(framework, status) ==
  CASE status = "passed" -> "pass"
    [] OTHER -> "fail"

\* outcome: only what passed or failed says something.
Outcome(framework, status) ==
  CASE status = "passed" -> "pass"
    [] status = "failed" -> "fail"
    [] status = "error" /\ framework = "pytest" -> "fail"
    [] OTHER -> "none"

\* fileLabel, titlePart; stableId: vitest names its files absolutely.
TestId(framework, test, rooted) ==
  [title |-> test.title, file |-> IF framework = "pytest" \/ rooted THEN "relative" ELSE "absolute"]

\* parseVitestJson, parsePytestJson
RecordedRuns(framework, report, opts) ==
  LET run(r) == [id     |-> TestId(framework, r.test, opts.rooted),
                 passed |-> Outcome(framework, r.status) = "pass",
                 at     |-> opts.at]
      runs[i \in 0 .. Len(report)] ==
        IF i = 0 THEN <<>>
        ELSE IF Outcome(framework, report[i].status) = "none" THEN runs[i - 1]
        ELSE Append(runs[i - 1], run(report[i]))
  IN  runs[Len(report)]

-----------------------------------------------------------------------------

\* The rows of one test, by time and then as they came.
History(rows, id, since) ==
  LET mine   == {i \in DOMAIN rows : rows[i].id = id /\ (since # None => Shown(rows[i].at) >= Shown(since))}
      sorted == Sorted(mine, {p \in mine \X mine :
                                \/ Shown(rows[p[1]].at) < Shown(rows[p[2]].at)
                                \/ Shown(rows[p[1]].at) = Shown(rows[p[2]].at) /\ p[1] < p[2]})
  IN  [k \in DOMAIN sorted |-> rows[sorted[k]].passed]

\* histories: the last runs of each test.
Limited(runs, limit) ==
  IF limit = None \/ Len(runs) <= limit THEN runs ELSE SubSeq(runs, Len(runs) - limit + 1, Len(runs))

\* classifyHistory
ClassifyHistory(runs, minRuns) ==
  LET passes   == \E i \in DOMAIN runs : runs[i]
      failures == \E i \in DOMAIN runs : ~ runs[i]
  IN  IF passes /\ failures THEN "flaky"
      ELSE IF Len(runs) < minRuns \/ runs = <<>> THEN "insufficient-data"
      ELSE IF passes THEN "reliable" ELSE "broken"

Ids(rows) == {rows[i].id : i \in DOMAIN rows}

\* HistoryStore.classify
Classify(rows, opts) ==
  [id \in {id \in Ids(rows) : History(rows, id, opts.since) # <<>>} |->
     ClassifyHistory(Limited(History(rows, id, opts.since), opts.limit), opts.minRuns)]

\* quarantineCandidates: a broken test is to be fixed.
QuarantineCandidates(verdicts) == {id \in DOMAIN verdicts : verdicts[id] = "flaky"}

-----------------------------------------------------------------------------
(* The quarantine: a function from test ids to [since, until].             *)

\* Quarantine.quarantine: the expiry is read as an instant.
MayQuarantine(policy, reason, until, now) ==
  /\ policy.allowed /\ policy.cap > 0 /\ reason # ""
  /\ until.instant > now.instant /\ until.instant - now.instant <= policy.cap

Quarantined(entries, id, until, now) ==
  [i \in DOMAIN entries \cup {id} |-> IF i = id THEN [since |-> now, until |-> until] ELSE entries[i]]

Released(entries, id) == [i \in DOMAIN entries \ {id} |-> entries[i]]

IsQuarantined(entries, id, now) == id \in DOMAIN entries /\ entries[id].until.instant > now.instant

\* Quarantine.active: the texts are compared.
Active(entries, now) == {id \in DOMAIN entries : Shown(entries[id].until) > Shown(now)}
=============================================================================
