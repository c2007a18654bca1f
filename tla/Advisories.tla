----------------------------- MODULE Advisories -----------------------------
(***************************************************************************)
(* Versions, advisories and the audit of one package: packages/deps        *)
(* (comparator.ts, pep440.ts, gem.ts, osv.ts, audit.ts, deprecation.ts).   *)
(*                                                                         *)
(* A text stands for a version as someone wrote it.  Its form is "full"    *)
(* (1.2.0), "short" (1.2), "constraint" (^1.2.0, >=1.2) or "junk" (star):  *)
(* what an ecosystem can read depends on the form.  Zero is the mark OSV   *)
(* uses for "from the beginning".                                          *)
(***************************************************************************)
EXTENDS Absence, Integers, FiniteSets, Sequences, Sorting

CONSTANTS Zero, NumberBase

ASSUME BaseAssumption == NumberBase \in Nat \ {0}

\* The precedence of a version whose second and third numbers are below NumberBase:
\* by its numbers in turn, and a pre-release before its release.
Number(v) == 2 * (NumberBase * (NumberBase * v.major + v.minor) + v.patch) + (IF v.stable THEN 1 ELSE 0)

\* semver takes three numbers; PEP 440 and Gem as many as there are.
IsValid(eco, t) == t.form = "full" \/ (t.form = "short" /\ eco # "npm")

\* semver coerces what it can find a number in, and drops a prerelease of it.
Comparable(eco, t) ==
  IF IsValid(eco, t) THEN t.v
  ELSE IF eco = "npm" /\ t.form # "junk" THEN [t.v EXCEPT !.stable = TRUE] ELSE None

Sign(n) == IF n > 0 THEN 1 ELSE IF n < 0 THEN -1 ELSE 0

\* compareVersions: what cannot be read is equal to everything.
Compare(eco, a, b) ==
  IF a = b THEN 0
  ELSE IF b = Zero THEN 1
  ELSE IF a = Zero THEN -1
  ELSE LET ca == Comparable(eco, a)
           cb == Comparable(eco, b)
       IN  IF None \in {ca, cb} THEN 0 ELSE Sign(Number(ca) - Number(cb))

Newer(a, b) == Number(a.v) > Number(b.v)

-----------------------------------------------------------------------------
(* Matching: osv.ts.                                                       *)

\* The order the events of a range are taken in: by version, and an
\* introduction before a fix of the same version.
Before(eco, x, y) ==
  LET c == Compare(eco, x.at, y.at)
  IN  c < 0 \/ (c = 0 /\ x.kind = "introduced" /\ y.kind # "introduced")

InTurn(eco, events) ==
  LET order == {p \in (DOMAIN events) \X (DOMAIN events) :
                  \/ Before(eco, events[p[1]], events[p[2]])
                  \/ ~ Before(eco, events[p[2]], events[p[1]]) /\ p[1] < p[2]}
  IN  Sorted(DOMAIN events, order)

BugTurn(eco, t, on, e) ==
  LET c == Compare(eco, t, e.at)
  IN  CASE e.kind = "introduced" -> on \/ c >= 0
        [] e.kind = "fixed"      -> on /\ c < 0
        [] OTHER                 -> on /\ c < 0

\* One event of the scan: a fix ends the window at its version, last_affected
\* after it.
Turn(eco, t, on, e) ==
  LET c == Compare(eco, t, e.at)
  IN  CASE e.kind = "introduced" -> on \/ c >= 0
        [] e.kind = "fixed"      -> on /\ c < 0
        [] OTHER                 -> on /\ c <= 0

VersionInRange(eco, t, events) ==
  LET sorted == InTurn(eco, events)
      after[i \in 0 .. Len(events)] == i > 0 /\ Turn(eco, t, after[i - 1], events[sorted[i]])
  IN  after[Len(events)]

AffectedByEntry(eco, t, entry) ==
  \/ t \in entry.versions
  \/ \E r \in entry.ranges : r.type # "GIT" /\ VersionInRange(eco, t, r.events)

Bucket == <<"low", "moderate", "high", "critical">>

\* A CVSS v3 base score, in tenths.
SeverityFromScore(score) ==
  IF score >= 90 THEN 4 ELSE IF score >= 70 THEN 3 ELSE IF score >= 40 THEN 2
  ELSE IF score >= 1 THEN 1 ELSE 0

\* resolveSeverity: 0 is unknown.  The word wins over the vectors.
ResolveSeverity(advisory, hit) ==
  LET words  == {e.word : e \in hit} \ {0}
      scores == {SeverityFromScore(s) : s \in UNION {e.scores : e \in hit} \cup advisory.scores}
  IN  IF words # {} THEN CHOOSE w \in words : TRUE
      ELSE IF advisory.word # 0 THEN advisory.word
      ELSE CHOOSE s \in scores \cup {0} : \A o \in scores : s >= o

FixedVersions(entry) ==
  UNION {{r.events[i].at : i \in {j \in DOMAIN r.events : r.events[j].kind = "fixed"}}
           : r \in {r \in entry.ranges : r.type # "GIT"}}

MatchVulnerabilities(advisories, eco, name, t) ==
  LET hit(a) == {e \in a.affected : e.ecosystem = eco /\ e.name = name /\ AffectedByEntry(eco, t, e)}
  IN  {[id |-> a.id, severity |-> ResolveSeverity(a, hit(a)), fixedIn |-> UNION {FixedVersions(e) : e \in hit(a)}]
         : a \in {a \in advisories : hit(a) # {}}}

-----------------------------------------------------------------------------
(* The audit: audit.ts.                                                    *)

\* auditDeprecation: of the version as it is written, then of the package.
Deprecation(packument, t) ==
  IF t \in packument.deprecated THEN "version"
  ELSE IF packument.sunset THEN "package" ELSE "no"

StableVersions(eco, packument) == {t \in packument.versions : IsValid(eco, t) /\ t.v.stable}

MaxVersion(texts) ==
  IF texts = {} THEN None ELSE CHOOSE t \in texts : \A o \in texts : ~ Newer(o, t)

\* computeFreshness: the tag when it can be read, else the newest stable one.
Freshness(eco, t, packument) ==
  LET stable == StableVersions(eco, packument)
      latest == IF packument.latest # None /\ IsValid(eco, packument.latest)
                THEN packument.latest ELSE MaxVersion(stable)
  IN  [latest        |-> latest,
       sameMajor     |-> IF IsValid(eco, t)
                         THEN MaxVersion({s \in stable : s.v.major = t.v.major}) ELSE None,
       isOutdated    |-> IsValid(eco, t) /\ latest # None /\ Newer(latest, t)]

\* lowestSafeVersion: every candidate is matched anew against all advisories.
LowestSafeVersion(packument, advisories, eco, name, t) ==
  LET safe == {c \in StableVersions(eco, packument) :
                 Newer(c, t) /\ MatchVulnerabilities(advisories, eco, name, c) = {}}
  IN  IF safe = {} THEN None ELSE CHOOSE c \in safe : \A o \in safe : ~ Newer(c, o)

\* -1 is no vulnerability, 0 only ones of unknown severity.
WorstOf(matches) ==
  IF matches = {} THEN -1
  ELSE (CHOOSE m \in matches : \A o \in matches : m.severity >= o.severity).severity

AuditDependency(name, eco, t, packument, advisories) ==
  LET matches == MatchVulnerabilities(advisories, eco, name, t)
      fresh   == Freshness(eco, t, packument)
  IN  [package            |-> name,
       installed          |-> t,
       deprecated         |-> Deprecation(packument, t),
       vulnerabilities    |-> matches,
       worstSeverity      |-> WorstOf(matches),
       isOutdated         |-> fresh.isOutdated,
       recommendedTarget  |-> IF fresh.sameMajor # None /\ IsValid(eco, t) /\ Newer(fresh.sameMajor, t)
                              THEN fresh.sameMajor ELSE None,
       minimumSafeUpgrade |-> IF matches # {} /\ IsValid(eco, t)
                              THEN LowestSafeVersion(packument, advisories, eco, name, t) ELSE None]
=============================================================================
