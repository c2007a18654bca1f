--------------------------- MODULE DependencyAudit ---------------------------
(***************************************************************************)
(* Auditing the dependencies of a project: what a diff touched or a        *)
(* manifest declares is detected, fetched and audited one package after    *)
(* another, for `sackville deps` (packages/cli/src/deps.ts), the deps      *)
(* server (packages/mcp/src/deps.ts, bin-deps.ts) and the deps pillar of a *)
(* verdict.                                                                *)
(*                                                                         *)
(* The diff is written a line at a time.  It has two sides, the old file   *)
(* and the new: a removed line is of the one, an added line of the other,  *)
(* a line of context of both.  `real` is where the side that moved last is *)
(* in its file, where the other is when that is elsewhere (`away`), and    *)
(* which names the lines really change.                                    *)
(***************************************************************************)
EXTENDS Advisories, ChangedDependencies

CONSTANTS
  AuditSuites,     \* what is asked, of which projects, registries and snapshots
  MaxLines    \* of a diff

VARIABLES
  job,
  walk,      \* changedDependencies: the classifier of the file, the names found
  real,
  names,     \* the packages to audit; None before they are known
  audits,    \* what auditOne returned, per package
  errors,    \* the packages for which it threw
  told       \* what the caller got

avars == <<job, walk, real, names, audits, errors, told>>

Nowhere == [at |-> None, array |-> None, shown |-> FALSE, block |-> {}, touched |-> FALSE,
            away |-> None, changed |-> {}, hidden |-> {}, doubt |-> {}]

Unread == walk = [c |-> None, found |-> {}, lines |-> 0]
Unaudited == names = None /\ audits = {} /\ errors = {} /\ told = None

AuditInit ==
  /\ \E s \in AuditSuites : \E q \in s.questions, p \in s.projects, r \in s.registries, a \in s.databases :
       job = [surface |-> q.surface, eco |-> q.eco, diff |-> q.diff, snapshot |-> q.snapshot,
              version |-> q.version, package |-> q.package, includeDev |-> q.includeDev,
              project |-> p.versions, manifest |-> p.manifest, registry |-> r, advisories |-> a]
  /\ Unread /\ real = Nowhere /\ Unaudited

\* A version is a text, and what an advisory says of one is a version of its
\* ecosystem or the mark of the beginning; GIT ranges name commits.
Versions == [major : Nat, minor : 0 .. NumberBase - 1, patch : 0 .. NumberBase - 1, stable : BOOLEAN]

Texts == [v : Versions, form : {"full", "short", "constraint", "junk"}]

IsRange(eco, events) ==
  /\ Len(events) \in Nat /\ DOMAIN events = 1 .. Len(events)
  /\ \A i \in 1 .. Len(events) :
       /\ events[i].kind \in {"introduced", "fixed", "last_affected"}
       /\ events[i].at = Zero \/ (events[i].at \in Texts /\ IsValid(eco, events[i].at))

IsAdvisory(a) ==
  /\ a.word \in 0 .. 4
  /\ \A e \in a.affected :
       /\ e.word \in 0 .. 4
       /\ \A r \in e.ranges : r.type # "GIT" => IsRange(e.ecosystem, r.events)

IsRegistry(r) == r # None => r.versions \subseteq Texts

SaidVersions(said) == {said.installed, said.lock, said.requirements, said.manifest} \ {None}

\* Only a project has a diff.
ASSUME AuditAssumption ==
  /\ None \notin {"", "top", "dependencies", "other", "project", "optional", "poetry", "tool", "package", "metadata",
                  "classifiers", "wanted", "requirements"}
  /\ Zero \notin Texts /\ None \notin Texts \cup Versions \cup {[exit |-> 0], [findings |-> {}, failed |-> {}]}
  /\ \A s \in AuditSuites :
       /\ \A q \in s.questions :
            /\ q.surface \in {"audit", "audit_dependency"} => ~ q.diff
            /\ q.version \in Texts \cup {None}
       /\ \A p \in s.projects :
            /\ None \notin DOMAIN p.versions \cup Classifiers(Spellings(DOMAIN p.versions))
            /\ \A n \in DOMAIN p.versions : SaidVersions(p.versions[n]) \subseteq Texts
       /\ \A r \in s.registries : IsRegistry(r)
       /\ \A d \in s.databases : \A a \in d : IsAdvisory(a)

ReadsDiff == told = None /\ names = None /\ job.diff
Auditing == told = None /\ names # None

-----------------------------------------------------------------------------
(* The diff: changedDependencies.                                          *)

Names == DOMAIN job.project

Found == walk.found \cup (IF walk.c = None THEN {} ELSE Flush(walk.c).names)

Places(kind) ==
  CASE kind = "package.json"   -> {"top", "dependencies", "other"}
    [] kind = "pyproject.toml" -> {"project", "optional", "poetry", "tool"}
    [] OTHER                   -> {"top"}

MovedTo(kind, place) ==
  [real EXCEPT !.at = place, !.array = None, !.shown = FALSE, !.block = {}, !.touched = FALSE, !.away = None]

\* A line of the diff names a file, and its classifier begins.
File(kind) ==
  /\ ReadsDiff /\ walk.lines < MaxLines
  /\ \E place \in Places(kind) : real' = MovedTo(kind, place)
  /\ walk' = [c |-> Profile(job.eco, kind), found |-> Found, lines |-> walk.lines + 1]
  /\ UNCHANGED <<job, names, audits, errors, told>>

Hunk ==
  /\ ReadsDiff /\ walk.lines < MaxLines /\ walk.c # None
  /\ \E place \in Places(walk.c.kind) : real' = MovedTo(walk.c.kind, place)
  /\ walk' = [walk EXCEPT !.c = Reset(walk.c), !.lines = @ + 1]
  /\ UNCHANGED <<job, names, audits, errors, told>>

\* A line, where its side goes from here, and the names it declares.
Step(line, to, declares) == [line |-> line, to |-> to, declares |-> declares]

ClosingLine == [Plain EXCEPT !.closes = TRUE]

NpmSteps(r) ==
  CASE r.at = "top" ->
         {Step([Plain EXCEPT !.dep = TRUE, !.key = Word("dependencies")],
               [r EXCEPT !.at = "dependencies", !.shown = TRUE], {}),
          Step([Plain EXCEPT !.key = Word("scripts")], [r EXCEPT !.at = "other"], {}),
          Step([Plain EXCEPT !.dep = TRUE, !.key = Word("dependencies")],
               [r EXCEPT !.doubt = @ \cup {"inline"}], {})}
    [] r.at = "dependencies" ->
         {Step([Plain EXCEPT !.key = n], r, {n}) : n \in Names}
         \cup {Step(ClosingLine, [r EXCEPT !.at = "top", !.shown = FALSE], {})}
    [] OTHER ->
         {Step([Plain EXCEPT !.key = k], r, {}) : k \in Names \cup {Word("build")}}
         \cup {Step(ClosingLine, [r EXCEPT !.at = "top"], {})}

\* A row of an array of pyproject.toml, its last line, the line that opens one
\* (all of it, when it closes there; nothing of it, when it does not), and a key
\* of a table; shown: the header of the section, or the opening of the array, was.
ArrayRow(r, n, closes) ==
  Step([Plain EXCEPT !.quoted = {n}, !.closes = closes],
       [r EXCEPT !.array = IF closes THEN None ELSE @],
       IF r.array = "requirements" THEN {n} ELSE {})

ArrayCloses(r) == Step(ClosingLine, [r EXCEPT !.array = None], {})

ArrayOpens(r, k, n, closes) ==
  LET wanted == r.at = "optional" \/ (r.at = "project" /\ k = "dependencies")
  IN  Step([Plain EXCEPT !.array = k, !.quoted = IF closes THEN {n} ELSE {}, !.closes = closes],
           [r EXCEPT !.array = IF closes THEN None ELSE IF wanted THEN "requirements" ELSE "other",
                        !.doubt = @ \cup (IF ~ r.shown /\ ~ wanted /\ k = "dependencies"
                                          THEN {"section"} ELSE {})],
           IF wanted /\ closes THEN {n} ELSE {})

TableKey(r, n) == Step([Plain EXCEPT !.key = n], r, IF r.at = "poetry" THEN {n} ELSE {})

TableHeader(r, p) == Step([Plain EXCEPT !.header = p], [r EXCEPT !.at = p, !.shown = TRUE], {})

TableSteps(r) ==
  {TableHeader(r, p) : p \in Places("pyproject.toml")}
  \cup {ArrayOpens(r, k, n, closes) : k \in {"dependencies", "classifiers"}, n \in Names, closes \in BOOLEAN}
  \cup {TableKey(r, n) : n \in Names}

PyprojectSteps(r) ==
  IF r.array # None THEN {ArrayRow(r, n, closes) : n \in Names, closes \in BOOLEAN} \cup {ArrayCloses(r)}
  ELSE TableSteps(r)

\* A lockfile declares with all the lines of a block, which has one name.
LockSteps(r) ==
  {Step([Plain EXCEPT !.header = "package"],
        [r EXCEPT !.at = "block", !.block = {}, !.touched = FALSE], {}),
   Step([Plain EXCEPT !.header = "metadata"],
        [r EXCEPT !.at = "metadata", !.block = {}, !.touched = FALSE,
                     !.doubt = @ \cup (IF r.block # {} THEN {"metadata"} ELSE {})], {}),
   Step([Plain EXCEPT !.key = Word("version")], r, {})}
  \cup (IF r.at = "metadata" \/ r.block # {} THEN {}
        ELSE {Step([Plain EXCEPT !.name = n], [r EXCEPT !.block = {n}], {}) : n \in Names})

RowSteps(r) == {Step(Plain, r, {})} \cup {Step([Plain EXCEPT !.name = n], r, {n}) : n \in Names}

Steps(r) ==
  CASE walk.c.kind = "package.json"   -> NpmSteps(r)
    [] walk.c.kind = "pyproject.toml" -> PyprojectSteps(r)
    [] walk.c.kind = "lock"           -> LockSteps(r)
    [] OTHER                          -> RowSteps(r)

\* What the file itself says the line changes: in sight when the diff shows
\* where the line is.
Declared(r, s, changed) ==
  LET locked == walk.c.kind = "lock"
      these == IF locked THEN IF s.to.touched \/ changed THEN s.to.block ELSE {}
               ELSE IF changed THEN s.declares ELSE {}
      inSight == \/ walk.c.kind \notin {"package.json", "pyproject.toml"}
                 \/ r.shown \/ r.at = "project"
  IN  [s.to EXCEPT !.touched = locked /\ (@ \/ changed),
                   !.changed = IF inSight THEN @ \cup these ELSE @,
                   !.hidden  = IF inSight THEN @ ELSE @ \cup these]

\* The side of a removed or an added line is where the last line was, or away.
Leads(m) == real.away = None \/ real.away.side # m

SideAt(m) ==
  IF Leads(m) THEN real
  ELSE [real EXCEPT !.at = real.away.at, !.array = real.away.array, !.shown = real.away.shown,
                    !.block = real.away.block, !.touched = real.away.touched]

OtherSide(m) == IF m = "-" THEN "+" ELSE "-"

SamePlace(r, q) == r.at = q.at /\ r.array = q.array /\ r.shown = q.shown /\ r.block = q.block

\* One side comes to r while the other, m, is at q.
Apart(r, m, q) ==
  [r EXCEPT !.away = IF SamePlace(r, q) THEN None
                     ELSE [side |-> m, at |-> q.at, array |-> q.array, shown |-> q.shown, block |-> q.block,
                           touched |-> q.touched]]

\* A line of the side that is away goes by what a classifier knows of the other
\* side, unless it begins a part anew or only brings the sides together.
Resumes(s) ==
  \/ walk.c.kind = "lock" /\ s.line.header = "package"
  \/ walk.c.kind = "pyproject.toml" /\ s.line.header # None /\ real.array = None
  \/ walk.c.kind # "lock" /\ s.line = ClosingLine /\ SamePlace(s.to, real)

OnOne(m, s) ==
  LET doubt == IF Leads(m) \/ Resumes(s) THEN {} ELSE {"sides"}
  IN  real' = Apart([Declared(SideAt(m), s, TRUE) EXCEPT !.doubt = @ \cup doubt], OtherSide(m), SideAt(OtherSide(m)))

\* A line of context moves both sides.
OnBoth(s) ==
  \/ real.away = None /\ real' = Declared(real, s, FALSE)
  \/ /\ real.away # None
     /\ \E t \in Steps(SideAt(real.away.side)) :
          t.line = s.line /\ real' = Apart(Declared(real, s, FALSE), real.away.side, t.to)

Line ==
  /\ ReadsDiff /\ walk.lines < MaxLines /\ walk.c # None
  /\ \E m \in {" ", "-", "+"} : \E s \in Steps(SideAt(m)) :
       /\ walk' = [walk EXCEPT !.c = Feed(walk.c, m # " ", s.line), !.lines = @ + 1]
       /\ IF m = " " THEN OnBoth(s) ELSE OnOne(m, s)
  /\ UNCHANGED <<job, names, audits, errors, told>>

-----------------------------------------------------------------------------
(* The packages.                                                           *)

\* detectInstalledVersion: the first of the places that says something; what
\* a manifest says is a constraint.
DetectNode(said) ==
  IF said.installed # None THEN said.installed ELSE IF said.lock # None THEN said.lock ELSE said.manifest

DetectPython(said) ==
  IF said.installed # None THEN said.installed ELSE IF said.lock # None THEN said.lock
  ELSE IF said.requirements # None THEN said.requirements ELSE said.manifest

DetectRuby(said) == IF said.lock # None THEN said.lock ELSE said.manifest

Detect(n) ==
  LET who == {m \in Names : IF job.eco = "PyPI" THEN m[1] = n[1] ELSE m = n}
  IN  IF who = {} THEN None
      ELSE LET said == job.project[CHOOSE m \in who : TRUE]
           IN  CASE job.eco = "npm"  -> DetectNode(said)
                 [] job.eco = "PyPI" -> DetectPython(said)
                 [] OTHER            -> DetectRuby(said)

\* loadAdvisories, loadOsvSnapshot: a directory without the ecosystem's file is
\* an error of the whole command.
SnapshotMissing ==
  /\ told = None /\ names = None /\ job.snapshot = "missing" /\ job.surface # "library"
  /\ walk.c = None
  /\ told' = [error |-> TRUE]
  /\ UNCHANGED <<job, walk, real, names, audits, errors>>

Advised == IF job.snapshot = "loaded" THEN job.advisories ELSE {}

\* What is audited: one package, what the diff touched, or, when it touched
\* nothing, what the manifest declares.
ScopeFound ==
  /\ ReadsDiff \/ (told = None /\ names = None)
  /\ job.snapshot # "missing"
  /\ names' = CASE job.surface \in {"audit", "audit_dependency"} -> {job.package}
                [] job.diff /\ (Found # {} \/ job.surface = "library") -> Found
                [] OTHER -> DependencyNames(job.manifest, job.eco, job.includeDev)
  /\ walk' = [walk EXCEPT !.c = None, !.found = Found]
  /\ UNCHANGED <<job, real, audits, errors, told>>

\* The name the advisories know a package by.
AuditedName(n) == MatchName(job.eco, n)

\* pypiJsonToPackument: a release all of whose files are yanked cannot be
\* installed; neither PyPI nor RubyGems deprecates a version.
PypiJsonToPackument(r) ==
  [versions |-> r.versions \ r.yanked, latest |-> r.latest, deprecated |-> {}, sunset |-> FALSE]

\* rubygemsToPackument: there is no tag either.
RubygemsToPackument(r) ==
  [versions |-> r.versions, latest |-> None, deprecated |-> {}, sunset |-> FALSE]

\* makeFetcher
FetchPackument(r) ==
  CASE job.eco = "PyPI"     -> PypiJsonToPackument(r)
    [] job.eco = "RubyGems" -> RubygemsToPackument(r)
    [] OTHER                -> r

\* auditOne: detect, fetch, audit.  The network may be off, the host refused, or
\* the registry may not answer.
AuditOne ==
  /\ Auditing /\ job.surface # "library"
  /\ \E n \in names \ ({a.of : a \in audits} \cup errors) :
       LET t == IF job.version # None THEN job.version ELSE Detect(n)
       IN  \/ /\ t # None /\ job.registry # None
              /\ audits' = audits \cup
                   {[of |-> n, verdict |-> AuditDependency(AuditedName(n), job.eco, t, FetchPackument(job.registry), Advised)]}
              /\ UNCHANGED errors
           \/ errors' = errors \cup {n} /\ UNCHANGED audits
  /\ UNCHANGED <<job, walk, real, names, told>>

-----------------------------------------------------------------------------
(* What each surface says.                                                 *)

Ended == Auditing /\ names = {a.of : a \in audits} \cup errors

Say(what) == told' = what /\ UNCHANGED <<job, walk, real, names, audits, errors>>

BugIsActionable(v) == v.worstSeverity > 0 \/ v.deprecated # "no"

\* A vulnerability of unknown severity is a finding too.
IsActionable(v) == v.worstSeverity # -1 \/ v.deprecated # "no"

WithFindings == {a.of : a \in {a \in audits : IsActionable(a.verdict)}}

\* deps audit
CmdAudit ==
  Ended /\ job.surface = "audit"
  /\ Say([exit |-> IF errors # {} \/ WithFindings # {} THEN 1 ELSE 0])

\* deps audit-project: errors are printed, and no finding.
CmdAuditProject ==
  Ended /\ job.surface = "audit-project" /\ Say([exit |-> IF WithFindings # {} THEN 1 ELSE 0])

\* audit_dependency throws for what could not be audited.
AuditDependencyTool ==
  Ended /\ job.surface = "audit_dependency"
  /\ Say(IF errors # {} THEN [error |-> TRUE] ELSE [findings |-> WithFindings, failed |-> {}])

AuditProjectTool ==
  Ended /\ job.surface = "audit_project" /\ Say([findings |-> WithFindings, failed |-> errors])

\* The deps pillar of a verdict takes the audits and leaves the errors.
VerifyDeps ==
  Ended /\ job.surface = "verify" /\ Say([findings |-> WithFindings, failed |-> {}])

AuditNext ==
  \/ \E kind \in {"package.json", "pyproject.toml", "requirements.txt", "lock", "Gemfile", "Gemfile.lock"} : File(kind)
  \/ Hunk \/ Line
  \/ SnapshotMissing \/ ScopeFound
  \/ AuditOne
  \/ CmdAudit \/ CmdAuditProject \/ AuditDependencyTool \/ AuditProjectTool \/ VerifyDeps

\* The library call only says what to audit.
AuditOver == told # None \/ (names # None /\ job.surface = "library")

-----------------------------------------------------------------------------
(* What the documents themselves say.                                      *)

\* A version is affected from an introduction on, up to the first fix after it
\* and up to and including the last affected version (the OSV schema).
InWindow(t, events) ==
  LET at(e) == IF e.at = Zero THEN -1 ELSE Number(e.at.v)
      here  == Number(t.v)
      E     == {events[i] : i \in DOMAIN events}
  IN  \E i \in E :
        /\ i.kind = "introduced" /\ at(i) <= here
        /\ \A o \in E : /\ o.kind = "fixed" => ~ (at(i) <= at(o) /\ at(o) <= here)
                        /\ o.kind = "last_affected" => ~ (at(i) <= at(o) /\ at(o) < here)

Affects(advisory, n, t) ==
  \E e \in advisory.affected :
    /\ e.ecosystem = job.eco /\ e.name = MatchName(job.eco, n)
    /\ t \in e.versions \/ \E r \in e.ranges : r.type # "GIT" /\ InWindow(t, r.events)

Against(n, t) == {a \in Advised : Affects(a, n, t)}

Readable(t) == IsValid(job.eco, t)

-----------------------------------------------------------------------------
(* Properties.                                                             *)

\* The advisories an audit reports are those whose windows hold the version
\* that is installed, whatever the order of the events and the spelling of the
\* name; and the upgrade it names is the first stable release none affects.
AuditsMatchAdvisories ==
  \A a \in audits :
    LET v == a.verdict
        safe == {c \in job.registry.versions \ (IF job.eco = "PyPI" THEN job.registry.yanked ELSE {}) :
                   IsValid(job.eco, c) /\ c.v.stable /\ Newer(c, v.installed) /\ Against(a.of, c) = {}}
    IN  Readable(v.installed) =>
          /\ {m.id : m \in v.vulnerabilities} = {x.id : x \in Against(a.of, v.installed)}
          /\ v.minimumSafeUpgrade # None =>
               v.minimumSafeUpgrade \in safe /\ \A c \in safe : ~ Newer(v.minimumSafeUpgrade, c)
          /\ v.minimumSafeUpgrade = None => v.vulnerabilities = {} \/ safe = {}

\* What a caller gets when nothing is to be said.
Quiet == told \in {[exit |-> 0], [findings |-> {}, failed |-> {}]}

\* Nothing is said of a package only when it was audited, or failed; and of one
\* that was audited, and whose version can be read, only when no advisory of
\* the snapshot affects it.
QuietMeansUnaffected ==
  Quiet => \A n \in names \ errors :
             \E a \in audits : a.of = n /\ (Readable(a.verdict.installed) => Against(n, a.verdict.installed) = {})

Spelled(ns) == {MatchName(job.eco, n) : n \in ns}

\* A dependency whose declaration a diff changes in sight is in the scope of
\* the audit, as long as the two sides go through the file together: after a
\* removed closing brace, an added entry of its block is missed, and after a
\* removed name of a locked package, the added one.  A block of dependencies on
\* one line declares none here.
ChangesAreInScope ==
  names # None /\ job.diff /\ "sides" \notin real.doubt => Spelled(real.changed) \subseteq names

\* The scope names no package whose declaration the diff leaves alone ("never
\* invents a dependency", changed.ts), as long as the two sides go through the
\* file together (where a removed "dependencies" is replaced by an added
\* "engines", the code takes the engines for dependencies), the diff shows the
\* section an array is in, a block of dependencies spans lines of its own, and no
\* other table follows the last package of a lockfile.
NothingIsInvented ==
  walk.found # {} /\ job.diff /\ real.doubt = {} =>
    walk.found \subseteq Spelled(real.changed \cup real.hidden)
=============================================================================
