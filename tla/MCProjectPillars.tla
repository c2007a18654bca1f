----------------------------- MODULE MCProjectPillars -----------------------------
(***************************************************************************)
(* The projects, calls and reports TLC tries.                              *)
(***************************************************************************)
EXTENDS ProjectPillars

CONSTANTS m1, m2, f1, f2, Root, Elsewhere, r1, r2, r3, har, log

Path(dir, stem, form) == [dir |-> dir, stem |-> stem, form |-> form]

Calc  == Path(<<"pkg">>, "calc", "source")
Mean  == Path(<<"pkg">>, "mean", "source")
Twin  == Path(<<>>, "calc", "source")
Other == Path(<<>>, "readme", "other")
Check == Path(<<"pkg">>, "calc", "test_x")
Late  == Path(<<"lib">>, "late", "source")

Pkg == [dir |-> <<"pkg">>, file |-> None]
Lib == [dir |-> <<"lib">>, file |-> None]

M(file, from, to, fate) == [file |-> file, from |-> from, to |-> to, fate |-> fate]

Base == [roots |-> {Pkg}, left_out |-> {}, copied |-> {}]

Project(base, imported, mutants) ==
  [exists |-> {Calc, Mean, Other, Check} \cup {m.file : m \in mutants},
   base |-> base, imported |-> imported, mutants |-> mutants]

Mutants == {M(Calc, 1, 2, "survived"), M(Mean, 1, 1, "killed")}

MutationProjects ==
  {Project(Base, {Mean}, Mutants),
   Project([Base EXCEPT !.left_out = {{Mean}, {Calc}}], {}, Mutants),
   Project(None, {}, {M(Calc, 1, 1, "uncovered")}),
   Project(Base, {Calc}, {M(Calc, 1, 1, "invalid"), M(Twin, 2, 2, "killed")})}

MJob(tool, files, diff) ==
  [surface |-> "cli", allow |-> TRUE, roots |-> {}, root |-> Root, tool |-> tool, files |-> files, diff |-> diff,
   incremental |-> FALSE]

Incremental(j) == [j EXCEPT !.incremental = TRUE]

NothingLeft == [report |-> None, incremental |-> {}, cache |-> {}, config |-> None]

Earlier ==
  [report |-> [f \in {Calc} |-> {[from |-> 1, to |-> 2, status |-> "Killed"]}],
   incremental |-> {[file |-> Calc, from |-> 1, to |-> 2, said |-> "Survived"], [file |-> Calc, from |-> 3, to |-> 3, said |-> "Killed"]},
   cache  |-> {[file |-> Calc, from |-> 1, to |-> 2, said |-> "killed"]},
   config |-> [roots |-> {[dir |-> <<>>, file |-> Mean]}, left_out |-> {}, copied |-> {}]]

MCMutationSuites ==
  {[projects |-> MutationProjects, left |-> {NothingLeft, Earlier},
    jobs |-> {MJob("stryker", None, None), MJob("stryker", {Calc, Check, Other}, None), MJob("summarize", None, None),
              Incremental(MJob("stryker", None, None)), Incremental(MJob("stryker", {Calc}, None)),
              [MJob("summarize", None, None) EXCEPT !.surface = "mcp"]}],
   [projects |-> MutationProjects, left |-> {NothingLeft, Earlier},
    jobs |-> {MJob("mutmut", None, None), MJob("mutmut", {Calc, Late}, None), MJob("mutmut", {Late}, None),
              MJob("summarize-mutmut", None, None)}],
   [projects |-> MutationProjects, left |-> {NothingLeft, Earlier},
    jobs |-> {MJob("cosmic-ray", None, None), MJob("cosmic-ray", {Calc}, {<<Calc, 2>>}),
              MJob("cosmic-ray", {Mean, Calc}, {<<Calc, 1>>}), MJob("cosmic-ray", {Late, Mean}, None)}],
   [projects |-> {Project(Base, {Mean}, Mutants)}, left |-> {NothingLeft},
    jobs |-> {[MJob("stryker", None, None) EXCEPT !.allow = FALSE],
              [MJob("cosmic-ray", None, None) EXCEPT !.surface = "mcp", !.roots = {Elsewhere}],
              [MJob("cosmic-ray", None, None) EXCEPT !.surface = "mcp", !.roots = {Root}],
              [MJob("mutmut", None, None) EXCEPT !.surface = "mcp"]}]}

-----------------------------------------------------------------------------

S(n, line, hits) == [n |-> n, line |-> line, hits |-> hits]

K(root, p) == [root |-> root, path |-> p]

Pack(p) == [p EXCEPT !.dir = <<"packages", "a">> \o @]

Istanbul ==
  {[k \in {K(Root, Calc), K(Root, Pack(Calc))} |-> IF k.path = Calc THEN {S(1, 1, a), S(2, 1, b), S(3, 2, b)} ELSE {S(1, 1, 1), S(2, 2, 1)}]
     : a \in {0, 1}, b \in {0, 1}}
  \cup {[k \in {K(Root, Pack(Calc))} |-> {S(1, 1, h)}] : h \in {0, 1}}

CoveragePy ==
  {[k \in {K(None, Calc), K(None, Pack(Calc))} |->
      IF k.path = Calc THEN [executed |-> {1, 2} \ missing, missing |-> missing] ELSE [executed |-> {1, 2}, missing |-> {}]]
     : missing \in SUBSET {1, 2}} \cup {<<>>}

CJob(tool, surface, allow, roots, root, mode) ==
  [tool |-> tool, surface |-> surface, allow |-> allow, roots |-> roots, root |-> root, relative |-> FALSE, mode |-> mode,
   exists |-> {Calc, Mean, Check}]

Relative(jobs) == jobs \cup {[j EXCEPT !.relative = TRUE] : j \in jobs}

Diffs == {None, {<<Calc, 1>>}, {<<Calc, 2>>, <<Calc, 7>>, <<Mean, 1>>}}

MCCoverageSuites ==
  {[jobs |-> Relative({CJob("vitest", "cli", TRUE, {}, Root, None), CJob("vitest", "mcp", TRUE, {Root}, Root, None)})
               \cup {CJob("vitest", "mcp", TRUE, {}, Root, None)},
    changed |-> {{}, {Calc}}, diffs |-> Diffs, measured |-> Istanbul],
   [jobs |-> Relative({CJob("istanbul", surface, FALSE, {}, r, None) : r \in {None, Root}, surface \in {"cli", "mcp"}}),
    changed |-> {{}}, diffs |-> Diffs \ {None}, measured |-> Istanbul],
   [jobs |-> Relative({CJob("coveragepy", "cli", FALSE, {}, r, None) : r \in {None, Root}}),
    changed |-> {{}}, diffs |-> Diffs \ {None}, measured |-> CoveragePy],
   [jobs |-> {CJob("pytest", "cli", allow, {}, Root, mode) : allow \in BOOLEAN, mode \in {"report-gap", "widen"}}
           \cup {CJob("pytest", "mcp", TRUE, {Root}, Root, "widen")},
    changed |-> {{}, {Calc}, {Mean}, {Calc, Mean}, {Other}}, diffs |-> Diffs, measured |-> CoveragePy]}

-----------------------------------------------------------------------------

T(title, n, status) == [test |-> [title |-> title, n |-> n], status |-> status]

Reports(statuses) == {<<T("adds", 1, s)>> : s \in statuses}

FRun(framework, files, related, repeat, mode) ==
  [op |-> "run", surface |-> "cli", allow |-> TRUE, roots |-> {}, root |-> Root, framework |-> framework,
   files |-> files, related |-> related, repeat |-> repeat, mode |-> mode, exists |-> {Calc, Check}]

Ingest(surface, framework, time, rooted) ==
  [op |-> "ingest", surface |-> surface, framework |-> framework, time |-> time, rooted |-> rooted]

Utc(t) == [instant |-> t, offset |-> 0]

Window(since, limit, minRuns) == [since |-> since, limit |-> limit, minRuns |-> minRuns]

Quarantine(surface, allowed, cap, reason, until) ==
  [op |-> "quarantine", surface |-> surface, policy |-> [allowed |-> allowed, cap |-> cap], reason |-> reason,
   id |-> "adds", until |-> until]

MCFlakeSuites ==
  {[reports |-> Reports({"passed", "failed", "skipped"}) \cup {<<T("adds", 1, "passed"), T("adds", 2, "failed")>>},
    jobs |-> {FRun("vitest", {}, FALSE, 2, None), FRun("vitest", {}, TRUE, 2, None), FRun("vitest", {Calc}, TRUE, 1, None),
              [FRun("vitest", {}, FALSE, 1, None) EXCEPT !.allow = FALSE],
              Ingest("cli", "vitest", Utc(1), FALSE), Ingest("mcp", "vitest", None, TRUE),
              [op |-> "candidates", surface |-> "cli"], [op |-> "candidates", surface |-> "mcp"],
              [op |-> "status", surface |-> "cli", window |-> Window(None, 1, 1)]}],
   [reports |-> Reports({"passed", "failed", "error", "skipped"}),
    jobs |-> {FRun("pytest", {Calc}, TRUE, 2, "report-gap"), FRun("pytest", {Mean}, TRUE, 1, "report-gap"),
              FRun("pytest", {Mean}, TRUE, 1, "widen"), FRun("pytest", {}, FALSE, 0, None),
              Ingest("mcp", "pytest", [instant |-> 1, offset |-> 3], FALSE),
              [op |-> "status", surface |-> "mcp", window |-> Window(Utc(1), None, 2)]}],
   [reports |-> {},
    jobs |-> {Quarantine("cli", TRUE, 2, "flaky", Utc(t)) : t \in 1 .. 3}
      \cup {Quarantine("mcp", TRUE, 1, "flaky", Utc(t)) : t \in 1 .. 2}
      \cup {Quarantine("cli", FALSE, 2, "flaky", Utc(1)), Quarantine("mcp", TRUE, 0, "flaky", Utc(1)),
            Quarantine("cli", TRUE, 2, "", Utc(1)), Quarantine("mcp", TRUE, 2, "", Utc(1)),
            Quarantine("mcp", TRUE, 2, "flaky", [instant |-> 2, offset |-> 2]),
            [op |-> "release", surface |-> "cli", id |-> "adds"], [op |-> "release", surface |-> "mcp", id |-> "adds"]}]}

-----------------------------------------------------------------------------

V(a, b, s) == [major |-> a, minor |-> b, patch |-> 0, stable |-> s]
Ver(v, f) == [v |-> v, form |-> f]
F(a, b) == Ver(V(a, b, TRUE), "full")

PkgA == <<"a", "canonical">>
PkgB == <<"b", "other">>

Published == {F(1, 0), F(1, 1), F(2, 0), Ver(V(2, 1, FALSE), "full"), F(2, 1)}

Registries ==
  {None} \cup {[versions |-> vs, yanked |-> {F(2, 0)}, latest |-> l, deprecated |-> {F(1, 0)}, sunset |-> FALSE]
     : vs \in {Published, Published \ {F(2, 1)}}, l \in {None, F(2, 1)}}

\* What the places of a project may say of the installed version.
Installed == Published \cup {Ver(V(1, 1, TRUE), "short"), Ver(V(1, 1, TRUE), "constraint"), Ver(V(1, 0, TRUE), "junk")}

Silent == [installed |-> None, lock |-> None, requirements |-> None, manifest |-> None]

Event(k, at) == [kind |-> k, at |-> at]
Bounds == {F(1, 0), F(1, 1), F(2, 0), Ver(V(2, 1, FALSE), "full")}
Opens == {Event("introduced", at) : at \in {Zero} \cup Bounds}
Closing == {Event(k, at) : k \in {"fixed", "last_affected"}, at \in Bounds}

\* One window, closed or not, and two windows; in any order.
Ranges ==
  {<<o>> : o \in Opens} \cup {<<o, c>> : o \in Opens, c \in Closing}
  \cup {<<c, o>> : o \in Opens, c \in Closing}
  \cup {<<o, c, p>> : o \in Opens, c \in Closing, p \in Opens}
  \cup {<<p, o, c>> : o \in Opens, c \in Closing, p \in Opens}

Advisory(id, n, versions, events) ==
  [id |-> id, word |-> 0, scores |-> {},
   affected |-> {[ecosystem |-> e, name |-> n, versions |-> versions, word |-> 0, scores |-> {75},
                  ranges |-> {[type |-> "ECOSYSTEM", events |-> events]}] : e \in {"npm", "PyPI"}}]

Fixed == Advisory("fixed", PkgA, {}, <<Event("introduced", F(2, 0)), Event("fixed", F(2, 1))>>)
OfB   == LET a == Advisory("ofB", <<"b", "canonical">>, {F(1, 1)}, <<Event("introduced", Zero), Event("last_affected", F(1, 0))>>)
         IN  [a EXCEPT !.affected = {[e EXCEPT !.scores = {}] : e \in @}]

Stated(t, u) ==
  (PkgA :> [Silent EXCEPT !.lock = t, !.manifest = Ver(V(1, 0, TRUE), "constraint")])
  @@ (PkgB :> [Silent EXCEPT !.lock = u])

AStated(t, u) == [versions |-> Stated(t, u), manifest |-> [main |-> {PkgA}, dev |-> {PkgB}, other |-> {}]]

ARegistry == [versions |-> Published, yanked |-> {}, latest |-> F(2, 1), deprecated |-> {F(1, 0)}, sunset |-> FALSE]

\* A user may spell a PyPI package in another way than the registry.
Question(surface, eco, diff, snapshot, version, dev) ==
  [surface |-> surface, eco |-> eco, diff |-> diff, snapshot |-> snapshot, version |-> version,
   package |-> IF eco = "PyPI" THEN <<"a", "other">> ELSE PkgA, includeDev |-> dev]

Ecosystems == {"npm", "PyPI", "RubyGems"}
Surfaces == {"audit", "audit-project", "audit_dependency", "audit_project", "verify"}

\* Every window with every version.
Windows ==
  [questions  |-> {Question("audit", e, FALSE, "loaded", t, TRUE)
                     : e \in {"npm", "PyPI"}, t \in Published \cup {Ver(V(1, 1, TRUE), "short")}},
   projects   |-> {AStated(F(1, 1), F(1, 0))},
   registries |-> {ARegistry},
   databases  |-> {{Advisory("x", PkgA, {}, r)} \cup o : r \in Ranges, o \in {{}, {Fixed}}}]

\* Every surface with every project.
Projects ==
  [questions  |-> {Question(s, e, FALSE, n, None, d)
                     : s \in Surfaces, e \in Ecosystems, n \in {"none", "missing", "loaded"}, d \in BOOLEAN},
   projects   |-> {AStated(t, u) : t \in {None} \cup Installed, u \in {None, F(1, 0), F(1, 1), F(2, 0)}},
   registries |-> Registries,
   databases  |-> {{Fixed, OfB}}]

\* Every diff.
DiffQuestions ==
  [questions  |-> {Question("library", e, TRUE, "loaded", None, TRUE) : e \in Ecosystems}
                  \cup {Question("verify", "npm", TRUE, "loaded", None, TRUE)},
   projects   |-> {AStated(F(1, 1), F(1, 0))},
   registries |-> {ARegistry},
   databases  |-> {{Fixed, OfB}}]

AllAuditSuites == {Windows, Projects, DiffQuestions}
MCAuditSuites == AllAuditSuites

-----------------------------------------------------------------------------

Keeps(age, runs, bytes, interval) == [age |-> age, entries |-> runs, bytes |-> bytes, interval |-> interval]
Forever == Keeps(None, None, None, 0)

MCStoreSuites ==
  {[artifacts |-> {<<r1, har>>, <<r2, har>>}, sizes |-> {1},
    policies |-> {<<Keeps(None, 1, None, 0), Forever>>, <<Keeps(None, 1, None, 1), Keeps(None, None, 3, 0)>>},
    limits |-> [puts |-> 3, crashes |-> 0, until |-> 0]],
   [artifacts |-> {<<r1, har>>, <<r2, har>>}, sizes |-> {1},
    policies |-> {<<Keeps(None, 1, None, 0), Forever>>},
    limits |-> [puts |-> 2, crashes |-> 1, until |-> 1]],
   [artifacts |-> {<<r1, har>>, <<r2, har>>, <<r3, log>>}, sizes |-> {1, 3},
    policies |-> {<<Keeps(x, y, z, 0)>> : x \in {None, 0, 1}, y \in {None, 2}, z \in {None, 2, 4}},
    limits |-> [puts |-> 3, crashes |-> 0, until |-> 2]]}
=============================================================================
