------------------------- MODULE ChangedDependencies -------------------------
(***************************************************************************)
(* Which dependencies a diff touches: packages/deps/src/changed.ts, and    *)
(* the names a project declares (pypi.ts, rubygems.ts, ecosystem.ts).      *)
(*                                                                         *)
(* A body line of the diff is what the classifiers can tell of it:         *)
(*   dep     it opens a dependency block of package.json                   *)
(*   closes  it closes a block or an array                                 *)
(*   header  the section it opens, or None                                 *)
(*   array   the key of the array it opens, or None                        *)
(*   key     the name before its colon or equals sign, or None             *)
(*   quoted  the names in quotes                                           *)
(*   name    the package a lockfile's block, a requirement, a gem or a     *)
(*           resolved row names, or None                                   *)
(* A name is <<base, spelling>>; OSV knows PyPI's canonical spelling only. *)
(***************************************************************************)
EXTENDS Absence, Naturals, Sequences

Plain == [dep |-> FALSE, closes |-> FALSE, header |-> None, array |-> None, key |-> None,
          quoted |-> {}, name |-> None]

NormalizePypiName(n) == <<n[1], "canonical">>

MatchName(eco, n) == IF eco = "PyPI" THEN NormalizePypiName(n) ELSE n

\* A key that is no name of a package.
Word(key) == <<key, "canonical">>

\* What a classifier may take for a name.
Spellings(names) ==
  names \cup {NormalizePypiName(n) : n \in names} \cup {Word(k) : k \in {"dependencies", "scripts", "build", "version"}}

-----------------------------------------------------------------------------
(* The classifiers: what each knows of the lines so far, and the names.    *)

Classifiers(names) ==
  [kind : {"package.json", "pyproject.toml", "requirements.txt", "lock", "Gemfile", "Gemfile.lock"},
   block : BOOLEAN, section : {"", "project", "optional", "poetry", "tool"}, array : {"wanted", "other", None},
   name : names \cup {None}, touched : BOOLEAN, names : SUBSET names]

Fresh(kind) ==
  [kind |-> kind, block |-> FALSE, section |-> "", array |-> None, name |-> None, touched |-> FALSE,
   names |-> {}]

BugNpmFeed(c, changed, l) ==
  IF ~ c.block THEN [c EXCEPT !.block = l.dep /\ changed]
  ELSE IF l.closes THEN [c EXCEPT !.block = FALSE]
  ELSE IF changed /\ l.key # None THEN [c EXCEPT !.names = @ \cup {l.key}] ELSE c

\* npmClassifier: the first line that closes anything ends the block.
NpmFeed(c, changed, l) ==
  IF ~ c.block THEN [c EXCEPT !.block = l.dep]
  ELSE IF l.closes THEN [c EXCEPT !.block = FALSE]
  ELSE IF changed /\ l.key # None THEN [c EXCEPT !.names = @ \cup {l.key}] ELSE c

IsPoetrySection(section) == section = "poetry"

Canonical(names) == {NormalizePypiName(n) : n \in names}

\* pyprojectClassifier: an array of requirements is read, any other consumed.
PyprojectFeed(c, changed, l) ==
  LET read == IF changed THEN Canonical(l.quoted) ELSE {}
      wanted == \/ l.array = "dependencies" /\ c.section \in {"", "project"}
                \/ c.section = "optional"
  IN  IF c.array # None
      THEN [c EXCEPT !.names = IF c.array = "wanted" THEN @ \cup read ELSE @,
                     !.array = IF l.closes THEN None ELSE @]
      ELSE IF l.header # None THEN [c EXCEPT !.section = l.header]
      ELSE IF l.array # None
      THEN IF l.closes THEN [c EXCEPT !.names = IF wanted THEN @ \cup read ELSE @]
           ELSE [c EXCEPT !.array = IF wanted THEN "wanted" ELSE "other"]
      ELSE IF IsPoetrySection(c.section) /\ changed /\ l.key # None
      THEN [c EXCEPT !.names = @ \cup {NormalizePypiName(l.key)}] ELSE c

\* requirementsClassifier
RequirementsFeed(c, changed, l) ==
  IF changed /\ l.name # None THEN [c EXCEPT !.names = @ \cup {NormalizePypiName(l.name)}] ELSE c

\* tomlLockClassifier: a block is flushed when the next begins, at a hunk and
\* at the end.
Flush(c) ==
  [c EXCEPT !.names = IF c.touched /\ c.name # None THEN @ \cup {NormalizePypiName(c.name)} ELSE @,
            !.name = None, !.touched = FALSE]

TomlLockFeed(c, changed, l) ==
  IF l.header = "package" THEN [Flush(c) EXCEPT !.touched = changed]
  ELSE [c EXCEPT !.name = IF c.name = None THEN l.name ELSE @, !.touched = @ \/ changed]

\* gemfileClassifier, gemlockClassifier
GemFeed(c, changed, l) ==
  IF changed /\ l.name # None THEN [c EXCEPT !.names = @ \cup {l.name}] ELSE c

Feed(c, changed, l) ==
  CASE c.kind = "package.json"     -> NpmFeed(c, changed, l)
    [] c.kind = "pyproject.toml"   -> PyprojectFeed(c, changed, l)
    [] c.kind = "requirements.txt" -> RequirementsFeed(c, changed, l)
    [] c.kind = "lock"             -> TomlLockFeed(c, changed, l)
    [] OTHER                       -> GemFeed(c, changed, l)

BugReset(c) == [Flush(c) EXCEPT !.array = None, !.section = ""]

\* A hunk begins somewhere else in the file.
Reset(c) == [Flush(c) EXCEPT !.block = FALSE, !.array = None, !.section = ""]

\* The classifier of a file, by its name; None when it is of no interest.
Profile(eco, file) ==
  IF file \in (CASE eco = "npm"  -> {"package.json"}
                 [] eco = "PyPI" -> {"pyproject.toml", "requirements.txt", "lock"}
                 [] OTHER        -> {"Gemfile", "Gemfile.lock"})
  THEN Fresh(file) ELSE None

-----------------------------------------------------------------------------
(* What a project declares.                                                *)

NpmManifestNames(m, includeDev) == m.main \cup (IF includeDev THEN m.dev ELSE {})

\* pyproject.toml, and only when it names nothing requirements.txt.
PythonManifestNames(m, includeDev) ==
  LET first == m.main \cup (IF includeDev THEN m.dev ELSE {})
  IN  Canonical(IF first = {} THEN m.other ELSE first)

\* The DEPENDENCIES of Gemfile.lock, else the Gemfile.
RubyManifestNames(m) == IF m.main = {} THEN m.other ELSE m.main

DependencyNames(m, eco, includeDev) ==
  CASE eco = "PyPI"     -> PythonManifestNames(m, includeDev)
    [] eco = "RubyGems" -> RubyManifestNames(m)
    [] OTHER            -> NpmManifestNames(m, includeDev)
=============================================================================
