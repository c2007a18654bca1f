------------------------------ MODULE ToolScope ------------------------------
(***************************************************************************)
(* What a test or mutation tool is asked to look at: packages/pyscope, and *)
(* scope.ts and config.ts of packages/mutate.                              *)
(*                                                                         *)
(* A path is [dir, stem, form]: pkg/test_calc.py is                        *)
(*   [dir |-> <<"pkg">>, stem |-> "calc", form |-> "test_x"],              *)
(* and the forms are source, test_x, x_test and other (a text, a .d.ts).   *)
(* A root is a directory, or one file.  A pattern of files left out is the *)
(* set of the paths it matches.                                            *)
(***************************************************************************)
EXTENDS Absence, Naturals, FiniteSets, Sequences, SequencesExt

\* assertAllowed: the opt-in is not enough, the root is one the operator listed.
AssertAllowed(config) == config.allowRun /\ config.root \in config.allowedRoots

IsPythonSource(p) == p.form # "other"

IsTestFile(p) ==
  \/ p.form \in {"test_x", "x_test"}
  \/ IsPythonSource(p) /\ Range(p.dir) \cap {"test", "tests"} # {}

MirroredTestCandidates(p) ==
  {[p EXCEPT !.form = "test_x"], [p EXCEPT !.form = "x_test"],
   [p EXCEPT !.dir = Append(@, "tests"), !.form = "test_x"],
   [p EXCEPT !.dir = <<"tests">>, !.form = "test_x"]}

\* selectPytestScope: a test selects itself, a source the tests that mirror it.
SelectPytestScope(changed, mode, exists) ==
  LET tests     == {p \in changed : IsTestFile(p)}
      sources   == {p \in changed \ tests : IsPythonSource(p)}
      mirror(p) == MirroredTestCandidates(p) \cap exists
      unmatched == {p \in sources : mirror(p) = {}}
      widened   == unmatched # {} /\ mode = "widen"
  IN  [selectors |-> IF widened THEN {} ELSE tests \cup UNION {mirror(p) : p \in sources},
       unmatched |-> unmatched, widened |-> widened]

-----------------------------------------------------------------------------

\* isStrykerMutableSource
IsStrykerMutableSource(p) == p.form \in {"source", "test_x"}

Under(p, roots) ==
  \E r \in roots : IF r.file = None THEN IsPrefix(r.dir, p.dir) ELSE p = r.file

\* selectMutationScope, of the changed files that can be mutated.
SelectMutationScope(mutable, roots, exists) ==
  LET files == {p \in mutable : Under(p, roots) /\ p \in exists}
  IN  [files |-> files, unmatched |-> mutable \ files]

BugReconcileScope(selected, files) ==
  [mutated |-> {p \in selected : p \in DOMAIN files /\ files[p] > 0},
   missing |-> IF selected \cap DOMAIN files = {} THEN selected ELSE {}]

\* reconcileScope: seen without a mutant is not missing.
ReconcileScope(selected, files) ==
  [mutated |-> {p \in selected : p \in DOMAIN files /\ files[p] > 0},
   missing |-> selected \ DOMAIN files]

\* pyPathToModule
PyPathToModule(p) ==
  IF p.stem = "__init__" /\ p.dir # <<>> THEN p.dir
  ELSE Append(p.dir, CASE p.form = "test_x" -> "test_" \o p.stem
                       [] p.form = "x_test" -> p.stem \o "_test"
                       [] OTHER -> p.stem)

\* reconcileMutmutScope: of two modules one of which ends the other's name,
\* either stands for both.
ReconcileMutmutScope(selected, modules) ==
  LET matches(p) == \E m \in DOMAIN modules :
                      /\ modules[m] > 0
                      /\ IsSuffix(m, PyPathToModule(p)) \/ IsSuffix(PyPathToModule(p), m)
  IN  [mutated |-> {p \in selected : matches(p)}, missing |-> {p \in selected : ~ matches(p)}]

-----------------------------------------------------------------------------
(* The configurations: [roots, left_out].                                  *)

ExclusionCollides(entry, selected) == entry \cap selected # {}

Kept(entries, selected) == {e \in entries : ~ ExclusionCollides(e, selected)}

Files(selected) == {[dir |-> <<>>, file |-> p] : p \in selected}

\* cosmicModulePathRoots, mutmutPathsToMutate
OwnedRoots(base) == base.roots

SynthesizeScopedCosmicRayConfig(base, selected) ==
  [roots |-> Files(selected), left_out |-> Kept(base.left_out, selected), copied |-> {}]

\* defaultListSources: a root that is a file cannot be listed.
DefaultListSources(roots, exists) ==
  {p \in exists : IsPythonSource(p) /\ \E r \in roots : r.file = None /\ IsPrefix(r.dir, p.dir)}

\* planMutmutScope
PlanMutmutScope(selected, all, doNotMutate) ==
  [roots |-> Files(selected), left_out |-> Kept(doNotMutate, selected), copied |-> all \ selected]

\* What a tool looks for mutants in under a configuration.
InReach(config, exists) == {p \in exists : Under(p, config.roots)} \ UNION config.left_out
=============================================================================
