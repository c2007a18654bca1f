------------------------------ MODULE MCVerify ------------------------------
(***************************************************************************)
(* Instances of Verify for TLC: each pillar has a result for every branch  *)
(* of its adapter, and where the order of the branches matters one that    *)
(* satisfies two of them.                                                  *)
(***************************************************************************)
EXTENDS Verify

MCPillars == {"contract", "coverage", "deps", "flake", "mutate"}

\* All five, a subset as in the default of spawned pillars, and none.
MCRequest == {MCPillars, MCPillars \ {"contract", "mutate"}, {}}

MCPolicy == {"unset", "none", "high"}

MCResult ==
  [p \in MCPillars \ {"deps"} |->
     CASE p = "contract" -> {{"valid"}, {"error", "unresolved"}, {"unsupported", "warning"},
                             {"valid", "warning"}}
       [] p = "coverage" -> {{"file not found"}, {"covered", "nonExecutable"}, {"covered", "uncovered"}}
       [] p = "flake"    -> {{}, {"reliable"}, {"flaky moderate", "insufficient data"},
                             {"broken", "flaky high"}}
       [] p = "mutate"   -> {{}, {"detected"}, {"detected", "survivor"}}]

MCAuditResult == {{"critical"}, {"clean", "deprecated"}, {"unknown"}, {"clean"}}

=============================================================================
