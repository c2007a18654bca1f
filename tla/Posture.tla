------------------------------ MODULE Posture ------------------------------
(***************************************************************************)
(* What verify promises of a change's overall posture (overallStatus in    *)
(* verdict/types.ts), with nothing of how it is computed: while results    *)
(* come in the posture only gets worse, whoever reports and in whatever    *)
(* order, and the answer is the posture once, when all have reported.      *)
(***************************************************************************)
EXTENDS Naturals

VARIABLES posture, answer

vars == <<posture, answer>>

\* The four statuses of a verdict, from the best to the worst.
Level == [pass |-> 0, inconclusive |-> 1, warn |-> 2, fail |-> 3]
OverallStatus == {"pass", "inconclusive", "warn", "fail"}

Init == posture \in {"pass", "inconclusive"} /\ answer = "none"

Hear ==
  /\ answer = "none"
  /\ posture' \in {s \in OverallStatus : Level[s] >= Level[posture]}
  /\ UNCHANGED answer

Answer ==
  /\ answer = "none"
  /\ answer' = posture
  /\ UNCHANGED posture

Next == Hear \/ Answer

Spec == Init /\ [][Next]_vars

=============================================================================
