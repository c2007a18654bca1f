---------------------------- MODULE MCLspManager ----------------------------
(***************************************************************************)
(* Instances of LspManager for TLC.  Two callers make every race between   *)
(* two calls, three a chain with a waiter behind a waiter; two processes   *)
(* let one server run while another starts or stops.                       *)
(***************************************************************************)
EXTENDS LspManager, TLC

CONSTANTS c1, c2, c3, ts, ra, rb, rx

MCCaller == {c1, c2}
MCCaller3 == {c1, c2, c3}
MCLanguage == {ts}
MCRoot == {ra, rb, rx}
MCOneRoot == {ra}
MCAllowedRoots == {ra, rb}

Symmetry == Permutations(MCCaller) \cup Permutations(MCAllowedRoots)

=============================================================================
