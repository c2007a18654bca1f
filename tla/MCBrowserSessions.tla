------------------------- MODULE MCBrowserSessions -------------------------
(***************************************************************************)
(* Instances of BrowserSessions for TLC: two sessions, so that a cap of    *)
(* one is at its limit and shutdown meets one session opening and one      *)
(* open, and two calls, so that one queues behind the other.               *)
(***************************************************************************)
EXTENDS BrowserSessions, TLC

CONSTANTS s1, s2, c1, c2, reaperId, noSession

MCSession == {s1, s2}
MCOneSession == {s1}
MCNoSession == {}  \* Hang changes nothing that safety is about
MCCaller == {c1, c2}
MCOneCaller == {c1}

Symmetry == Permutations(MCSession) \cup Permutations(MCCaller)

=============================================================================
