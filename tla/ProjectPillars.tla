--------------------------- MODULE ProjectPillars ---------------------------
(***************************************************************************)
(* The four pillars that look at the project itself: mutation, coverage    *)
(* and flakiness, which run its own tools behind one gate and one choice   *)
(* of tests (ToolScope), and the audit of its dependencies; and the store  *)
(* that keeps what an audit or a run of another pillar found.  They share  *)
(* no state: a behaviour is one of one part, the others at rest.           *)
(***************************************************************************)
EXTENDS MutationRuns, CoverageRuns, FlakeRuns, DependencyAudit, ArtifactStore

vars == <<mvars, cvars, fvars, avars, svars>>

MutationRests == tree = None /\ mutates = <<>> /\ disk = None /\ mcalls = <<>>

CoverageRests == covers = None /\ ccall = [at |-> "rests"]

FlakeRests ==
  /\ flakes = <<>> /\ reports = {} /\ rows = <<>> /\ entries = <<>>
  /\ now = LastInstant /\ fcalls = <<>> /\ executed = {}

AuditRests == job = None /\ Unread /\ real = Nowhere /\ Unaudited

Init ==
  \/ MutationInit /\ CoverageRests /\ FlakeRests /\ AuditRests /\ StoreRests
  \/ MutationRests /\ CoverageInit /\ FlakeRests /\ AuditRests /\ StoreRests
  \/ MutationRests /\ CoverageRests /\ FlakeInit /\ AuditRests /\ StoreRests
  \/ MutationRests /\ CoverageRests /\ FlakeRests /\ AuditInit /\ StoreRests
  \/ MutationRests /\ CoverageRests /\ FlakeRests /\ AuditRests /\ StoreInit

AllOver ==
  /\ \A c \in DOMAIN mcalls : MutationOver(c)
  /\ ccall.at = "rests" \/ CoverageOver
  /\ \A c \in DOMAIN fcalls : FlakeOver(c)
  /\ job = None \/ AuditOver
  /\ \A s \in DOMAIN stores : StoreOver(s)

Finished == AllOver /\ UNCHANGED vars

Next ==
  \/ MutationNext /\ UNCHANGED <<cvars, fvars, avars, svars>>
  \/ ccall.at # "rests" /\ CoverageNext /\ UNCHANGED <<mvars, fvars, avars, svars>>
  \/ FlakeNext /\ UNCHANGED <<mvars, cvars, avars, svars>>
  \/ job # None /\ AuditNext /\ UNCHANGED <<mvars, cvars, fvars, svars>>
  \/ stores # <<>> /\ StoreNext /\ UNCHANGED <<mvars, cvars, fvars, avars>>
  \/ Finished

Spec == Init /\ [][Next]_vars
=============================================================================
