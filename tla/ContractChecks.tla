--------------------------- MODULE ContractChecks ---------------------------
(***************************************************************************)
(* The contract checks of the api package: one request on its way to the   *)
(* check of it (ApiContracts), and traffic on its way to a verdict         *)
(* (CaptureBridge), where a request is only as good or bad as the first    *)
(* makes it.  They share the check (RequestContract) and no state: a       *)
(* behaviour is one of one of them, the other at rest.                     *)
(***************************************************************************)
EXTENDS ApiContracts, CaptureBridge

vars == <<rvars, tvars>>

MessageRests == op = None /\ Unsent

TrafficRests ==
  /\ contract = None /\ traffic = <<>> /\ sent = None
  /\ origins = None /\ Unarchived

Init ==
  \/ MessageInit /\ TrafficRests
  \/ MessageRests /\ TrafficInit

AllOver == verdict # None \/ told # None

Finished == AllOver /\ UNCHANGED vars

Next ==
  \/ op # None /\ MessageNext /\ UNCHANGED tvars
  \/ traffic # <<>> /\ TrafficNext /\ UNCHANGED rvars
  \/ Finished

Spec == Init /\ [][Next]_vars
=============================================================================
