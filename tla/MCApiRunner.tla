---------------------------- MODULE MCApiRunner ----------------------------
(***************************************************************************)
(* Instances of ApiRunner for TLC: a request whose host is captured by the *)
(* one before it, and redirect chains that leave a host and stay away.     *)
(***************************************************************************)
EXTENDS ApiRunner

MCHost == {"home", "away"}

\* The other host may resolve to a private or a blocked address.
MCAddressOf == [h \in MCHost |-> IF h = "home" THEN {"global"}
                                 ELSE {"global", "private", "blocked"}]

MCVar == {"v"}

MCEnvironment == [v \in MCVar |-> "home"]

MCEntry ==
  [login  |-> [method |-> "POST", url |-> "home", credential |-> TRUE, body |-> "text",
               captures |-> {"v"}, scripted |-> FALSE],
   status |-> [method |-> "GET", url |-> "home", credential |-> FALSE, body |-> "none",
               captures |-> {}, scripted |-> TRUE],
   profile |-> [method |-> "GET", url |-> "v", credential |-> TRUE, body |-> "none",
               captures |-> {}, scripted |-> FALSE],
   upload |-> [method |-> "PUT", url |-> "v", credential |-> FALSE, body |-> "binary",
               captures |-> {}, scripted |-> FALSE]]

MCOptions(unsafe, hosts, private, budget, stop) ==
  [allowUnsafe |-> unsafe, allowedHosts |-> hosts, allowPrivate |-> private,
   maxRedirects |-> budget, stopOnFailure |-> stop]

MCStrict == MCOptions(FALSE, {"home"}, FALSE, 1, FALSE)
MCHomeOnly(budget) == MCOptions(TRUE, {"home"}, TRUE, budget, TRUE)
MCOpen(budget) == MCOptions(TRUE, MCHost, FALSE, budget, FALSE)

MCRunOf(names_, opts_) ==
  [names |-> names_, opts |-> opts_, vars |-> [v \in MCVar |-> Absent]]

MCRun ==
  {MCRunOf(<<"login">>, MCOpen(2)),
   MCRunOf(<<"login", "upload">>, MCOpen(1)),
   MCRunOf(<<"login", "profile">>, MCHomeOnly(1)),
   MCRunOf(<<"status", "upload">>, MCHomeOnly(0)),
   MCRunOf(<<"login", "status">>, MCStrict),
   [MCRunOf(<<"profile", "status", "nowhere">>, MCStrict) EXCEPT !.vars = [v \in MCVar |-> "away"]]}

MCStatus == {200, 301, 303, 307, 500}

=============================================================================
