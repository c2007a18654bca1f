---------------------------- MODULE ArtifactStore ----------------------------
(***************************************************************************)
(* The artifact store: ArtifactStore of packages/artifacts.  Processes     *)
(* that serve one prefix put, get and evict artifacts below one directory. *)
(* A process does one operation at a time; two processes interleave at     *)
(* each call of the file system, and any of them may die.                  *)
(*                                                                         *)
(* An artifact is <<id, kind>>: a file in the directory of its id, with a  *)
(* sidecar that names its type.  A content is [text, size], and stands for *)
(* its hash.                                                               *)
(***************************************************************************)
EXTENDS Absence, Naturals, FiniteSets, FiniteSetsExt, Sequences, SequencesExt, TLC

CONSTANT StoreSuites   \* sets of artifacts, sizes, policies and bounds, see StoreInit

VARIABLES
  shelf,      \* what may be put: [artifacts, sizes]
  retention,  \* per process: [age, entries, bytes, interval], a number or None each
  dirs,       \* the disk, per id: None, or [mtime, files, sidecars]
  stores,     \* per process: where it is in its operation
  artifacts,  \* per process: the contents it remembers of what it put
  limits,     \* bounds: [puts, crashes, until] to go
  clock,
  issued,     \* ghost, per artifact: what a put returned the handle of, untouched since
  meddled     \* ghost, per process: the artifacts others changed since it last began on them

svars == <<shelf, retention, dirs, stores, artifacts, limits, clock, issued, meddled>>

Server   == DOMAIN stores
Artifact == shelf.artifacts
Id       == {a[1] : a \in Artifact}
Kind     == {a[2] : a \in Artifact}

\* A file that was opened for writing is empty at first.
Torn == [text |-> None, size |-> 0]

Resting(last, told) ==
  [at |-> "idle", artifact |-> None, content |-> None, attached |-> FALSE, victim |-> None,
   scan |-> <<>>, taken |-> {}, left |-> {}, last |-> last, told |-> told]

StoreRests ==
  /\ shelf = None /\ retention = <<>> /\ dirs = <<>> /\ stores = <<>> /\ artifacts = <<>>
  /\ limits = None /\ clock = 0 /\ issued = <<>> /\ meddled = <<>>

StoreInit ==
  \E suite \in StoreSuites : \E policies \in suite.policies :
    /\ shelf = [artifacts |-> suite.artifacts, sizes |-> suite.sizes]
    /\ retention = policies
    /\ dirs = [i \in {a[1] : a \in suite.artifacts} |-> None]
    /\ stores = [s \in DOMAIN policies |-> Resting(None, None)]
    /\ artifacts = [s \in DOMAIN policies |-> [a \in suite.artifacts |-> None]]
    /\ limits = suite.limits
    /\ clock = 0
    /\ issued = [a \in suite.artifacts |-> None]
    /\ meddled = [s \in DOMAIN policies |-> {}]

\* What a file holds, and what a directory does; the time and the sizes are numbers.
Content          == [text : Nat \cup {None}, size : Nat]
Directory(kinds) ==
  [mtime : Nat, files : [kinds -> Content \cup {None}], sidecars : [kinds -> {"torn", "typed", None}]]

Policy == LET Number == Nat \cup {None}
          IN  [age : Number, entries : Number, bytes : Number, interval : Nat]

ASSUME StoreAssumption ==
  /\ None \notin Nat \cup Content \cup {"torn", "typed"}
  /\ \A suite \in StoreSuites :
       /\ IsFiniteSet(suite.artifacts) /\ \A a \in suite.artifacts : a = <<a[1], a[2]>>
       /\ None \notin Directory({a[2] : a \in suite.artifacts})
       /\ suite.sizes \subseteq Nat
       /\ suite.limits \in [puts : Nat, crashes : Nat, until : Nat]
       /\ \A policies \in suite.policies : \A s \in DOMAIN policies : policies[s] \in Policy

-----------------------------------------------------------------------------
(* The disk.                                                               *)

OnDisk(a)  == IF dirs[a[1]] = None THEN None ELSE dirs[a[1]].files[a[2]]
Sidecar(a) == IF dirs[a[1]] = None THEN None ELSE dirs[a[1]].sidecars[a[2]]

Nothing == [k \in Kind |-> None]

Empty(dir) == dir.files = Nothing /\ dir.sidecars = Nothing

\* What process s does to artifacts is news to the others; those it writes anew
\* are its own again.
Touches(s, as, anew) ==
  /\ issued' = [a \in Artifact |-> IF a \in as THEN None ELSE issued[a]]
  /\ meddled' = [p \in Server |-> IF p = s THEN meddled[p] \ anew ELSE meddled[p] \cup as]

OnlyStoresMove == UNCHANGED <<shelf, retention, limits, clock>>
OnlyReads == OnlyStoresMove /\ UNCHANGED <<dirs, artifacts, issued, meddled>>

Goes(s, store) == stores' = [stores EXCEPT ![s] = store]

\* The answer to a get, with what was known of the artifact at that moment.
Told(s, a, outcome) ==
  [artifact |-> a, outcome |-> outcome, issued |-> issued[a], apart |-> a \notin meddled[s]]

Missing == [as |-> "missing"]
Thrown  == [as |-> "thrown"]

\* An operation that throws; a put answers nobody.
Throws(s) == Resting(stores[s].last, None)

-----------------------------------------------------------------------------
(* put.                                                                    *)

\* A new body under any handle; mkdir leaves a directory that exists alone.
Put(s, a, size) ==
  /\ stores[s].at = "idle" /\ limits.puts > 0
  /\ limits' = [limits EXCEPT !.puts = @ - 1]
  /\ dirs' = [dirs EXCEPT ![a[1]] =
                IF @ = None THEN [mtime |-> clock, files |-> Nothing, sidecars |-> Nothing] ELSE @]
  /\ Goes(s, [Resting(stores[s].last, None) EXCEPT !.at = "file", !.artifact = a,
                                                    !.content = [text |-> limits.puts, size |-> size]])
  /\ UNCHANGED <<shelf, retention, artifacts, clock, issued, meddled>>

\* A directory's time is that of its last new or removed entry: writing a file
\* anew leaves it alone.
OpenFile(s) ==
  LET a == stores[s].artifact
  IN  /\ stores[s].at = "file"
      /\ IF dirs[a[1]] = None
         THEN /\ Goes(s, Throws(s))
              /\ UNCHANGED <<dirs, issued, meddled>>
         ELSE /\ Goes(s, [stores[s] EXCEPT !.at = "bytes", !.attached = TRUE])
              /\ dirs' = [dirs EXCEPT ![a[1]].mtime = IF OnDisk(a) = None THEN clock ELSE @,
                                      ![a[1]].files[a[2]] = Torn]
              /\ Touches(s, {a}, {a})
      /\ OnlyStoresMove /\ UNCHANGED artifacts

\* A file that was removed meanwhile takes the bytes with it.
WriteFile(s) ==
  LET a == stores[s].artifact
  IN  /\ stores[s].at = "bytes"
      /\ Goes(s, [stores[s] EXCEPT !.at = "sidecar", !.attached = FALSE])
      /\ IF stores[s].attached
         THEN /\ dirs' = [dirs EXCEPT ![a[1]].files[a[2]] = stores[s].content]
              /\ Touches(s, {a}, {})
         ELSE UNCHANGED <<dirs, issued, meddled>>
      /\ OnlyStoresMove /\ UNCHANGED artifacts

OpenSidecar(s) ==
  LET a == stores[s].artifact
  IN  /\ stores[s].at = "sidecar"
      /\ IF dirs[a[1]] = None
         THEN /\ Goes(s, Throws(s))
              /\ UNCHANGED <<dirs, issued, meddled>>
         ELSE /\ Goes(s, [stores[s] EXCEPT !.at = "type", !.attached = TRUE])
              /\ dirs' = [dirs EXCEPT ![a[1]].mtime = IF Sidecar(a) = None THEN clock ELSE @,
                                      ![a[1]].sidecars[a[2]] = "torn"]
              /\ Touches(s, {a}, {})
      /\ OnlyStoresMove /\ UNCHANGED artifacts

HasPolicy(r) == r.age # None \/ r.entries # None \/ r.bytes # None

\* maybeSweep
Due(s) ==
  /\ HasPolicy(retention[s])
  /\ \/ stores[s].last = None
     \/ clock - stores[s].last >= retention[s].interval

\* The sidecar is written, the handle remembered and returned, before or after a sweep.
WriteSidecar(s) ==
  LET a     == stores[s].artifact
      typed == [dirs EXCEPT ![a[1]].sidecars[a[2]] = "typed"]
      whole == stores[s].attached /\ OnDisk(a) = stores[s].content
  IN  /\ stores[s].at = "type"
      /\ dirs' = IF stores[s].attached THEN typed ELSE dirs
      /\ artifacts' = [artifacts EXCEPT ![s][a] = stores[s].content]
      /\ issued' = IF whole THEN [issued EXCEPT ![a] = stores[s].content] ELSE issued
      /\ meddled' = [p \in Server |-> IF p # s /\ stores[s].attached THEN meddled[p] \cup {a} ELSE meddled[p]]
      /\ Goes(s, IF Due(s) THEN [Resting(clock, None) EXCEPT !.at = "list"]
                 ELSE Resting(stores[s].last, None))
      /\ OnlyStoresMove

-----------------------------------------------------------------------------
(* sweep.                                                                  *)

ListRuns(s) ==
  /\ stores[s].at = "list"
  /\ Goes(s, [stores[s] EXCEPT !.at = "stat", !.left = {i \in Id : dirs[i] # None}])
  /\ OnlyReads

Bytes(dir) ==
  SumFunction([k \in Kind |-> (IF dir.files[k] = None THEN 0 ELSE dir.files[k].size)
                              + (IF dir.sidecars[k] = "typed" THEN 1 ELSE 0)])

Seen(scan, i, run) == [j \in DOMAIN scan \cup {i} |-> IF j = i THEN run ELSE scan[j]]

\* A directory that went away is skipped.
StatRun(s, i) ==
  /\ stores[s].at = "stat" /\ i \in stores[s].left
  /\ Goes(s, [stores[s] EXCEPT !.left = @ \ {i},
                !.scan = IF dirs[i] = None THEN @
                         ELSE Seen(@, i, [mtime |-> dirs[i].mtime, bytes |-> Bytes(dirs[i])])])
  /\ OnlyReads

Aged(r, scan, t) == {i \in DOMAIN scan : r.age # None /\ scan[i].mtime + r.age < t}

\* The runs that are young enough, newest first; ties fall as they may.
NewestFirst(r, scan, t) ==
  {q \in SetToSeqs(DOMAIN scan \ Aged(r, scan, t)) :
     \A i, j \in DOMAIN q : i < j => scan[q[i]].mtime >= scan[q[j]].mtime}

BytesIn(scan, runs) == SumFunctionOnSet([i \in DOMAIN scan |-> scan[i].bytes], runs)

Total(scan, q, n) == BytesIn(scan, {q[i] : i \in 1 .. n})

BugEvictions(r, scan, t, order) ==
  LET counted == IF r.entries = None THEN order ELSE SubSeq(order, 1, Min({r.entries, Len(order)}))
  IN  Aged(r, scan, t)
      \cup {order[i] : i \in DOMAIN order \ DOMAIN counted}
      \cup {counted[i] : i \in {i \in DOMAIN counted :
               r.bytes # None /\ Total(scan, order, i) >= r.bytes}}

\* By age, then by count, then by size, oldest first.
Evictions(r, scan, t, order) ==
  LET counted == IF r.entries = None THEN order ELSE SubSeq(order, 1, Min({r.entries, Len(order)}))
  IN  Aged(r, scan, t)
      \cup {order[i] : i \in DOMAIN order \ DOMAIN counted}
      \cup {counted[i] : i \in {i \in DOMAIN counted : r.bytes # None /\ Total(scan, order, i) > r.bytes}}

Decide(s) ==
  LET r == retention[s]
      scan == stores[s].scan
  IN  /\ stores[s].at = "stat" /\ stores[s].left = {}
      /\ \E order \in NewestFirst(r, scan, stores[s].last) :
           LET taken == Evictions(r, scan, stores[s].last, order)
           IN  Goes(s, [stores[s] EXCEPT !.at = "evict", !.taken = taken, !.left = taken])
      /\ OnlyReads

OfRun(i) == {a \in Artifact : a[1] = i}

\* rmSync removes the files of the directory and then the directory; one that
\* went away is not confined, and passed over.
RemoveFiles(s, i) ==
  /\ stores[s].at = "evict" /\ i \in stores[s].left
  /\ IF dirs[i] = None
     THEN /\ Goes(s, [stores[s] EXCEPT !.left = @ \ {i}])
          /\ UNCHANGED <<dirs, issued, meddled>>
     ELSE /\ stores' = [p \in Server |->
                IF p = s THEN [stores[s] EXCEPT !.left = @ \ {i}, !.at = "rmdir", !.victim = i]
                ELSE IF stores[p].attached /\ stores[p].artifact[1] = i
                THEN [stores[p] EXCEPT !.attached = FALSE] ELSE stores[p]]
          /\ dirs' = [dirs EXCEPT ![i] = [mtime |-> IF Empty(@) THEN @.mtime ELSE clock,
                                           files |-> Nothing, sidecars |-> Nothing]]
          /\ Touches(s, OfRun(i), {})
  /\ OnlyStoresMove /\ UNCHANGED artifacts

BugDropHandles(s, i) == artifacts[s]

\* dropHandles
DropHandles(s, i) == [a \in Artifact |-> IF a[1] = i THEN None ELSE artifacts[s][a]]

\* A file that somebody put there meanwhile keeps the directory, and the sweep throws.
RemoveRun(s) ==
  LET i     == stores[s].victim
      empty == dirs[i] = None \/ Empty(dirs[i])
  IN  /\ stores[s].at = "rmdir"
      /\ Goes(s, IF empty THEN [stores[s] EXCEPT !.at = "evict", !.victim = None] ELSE Throws(s))
      /\ dirs' = IF empty THEN [dirs EXCEPT ![i] = None] ELSE dirs
      /\ artifacts' = IF empty THEN [artifacts EXCEPT ![s] = DropHandles(s, i)] ELSE artifacts
      /\ meddled' = IF empty THEN meddled ELSE [meddled EXCEPT ![s] = @ \cup OfRun(i)]
      /\ OnlyStoresMove /\ UNCHANGED issued

EndSweep(s) ==
  /\ stores[s].at = "evict" /\ stores[s].left = {}
  /\ Goes(s, Resting(stores[s].last, None))
  /\ OnlyReads

-----------------------------------------------------------------------------
(* get.                                                                    *)

\* What a process put it remembers, all but the bytes.
GetRemembered(s, a) ==
  /\ stores[s].at = "idle" /\ artifacts[s][a] # None
  /\ Goes(s, Resting(stores[s].last, Told(s, a,
           IF OnDisk(a) = None THEN Thrown
           ELSE [as |-> "found", content |-> OnDisk(a), hash |-> artifacts[s][a], type |-> "typed"])))
  /\ OnlyReads

\* Anything else comes from the disk, or is missing.
GetFromDisk(s, a) ==
  /\ stores[s].at = "idle" /\ artifacts[s][a] = None
  /\ meddled' = [meddled EXCEPT ![s] = @ \ {a}]
  /\ Goes(s, IF OnDisk(a) = None
             THEN Resting(stores[s].last, [Told(s, a, Missing) EXCEPT !.apart = TRUE])
             ELSE [Resting(stores[s].last, None) EXCEPT !.at = "read", !.artifact = a])
  /\ OnlyStoresMove /\ UNCHANGED <<dirs, artifacts, issued>>

ReadFile(s) ==
  LET a == stores[s].artifact
  IN  /\ stores[s].at = "read"
      /\ Goes(s, IF OnDisk(a) = None THEN Resting(stores[s].last, Told(s, a, Thrown))
                 ELSE [stores[s] EXCEPT !.at = "readtype", !.content = OnDisk(a)])
      /\ OnlyReads

\* readSidecar: a sidecar that is missing or cannot be parsed leaves the type inferred.
ReadSidecar(s) ==
  LET a == stores[s].artifact
      c == stores[s].content
  IN  /\ stores[s].at = "readtype"
      /\ Goes(s, Resting(stores[s].last, Told(s, a,
               [as |-> "found", content |-> c, hash |-> c, type |-> IF Sidecar(a) = "typed" THEN "typed" ELSE "inferred"])))
      /\ OnlyReads

-----------------------------------------------------------------------------
\* A process dies and another takes its place.
StoreDies(s) ==
  /\ limits.crashes > 0
  /\ limits' = [limits EXCEPT !.crashes = @ - 1]
  /\ Goes(s, Resting(None, None))
  /\ artifacts' = [artifacts EXCEPT ![s] = [a \in Artifact |-> None]]
  /\ meddled' = [meddled EXCEPT ![s] = {}]
  /\ UNCHANGED <<shelf, retention, dirs, clock, issued>>

StoreTick ==
  /\ clock < limits.until
  /\ clock' = clock + 1
  /\ UNCHANGED <<shelf, retention, dirs, stores, artifacts, limits, issued, meddled>>

StoreOver(s) == stores[s].at = "idle"

StoreNext ==
  \/ \E s \in Server, a \in Artifact : \E size \in shelf.sizes : Put(s, a, size)
  \/ \E s \in Server : OpenFile(s) \/ WriteFile(s) \/ OpenSidecar(s) \/ WriteSidecar(s)
  \/ \E s \in Server : ListRuns(s) \/ Decide(s) \/ RemoveRun(s) \/ EndSweep(s)
  \/ \E s \in Server, i \in Id : StatRun(s, i) \/ RemoveFiles(s, i)
  \/ \E s \in Server, a \in Artifact : GetRemembered(s, a) \/ GetFromDisk(s, a)
  \/ \E s \in Server : ReadFile(s) \/ ReadSidecar(s) \/ StoreDies(s)
  \/ StoreTick

-----------------------------------------------------------------------------
(* Properties.                                                             *)

\* A get that no other process interferes with says what is so: it does not
\* throw for what the process itself evicted, the hash it gives is that of the
\* bytes, and an artifact whose handle was returned, and that nobody has
\* written or evicted since, is found as it was put -- also by a process that
\* was started after its writer died (store.ts, get, dropHandles).
AnswersAreHonest ==
  \A s \in Server :
    LET told == stores[s].told
    IN  told # None /\ told.apart =>
          /\ told.outcome.as # "thrown"
          /\ told.outcome.as = "found" => told.outcome.hash = told.outcome.content
          /\ told.issued # None =>
               told.outcome = [as |-> "found", content |-> told.issued, hash |-> told.issued, type |-> "typed"]

\* What a sweep takes from what it saw is older than all it leaves; what it
\* leaves is within the policy; and the newest it takes did not fit
\* (store.ts, sweep; docs/decisions/0017-artifact-retention.md).
SweepsTakeTheOldest ==
  \A s \in Server :
    LET r     == retention[s]
        scan  == stores[s].scan
        taken == stores[s].taken
        stays == DOMAIN scan \ taken
        fits(runs) == /\ \A i \in runs : r.age = None \/ scan[i].mtime + r.age >= stores[s].last
                      /\ r.entries = None \/ Cardinality(runs) <= r.entries
                      /\ r.bytes = None \/ BytesIn(scan, runs) <= r.bytes
    IN  stores[s].at \in {"evict", "rmdir"} =>
          /\ fits(stays)
          /\ \A i \in taken, j \in stays : scan[i].mtime <= scan[j].mtime
          /\ taken # {} => \E i \in taken : /\ \A j \in taken : scan[j].mtime <= scan[i].mtime
                                           /\ ~ fits(stays \cup {i})
=============================================================================
