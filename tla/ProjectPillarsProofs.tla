------------------------ MODULE ProjectPillarsProofs ------------------------
(***************************************************************************)
(* Proofs about the project's pillars: the artifact store, coverage, the   *)
(* dependencies, the mutation runs and the flake history.                  *)
(*                                                                         *)
(* StoreInv relates the disk to what the processes remember of it, up to   *)
(* what other processes changed meanwhile and to what each process is      *)
(* itself in the middle of.  SweepInv keeps what a sweep saw a table of    *)
(* numbers, and from its decision on says that it takes the oldest.  That  *)
(* the decision does is a fact about Evictions alone, from facts about     *)
(* sums over finite sets; where an induction is wanted, a least            *)
(* counterexample is taken.                                                *)
(*                                                                         *)
(* CoverageInv says what a measured report is and what each step of a      *)
(* command knows of its answer.  AuditInv sets what the classifier of a    *)
(* diff remembers against the place its lines are at in the file they come *)
(* from (Follows), and the names it found against the names they change,   *)
(* as far as the diff can be read without doubt; there is a lemma for each *)
(* kind of file.                                                           *)
(*                                                                         *)
(* MutationInv follows a mutation run from the selection to the answer:    *)
(* what lies in its session, or in the shared report, is what the tool     *)
(* says of the mutants the call found, or of nothing, or of mutants not    *)
(* tried yet.  The two latter do not pass the check for a complete         *)
(* summary, which is a fact about sums over finite sets.                   *)
(*                                                                         *)
(* DepsInv says that every audit is AuditDependency of some version, and   *)
(* that a quiet answer is told of all of them; the rest is about the       *)
(* matcher: after so many events, in their turn, the scan is open when one *)
(* of them opened it and none since closed it, which is what a window is.  *)
(* FlakeInv says that the rows of the history tell what the tests whose    *)
(* reports were recorded did.                                              *)
(***************************************************************************)
EXTENDS ProjectPillars, FiniteSetTheorems, WellFoundedInduction, TLAPS

-----------------------------------------------------------------------------
(* The artifact store.                                                     *)

\* A process is in the middle of a put, a read or a sweep of its own.
Writing(store)  == store.at \in {"file", "bytes", "sidecar", "type"}
Fetching(store)  == store.at \in {"read", "readtype"}
Sweeping(store) == store.at \in {"list", "stat", "evict", "rmdir"}

\* The fields of a process, as a record of them.
Fields(r) ==
  [at |-> r.at, artifact |-> r.artifact, content |-> r.content, attached |-> r.attached,
   victim |-> r.victim, scan |-> r.scan, taken |-> r.taken, left |-> r.left,
   last |-> r.last, told |-> r.told]

IsStore(r) ==
  /\ r = Fields(r)
  /\ r.at = "idle" \/ Writing(r) \/ Fetching(r) \/ Sweeping(r)
  /\ Writing(r) \/ Fetching(r) => r.artifact \in Artifact
  /\ Writing(r) \/ r.at = "readtype" => r.content \in Content
  /\ r.attached \in BOOLEAN /\ (r.attached => r.at \in {"bytes", "type"})
  /\ r.at = "rmdir" => r.victim \in Id

\* The disk, the bounds, and what the processes and the ghosts remember.
DiskInv ==
  /\ \A a \in Artifact : a = <<a[1], a[2]>>
  /\ None \notin Directory(Kind)
  /\ shelf.sizes \subseteq Nat
  /\ dirs \in [Id -> Directory(Kind) \cup {None}]
  /\ artifacts \in [Server -> [Artifact -> Content \cup {None}]]
  /\ limits \in [puts : Nat, crashes : Nat, until : Nat]
  /\ clock \in Nat
  /\ issued \in [Artifact -> Content \cup {None}]
  /\ meddled \in [Server -> SUBSET Artifact]

\* An artifact whose handle was returned, untouched since, is whole.
IssuedInv ==
  \A a \in Artifact : issued[a] # None => OnDisk(a) = issued[a] /\ Sidecar(a) = "typed"

\* What a process is writing now, and what it has removed the files of.
Current(s, a)  == stores[s].at \in {"bytes", "sidecar", "type"} /\ stores[s].artifact = a
Clearing(s, a) == stores[s].at = "rmdir" /\ stores[s].victim = a[1]

\* What a process remembers and nobody else changed is on the disk, but for
\* what the process itself is changing.
RememberedBy(s) ==
  \A a \in Artifact :
    artifacts[s][a] # None /\ a \notin meddled[s] =>
      OnDisk(a) = artifacts[s][a] \/ Current(s, a) \/ Clearing(s, a)

\* A file a process has open is still in its directory.
AttachedBy(s) ==
  LET a == stores[s].artifact
  IN  stores[s].attached =>
        /\ dirs[a[1]] # None
        /\ stores[s].at = "bytes" => OnDisk(a) # None
        /\ stores[s].at = "type" => Sidecar(a) # None

\* What a process has written or read so far is on the disk, unless another
\* process changed it.
OwnBy(s) ==
  LET a == stores[s].artifact
  IN  a \notin meddled[s] =>
        /\ stores[s].at = "bytes" => stores[s].attached
        /\ stores[s].at \in {"sidecar", "type", "readtype"} => OnDisk(a) = stores[s].content
        /\ stores[s].at = "read" => OnDisk(a) # None

Honest(answer) ==
  answer # None /\ answer.apart =>
    /\ answer.outcome.as # "thrown"
    /\ answer.outcome.as = "found" => answer.outcome.hash = answer.outcome.content
    /\ answer.issued # None =>
         answer.outcome = [as |-> "found", content |-> answer.issued, hash |-> answer.issued, type |-> "typed"]

ProcessInv(s) ==
  /\ IsStore(stores[s]) /\ RememberedBy(s) /\ AttachedBy(s) /\ OwnBy(s) /\ Honest(stores[s].told)

StoreInv == DiskInv /\ IssuedInv /\ \A s \in Server : ProcessInv(s)

PillarInv == stores = <<>> \/ StoreInv

-----------------------------------------------------------------------------
(* What a step of one process leaves of the others.                        *)

\* A process that does not move keeps its part of the invariant, when the
\* artifacts that were changed are those it is told of.
LEMMA OthersKeep ==
  ASSUME StoreInv, NEW p \in Server, NEW W \in SUBSET Artifact, NEW b, b = stores[p].artifact,
         shelf' = shelf, artifacts'[p] = artifacts[p], meddled'[p] = meddled[p] \cup W,
         \A a \in Artifact \ W : OnDisk(a)' = OnDisk(a),
         \/ /\ stores'[p] = stores[p]
            /\ stores[p].attached => /\ OnDisk(b) # None => OnDisk(b)' # None
                                     /\ Sidecar(b) # None => Sidecar(b)' # None
         \/ stores'[p] = [stores[p] EXCEPT !.attached = FALSE] /\ b \in W
  PROVE  ProcessInv(p)'
<1> DEFINE r == stores[p]
           q == stores'[p]
<1>1. IsStore(r) /\ RememberedBy(p) /\ AttachedBy(p) /\ OwnBy(p) /\ Honest(r.told)
  BY DEF StoreInv, ProcessInv
<1>2. Artifact' = Artifact /\ Id' = Id
  BY DEF Artifact, Id
<1>3. /\ q = Fields(q)
      /\ q.at = r.at /\ q.artifact = r.artifact /\ q.content = r.content /\ q.victim = r.victim /\ q.told = r.told
      /\ q.attached = r.attached \/ (q.attached = FALSE /\ b \in W)
  <2>1. r = Fields(r)
    BY <1>1 DEF IsStore
  <2>2. CASE q = r
    BY <2>1, <2>2
  <2>3. CASE q = [r EXCEPT !.attached = FALSE] /\ b \in W
    BY <2>1, <2>3 DEF Fields
  <2> QED BY <2>2, <2>3
<1>4. IsStore(stores[p])'
  BY <1>1, <1>2, <1>3 DEF IsStore, Writing, Fetching, Sweeping
<1>5. RememberedBy(p)'
  BY <1>1, <1>2, <1>3 DEF RememberedBy, Current, Clearing
<1>6. AttachedBy(p)'
  <2>1. CASE ~ q.attached
    BY <2>1 DEF AttachedBy
  <2>2. CASE q.attached
    <3>1. q = r /\ (OnDisk(b) # None => OnDisk(b)' # None) /\ (Sidecar(b) # None => Sidecar(b)' # None)
      <4>1. q # [r EXCEPT !.attached = FALSE]
        BY <1>1, <2>2 DEF IsStore, Fields
      <4> QED BY <2>2, <4>1
    <3>2. r.at \in {"bytes", "type"} /\ (r.at = "bytes" => OnDisk(b)' # None) /\ (r.at = "type" => Sidecar(b)' # None)
      BY <1>1, <2>2, <3>1 DEF IsStore, AttachedBy
    <3>3. dirs'[b[1]] # None
      BY <3>2 DEF OnDisk, Sidecar
    <3> QED BY <3>1, <3>2, <3>3 DEF AttachedBy, OnDisk, Sidecar
  <2> QED BY <2>1, <2>2
<1>7. OwnBy(p)'
  <2>1. CASE b \in W
    BY <1>2, <1>3, <2>1 DEF OwnBy
  <2>2. CASE b \notin W /\ q.at \in {"bytes", "sidecar", "type", "read", "readtype"}
    <3>1. b \in Artifact
      BY <1>1, <1>3, <2>2 DEF IsStore, Writing, Fetching
    <3>2. OnDisk(b)' = OnDisk(b)
      BY <2>2, <3>1
    <3>3. b \notin meddled'[p] =>
            /\ q.at = "bytes" => q.attached
            /\ q.at \in {"sidecar", "type", "readtype"} => OnDisk(b)' = q.content
            /\ q.at = "read" => OnDisk(b)' # None
      BY <1>1, <1>3, <2>2, <3>2 DEF OwnBy
    <3> QED BY <1>3, <3>3 DEF OwnBy, OnDisk
  <2> QED BY <2>1, <2>2 DEF OwnBy
<1> QED BY <1>1, <1>3, <1>4, <1>5, <1>6, <1>7 DEF ProcessInv, Honest

LEMMA RestingStore ==
  ASSUME NEW last, NEW answer
  PROVE  /\ IsStore(Resting(last, answer)) /\ Resting(last, answer).at = "idle" /\ Resting(last, answer).told = answer
         /\ Resting(last, answer).attached = FALSE
BY DEF Resting, IsStore, Fields, Writing, Fetching

\* A step that leaves the disk alone.
LEMMA QuietSteps ==
  ASSUME StoreInv, NEW s \in Server, NEW q, stores' = [stores EXCEPT ![s] = q],
         UNCHANGED <<shelf, dirs, artifacts, issued>>,
         limits' \in [puts : Nat, crashes : Nat, until : Nat], clock' \in Nat,
         meddled' \in [Server -> SUBSET Artifact],
         \A p \in Server \ {s} : meddled'[p] = meddled[p],
         \A a \in meddled[s] \ meddled'[s] : artifacts[s][a] = None,
         stores[s].at \notin {"bytes", "sidecar", "type", "rmdir"},
         IsStore(q), ~ q.attached, Honest(q.told), q.at \notin {"bytes", "sidecar", "type"},
         LET a == q.artifact
         IN  a \notin meddled'[s] => /\ q.at = "readtype" => OnDisk(a) = q.content
                                     /\ q.at = "read" => OnDisk(a) # None
  PROVE  StoreInv'
<1>1. Artifact' = Artifact /\ Id' = Id /\ Kind' = Kind /\ Server' = Server
      /\ stores'[s] = q /\ \A p \in Server \ {s} : stores'[p] = stores[p]
  BY DEF Artifact, Id, Kind, Server
<1>2. \A a : OnDisk(a)' = OnDisk(a) /\ Sidecar(a)' = Sidecar(a)
  BY DEF OnDisk, Sidecar
<1>3. DiskInv'
  BY <1>1 DEF StoreInv, DiskInv
<1>4. IssuedInv'
  BY <1>1, <1>2 DEF StoreInv, IssuedInv
<1>5. ProcessInv(s)'
  <2>1. ProcessInv(s)
    BY DEF StoreInv
  <2>2. IsStore(stores[s])'
    BY <1>1 DEF IsStore, Fields, Writing, Fetching, Sweeping
  <2>3. RememberedBy(s)'
    <3> SUFFICES ASSUME NEW a \in Artifact, artifacts[s][a] # None, a \notin meddled'[s]
                 PROVE  OnDisk(a)' = artifacts[s][a]
      BY <1>1 DEF RememberedBy
    <3>1. a \notin meddled[s]
      OBVIOUS
    <3> QED BY <1>2, <2>1, <3>1 DEF ProcessInv, RememberedBy, Current, Clearing
  <2>4. AttachedBy(s)' /\ Honest(stores[s].told)'
    BY <1>1 DEF AttachedBy, Honest
  <2>5. OwnBy(s)'
    BY <1>1 DEF OwnBy, OnDisk
  <2> QED BY <2>2, <2>3, <2>4, <2>5 DEF ProcessInv
<1>6. ASSUME NEW p \in Server, p # s PROVE ProcessInv(p)'
  BY <1>1, <1>2, <1>6, OthersKeep, meddled'[p] = meddled[p] \cup {}
<1> QED BY <1>1, <1>3, <1>4, <1>5, <1>6 DEF StoreInv

-----------------------------------------------------------------------------
(* The steps that leave the disk alone.                                    *)

LEMMA OnlyReadsIsQuiet ==
  ASSUME StoreInv, OnlyReads
  PROVE  /\ UNCHANGED <<shelf, dirs, artifacts, issued, meddled>>
         /\ limits' \in [puts : Nat, crashes : Nat, until : Nat] /\ clock' \in Nat
         /\ meddled' \in [Server -> SUBSET Artifact]
         /\ \A p \in Server : meddled'[p] = meddled[p] /\ meddled[p] \ meddled'[p] = {}
BY DEF StoreInv, DiskInv, OnlyReads, OnlyStoresMove

LEMMA SweepReadsKeep ==
  ASSUME StoreInv, NEW s \in Server, ListRuns(s) \/ Decide(s) \/ EndSweep(s) \/ \E i \in Id : StatRun(s, i)
  PROVE  StoreInv'
<1>1. PICK r : r = stores[s]
  OBVIOUS
<1>2. IsStore(r) /\ Honest(r.told)
  BY <1>1 DEF StoreInv, ProcessInv
<1>3. OnlyReads /\ r.at \in {"list", "stat", "evict"} /\ r.attached = FALSE
  <2>1. OnlyReads /\ r.at \in {"list", "stat", "evict"}
    BY <1>1 DEF ListRuns, Decide, EndSweep, StatRun
  <2> QED BY <1>2, <2>1 DEF IsStore
<1>4. ASSUME NEW q, stores' = [stores EXCEPT ![s] = q], q = Fields(q), q.attached = FALSE, q.told = r.told,
             q.at \in {"stat", "evict"}
      PROVE  StoreInv'
  <2>1. IsStore(q)
    BY <1>4 DEF IsStore, Writing, Fetching, Sweeping
  <2> QED BY <1>1, <1>2, <1>3, <1>4, <2>1, OnlyReadsIsQuiet, QuietSteps
<1>5. CASE ListRuns(s)
  <2>1. PICK runs : stores' = [stores EXCEPT ![s] = [r EXCEPT !.at = "stat", !.left = runs]]
    BY <1>1, <1>5 DEF ListRuns, Goes
  <2>2. PICK q : q = [r EXCEPT !.at = "stat", !.left = runs]
    OBVIOUS
  <2>3. q = Fields(q) /\ q.at = "stat" /\ q.attached = r.attached /\ q.told = r.told
    BY <1>2, <2>2 DEF IsStore, Fields
  <2> QED BY <1>3, <1>4, <2>1, <2>2, <2>3
<1>6. CASE Decide(s)
  <2> DEFINE Taken(order) == Evictions(retention[s], stores[s].scan, stores[s].last, order)
  <2>0. PICK order : stores' = [stores EXCEPT ![s] =
                                  [r EXCEPT !.at = "evict", !.taken = Taken(order), !.left = Taken(order)]]
    <3> HIDE DEF Taken
    <3>1. PICK order : Goes(s, [stores[s] EXCEPT !.at = "evict", !.taken = Taken(order), !.left = Taken(order)])
      BY <1>6, Zenon DEF Decide, Taken
    <3> QED BY <1>1, <3>1, Zenon DEF Goes
  <2>1. PICK taken : taken = Taken(order)
    OBVIOUS
  <2>2. PICK q : q = [r EXCEPT !.at = "evict", !.taken = taken, !.left = taken]
    OBVIOUS
  <2>3. q = Fields(q) /\ q.at = "evict" /\ q.attached = r.attached /\ q.told = r.told
    BY <1>2, <2>2 DEF IsStore, Fields
  <2> QED BY <1>3, <1>4, <2>0, <2>1, <2>2, <2>3
<1>7. CASE EndSweep(s)
  <2>1. stores' = [stores EXCEPT ![s] = Resting(r.last, None)]
    BY <1>1, <1>7 DEF EndSweep, Goes
  <2>2. PICK q : q = Resting(r.last, None)
    OBVIOUS
  <2>3. IsStore(q) /\ q.at = "idle" /\ q.told = None /\ q.attached = FALSE
    BY <2>2, RestingStore
  <2>4. Honest(q.told)
    BY <2>3 DEF Honest
  <2> QED BY <1>1, <1>3, <2>1, <2>2, <2>3, <2>4, OnlyReadsIsQuiet, QuietSteps
<1>8. ASSUME NEW i \in Id, StatRun(s, i)
      PROVE  StoreInv'
  <2>1. PICK scan : scan = IF dirs[i] = None THEN r.scan
                           ELSE Seen(r.scan, i, [mtime |-> dirs[i].mtime, bytes |-> Bytes(dirs[i])])
    OBVIOUS
  <2>2. stores' = [stores EXCEPT ![s] = [r EXCEPT !.left = r.left \ {i}, !.scan = scan]] /\ r.at = "stat"
    BY <1>1, <1>8, <2>1 DEF StatRun, Goes
  <2>3. PICK q : q = [r EXCEPT !.left = r.left \ {i}, !.scan = scan]
    OBVIOUS
  <2>4. q = Fields(q) /\ q.at = r.at /\ q.attached = r.attached /\ q.told = r.told
    BY <1>2, <2>3 DEF IsStore, Fields
  <2> QED BY <1>3, <1>4, <2>2, <2>3, <2>4
<1> QED BY <1>5, <1>6, <1>7, <1>8

LEMMA AnswerKeeps ==
  ASSUME StoreInv, NEW s \in Server, OnlyReads, stores[s].at \in {"idle", "read", "readtype"},
         NEW last, NEW answer, stores' = [stores EXCEPT ![s] = Resting(last, answer)], Honest(answer)
  PROVE  StoreInv'
<1>1. PICK q : q = Resting(last, answer)
  OBVIOUS
<1>2. IsStore(q) /\ q.at = "idle" /\ q.told = answer /\ q.attached = FALSE
  BY <1>1, RestingStore
<1> QED BY <1>1, <1>2, OnlyReadsIsQuiet, QuietSteps

\* What is known of an artifact whose handle was returned.
LEMMA IssuedIsWhole ==
  ASSUME StoreInv, NEW a \in Artifact, issued[a] # None
  PROVE  OnDisk(a) = issued[a] /\ Sidecar(a) = "typed"
BY DEF StoreInv, IssuedInv

LEMMA GetRememberedKeeps ==
  ASSUME StoreInv, NEW s \in Server, NEW a \in Artifact, GetRemembered(s, a)
  PROVE  StoreInv'
<1>1. PICK outcome : outcome = IF OnDisk(a) = None THEN Thrown
           ELSE [as |-> "found", content |-> OnDisk(a), hash |-> artifacts[s][a], type |-> "typed"]
  OBVIOUS
<1>2. PICK answer : answer = Told(s, a, outcome)
  OBVIOUS
<1>3. OnlyReads /\ stores[s].at = "idle" /\ artifacts[s][a] # None
      /\ stores' = [stores EXCEPT ![s] = Resting(stores[s].last, answer)]
  BY <1>1, <1>2 DEF GetRemembered, Goes
<1>4. Honest(answer)
  <2>1. a \notin meddled[s] => OnDisk(a) = artifacts[s][a]
    BY <1>3 DEF StoreInv, ProcessInv, RememberedBy, Current, Clearing
  <2>2. answer.outcome = outcome /\ answer.issued = issued[a] /\ answer.apart = (a \notin meddled[s])
    BY <1>2 DEF Told
  <2>3. CASE a \notin meddled[s]
    BY <1>1, <1>3, <2>1, <2>2, <2>3, IssuedIsWhole DEF Honest
  <2>4. CASE a \in meddled[s]
    BY <2>2, <2>4 DEF Honest
  <2> QED BY <2>3, <2>4
<1> QED BY <1>3, <1>4, AnswerKeeps

LEMMA ReadFileKeeps ==
  ASSUME StoreInv, NEW s \in Server, ReadFile(s)
  PROVE  StoreInv'
<1>1. PICK r, a : r = stores[s] /\ a = r.artifact
  OBVIOUS
<1>2. IsStore(r) /\ OwnBy(s) /\ Honest(r.told) /\ r.at = "read" /\ a \in Artifact /\ OnlyReads
  BY <1>1 DEF StoreInv, ProcessInv, ReadFile, IsStore, Fetching
<1>3. CASE OnDisk(a) = None
  <2>1. PICK answer : answer = Told(s, a, Thrown)
    OBVIOUS
  <2>2. stores' = [stores EXCEPT ![s] = Resting(r.last, answer)]
    BY <1>1, <1>3, <2>1 DEF ReadFile, Goes
  <2>3. a \in meddled[s]
    BY <1>1, <1>2, <1>3 DEF OwnBy
  <2>4. answer.apart = FALSE
    BY <2>1, <2>3 DEF Told
  <2>5. Honest(answer)
    BY <2>4 DEF Honest
  <2> QED BY <1>1, <1>2, <2>2, <2>5, AnswerKeeps
<1>4. CASE OnDisk(a) # None
  <2>1. PICK c, q : c = OnDisk(a) /\ q = [r EXCEPT !.at = "readtype", !.content = c]
    OBVIOUS
  <2>2. q = Fields(q) /\ q.at = "readtype" /\ q.content = c /\ q.artifact = a /\ q.told = r.told /\ q.attached = r.attached
    BY <1>1, <1>2, <2>1 DEF IsStore, Fields
  <2>3. c \in Content
    <3>1. a[1] \in Id /\ a[2] \in Kind /\ dirs[a[1]] # None
      BY <1>2, <1>4 DEF Id, Kind, OnDisk
    <3>2. dirs[a[1]] \in Directory(Kind)
      BY <3>1 DEF StoreInv, DiskInv
    <3> QED BY <1>4, <2>1, <3>1, <3>2 DEF OnDisk, Directory
  <2>4. IsStore(q)
    BY <1>2, <2>2, <2>3 DEF IsStore, Writing, Fetching, Sweeping
  <2>5. q.attached = FALSE
    BY <1>2, <2>2 DEF IsStore
  <2>6. stores' = [stores EXCEPT ![s] = q]
    BY <1>1, <1>4, <2>1 DEF ReadFile, Goes
  <2>7. Honest(q.told) /\ a = q.artifact /\ OnDisk(a) = q.content /\ stores[s].at = "read"
    BY <1>1, <1>2, <2>1, <2>2
  <2>8. /\ UNCHANGED <<shelf, dirs, artifacts, issued>>
        /\ limits' \in [puts : Nat, crashes : Nat, until : Nat] /\ clock' \in Nat
        /\ meddled' \in [Server -> SUBSET Artifact]
        /\ \A p \in Server : meddled'[p] = meddled[p] /\ meddled[p] \ meddled'[p] = {}
    BY <1>2, OnlyReadsIsQuiet
  <2> QED BY <2>2, <2>4, <2>5, <2>6, <2>7, <2>8, QuietSteps
<1> QED BY <1>3, <1>4

LEMMA ReadSidecarKeeps ==
  ASSUME StoreInv, NEW s \in Server, ReadSidecar(s)
  PROVE  StoreInv'
<1>1. PICK r, a, c : r = stores[s] /\ a = r.artifact /\ c = r.content
  OBVIOUS
<1>2. IsStore(r) /\ OwnBy(s) /\ r.at = "readtype" /\ a \in Artifact /\ OnlyReads
  BY <1>1 DEF StoreInv, ProcessInv, ReadSidecar, IsStore, Fetching
<1>3. PICK outcome : outcome = [as |-> "found", content |-> c, hash |-> c, type |-> IF Sidecar(a) = "typed" THEN "typed" ELSE "inferred"]
  OBVIOUS
<1>4. PICK answer : answer = Told(s, a, outcome)
  OBVIOUS
<1>5. stores' = [stores EXCEPT ![s] = Resting(r.last, answer)]
  BY <1>1, <1>3, <1>4 DEF ReadSidecar, Goes
<1>6. Honest(answer)
  <2>1. a \notin meddled[s] => OnDisk(a) = c
    BY <1>1, <1>2 DEF OwnBy
  <2>2. answer.outcome = outcome /\ answer.issued = issued[a] /\ answer.apart = (a \notin meddled[s])
    BY <1>4 DEF Told
  <2>3. CASE a \notin meddled[s]
    BY <1>2, <1>3, <2>1, <2>2, <2>3, IssuedIsWhole DEF Honest
  <2>4. CASE a \in meddled[s]
    BY <2>2, <2>4 DEF Honest
  <2> QED BY <2>3, <2>4
<1> QED BY <1>1, <1>2, <1>5, <1>6, AnswerKeeps

LEMMA GetFromDiskKeeps ==
  ASSUME StoreInv, NEW s \in Server, NEW a \in Artifact, GetFromDisk(s, a)
  PROVE  StoreInv'
<1>1. PICK r : r = stores[s]
  OBVIOUS
<1>2. /\ UNCHANGED <<shelf, dirs, artifacts, issued, limits, clock>> /\ r.at = "idle"
      /\ artifacts[s][a] = None /\ meddled' = [meddled EXCEPT ![s] = @ \ {a}]
  BY <1>1 DEF GetFromDisk, OnlyStoresMove
<1>3. /\ limits' \in [puts : Nat, crashes : Nat, until : Nat] /\ clock' \in Nat
      /\ meddled' \in [Server -> SUBSET Artifact]
      /\ \A p \in Server \ {s} : meddled'[p] = meddled[p]
      /\ \A b \in meddled[s] \ meddled'[s] : artifacts[s][b] = None
  BY <1>2 DEF StoreInv, DiskInv
<1>4. CASE OnDisk(a) = None
  <2>1. PICK answer : answer = [Told(s, a, Missing) EXCEPT !.apart = TRUE]
    OBVIOUS
  <2>0. PICK q : q = Resting(r.last, answer)
    OBVIOUS
  <2>2. answer.outcome = Missing /\ answer.issued = issued[a]
    BY <2>1 DEF Told
  <2>3. issued[a] = None
    BY <1>4, IssuedIsWhole
  <2>4. Honest(answer)
    BY <2>2, <2>3 DEF Honest, Missing
  <2>5. stores' = [stores EXCEPT ![s] = q]
    BY <1>1, <1>4, <2>0, <2>1 DEF GetFromDisk, Goes
  <2>6. IsStore(q) /\ q.at = "idle" /\ q.told = answer /\ ~ q.attached
    BY <2>0, RestingStore
  <2> QED BY <1>1, <1>2, <1>3, <2>4, <2>5, <2>6, QuietSteps
<1>5. CASE OnDisk(a) # None
  <2>1. PICK q : q = [Resting(r.last, None) EXCEPT !.at = "read", !.artifact = a]
    OBVIOUS
  <2>2. q = Fields(q) /\ q.at = "read" /\ q.artifact = a /\ q.told = None /\ q.attached = FALSE
    BY <2>1 DEF Resting, Fields
  <2>3. stores' = [stores EXCEPT ![s] = q]
    BY <1>1, <1>5, <2>1 DEF GetFromDisk, Goes
  <2>4. IsStore(q)
    BY <2>2 DEF IsStore, Writing, Fetching, Sweeping
  <2>5. Honest(q.told)
    BY <2>2 DEF Honest
  <2>6. /\ ~ q.attached /\ a = q.artifact /\ q.at \notin {"bytes", "sidecar", "type"}
        /\ stores[s].at \notin {"bytes", "sidecar", "type", "rmdir"}
        /\ a \notin meddled'[s] => /\ q.at = "readtype" => OnDisk(a) = q.content
                                   /\ q.at = "read" => OnDisk(a) # None
    BY <1>1, <1>2, <1>5, <2>2
  <2>7. UNCHANGED <<shelf, dirs, artifacts, issued>>
    BY <1>2
  <2> QED BY <1>3, <2>3, <2>4, <2>5, <2>6, <2>7, QuietSteps
<1> QED BY <1>4, <1>5

-----------------------------------------------------------------------------
(* The clock, a crash, and what a put does.                                *)

LEMMA StillKeeps ==
  ASSUME StoreInv, UNCHANGED <<shelf, dirs, stores, artifacts, limits, issued, meddled>>, clock' \in Nat
  PROVE  StoreInv'
<1>1. UNCHANGED <<shelf, dirs, stores, artifacts, limits, issued, meddled>> /\ clock' \in Nat
  OBVIOUS
<1>2. Artifact' = Artifact /\ Id' = Id /\ Kind' = Kind /\ Server' = Server
      /\ \A a : OnDisk(a)' = OnDisk(a) /\ Sidecar(a)' = Sidecar(a)
  BY <1>1 DEF Artifact, Id, Kind, Server, OnDisk, Sidecar
<1>3. DiskInv'
  BY <1>1, <1>2 DEF StoreInv, DiskInv
<1>4. IssuedInv'
  BY <1>1, <1>2 DEF StoreInv, IssuedInv
<1>5. ASSUME NEW p \in Server PROVE ProcessInv(p)'
  <2>1. meddled'[p] = meddled[p] \cup {}
    BY <1>1
  <2> QED BY <1>1, <1>2, <2>1, OthersKeep
<1> QED BY <1>2, <1>3, <1>4, <1>5 DEF StoreInv

LEMMA TickKeeps ==
  ASSUME StoreInv, StoreTick
  PROVE  StoreInv'
<1>1. UNCHANGED <<shelf, dirs, stores, artifacts, limits, issued, meddled>> /\ clock' \in Nat
  BY DEF StoreTick, StoreInv, DiskInv
<1> QED BY <1>1, StillKeeps

LEMMA DeathKeeps ==
  ASSUME StoreInv, NEW s \in Server, StoreDies(s)
  PROVE  StoreInv'
<1>1. /\ UNCHANGED <<shelf, dirs, clock, issued>>
      /\ limits' = [limits EXCEPT !.crashes = @ - 1] /\ limits.crashes > 0
      /\ stores' = [stores EXCEPT ![s] = Resting(None, None)]
      /\ artifacts' = [artifacts EXCEPT ![s] = [a \in Artifact |-> None]]
      /\ meddled' = [meddled EXCEPT ![s] = {}]
  BY DEF StoreDies, Goes
<1>2. Artifact' = Artifact /\ Id' = Id /\ Kind' = Kind /\ Server' = Server
      /\ \A a : OnDisk(a)' = OnDisk(a) /\ Sidecar(a)' = Sidecar(a)
  BY <1>1 DEF Artifact, Id, Kind, Server, OnDisk, Sidecar
<1>3. DiskInv'
  <2>1. limits' \in [puts : Nat, crashes : Nat, until : Nat]
    BY <1>1 DEF StoreInv, DiskInv
  <2>2. /\ artifacts' \in [Server -> [Artifact -> Content \cup {None}]]
        /\ meddled' \in [Server -> SUBSET Artifact]
    BY <1>1 DEF StoreInv, DiskInv
  <2> QED BY <1>1, <1>2, <2>1, <2>2 DEF StoreInv, DiskInv
<1>4. IssuedInv'
  BY <1>1, <1>2 DEF StoreInv, IssuedInv
<1>5. ProcessInv(s)'
  <2>1. stores'[s] = Resting(None, None) /\ \A a \in Artifact : artifacts'[s][a] = None
    BY <1>1 DEF StoreInv, DiskInv, Server
  <2>2. PICK q : q = Resting(None, None)
    OBVIOUS
  <2>3. IsStore(q) /\ q.at = "idle" /\ q.told = None /\ q.attached = FALSE
    BY <2>2, RestingStore
  <2>4. IsStore(stores[s])'
    BY <1>2, <2>1, <2>2, <2>3 DEF IsStore, Fields, Writing, Fetching, Sweeping
  <2>5. RememberedBy(s)'
    BY <1>2, <2>1 DEF RememberedBy
  <2>6. AttachedBy(s)' /\ OwnBy(s)'
    BY <2>1, <2>2, <2>3 DEF AttachedBy, OwnBy
  <2>7. Honest(stores[s].told)'
    BY <2>1, <2>2, <2>3 DEF Honest
  <2> QED BY <2>4, <2>5, <2>6, <2>7 DEF ProcessInv
<1>6. ASSUME NEW p \in Server, p # s PROVE ProcessInv(p)'
  <2>1. meddled'[p] = meddled[p] \cup {} /\ artifacts'[p] = artifacts[p] /\ stores'[p] = stores[p]
    BY <1>1, <1>6 DEF StoreInv, DiskInv, Server
  <2> QED BY <1>1, <1>2, <2>1, OthersKeep
<1> QED BY <1>2, <1>3, <1>4, <1>5, <1>6 DEF StoreInv

-----------------------------------------------------------------------------
(* The steps that change a directory.                                      *)

LEMMA DirectoryChanges ==
  ASSUME DiskInv, NEW i \in Id, NEW d \in Directory(Kind) \cup {None}, dirs' = [dirs EXCEPT ![i] = d]
  PROVE  /\ dirs' \in [Id -> Directory(Kind) \cup {None}]
         /\ \A b \in Artifact :
              /\ OnDisk(b)' = IF b[1] = i THEN (IF d = None THEN None ELSE d.files[b[2]]) ELSE OnDisk(b)
              /\ Sidecar(b)' = IF b[1] = i THEN (IF d = None THEN None ELSE d.sidecars[b[2]]) ELSE Sidecar(b)
<1>1. dirs \in [Id -> Directory(Kind) \cup {None}] /\ \A b \in Artifact : b[1] \in Id
  BY DEF DiskInv, Id
<1>2. \A j \in Id : dirs'[j] = IF j = i THEN d ELSE dirs[j]
  BY <1>1
<1> QED BY <1>1, <1>2 DEF OnDisk, Sidecar

LEMMA DirectoryOf ==
  ASSUME DiskInv, NEW a \in Artifact, dirs[a[1]] # None, NEW D, D = dirs[a[1]]
  PROVE  /\ a[1] \in Id /\ a[2] \in Kind /\ D \in Directory(Kind)
         /\ OnDisk(a) = D.files[a[2]] /\ Sidecar(a) = D.sidecars[a[2]]
BY DEF DiskInv, Id, Kind, OnDisk, Sidecar

LEMMA PairsDiffer ==
  ASSUME DiskInv, NEW a \in Artifact, NEW b \in Artifact \ {a}, b[1] = a[1]
  PROVE  b[2] # a[2]
BY DEF DiskInv

\* A file that is opened or written anew.
LEMMA FileChanges ==
  ASSUME DiskInv, NEW a \in Artifact, dirs[a[1]] # None, NEW m \in Nat, NEW c \in Content,
         NEW ds, ds = dirs \/ ds = [dirs EXCEPT ![a[1]].mtime = m],
         dirs' = [ds EXCEPT ![a[1]].files[a[2]] = c]
  PROVE  /\ dirs' \in [Id -> Directory(Kind) \cup {None}]
         /\ OnDisk(a)' = c
         /\ \A b \in Artifact \ {a} : OnDisk(b)' = OnDisk(b)
         /\ \A b \in Artifact : Sidecar(b)' = Sidecar(b)
<1>1. PICK D : D = dirs[a[1]]
  OBVIOUS
<1>2. /\ a[1] \in Id /\ a[2] \in Kind /\ D \in Directory(Kind)
  BY <1>1, DirectoryOf
<1>3. PICK fs : fs = [D.files EXCEPT ![a[2]] = c]
  OBVIOUS
<1>4. fs \in [Kind -> Content \cup {None}] /\ \A k \in Kind : fs[k] = IF k = a[2] THEN c ELSE D.files[k]
  BY <1>2, <1>3 DEF Directory
<1>5. PICK n \in Nat : ds = [dirs EXCEPT ![a[1]] = [mtime |-> n, files |-> D.files, sidecars |-> D.sidecars]]
  <2>1. D = [mtime |-> D.mtime, files |-> D.files, sidecars |-> D.sidecars] /\ D.mtime \in Nat
    BY <1>2 DEF Directory
  <2>2. dirs \in [Id -> Directory(Kind) \cup {None}]
    BY DEF DiskInv
  <2>3. CASE ds = dirs
    BY <1>1, <1>2, <2>1, <2>2, <2>3
  <2>4. CASE ds = [dirs EXCEPT ![a[1]].mtime = m]
    <3>1. [D EXCEPT !.mtime = m] = [mtime |-> m, files |-> D.files, sidecars |-> D.sidecars]
      BY <2>1
    <3> QED BY <1>1, <2>4, <3>1
  <2> QED BY <2>3, <2>4
<1>6. PICK d : d = [mtime |-> n, files |-> fs, sidecars |-> D.sidecars]
  OBVIOUS
<1>7. dirs' = [dirs EXCEPT ![a[1]] = d]
  <2>1. PICK E : E = [mtime |-> n, files |-> D.files, sidecars |-> D.sidecars]
    OBVIOUS
  <2>2. [E EXCEPT !.files[a[2]] = c] = d
    BY <1>3, <1>6, <2>1
  <2>3. dirs \in [Id -> Directory(Kind) \cup {None}]
    BY DEF DiskInv
  <2> QED BY <1>2, <1>5, <2>1, <2>2, <2>3
<1>8. d \in Directory(Kind) /\ d # None
  <2>1. d \in Directory(Kind)
    BY <1>2, <1>4, <1>5, <1>6 DEF Directory
  <2> QED BY <2>1 DEF DiskInv
<1>9. /\ dirs' \in [Id -> Directory(Kind) \cup {None}]
      /\ \A b \in Artifact :
              /\ OnDisk(b)' = IF b[1] = a[1] THEN d.files[b[2]] ELSE OnDisk(b)
              /\ Sidecar(b)' = IF b[1] = a[1] THEN d.sidecars[b[2]] ELSE Sidecar(b)
  BY <1>2, <1>7, <1>8, DirectoryChanges
<1>10. ASSUME NEW b \in Artifact, b[1] = a[1]
       PROVE  OnDisk(b) = D.files[b[2]] /\ Sidecar(b) = D.sidecars[b[2]] /\ b[2] \in Kind /\ (b # a => b[2] # a[2])
  BY <1>1, <1>10, DirectoryOf, PairsDiffer
<1> QED BY <1>4, <1>6, <1>9, <1>10

\* A sidecar that is opened or written anew.
LEMMA SidecarChanges ==
  ASSUME DiskInv, NEW a \in Artifact, dirs[a[1]] # None, NEW m \in Nat, NEW c \in {"torn", "typed"},
         NEW ds, ds = dirs \/ ds = [dirs EXCEPT ![a[1]].mtime = m],
         dirs' = [ds EXCEPT ![a[1]].sidecars[a[2]] = c]
  PROVE  /\ dirs' \in [Id -> Directory(Kind) \cup {None}]
         /\ Sidecar(a)' = c
         /\ \A b \in Artifact \ {a} : Sidecar(b)' = Sidecar(b)
         /\ \A b \in Artifact : OnDisk(b)' = OnDisk(b)
<1>1. PICK D : D = dirs[a[1]]
  OBVIOUS
<1>2. /\ a[1] \in Id /\ a[2] \in Kind /\ D \in Directory(Kind)
  BY <1>1, DirectoryOf
<1>3. PICK ts : ts = [D.sidecars EXCEPT ![a[2]] = c]
  OBVIOUS
<1>4. ts \in [Kind -> {"torn", "typed", None}] /\ \A k \in Kind : ts[k] = IF k = a[2] THEN c ELSE D.sidecars[k]
  BY <1>2, <1>3 DEF Directory
<1>5. PICK n \in Nat : ds = [dirs EXCEPT ![a[1]] = [mtime |-> n, files |-> D.files, sidecars |-> D.sidecars]]
  <2>1. D = [mtime |-> D.mtime, files |-> D.files, sidecars |-> D.sidecars] /\ D.mtime \in Nat
    BY <1>2 DEF Directory
  <2>2. dirs \in [Id -> Directory(Kind) \cup {None}]
    BY DEF DiskInv
  <2>3. CASE ds = dirs
    BY <1>1, <1>2, <2>1, <2>2, <2>3
  <2>4. CASE ds = [dirs EXCEPT ![a[1]].mtime = m]
    <3>1. [D EXCEPT !.mtime = m] = [mtime |-> m, files |-> D.files, sidecars |-> D.sidecars]
      BY <2>1
    <3> QED BY <1>1, <2>4, <3>1
  <2> QED BY <2>3, <2>4
<1>6. PICK d : d = [mtime |-> n, files |-> D.files, sidecars |-> ts]
  OBVIOUS
<1>7. dirs' = [dirs EXCEPT ![a[1]] = d]
  <2>1. PICK E : E = [mtime |-> n, files |-> D.files, sidecars |-> D.sidecars]
    OBVIOUS
  <2>2. [E EXCEPT !.sidecars[a[2]] = c] = d
    BY <1>3, <1>6, <2>1
  <2>3. dirs \in [Id -> Directory(Kind) \cup {None}]
    BY DEF DiskInv
  <2> QED BY <1>2, <1>5, <2>1, <2>2, <2>3
<1>8. d \in Directory(Kind) /\ d # None
  <2>1. d \in Directory(Kind)
    BY <1>2, <1>4, <1>5, <1>6 DEF Directory
  <2> QED BY <2>1 DEF DiskInv
<1>9. /\ dirs' \in [Id -> Directory(Kind) \cup {None}]
      /\ \A b \in Artifact :
              /\ OnDisk(b)' = IF b[1] = a[1] THEN d.files[b[2]] ELSE OnDisk(b)
              /\ Sidecar(b)' = IF b[1] = a[1] THEN d.sidecars[b[2]] ELSE Sidecar(b)
  BY <1>2, <1>7, <1>8, DirectoryChanges
<1>10. ASSUME NEW b \in Artifact, b[1] = a[1]
       PROVE  OnDisk(b) = D.files[b[2]] /\ Sidecar(b) = D.sidecars[b[2]] /\ b[2] \in Kind /\ (b # a => b[2] # a[2])
  BY <1>1, <1>10, DirectoryOf, PairsDiffer
<1> QED BY <1>4, <1>6, <1>9, <1>10


LEMMA TouchesKeep ==
  ASSUME StoreInv, NEW s \in Server, NEW W \in SUBSET Artifact, NEW anew, Touches(s, W, anew), shelf' = shelf,
         \A a \in Artifact \ W : OnDisk(a)' = OnDisk(a) /\ Sidecar(a)' = Sidecar(a)
  PROVE  IssuedInv'
<1>1. Artifact' = Artifact
  BY DEF Artifact
<1>2. \A a \in Artifact : issued'[a] = IF a \in W THEN None ELSE issued[a]
  BY DEF Touches
<1> SUFFICES ASSUME NEW a \in Artifact, issued'[a] # None
             PROVE  OnDisk(a)' = issued'[a] /\ Sidecar(a)' = "typed"
  BY <1>1 DEF IssuedInv
<1>3. a \notin W /\ issued'[a] = issued[a]
  BY <1>2
<1> QED BY <1>3, IssuedIsWhole

\* A step that tells the others of the artifacts it changes, and removes nothing.
LEMMA MovesKeep ==
  ASSUME StoreInv, NEW s \in Server, NEW q, stores' = [stores EXCEPT ![s] = q],
         NEW W \in SUBSET Artifact, shelf' = shelf,
         dirs' \in [Id -> Directory(Kind) \cup {None}],
         artifacts' \in [Server -> [Artifact -> Content \cup {None}]],
         \A p \in Server \ {s} : artifacts'[p] = artifacts[p],
         limits' \in [puts : Nat, crashes : Nat, until : Nat], clock' \in Nat,
         issued' \in [Artifact -> Content \cup {None}],
         meddled' \in [Server -> SUBSET Artifact],
         \A p \in Server \ {s} : meddled'[p] = meddled[p] \cup W,
         \A a \in Artifact \ W : OnDisk(a)' = OnDisk(a),
         \A a \in Artifact : /\ OnDisk(a) # None => OnDisk(a)' # None
                             /\ Sidecar(a) # None => Sidecar(a)' # None,
         IssuedInv', IsStore(q), RememberedBy(s)', AttachedBy(s)', OwnBy(s)', Honest(q.told)
  PROVE  StoreInv'
<1>1. Artifact' = Artifact /\ Id' = Id /\ Kind' = Kind /\ Server' = Server
      /\ stores'[s] = q /\ \A p \in Server \ {s} : stores'[p] = stores[p]
  BY DEF Artifact, Id, Kind, Server
<1>2. DiskInv'
  BY <1>1 DEF StoreInv, DiskInv
<1>3. ProcessInv(s)'
  <2>1. IsStore(stores[s])'
    BY <1>1 DEF IsStore, Fields, Writing, Fetching, Sweeping
  <2> QED BY <1>1, <2>1 DEF ProcessInv, Honest
<1>4. ASSUME NEW p \in Server, p # s PROVE ProcessInv(p)'
  <2>1. PICK b : b = stores[p].artifact
    OBVIOUS
  <2>2. CASE stores[p].attached
    <3>1. b \in Artifact
      BY <2>1, <2>2 DEF StoreInv, ProcessInv, IsStore, Writing
    <3> QED BY <1>1, <1>4, <2>1, <3>1, OthersKeep
  <2>3. CASE ~ stores[p].attached
    BY <1>1, <1>4, <2>1, <2>3, OthersKeep
  <2> QED BY <2>2, <2>3
<1> QED BY <1>1, <1>2, <1>3, <1>4 DEF StoreInv

-----------------------------------------------------------------------------
(* put.                                                                    *)

LEMMA PutKeeps ==
  ASSUME StoreInv, NEW s \in Server, NEW a \in Artifact, NEW size \in shelf.sizes, Put(s, a, size)
  PROVE  StoreInv'
<1>1. DiskInv /\ stores[s].at = "idle" /\ limits.puts > 0 /\ RememberedBy(s)
  BY DEF StoreInv, Put, ProcessInv
<1>2. PICK c : c = [text |-> limits.puts, size |-> size]
  OBVIOUS
<1>3. c \in Content
  <2>1. limits.puts \in Nat /\ size \in Nat
    BY <1>1 DEF DiskInv
  <2> QED BY <1>2, <2>1 DEF Content
<1>4. PICK q : q = [Resting(stores[s].last, None) EXCEPT !.at = "file", !.artifact = a, !.content = c]
  OBVIOUS
<1>5. q = Fields(q) /\ q.at = "file" /\ q.artifact = a /\ q.content = c /\ q.attached = FALSE /\ q.told = None
  BY <1>4 DEF Resting, Fields
<1>6. IsStore(q)
  BY <1>3, <1>5 DEF IsStore, Writing, Fetching, Sweeping
<1>7. stores' = [stores EXCEPT ![s] = q] /\ stores'[s] = q
  <2>1. stores' = [stores EXCEPT ![s] = q]
    BY <1>2, <1>4 DEF Put, Goes
  <2> QED BY <2>1 DEF Server
<1>8. UNCHANGED <<shelf, artifacts, clock, issued, meddled>>
  BY DEF Put
<1>9. PICK fresh : fresh = [mtime |-> clock, files |-> Nothing, sidecars |-> Nothing]
  OBVIOUS
<1>10. fresh \in Directory(Kind)
  BY <1>1, <1>9 DEF Directory, Nothing, DiskInv
<1>11. fresh # None
  BY <1>1, <1>10 DEF DiskInv
<1>12. PICK d : d = IF dirs[a[1]] = None THEN fresh ELSE dirs[a[1]]
  OBVIOUS
<1>13. a[1] \in Id /\ d \in Directory(Kind) \cup {None} /\ dirs' = [dirs EXCEPT ![a[1]] = d]
  <2>1. a[1] \in Id /\ d \in Directory(Kind) \cup {None}
    BY <1>1, <1>10, <1>12 DEF Id, DiskInv
  <2> QED BY <1>1, <2>1, <1>9, <1>12 DEF Put, DiskInv
<1>14. /\ dirs' \in [Id -> Directory(Kind) \cup {None}]
       /\ \A b \in Artifact :
            /\ OnDisk(b)' = IF b[1] = a[1] THEN (IF d = None THEN None ELSE d.files[b[2]]) ELSE OnDisk(b)
            /\ Sidecar(b)' = IF b[1] = a[1] THEN (IF d = None THEN None ELSE d.sidecars[b[2]]) ELSE Sidecar(b)
  BY <1>1, <1>13, DirectoryChanges
<1>15. \A b \in Artifact : OnDisk(b)' = OnDisk(b) /\ Sidecar(b)' = Sidecar(b)
  <2> SUFFICES ASSUME NEW b \in Artifact, b[1] = a[1]
               PROVE  OnDisk(b)' = OnDisk(b) /\ Sidecar(b)' = Sidecar(b)
    BY <1>14
  <2>1. CASE dirs[a[1]] = None
    <3>1. b[2] \in Kind
      BY DEF Kind
    <3>2. fresh.files[b[2]] = None /\ fresh.sidecars[b[2]] = None
      BY <1>9, <3>1 DEF Nothing
    <3> QED BY <1>11, <1>12, <1>14, <2>1, <3>2 DEF OnDisk, Sidecar
  <2>2. CASE dirs[a[1]] # None
    <3>1. OnDisk(b) = d.files[b[2]] /\ Sidecar(b) = d.sidecars[b[2]] /\ d # None
      BY <1>12, <2>2 DEF OnDisk, Sidecar
    <3> QED BY <1>14, <3>1
  <2> QED BY <2>1, <2>2
<1>16. IssuedInv'
  <2>1. Artifact' = Artifact
    BY <1>8 DEF Artifact
  <2> QED BY <1>8, <1>15, <2>1 DEF StoreInv, IssuedInv
<1>17. RememberedBy(s)'
  <2>1. Artifact' = Artifact
    BY <1>8 DEF Artifact
  <2> QED BY <1>1, <1>8, <1>15, <2>1 DEF RememberedBy, Current, Clearing
<1>18. AttachedBy(s)' /\ OwnBy(s)' /\ Honest(q.told)
  BY <1>5, <1>7 DEF AttachedBy, OwnBy, Honest
<1>19. limits' \in [puts : Nat, crashes : Nat, until : Nat] /\ clock' \in Nat
  BY <1>1, <1>8 DEF Put, DiskInv
<1>20. /\ artifacts' \in [Server -> [Artifact -> Content \cup {None}]]
       /\ \A p \in Server \ {s} : artifacts'[p] = artifacts[p]
       /\ issued' \in [Artifact -> Content \cup {None}]
       /\ meddled' \in [Server -> SUBSET Artifact]
       /\ \A p \in Server \ {s} : meddled'[p] = meddled[p] \cup {}
       /\ shelf' = shelf
  BY <1>1, <1>8 DEF DiskInv
<1>21. \A b \in Artifact : /\ OnDisk(b) # None => OnDisk(b)' # None
                           /\ Sidecar(b) # None => Sidecar(b)' # None
  BY <1>15
<1>22. PICK W \in SUBSET Artifact : W = {}
  OBVIOUS
<1>23. /\ \A p \in Server \ {s} : meddled'[p] = meddled[p] \cup W
       /\ \A b \in Artifact \ W : OnDisk(b)' = OnDisk(b)
  BY <1>15, <1>20, <1>22
<1>24. stores' = [stores EXCEPT ![s] = q] /\ dirs' \in [Id -> Directory(Kind) \cup {None}]
  BY <1>7, <1>14
<1> QED BY <1>6, <1>16, <1>17, <1>18, <1>19, <1>20, <1>21, <1>23, <1>24, MovesKeep

LEMMA OpenFileKeeps ==
  ASSUME StoreInv, NEW s \in Server, OpenFile(s)
  PROVE  StoreInv'
<1>1. PICK r, a : r = stores[s] /\ a = r.artifact
  OBVIOUS
<1>2. /\ IsStore(r) /\ RememberedBy(s) /\ Honest(r.told) /\ r.at = "file" /\ a \in Artifact
      /\ UNCHANGED <<shelf, retention, limits, clock, artifacts>>
      /\ DiskInv
  BY <1>1 DEF StoreInv, ProcessInv, OpenFile, OnlyStoresMove, IsStore, Writing
<1>3. Artifact' = Artifact
  BY <1>2 DEF Artifact
<1>4. CASE dirs[a[1]] = None
  <2>1. UNCHANGED <<dirs, issued, meddled>> /\ stores' = [stores EXCEPT ![s] = Resting(r.last, None)]
    BY <1>1, <1>4 DEF OpenFile, Goes, Throws
  <2>2. PICK q : q = Resting(r.last, None)
    OBVIOUS
  <2>3. IsStore(q) /\ q.at = "idle" /\ q.told = None /\ q.attached = FALSE
    BY <2>2, RestingStore
  <2>4. Honest(q.told) /\ ~ q.attached
    BY <2>3 DEF Honest
  <2>5. /\ limits' \in [puts : Nat, crashes : Nat, until : Nat] /\ clock' \in Nat
        /\ meddled' \in [Server -> SUBSET Artifact]
        /\ \A p \in Server \ {s} : meddled'[p] = meddled[p]
        /\ \A b \in meddled[s] \ meddled'[s] : artifacts[s][b] = None
    BY <1>2, <2>1 DEF DiskInv
  <2>6. stores' = [stores EXCEPT ![s] = q] /\ stores[s].at = "file" /\ UNCHANGED <<shelf, dirs, artifacts, issued>>
    BY <1>1, <1>2, <2>1, <2>2
  <2> QED BY <2>3, <2>4, <2>5, <2>6, QuietSteps
<1>5. CASE dirs[a[1]] # None
  <2>1. PICK q : q = [r EXCEPT !.at = "bytes", !.attached = TRUE]
    OBVIOUS
  <2>2. /\ q = Fields(q) /\ q.at = "bytes" /\ q.attached = TRUE /\ q.told = r.told
        /\ q.artifact = a /\ q.content = r.content
    BY <1>1, <1>2, <2>1 DEF IsStore, Fields
  <2>3. /\ stores' = [stores EXCEPT ![s] = q] /\ Touches(s, {a}, {a})
        /\ dirs' = [dirs EXCEPT ![a[1]].mtime = IF OnDisk(a) = None THEN clock ELSE @,
                                ![a[1]].files[a[2]] = Torn]
    BY <1>1, <1>5, <2>1 DEF OpenFile, Goes
  <2>4. PICK m : m = IF OnDisk(a) = None THEN clock ELSE dirs[a[1]].mtime
    OBVIOUS
  <2>5. m \in Nat
    <3>1. dirs[a[1]] \in Directory(Kind)
      BY <1>2, <1>5, DirectoryOf
    <3> QED BY <1>2, <2>4, <3>1 DEF Directory, DiskInv
  <2>6. PICK ds : ds = [dirs EXCEPT ![a[1]].mtime = m]
    OBVIOUS
  <2>7. dirs' = [ds EXCEPT ![a[1]].files[a[2]] = Torn]
    BY <2>3, <2>4, <2>6
  <2>8. Torn \in Content /\ Torn # None
    <3>1. Torn \in Content
      BY DEF Torn, Content
    <3> QED BY <3>1, StoreAssumption
  <2>9. /\ dirs' \in [Id -> Directory(Kind) \cup {None}]
        /\ OnDisk(a)' = Torn
        /\ \A b \in Artifact \ {a} : OnDisk(b)' = OnDisk(b)
        /\ \A b \in Artifact : Sidecar(b)' = Sidecar(b)
    BY <1>2, <1>5, <2>5, <2>6, <2>7, <2>8, FileChanges
  <2>10. /\ issued' \in [Artifact -> Content \cup {None}]
         /\ meddled' \in [Server -> SUBSET Artifact]
         /\ meddled'[s] = meddled[s] \ {a}
         /\ \A p \in Server \ {s} : meddled'[p] = meddled[p] \cup {a}
    BY <1>2, <2>3 DEF Touches, DiskInv
  <2>11. IssuedInv'
    BY <1>2, <2>3, <2>9, TouchesKeep, {a} \in SUBSET Artifact
  <2>12. stores'[s] = q
    BY <2>3 DEF Server
  <2>13. IsStore(q)
    BY <1>2, <2>2 DEF IsStore, Writing, Fetching, Sweeping
  <2>14. RememberedBy(s)'
    <3> SUFFICES ASSUME NEW b \in Artifact, b # a, artifacts[s][b] # None, b \notin meddled[s]
                 PROVE  OnDisk(b)' = artifacts[s][b]
      BY <1>2, <1>3, <2>2, <2>10, <2>12 DEF RememberedBy, Current
    <3> QED BY <1>1, <1>2, <2>9 DEF RememberedBy, Current, Clearing
  <2>15. OwnBy(s)' /\ Honest(q.told)
    BY <1>2, <2>2, <2>12 DEF OwnBy
  <2>16. AttachedBy(s)'
    <3>1. OnDisk(a)' # None
      BY <2>8, <2>9
    <3>2. dirs'[a[1]] # None
      BY <3>1 DEF OnDisk
    <3> QED BY <2>2, <2>12, <3>1, <3>2 DEF AttachedBy, OnDisk
  <2>17. /\ shelf' = shelf /\ artifacts' \in [Server -> [Artifact -> Content \cup {None}]]
         /\ \A p \in Server \ {s} : artifacts'[p] = artifacts[p]
         /\ limits' \in [puts : Nat, crashes : Nat, until : Nat] /\ clock' \in Nat
    BY <1>2 DEF DiskInv
  <2>18. \A b \in Artifact : /\ OnDisk(b) # None => OnDisk(b)' # None
                             /\ Sidecar(b) # None => Sidecar(b)' # None
    BY <2>8, <2>9
  <2>19. stores' = [stores EXCEPT ![s] = q] /\ {a} \in SUBSET Artifact
    BY <1>2, <2>3
  <2> QED BY <2>9, <2>10, <2>11, <2>13, <2>14, <2>15, <2>16, <2>17, <2>18, <2>19, MovesKeep
<1> QED BY <1>4, <1>5

LEMMA WriteFileKeeps ==
  ASSUME StoreInv, NEW s \in Server, WriteFile(s)
  PROVE  StoreInv'
<1>1. PICK r, a : r = stores[s] /\ a = r.artifact
  OBVIOUS
<1>2. /\ IsStore(r) /\ RememberedBy(s) /\ AttachedBy(s) /\ OwnBy(s) /\ Honest(r.told)
      /\ r.at = "bytes" /\ a \in Artifact /\ r.content \in Content
      /\ UNCHANGED <<shelf, retention, limits, clock, artifacts>>
      /\ DiskInv
  BY <1>1 DEF StoreInv, ProcessInv, WriteFile, OnlyStoresMove, IsStore, Writing
<1>3. Artifact' = Artifact
  BY <1>2 DEF Artifact
<1>4. PICK q : q = [r EXCEPT !.at = "sidecar", !.attached = FALSE]
  OBVIOUS
<1>5. /\ q = Fields(q) /\ q.at = "sidecar" /\ q.attached = FALSE /\ q.told = r.told
      /\ q.artifact = a /\ q.content = r.content
  BY <1>1, <1>2, <1>4 DEF IsStore, Fields
<1>6. stores' = [stores EXCEPT ![s] = q] /\ stores'[s] = q
  <2>1. stores' = [stores EXCEPT ![s] = q]
    BY <1>1, <1>4 DEF WriteFile, Goes
  <2> QED BY <2>1 DEF Server
<1>7. IsStore(q)
  BY <1>2, <1>5 DEF IsStore, Writing, Fetching, Sweeping
<1>8. AttachedBy(s)' /\ Honest(q.told)
  BY <1>2, <1>5, <1>6 DEF AttachedBy
<1>9. /\ shelf' = shelf /\ artifacts' \in [Server -> [Artifact -> Content \cup {None}]]
      /\ \A p \in Server \ {s} : artifacts'[p] = artifacts[p]
      /\ limits' \in [puts : Nat, crashes : Nat, until : Nat] /\ clock' \in Nat
  BY <1>2 DEF DiskInv
<1>10. stores' = [stores EXCEPT ![s] = q]
  BY <1>6
<1>11. CASE r.attached
  <2>1. Touches(s, {a}, {}) /\ dirs' = [dirs EXCEPT ![a[1]].files[a[2]] = r.content]
    BY <1>1, <1>11 DEF WriteFile
  <2>2. dirs[a[1]] # None
    BY <1>1, <1>2, <1>11 DEF AttachedBy
  <2>3. PICK m \in Nat : m = 0
    OBVIOUS
  <2>4. PICK ds : ds = dirs
    OBVIOUS
  <2>5. dirs' = [ds EXCEPT ![a[1]].files[a[2]] = r.content]
    BY <2>1, <2>4
  <2>6. /\ dirs' \in [Id -> Directory(Kind) \cup {None}]
        /\ OnDisk(a)' = r.content
        /\ \A b \in Artifact \ {a} : OnDisk(b)' = OnDisk(b)
        /\ \A b \in Artifact : Sidecar(b)' = Sidecar(b)
    BY <1>2, <2>2, <2>4, <2>5, FileChanges
  <2>7. /\ issued' \in [Artifact -> Content \cup {None}]
        /\ meddled' \in [Server -> SUBSET Artifact]
        /\ meddled'[s] = meddled[s]
        /\ \A p \in Server \ {s} : meddled'[p] = meddled[p] \cup {a}
    BY <1>2, <2>1 DEF Touches, DiskInv
  <2>8. IssuedInv'
    BY <1>2, <2>1, <2>6, TouchesKeep, {a} \in SUBSET Artifact
  <2>9. RememberedBy(s)'
    <3> SUFFICES ASSUME NEW b \in Artifact, b # a, artifacts[s][b] # None, b \notin meddled[s]
                 PROVE  OnDisk(b)' = artifacts[s][b]
      BY <1>2, <1>3, <1>5, <1>6, <2>7 DEF RememberedBy, Current
    <3> QED BY <1>1, <1>2, <2>6 DEF RememberedBy, Current, Clearing
  <2>10. OwnBy(s)'
    <3>1. dirs'[a[1]] # None
      BY <1>2, <2>6, StoreAssumption DEF OnDisk
    <3> QED BY <1>5, <1>6, <2>6, <3>1 DEF OwnBy, OnDisk
  <2>11. r.content # None
    BY <1>2, StoreAssumption
  <2>12. \A b \in Artifact : /\ OnDisk(b) # None => OnDisk(b)' # None
                             /\ Sidecar(b) # None => Sidecar(b)' # None
    BY <2>6, <2>11
  <2>13. {a} \in SUBSET Artifact
    BY <1>2
  <2> QED BY <1>7, <1>8, <1>9, <1>10, <2>6, <2>7, <2>8, <2>9, <2>10, <2>12, <2>13, MovesKeep
<1>12. CASE ~ r.attached
  <2>1. UNCHANGED <<dirs, issued, meddled>>
    BY <1>1, <1>12 DEF WriteFile
  <2>2. \A b \in Artifact : OnDisk(b)' = OnDisk(b) /\ Sidecar(b)' = Sidecar(b)
    BY <2>1 DEF OnDisk, Sidecar
  <2>3. a \in meddled[s]
    BY <1>1, <1>2, <1>12 DEF OwnBy
  <2>4. IssuedInv'
    BY <1>3, <2>1, <2>2 DEF StoreInv, IssuedInv
  <2>5. RememberedBy(s)'
    <3> SUFFICES ASSUME NEW b \in Artifact, b # a, artifacts[s][b] # None, b \notin meddled[s]
                 PROVE  OnDisk(b)' = artifacts[s][b]
      BY <1>2, <1>3, <1>5, <1>6, <2>1 DEF RememberedBy, Current
    <3> QED BY <1>1, <1>2, <2>2 DEF RememberedBy, Current, Clearing
  <2>6. OwnBy(s)'
    BY <1>5, <1>6, <2>1, <2>3 DEF OwnBy
  <2>7. PICK W \in SUBSET Artifact : W = {}
    OBVIOUS
  <2>8. /\ \A p \in Server \ {s} : meddled'[p] = meddled[p] \cup W
        /\ \A b \in Artifact \ W : OnDisk(b)' = OnDisk(b)
        /\ \A b \in Artifact : /\ OnDisk(b) # None => OnDisk(b)' # None
                               /\ Sidecar(b) # None => Sidecar(b)' # None
    BY <2>1, <2>2, <2>7
  <2>9. /\ dirs' \in [Id -> Directory(Kind) \cup {None}]
        /\ issued' \in [Artifact -> Content \cup {None}]
        /\ meddled' \in [Server -> SUBSET Artifact]
    BY <1>2, <2>1 DEF DiskInv
  <2> QED BY <1>7, <1>8, <1>9, <1>10, <2>4, <2>5, <2>6, <2>8, <2>9, MovesKeep
<1> QED BY <1>11, <1>12

LEMMA OpenSidecarKeeps ==
  ASSUME StoreInv, NEW s \in Server, OpenSidecar(s)
  PROVE  StoreInv'
<1>1. PICK r, a : r = stores[s] /\ a = r.artifact
  OBVIOUS
<1>2. /\ IsStore(r) /\ RememberedBy(s) /\ OwnBy(s) /\ Honest(r.told)
      /\ r.at = "sidecar" /\ a \in Artifact /\ r.content \in Content
      /\ UNCHANGED <<shelf, retention, limits, clock, artifacts>>
      /\ DiskInv
  BY <1>1 DEF StoreInv, ProcessInv, OpenSidecar, OnlyStoresMove, IsStore, Writing
<1>3. Artifact' = Artifact
  BY <1>2 DEF Artifact
<1>4. /\ shelf' = shelf /\ artifacts' \in [Server -> [Artifact -> Content \cup {None}]]
      /\ \A p \in Server \ {s} : artifacts'[p] = artifacts[p]
      /\ limits' \in [puts : Nat, crashes : Nat, until : Nat] /\ clock' \in Nat
  BY <1>2 DEF DiskInv
<1>5. r.content # None /\ (a \notin meddled[s] => OnDisk(a) = r.content)
  BY <1>1, <1>2, StoreAssumption DEF OwnBy
<1>6. CASE dirs[a[1]] = None
  <2>1. UNCHANGED <<dirs, issued, meddled>> /\ stores' = [stores EXCEPT ![s] = Resting(r.last, None)]
    BY <1>1, <1>6 DEF OpenSidecar, Goes, Throws
  <2>2. PICK q : q = Resting(r.last, None)
    OBVIOUS
  <2>3. IsStore(q) /\ q.at = "idle" /\ q.told = None /\ q.attached = FALSE
    BY <2>2, RestingStore
  <2>4. stores' = [stores EXCEPT ![s] = q] /\ stores'[s] = q
    BY <2>1, <2>2 DEF Server
  <2>5. \A b \in Artifact : OnDisk(b)' = OnDisk(b) /\ Sidecar(b)' = Sidecar(b)
    BY <2>1 DEF OnDisk, Sidecar
  <2>6. a \in meddled[s]
    BY <1>5, <1>6 DEF OnDisk
  <2>7. IssuedInv'
    BY <1>3, <2>1, <2>5 DEF StoreInv, IssuedInv
  <2>8. RememberedBy(s)'
    <3> SUFFICES ASSUME NEW b \in Artifact, b # a, artifacts[s][b] # None, b \notin meddled[s]
                 PROVE  OnDisk(b)' = artifacts[s][b]
      BY <1>2, <1>3, <2>1, <2>6 DEF RememberedBy
    <3> QED BY <1>1, <1>2, <2>5 DEF RememberedBy, Current, Clearing
  <2>9. AttachedBy(s)' /\ OwnBy(s)' /\ Honest(q.told)
    BY <2>3, <2>4 DEF AttachedBy, OwnBy, Honest
  <2>10. PICK W \in SUBSET Artifact : W = {}
    OBVIOUS
  <2>11. /\ \A p \in Server \ {s} : meddled'[p] = meddled[p] \cup W
         /\ \A b \in Artifact \ W : OnDisk(b)' = OnDisk(b)
         /\ \A b \in Artifact : /\ OnDisk(b) # None => OnDisk(b)' # None
                                /\ Sidecar(b) # None => Sidecar(b)' # None
    BY <2>1, <2>5, <2>10
  <2>12. /\ dirs' \in [Id -> Directory(Kind) \cup {None}]
         /\ issued' \in [Artifact -> Content \cup {None}]
         /\ meddled' \in [Server -> SUBSET Artifact]
    BY <1>2, <2>1 DEF DiskInv
  <2>13. stores' = [stores EXCEPT ![s] = q] /\ IsStore(q)
    BY <2>3, <2>4
  <2> QED BY <1>4, <2>7, <2>8, <2>9, <2>11, <2>12, <2>13, MovesKeep
<1>7. CASE dirs[a[1]] # None
  <2>1. PICK q : q = [r EXCEPT !.at = "type", !.attached = TRUE]
    OBVIOUS
  <2>2. /\ q = Fields(q) /\ q.at = "type" /\ q.attached = TRUE /\ q.told = r.told
        /\ q.artifact = a /\ q.content = r.content
    BY <1>1, <1>2, <2>1 DEF IsStore, Fields
  <2>3. /\ stores' = [stores EXCEPT ![s] = q] /\ Touches(s, {a}, {})
        /\ dirs' = [dirs EXCEPT ![a[1]].mtime = IF Sidecar(a) = None THEN clock ELSE @,
                                ![a[1]].sidecars[a[2]] = "torn"]
    BY <1>1, <1>7, <2>1 DEF OpenSidecar, Goes
  <2>4. PICK m : m = IF Sidecar(a) = None THEN clock ELSE dirs[a[1]].mtime
    OBVIOUS
  <2>5. m \in Nat
    <3>1. dirs[a[1]] \in Directory(Kind)
      BY <1>2, <1>7, DirectoryOf
    <3> QED BY <1>2, <2>4, <3>1 DEF Directory, DiskInv
  <2>6. PICK ds : ds = [dirs EXCEPT ![a[1]].mtime = m]
    OBVIOUS
  <2>7. dirs' = [ds EXCEPT ![a[1]].sidecars[a[2]] = "torn"]
    BY <2>3, <2>4, <2>6
  <2>8. /\ dirs' \in [Id -> Directory(Kind) \cup {None}]
        /\ Sidecar(a)' = "torn"
        /\ \A b \in Artifact \ {a} : Sidecar(b)' = Sidecar(b)
        /\ \A b \in Artifact : OnDisk(b)' = OnDisk(b)
    BY <1>2, <1>7, <2>5, <2>6, <2>7, SidecarChanges
  <2>9. /\ issued' \in [Artifact -> Content \cup {None}]
        /\ meddled' \in [Server -> SUBSET Artifact]
        /\ meddled'[s] = meddled[s]
        /\ \A p \in Server \ {s} : meddled'[p] = meddled[p] \cup {a}
    BY <1>2, <2>3 DEF Touches, DiskInv
  <2>10. IssuedInv'
    BY <1>2, <2>3, <2>8, TouchesKeep, {a} \in SUBSET Artifact
  <2>11. stores'[s] = q /\ stores' = [stores EXCEPT ![s] = q] /\ {a} \in SUBSET Artifact
    BY <1>2, <2>3 DEF Server
  <2>12. IsStore(q)
    BY <1>2, <2>2 DEF IsStore, Writing, Fetching, Sweeping
  <2>13. RememberedBy(s)'
    <3> SUFFICES ASSUME NEW b \in Artifact, b # a, artifacts[s][b] # None, b \notin meddled[s]
                 PROVE  OnDisk(b)' = artifacts[s][b]
      BY <1>2, <1>3, <2>2, <2>9, <2>11 DEF RememberedBy, Current
    <3> QED BY <1>1, <1>2, <2>8 DEF RememberedBy, Current, Clearing
  <2>14. OwnBy(s)' /\ Honest(q.told)
    <3>1. a \notin meddled'[s] => OnDisk(a)' = r.content
      BY <1>2, <1>5, <2>8, <2>9
    <3> QED BY <1>2, <2>2, <2>11, <3>1 DEF OwnBy, OnDisk
  <2>15. Sidecar(a)' # None
    BY <2>8, StoreAssumption
  <2>16. AttachedBy(s)'
    <3>1. dirs'[a[1]] # None
      BY <2>15 DEF Sidecar
    <3> QED BY <2>2, <2>11, <2>15, <3>1 DEF AttachedBy, Sidecar
  <2>17. \A b \in Artifact : /\ OnDisk(b) # None => OnDisk(b)' # None
                             /\ Sidecar(b) # None => Sidecar(b)' # None
    BY <2>8, <2>15
  <2>18. stores' = [stores EXCEPT ![s] = q] /\ dirs' \in [Id -> Directory(Kind) \cup {None}]
    BY <2>8, <2>11
  <2>19. PICK W \in SUBSET Artifact : W = {a}
    BY <1>2
  <2>20. /\ \A p \in Server \ {s} : meddled'[p] = meddled[p] \cup W
         /\ \A b \in Artifact \ W : OnDisk(b)' = OnDisk(b)
    BY <2>8, <2>9, <2>19
  <2>21. issued' \in [Artifact -> Content \cup {None}] /\ meddled' \in [Server -> SUBSET Artifact]
    BY <2>9
  <2> QED BY <1>4, <2>10, <2>12, <2>13, <2>14, <2>16, <2>17, <2>18, <2>20, <2>21, MovesKeep
<1> QED BY <1>6, <1>7

LEMMA WriteSidecarKeeps ==
  ASSUME StoreInv, NEW s \in Server, WriteSidecar(s)
  PROVE  StoreInv'
<1>1. PICK r, a : r = stores[s] /\ a = r.artifact
  OBVIOUS
<1>2. /\ IsStore(r) /\ RememberedBy(s) /\ AttachedBy(s) /\ OwnBy(s) /\ Honest(r.told)
      /\ r.at = "type" /\ a \in Artifact /\ r.content \in Content
      /\ UNCHANGED <<shelf, retention, limits, clock>>
      /\ DiskInv
  BY <1>1 DEF StoreInv, ProcessInv, WriteSidecar, OnlyStoresMove, IsStore, Writing
<1>3. Artifact' = Artifact
  BY <1>2 DEF Artifact
<1>4. /\ shelf' = shelf /\ limits' \in [puts : Nat, crashes : Nat, until : Nat] /\ clock' \in Nat
  BY <1>2 DEF DiskInv
<1>5. /\ dirs' = IF r.attached THEN [dirs EXCEPT ![a[1]].sidecars[a[2]] = "typed"] ELSE dirs
      /\ artifacts' = [artifacts EXCEPT ![s][a] = r.content]
      /\ issued' = IF r.attached /\ OnDisk(a) = r.content THEN [issued EXCEPT ![a] = r.content] ELSE issued
      /\ meddled' = [p \in Server |-> IF p # s /\ r.attached THEN meddled[p] \cup {a} ELSE meddled[p]]
  BY <1>1 DEF WriteSidecar
<1>6. PICK W \in SUBSET Artifact : W = IF r.attached THEN {a} ELSE {}
  BY <1>2
<1>7. PICK q : /\ stores' = [stores EXCEPT ![s] = q] /\ stores'[s] = q
               /\ IsStore(q) /\ q.at \in {"idle", "list"} /\ q.attached = FALSE /\ q.told = None
  <2>1. CASE Due(s)
    <3>1. PICK q : q = [Resting(clock, None) EXCEPT !.at = "list"]
      OBVIOUS
    <3>2. q = Fields(q) /\ q.at = "list" /\ q.attached = FALSE /\ q.told = None
      BY <3>1 DEF Resting, Fields
    <3>3. IsStore(q)
      BY <3>2 DEF IsStore, Writing, Fetching, Sweeping
    <3>4. stores' = [stores EXCEPT ![s] = q]
      BY <2>1, <3>1 DEF WriteSidecar, Goes
    <3> QED BY <3>2, <3>3, <3>4 DEF Server
  <2>2. CASE ~ Due(s)
    <3>1. PICK q : q = Resting(r.last, None)
      OBVIOUS
    <3>2. IsStore(q) /\ q.at = "idle" /\ q.attached = FALSE /\ q.told = None
      BY <3>1, RestingStore
    <3>3. stores' = [stores EXCEPT ![s] = q]
      BY <1>1, <2>2, <3>1 DEF WriteSidecar, Goes
    <3> QED BY <3>2, <3>3 DEF Server
  <2> QED BY <2>1, <2>2
<1>8. /\ dirs' \in [Id -> Directory(Kind) \cup {None}]
      /\ \A b \in Artifact : OnDisk(b)' = OnDisk(b)
      /\ \A b \in Artifact \ W : Sidecar(b)' = Sidecar(b)
      /\ r.attached => Sidecar(a)' = "typed"
  <2>1. CASE r.attached
    <3>1. dirs[a[1]] # None
      BY <1>1, <1>2, <2>1 DEF AttachedBy
    <3>2. PICK ds : ds = dirs
      OBVIOUS
    <3>3. dirs' = [ds EXCEPT ![a[1]].sidecars[a[2]] = "typed"]
      BY <1>5, <2>1, <3>2
    <3>4. PICK m \in Nat : m = 0
      OBVIOUS
    <3>5. /\ dirs' \in [Id -> Directory(Kind) \cup {None}]
          /\ Sidecar(a)' = "typed"
          /\ \A b \in Artifact \ {a} : Sidecar(b)' = Sidecar(b)
          /\ \A b \in Artifact : OnDisk(b)' = OnDisk(b)
      BY <1>2, <3>1, <3>2, <3>3, <3>4, SidecarChanges
    <3> QED BY <1>6, <2>1, <3>5
  <2>2. CASE ~ r.attached
    BY <1>2, <1>5, <2>2 DEF OnDisk, Sidecar, DiskInv
  <2> QED BY <2>1, <2>2
<1>9. /\ artifacts' \in [Server -> [Artifact -> Content \cup {None}]]
      /\ \A p \in Server \ {s} : artifacts'[p] = artifacts[p]
      /\ \A b \in Artifact : artifacts'[s][b] = IF b = a THEN r.content ELSE artifacts[s][b]
  BY <1>2, <1>5 DEF DiskInv
<1>10. issued' \in [Artifact -> Content \cup {None}]
  BY <1>2, <1>5 DEF DiskInv
<1>11. /\ meddled' \in [Server -> SUBSET Artifact] /\ meddled'[s] = meddled[s]
       /\ \A p \in Server \ {s} : meddled'[p] = meddled[p] \cup W
  <2>1. CASE r.attached
    BY <1>2, <1>5, <1>6, <2>1 DEF DiskInv
  <2>2. CASE ~ r.attached
    BY <1>2, <1>5, <1>6, <2>2 DEF DiskInv
  <2> QED BY <2>1, <2>2
<1>12. IssuedInv'
  <2> SUFFICES ASSUME NEW b \in Artifact, issued'[b] # None
               PROVE  OnDisk(b)' = issued'[b] /\ Sidecar(b)' = "typed"
    BY <1>3 DEF IssuedInv
  <2>1. CASE b = a /\ r.attached /\ OnDisk(a) = r.content
    BY <1>2, <1>5, <1>8, <2>1 DEF DiskInv
  <2>2. CASE ~ (b = a /\ r.attached /\ OnDisk(a) = r.content)
    <3>1. issued'[b] = issued[b]
      BY <1>2, <1>5, <2>2 DEF DiskInv
    <3>2. OnDisk(b) = issued[b] /\ Sidecar(b) = "typed"
      BY <3>1, IssuedIsWhole
    <3>3. Sidecar(b)' = "typed"
      BY <1>6, <1>8, <3>2
    <3> QED BY <1>8, <3>1, <3>2, <3>3
  <2> QED BY <2>1, <2>2
<1>13. RememberedBy(s)'
  <2> SUFFICES ASSUME NEW b \in Artifact, artifacts'[s][b] # None, b \notin meddled[s]
               PROVE  OnDisk(b)' = artifacts'[s][b]
    BY <1>3, <1>11 DEF RememberedBy
  <2>1. CASE b = a
    BY <1>1, <1>2, <1>8, <1>9, <2>1 DEF OwnBy
  <2>2. CASE b # a
    BY <1>1, <1>2, <1>8, <1>9, <2>2 DEF RememberedBy, Current, Clearing
  <2> QED BY <2>1, <2>2
<1>14. AttachedBy(s)' /\ OwnBy(s)' /\ Honest(q.told)
  BY <1>7 DEF AttachedBy, OwnBy, Honest
<1>15. \A b \in Artifact : /\ OnDisk(b) # None => OnDisk(b)' # None
                           /\ Sidecar(b) # None => Sidecar(b)' # None
  <2>1. "typed" # None
    BY StoreAssumption
  <2> QED BY <1>6, <1>8, <2>1
<1>16. stores' = [stores EXCEPT ![s] = q] /\ IsStore(q) /\ \A b \in Artifact \ W : OnDisk(b)' = OnDisk(b)
  BY <1>7, <1>8
<1>17. dirs' \in [Id -> Directory(Kind) \cup {None}]
  BY <1>8
<1>18. /\ artifacts' \in [Server -> [Artifact -> Content \cup {None}]]
       /\ \A p \in Server \ {s} : artifacts'[p] = artifacts[p]
  BY <1>9
<1>19. /\ meddled' \in [Server -> SUBSET Artifact]
       /\ \A p \in Server \ {s} : meddled'[p] = meddled[p] \cup W
  BY <1>11
<1> QED BY <1>4, <1>10, <1>12, <1>13, <1>14, <1>15, <1>16, <1>17, <1>18, <1>19, MovesKeep

-----------------------------------------------------------------------------
(* What a sweep removes.                                                   *)

LEMMA RemoveFilesKeeps ==
  ASSUME StoreInv, NEW s \in Server, NEW i \in Id, RemoveFiles(s, i)
  PROVE  StoreInv'
<1>1. PICK r : r = stores[s]
  OBVIOUS
<1>2. /\ IsStore(r) /\ RememberedBy(s) /\ Honest(r.told) /\ r.at = "evict" /\ r.attached = FALSE
      /\ UNCHANGED <<shelf, retention, limits, clock, artifacts>>
      /\ DiskInv
  BY <1>1 DEF StoreInv, ProcessInv, RemoveFiles, OnlyStoresMove, IsStore
<1>3. CASE dirs[i] = None
  <2>1. PICK q : q = [r EXCEPT !.left = r.left \ {i}]
    OBVIOUS
  <2>2. q = Fields(q) /\ q.at = "evict" /\ q.attached = FALSE /\ q.told = r.told
    BY <1>2, <2>1 DEF IsStore, Fields
  <2>3. IsStore(q)
    BY <2>2 DEF IsStore, Writing, Fetching, Sweeping
  <2>4. stores' = [stores EXCEPT ![s] = q] /\ UNCHANGED <<shelf, dirs, artifacts, issued, meddled>>
    BY <1>1, <1>2, <1>3, <2>1 DEF RemoveFiles, Goes
  <2>5. /\ limits' \in [puts : Nat, crashes : Nat, until : Nat] /\ clock' \in Nat
        /\ meddled' \in [Server -> SUBSET Artifact]
        /\ \A p \in Server \ {s} : meddled'[p] = meddled[p]
        /\ \A b \in meddled[s] \ meddled'[s] : artifacts[s][b] = None
    BY <1>2, <2>4 DEF DiskInv
  <2>6. Honest(q.told) /\ ~ q.attached /\ stores[s].at = "evict"
    BY <1>1, <1>2, <2>2
  <2> QED BY <2>2, <2>3, <2>4, <2>5, <2>6, QuietSteps
<1>4. CASE dirs[i] # None
  <2>1. PICK q : q = [r EXCEPT !.left = r.left \ {i}, !.at = "rmdir", !.victim = i]
    OBVIOUS
  <2>2. q = Fields(q) /\ q.at = "rmdir" /\ q.victim = i /\ q.attached = FALSE /\ q.told = r.told
    BY <1>2, <2>1 DEF IsStore, Fields
  <2>3. stores' = [p \in Server |->
                IF p = s THEN q
                ELSE IF stores[p].attached /\ stores[p].artifact[1] = i
                THEN [stores[p] EXCEPT !.attached = FALSE] ELSE stores[p]]
    BY <1>1, <1>4, <2>1 DEF RemoveFiles
  <2>4. Server' = Server /\ stores'[s] = q
    BY <2>3 DEF Server
  <2>5. Artifact' = Artifact /\ Id' = Id /\ Kind' = Kind
    BY <1>2 DEF Artifact, Id, Kind
  <2>6. PICK W \in SUBSET Artifact : W = OfRun(i)
    BY DEF OfRun
  <2>7. Touches(s, W, {})
    BY <1>4, <2>6 DEF RemoveFiles
  <2>8. /\ issued' \in [Artifact -> Content \cup {None}]
        /\ meddled' \in [Server -> SUBSET Artifact]
        /\ meddled'[s] = meddled[s]
        /\ \A p \in Server \ {s} : meddled'[p] = meddled[p] \cup W
    BY <1>2, <2>7 DEF Touches, DiskInv
  <2>9. PICK m : m = IF Empty(dirs[i]) THEN dirs[i].mtime ELSE clock
    OBVIOUS
  <2>10. m \in Nat
    <3>1. dirs[i] \in Directory(Kind)
      BY <1>2, <1>4 DEF DiskInv
    <3> QED BY <1>2, <2>9, <3>1 DEF Directory, DiskInv
  <2>11. PICK d : d = [mtime |-> m, files |-> Nothing, sidecars |-> Nothing]
    OBVIOUS
  <2>12. d \in Directory(Kind)
    BY <2>10, <2>11 DEF Directory, Nothing
  <2>13. dirs' = [dirs EXCEPT ![i] = d]
    BY <1>4, <2>9, <2>11 DEF RemoveFiles
  <2>14. /\ dirs' \in [Id -> Directory(Kind) \cup {None}]
         /\ \A b \in Artifact \ W : OnDisk(b)' = OnDisk(b) /\ Sidecar(b)' = Sidecar(b)
    <3>1. /\ dirs' \in [Id -> Directory(Kind) \cup {None}]
          /\ \A b \in Artifact :
               /\ OnDisk(b)' = IF b[1] = i THEN (IF d = None THEN None ELSE d.files[b[2]]) ELSE OnDisk(b)
               /\ Sidecar(b)' = IF b[1] = i THEN (IF d = None THEN None ELSE d.sidecars[b[2]]) ELSE Sidecar(b)
      BY <1>2, <2>12, <2>13, DirectoryChanges
    <3> QED BY <2>6, <3>1 DEF OfRun
  <2>15. IssuedInv'
    BY <1>2, <2>7, <2>14, TouchesKeep
  <2>16. DiskInv'
    BY <1>2, <2>4, <2>5, <2>8, <2>14 DEF DiskInv
  <2>17. ProcessInv(s)'
    <3>1. IsStore(stores[s])'
      BY <2>2, <2>4, <2>5 DEF IsStore, Fields, Writing, Fetching, Sweeping
    <3>2. RememberedBy(s)'
      <4> SUFFICES ASSUME NEW b \in Artifact, artifacts[s][b] # None, b \notin meddled[s], b[1] # i
                   PROVE  OnDisk(b)' = artifacts[s][b]
        BY <1>2, <2>2, <2>4, <2>5, <2>8 DEF RememberedBy, Clearing
      <4>1. b \notin W
        BY <2>6 DEF OfRun
      <4> QED BY <1>1, <1>2, <2>14, <4>1 DEF RememberedBy, Current, Clearing
    <3>3. AttachedBy(s)' /\ OwnBy(s)'
      BY <2>2, <2>4 DEF AttachedBy, OwnBy
    <3>4. Honest(stores[s].told)'
      BY <1>2, <2>2, <2>4 DEF Honest
    <3> QED BY <3>1, <3>2, <3>3, <3>4 DEF ProcessInv
  <2>18. ASSUME NEW p \in Server, p # s PROVE ProcessInv(p)'
    <3>1. PICK b : b = stores[p].artifact
      OBVIOUS
    <3>2. /\ shelf' = shelf /\ artifacts'[p] = artifacts[p] /\ meddled'[p] = meddled[p] \cup W
          /\ \A a \in Artifact \ W : OnDisk(a)' = OnDisk(a)
      BY <1>2, <2>8, <2>14, <2>18
    <3>3. stores[p].attached => b \in Artifact
      BY <3>1 DEF StoreInv, ProcessInv, IsStore, Writing
    <3>4. CASE stores[p].attached /\ b[1] = i
      <4>1. stores'[p] = [stores[p] EXCEPT !.attached = FALSE]
        BY <2>3, <2>18, <3>1, <3>4
      <4>2. b \in W
        BY <2>6, <3>3, <3>4 DEF OfRun
      <4> QED BY <3>1, <3>2, <4>1, <4>2, OthersKeep
    <3>5. CASE ~ (stores[p].attached /\ b[1] = i)
      <4>1. stores'[p] = stores[p]
        BY <2>3, <2>18, <3>1, <3>5
      <4>2. stores[p].attached => /\ OnDisk(b) # None => OnDisk(b)' # None
                                  /\ Sidecar(b) # None => Sidecar(b)' # None
        BY <2>6, <2>14, <3>3, <3>5 DEF OfRun
      <4> QED BY <3>1, <3>2, <4>1, <4>2, OthersKeep
    <3> QED BY <3>4, <3>5
  <2> QED BY <2>4, <2>15, <2>16, <2>17, <2>18 DEF StoreInv
<1> QED BY <1>3, <1>4

LEMMA RemoveRunKeeps ==
  ASSUME StoreInv, NEW s \in Server, RemoveRun(s)
  PROVE  StoreInv'
<1>1. PICK r, i : r = stores[s] /\ i = r.victim
  OBVIOUS
<1>2. /\ IsStore(r) /\ RememberedBy(s) /\ Honest(r.told) /\ r.at = "rmdir" /\ r.attached = FALSE /\ i \in Id
      /\ UNCHANGED <<shelf, retention, limits, clock, issued>>
      /\ DiskInv
  BY <1>1 DEF StoreInv, ProcessInv, RemoveRun, OnlyStoresMove, IsStore
<1>3. Artifact' = Artifact
  BY <1>2 DEF Artifact
<1>4. /\ shelf' = shelf /\ limits' \in [puts : Nat, crashes : Nat, until : Nat] /\ clock' \in Nat
      /\ issued' \in [Artifact -> Content \cup {None}]
  BY <1>2 DEF DiskInv
<1>5. PICK W \in SUBSET Artifact : W = {}
  OBVIOUS
<1>6. CASE dirs[i] = None \/ Empty(dirs[i])
  <2>1. PICK q : q = [r EXCEPT !.at = "evict", !.victim = None]
    OBVIOUS
  <2>2. q = Fields(q) /\ q.at = "evict" /\ q.attached = FALSE /\ q.told = r.told
    BY <1>2, <2>1 DEF IsStore, Fields
  <2>3. IsStore(q)
    BY <2>2 DEF IsStore, Writing, Fetching, Sweeping
  <2>4. /\ stores' = [stores EXCEPT ![s] = q]
        /\ dirs' = [dirs EXCEPT ![i] = None]
        /\ artifacts' = [artifacts EXCEPT ![s] = DropHandles(s, i)]
        /\ meddled' = meddled
    BY <1>1, <1>6, <2>1 DEF RemoveRun, Goes
  <2>5. stores'[s] = q
    BY <2>4 DEF Server
  <2>6. PICK d : d = None
    OBVIOUS
  <2>7. /\ dirs' \in [Id -> Directory(Kind) \cup {None}]
        /\ \A b \in Artifact :
             /\ OnDisk(b)' = IF b[1] = i THEN (IF d = None THEN None ELSE d.files[b[2]]) ELSE OnDisk(b)
             /\ Sidecar(b)' = IF b[1] = i THEN (IF d = None THEN None ELSE d.sidecars[b[2]]) ELSE Sidecar(b)
    <3>1. d \in Directory(Kind) \cup {None} /\ dirs' = [dirs EXCEPT ![i] = d]
      BY <2>4, <2>6
    <3> QED BY <1>2, <3>1, DirectoryChanges
  <2>8. \A b \in Artifact : OnDisk(b)' = OnDisk(b) /\ Sidecar(b)' = Sidecar(b)
    <3> SUFFICES ASSUME NEW b \in Artifact, b[1] = i
                 PROVE  OnDisk(b) = None /\ Sidecar(b) = None
      BY <2>6, <2>7
    <3>1. b[2] \in Kind
      BY DEF Kind
    <3> QED BY <1>6, <3>1 DEF OnDisk, Sidecar, Empty, Nothing
  <2>9. /\ artifacts' \in [Server -> [Artifact -> Content \cup {None}]]
        /\ \A p \in Server \ {s} : artifacts'[p] = artifacts[p]
        /\ \A b \in Artifact : artifacts'[s][b] = IF b[1] = i THEN None ELSE artifacts[s][b]
    BY <1>2, <2>4 DEF DiskInv, DropHandles
  <2>10. IssuedInv'
    BY <1>2, <1>3, <2>8 DEF StoreInv, IssuedInv
  <2>11. RememberedBy(s)'
    <3> SUFFICES ASSUME NEW b \in Artifact, b[1] # i, artifacts[s][b] # None, b \notin meddled[s]
                 PROVE  OnDisk(b)' = artifacts[s][b]
      BY <1>3, <2>4, <2>9 DEF RememberedBy
    <3> QED BY <1>1, <1>2, <2>8 DEF RememberedBy, Current, Clearing
  <2>12. AttachedBy(s)' /\ OwnBy(s)' /\ Honest(q.told)
    BY <1>2, <2>2, <2>5 DEF AttachedBy, OwnBy
  <2>13. /\ meddled' \in [Server -> SUBSET Artifact]
         /\ \A p \in Server \ {s} : meddled'[p] = meddled[p] \cup W
    BY <1>2, <1>5, <2>4 DEF DiskInv
  <2>14. /\ \A b \in Artifact \ W : OnDisk(b)' = OnDisk(b)
         /\ \A b \in Artifact : /\ OnDisk(b) # None => OnDisk(b)' # None
                                /\ Sidecar(b) # None => Sidecar(b)' # None
    BY <2>8
  <2>15. dirs' \in [Id -> Directory(Kind) \cup {None}] /\ stores' = [stores EXCEPT ![s] = q]
    BY <2>4, <2>7
  <2>16. /\ artifacts' \in [Server -> [Artifact -> Content \cup {None}]]
         /\ \A p \in Server \ {s} : artifacts'[p] = artifacts[p]
    BY <2>9
  <2> QED BY <1>4, <2>3, <2>10, <2>11, <2>12, <2>13, <2>14, <2>15, <2>16, MovesKeep
<1>7. CASE ~ (dirs[i] = None \/ Empty(dirs[i]))
  <2>1. PICK q : q = Resting(r.last, None)
    OBVIOUS
  <2>2. IsStore(q) /\ q.at = "idle" /\ q.told = None /\ q.attached = FALSE
    BY <2>1, RestingStore
  <2>3. /\ stores' = [stores EXCEPT ![s] = q]
        /\ UNCHANGED <<dirs, artifacts>>
        /\ meddled' = [meddled EXCEPT ![s] = @ \cup OfRun(i)]
    BY <1>1, <1>7, <2>1 DEF RemoveRun, Goes, Throws
  <2>4. stores'[s] = q
    BY <2>3 DEF Server
  <2>5. \A b \in Artifact : OnDisk(b)' = OnDisk(b) /\ Sidecar(b)' = Sidecar(b)
    BY <2>3 DEF OnDisk, Sidecar
  <2>6. /\ meddled' \in [Server -> SUBSET Artifact]
        /\ meddled'[s] = meddled[s] \cup OfRun(i)
        /\ \A p \in Server \ {s} : meddled'[p] = meddled[p] \cup W
    BY <1>2, <1>5, <2>3 DEF DiskInv, OfRun
  <2>7. IssuedInv'
    BY <1>2, <1>3, <2>5 DEF StoreInv, IssuedInv
  <2>8. RememberedBy(s)'
    <3> SUFFICES ASSUME NEW b \in Artifact, artifacts[s][b] # None, b \notin meddled'[s]
                 PROVE  OnDisk(b)' = artifacts[s][b]
      BY <1>3, <2>3 DEF RememberedBy
    <3>1. b[1] # i /\ b \notin meddled[s]
      BY <2>6 DEF OfRun
    <3> QED BY <1>1, <1>2, <2>5, <3>1 DEF RememberedBy, Current, Clearing
  <2>9. AttachedBy(s)' /\ OwnBy(s)' /\ Honest(q.told)
    BY <2>2, <2>4 DEF AttachedBy, OwnBy, Honest
  <2>10. /\ dirs' \in [Id -> Directory(Kind) \cup {None}]
         /\ artifacts' \in [Server -> [Artifact -> Content \cup {None}]]
         /\ \A p \in Server \ {s} : artifacts'[p] = artifacts[p]
    BY <1>2, <2>3 DEF DiskInv
  <2>11. /\ \A b \in Artifact \ W : OnDisk(b)' = OnDisk(b)
         /\ \A b \in Artifact : /\ OnDisk(b) # None => OnDisk(b)' # None
                                /\ Sidecar(b) # None => Sidecar(b)' # None
    BY <2>5
  <2>12. /\ meddled' \in [Server -> SUBSET Artifact]
         /\ \A p \in Server \ {s} : meddled'[p] = meddled[p] \cup W
    BY <2>6
  <2>13. stores' = [stores EXCEPT ![s] = q] /\ IsStore(q)
    BY <2>2, <2>3
  <2> QED BY <1>4, <2>7, <2>8, <2>9, <2>10, <2>11, <2>12, <2>13, MovesKeep
<1> QED BY <1>6, <1>7

-----------------------------------------------------------------------------
(* The invariant holds.                                                    *)

LEMMA StoreInitHolds ==
  ASSUME StoreInit
  PROVE  StoreInv
<1>0. PICK suite \in StoreSuites : \E policies \in suite.policies :
        /\ shelf = [artifacts |-> suite.artifacts, sizes |-> suite.sizes]
        /\ dirs = [i \in {a[1] : a \in suite.artifacts} |-> None]
        /\ stores = [s \in DOMAIN policies |-> Resting(None, None)]
        /\ artifacts = [s \in DOMAIN policies |-> [a \in suite.artifacts |-> None]]
        /\ limits = suite.limits
        /\ clock = 0
        /\ issued = [a \in suite.artifacts |-> None]
        /\ meddled = [s \in DOMAIN policies |-> {}]
  BY DEF StoreInit
<1>1. PICK policies \in suite.policies :
        /\ shelf = [artifacts |-> suite.artifacts, sizes |-> suite.sizes]
        /\ dirs = [i \in {a[1] : a \in suite.artifacts} |-> None]
        /\ stores = [s \in DOMAIN policies |-> Resting(None, None)]
        /\ artifacts = [s \in DOMAIN policies |-> [a \in suite.artifacts |-> None]]
        /\ limits = suite.limits
        /\ clock = 0
        /\ issued = [a \in suite.artifacts |-> None]
        /\ meddled = [s \in DOMAIN policies |-> {}]
  BY <1>0
<1>2. Artifact = suite.artifacts /\ Server = DOMAIN policies /\ shelf.sizes = suite.sizes
  BY <1>1 DEF Artifact, Server
<1>3. Id = {a[1] : a \in suite.artifacts} /\ Kind = {a[2] : a \in suite.artifacts}
  BY <1>2 DEF Id, Kind
<1>4. DiskInv
  <2>1. /\ \A a \in suite.artifacts : a = <<a[1], a[2]>>
        /\ None \notin Directory({a[2] : a \in suite.artifacts})
        /\ suite.sizes \subseteq Nat
        /\ suite.limits \in [puts : Nat, crashes : Nat, until : Nat]
    BY StoreAssumption
  <2>2. dirs \in [Id -> Directory(Kind) \cup {None}]
    BY <1>1, <1>3
  <2>3. artifacts \in [Server -> [Artifact -> Content \cup {None}]]
    BY <1>1, <1>2
  <2> QED BY <1>1, <1>2, <1>3, <2>1, <2>2, <2>3 DEF DiskInv
<1>5. IssuedInv
  BY <1>1, <1>2 DEF IssuedInv
<1>6. ASSUME NEW s \in Server PROVE ProcessInv(s)
  <2>1. stores[s] = Resting(None, None)
    BY <1>1, <1>2
  <2>2. PICK q : q = Resting(None, None)
    OBVIOUS
  <2>3. IsStore(q) /\ q.at = "idle" /\ q.told = None /\ q.attached = FALSE
    BY <2>2, RestingStore
  <2>4. RememberedBy(s)
    BY <1>1, <1>2 DEF RememberedBy
  <2>5. AttachedBy(s) /\ OwnBy(s) /\ Honest(q.told)
    BY <2>1, <2>2, <2>3 DEF AttachedBy, OwnBy, Honest
  <2> QED BY <2>1, <2>2, <2>3, <2>4, <2>5 DEF ProcessInv
<1> QED BY <1>4, <1>5, <1>6 DEF StoreInv

LEMMA StoreNextKeeps ==
  ASSUME StoreInv, StoreNext
  PROVE  StoreInv'
<1>1. ASSUME NEW s \in Server, NEW a \in Artifact, NEW size \in shelf.sizes, Put(s, a, size) PROVE StoreInv'
  BY <1>1, PutKeeps
<1>2. ASSUME NEW s \in Server, OpenFile(s) \/ WriteFile(s) \/ OpenSidecar(s) \/ WriteSidecar(s) PROVE StoreInv'
  BY <1>2, OpenFileKeeps, WriteFileKeeps, OpenSidecarKeeps, WriteSidecarKeeps
<1>3. ASSUME NEW s \in Server, ListRuns(s) \/ Decide(s) \/ EndSweep(s) \/ \E i \in Id : StatRun(s, i) PROVE StoreInv'
  BY <1>3, SweepReadsKeep
<1>4. ASSUME NEW s \in Server, RemoveRun(s) \/ \E i \in Id : RemoveFiles(s, i) PROVE StoreInv'
  BY <1>4, RemoveFilesKeeps, RemoveRunKeeps
<1>5. ASSUME NEW s \in Server, NEW a \in Artifact, GetRemembered(s, a) \/ GetFromDisk(s, a) PROVE StoreInv'
  BY <1>5, GetRememberedKeeps, GetFromDiskKeeps
<1>6. ASSUME NEW s \in Server, ReadFile(s) \/ ReadSidecar(s) \/ StoreDies(s) PROVE StoreInv'
  BY <1>6, ReadFileKeeps, ReadSidecarKeeps, DeathKeeps
<1>7. CASE StoreTick
  BY <1>7, TickKeeps
<1> QED BY <1>1, <1>2, <1>3, <1>4, <1>5, <1>6, <1>7 DEF StoreNext

LEMMA UnchangedStore ==
  ASSUME StoreInv, UNCHANGED svars
  PROVE  StoreInv'
<1>1. UNCHANGED <<shelf, dirs, stores, artifacts, limits, issued, meddled>> /\ clock' \in Nat
  BY DEF svars, StoreInv, DiskInv
<1> QED BY <1>1, StillKeeps

LEMMA PillarInvInductive ==
  /\ Init => PillarInv
  /\ PillarInv /\ [Next]_vars => PillarInv'
<1>1. Init => PillarInv
  BY StoreInitHolds DEF Init, PillarInv, StoreRests
<1>2. ASSUME PillarInv, [Next]_vars
      PROVE  PillarInv'
  <2>1. CASE UNCHANGED svars
    BY <1>2, <2>1, UnchangedStore DEF PillarInv, svars
  <2>2. CASE stores # <<>> /\ StoreNext
    BY <1>2, <2>2, StoreNextKeeps DEF PillarInv
  <2> QED BY <1>2, <2>1, <2>2 DEF Next, Finished, vars
<1> QED BY <1>1, <1>2

\* A get that no other process interferes with says what is so (store.ts, get,
\* dropHandles): for any number of processes, artifacts, sizes and policies,
\* and at every interleaving of their calls of the file system and crashes.
THEOREM StoreAnswersAreHonest == Spec => []AnswersAreHonest
<1>1. PillarInv => AnswersAreHonest
  <2> SUFFICES ASSUME PillarInv, NEW s \in Server, stores[s].told # None
               PROVE  Honest(stores[s].told)
    BY DEF AnswersAreHonest, Honest
  <2>1. stores # <<>>
    BY DEF Server
  <2> QED BY <2>1 DEF PillarInv, StoreInv, ProcessInv
<1> QED BY <1>1, PillarInvInductive, PTL DEF Spec

-----------------------------------------------------------------------------
(* Least elements: what stands for an induction over finite sets and over  *)
(* the natural numbers.                                                    *)

LEMMA MinimalSubset ==
  ASSUME NEW S, IsFiniteSet(S), NEW Bad, Bad \subseteq SUBSET S, Bad # {}
  PROVE  \E T \in Bad : \A U \in Bad : U \subseteq T => U = T
<1>1. FiniteSubsetsOf(S) = SUBSET S
  BY FS_FiniteSubsetsOfFinite
<1>2. IsWellFoundedOn(StrictSubsetOrdering(S), SUBSET S)
  BY <1>1, FS_StrictSubsetOrderingWellFounded
<1>3. PICK T \in Bad : \A U \in Bad : ~ (<<U, T>> \in StrictSubsetOrdering(S))
  BY <1>2, WFMin
<1>4. ASSUME NEW U \in Bad, U \subseteq T, U # T PROVE FALSE
  BY <1>3, <1>4 DEF StrictSubsetOrdering
<1> QED BY <1>4

LEMMA MinimalNumber ==
  ASSUME NEW Bad \in SUBSET Nat, Bad # {}
  PROVE  \E n \in Bad : \A k \in Bad : n <= k
<1>1. PICK n \in Bad : \A k \in Bad : ~ (<<k, n>> \in OpToRel(<, Nat))
  BY NatLessThanWellFounded, WFMin
<1>2. \A k \in Bad : ~ (k < n)
  BY <1>1 DEF OpToRel
<1> QED BY <1>2

-----------------------------------------------------------------------------
(* Sums over finite sets.                                                  *)

First(S) == CHOOSE x \in S : TRUE

\* g gives the sum of f over every subset of S.
Sums(g, f, S) ==
  g = [T \in SUBSET S |-> IF T = {} THEN 0 ELSE f[First(T)] + g[T \ {First(T)}]]

Sum(f, S) == SumFunctionOnSet(f, S)

LEMMA SumDefinition ==
  ASSUME NEW f, NEW S
  PROVE  Sum(f, S) = (CHOOSE g : Sums(g, f, S))[S]
BY DEF Sum, Sums, First, SumFunctionOnSet, FoldFunctionOnSet, MapThenFoldSet

LEMMA SumsAgree ==
  ASSUME NEW f, NEW S, IsFiniteSet(S), NEW g, NEW h, NEW R, Sums(g, f, S), Sums(h, f, R), NEW U, U \subseteq S, U \subseteq R
  PROVE  g[U] = h[U]
<1> DEFINE Bad == {T \in SUBSET S : T \subseteq R /\ g[T] # h[T]}
<1> SUFFICES ASSUME Bad # {} PROVE FALSE
  OBVIOUS
<1>1. PICK T \in Bad : \A V \in Bad : V \subseteq T => V = T
  <2>1. Bad \subseteq SUBSET S /\ Bad # {}
    OBVIOUS
  <2> HIDE DEF Bad
  <2> QED BY <2>1, MinimalSubset
<1>2. PICK x : x = First(T)
  OBVIOUS
<1>3. /\ g[T] = IF T = {} THEN 0 ELSE f[x] + g[T \ {x}]
      /\ h[T] = IF T = {} THEN 0 ELSE f[x] + h[T \ {x}]
  <2>1. T \in SUBSET S /\ T \in SUBSET R
    OBVIOUS
  <2> QED BY <1>2, <2>1 DEF Sums
<1>4. T # {} /\ x \in T
  BY <1>2, <1>3 DEF First
<1>5. g[T \ {x}] = h[T \ {x}]
  BY <1>1, <1>4
<1> QED BY <1>3, <1>4, <1>5

LEMMA SumsExist ==
  ASSUME NEW f, NEW S, IsFiniteSet(S)
  PROVE  \E g : Sums(g, f, S)
<1> DEFINE Bad == {T \in SUBSET S : ~ \E g : Sums(g, f, T)}
<1> SUFFICES ASSUME Bad # {} PROVE FALSE
  OBVIOUS
<1>1. PICK T \in Bad : \A V \in Bad : V \subseteq T => V = T
  <2>1. Bad \subseteq SUBSET S /\ Bad # {}
    OBVIOUS
  <2> HIDE DEF Bad
  <2> QED BY <2>1, MinimalSubset
<1>2. IsFiniteSet(T)
  BY FS_Subset
<1>3. \A U \in SUBSET T : U # T => \E g : Sums(g, f, U)
  BY <1>1
<1> DEFINE H(U) == CHOOSE g : Sums(g, f, U)
           G == [U \in SUBSET T |-> IF U = {} THEN 0 ELSE f[First(U)] + H(U \ {First(U)})[U \ {First(U)}]]
<1>4. \A U \in SUBSET T : U # T => Sums(H(U), f, U)
  BY <1>3
<1> HIDE DEF H
<1>5. ASSUME NEW U \in SUBSET T, U # T
      PROVE  H(U)[U] = G[U]
  <2>1. CASE U = {}
    <3>1. Sums(H(U), f, U)
      BY <1>4, <1>5
    <3> QED BY <2>1, <3>1 DEF Sums
  <2>2. CASE U # {}
    <3>1. PICK x, V : x = First(U) /\ V = U \ {x}
      OBVIOUS
    <3>2. x \in U /\ V \in SUBSET T /\ V # T /\ V \subseteq U
      BY <2>2, <3>1 DEF First
    <3>3. Sums(H(U), f, U) /\ Sums(H(V), f, V)
      BY <1>4, <1>5, <3>2
    <3>4. IsFiniteSet(U)
      BY <1>2, FS_Subset
    <3>5. H(U)[V] = H(V)[V]
      BY <3>2, <3>3, <3>4, SumsAgree
    <3>6. H(U)[U] = f[x] + H(U)[V]
      BY <2>2, <3>1, <3>3 DEF Sums
    <3>7. G[U] = f[x] + H(V)[V]
      BY <2>2, <3>1
    <3> QED BY <3>5, <3>6, <3>7
  <2> QED BY <2>1, <2>2
<1>6. G = [U \in SUBSET T |-> IF U = {} THEN 0 ELSE f[First(U)] + G[U \ {First(U)}]]
  <2>1. ASSUME NEW U \in SUBSET T, U # {}
        PROVE  H(U \ {First(U)})[U \ {First(U)}] = G[U \ {First(U)}]
    <3>1. First(U) \in U
      BY <2>1 DEF First
    <3>2. U \ {First(U)} \in SUBSET T /\ U \ {First(U)} # T
      BY <3>1
    <3> QED BY <1>5, <3>2
  <2> QED BY <2>1
<1>7. Sums(G, f, T)
  <2> HIDE DEF G
  <2> QED BY <1>6 DEF Sums
<1> QED BY <1>7

LEMMA SumEmpty ==
  ASSUME NEW f
  PROVE  Sum(f, {}) = 0
<1>1. IsFiniteSet({})
  BY FS_EmptySet
<1>2. PICK g : Sums(g, f, {}) /\ g = CHOOSE h : Sums(h, f, {})
  BY <1>1, SumsExist
<1>3. g[{}] = 0
  BY <1>2 DEF Sums
<1> QED BY <1>2, <1>3, SumDefinition

LEMMA SumFirst ==
  ASSUME NEW f, NEW S, IsFiniteSet(S), S # {}
  PROVE  Sum(f, S) = f[First(S)] + Sum(f, S \ {First(S)})
<1>1. PICK x, T : x = First(S) /\ T = S \ {x}
  OBVIOUS
<1>2. x \in S /\ T \subseteq S /\ IsFiniteSet(T)
  BY <1>1, FS_Subset DEF First
<1>3. PICK g : Sums(g, f, S) /\ g = CHOOSE h : Sums(h, f, S)
  BY SumsExist
<1>4. PICK h : Sums(h, f, T) /\ h = CHOOSE g1 : Sums(g1, f, T)
  BY <1>2, SumsExist
<1>5. g[S] = f[x] + g[T]
  BY <1>1, <1>3 DEF Sums
<1>6. g[T] = h[T]
  BY <1>2, <1>3, <1>4, SumsAgree
<1>7. Sum(f, S) = g[S] /\ Sum(f, T) = h[T]
  BY <1>3, <1>4, SumDefinition
<1> QED BY <1>1, <1>5, <1>6, <1>7

\* A sum of natural numbers is one.
LEMMA SumType ==
  ASSUME NEW f, NEW S, IsFiniteSet(S), \A x \in S : f[x] \in Nat
  PROVE  Sum(f, S) \in Nat
<1> DEFINE Bad == {T \in SUBSET S : Sum(f, T) \notin Nat}
<1> SUFFICES ASSUME Bad # {} PROVE FALSE
  OBVIOUS
<1>1. PICK T \in Bad : \A V \in Bad : V \subseteq T => V = T
  <2>1. Bad \subseteq SUBSET S /\ Bad # {}
    OBVIOUS
  <2> HIDE DEF Bad
  <2> QED BY <2>1, MinimalSubset
<1>2. T # {} /\ IsFiniteSet(T)
  <2>1. Sum(f, {}) \in Nat
    BY SumEmpty
  <2>2. IsFiniteSet(T)
    BY FS_Subset
  <2> QED BY <2>1, <2>2
<1>3. PICK x, V : x = First(T) /\ V = T \ {x}
  OBVIOUS
<1>4. x \in T /\ V \in SUBSET S /\ V \subseteq T /\ V # T
  BY <1>2, <1>3 DEF First
<1>5. Sum(f, V) \in Nat
  BY <1>1, <1>4
<1> QED BY <1>2, <1>3, <1>4, <1>5, SumFirst

\* Any element may be taken first.
LEMMA SumAny ==
  ASSUME NEW f, NEW S, IsFiniteSet(S), \A x \in S : f[x] \in Nat, NEW x \in S
  PROVE  Sum(f, S) = f[x] + Sum(f, S \ {x})
<1> DEFINE Bad == {T \in SUBSET S : \E y \in T : Sum(f, T) # f[y] + Sum(f, T \ {y})}
<1> SUFFICES ASSUME Bad # {} PROVE FALSE
  OBVIOUS
<1>1. PICK T \in Bad : \A V \in Bad : V \subseteq T => V = T
  <2>1. Bad \subseteq SUBSET S /\ Bad # {}
    OBVIOUS
  <2> HIDE DEF Bad
  <2> QED BY <2>1, MinimalSubset
<1>2. PICK y \in T : Sum(f, T) # f[y] + Sum(f, T \ {y})
  OBVIOUS
<1>3. PICK z : z = First(T)
  OBVIOUS
<1>4. z \in T /\ T \subseteq S /\ IsFiniteSet(T)
  BY <1>3, FS_Subset DEF First
<1>5. Sum(f, T) = f[z] + Sum(f, T \ {z})
  BY <1>3, <1>4, SumFirst
<1>6. z # y
  BY <1>2, <1>5
<1>7. PICK U, V, W : U = T \ {z} /\ V = T \ {y} /\ W = T \ {y, z}
  OBVIOUS
<1>8. /\ U \in SUBSET S /\ U \notin Bad /\ y \in U /\ U \ {y} = W
      /\ V \in SUBSET S /\ V \notin Bad /\ z \in V /\ V \ {z} = W
      /\ W \in SUBSET S
  BY <1>1, <1>4, <1>6, <1>7
<1>9. Sum(f, U) = f[y] + Sum(f, W) /\ Sum(f, V) = f[z] + Sum(f, W)
  BY <1>8
<1>10. Sum(f, W) \in Nat
  BY <1>8, FS_Subset, SumType
<1> QED BY <1>2, <1>4, <1>5, <1>7, <1>9, <1>10

LEMMA SumMonotone ==
  ASSUME NEW f, NEW S, IsFiniteSet(S), \A x \in S : f[x] \in Nat, NEW U \in SUBSET S
  PROVE  Sum(f, U) <= Sum(f, S)
<1> DEFINE Bad == {T \in SUBSET S : U \subseteq T /\ ~ (Sum(f, U) <= Sum(f, T))}
<1> SUFFICES ASSUME Bad # {} PROVE FALSE
  OBVIOUS
<1>1. PICK T \in Bad : \A V \in Bad : V \subseteq T => V = T
  <2>1. Bad \subseteq SUBSET S /\ Bad # {}
    OBVIOUS
  <2> HIDE DEF Bad
  <2> QED BY <2>1, MinimalSubset
<1>2. IsFiniteSet(U) /\ IsFiniteSet(T) /\ Sum(f, U) \in Nat /\ Sum(f, T) \in Nat
  <2>1. IsFiniteSet(U) /\ IsFiniteSet(T)
    BY FS_Subset
  <2>2. (\A x \in U : f[x] \in Nat) /\ (\A x \in T : f[x] \in Nat)
    OBVIOUS
  <2> QED BY <2>1, <2>2, SumType
<1>3. PICK x \in T : x \notin U
  BY <1>2
<1>4. PICK V : V = T \ {x}
  OBVIOUS
<1>5. V \in SUBSET S /\ U \subseteq V /\ V \notin Bad
  BY <1>1, <1>3, <1>4
<1>6. Sum(f, U) <= Sum(f, V)
  BY <1>5
<1>7. Sum(f, T) = f[x] + Sum(f, V)
  BY <1>2, <1>4, SumAny
<1>8. Sum(f, V) \in Nat
  BY <1>5, FS_Subset, SumType
<1> QED BY <1>2, <1>6, <1>7, <1>8

-----------------------------------------------------------------------------
(* What a sweep decides.                                                   *)

Fits(r, scan, t, runs) ==
  /\ \A i \in runs : r.age = None \/ scan[i].mtime + r.age >= t
  /\ r.entries = None \/ Cardinality(runs) <= r.entries
  /\ r.bytes = None \/ BytesIn(scan, runs) <= r.bytes

TakesTheOldest(r, scan, t, taken) ==
  LET stays == DOMAIN scan \ taken
  IN  /\ Fits(r, scan, t, stays)
      /\ \A i \in taken, j \in stays : scan[i].mtime <= scan[j].mtime
      /\ taken # {} => \E i \in taken : /\ \A j \in taken : scan[j].mtime <= scan[i].mtime
                                       /\ ~ Fits(r, scan, t, stays \cup {i})

IsScan(scan) == \A i \in DOMAIN scan : scan[i].mtime \in Nat /\ scan[i].bytes \in Nat

\* order numbers each of the runs once, newest first.
Numbers(order, n, scan, runs) ==
  /\ DOMAIN order = 1 .. n /\ Len(order) = n
  /\ \A i \in 1 .. n : order[i] \in runs
  /\ \A i, j \in 1 .. n : order[i] = order[j] => i = j
  /\ \A i, j \in 1 .. n : i < j => scan[order[i]].mtime >= scan[order[j]].mtime
  /\ \A x \in runs : \E i \in 1 .. n : x = order[i]

LEMMA OrderNumbers ==
  ASSUME NEW r, NEW scan, IsFiniteSet(DOMAIN scan), NEW t, NEW order \in NewestFirst(r, scan, t)
  PROVE  \E n \in Nat : Numbers(order, n, scan, DOMAIN scan \ Aged(r, scan, t))
<1>1. PICK Y : Y = DOMAIN scan \ Aged(r, scan, t)
  OBVIOUS
<1>2. IsFiniteSet(Y)
  BY <1>1, FS_Subset
<1>3. PICK n \in Nat : n = Cardinality(Y)
  BY <1>2, FS_CardinalityType
<1>4. /\ order \in [1 .. n -> Y] /\ \A i, j \in 1 .. n : i # j => order[i] # order[j]
      /\ \A i, j \in DOMAIN order : i < j => scan[order[i]].mtime >= scan[order[j]].mtime
  BY <1>1, <1>3 DEF NewestFirst, SetToSeqs
<1>5. DOMAIN order = 1 .. n /\ Len(order) = n
  BY <1>4
<1>6. order \in Injection(1 .. n, Y)
  BY <1>4 DEF Injection, IsInjective
<1>7. Cardinality(1 .. n) = Cardinality(Y)
  BY <1>3, FS_Interval
<1>8. order \in Surjection(1 .. n, Y)
  BY <1>2, <1>6, <1>7, FS_Injection
<1>9. \A x \in Y : \E i \in 1 .. n : x = order[i]
  BY <1>8 DEF Surjection
<1> QED BY <1>1, <1>4, <1>5, <1>9 DEF Numbers

\* The sizes of some of the runs.
LEMMA BytesAreNumbers ==
  ASSUME NEW scan, IsFiniteSet(DOMAIN scan), IsScan(scan), NEW T \in SUBSET DOMAIN scan
  PROVE  /\ BytesIn(scan, T) \in Nat
         /\ \A U \in SUBSET T : BytesIn(scan, U) <= BytesIn(scan, T)
<1>1. PICK f : f = [i \in DOMAIN scan |-> scan[i].bytes]
  OBVIOUS
<1>2. IsFiniteSet(T) /\ \A x \in T : f[x] \in Nat
  BY <1>1, FS_Subset DEF IsScan
<1>3. \A U : BytesIn(scan, U) = Sum(f, U)
  BY <1>1 DEF BytesIn, Sum
<1>4. Sum(f, T) \in Nat
  BY <1>2, SumType
<1>5. \A U \in SUBSET T : Sum(f, U) <= Sum(f, T)
  BY <1>2, SumMonotone
<1> QED BY <1>3, <1>4, <1>5

\* Once a sweep takes a run it takes all that are older.
LEMMA EvictionsCut ==
  ASSUME NEW r \in Policy, NEW scan, IsFiniteSet(DOMAIN scan), IsScan(scan), NEW t,
         NEW order \in NewestFirst(r, scan, t), NEW n \in Nat,
         DOMAIN order = 1 .. n, Len(order) = n, \A i \in 1 .. n : order[i] \in DOMAIN scan
  PROVE  \E m \in 0 .. n :
           /\ Evictions(r, scan, t, order) = Aged(r, scan, t) \cup {order[i] : i \in m + 1 .. n}
           /\ r.entries = None \/ m <= r.entries
           /\ m = 0 \/ r.bytes = None \/ Total(scan, order, m) <= r.bytes
           /\ m < n => \/ r.entries # None /\ m + 1 > r.entries
                       \/ r.bytes # None /\ Total(scan, order, m + 1) > r.bytes
<1>1. /\ None \notin Nat
      /\ r.entries \in Nat \cup {None} /\ r.bytes \in Nat \cup {None}
  BY StoreAssumption DEF Policy
<1>2. PICK N \in 0 .. n : N = IF r.entries = None THEN n ELSE IF r.entries <= n THEN r.entries ELSE n
  BY <1>1
<1>3. PICK counted : counted = IF r.entries = None THEN order ELSE SubSeq(order, 1, Min({r.entries, Len(order)}))
  OBVIOUS
<1>4. DOMAIN counted = 1 .. N /\ \A i \in 1 .. N : counted[i] = order[i]
  <2>1. CASE r.entries = None
    BY <1>2, <1>3, <2>1
  <2>2. CASE r.entries # None
    <3>1. Min({r.entries, Len(order)}) = N
      BY <1>1, <1>2, <2>2 DEF Min
    <3>2. counted = SubSeq(order, 1, N)
      BY <1>3, <2>2, <3>1
    <3>3. order \in Seq(DOMAIN scan)
      <4>1. order = [i \in DOMAIN order |-> order[i]]
        BY DEF NewestFirst, SetToSeqs
      <4> QED BY <4>1
    <3> QED BY <1>2, <3>2, <3>3
  <2> QED BY <2>1, <2>2
<1> DEFINE Over(i) == i > N \/ (r.bytes # None /\ Total(scan, order, i) > r.bytes)
           U == {i \in 1 .. n : Over(i)}
<1>5. Evictions(r, scan, t, order) = Aged(r, scan, t) \cup {order[i] : i \in U}
  <2>1. Evictions(r, scan, t, order) =
          Aged(r, scan, t)
          \cup {order[i] : i \in DOMAIN order \ DOMAIN counted}
          \cup {counted[i] : i \in {i \in DOMAIN counted : r.bytes # None /\ Total(scan, order, i) > r.bytes}}
    BY <1>3 DEF Evictions
  <2>2. U = ((1 .. n) \ (1 .. N)) \cup {i \in 1 .. N : r.bytes # None /\ Total(scan, order, i) > r.bytes}
    BY <1>2
  <2>3. {counted[i] : i \in {i \in 1 .. N : r.bytes # None /\ Total(scan, order, i) > r.bytes}}
          = {order[i] : i \in {i \in 1 .. N : r.bytes # None /\ Total(scan, order, i) > r.bytes}}
    BY <1>4
  <2> HIDE DEF U
  <2> QED BY <1>4, <2>1, <2>2, <2>3
<1>6. ASSUME NEW i \in 1 .. n, NEW j \in 1 .. n, i <= j
      PROVE  Total(scan, order, i) \in Nat /\ Total(scan, order, j) \in Nat
             /\ Total(scan, order, i) <= Total(scan, order, j)
  <2>1. PICK A, B : A = {order[k] : k \in 1 .. i} /\ B = {order[k] : k \in 1 .. j}
    OBVIOUS
  <2>2. B \in SUBSET DOMAIN scan
    BY <2>1
  <2>3. A \in SUBSET B
    BY <1>6, <2>1
  <2>4. A \in SUBSET DOMAIN scan
    BY <2>2, <2>3
  <2>5. Total(scan, order, i) = BytesIn(scan, A) /\ Total(scan, order, j) = BytesIn(scan, B)
    BY <2>1 DEF Total
  <2> QED BY <2>2, <2>3, <2>4, <2>5, BytesAreNumbers
<1>7. ASSUME NEW i \in U, NEW j \in 1 .. n, i <= j
      PROVE  j \in U
  BY <1>1, <1>2, <1>6, <1>7
<1>8. PICK m \in 0 .. n : U = m + 1 .. n
  <2>1. CASE U = {}
    <3>1. n \in 0 .. n /\ n + 1 .. n = {}
      OBVIOUS
    <3> HIDE DEF U
    <3> QED BY <2>1, <3>1
  <2>2. CASE U # {}
    <3>1. PICK u \in U : \A k \in U : u <= k
      <4>1. U \in SUBSET Nat
        OBVIOUS
      <4> HIDE DEF U
      <4> QED BY <2>2, <4>1, MinimalNumber
    <3>2. u \in 1 .. n /\ U \subseteq 1 .. n
      OBVIOUS
    <3>3. U = u .. n
      <4> HIDE DEF U
      <4>1. \A j \in u .. n : j \in U
        BY <1>7, <3>1, <3>2
      <4>2. \A j \in U : j \in u .. n
        BY <3>1, <3>2
      <4> QED BY <4>1, <4>2
    <3> HIDE DEF U
    <3>4. u - 1 \in 0 .. n /\ u = (u - 1) + 1
      BY <3>2
    <3> QED BY <3>3, <3>4
  <2> QED BY <2>1, <2>2
<1>9. m = 0 \/ (m \in 1 .. n /\ ~ Over(m))
  <2>1. m \notin m + 1 .. n
    OBVIOUS
  <2>2. m = 0 \/ m \in 1 .. n
    OBVIOUS
  <2> QED BY <1>8, <2>1, <2>2
<1>10. m < n => m + 1 \in 1 .. n /\ Over(m + 1)
  <2>1. m < n => m + 1 \in m + 1 .. n
    OBVIOUS
  <2> QED BY <1>8, <2>1
<1>11. r.entries = None \/ m <= r.entries
  BY <1>1, <1>2, <1>9
<1>12. m = 0 \/ r.bytes = None \/ Total(scan, order, m) <= r.bytes
  BY <1>1, <1>6, <1>9
<1>13. m < n => \/ r.entries # None /\ m + 1 > r.entries
                \/ r.bytes # None /\ Total(scan, order, m + 1) > r.bytes
  BY <1>1, <1>2, <1>10
<1>14. Evictions(r, scan, t, order) = Aged(r, scan, t) \cup {order[i] : i \in m + 1 .. n}
  <2> HIDE DEF U
  <2> QED BY <1>5, <1>8
<1> QED BY <1>11, <1>12, <1>13, <1>14

\* The first runs of an order, each numbered once.
LEMMA FirstRuns ==
  ASSUME NEW order, NEW m \in Nat, NEW runs, runs = {order[i] : i \in 1 .. m},
         \A i, j \in 1 .. m : order[i] = order[j] => i = j
  PROVE  IsFiniteSet(runs) /\ Cardinality(runs) = m
<1>1. PICK f : f = [i \in 1 .. m |-> order[i]]
  OBVIOUS
<1>2. f \in Bijection(1 .. m, runs)
  BY <1>1 DEF Bijection, Injection, Surjection, IsInjective
<1>3. IsFiniteSet(1 .. m) /\ Cardinality(1 .. m) = m
  BY FS_Interval
<1> QED BY <1>2, <1>3, FS_Bijection DEF ExistsBijection

\* The newest of some runs.
LEMMA NewestRun ==
  ASSUME NEW scan, IsScan(scan), NEW runs \in SUBSET DOMAIN scan, runs # {}, NEW t \in Nat,
         \A i \in runs : scan[i].mtime <= t
  PROVE  \E i \in runs : \A j \in runs : scan[j].mtime <= scan[i].mtime
<1>1. PICK ages : ages = {t - scan[i].mtime : i \in runs}
  OBVIOUS
<1>2. \A i \in runs : scan[i].mtime \in Nat
  BY DEF IsScan
<1>3. ages \in SUBSET Nat /\ ages # {}
  BY <1>1, <1>2
<1>4. PICK n \in ages : \A k \in ages : n <= k
  BY <1>3, MinimalNumber
<1>5. PICK i \in runs : n = t - scan[i].mtime
  BY <1>1
<1>6. ASSUME NEW j \in runs PROVE scan[j].mtime <= scan[i].mtime
  <2>1. t - scan[j].mtime \in ages
    BY <1>1
  <2> QED BY <1>2, <1>4, <1>5, <2>1
<1> QED BY <1>6

LEMMA EvictionsTakeTheOldest ==
  ASSUME NEW r \in Policy, NEW scan, IsFiniteSet(DOMAIN scan), IsScan(scan), NEW t \in Nat,
         NEW order \in NewestFirst(r, scan, t)
  PROVE  TakesTheOldest(r, scan, t, Evictions(r, scan, t, order))
<1>0. PICK n \in Nat : Numbers(order, n, scan, DOMAIN scan \ Aged(r, scan, t))
  BY OrderNumbers
<1>1.   /\ DOMAIN order = 1 .. n /\ Len(order) = n
        /\ \A i \in 1 .. n : order[i] \in DOMAIN scan /\ order[i] \notin Aged(r, scan, t)
        /\ \A i, j \in 1 .. n : order[i] = order[j] => i = j
        /\ \A i, j \in 1 .. n : i < j => scan[order[i]].mtime >= scan[order[j]].mtime
        /\ \A x \in DOMAIN scan \ Aged(r, scan, t) : \E i \in 1 .. n : x = order[i]
  BY <1>0 DEF Numbers
<1>2. PICK taken : taken = Evictions(r, scan, t, order)
  OBVIOUS
<1>3. PICK m \in 0 .. n :
        /\ taken = Aged(r, scan, t) \cup {order[i] : i \in m + 1 .. n}
        /\ r.entries = None \/ m <= r.entries
        /\ m = 0 \/ r.bytes = None \/ Total(scan, order, m) <= r.bytes
        /\ m < n => \/ r.entries # None /\ m + 1 > r.entries
                    \/ r.bytes # None /\ Total(scan, order, m + 1) > r.bytes
  BY <1>1, <1>2, EvictionsCut
<1>4. /\ None \notin Nat
      /\ r.age \in Nat \cup {None} /\ r.entries \in Nat \cup {None} /\ r.bytes \in Nat \cup {None}
  BY StoreAssumption DEF Policy
<1>5. PICK stays : stays = {order[i] : i \in 1 .. m}
  OBVIOUS
<1>6. DOMAIN scan \ taken = stays
  <2>1. \A i \in 1 .. m : order[i] \notin taken
    BY <1>1, <1>3
  <2>2. \A x \in DOMAIN scan \ taken : \E i \in 1 .. m : x = order[i]
    <3> SUFFICES ASSUME NEW x \in DOMAIN scan \ taken PROVE \E i \in 1 .. m : x = order[i]
      OBVIOUS
    <3>1. PICK i \in 1 .. n : x = order[i]
      BY <1>1, <1>3
    <3>2. i \notin m + 1 .. n
      BY <1>3, <3>1
    <3> QED BY <3>1, <3>2
  <2> QED BY <1>1, <1>5, <2>1, <2>2
<1>7. /\ \A i \in DOMAIN scan : scan[i].mtime \in Nat
      /\ \A i \in Aged(r, scan, t) : r.age # None /\ scan[i].mtime + r.age < t /\ i \in DOMAIN scan
      /\ \A i \in DOMAIN scan \ Aged(r, scan, t) : r.age = None \/ scan[i].mtime + r.age >= t
  BY <1>4 DEF IsScan, Aged
<1>8. \A k \in 0 .. n : Cardinality({order[i] : i \in 1 .. k}) = k
  <2> SUFFICES ASSUME NEW k \in 0 .. n PROVE Cardinality({order[i] : i \in 1 .. k}) = k
    OBVIOUS
  <2>1. PICK runs : runs = {order[i] : i \in 1 .. k}
    OBVIOUS
  <2>2. \A i, j \in 1 .. k : order[i] = order[j] => i = j
    BY <1>1
  <2> QED BY <2>1, <2>2, FirstRuns
<1>9. Fits(r, scan, t, stays)
  <2>1. \A i \in stays : r.age = None \/ scan[i].mtime + r.age >= t
    BY <1>1, <1>5, <1>7
  <2>2. r.entries = None \/ Cardinality(stays) <= r.entries
    BY <1>3, <1>5, <1>8
  <2>3. r.bytes = None \/ BytesIn(scan, stays) <= r.bytes
    <3>1. CASE m = 0
      <4>1. stays = {}
        BY <1>5, <3>1
      <4>2. BytesIn(scan, {}) = 0
        BY SumEmpty DEF BytesIn, Sum
      <4> QED BY <1>4, <4>1, <4>2
    <3>2. CASE m # 0
      BY <1>3, <1>5, <3>2 DEF Total
    <3> QED BY <3>1, <3>2
  <2> QED BY <2>1, <2>2, <2>3 DEF Fits
<1>10. ASSUME NEW i \in taken, NEW j \in stays PROVE scan[i].mtime <= scan[j].mtime
  <2>1. PICK k \in 1 .. m : j = order[k]
    BY <1>5
  <2>2. k \in 1 .. n /\ j \in DOMAIN scan /\ j \notin Aged(r, scan, t)
    BY <1>1, <2>1
  <2>3. CASE i \in Aged(r, scan, t)
    BY <1>4, <1>7, <2>2, <2>3
  <2>4. CASE \E l \in m + 1 .. n : i = order[l]
    <3>1. PICK l \in m + 1 .. n : i = order[l]
      BY <2>4
    <3>2. l \in 1 .. n /\ k < l
      OBVIOUS
    <3>3. scan[i].mtime \in Nat /\ scan[j].mtime \in Nat
      BY <1>1, <1>7, <2>2, <3>1, <3>2
    <3> QED BY <1>1, <2>1, <2>2, <3>1, <3>2, <3>3
  <2> QED BY <1>3, <2>3, <2>4
<1>11. ASSUME taken # {}
       PROVE  \E i \in taken : /\ \A j \in taken : scan[j].mtime <= scan[i].mtime
                              /\ ~ Fits(r, scan, t, stays \cup {i})
  <2>1. CASE m < n
    <3>1. PICK l \in m + 1 .. n : l = m + 1
      BY <2>1
    <3>2. order[l] \in taken /\ l \in 1 .. n
      BY <1>3
    <3>3. ASSUME NEW j \in taken PROVE scan[j].mtime <= scan[order[l]].mtime
      <4>1. order[l] \in DOMAIN scan /\ order[l] \notin Aged(r, scan, t) /\ scan[order[l]].mtime \in Nat
        BY <1>1, <1>7, <3>2
      <4>2. CASE j \in Aged(r, scan, t)
        BY <1>4, <1>7, <4>1, <4>2
      <4>3. CASE \E k \in m + 1 .. n : j = order[k]
        <5>1. PICK k \in m + 1 .. n : j = order[k]
          BY <4>3
        <5>2. k \in 1 .. n /\ (k = l \/ l < k)
          BY <3>1
        <5>3. scan[j].mtime \in Nat
          BY <1>1, <1>7, <5>1, <5>2
        <5> QED BY <1>1, <3>2, <4>1, <5>1, <5>2, <5>3
      <4> QED BY <1>3, <4>2, <4>3
    <3>4. ~ Fits(r, scan, t, stays \cup {order[l]})
      <4>1. PICK more : more = stays \cup {order[l]}
        OBVIOUS
      <4>2. more = {order[i] : i \in 1 .. l}
        <5>1. \A i \in 1 .. l : i \in 1 .. m \/ i = l
          BY <3>1
        <5>2. (\A i \in 1 .. m : i \in 1 .. l) /\ l \in 1 .. l
          BY <3>1
        <5>3. more = {order[i] : i \in 1 .. m} \cup {order[l]}
          BY <1>5, <4>1
        <5>4. \A x : (\E i \in 1 .. l : x = order[i]) <=> (x = order[l] \/ \E i \in 1 .. m : x = order[i])
          BY <5>1, <5>2
        <5> QED BY <5>3, <5>4
      <4>3. Cardinality(more) = m + 1
        BY <1>8, <3>1, <3>2, <4>2
      <4>4. BytesIn(scan, more) = Total(scan, order, m + 1)
        BY <3>1, <4>2 DEF Total
      <4>5. more \in SUBSET DOMAIN scan
        BY <1>1, <3>2, <4>2
      <4>6. BytesIn(scan, more) \in Nat
        BY <4>5, BytesAreNumbers
      <4>7. \/ r.entries # None /\ ~ (Cardinality(more) <= r.entries)
            \/ r.bytes # None /\ ~ (BytesIn(scan, more) <= r.bytes)
        BY <1>3, <1>4, <2>1, <4>3, <4>4, <4>6
      <4> QED BY <4>1, <4>7 DEF Fits
    <3> QED BY <3>2, <3>3, <3>4
  <2>2. CASE m = n
    <3>1. taken = Aged(r, scan, t)
      BY <1>3, <2>2
    <3>2. taken \in SUBSET DOMAIN scan /\ \A i \in taken : scan[i].mtime <= t
      BY <1>4, <1>7, <3>1
    <3>3. PICK i \in taken : \A j \in taken : scan[j].mtime <= scan[i].mtime
      BY <1>11, <3>2, NewestRun
    <3>4. r.age # None /\ ~ (scan[i].mtime + r.age >= t)
      BY <1>4, <1>7, <3>1
    <3> QED BY <3>3, <3>4 DEF Fits
  <2>3. m < n \/ m = n
    OBVIOUS
  <2> QED BY <2>1, <2>2, <2>3
<1> QED BY <1>2, <1>6, <1>9, <1>10, <1>11 DEF TakesTheOldest

-----------------------------------------------------------------------------
(* What a sweep saw, and what it decided from it.                          *)

\* What is fixed at the start.
FixedInv == IsFiniteSet(Artifact) /\ \A s \in Server : retention[s] \in Policy

\* What a sweep has seen so far, and what it decided from it.
ScanOf(r, store) ==
  /\ store.at \in {"list", "stat"} =>
       IsFiniteSet(DOMAIN store.scan) /\ IsScan(store.scan) /\ store.last \in Nat
  /\ store.at \in {"evict", "rmdir"} => TakesTheOldest(r, store.scan, store.last, store.taken)

SweepInv == FixedInv /\ \A s \in Server : ScanOf(retention[s], stores[s])

\* A process that only moves on within a sweep.
LEMMA ScanMoves ==
  ASSUME SweepInv, NEW s \in Server, UNCHANGED <<shelf, retention>>, DOMAIN stores' = Server,
         \A p \in Server \ {s} :
           /\ stores'[p].at = stores[p].at /\ stores'[p].scan = stores[p].scan
           /\ stores'[p].last = stores[p].last /\ stores'[p].taken = stores[p].taken,
         ScanOf(retention[s], stores'[s])
  PROVE  SweepInv'
<1>1. Server' = Server /\ Artifact' = Artifact
  BY DEF Server, Artifact
<1>2. FixedInv'
  BY <1>1 DEF SweepInv, FixedInv
<1>3. ASSUME NEW p \in Server PROVE ScanOf(retention[p], stores[p])'
  BY <1>3 DEF SweepInv, ScanOf
<1> QED BY <1>1, <1>2, <1>3 DEF SweepInv

\* The same, of a process whose next state is known.
LEMMA ScanGoes ==
  ASSUME SweepInv, NEW s \in Server, UNCHANGED <<shelf, retention>>, NEW q, stores' = [stores EXCEPT ![s] = q],
         ScanOf(retention[s], q)
  PROVE  SweepInv'
<1>1. DOMAIN stores' = Server /\ stores'[s] = q /\ \A p \in Server \ {s} : stores'[p] = stores[p]
  BY DEF Server
<1> QED BY <1>1, ScanMoves

\* What a directory holds has a size.
LEMMA BytesOfRun ==
  ASSUME IsFiniteSet(Artifact), NEW dir \in Directory(Kind)
  PROVE  Bytes(dir) \in Nat
<1>1. PICK f : f = [k \in Kind |-> (IF dir.files[k] = None THEN 0 ELSE dir.files[k].size)
                                   + (IF dir.sidecars[k] = "typed" THEN 1 ELSE 0)]
  OBVIOUS
<1>2. IsFiniteSet(Kind)
  <2>1. PICK g : g = [a \in Artifact |-> a[2]]
    OBVIOUS
  <2>2. g \in Surjection(Artifact, Kind)
    BY <2>1 DEF Surjection, Kind
  <2> QED BY <2>2, FS_Surjection
<1>3. \A k \in Kind : f[k] \in Nat
  BY <1>1 DEF Directory, Content
<1>4. Bytes(dir) = Sum(f, Kind)
  BY <1>1 DEF Bytes, Sum, SumFunction, SumFunctionOnSet, FoldFunction
<1> QED BY <1>2, <1>3, <1>4, SumType

LEMMA ListRunsScans ==
  ASSUME StoreInv, SweepInv, NEW s \in Server, ListRuns(s)
  PROVE  SweepInv'
<1>1. PICK r : r = stores[s]
  OBVIOUS
<1>2. r = Fields(r) /\ ScanOf(retention[s], r) /\ r.at = "list" /\ UNCHANGED <<shelf, retention>>
  BY <1>1 DEF StoreInv, ProcessInv, IsStore, SweepInv, ListRuns, OnlyReads, OnlyStoresMove
<1>3. PICK runs : stores' = [stores EXCEPT ![s] = [r EXCEPT !.at = "stat", !.left = runs]]
  BY <1>1 DEF ListRuns, Goes
<1>4. PICK q : q = [r EXCEPT !.at = "stat", !.left = runs]
  OBVIOUS
<1>5. q.at = "stat" /\ q.scan = r.scan /\ q.last = r.last
  BY <1>2, <1>4 DEF Fields
<1>6. ScanOf(retention[s], q)
  BY <1>2, <1>5 DEF ScanOf
<1>7. stores' = [stores EXCEPT ![s] = q]
  BY <1>3, <1>4
<1> QED BY <1>2, <1>6, <1>7, ScanGoes

LEMMA StatRunScans ==
  ASSUME StoreInv, SweepInv, NEW s \in Server, NEW i \in Id, StatRun(s, i)
  PROVE  SweepInv'
<1>1. PICK r : r = stores[s]
  OBVIOUS
<1>2. r = Fields(r) /\ ScanOf(retention[s], r) /\ r.at = "stat" /\ UNCHANGED <<shelf, retention>>
  BY <1>1 DEF StoreInv, ProcessInv, IsStore, SweepInv, StatRun, OnlyReads, OnlyStoresMove
<1>3. IsFiniteSet(DOMAIN r.scan) /\ IsScan(r.scan) /\ r.last \in Nat
  BY <1>2 DEF ScanOf
<1>4. PICK run : run = [mtime |-> dirs[i].mtime, bytes |-> Bytes(dirs[i])]
  OBVIOUS
<1>5. PICK scan : scan = IF dirs[i] = None THEN r.scan ELSE Seen(r.scan, i, run)
  OBVIOUS
<1>6. PICK q : q = [r EXCEPT !.left = r.left \ {i}, !.scan = scan]
  OBVIOUS
<1>7. stores' = [stores EXCEPT ![s] = q]
  BY <1>1, <1>4, <1>5, <1>6 DEF StatRun, Goes
<1>8. IsFiniteSet(DOMAIN scan) /\ IsScan(scan)
  <2>1. CASE dirs[i] = None
    BY <1>3, <1>5, <2>1
  <2>2. CASE dirs[i] # None
    <3>1. dirs[i] \in Directory(Kind) /\ IsFiniteSet(Artifact)
      BY <2>2 DEF StoreInv, DiskInv, SweepInv, FixedInv
    <3>2. run.mtime \in Nat /\ run.bytes \in Nat
      <4>1. Bytes(dirs[i]) \in Nat
        BY <3>1, BytesOfRun
      <4>2. dirs[i].mtime \in Nat
        BY <3>1 DEF Directory
      <4> QED BY <1>4, <4>1, <4>2
    <3>3. scan = Seen(r.scan, i, run)
      BY <1>5, <2>2
    <3>4. scan = [x \in {i} \cup DOMAIN r.scan |-> IF x = i THEN run ELSE r.scan[x]]
      BY <3>3 DEF Seen
    <3>5. DOMAIN scan = DOMAIN r.scan \cup {i}
      BY <3>4
    <3>6. IsFiniteSet(DOMAIN r.scan \cup {i})
      BY <1>3, FS_AddElement
    <3>7. IsScan(scan)
      BY <1>3, <3>2, <3>4 DEF IsScan
    <3> QED BY <3>5, <3>6, <3>7
  <2> QED BY <2>1, <2>2
<1>9. q.at = r.at /\ q.scan = scan /\ q.last = r.last
  BY <1>2, <1>6 DEF Fields
<1>10. ScanOf(retention[s], q)
  BY <1>2, <1>3, <1>8, <1>9 DEF ScanOf
<1> QED BY <1>2, <1>7, <1>10, ScanGoes

LEMMA DecideScans ==
  ASSUME StoreInv, SweepInv, NEW s \in Server, Decide(s)
  PROVE  SweepInv'
<1>1. PICK r, scan, t : r = stores[s] /\ scan = r.scan /\ t = r.last
  OBVIOUS
<1>2. r = Fields(r) /\ ScanOf(retention[s], r) /\ r.at = "stat" /\ UNCHANGED <<shelf, retention>>
      /\ retention[s] \in Policy
  BY <1>1 DEF StoreInv, ProcessInv, IsStore, SweepInv, FixedInv, Decide, OnlyReads, OnlyStoresMove
<1>3. IsFiniteSet(DOMAIN scan) /\ IsScan(scan) /\ t \in Nat
  BY <1>1, <1>2 DEF ScanOf
<1> DEFINE Taken(order) == Evictions(retention[s], stores[s].scan, stores[s].last, order)
<1>4. PICK order \in NewestFirst(retention[s], stores[s].scan, stores[s].last) :
        Goes(s, [stores[s] EXCEPT !.at = "evict", !.taken = Taken(order), !.left = Taken(order)])
  <2> HIDE DEF Taken
  <2> QED BY Zenon DEF Decide, Taken
<1>5. PICK taken : taken = Taken(order)
  OBVIOUS
<1>6. TakesTheOldest(retention[s], scan, t, taken)
  <2>1. order \in NewestFirst(retention[s], scan, t) /\ taken = Evictions(retention[s], scan, t, order)
    BY <1>1, <1>4, <1>5
  <2> QED BY <1>2, <1>3, <2>1, EvictionsTakeTheOldest
<1>7. PICK q : q = [r EXCEPT !.at = "evict", !.taken = taken, !.left = taken]
  OBVIOUS
<1>8. stores' = [stores EXCEPT ![s] = q]
  BY <1>1, <1>4, <1>5, <1>7 DEF Goes
<1>9. q.at = "evict" /\ q.scan = scan /\ q.last = t /\ q.taken = taken
  BY <1>1, <1>2, <1>7 DEF Fields
<1>10. ScanOf(retention[s], q)
  BY <1>6, <1>9 DEF ScanOf
<1> QED BY <1>2, <1>8, <1>10, ScanGoes

LEMMA RemoveFilesScans ==
  ASSUME StoreInv, SweepInv, NEW s \in Server, NEW i \in Id, RemoveFiles(s, i)
  PROVE  SweepInv'
<1>1. \A p \in Server : stores[p] = Fields(stores[p]) /\ ScanOf(retention[p], stores[p])
  BY DEF StoreInv, ProcessInv, IsStore, SweepInv
<1>2. stores[s].at = "evict" /\ UNCHANGED <<shelf, retention>>
  BY DEF RemoveFiles, OnlyStoresMove
<1>3. CASE dirs[i] = None
  <2>1. PICK q : q = [stores[s] EXCEPT !.left = stores[s].left \ {i}]
    OBVIOUS
  <2>2. stores' = [stores EXCEPT ![s] = q]
    BY <1>3, <2>1 DEF RemoveFiles, Goes
  <2>3. q.at = "evict" /\ q.scan = stores[s].scan /\ q.last = stores[s].last /\ q.taken = stores[s].taken
    BY <1>1, <1>2, <2>1 DEF Fields
  <2>4. ScanOf(retention[s], q)
    BY <1>1, <1>2, <2>3 DEF ScanOf
  <2> QED BY <1>2, <2>2, <2>4, ScanGoes
<1>4. CASE dirs[i] # None
  <2>1. stores' = [p \in Server |->
                IF p = s THEN [stores[s] EXCEPT !.left = stores[s].left \ {i}, !.at = "rmdir", !.victim = i]
                ELSE IF stores[p].attached /\ stores[p].artifact[1] = i
                THEN [stores[p] EXCEPT !.attached = FALSE] ELSE stores[p]]
    BY <1>4 DEF RemoveFiles
  <2>2. ASSUME NEW p \in Server \ {s}
        PROVE  /\ stores'[p].at = stores[p].at /\ stores'[p].scan = stores[p].scan
               /\ stores'[p].last = stores[p].last /\ stores'[p].taken = stores[p].taken
    <3>1. PICK r, q : r = stores[p] /\ q = stores'[p]
      OBVIOUS
    <3>2. r = Fields(r)
      BY <1>1, <3>1
    <3>3. q = r \/ q = [r EXCEPT !.attached = FALSE]
      BY <2>1, <3>1
    <3>4. q.at = r.at /\ q.scan = r.scan /\ q.last = r.last /\ q.taken = r.taken
      BY <3>2, <3>3 DEF Fields
    <3> QED BY <3>1, <3>4
  <2>3. PICK r, q : r = stores[s] /\ q = [r EXCEPT !.left = r.left \ {i}, !.at = "rmdir", !.victim = i]
    OBVIOUS
  <2>4. r = Fields(r) /\ ScanOf(retention[s], r) /\ r.at = "evict"
    BY <1>1, <1>2, <2>3
  <2>5. q.at = "rmdir" /\ q.scan = r.scan /\ q.last = r.last /\ q.taken = r.taken
    BY <2>3, <2>4 DEF Fields
  <2>6. ScanOf(retention[s], q)
    BY <2>4, <2>5 DEF ScanOf
  <2>7. stores'[s] = q /\ DOMAIN stores' = Server
    BY <2>1, <2>3
  <2> QED BY <1>2, <2>2, <2>6, <2>7, ScanMoves
<1> QED BY <1>3, <1>4

LEMMA RemoveRunScans ==
  ASSUME StoreInv, SweepInv, NEW s \in Server, RemoveRun(s)
  PROVE  SweepInv'
<1>1. PICK r : r = stores[s]
  OBVIOUS
<1>2. r = Fields(r) /\ ScanOf(retention[s], r) /\ r.at = "rmdir" /\ UNCHANGED <<shelf, retention>>
  BY <1>1 DEF StoreInv, ProcessInv, IsStore, SweepInv, RemoveRun, OnlyStoresMove
<1>3. PICK q : stores' = [stores EXCEPT ![s] = q]
               /\ (q = [r EXCEPT !.at = "evict", !.victim = None] \/ q = Throws(s))
  BY <1>1 DEF RemoveRun, Goes
<1>4. CASE q = [r EXCEPT !.at = "evict", !.victim = None]
  <2>1. q.at = "evict" /\ q.scan = r.scan /\ q.last = r.last /\ q.taken = r.taken
    BY <1>2, <1>4 DEF Fields
  <2>2. ScanOf(retention[s], q)
    BY <1>2, <2>1 DEF ScanOf
  <2> QED BY <1>2, <1>3, <2>2, ScanGoes
<1>5. CASE q = Throws(s)
  <2>1. q.at = "idle"
    BY <1>5 DEF Throws, Resting
  <2>2. ScanOf(retention[s], q)
    BY <2>1 DEF ScanOf
  <2> QED BY <1>2, <1>3, <2>2, ScanGoes
<1> QED BY <1>3, <1>4, <1>5

LEMMA WriteSidecarScans ==
  ASSUME StoreInv, SweepInv, NEW s \in Server, WriteSidecar(s)
  PROVE  SweepInv'
<1>1. UNCHANGED <<shelf, retention>> /\ clock \in Nat
  BY DEF WriteSidecar, OnlyStoresMove, StoreInv, DiskInv
<1>2. PICK q : stores' = [stores EXCEPT ![s] = q]
               /\ (q = [Resting(clock, None) EXCEPT !.at = "list"] \/ q = Resting(stores[s].last, None))
  BY DEF WriteSidecar, Goes
<1>3. CASE q = [Resting(clock, None) EXCEPT !.at = "list"]
  <2>1. q.at = "list" /\ q.scan = <<>> /\ q.last = clock
    BY <1>3 DEF Resting
  <2>2. DOMAIN q.scan = {}
    BY <2>1
  <2>3. IsFiniteSet(DOMAIN q.scan) /\ IsScan(q.scan)
    BY <2>2, FS_EmptySet DEF IsScan
  <2>4. ScanOf(retention[s], q)
    BY <1>1, <2>1, <2>3 DEF ScanOf
  <2> QED BY <1>1, <1>2, <2>4, ScanGoes
<1>4. CASE q = Resting(stores[s].last, None)
  <2>1. q.at = "idle"
    BY <1>4 DEF Resting
  <2>2. ScanOf(retention[s], q)
    BY <2>1 DEF ScanOf
  <2> QED BY <1>1, <1>2, <2>2, ScanGoes
<1> QED BY <1>2, <1>3, <1>4

\* A step after which its process is not in a sweep.
LEMMA OutsideSweepScans ==
  ASSUME SweepInv, NEW s \in Server, UNCHANGED <<shelf, retention>>,
         NEW q, stores' = [stores EXCEPT ![s] = q], q.at \notin {"list", "stat", "evict", "rmdir"}
  PROVE  SweepInv'
<1>1. ScanOf(retention[s], q)
  BY DEF ScanOf
<1> QED BY <1>1, ScanGoes

LEMMA OtherStepsScan ==
  ASSUME StoreInv, SweepInv, NEW s \in Server,
         \/ \E a \in Artifact, size \in shelf.sizes : Put(s, a, size)
         \/ OpenFile(s) \/ WriteFile(s) \/ OpenSidecar(s) \/ EndSweep(s) \/ StoreDies(s)
         \/ \E a \in Artifact : GetRemembered(s, a) \/ GetFromDisk(s, a)
         \/ ReadFile(s) \/ ReadSidecar(s)
  PROVE  SweepInv'
<1>1. PICK r : r = stores[s]
  OBVIOUS
<1>2. r = Fields(r)
  BY <1>1 DEF StoreInv, ProcessInv, IsStore
<1> DEFINE Outside(q) == q.at \notin {"list", "stat", "evict", "rmdir"}
<1>3. \A last, answer : Outside(Resting(last, answer)) /\ Outside([Resting(last, answer) EXCEPT !.at = "read"])
  BY DEF Resting
<1>4. Outside(Throws(s))
  BY <1>3 DEF Throws
<1>5. SUFFICES UNCHANGED <<shelf, retention>> /\ \E q : Outside(q) /\ stores' = [stores EXCEPT ![s] = q]
  BY OutsideSweepScans
<1>6. ASSUME NEW a \in Artifact, NEW size \in shelf.sizes, Put(s, a, size)
      PROVE  UNCHANGED <<shelf, retention>> /\ \E q : Outside(q) /\ stores' = [stores EXCEPT ![s] = q]
  <2>1. PICK q : q = [Resting(stores[s].last, None) EXCEPT !.at = "file", !.artifact = a,
                                                           !.content = [text |-> limits.puts, size |-> size]]
    OBVIOUS
  <2>2. q.at = "file"
    BY <2>1 DEF Resting
  <2> QED BY <1>6, <2>1, <2>2 DEF Put, Goes
<1>7. ASSUME OpenFile(s) \/ WriteFile(s) \/ OpenSidecar(s)
      PROVE  UNCHANGED <<shelf, retention>> /\ \E q : Outside(q) /\ stores' = [stores EXCEPT ![s] = q]
  <2>1. /\ UNCHANGED <<shelf, retention>>
        /\ \/ Goes(s, Throws(s))
           \/ Goes(s, [r EXCEPT !.at = "bytes", !.attached = TRUE])
           \/ Goes(s, [r EXCEPT !.at = "sidecar", !.attached = FALSE])
           \/ Goes(s, [r EXCEPT !.at = "type", !.attached = TRUE])
    BY <1>1, <1>7 DEF OpenFile, WriteFile, OpenSidecar, OnlyStoresMove
  <2>2. /\ Outside([r EXCEPT !.at = "bytes", !.attached = TRUE])
        /\ Outside([r EXCEPT !.at = "sidecar", !.attached = FALSE])
        /\ Outside([r EXCEPT !.at = "type", !.attached = TRUE])
    BY <1>2 DEF Fields
  <2> HIDE DEF Outside
  <2> QED BY <1>4, <2>1, <2>2 DEF Goes
<1>8. ASSUME EndSweep(s) \/ StoreDies(s) \/ ReadSidecar(s) \/ \E a \in Artifact : GetRemembered(s, a) \/ GetFromDisk(s, a)
      PROVE  UNCHANGED <<shelf, retention>> /\ \E q : Outside(q) /\ stores' = [stores EXCEPT ![s] = q]
  <2>1. UNCHANGED <<shelf, retention>>
    BY <1>8 DEF EndSweep, StoreDies, ReadSidecar, GetRemembered, GetFromDisk, OnlyReads, OnlyStoresMove
  <2>2. CASE EndSweep(s) \/ StoreDies(s) \/ ReadSidecar(s) \/ \E a \in Artifact : GetRemembered(s, a)
    <3>1. PICK last, answer : stores' = [stores EXCEPT ![s] = Resting(last, answer)]
      BY <2>2 DEF EndSweep, StoreDies, ReadSidecar, GetRemembered, Goes
    <3> QED BY <1>3, <2>1, <3>1
  <2>3. ASSUME NEW a \in Artifact, GetFromDisk(s, a)
        PROVE  \E q : Outside(q) /\ stores' = [stores EXCEPT ![s] = q]
    <3>1. PICK q : /\ stores' = [stores EXCEPT ![s] = q]
                   /\ \/ q = Resting(stores[s].last, [Told(s, a, Missing) EXCEPT !.apart = TRUE])
                      \/ q = [Resting(stores[s].last, None) EXCEPT !.at = "read", !.artifact = a]
      BY <2>3 DEF GetFromDisk, Goes
    <3>2. Outside([Resting(stores[s].last, None) EXCEPT !.at = "read", !.artifact = a])
      BY DEF Resting
    <3> HIDE DEF Outside
    <3> QED BY <1>3, <3>1, <3>2
  <2> QED BY <1>8, <2>1, <2>2, <2>3
<1>9. ASSUME ReadFile(s)
      PROVE  UNCHANGED <<shelf, retention>> /\ \E q : Outside(q) /\ stores' = [stores EXCEPT ![s] = q]
  <2>1. PICK q : /\ UNCHANGED <<shelf, retention>> /\ stores' = [stores EXCEPT ![s] = q]
                 /\ \/ \E answer : q = Resting(stores[s].last, answer)
                    \/ q = [r EXCEPT !.at = "readtype", !.content = OnDisk(stores[s].artifact)]
    BY <1>1, <1>9 DEF ReadFile, Goes, OnlyReads, OnlyStoresMove
  <2>2. Outside([r EXCEPT !.at = "readtype", !.content = OnDisk(stores[s].artifact)])
    BY <1>2 DEF Fields
  <2> HIDE DEF Outside
  <2> QED BY <1>3, <2>1, <2>2
<1> HIDE DEF Outside
<1> QED BY <1>6, <1>7, <1>8, <1>9

LEMMA UnchangedScans ==
  ASSUME SweepInv, UNCHANGED <<shelf, retention, stores>>
  PROVE  SweepInv'
<1>1. Server' = Server /\ Artifact' = Artifact
  BY DEF Server, Artifact
<1>2. FixedInv'
  BY <1>1 DEF SweepInv, FixedInv
<1>3. ASSUME NEW s \in Server PROVE ScanOf(retention[s], stores[s])'
  BY DEF SweepInv, ScanOf
<1> QED BY <1>1, <1>2, <1>3 DEF SweepInv

LEMMA SweepNextKeeps ==
  ASSUME StoreInv, SweepInv, StoreNext
  PROVE  SweepInv'
<1>1. ASSUME NEW s \in Server, NEW a \in Artifact, NEW size \in shelf.sizes, Put(s, a, size) PROVE SweepInv'
  BY <1>1, OtherStepsScan
<1>2. ASSUME NEW s \in Server, OpenFile(s) \/ WriteFile(s) \/ OpenSidecar(s) \/ WriteSidecar(s) PROVE SweepInv'
  BY <1>2, OtherStepsScan, WriteSidecarScans
<1>3. ASSUME NEW s \in Server, ListRuns(s) \/ Decide(s) \/ RemoveRun(s) \/ EndSweep(s) PROVE SweepInv'
  BY <1>3, ListRunsScans, DecideScans, RemoveRunScans, OtherStepsScan
<1>4. ASSUME NEW s \in Server, NEW i \in Id, StatRun(s, i) \/ RemoveFiles(s, i) PROVE SweepInv'
  BY <1>4, StatRunScans, RemoveFilesScans
<1>5. ASSUME NEW s \in Server, NEW a \in Artifact, GetRemembered(s, a) \/ GetFromDisk(s, a) PROVE SweepInv'
  BY <1>5, OtherStepsScan
<1>6. ASSUME NEW s \in Server, ReadFile(s) \/ ReadSidecar(s) \/ StoreDies(s) PROVE SweepInv'
  BY <1>6, OtherStepsScan
<1>7. CASE StoreTick
  BY <1>7, UnchangedScans DEF StoreTick
<1> QED BY <1>1, <1>2, <1>3, <1>4, <1>5, <1>6, <1>7 DEF StoreNext

LEMMA SweepInitHolds ==
  ASSUME StoreInit
  PROVE  SweepInv
<1>1. PICK suite \in StoreSuites : \E policies \in suite.policies :
        /\ shelf = [artifacts |-> suite.artifacts, sizes |-> suite.sizes]
        /\ retention = policies
        /\ stores = [s \in DOMAIN policies |-> Resting(None, None)]
  BY DEF StoreInit
<1>2. PICK policies \in suite.policies :
        /\ shelf = [artifacts |-> suite.artifacts, sizes |-> suite.sizes]
        /\ retention = policies
        /\ stores = [s \in DOMAIN policies |-> Resting(None, None)]
  BY <1>1
<1>3. Artifact = suite.artifacts /\ Server = DOMAIN policies
  BY <1>2 DEF Artifact, Server
<1>4. FixedInv
  BY <1>2, <1>3, StoreAssumption DEF FixedInv
<1>5. ASSUME NEW s \in Server PROVE ScanOf(retention[s], stores[s])
  <2>1. stores[s].at = "idle"
    BY <1>2, <1>3 DEF Resting
  <2> QED BY <2>1 DEF ScanOf
<1> QED BY <1>4, <1>5 DEF SweepInv

\* What a sweep takes from what it saw is older than all it leaves, what it
\* leaves is within the policy, and the newest it takes did not fit (store.ts,
\* sweep): for any number of processes and artifacts, any sizes and any policies.
THEOREM StoreSweepsTakeTheOldest == Spec => []SweepsTakeTheOldest
<1> DEFINE Inv == PillarInv /\ (stores = <<>> \/ SweepInv)
<1>1. Init => Inv
  BY PillarInvInductive, SweepInitHolds DEF Init, StoreRests
<1>2. Inv /\ [Next]_vars => Inv'
  <2> SUFFICES ASSUME Inv, [Next]_vars PROVE (stores = <<>> \/ SweepInv)'
    BY PillarInvInductive
  <2>1. CASE UNCHANGED svars
    BY <2>1, UnchangedScans DEF svars
  <2>2. CASE stores # <<>> /\ StoreNext
    BY <2>2, SweepNextKeeps DEF PillarInv
  <2> QED BY <2>1, <2>2 DEF Next, Finished, vars
<1>3. Inv => SweepsTakeTheOldest
  <2> SUFFICES ASSUME Inv, NEW s \in Server, stores[s].at \in {"evict", "rmdir"}
               PROVE  TakesTheOldest(retention[s], stores[s].scan, stores[s].last, stores[s].taken)
    BY DEF SweepsTakeTheOldest, TakesTheOldest, Fits
  <2>1. stores # <<>>
    BY DEF Server
  <2> QED BY <2>1 DEF SweepInv, ScanOf
<1> HIDE DEF Inv
<1> QED BY <1>1, <1>2, <1>3, PTL DEF Spec

-----------------------------------------------------------------------------
(* Greatest elements.                                                      *)

LEMMA GreatestNumber ==
  ASSUME NEW S, IsFiniteSet(S), S # {}, \A x \in S : x \in Nat
  PROVE  Max(S) \in S /\ \A x \in S : x <= Max(S)
<1> DEFINE Bad == {T \in SUBSET S : T # {} /\ ~ \E x \in T : \A y \in T : y <= x}
<1>1. Bad = {}
  <2> SUFFICES ASSUME Bad # {} PROVE FALSE
    OBVIOUS
  <2>1. PICK T \in Bad : \A V \in Bad : V \subseteq T => V = T
    <3>1. Bad \subseteq SUBSET S /\ Bad # {}
      OBVIOUS
    <3> HIDE DEF Bad
    <3> QED BY <3>1, MinimalSubset
  <2>2. PICK x \in T : TRUE
    OBVIOUS
  <2>3. PICK V : V = T \ {x}
    OBVIOUS
  <2>4. V \in SUBSET S /\ V \notin Bad
    BY <2>1, <2>2, <2>3
  <2>9. V # {}
    <3>1. \A y \in T : y <= y
      OBVIOUS
    <3> QED BY <2>2, <2>3, <3>1
  <2>5. PICK z \in V : \A y \in V : y <= z
    BY <2>4, <2>9
  <2>6. x \in Nat /\ z \in Nat /\ \A y \in T : y = x \/ y \in V
    BY <2>2, <2>3, <2>4
  <2>7. CASE z <= x
    <3>1. \A y \in T : y \in Nat
      OBVIOUS
    <3>2. \A y \in T : y <= x
      BY <2>4, <2>5, <2>6, <2>7, <3>1
    <3> QED BY <2>2, <3>2
  <2>8. CASE ~ (z <= x)
    <3>1. \A y \in T : y <= z
      BY <2>5, <2>6, <2>8
    <3>2. z \in T
      BY <2>3
    <3> QED BY <3>1, <3>2
  <2> QED BY <2>7, <2>8
<1>2. PICK x \in S : \A y \in S : y <= x
  BY <1>1
<1>3. \A y \in S : x >= y
  BY <1>2
<1> QED BY <1>3 DEF Max

-----------------------------------------------------------------------------
(* Coverage.                                                               *)

IsPython == covers.tool \in {"coveragepy", "pytest"}

\* What the call measured, as the analysis reads it.
Measured == IF IsPython THEN CoveragePyToIstanbul(covers.measured) ELSE covers.measured

MeasuredInv ==
  /\ covers.diff # None =>
       /\ \A l \in covers.diff : l = <<l[1], l[2]>>
       /\ None \notin [uncovered : SUBSET covers.diff, withoutCoverage : SUBSET {l[1] : l \in covers.diff}]
  /\ None \notin DOMAIN covers.measured
  /\ \A key \in DOMAIN covers.measured :
       IF IsPython THEN covers.measured[key].executed \cap covers.measured[key].missing = {}
       ELSE IsFiniteSet(covers.measured[key]) /\ \A s \in covers.measured[key] : s.hits \in Nat

\* A call that is done tells what the analysis of its own report says.
ToldInv ==
  /\ ccall = [at |-> ccall.at, selectors |-> ccall.selectors, unmatched |-> ccall.unmatched,
              coverage |-> ccall.coverage, code |-> ccall.code, told |-> ccall.told]
  /\ ccall.at \in {"tests", "report"} => ~ Analyses
  /\ ccall.at = "report" => ccall.coverage \in {None, covers.measured}
  /\ ccall.at = "done" /\ covers.diff # None /\ (Analyses \/ (ccall.code = 0 /\ ~ Inconclusive)) =>
       \/ ccall.told = UncoveredInDiff(covers.diff, Measured, TypedRoot)
       \/ DOMAIN covers.measured = {}

CoverageInv == ccall.at = "rests" \/ (MeasuredInv /\ ToldInv)

LEMMA CoverageInitHolds ==
  ASSUME CoverageInit
  PROVE  MeasuredInv /\ ToldInv
<1>1. PICK suite \in CoverageSuites : \E q \in suite.jobs, changed \in suite.changed, diff \in suite.diffs, measured \in suite.measured :
        Asked([tool |-> q.tool, surface |-> q.surface, allow |-> q.allow, roots |-> q.roots, root |-> q.root, relative |-> q.relative,
               changed |-> changed, mode |-> q.mode, diff |-> diff, exists |-> q.exists, measured |-> measured])
  BY DEF CoverageInit
<1>2. PICK q \in suite.jobs, changed \in suite.changed, diff \in suite.diffs, measured \in suite.measured :
        Asked([tool |-> q.tool, surface |-> q.surface, allow |-> q.allow, roots |-> q.roots, root |-> q.root, relative |-> q.relative,
               changed |-> changed, mode |-> q.mode, diff |-> diff, exists |-> q.exists, measured |-> measured])
  BY <1>1
<1>3. covers.tool = q.tool /\ covers.diff = diff /\ covers.measured = measured
  BY <1>2 DEF Asked
<1>4. MeasuredInv
  BY <1>3, CoverageAssumption DEF MeasuredInv, IsPython
<1>5. ToldInv
  BY <1>2 DEF Asked, ToldInv
<1> QED BY <1>4, <1>5

LEMMA CoverageNextKeeps ==
  ASSUME MeasuredInv, ToldInv, CoverageNext
  PROVE  MeasuredInv' /\ ToldInv' 
<1>1. covers' = covers
  BY DEF CoverageNext, CmdUncoveredInDiff, UncoveredInDiffTool, Analysed, CoverageRefused, CoverageNoop, StartScopedRun,
         TestsRun, CoverageFails, CoverageReported
<1>2. MeasuredInv'
  BY <1>1 DEF MeasuredInv, IsPython
<1>3. /\ Measured' = Measured /\ Analyses' = Analyses /\ TypedRoot' = TypedRoot
      /\ UncoveredInDiff(covers.diff, Measured, TypedRoot)' = UncoveredInDiff(covers.diff, Measured, TypedRoot)
  BY <1>1 DEF Measured, IsPython, Analyses, TypedRoot
<1>4. PICK k, next, answer : k = ccall /\ next = ccall' /\ answer = UncoveredInDiff(covers.diff, Measured, TypedRoot)
  OBVIOUS
<1>5. k = [at |-> k.at, selectors |-> k.selectors, unmatched |-> k.unmatched, coverage |-> k.coverage,
           code |-> k.code, told |-> k.told]
  BY <1>4 DEF ToldInv
<1> DEFINE Tells(q) ==
      /\ q = [at |-> q.at, selectors |-> q.selectors, unmatched |-> q.unmatched, coverage |-> q.coverage,
              code |-> q.code, told |-> q.told]
      /\ q.at \in {"tests", "report"} => ~ Analyses
      /\ q.at = "report" => q.coverage \in {None, covers.measured}
      /\ q.at = "done" /\ covers.diff # None
           /\ (Analyses \/ (q.code = 0 /\ ~ (covers.tool = "pytest" /\ IsInconclusiveExit(q.code)))) =>
             q.told = answer \/ DOMAIN covers.measured = {}
<1>6. Tells(next) => ToldInv'
  BY <1>1, <1>3, <1>4 DEF ToldInv, Inconclusive
<1>7. CASE Analyses /\ Analysed
  <2>1. next = [k EXCEPT !.at = "done", !.told = answer]
    BY <1>4, <1>7 DEF Analysed, Analyses, Measured, IsPython
  <2>2. Tells(next)
    BY <1>5, <1>7, <2>1
  <2> QED BY <1>2, <1>6, <2>2
<1>8. CASE \E over \in {"refused", "noop", "error"} : ccall' = [ccall EXCEPT !.at = over]
  <2>1. PICK over \in {"refused", "noop", "error"} : next = [k EXCEPT !.at = over]
    BY <1>4, <1>8
  <2>2. Tells(next)
    BY <1>5, <2>1
  <2> QED BY <1>2, <1>6, <2>2
<1>9. CASE StartScopedRun
  <2>1. PICK selectors, unmatched :
          next = [k EXCEPT !.at = "tests", !.selectors = selectors, !.unmatched = unmatched] /\ ~ Analyses
    BY <1>4, <1>9 DEF StartScopedRun
  <2>2. Tells(next)
    BY <1>5, <2>1
  <2> QED BY <1>2, <1>6, <2>2
<1>10. CASE TestsRun
  <2>1. ~ Analyses
    BY <1>10 DEF TestsRun, ToldInv
  <2>0. PICK code, written :
          next = [k EXCEPT !.at = "report", !.code = code, !.coverage = IF written THEN covers.measured ELSE None]
    BY <1>4, <1>10 DEF TestsRun
  <2>2. PICK coverage \in {None, covers.measured} :
          next = [k EXCEPT !.at = "report", !.code = code, !.coverage = coverage]
    BY <2>0
  <2>3. Tells(next)
    BY <1>5, <2>1, <2>2
  <2> QED BY <1>2, <1>6, <2>3
<1>11. CASE CoverageReported
  <2>1. k.at = "report" /\ ~ Analyses /\ k.coverage \in {None, covers.measured}
    BY <1>4, <1>11 DEF CoverageReported, ToldInv
  <2>2. PICK coverage : coverage = IF k.coverage = None THEN <<>>
                                   ELSE IF covers.tool = "pytest" THEN CoveragePyToIstanbul(k.coverage) ELSE k.coverage
    OBVIOUS
  <2>3. PICK said : said = IF covers.diff # None /\ (covers.tool = "pytest" => ~ Inconclusive /\ coverage # <<>>)
                           THEN UncoveredInDiff(covers.diff, coverage, TypedRoot) ELSE None
    OBVIOUS
  <2>4. next = [k EXCEPT !.at = "done", !.told = said]
    BY <1>4, <1>11, <2>2, <2>3 DEF CoverageReported
  <2>5. k.coverage = None => Inconclusive
    BY <1>4, <1>11 DEF CoverageReported
  <2>6. k.code = 0 /\ covers.diff # None => said = answer \/ DOMAIN covers.measured = {}
    <3> SUFFICES ASSUME k.code = 0, covers.diff # None, DOMAIN covers.measured # {} PROVE said = answer
      OBVIOUS
    <3>1. ~ Inconclusive /\ k.coverage = covers.measured
      BY <1>4, <2>1, <2>5 DEF Inconclusive, IsInconclusiveExit
    <3>2. coverage = Measured
      BY <2>1, <2>2, <2>5, <3>1 DEF Measured, IsPython, Analyses
    <3>3. covers.tool = "pytest" => DOMAIN coverage # {}
      BY <2>2, <2>5, <3>1 DEF CoveragePyToIstanbul
    <3>4. DOMAIN <<>> = {}
      OBVIOUS
    <3>5. covers.tool = "pytest" => coverage # <<>>
      BY <3>3, <3>4
    <3> QED BY <1>4, <2>3, <3>1, <3>2, <3>5
  <2>7. Tells(next)
    BY <1>5, <2>1, <2>4, <2>6
  <2> QED BY <1>2, <1>6, <2>7
<1> QED BY <1>7, <1>8, <1>9, <1>10, <1>11 DEF CoverageNext, CmdUncoveredInDiff, UncoveredInDiffTool, CoverageRefused,
           CoverageNoop, CoverageFails

\* The key a file of the diff is looked up by is the one it has under the root.
LEMMA OwnKeyIsMatched ==
  ASSUME MeasuredInv, NEW p, OwnKey(p) \in DOMAIN covers.measured, Decided(p)
  PROVE  MatchCoverageKey(p, DOMAIN Measured, TypedRoot) = OwnKey(p) /\ OwnKey(p) # None
<1>1. DOMAIN Measured = DOMAIN covers.measured
  BY DEF Measured, CoveragePyToIstanbul
<1>2. OwnKey(p) # None
  BY DEF MeasuredInv
<1>3. OwnKey(p) = [root |-> covers.root, path |-> p] \/ OwnKey(p) = [root |-> None, path |-> p]
  BY DEF OwnKey
<1>4. CASE TypedRoot # None
  <2>1. TypedRoot = covers.root
    BY <1>4 DEF TypedRoot
  <2> QED BY <1>1, <1>2, <1>4, <2>1 DEF OwnKey, MatchCoverageKey
<1>5. CASE TypedRoot = None /\ OwnKey(p).root = None
  <2>1. OwnKey(p) = [root |-> None, path |-> p]
    BY <1>3, <1>5
  <2> QED BY <1>1, <1>2, <1>5, <2>1 DEF MatchCoverageKey
<1>6. CASE /\ TypedRoot = None /\ [root |-> None, path |-> p] \notin DOMAIN covers.measured
           /\ {k \in DOMAIN covers.measured : EndsWith(k, p)} = {OwnKey(p)}
  <2>1. PICK suffix : suffix = {k \in DOMAIN covers.measured : EndsWith(k, p)}
    OBVIOUS
  <2>2. suffix = {OwnKey(p)}
    BY <1>6, <2>1
  <2>3. Cardinality(suffix) = 1
    BY <2>2, FS_Singleton
  <2>4. (CHOOSE k \in suffix : TRUE) = OwnKey(p)
    BY <2>2
  <2>5. MatchCoverageKey(p, DOMAIN covers.measured, None)
          = IF Cardinality(suffix) = 1 THEN CHOOSE k \in suffix : TRUE ELSE None
    BY <1>6, <2>1 DEF MatchCoverageKey
  <2> QED BY <1>1, <1>2, <1>6, <2>3, <2>4, <2>5
<1> QED BY <1>4, <1>5, <1>6 DEF Decided

\* A line that was found and left unhit counts no hit.
LEMMA UnhitIsUncovered ==
  ASSUME MeasuredInv, NEW p, NEW key \in DOMAIN covers.measured, NEW line \in Unhit(p, key), NEW lines, line \in lines
  PROVE  line \in UncoveredNewLines(Measured[key], lines).uncovered
<1> DEFINE statements == Measured[key]
           here == {s.hits : s \in {s \in statements : s.line = line}}
<1>1. (\E s \in statements : s.line = line) /\ here = {0}
  <2>1. CASE IsPython
    <3>1. PICK file : file = covers.measured[key]
      OBVIOUS
    <3>2. line \in file.missing /\ line \notin file.executed
      BY <2>1, <3>1 DEF Unhit, IsPython, MeasuredInv
    <3>3. statements = {[n |-> l, line |-> l, hits |-> 1] : l \in file.executed}
                       \cup {[n |-> l, line |-> l, hits |-> 0] : l \in file.missing}
      BY <2>1, <3>1 DEF Measured, CoveragePyToIstanbul, FileCoverageFromCoveragePy
    <3>4. \A s \in statements : s.line = line => s.hits = 0
      BY <3>2, <3>3
    <3>6. [n |-> line, line |-> line, hits |-> 0] \in statements
      BY <3>2, <3>3
    <3>5. PICK s \in statements : s.line = line /\ s.hits = 0
      BY <3>6
    <3> HIDE DEF statements
    <3> QED BY <3>4, <3>5
  <2>2. CASE ~ IsPython
    <3>1. statements = covers.measured[key] /\ \A s \in statements : s.hits \in Nat
      BY <2>2 DEF Measured, MeasuredInv
    <3>2. /\ \E s \in statements : s.line = line
          /\ ~ \E s \in statements : s.line = line /\ s.hits > 0
      BY <2>2, <3>1 DEF Unhit, IsPython
    <3> HIDE DEF statements
    <3>3. \A s \in statements : s.line = line => s.hits = 0
      BY <3>1, <3>2
    <3> QED BY <3>2, <3>3
  <2> QED BY <2>1, <2>2
<1>2. Max(here) = 0
  <2>1. Max({0}) = 0
    BY DEF Max
  <2> HIDE DEF here
  <2> QED BY <1>1, <2>1
<1> QED BY <1>1, <1>2 DEF UncoveredNewLines, LineHitCounts

\* An analysis names lines and files of the diff.
LEMMA AnswerIsGiven ==
  ASSUME NEW diff, \A l \in diff : l = <<l[1], l[2]>>, NEW coverage, NEW root
  PROVE  UncoveredInDiff(diff, coverage, root) \in [uncovered : SUBSET diff, withoutCoverage : SUBSET {l[1] : l \in diff}]
<1> DEFINE Paths == {l[1] : l \in diff}
           Key(p) == MatchCoverageKey(p, DOMAIN coverage, root)
           Added(p) == {l[2] : l \in {l \in diff : l[1] = p}}
           Matched == {p \in Paths : Key(p) # None}
           Lines(p) == UncoveredNewLines(coverage[Key(p)], Added(p)).uncovered
           Of(p) == {<<p, l>> : l \in Lines(p)}
<1>1. UncoveredInDiff(diff, coverage, root) = [uncovered |-> UNION {Of(p) : p \in Matched}, withoutCoverage |-> Paths \ Matched]
  BY DEF UncoveredInDiff
<1>2. \A p : Lines(p) \subseteq Added(p)
  BY DEF UncoveredNewLines
<1>3. \A p : \A n \in Added(p) : <<p, n>> \in diff
  OBVIOUS
<1> HIDE DEF Added, Lines
<1>4. \A p : Of(p) \subseteq diff
  BY <1>2, <1>3
<1> HIDE DEF Of, Matched
<1>5. UNION {Of(p) : p \in Matched} \subseteq diff
  BY <1>4
<1> QED BY <1>1, <1>5

\* Where a command exits with 0 no line the diff adds is left unhit (uncovered.ts,
\* report.ts, coveragepy.ts, run.ts): whatever the paths, the diff and the report.
THEOREM CoverageOkMeansHit == Spec => []OkMeansHit
<1>1. Init => CoverageInv
  BY CoverageInitHolds DEF Init, CoverageRests, CoverageInv
<1>2. CoverageInv /\ [Next]_vars => CoverageInv'
  <2> SUFFICES ASSUME CoverageInv, [Next]_vars PROVE CoverageInv'
    OBVIOUS
  <2>1. CASE UNCHANGED cvars
    BY <2>1 DEF cvars, CoverageInv, MeasuredInv, IsPython, ToldInv, Measured, Analyses, Inconclusive, TypedRoot
  <2>2. CASE ccall.at # "rests" /\ CoverageNext
    BY <2>2, CoverageNextKeeps DEF CoverageInv
  <2> QED BY <2>1, <2>2 DEF Next, Finished, vars
<1>3. CoverageInv => OkMeansHit
  <2> SUFFICES ASSUME CoverageInv, ExitsZero, covers.diff # None, NEW l \in covers.diff,
                      OwnKey(l[1]) \in DOMAIN covers.measured, Decided(l[1]), l[2] \in Unhit(l[1], OwnKey(l[1]))
               PROVE  FALSE
    BY DEF OkMeansHit
  <2>1. MeasuredInv /\ ToldInv /\ ccall.at = "done"
    BY DEF ExitsZero, CoverageInv
  <2>2. ccall.told = UncoveredInDiff(covers.diff, Measured, TypedRoot)
    BY <2>1 DEF ToldInv, ExitsZero
  <2>3. PICK p, n, key : p = l[1] /\ n = l[2] /\ key = OwnKey(p)
    OBVIOUS
  <2>4. l = <<p, n>>
    BY <2>1, <2>3 DEF MeasuredInv
  <2>5. MatchCoverageKey(p, DOMAIN Measured, TypedRoot) = key /\ key # None
    BY <2>1, <2>3, OwnKeyIsMatched
  <2>6. PICK lines : lines = {x[2] : x \in {x \in covers.diff : x[1] = p}}
    OBVIOUS
  <2>7. n \in lines
    BY <2>3, <2>6
  <2>8. n \in UncoveredNewLines(Measured[key], lines).uncovered
    BY <2>1, <2>3, <2>7, UnhitIsUncovered
  <2>9. l \in ccall.told.uncovered
    <3> DEFINE Added(q) == {x[2] : x \in {x \in covers.diff : x[1] = q}}
               Key(q) == MatchCoverageKey(q, DOMAIN Measured, TypedRoot)
               Of(q) == {<<q, m>> : m \in UncoveredNewLines(Measured[Key(q)], Added(q)).uncovered}
    <3>1. ccall.told.uncovered = UNION {Of(q) : q \in {q \in {x[1] : x \in covers.diff} : Key(q) # None}}
      BY <2>2 DEF UncoveredInDiff
    <3>2. p \in {q \in {x[1] : x \in covers.diff} : Key(q) # None}
      BY <2>3, <2>5
    <3>3. l \in Of(p)
      BY <2>4, <2>5, <2>6, <2>8
    <3> HIDE DEF Of, Key
    <3> QED BY <3>1, <3>2, <3>3
  <2>10. ccall.told # None
    BY <2>1, <2>2, AnswerIsGiven DEF MeasuredInv
  <2> QED BY <2>9, <2>10 DEF ExitsZero
<1> QED BY <1>1, <1>2, <1>3, PTL DEF Spec

-----------------------------------------------------------------------------
(* The dependencies a diff touches.                                        *)

\* How far what a classifier knows of its place goes with the place of the side
\* that moved last, as long as the sides go through the file together.
FollowsSide(c, r) ==
  /\ c.kind = "package.json" =>
       /\ r.shown => c.block /\ r.at = "dependencies"
       /\ r.doubt = {} /\ c.block => r.at = "dependencies"
  /\ c.kind = "pyproject.toml" =>
       /\ c.section = IF r.shown THEN r.at ELSE ""
       /\ c.array = None <=> r.array = None
       /\ r.array = "requirements" /\ (r.shown \/ r.at = "project") => c.array = "wanted"
       /\ r.doubt = {} /\ c.array = "wanted" => r.array = "requirements"
  /\ c.kind = "lock" =>
       /\ r.touched => c.touched
       /\ r.at = "metadata" => r.block = {} /\ (r.doubt = {} => c.name = None)
       /\ r.at # "metadata" =>
            /\ c.touched => r.touched
            /\ r.block = IF c.name = None THEN {} ELSE {c.name}

Follows(c, r) ==
  /\ c.kind # "lock" => c.name = None
  /\ "sides" \notin r.doubt => FollowsSide(c, r)

KindsOf(eco) ==
  CASE eco = "npm"  -> {"package.json"}
    [] eco = "PyPI" -> {"pyproject.toml", "requirements.txt", "lock"}
    [] OTHER        -> {"Gemfile", "Gemfile.lock"}

Spots == {None, "top", "dependencies", "other", "project", "optional", "poetry", "tool", "block", "metadata"}

IsAway(x) ==
  x # None =>
    /\ x.side \in {"-", "+"}
    /\ x.at \in Spots /\ x.array \in {None, "requirements", "other"} /\ x.shown \in BOOLEAN
    /\ x.block \in SUBSET Names /\ x.touched \in BOOLEAN

IsPlace(r) ==
  /\ r = [at |-> r.at, array |-> r.array, shown |-> r.shown, block |-> r.block, touched |-> r.touched,
          away |-> r.away, changed |-> r.changed, hidden |-> r.hidden, doubt |-> r.doubt]
  /\ r.at \in Spots /\ IsAway(r.away)
  /\ r.array \in {None, "requirements", "other"}
  /\ r.shown \in BOOLEAN /\ r.touched \in BOOLEAN
  /\ r.block \in SUBSET Names /\ r.changed \in SUBSET Names /\ r.hidden \in SUBSET Names
  /\ r.doubt \in SUBSET {"inline", "section", "metadata", "sides"}

JobInv ==
  /\ None \notin Names /\ None \notin Classifiers(Spellings(Names))
  /\ job.surface \in {"audit", "audit_dependency"} => ~ job.diff

WalkInv ==
  /\ walk = [c |-> walk.c, found |-> walk.found, lines |-> walk.lines]
  /\ walk.c # None => /\ walk.c \in Classifiers(Spellings(Names)) /\ walk.c.kind \in KindsOf(job.eco)
                      /\ Follows(walk.c, real)

\* What the classifiers found and what the diff changes, up to the places
\* where the diff cannot be read so.
FoundInv ==
  /\ "sides" \notin real.doubt => Spelled(real.changed) \subseteq Found
  /\ real.doubt = {} => Found \subseteq Spelled(real.changed \cup real.hidden)

AuditInv ==
  /\ JobInv /\ IsPlace(real) /\ WalkInv /\ FoundInv
  /\ names # None /\ job.diff /\ "sides" \notin real.doubt => Spelled(real.changed) \subseteq names

AuditPillarInv == (job = None /\ Unread /\ real = Nowhere /\ names = None) \/ AuditInv

\* What a line of the diff makes of a classifier and of the place.
LineReads(d, q) ==
  /\ d \in Classifiers(Spellings(Names)) /\ d.kind = walk.c.kind /\ IsPlace(q) /\ Follows(d, q)
  /\ real.doubt \subseteq q.doubt /\ real.changed \subseteq q.changed /\ real.hidden \subseteq q.hidden
  /\ Flush(walk.c).names \subseteq Flush(d).names
  /\ "sides" \notin q.doubt =>
       \A n \in q.changed : n \in real.changed \/ MatchName(job.eco, n) \in Flush(d).names
  /\ q.doubt = {} =>
       \A x \in Flush(d).names :
         x \in Flush(walk.c).names \/ \E n \in q.changed \cup q.hidden : x = MatchName(job.eco, n)

AtLine == JobInv /\ IsPlace(real) /\ WalkInv /\ walk.c # None /\ "sides" \notin real.doubt

LEMMA FlushOfNoName ==
  ASSUME NEW c \in Classifiers(Spellings(Names)), c.name = None
  PROVE  Flush(c).names = c.names
BY DEF Flush, Classifiers

\* A line of package.json.
LEMMA NpmLine ==
  ASSUME AtLine, walk.c.kind = "package.json", NEW s \in NpmSteps(real), NEW changed \in BOOLEAN
  PROVE  LineReads(Feed(walk.c, changed, s.line), Declared(real, s, changed))
<1>1. PICK c, r : c = walk.c /\ r = real
  OBVIOUS
<1>2. /\ c \in Classifiers(Spellings(Names)) /\ c.kind = "package.json" /\ IsPlace(r) /\ Follows(c, r) /\ "sides" \notin r.doubt /\ None \notin Names
      /\ \A n : MatchName(job.eco, n) = n
  BY <1>1 DEF AtLine, WalkInv, JobInv, KindsOf, MatchName
<1>3. PICK l, to, ds : s = Step(l, to, ds)
  BY DEF NpmSteps, Step
<1>4. PICK d : d = NpmFeed(c, changed, l)
  OBVIOUS
<1>5. Feed(walk.c, changed, s.line) = d
  BY <1>1, <1>2, <1>3, <1>4 DEF Feed, Step
<1>6. PICK q : q = Declared(real, s, changed)
  OBVIOUS
<1> SUFFICES LineReads(d, q)
  BY <1>5, <1>6
<1>7. q = [to EXCEPT !.touched = FALSE,
                     !.changed = IF real.shown \/ real.at = "project" THEN @ \cup (IF changed THEN ds ELSE {}) ELSE @,
                     !.hidden  = IF real.shown \/ real.at = "project" THEN @ ELSE @ \cup (IF changed THEN ds ELSE {})]
  BY <1>1, <1>2, <1>3, <1>6 DEF Declared, Step
<1>8. ASSUME ds \in SUBSET Names, IsPlace(to), to.doubt \in {r.doubt, r.doubt \cup {"inline"}},
             to.changed = r.changed, to.hidden = r.hidden,
             d = [c EXCEPT !.block = d.block, !.names = d.names], d.block \in BOOLEAN,
             d.names \in SUBSET Spellings(Names), c.names \subseteq d.names,
             to.shown => d.block /\ to.at = "dependencies",
             to.doubt = {} /\ d.block => to.at = "dependencies",
             changed /\ r.shown => ds \subseteq d.names,
             to.doubt = {} => d.names \subseteq c.names \cup (IF changed THEN ds ELSE {}),
             r.at = "project" => ds = {}
      PROVE  LineReads(d, q)
  <2>1. d \in Classifiers(Spellings(Names)) /\ d.kind = "package.json" /\ d.name = None
    BY <1>2, <1>8 DEF Classifiers, Follows, FollowsSide
  <2>2. Flush(d).names = d.names /\ Flush(c).names = c.names
    BY <1>2, <2>1, FlushOfNoName DEF Follows, FollowsSide
  <2>3. /\ IsPlace(q) /\ q.at = to.at /\ q.shown = to.shown /\ q.doubt = to.doubt
        /\ q.changed = r.changed \cup (IF (r.shown \/ r.at = "project") /\ changed THEN ds ELSE {})
        /\ q.hidden = r.hidden \cup (IF ~ (r.shown \/ r.at = "project") /\ changed THEN ds ELSE {})
    BY <1>1, <1>2, <1>7, <1>8 DEF IsPlace, Spots
  <2>4. Follows(d, q)
    BY <1>8, <2>1, <2>3 DEF Follows, FollowsSide
  <2> QED BY <1>1, <1>2, <1>8, <2>1, <2>2, <2>3, <2>4 DEF LineReads
<1>16. \/ l = [Plain EXCEPT !.dep = TRUE, !.key = Word("dependencies")]
           /\ to = [r EXCEPT !.at = "dependencies", !.shown = TRUE] /\ ds = {} /\ r.at = "top"
       \/ l = [Plain EXCEPT !.key = Word("scripts")] /\ to = [r EXCEPT !.at = "other"] /\ ds = {} /\ r.at = "top"
       \/ l = [Plain EXCEPT !.dep = TRUE, !.key = Word("dependencies")]
           /\ to = [r EXCEPT !.doubt = r.doubt \cup {"inline"}] /\ ds = {}
       \/ \E n \in Names : l = [Plain EXCEPT !.key = n] /\ to = r /\ ds = {n} /\ r.at = "dependencies"
       \/ l = [Plain EXCEPT !.closes = TRUE] /\ to = [r EXCEPT !.at = "top", !.shown = FALSE] /\ ds = {}
       \/ \E k \in Names \cup {Word("build")} : l = [Plain EXCEPT !.key = k] /\ to = r /\ ds = {} /\ r.at # "dependencies"
       \/ l = [Plain EXCEPT !.closes = TRUE] /\ to = [r EXCEPT !.at = "top"] /\ ds = {} /\ r.at # "dependencies"
  <2>1. CASE r.at = "top"
    BY <1>1, <1>3, <2>1, Zenon DEF NpmSteps, Step, ClosingLine
  <2>2. CASE r.at = "dependencies"
    BY <1>1, <1>3, <2>2, Zenon DEF NpmSteps, Step, ClosingLine
  <2>3. CASE r.at # "top" /\ r.at # "dependencies"
    BY <1>1, <1>3, <2>3, Zenon DEF NpmSteps, Step, ClosingLine
  <2> QED BY <2>1, <2>2, <2>3
<1>17. /\ d = [c EXCEPT !.block = d.block, !.names = d.names] /\ d.block \in BOOLEAN
       /\ ~ c.block => d.names = c.names /\ d.block = l.dep
       /\ c.block /\ l.closes => d.names = c.names /\ ~ d.block
       /\ c.block /\ ~ l.closes => d.block /\ (d.names = IF changed /\ l.key # None THEN c.names \cup {l.key} ELSE c.names)
  <2>1. l.dep \in BOOLEAN /\ l.closes \in BOOLEAN
    BY <1>16 DEF Plain
  <2> QED BY <1>2, <1>4, <2>1 DEF NpmFeed, Classifiers
<1>19. d.names \in SUBSET Spellings(Names) /\ c.names \subseteq d.names
  <2>1. l.key = None \/ l.key \in Spellings(Names)
    BY <1>16 DEF Plain, Spellings
  <2>2. d.names = c.names \/ (l.key # None /\ d.names = c.names \cup {l.key})
    BY <1>4 DEF NpmFeed, Classifiers
  <2>3. c.names \in SUBSET Spellings(Names)
    BY <1>2 DEF Classifiers
  <2> QED BY <2>1, <2>2, <2>3
<1>9. CASE l = [Plain EXCEPT !.dep = TRUE, !.key = Word("dependencies")]
           /\ to = [r EXCEPT !.at = "dependencies", !.shown = TRUE] /\ ds = {} /\ r.at = "top"
  <2>1. l.dep = TRUE /\ l.closes = FALSE /\ l.key = Word("dependencies")
    BY <1>9 DEF Plain
  <2>2. IsPlace(to)
    BY <1>2, <1>9 DEF IsPlace, Spots
  <2>3. /\ to.doubt \in {r.doubt, r.doubt \cup {"inline"}} /\ to.changed = r.changed /\ to.hidden = r.hidden
        /\ ds \in SUBSET Names /\ (r.at = "project" => ds = {})
    BY <1>2, <1>9 DEF IsPlace, Spots
  <2>4. /\ to.shown => d.block /\ to.at = "dependencies"
        /\ to.doubt = {} /\ d.block => to.at = "dependencies"
    BY <1>2, <1>17, <2>1, <1>9 DEF Follows, FollowsSide, IsPlace, Spots
  <2>5. /\ changed /\ r.shown => ds \subseteq d.names
        /\ to.doubt = {} => d.names \subseteq c.names \cup (IF changed THEN ds ELSE {})
    BY <1>2, <1>17, <2>1, <1>9 DEF Follows, FollowsSide, IsPlace, Spots
  <2> QED BY <1>8, <1>17, <1>19, <2>2, <2>3, <2>4, <2>5
<1>10. CASE l = [Plain EXCEPT !.key = Word("scripts")] /\ to = [r EXCEPT !.at = "other"] /\ ds = {} /\ r.at = "top"
  <2>1. l.dep = FALSE /\ l.closes = FALSE /\ l.key = Word("scripts")
    BY <1>10 DEF Plain
  <2>2. IsPlace(to)
    BY <1>2, <1>10 DEF IsPlace, Spots
  <2>3. /\ to.doubt \in {r.doubt, r.doubt \cup {"inline"}} /\ to.changed = r.changed /\ to.hidden = r.hidden
        /\ ds \in SUBSET Names /\ (r.at = "project" => ds = {})
    BY <1>2, <1>10 DEF IsPlace, Spots
  <2>4. /\ to.shown => d.block /\ to.at = "dependencies"
        /\ to.doubt = {} /\ d.block => to.at = "dependencies"
    BY <1>2, <1>17, <2>1, <1>10 DEF Follows, FollowsSide, IsPlace, Spots
  <2>5. /\ changed /\ r.shown => ds \subseteq d.names
        /\ to.doubt = {} => d.names \subseteq c.names \cup (IF changed THEN ds ELSE {})
    BY <1>2, <1>17, <2>1, <1>10 DEF Follows, FollowsSide, IsPlace, Spots
  <2> QED BY <1>8, <1>17, <1>19, <2>2, <2>3, <2>4, <2>5
<1>11. CASE l = [Plain EXCEPT !.dep = TRUE, !.key = Word("dependencies")]
           /\ to = [r EXCEPT !.doubt = r.doubt \cup {"inline"}] /\ ds = {}
  <2>1. l.dep = TRUE /\ l.closes = FALSE /\ l.key = Word("dependencies")
    BY <1>11 DEF Plain
  <2>2. IsPlace(to)
    BY <1>2, <1>11 DEF IsPlace, Spots
  <2>3. /\ to.doubt \in {r.doubt, r.doubt \cup {"inline"}} /\ to.changed = r.changed /\ to.hidden = r.hidden
        /\ ds \in SUBSET Names /\ (r.at = "project" => ds = {})
    BY <1>2, <1>11 DEF IsPlace, Spots
  <2>4. /\ to.shown => d.block /\ to.at = "dependencies"
        /\ to.doubt = {} /\ d.block => to.at = "dependencies"
    BY <1>2, <1>17, <2>1, <1>11 DEF Follows, FollowsSide, IsPlace, Spots
  <2>5. /\ changed /\ r.shown => ds \subseteq d.names
        /\ to.doubt = {} => d.names \subseteq c.names \cup (IF changed THEN ds ELSE {})
    BY <1>2, <1>17, <2>1, <1>11 DEF Follows, FollowsSide, IsPlace, Spots
  <2> QED BY <1>8, <1>17, <1>19, <2>2, <2>3, <2>4, <2>5
<1>12. ASSUME NEW n \in Names, l = [Plain EXCEPT !.key = n], to = r, ds = {n}, r.at = "dependencies"
       PROVE  LineReads(d, q)
  <2>1. l.dep = FALSE /\ l.closes = FALSE /\ l.key = n /\ n # None
    BY <1>12, <1>2 DEF Plain
  <2>2. IsPlace(to)
    BY <1>2, <1>12 DEF IsPlace, Spots
  <2>3. /\ to.doubt \in {r.doubt, r.doubt \cup {"inline"}} /\ to.changed = r.changed /\ to.hidden = r.hidden
        /\ ds \in SUBSET Names /\ (r.at = "project" => ds = {})
    BY <1>2, <1>12 DEF IsPlace, Spots
  <2>4. /\ to.shown => d.block /\ to.at = "dependencies"
        /\ to.doubt = {} /\ d.block => to.at = "dependencies"
    BY <1>2, <1>17, <2>1, <1>12 DEF Follows, FollowsSide, IsPlace, Spots
  <2>5. /\ changed /\ r.shown => ds \subseteq d.names
        /\ to.doubt = {} => d.names \subseteq c.names \cup (IF changed THEN ds ELSE {})
    BY <1>2, <1>17, <2>1, <1>12 DEF Follows, FollowsSide, IsPlace, Spots
  <2> QED BY <1>8, <1>17, <1>19, <2>2, <2>3, <2>4, <2>5
<1>13. CASE l = [Plain EXCEPT !.closes = TRUE] /\ to = [r EXCEPT !.at = "top", !.shown = FALSE] /\ ds = {}
  <2>1. l.dep = FALSE /\ l.closes = TRUE /\ l.key = None
    BY <1>13 DEF Plain
  <2>2. IsPlace(to)
    BY <1>2, <1>13 DEF IsPlace, Spots
  <2>3. /\ to.doubt \in {r.doubt, r.doubt \cup {"inline"}} /\ to.changed = r.changed /\ to.hidden = r.hidden
        /\ ds \in SUBSET Names /\ (r.at = "project" => ds = {})
    BY <1>2, <1>13 DEF IsPlace, Spots
  <2>4. /\ to.shown => d.block /\ to.at = "dependencies"
        /\ to.doubt = {} /\ d.block => to.at = "dependencies"
    BY <1>2, <1>17, <2>1, <1>13 DEF Follows, FollowsSide, IsPlace, Spots
  <2>5. /\ changed /\ r.shown => ds \subseteq d.names
        /\ to.doubt = {} => d.names \subseteq c.names \cup (IF changed THEN ds ELSE {})
    BY <1>2, <1>17, <2>1, <1>13 DEF Follows, FollowsSide, IsPlace, Spots
  <2> QED BY <1>8, <1>17, <1>19, <2>2, <2>3, <2>4, <2>5
<1>14. ASSUME NEW k \in Names \cup {Word("build")}, l = [Plain EXCEPT !.key = k], to = r, ds = {}, r.at # "dependencies"
       PROVE  LineReads(d, q)
  <2>1. l.dep = FALSE /\ l.closes = FALSE /\ l.key = k
    BY <1>14 DEF Plain
  <2>2. IsPlace(to)
    BY <1>2, <1>14 DEF IsPlace, Spots
  <2>3. /\ to.doubt \in {r.doubt, r.doubt \cup {"inline"}} /\ to.changed = r.changed /\ to.hidden = r.hidden
        /\ ds \in SUBSET Names /\ (r.at = "project" => ds = {})
    BY <1>2, <1>14 DEF IsPlace, Spots
  <2>4. /\ to.shown => d.block /\ to.at = "dependencies"
        /\ to.doubt = {} /\ d.block => to.at = "dependencies"
    BY <1>2, <1>17, <2>1, <1>14 DEF Follows, FollowsSide, IsPlace, Spots
  <2>5. /\ changed /\ r.shown => ds \subseteq d.names
        /\ to.doubt = {} => d.names \subseteq c.names \cup (IF changed THEN ds ELSE {})
    BY <1>2, <1>17, <2>1, <1>14 DEF Follows, FollowsSide, IsPlace, Spots
  <2> QED BY <1>8, <1>17, <1>19, <2>2, <2>3, <2>4, <2>5
<1>15. CASE l = [Plain EXCEPT !.closes = TRUE] /\ to = [r EXCEPT !.at = "top"] /\ ds = {} /\ r.at # "dependencies"
  <2>1. l.dep = FALSE /\ l.closes = TRUE /\ l.key = None
    BY <1>15 DEF Plain
  <2>2. IsPlace(to)
    BY <1>2, <1>15 DEF IsPlace, Spots
  <2>3. /\ to.doubt \in {r.doubt, r.doubt \cup {"inline"}} /\ to.changed = r.changed /\ to.hidden = r.hidden
        /\ ds \in SUBSET Names /\ (r.at = "project" => ds = {})
    BY <1>2, <1>15 DEF IsPlace, Spots
  <2>4. /\ to.shown => d.block /\ to.at = "dependencies"
        /\ to.doubt = {} /\ d.block => to.at = "dependencies"
    BY <1>2, <1>17, <2>1, <1>15 DEF Follows, FollowsSide, IsPlace, Spots
  <2>5. /\ changed /\ r.shown => ds \subseteq d.names
        /\ to.doubt = {} => d.names \subseteq c.names \cup (IF changed THEN ds ELSE {})
    BY <1>2, <1>17, <2>1, <1>15 DEF Follows, FollowsSide, IsPlace, Spots
  <2> QED BY <1>8, <1>17, <1>19, <2>2, <2>3, <2>4, <2>5
<1> QED BY <1>9, <1>10, <1>11, <1>12, <1>13, <1>14, <1>15, <1>16

\* A line of a file whose lines declare by themselves.
LEMMA NamesRead ==
  ASSUME AtLine, walk.c.kind # "lock", NEW l, NEW to, NEW ds \in SUBSET Names, NEW changed \in BOOLEAN, NEW d,
         IsPlace(to), to.changed = real.changed, to.hidden = real.hidden, real.doubt \subseteq to.doubt,
         d \in Classifiers(Spellings(Names)), d.kind = walk.c.kind, Follows(d, to), walk.c.names \subseteq d.names,
         changed /\ (walk.c.kind \notin {"package.json", "pyproject.toml"} \/ real.shown \/ real.at = "project") =>
           \A n \in ds : MatchName(job.eco, n) \in d.names,
         to.doubt = {} =>
           \A x \in d.names : x \in walk.c.names \/ (changed /\ \E n \in ds : x = MatchName(job.eco, n))
  PROVE  LineReads(d, Declared(real, Step(l, to, ds), changed))
<1>1. PICK c, r, q : c = walk.c /\ r = real /\ q = Declared(real, Step(l, to, ds), changed)
  OBVIOUS
<1> DEFINE InSight == c.kind \notin {"package.json", "pyproject.toml"} \/ r.shown \/ r.at = "project"
<1>2. /\ IsPlace(q) /\ q.at = to.at /\ q.shown = to.shown /\ q.doubt = to.doubt /\ q.array = to.array
      /\ q.changed = r.changed \cup (IF InSight /\ changed THEN ds ELSE {})
      /\ q.hidden = r.hidden \cup (IF ~ InSight /\ changed THEN ds ELSE {})
  <2>1. q = [to EXCEPT !.touched = FALSE,
                       !.changed = IF InSight THEN @ \cup (IF changed THEN ds ELSE {}) ELSE @,
                       !.hidden  = IF InSight THEN @ ELSE @ \cup (IF changed THEN ds ELSE {})]
    BY <1>1 DEF Declared, Step
  <2>2. PICK seen, unseen : /\ seen = r.changed \cup (IF InSight /\ changed THEN ds ELSE {})
                           /\ unseen = r.hidden \cup (IF ~ InSight /\ changed THEN ds ELSE {})
    OBVIOUS
  <2>3. q = [to EXCEPT !.touched = FALSE, !.changed = seen, !.hidden = unseen]
    <3>1. seen = IF InSight THEN to.changed \cup (IF changed THEN ds ELSE {}) ELSE to.changed
      BY <1>1, <2>2
    <3>2. unseen = IF InSight THEN to.hidden ELSE to.hidden \cup (IF changed THEN ds ELSE {})
      BY <1>1, <2>2
    <3> QED BY <2>1, <3>1, <3>2
  <2>4. seen \in SUBSET Names /\ unseen \in SUBSET Names
    BY <1>1, <2>2 DEF IsPlace, Spots
  <2>5. /\ IsPlace(q) /\ q.at = to.at /\ q.shown = to.shown /\ q.doubt = to.doubt /\ q.array = to.array
        /\ q.changed = seen /\ q.hidden = unseen
    BY <2>3, <2>4 DEF IsPlace, Spots
  <2> QED BY <2>2, <2>5
<1>3. Follows(d, q)
  BY <1>2 DEF Follows, FollowsSide
<1>4. Flush(d).names = d.names /\ Flush(c).names = c.names
  <2>1. d.name = None /\ c.name = None /\ c \in Classifiers(Spellings(Names))
    BY <1>1 DEF AtLine, WalkInv, Follows
  <2> QED BY <2>1, FlushOfNoName
<1> QED BY <1>1, <1>2, <1>3, <1>4 DEF LineReads

\* A line of requirements.txt, Gemfile or Gemfile.lock.
LEMMA RowLine ==
  ASSUME AtLine, walk.c.kind \notin {"package.json", "pyproject.toml", "lock"},
         NEW s \in RowSteps(real), NEW changed \in BOOLEAN
  PROVE  LineReads(Feed(walk.c, changed, s.line), Declared(real, s, changed))
<1>1. PICK c, r : c = walk.c /\ r = real
  OBVIOUS
<1>2. /\ c \in Classifiers(Spellings(Names)) /\ c.kind \in KindsOf(job.eco) /\ IsPlace(r) /\ Follows(c, r) /\ "sides" \notin r.doubt
      /\ None \notin Names /\ c.kind \in {"requirements.txt", "Gemfile", "Gemfile.lock"}
  BY <1>1 DEF AtLine, WalkInv, JobInv, Classifiers
<1>3. PICK l, ds : s = Step(l, r, ds)
                   /\ ((l = Plain /\ ds = {}) \/ \E n \in Names : l = [Plain EXCEPT !.name = n] /\ ds = {n})
  BY <1>1 DEF RowSteps
<1>4. ds \in SUBSET Names /\ ((l.name = None /\ ds = {}) \/ (l.name \in Names /\ ds = {l.name}))
  BY <1>3 DEF Plain
<1>5. PICK d : d = Feed(c, changed, l)
  OBVIOUS
<1>6. \A n : MatchName(job.eco, n) = IF c.kind = "requirements.txt" THEN NormalizePypiName(n) ELSE n
  BY <1>2 DEF KindsOf, MatchName
<1>7. d = IF changed /\ l.name # None THEN [c EXCEPT !.names = c.names \cup {MatchName(job.eco, l.name)}] ELSE c
  BY <1>2, <1>5, <1>6 DEF Feed, RequirementsFeed, GemFeed
<1>8. \A n \in Names : MatchName(job.eco, n) \in Spellings(Names)
  BY DEF MatchName, Spellings
<1>9. /\ d \in Classifiers(Spellings(Names)) /\ d.kind = c.kind /\ d.name = c.name /\ c.names \subseteq d.names
      /\ d.names = IF changed /\ ds # {} THEN c.names \cup {MatchName(job.eco, l.name)} ELSE c.names
  BY <1>2, <1>4, <1>7, <1>8 DEF Classifiers
<1>10. Follows(d, r)
  BY <1>1, <1>2, <1>9 DEF Follows, FollowsSide
<1>11. LineReads(d, Declared(real, Step(l, r, ds), changed))
  <2>1. changed => \A n \in ds : MatchName(job.eco, n) \in d.names
    BY <1>4, <1>9
  <2>2. \A x \in d.names : x \in c.names \/ (changed /\ \E n \in ds : x = MatchName(job.eco, n))
    BY <1>4, <1>9
  <2> QED BY <1>1, <1>2, <1>4, <1>9, <1>10, <2>1, <2>2, NamesRead
<1>12. s.line = l
  BY <1>3 DEF Step
<1> QED BY <1>1, <1>3, <1>5, <1>11, <1>12

\* What a line of pyproject.toml comes to.
TakesLine(c, r, d, to, ds, w, n, changed) ==
  /\ ds \in SUBSET Names /\ IsPlace(to)
  /\ to.changed = r.changed /\ to.hidden = r.hidden /\ r.doubt \subseteq to.doubt
  /\ d = [c EXCEPT !.section = d.section, !.array = d.array, !.names = d.names]
  /\ d.section \in {"", "project", "optional", "poetry", "tool"} /\ d.array \in {"wanted", "other", None}
  /\ w => n \in Names
  /\ d.names = IF w THEN c.names \cup {NormalizePypiName(n)} ELSE c.names
  /\ changed /\ (r.shown \/ r.at = "project") => ds = {} \/ (w /\ ds = {n})
  /\ to.doubt = {} /\ w => changed /\ ds = {n}
  /\ d.section = IF to.shown THEN to.at ELSE ""
  /\ d.array = None <=> to.array = None
  /\ to.array = "requirements" /\ (to.shown \/ to.at = "project") => d.array = "wanted"
  /\ to.doubt = {} /\ d.array = "wanted" => to.array = "requirements"

\* A line of pyproject.toml.
LEMMA PyprojectLine ==
  ASSUME AtLine, walk.c.kind = "pyproject.toml", NEW s \in PyprojectSteps(real), NEW changed \in BOOLEAN
  PROVE  LineReads(Feed(walk.c, changed, s.line), Declared(real, s, changed))
<1>1. PICK c, r : c = walk.c /\ r = real
  OBVIOUS
<1>2. /\ c \in Classifiers(Spellings(Names)) /\ c.kind = "pyproject.toml" /\ IsPlace(r) /\ Follows(c, r) /\ "sides" \notin r.doubt
      /\ None \notin Names /\ \A n : MatchName(job.eco, n) = NormalizePypiName(n)
  BY <1>1 DEF AtLine, WalkInv, JobInv, KindsOf, MatchName
<1>3. None \notin {"", "project", "optional", "poetry", "tool", "dependencies", "classifiers", "wanted", "other",
                   "requirements"}
  BY AuditAssumption
<1>4. /\ c.kind = "pyproject.toml" /\ c.name = None /\ c.names \in SUBSET Spellings(Names)
      /\ c.array \in {"wanted", "other", None} /\ c.section \in {"", "project", "optional", "poetry", "tool"}
      /\ c.section = (IF r.shown THEN r.at ELSE "")
      /\ (c.array = None) <=> (r.array = None)
      /\ r.array = "requirements" /\ (r.shown \/ r.at = "project") => c.array = "wanted"
      /\ r.doubt = {} /\ c.array = "wanted" => r.array = "requirements"
  BY <1>2 DEF Classifiers, Follows, FollowsSide
<1>5. ASSUME NEW l, NEW to, NEW ds, NEW d, NEW n, NEW w \in BOOLEAN,
             s = Step(l, to, ds), d = PyprojectFeed(c, changed, l), TakesLine(c, r, d, to, ds, w, n, changed)
      PROVE  LineReads(Feed(walk.c, changed, s.line), Declared(real, s, changed))
  <2>1. Feed(walk.c, changed, s.line) = d
    BY <1>1, <1>2, <1>5 DEF Feed, Step
  <2>2. d \in Classifiers(Spellings(Names)) /\ d.kind = "pyproject.toml" /\ d.name = None
    <3>1. d.names \in SUBSET Spellings(Names)
      <4>1. w => NormalizePypiName(n) \in Spellings(Names)
        BY <1>5 DEF TakesLine, Spellings
      <4>2. d.names = IF w THEN c.names \cup {NormalizePypiName(n)} ELSE c.names
        BY <1>5 DEF TakesLine
      <4> QED BY <1>4, <4>1, <4>2
    <3>2. d = [c EXCEPT !.section = d.section, !.array = d.array, !.names = d.names]
      BY <1>5 DEF TakesLine
    <3>3. PICK section, array, ns : section = d.section /\ array = d.array /\ ns = d.names
      OBVIOUS
    <3>4. section \in {"", "project", "optional", "poetry", "tool"} /\ array \in {"wanted", "other", None}
          /\ ns \in SUBSET Spellings(Names)
      BY <1>5, <3>1, <3>3 DEF TakesLine
    <3>5. d = [c EXCEPT !.section = section, !.array = array, !.names = ns]
      BY <3>2, <3>3
    <3> QED BY <1>2, <1>4, <3>4, <3>5 DEF Classifiers
  <2>3. Follows(d, to)
    BY <1>5, <2>2 DEF Follows, FollowsSide, TakesLine
  <2>4. c.names \subseteq d.names /\ d.names = IF w THEN c.names \cup {NormalizePypiName(n)} ELSE c.names
    BY <1>5 DEF TakesLine
  <2>5. changed /\ (r.shown \/ r.at = "project") => ds = {} \/ (w /\ ds = {n})
    BY <1>5 DEF TakesLine
  <2>6. changed /\ (r.shown \/ r.at = "project") => \A m \in ds : MatchName(job.eco, m) \in d.names
    BY <1>2, <2>4, <2>5
  <2>7. to.doubt = {} /\ w => changed /\ ds = {n}
    BY <1>5 DEF TakesLine
  <2>8. to.doubt = {} => \A x \in d.names : x \in c.names \/ (changed /\ \E m \in ds : x = MatchName(job.eco, m))
    BY <1>2, <2>4, <2>7
  <2>9. ds \in SUBSET Names /\ IsPlace(to) /\ to.changed = r.changed /\ to.hidden = r.hidden /\ r.doubt \subseteq to.doubt
    BY <1>5 DEF TakesLine
  <2> QED BY <1>1, <1>2, <1>5, <2>1, <2>2, <2>3, <2>4, <2>6, <2>8, <2>9, NamesRead
<1>6. ASSUME r.array # None, NEW n \in Names, NEW cl \in BOOLEAN, s = ArrayRow(r, n, cl)
      PROVE  LineReads(Feed(walk.c, changed, s.line), Declared(real, s, changed))
  <2>1. PICK l, to, ds, d :
          /\ l = [Plain EXCEPT !.quoted = {n}, !.closes = cl] /\ to = [r EXCEPT !.array = IF cl THEN None ELSE @]
          /\ ds = (IF r.array = "requirements" THEN {n} ELSE {}) /\ d = PyprojectFeed(c, changed, l)
    OBVIOUS
  <2>2. s = Step(l, to, ds)
    BY <1>1, <1>6, <2>1 DEF ArrayRow
  <2>3. l.quoted = {n} /\ l.closes = cl
    BY <2>1 DEF Plain
  <2>4. Canonical(l.quoted) = {NormalizePypiName(n)}
    BY <2>3 DEF Canonical
  <2>5. d = [c EXCEPT !.names = IF c.array = "wanted" THEN @ \cup (IF changed THEN Canonical(l.quoted) ELSE {}) ELSE @,
                      !.array = IF l.closes THEN None ELSE @]
    BY <1>4, <1>6, <2>1 DEF PyprojectFeed
  <2>6. PICK w \in BOOLEAN : w <=> (changed /\ c.array = "wanted")
    OBVIOUS
  <2>7. /\ d.names = (IF w THEN c.names \cup {NormalizePypiName(n)} ELSE c.names)
        /\ d.section = c.section /\ d.array = (IF cl THEN None ELSE c.array)
        /\ d = [c EXCEPT !.section = d.section, !.array = d.array, !.names = d.names]
    BY <1>2, <2>3, <2>4, <2>5, <2>6 DEF Classifiers
  <2>8. /\ IsPlace(to) /\ to.at = r.at /\ to.shown = r.shown /\ to.doubt = r.doubt
        /\ to.changed = r.changed /\ to.hidden = r.hidden /\ to.array = (IF cl THEN None ELSE r.array)
    BY <1>2, <2>1 DEF IsPlace, Spots
  <2>9. ds \in SUBSET Names
    BY <2>1
  <2>10. /\ changed /\ (r.shown \/ r.at = "project") => ds = {} \/ (w /\ ds = {n})
         /\ to.doubt = {} /\ w => changed /\ ds = {n}
    BY <1>4, <2>1, <2>6, <2>8
  <2>11. /\ d.section = (IF to.shown THEN to.at ELSE "") /\ ((d.array = None) <=> (to.array = None))
         /\ to.array = "requirements" /\ (to.shown \/ to.at = "project") => d.array = "wanted"
         /\ to.doubt = {} /\ d.array = "wanted" => to.array = "requirements"
         /\ d.section \in {"", "project", "optional", "poetry", "tool"} /\ d.array \in {"wanted", "other", None}
    BY <1>3, <1>4, <1>6, <2>7, <2>8
  <2>12. TakesLine(c, r, d, to, ds, w, n, changed)
    BY <2>7, <2>8, <2>9, <2>10, <2>11 DEF TakesLine
  <2> QED BY <1>5, <2>1, <2>2, <2>12
<1>7. ASSUME r.array = None, NEW p \in Places("pyproject.toml"),
             s = TableHeader(r, p)
      PROVE  LineReads(Feed(walk.c, changed, s.line), Declared(real, s, changed))
  <2>1. p \in {"project", "optional", "poetry", "tool"}
    BY <1>7 DEF Places
  <2>2. PICK l, to, d : /\ l = [Plain EXCEPT !.header = p] /\ to = [r EXCEPT !.at = p, !.shown = TRUE]
                        /\ d = PyprojectFeed(c, changed, l)
    OBVIOUS
  <2>3. l.header = p /\ p # None
    BY <1>3, <2>1, <2>2 DEF Plain
  <2>4. d = [c EXCEPT !.section = p]
    BY <1>4, <1>7, <2>2, <2>3 DEF PyprojectFeed
  <2>5. /\ d.names = c.names /\ d.section = p /\ d.array = None
        /\ d = [c EXCEPT !.section = d.section, !.array = d.array, !.names = d.names]
    BY <1>2, <1>4, <1>7, <2>4 DEF Classifiers
  <2>6. /\ IsPlace(to) /\ to.at = p /\ to.shown = TRUE /\ to.doubt = r.doubt
        /\ to.changed = r.changed /\ to.hidden = r.hidden /\ to.array = None
    BY <1>2, <1>7, <2>1, <2>2 DEF IsPlace, Spots
  <2>7. TakesLine(c, r, d, to, {}, FALSE, None, changed)
    BY <1>3, <2>1, <2>5, <2>6 DEF TakesLine
  <2>8. s = Step(l, to, {})
    BY <1>1, <1>7, <2>2 DEF TableHeader
  <2> QED BY <1>5, <2>2, <2>7, <2>8
<1>8. ASSUME r.array = None, NEW k \in {"dependencies", "classifiers"}, NEW n \in Names, NEW cl \in BOOLEAN,
             s = ArrayOpens(r, k, n, cl)
      PROVE  LineReads(Feed(walk.c, changed, s.line), Declared(real, s, changed))
  <2>1. PICK wanted \in BOOLEAN, doubt \in SUBSET {"section"} :
          /\ wanted <=> (r.at = "optional" \/ (r.at = "project" /\ k = "dependencies"))
          /\ doubt = (IF ~ r.shown /\ ~ wanted /\ k = "dependencies" THEN {"section"} ELSE {})
    <3>1. PICK wanted \in BOOLEAN : wanted <=> (r.at = "optional" \/ (r.at = "project" /\ k = "dependencies"))
      OBVIOUS
    <3> QED BY <3>1
  <2>2. PICK l, to, ds, d :
          /\ l = [Plain EXCEPT !.array = k, !.quoted = IF cl THEN {n} ELSE {}, !.closes = cl]
          /\ to = [r EXCEPT !.array = IF cl THEN None ELSE IF wanted THEN "requirements" ELSE "other",
                            !.doubt = @ \cup doubt]
          /\ ds = (IF wanted /\ cl THEN {n} ELSE {}) /\ d = PyprojectFeed(c, changed, l)
    OBVIOUS
  <2>3. (cl => l.quoted = {n}) /\ l.closes = cl /\ l.header = None /\ l.array = k /\ k # None
    BY <1>3, <2>2 DEF Plain
  <2>4. cl => Canonical(l.quoted) = {NormalizePypiName(n)}
    BY <2>3 DEF Canonical
  <2>5. PICK read \in BOOLEAN : read <=> ((k = "dependencies" /\ c.section \in {"", "project"}) \/ c.section = "optional")
    OBVIOUS
  <2>6. PICK w \in BOOLEAN : w <=> (changed /\ cl /\ read)
    OBVIOUS
  <2>7. d = IF cl THEN [c EXCEPT !.names = IF read THEN @ \cup (IF changed THEN Canonical(l.quoted) ELSE {}) ELSE @]
            ELSE [c EXCEPT !.array = IF read THEN "wanted" ELSE "other"]
    BY <1>4, <1>8, <2>2, <2>3, <2>5 DEF PyprojectFeed
  <2>8. /\ d.names = (IF w THEN c.names \cup {NormalizePypiName(n)} ELSE c.names)
        /\ d.section = c.section /\ d.array = (IF cl THEN None ELSE IF read THEN "wanted" ELSE "other")
        /\ d = [c EXCEPT !.section = d.section, !.array = d.array, !.names = d.names]
    BY <1>2, <1>4, <1>8, <2>4, <2>6, <2>7 DEF Classifiers
  <2>9. /\ IsPlace(to) /\ to.at = r.at /\ to.shown = r.shown /\ to.doubt = r.doubt \cup doubt
        /\ to.changed = r.changed /\ to.hidden = r.hidden
        /\ to.array = (IF cl THEN None ELSE IF wanted THEN "requirements" ELSE "other")
    BY <1>2, <2>2 DEF IsPlace, Spots
  <2>10. ds \in SUBSET Names /\ s = Step(l, to, ds)
    BY <1>1, <1>8, <2>1, <2>2 DEF ArrayOpens
  <2>11. c.section = (IF r.shown THEN r.at ELSE "") /\ r.shown \in BOOLEAN
    BY <1>2, <1>4 DEF IsPlace, Spots
  <2>12. r.shown \/ r.at = "project" => (wanted => read)
    BY <2>1, <2>5, <2>11
  <2>13. r.shown /\ read => wanted
    <3>1. r.at # ""
      BY <1>2, <1>3 DEF IsPlace, Spots
    <3> QED BY <2>1, <2>5, <2>11, <3>1
  <2>14. to.doubt = {} /\ read => wanted
    <3>1. CASE ~ r.shown /\ ~ wanted /\ k = "dependencies"
      BY <2>1, <2>9, <3>1
    <3>2. CASE ~ r.shown /\ k # "dependencies"
      BY <2>5, <2>11, <3>2
    <3> QED BY <2>13, <3>1, <3>2
  <2>15. /\ changed /\ (r.shown \/ r.at = "project") => ds = {} \/ (w /\ ds = {n})
         /\ to.doubt = {} /\ w => changed /\ ds = {n}
    BY <2>2, <2>6, <2>12, <2>14
  <2>16. /\ d.section = (IF to.shown THEN to.at ELSE "") /\ ((d.array = None) <=> (to.array = None))
         /\ to.array = "requirements" /\ (to.shown \/ to.at = "project") => d.array = "wanted"
         /\ to.doubt = {} /\ d.array = "wanted" => to.array = "requirements"
         /\ d.section \in {"", "project", "optional", "poetry", "tool"} /\ d.array \in {"wanted", "other", None}
    BY <1>3, <1>4, <1>8, <2>8, <2>9, <2>12, <2>14
  <2>17. r.doubt \subseteq to.doubt
    BY <2>9
  <2>18. TakesLine(c, r, d, to, ds, w, n, changed)
    BY <2>8, <2>9, <2>10, <2>15, <2>16, <2>17 DEF TakesLine
  <2> QED BY <1>5, <2>2, <2>10, <2>18
<1>9. ASSUME r.array = None, NEW n \in Names, s = TableKey(r, n)
      PROVE  LineReads(Feed(walk.c, changed, s.line), Declared(real, s, changed))
  <2>1. PICK l, ds, d : /\ l = [Plain EXCEPT !.key = n] /\ ds = (IF r.at = "poetry" THEN {n} ELSE {})
                        /\ d = PyprojectFeed(c, changed, l)
    OBVIOUS
  <2>2. l.key = n /\ l.header = None /\ l.array = None /\ n # None
    BY <1>2, <2>1 DEF Plain
  <2>3. PICK w \in BOOLEAN : w <=> (changed /\ c.section = "poetry")
    OBVIOUS
  <2>4. d = IF w THEN [c EXCEPT !.names = @ \cup {NormalizePypiName(n)}] ELSE c
    BY <1>4, <1>9, <2>1, <2>2, <2>3 DEF PyprojectFeed, IsPoetrySection
  <2>5. /\ d.names = (IF w THEN c.names \cup {NormalizePypiName(n)} ELSE c.names)
        /\ d.section = c.section /\ d.array = c.array
        /\ d = [c EXCEPT !.section = d.section, !.array = d.array, !.names = d.names]
    BY <1>2, <2>4 DEF Classifiers
  <2>6. ds \in SUBSET Names /\ s = Step(l, r, ds)
    BY <1>1, <1>9, <2>1 DEF TableKey
  <2>7. /\ changed /\ (r.shown \/ r.at = "project") => ds = {} \/ (w /\ ds = {n})
        /\ r.doubt = {} /\ w => changed /\ ds = {n}
    BY <1>4, <2>1, <2>3
  <2>8. TakesLine(c, r, d, r, ds, w, n, changed)
    BY <1>2, <1>4, <2>5, <2>6, <2>7 DEF TakesLine
  <2> QED BY <1>5, <2>1, <2>6, <2>8
<1>12. ASSUME r.array # None, s = ArrayCloses(r)
       PROVE  LineReads(Feed(walk.c, changed, s.line), Declared(real, s, changed))
  <2>1. PICK l, to, d : l = ClosingLine /\ to = [r EXCEPT !.array = None] /\ d = PyprojectFeed(c, changed, l)
    OBVIOUS
  <2>2. l.quoted = {} /\ l.closes = TRUE
    BY <2>1 DEF Plain, ClosingLine
  <2>3. Canonical(l.quoted) = {}
    BY <2>2 DEF Canonical
  <2>4. d = [c EXCEPT !.array = None]
    BY <1>2, <1>4, <1>12, <2>1, <2>2, <2>3 DEF PyprojectFeed, Classifiers
  <2>5. /\ d.names = c.names /\ d.section = c.section /\ d.array = None
        /\ d = [c EXCEPT !.section = d.section, !.array = d.array, !.names = d.names]
    BY <1>2, <2>4 DEF Classifiers
  <2>6. /\ IsPlace(to) /\ to.at = r.at /\ to.shown = r.shown /\ to.doubt = r.doubt
        /\ to.changed = r.changed /\ to.hidden = r.hidden /\ to.array = None
    BY <1>2, <2>1 DEF IsPlace, Spots
  <2>7. TakesLine(c, r, d, to, {}, FALSE, None, changed)
    BY <1>3, <1>4, <2>5, <2>6 DEF TakesLine
  <2>8. s = Step(l, to, {})
    BY <1>12, <2>1 DEF ArrayCloses
  <2> QED BY <1>5, <2>1, <2>7, <2>8
<1>10. CASE r.array # None
  <2>1. s = ArrayCloses(r) \/ \E n \in Names, cl \in BOOLEAN : s = ArrayRow(r, n, cl)
    BY <1>1, <1>10 DEF PyprojectSteps
  <2> QED BY <1>6, <1>10, <1>12, <2>1
<1>11. CASE r.array = None
  <2>1. real.array = None
    BY <1>1, <1>11
  <2>2. \/ \E p \in Places("pyproject.toml") : s = TableHeader(r, p)
        \/ \E k \in {"dependencies", "classifiers"}, n \in Names, cl \in BOOLEAN : s = ArrayOpens(r, k, n, cl)
        \/ \E n \in Names : s = TableKey(r, n)
    BY <1>1, <2>1 DEF PyprojectSteps, TableSteps
  <2> QED BY <1>1, <1>7, <1>8, <1>9, <1>11, <2>2
<1> QED BY <1>10, <1>11

LEMMA NormalizeStays ==
  ASSUME NEW n \in Spellings(Names)
  PROVE  NormalizePypiName(n) \in Spellings(Names)
<1>1. CASE n \in Names
  BY <1>1 DEF Spellings
<1>2. CASE \E m \in Names : n = NormalizePypiName(m)
  <2>1. PICK m \in Names : n = NormalizePypiName(m)
    BY <1>2
  <2>2. NormalizePypiName(n) = NormalizePypiName(m)
    BY <2>1 DEF NormalizePypiName
  <2> QED BY <2>2 DEF Spellings
<1>3. CASE \E k \in {"dependencies", "scripts", "build", "version"} : n = Word(k)
  <2>1. PICK k \in {"dependencies", "scripts", "build", "version"} : n = Word(k)
    BY <1>3
  <2>2. NormalizePypiName(n) = Word(k)
    BY <2>1 DEF NormalizePypiName, Word
  <2> QED BY <2>2 DEF Spellings
<1> QED BY <1>1, <1>2, <1>3 DEF Spellings

\* A line of a lockfile: the names of a block count when it is flushed.
LEMMA LockLine ==
  ASSUME AtLine, walk.c.kind = "lock", NEW s \in LockSteps(real), NEW changed \in BOOLEAN
  PROVE  LineReads(Feed(walk.c, changed, s.line), Declared(real, s, changed))
<1>1. PICK c, r : c = walk.c /\ r = real
  OBVIOUS
<1>2. /\ c \in Classifiers(Spellings(Names)) /\ c.kind = "lock" /\ IsPlace(r) /\ Follows(c, r) /\ "sides" \notin r.doubt
      /\ None \notin Names /\ \A n : MatchName(job.eco, n) = NormalizePypiName(n)
  BY <1>1 DEF AtLine, WalkInv, JobInv, KindsOf, MatchName
<1>3. /\ c.touched \in BOOLEAN /\ r.touched \in BOOLEAN
      /\ r.touched => c.touched
      /\ r.at = "metadata" => r.block = {} /\ (r.doubt = {} => c.name = None)
      /\ r.at # "metadata" /\ c.touched => r.touched
      /\ r.at # "metadata" => r.block = IF c.name = None THEN {} ELSE {c.name}
  BY <1>2 DEF Classifiers, IsPlace, Spots, Follows, FollowsSide
<1>4. /\ c.name \in Spellings(Names) \cup {None} /\ c.names \in SUBSET Spellings(Names)
      /\ r.block \in SUBSET Names /\ r.changed \in SUBSET Names
  BY <1>2 DEF Classifiers, IsPlace, Spots
<1>5. None \notin {"package", "metadata"} /\ Names \subseteq Spellings(Names)
  <2>1. None \notin {"package", "metadata"}
    BY AuditAssumption
  <2> QED BY <2>1 DEF Spellings
<1>6. ASSUME NEW x \in Classifiers(Spellings(Names))
      PROVE  /\ Flush(x) \in Classifiers(Spellings(Names)) /\ Flush(x).kind = x.kind /\ Flush(x).name = None
             /\ Flush(x).touched = FALSE
             /\ Flush(x).names = IF x.touched /\ x.name # None THEN x.names \cup {NormalizePypiName(x.name)} ELSE x.names
  <2>1. PICK ns : ns = IF x.touched /\ x.name # None THEN x.names \cup {NormalizePypiName(x.name)} ELSE x.names
    OBVIOUS
  <2>2. ns \in SUBSET Spellings(Names)
    <3>1. x.name \in Spellings(Names) \cup {None} /\ x.names \in SUBSET Spellings(Names)
      BY DEF Classifiers
    <3>2. x.name # None => NormalizePypiName(x.name) \in Spellings(Names)
      BY <3>1, NormalizeStays
    <3> QED BY <2>1, <3>1, <3>2
  <2>3. Flush(x) = [x EXCEPT !.names = ns, !.name = None, !.touched = FALSE]
    BY <2>1 DEF Flush
  <2> QED BY <2>1, <2>2, <2>3 DEF Classifiers
\* The line itself.
<1>7. ASSUME NEW l, NEW to, s = Step(l, to, {}), IsPlace(to), to.changed = r.changed, to.hidden = r.hidden
      PROVE  LET q == Declared(real, s, changed)
             IN  /\ IsPlace(q) /\ q.at = to.at /\ q.block = to.block /\ q.doubt = to.doubt /\ q.hidden = r.hidden
                 /\ q.touched = (to.touched \/ changed)
                 /\ q.changed = r.changed \cup (IF to.touched \/ changed THEN to.block ELSE {})
  <2>1. PICK these : these = r.changed \cup (IF to.touched \/ changed THEN to.block ELSE {})
    OBVIOUS
  <2>2. these \in SUBSET Names /\ r.hidden \in SUBSET Names
    BY <1>2, <1>7, <2>1 DEF IsPlace, Spots
  <2>3. PICK t \in BOOLEAN : t = (to.touched \/ changed)
    OBVIOUS
  <2>4. Declared(real, s, changed) = [to EXCEPT !.touched = t, !.changed = these, !.hidden = to.hidden]
    BY <1>1, <1>2, <1>7, <2>1, <2>3 DEF Declared, Step
  <2> QED BY <1>7, <2>1, <2>2, <2>3, <2>4 DEF IsPlace, Spots
<1>8. CASE s = Step([Plain EXCEPT !.header = "package"],
                    [r EXCEPT !.at = "block", !.block = {}, !.touched = FALSE], {})
  <2>1. PICK l, to, d, q : /\ l = [Plain EXCEPT !.header = "package"]
                           /\ to = [r EXCEPT !.at = "block", !.block = {}, !.touched = FALSE]
                           /\ d = TomlLockFeed(c, changed, l) /\ q = Declared(real, s, changed)
    OBVIOUS
  <2>2. /\ IsPlace(to) /\ to.at = "block" /\ to.block = {} /\ to.touched = FALSE /\ to.doubt = r.doubt
        /\ to.changed = r.changed /\ to.hidden = r.hidden
    BY <1>2, <2>1 DEF IsPlace, Spots
  <2>3. /\ IsPlace(q) /\ q.at = "block" /\ q.block = {} /\ q.doubt = r.doubt /\ q.hidden = r.hidden
        /\ q.touched = changed /\ q.changed = r.changed
    BY <1>7, <1>8, <2>1, <2>2
  <2>4. d = [Flush(c) EXCEPT !.touched = changed]
    BY <2>1 DEF TomlLockFeed, Plain
  <2>5. /\ d \in Classifiers(Spellings(Names)) /\ d.kind = "lock" /\ d.name = None /\ d.touched = changed
        /\ d.names = Flush(c).names
    BY <1>2, <1>6, <2>4 DEF Classifiers
  <2>6. Flush(d).names = Flush(c).names
    BY <1>6, <2>5
  <2>7. Feed(walk.c, changed, s.line) = d
    BY <1>1, <1>2, <1>8, <2>1 DEF Feed, Step
  <2>8. Follows(d, q)
    BY <2>3, <2>5 DEF Follows, FollowsSide
  <2> QED BY <1>1, <1>2, <2>1, <2>3, <2>5, <2>6, <2>7, <2>8 DEF LineReads
\* Any other line of a block.
<1>9. ASSUME NEW l, NEW to, s = Step(l, to, {}), IsPlace(to), to.changed = r.changed, to.hidden = r.hidden,
              l.header # "package", r.doubt \subseteq to.doubt, to.touched => r.touched,
              l.name \in Names \cup {None},
              NEW name, name = IF c.name = None THEN l.name ELSE c.name,
              to.at = "metadata" => to.block = {} /\ (to.doubt = {} => name = None),
              to.at # "metadata" => to.block = IF name = None THEN {} ELSE {name},
              to.at # "metadata" => r.at # "metadata" /\ to.touched = r.touched
       PROVE  LineReads(Feed(walk.c, changed, s.line), Declared(real, s, changed))
  <2>1. PICK d, q : d = TomlLockFeed(c, changed, l) /\ q = Declared(real, s, changed)
    OBVIOUS
  <2>2. Feed(walk.c, changed, s.line) = d
    BY <1>1, <1>2, <1>9, <2>1 DEF Feed, Step
  <2>3. PICK t \in BOOLEAN : t = (c.touched \/ changed)
    OBVIOUS
  <2>4. d = [c EXCEPT !.name = name, !.touched = t]
    BY <1>9, <2>1, <2>3 DEF TomlLockFeed
  <2>5. name \in Spellings(Names) \cup {None}
    BY <1>4, <1>5, <1>9
  <2>6. /\ d \in Classifiers(Spellings(Names)) /\ d.kind = "lock" /\ d.name = name /\ d.touched = t /\ d.names = c.names
    BY <1>2, <2>3, <2>4, <2>5 DEF Classifiers
  <2>7. /\ Flush(d).names = (IF t /\ name # None THEN c.names \cup {NormalizePypiName(name)} ELSE c.names)
        /\ Flush(c).names = (IF c.touched /\ c.name # None THEN c.names \cup {NormalizePypiName(c.name)} ELSE c.names)
    BY <1>2, <1>6, <2>6
  <2>8. /\ IsPlace(q) /\ q.at = to.at /\ q.block = to.block /\ q.doubt = to.doubt /\ q.hidden = r.hidden
        /\ q.touched = (to.touched \/ changed)
        /\ q.changed = r.changed \cup (IF to.touched \/ changed THEN to.block ELSE {})
    BY <1>7, <1>9, <2>1
  <2>9. Follows(d, q)
    BY <1>3, <1>9, <2>3, <2>6, <2>8 DEF Follows, FollowsSide
  <2>10. Flush(c).names \subseteq Flush(d).names
    BY <1>9, <2>3, <2>7
  <2>11. "sides" \notin q.doubt => \A n \in q.changed : n \in r.changed \/ NormalizePypiName(n) \in Flush(d).names
    <3> SUFFICES ASSUME "sides" \notin to.doubt, NEW n \in to.block, to.touched \/ changed
                 PROVE  NormalizePypiName(n) \in Flush(d).names
      BY <2>8
    <3>1. t /\ name # None /\ n = name
      BY <1>3, <1>9, <2>3
    <3> QED BY <2>7, <3>1
  <2>12. q.doubt = {} => \A x \in Flush(d).names :
                           x \in Flush(c).names \/ \E n \in q.changed \cup q.hidden : x = NormalizePypiName(n)
    <3> SUFFICES ASSUME to.doubt = {}, t, name # None, NormalizePypiName(name) \notin Flush(c).names
                 PROVE  name \in q.changed
      BY <2>7, <2>8
    <3>1. to.at # "metadata" /\ to.block = {name}
      BY <1>9
    <3>2. to.touched \/ changed
      BY <1>3, <1>9, <2>3, <3>1
    <3> QED BY <2>8, <3>1, <3>2
  <2>13. r.changed \subseteq q.changed /\ r.hidden \subseteq q.hidden /\ r.doubt \subseteq q.doubt
    BY <1>9, <2>8
  <2>14. LineReads(d, q)
    BY <1>1, <1>2, <2>6, <2>8, <2>9, <2>10, <2>11, <2>12, <2>13 DEF LineReads
  <2> QED BY <2>1, <2>2, <2>14
<1>10. CASE s = Step([Plain EXCEPT !.header = "metadata"],
                     [r EXCEPT !.at = "metadata", !.block = {}, !.touched = FALSE,
                               !.doubt = @ \cup (IF r.block # {} THEN {"metadata"} ELSE {})], {})
  <2>1. PICK l, to, name : /\ l = [Plain EXCEPT !.header = "metadata"]
                           /\ to = [r EXCEPT !.at = "metadata", !.block = {}, !.touched = FALSE,
                                             !.doubt = @ \cup (IF r.block # {} THEN {"metadata"} ELSE {})]
                           /\ name = c.name
    OBVIOUS
  <2>2. l.header = "metadata" /\ l.name = None
    BY <2>1 DEF Plain
  <2>3. /\ IsPlace(to) /\ to.at = "metadata" /\ to.block = {} /\ to.touched = FALSE
        /\ to.doubt = r.doubt \cup (IF r.block # {} THEN {"metadata"} ELSE {})
        /\ to.changed = r.changed /\ to.hidden = r.hidden
    <3>1. PICK doubt \in SUBSET {"metadata"} : doubt = (IF r.block # {} THEN {"metadata"} ELSE {})
      OBVIOUS
    <3>2. to = [r EXCEPT !.at = "metadata", !.block = {}, !.touched = FALSE, !.doubt = @ \cup doubt]
      BY <2>1, <3>1
    <3> QED BY <1>2, <3>1, <3>2 DEF IsPlace, Spots
  <2>4. to.doubt = {} => name = None
    BY <1>3, <2>1, <2>3
  <2>5. name = (IF c.name = None THEN l.name ELSE c.name) /\ r.doubt \subseteq to.doubt
    BY <2>1, <2>2, <2>3
  <2>6. s = Step(l, to, {})
    BY <1>10, <2>1
  <2> QED BY <1>9, <2>2, <2>3, <2>4, <2>5, <2>6
<1>11. CASE s = Step([Plain EXCEPT !.key = Word("version")], r, {})
  <2>1. PICK l, name : l = [Plain EXCEPT !.key = Word("version")] /\ name = c.name
    OBVIOUS
  <2>2. l.header # "package" /\ l.name = None
    BY <1>5, <2>1 DEF Plain
  <2>3. name = (IF c.name = None THEN l.name ELSE c.name) /\ s = Step(l, r, {})
    BY <1>11, <2>1, <2>2
  <2> QED BY <1>2, <1>3, <1>9, <2>1, <2>2, <2>3
<1>12. ASSUME r.at # "metadata", r.block = {}, NEW n \in Names,
              s = Step([Plain EXCEPT !.name = n], [r EXCEPT !.block = {n}], {})
       PROVE  LineReads(Feed(walk.c, changed, s.line), Declared(real, s, changed))
  <2>1. PICK l, to : l = [Plain EXCEPT !.name = n] /\ to = [r EXCEPT !.block = {n}]
    OBVIOUS
  <2>2. l.header # "package" /\ l.name = n
    BY <1>5, <2>1 DEF Plain
  <2>3. /\ IsPlace(to) /\ to.at = r.at /\ to.block = {n} /\ to.touched = r.touched
        /\ to.doubt = r.doubt /\ to.changed = r.changed /\ to.hidden = r.hidden
    BY <1>2, <2>1 DEF IsPlace, Spots
  <2>4. c.name = None /\ n # None
    BY <1>2, <1>3, <1>12
  <2>5. n = (IF c.name = None THEN l.name ELSE c.name) /\ s = Step(l, to, {}) /\ r.doubt \subseteq to.doubt
    BY <1>12, <2>1, <2>2, <2>3, <2>4
  <2>6. /\ to.touched => r.touched
        /\ l.name \in Names \cup {None}
        /\ to.at = "metadata" => to.block = {} /\ (to.doubt = {} => n = None)
        /\ to.at # "metadata" => to.block = IF n = None THEN {} ELSE {n}
        /\ to.at # "metadata" => r.at # "metadata" /\ to.touched = r.touched
    BY <1>12, <2>2, <2>3, <2>4
  <2> QED BY <1>9, <2>2, <2>3, <2>5, <2>6
<1>13. \/ s \in {Step([Plain EXCEPT !.header = "package"],
                      [real EXCEPT !.at = "block", !.block = {}, !.touched = FALSE], {}),
                 Step([Plain EXCEPT !.header = "metadata"],
                      [real EXCEPT !.at = "metadata", !.block = {}, !.touched = FALSE,
                                   !.doubt = @ \cup (IF real.block # {} THEN {"metadata"} ELSE {})], {}),
                 Step([Plain EXCEPT !.key = Word("version")], real, {})}
       \/ /\ real.at # "metadata" /\ real.block = {}
          /\ \E n \in Names : s = Step([Plain EXCEPT !.name = n], [real EXCEPT !.block = {n}], {})
  BY Zenon DEF LockSteps
<1> QED BY <1>1, <1>8, <1>10, <1>11, <1>12, <1>13

\* A line, and where its side goes with it.
SoundStep(r, l, to, ds) ==
  /\ l.dep \in BOOLEAN /\ l.closes \in BOOLEAN /\ l.quoted \in SUBSET Names
  /\ l.key \in Spellings(Names) \cup {None} /\ l.name \in Spellings(Names) \cup {None}
  /\ walk.c.kind = "pyproject.toml" => l.header \in {None, "project", "optional", "poetry", "tool"}
  /\ IsPlace(to) /\ to.changed = r.changed /\ to.hidden = r.hidden /\ r.doubt \subseteq to.doubt
  /\ ds \in SUBSET Names

LEMMA SpellingsOf ==
  /\ Names \subseteq Spellings(Names)
  /\ Word("dependencies") \in Spellings(Names) /\ Word("scripts") \in Spellings(Names)
  /\ Word("build") \in Spellings(Names) /\ Word("version") \in Spellings(Names)
BY DEF Spellings

LEMMA NpmStepIsSound ==
  ASSUME NEW r, IsPlace(r), walk.c.kind = "package.json", NEW s \in NpmSteps(r)
  PROVE  /\ \E l, to, ds : s = Step(l, to, ds) /\ SoundStep(r, l, to, ds)
         /\ s.line = ClosingLine => s.declares = {} /\ s.to.at = "top" /\ s.to.doubt = r.doubt
<1>1. PICK l, to, ds : s = Step(l, to, ds)
  BY DEF NpmSteps, Step
<1>2. \/ l = [Plain EXCEPT !.dep = TRUE, !.key = Word("dependencies")]
          /\ to = [r EXCEPT !.at = "dependencies", !.shown = TRUE] /\ ds = {}
      \/ l = [Plain EXCEPT !.key = Word("scripts")] /\ to = [r EXCEPT !.at = "other"] /\ ds = {}
      \/ l = [Plain EXCEPT !.dep = TRUE, !.key = Word("dependencies")]
          /\ to = [r EXCEPT !.doubt = @ \cup {"inline"}] /\ ds = {}
      \/ \E n \in Names : l = [Plain EXCEPT !.key = n] /\ to = r /\ ds = {n}
      \/ l = ClosingLine /\ to = [r EXCEPT !.at = "top", !.shown = FALSE] /\ ds = {}
      \/ \E k \in Names \cup {Word("build")} : l = [Plain EXCEPT !.key = k] /\ to = r /\ ds = {}
      \/ l = ClosingLine /\ to = [r EXCEPT !.at = "top"] /\ ds = {}
  <2>1. CASE r.at = "top"
    BY <1>1, <2>1, Zenon DEF NpmSteps, Step
  <2>2. CASE r.at = "dependencies"
    BY <1>1, <2>2, Zenon DEF NpmSteps, Step
  <2>3. CASE r.at # "top" /\ r.at # "dependencies"
    BY <1>1, <2>3, Zenon DEF NpmSteps, Step
  <2> QED BY <2>1, <2>2, <2>3
<1>3. /\ IsPlace(to) /\ to.changed = r.changed /\ to.hidden = r.hidden /\ r.doubt \subseteq to.doubt
      /\ ds \in SUBSET Names
      /\ l = ClosingLine => ds = {} /\ to.at = "top" /\ to.doubt = r.doubt
  <2>1. ds \in SUBSET Names
    BY <1>2
  <2>2. IsPlace(to) /\ to.changed = r.changed /\ to.hidden = r.hidden /\ r.doubt \subseteq to.doubt
    <3>1. \/ to = [r EXCEPT !.at = "dependencies", !.shown = TRUE]
          \/ to = [r EXCEPT !.at = "other"]
          \/ to = [r EXCEPT !.doubt = @ \cup {"inline"}]
          \/ to = r
          \/ to = [r EXCEPT !.at = "top", !.shown = FALSE]
          \/ to = [r EXCEPT !.at = "top"]
      BY <1>2
    <3>2. CASE to = [r EXCEPT !.at = "dependencies", !.shown = TRUE]
      BY <3>2 DEF IsPlace, Spots
    <3>3. CASE to = [r EXCEPT !.at = "other"]
      BY <3>3 DEF IsPlace, Spots
    <3>4. CASE to = [r EXCEPT !.doubt = @ \cup {"inline"}]
      BY <3>4 DEF IsPlace, Spots
    <3>5. CASE to = [r EXCEPT !.at = "top", !.shown = FALSE]
      BY <3>5 DEF IsPlace, Spots
    <3>6. CASE to = [r EXCEPT !.at = "top"]
      BY <3>6 DEF IsPlace, Spots
    <3>7. CASE to = r
      BY <3>7
    <3> QED BY <3>1, <3>2, <3>3, <3>4, <3>5, <3>6, <3>7
  <2>3. l = ClosingLine => ds = {} /\ to.at = "top" /\ to.doubt = r.doubt
    <3>2. ClosingLine.closes = TRUE /\ Plain.closes = FALSE
      BY DEF Plain, ClosingLine
    <3>3. \A k : [Plain EXCEPT !.key = k].closes = FALSE /\ [Plain EXCEPT !.dep = TRUE, !.key = k].closes = FALSE
      BY DEF Plain
    <3>4. l = ClosingLine => \/ to = [r EXCEPT !.at = "top", !.shown = FALSE] /\ ds = {}
                             \/ to = [r EXCEPT !.at = "top"] /\ ds = {}
      <4>1. ASSUME l = ClosingLine, NEW k
            PROVE  l # [Plain EXCEPT !.key = k] /\ l # [Plain EXCEPT !.dep = TRUE, !.key = k]
        BY <4>1, <3>2, <3>3
      <4> QED BY <1>2, <4>1, Zenon
    <3>5. "at" \in DOMAIN r /\ "doubt" \in DOMAIN r
      BY DEF IsPlace
    <3> QED BY <3>4, <3>5
  <2> QED BY <2>1, <2>2, <2>3
<1>4. SoundStep(r, l, to, ds)
  <2>1. l.dep \in BOOLEAN /\ l.closes \in BOOLEAN /\ l.quoted \in SUBSET Names /\ l.name \in Spellings(Names) \cup {None}
    BY <1>2 DEF Plain, ClosingLine
  <2>2. l.key \in Spellings(Names) \cup {None}
    BY <1>2, SpellingsOf DEF Plain, ClosingLine
  <2> QED BY <1>3, <2>1, <2>2 DEF SoundStep
<1> QED BY <1>1, <1>3, <1>4 DEF Step

LEMMA PyprojectStepIsSound ==
  ASSUME None \notin Names, NEW r, IsPlace(r), walk.c.kind = "pyproject.toml", NEW s \in PyprojectSteps(r)
  PROVE  /\ \E l, to, ds : s = Step(l, to, ds) /\ SoundStep(r, l, to, ds)
         /\ s.line = ClosingLine => s.declares = {} /\ s.to.array = None /\ s.to.doubt = r.doubt
         /\ s.line.header # None => /\ s.declares = {} /\ s.to.array = None /\ s.to.doubt = r.doubt /\ s.to.shown
                                    /\ s.line = [Plain EXCEPT !.header = s.to.at]
                                    /\ s.to.at \in {"project", "optional", "poetry", "tool"}
<1>1. ClosingLine.quoted = {} /\ ClosingLine.array = None /\ ClosingLine.key = None
  BY DEF Plain, ClosingLine
<1>2. ASSUME NEW n \in Names, NEW cl \in BOOLEAN, s = ArrayRow(r, n, cl)
      PROVE  /\ \E l, to, ds : s = Step(l, to, ds) /\ SoundStep(r, l, to, ds)
             /\ s.line # ClosingLine /\ s.line.header = None
  <2>1. PICK l, to, ds : /\ l = [Plain EXCEPT !.quoted = {n}, !.closes = cl]
                         /\ to = [r EXCEPT !.array = IF cl THEN None ELSE @]
                         /\ ds = IF r.array = "requirements" THEN {n} ELSE {}
    OBVIOUS
  <2>2. s = Step(l, to, ds)
    BY <1>2, <2>1 DEF ArrayRow
  <2>3. IsPlace(to) /\ to.changed = r.changed /\ to.hidden = r.hidden /\ to.doubt = r.doubt
    BY <2>1 DEF IsPlace, Spots
  <2>4. SoundStep(r, l, to, ds) /\ l.quoted = {n} /\ l.header = None
    BY <2>1, <2>3 DEF SoundStep, Plain
  <2> QED BY <1>1, <2>2, <2>4 DEF Step
<1>3. ASSUME s = ArrayCloses(r)
      PROVE  /\ \E l, to, ds : s = Step(l, to, ds) /\ SoundStep(r, l, to, ds)
             /\ s.declares = {} /\ s.to.array = None /\ s.to.doubt = r.doubt /\ s.line.header = None
  <2>1. PICK to : to = [r EXCEPT !.array = None]
    OBVIOUS
  <2>2. s = Step(ClosingLine, to, {})
    BY <1>3, <2>1 DEF ArrayCloses
  <2>3. IsPlace(to) /\ to.changed = r.changed /\ to.hidden = r.hidden /\ to.doubt = r.doubt /\ to.array = None
    BY <2>1 DEF IsPlace, Spots
  <2>4. SoundStep(r, ClosingLine, to, {}) /\ ClosingLine.header = None
    BY <2>3 DEF SoundStep, Plain, ClosingLine
  <2> QED BY <2>2, <2>3, <2>4 DEF Step
<1>4. ASSUME r.array = None, NEW p \in Places("pyproject.toml"), s = TableHeader(r, p)
      PROVE  /\ \E l, to, ds : s = Step(l, to, ds) /\ SoundStep(r, l, to, ds)
             /\ s.line # ClosingLine
             /\ s.declares = {} /\ s.to.array = None /\ s.to.doubt = r.doubt /\ s.to.shown
             /\ s.line = [Plain EXCEPT !.header = s.to.at] /\ s.to.at \in {"project", "optional", "poetry", "tool"}
  <2>1. PICK l, to : l = [Plain EXCEPT !.header = p] /\ to = [r EXCEPT !.at = p, !.shown = TRUE]
    OBVIOUS
  <2>2. s = Step(l, to, {}) /\ p \in {"project", "optional", "poetry", "tool"}
    BY <1>4, <2>1 DEF TableHeader, Places
  <2>3. /\ IsPlace(to) /\ to.changed = r.changed /\ to.hidden = r.hidden /\ to.doubt = r.doubt /\ to.array = None
        /\ to.at = p /\ to.shown
    BY <1>4, <2>1, <2>2 DEF IsPlace, Spots
  <2>4. SoundStep(r, l, to, {}) /\ l.closes = FALSE /\ ClosingLine.closes = TRUE
    BY <2>1, <2>2, <2>3 DEF SoundStep, Plain, ClosingLine
  <2> QED BY <2>1, <2>2, <2>3, <2>4 DEF Step
<1>5. ASSUME NEW k \in {"dependencies", "classifiers"}, NEW n \in Names, NEW cl \in BOOLEAN, s = ArrayOpens(r, k, n, cl)
      PROVE  /\ \E l, to, ds : s = Step(l, to, ds) /\ SoundStep(r, l, to, ds)
             /\ s.line # ClosingLine /\ s.line.header = None
  <2>1. PICK wanted \in BOOLEAN : wanted <=> (r.at = "optional" \/ (r.at = "project" /\ k = "dependencies"))
    OBVIOUS
  <2>2. PICK doubt \in SUBSET {"section"} :
          doubt = (IF ~ r.shown /\ ~ wanted /\ k = "dependencies" THEN {"section"} ELSE {})
    OBVIOUS
  <2>3. PICK l, to, ds :
          /\ l = [Plain EXCEPT !.array = k, !.quoted = IF cl THEN {n} ELSE {}, !.closes = cl]
          /\ to = [r EXCEPT !.array = IF cl THEN None ELSE IF wanted THEN "requirements" ELSE "other",
                            !.doubt = @ \cup doubt]
          /\ ds = (IF wanted /\ cl THEN {n} ELSE {})
    OBVIOUS
  <2>4. s = Step(l, to, ds)
    BY <1>5, <2>1, <2>2, <2>3 DEF ArrayOpens
  <2>5. IsPlace(to) /\ to.changed = r.changed /\ to.hidden = r.hidden /\ r.doubt \subseteq to.doubt
    BY <2>3 DEF IsPlace, Spots
  <2>6. SoundStep(r, l, to, ds) /\ l.array = k /\ l.header = None
    BY <2>3, <2>5 DEF SoundStep, Plain
  <2>7. k # None
    BY AuditAssumption
  <2> QED BY <1>1, <2>4, <2>6, <2>7 DEF Step
<1>6. ASSUME NEW n \in Names, s = TableKey(r, n)
      PROVE  /\ \E l, to, ds : s = Step(l, to, ds) /\ SoundStep(r, l, to, ds)
             /\ s.line # ClosingLine /\ s.line.header = None
  <2>1. PICK l, ds : l = [Plain EXCEPT !.key = n] /\ ds = IF r.at = "poetry" THEN {n} ELSE {}
    OBVIOUS
  <2>2. s = Step(l, r, ds)
    BY <1>6, <2>1 DEF TableKey
  <2>3. SoundStep(r, l, r, ds) /\ l.key = n /\ l.header = None
    BY <2>1, SpellingsOf DEF SoundStep, Plain
  <2> QED BY <1>1, <2>2, <2>3 DEF Step
<1>7. \/ s = ArrayCloses(r)
      \/ \E n \in Names, cl \in BOOLEAN : s = ArrayRow(r, n, cl)
      \/ r.array = None /\ \E p \in Places("pyproject.toml") : s = TableHeader(r, p)
      \/ \E k \in {"dependencies", "classifiers"}, n \in Names, cl \in BOOLEAN : s = ArrayOpens(r, k, n, cl)
      \/ \E n \in Names : s = TableKey(r, n)
  <2>1. CASE r.array # None
    BY <2>1 DEF PyprojectSteps
  <2>2. CASE r.array = None
    <3>1. s \in TableSteps(r)
      BY <2>2 DEF PyprojectSteps
    <3> QED BY <2>2, <3>1 DEF TableSteps
  <2> QED BY <2>1, <2>2
<1> QED BY <1>2, <1>3, <1>4, <1>5, <1>6, <1>7

LEMMA LockStepIsSound ==
  ASSUME NEW r, IsPlace(r), walk.c.kind = "lock", NEW s \in LockSteps(r)
  PROVE  /\ \E l, to, ds : s = Step(l, to, ds) /\ SoundStep(r, l, to, ds)
         /\ s.line.header = "package" =>
              /\ s.declares = {} /\ s.line = [Plain EXCEPT !.header = "package"]
              /\ s.to.block = {} /\ s.to.at = "block" /\ s.to.touched = FALSE /\ s.to.doubt = r.doubt
<1>1. ASSUME s = Step([Plain EXCEPT !.header = "package"], [r EXCEPT !.at = "block", !.block = {}, !.touched = FALSE], {})
      PROVE  /\ \E l, to, ds : s = Step(l, to, ds) /\ SoundStep(r, l, to, ds)
             /\ s.declares = {} /\ s.line = [Plain EXCEPT !.header = "package"]
             /\ s.to.block = {} /\ s.to.at = "block" /\ s.to.touched = FALSE /\ s.to.doubt = r.doubt
  <2>1. PICK l, to : /\ l = [Plain EXCEPT !.header = "package"]
                     /\ to = [r EXCEPT !.at = "block", !.block = {}, !.touched = FALSE]
    OBVIOUS
  <2>2. /\ IsPlace(to) /\ to.changed = r.changed /\ to.hidden = r.hidden /\ to.doubt = r.doubt
        /\ to.block = {} /\ to.at = "block" /\ to.touched = FALSE
    BY <2>1 DEF IsPlace, Spots
  <2>3. SoundStep(r, l, to, {})
    BY <2>1, <2>2 DEF SoundStep, Plain
  <2> QED BY <1>1, <2>1, <2>2, <2>3 DEF Step
<1>2. ASSUME s = Step([Plain EXCEPT !.header = "metadata"],
                      [r EXCEPT !.at = "metadata", !.block = {}, !.touched = FALSE,
                                !.doubt = @ \cup (IF r.block # {} THEN {"metadata"} ELSE {})], {})
      PROVE  (\E l, to, ds : s = Step(l, to, ds) /\ SoundStep(r, l, to, ds)) /\ s.line.header = "metadata"
  <2>1. PICK doubt \in SUBSET {"metadata"} : doubt = (IF r.block # {} THEN {"metadata"} ELSE {})
    OBVIOUS
  <2>2. PICK l, to : /\ l = [Plain EXCEPT !.header = "metadata"]
                     /\ to = [r EXCEPT !.at = "metadata", !.block = {}, !.touched = FALSE, !.doubt = @ \cup doubt]
    OBVIOUS
  <2>3. IsPlace(to) /\ to.changed = r.changed /\ to.hidden = r.hidden /\ r.doubt \subseteq to.doubt
    BY <2>2 DEF IsPlace, Spots
  <2>4. SoundStep(r, l, to, {}) /\ l.header = "metadata"
    BY <2>2, <2>3 DEF SoundStep, Plain
  <2>5. s = Step(l, to, {})
    BY <1>2, <2>1, <2>2
  <2> QED BY <2>4, <2>5 DEF Step
<1>3. ASSUME s = Step([Plain EXCEPT !.key = Word("version")], r, {})
      PROVE  (\E l, to, ds : s = Step(l, to, ds) /\ SoundStep(r, l, to, ds)) /\ s.line.header = None
  <2>1. PICK l : l = [Plain EXCEPT !.key = Word("version")]
    OBVIOUS
  <2>2. SoundStep(r, l, r, {}) /\ l.header = None
    BY <2>1, SpellingsOf DEF SoundStep, Plain
  <2> QED BY <1>3, <2>1, <2>2 DEF Step
<1>4. ASSUME NEW n \in Names, s = Step([Plain EXCEPT !.name = n], [r EXCEPT !.block = {n}], {})
      PROVE  (\E l, to, ds : s = Step(l, to, ds) /\ SoundStep(r, l, to, ds)) /\ s.line.header = None
  <2>1. PICK l, to : l = [Plain EXCEPT !.name = n] /\ to = [r EXCEPT !.block = {n}]
    OBVIOUS
  <2>2. IsPlace(to) /\ to.changed = r.changed /\ to.hidden = r.hidden /\ to.doubt = r.doubt
    BY <2>1 DEF IsPlace, Spots
  <2>3. SoundStep(r, l, to, {}) /\ l.header = None
    BY <2>1, <2>2, SpellingsOf DEF SoundStep, Plain
  <2> QED BY <1>4, <2>1, <2>3 DEF Step
<1>5. None # "package"
  BY AuditAssumption
<1>6. \/ s \in {Step([Plain EXCEPT !.header = "package"],
                     [r EXCEPT !.at = "block", !.block = {}, !.touched = FALSE], {}),
                Step([Plain EXCEPT !.header = "metadata"],
                     [r EXCEPT !.at = "metadata", !.block = {}, !.touched = FALSE,
                               !.doubt = @ \cup (IF r.block # {} THEN {"metadata"} ELSE {})], {}),
                Step([Plain EXCEPT !.key = Word("version")], r, {})}
      \/ \E n \in Names : s = Step([Plain EXCEPT !.name = n], [r EXCEPT !.block = {n}], {})
  BY Zenon DEF LockSteps
<1> QED BY <1>1, <1>2, <1>3, <1>4, <1>5, <1>6

LEMMA RowStepIsSound ==
  ASSUME NEW r, IsPlace(r), walk.c.kind # "pyproject.toml", NEW s \in RowSteps(r)
  PROVE  /\ \E l, to, ds : s = Step(l, to, ds) /\ SoundStep(r, l, to, ds)
         /\ s.line # ClosingLine
<1>1. PICK l, ds : s = Step(l, r, ds) /\ ((l = Plain /\ ds = {}) \/ \E n \in Names : l = [Plain EXCEPT !.name = n] /\ ds = {n})
  BY DEF RowSteps
<1>2. SoundStep(r, l, r, ds) /\ l.closes = FALSE
  <2>1. ds \in SUBSET Names
    BY <1>1
  <2>2. /\ l.dep = FALSE /\ l.closes = FALSE /\ l.quoted = {} /\ l.key = None
        /\ l.name \in Spellings(Names) \cup {None}
    BY <1>1, SpellingsOf DEF Plain
  <2> QED BY <2>1, <2>2 DEF SoundStep
<1>3. ClosingLine.closes = TRUE
  BY DEF Plain, ClosingLine
<1> QED BY <1>1, <1>2, <1>3 DEF Step

LEMMA FlushIsSound ==
  ASSUME NEW x \in Classifiers(Spellings(Names))
  PROVE  /\ Flush(x) \in Classifiers(Spellings(Names)) /\ Flush(x).kind = x.kind /\ Flush(x).name = None
         /\ Flush(x).touched = FALSE
         /\ Flush(x).names = IF x.touched /\ x.name # None THEN x.names \cup {NormalizePypiName(x.name)} ELSE x.names
<1>1. PICK ns : ns = IF x.touched /\ x.name # None THEN x.names \cup {NormalizePypiName(x.name)} ELSE x.names
  OBVIOUS
<1>2. ns \in SUBSET Spellings(Names)
  <2>1. x.name \in Spellings(Names) \cup {None} /\ x.names \in SUBSET Spellings(Names)
    BY DEF Classifiers
  <2>2. x.name # None => NormalizePypiName(x.name) \in Spellings(Names)
    BY <2>1, NormalizeStays
  <2> QED BY <1>1, <2>1, <2>2
<1>3. Flush(x) = [x EXCEPT !.names = ns, !.name = None, !.touched = FALSE]
  BY <1>1 DEF Flush
<1> QED BY <1>1, <1>2, <1>3 DEF Classifiers

\* What the lines of a file other than a lockfile do to its classifier.
Keeps(S, c, d) == d \in Classifiers(S) /\ d.kind = c.kind /\ d.name = c.name /\ c.names \subseteq d.names

LEMMA KeepsParts ==
  ASSUME NEW S, NEW c \in Classifiers(S)
  PROVE  /\ Keeps(S, c, c)
         /\ \A b \in BOOLEAN : Keeps(S, c, [c EXCEPT !.block = b])
         /\ \A x \in {"", "project", "optional", "poetry", "tool"} : Keeps(S, c, [c EXCEPT !.section = x])
         /\ \A a \in {"wanted", "other", None} : Keeps(S, c, [c EXCEPT !.array = a])
         /\ \A ns \in SUBSET S : c.names \subseteq ns => Keeps(S, c, [c EXCEPT !.names = ns])
         /\ \A ns \in SUBSET S, a \in {"wanted", "other", None} :
              c.names \subseteq ns => Keeps(S, c, [c EXCEPT !.names = ns, !.array = a])
<1>1. Keeps(S, c, c)
  BY DEF Keeps, Classifiers
<1>2. \A b \in BOOLEAN : Keeps(S, c, [c EXCEPT !.block = b])
  BY DEF Keeps, Classifiers
<1>3. \A x \in {"", "project", "optional", "poetry", "tool"} : Keeps(S, c, [c EXCEPT !.section = x])
  BY DEF Keeps, Classifiers
<1>4. \A a \in {"wanted", "other", None} : Keeps(S, c, [c EXCEPT !.array = a])
  BY DEF Keeps, Classifiers
<1>5. \A ns \in SUBSET S : c.names \subseteq ns => Keeps(S, c, [c EXCEPT !.names = ns])
  BY DEF Keeps, Classifiers
<1>6. \A ns \in SUBSET S, a \in {"wanted", "other", None} :
        c.names \subseteq ns => Keeps(S, c, [c EXCEPT !.names = ns, !.array = a])
  BY DEF Keeps, Classifiers
<1> QED BY <1>1, <1>2, <1>3, <1>4, <1>5, <1>6

LEMMA NpmKeeps ==
  ASSUME NEW S, NEW c \in Classifiers(S), NEW changed, NEW l, l.dep \in BOOLEAN, l.key # None => l.key \in S
  PROVE  Keeps(S, c, NpmFeed(c, changed, l))
<1>1. CASE ~ c.block
  BY <1>1, KeepsParts DEF NpmFeed
<1>2. CASE c.block /\ l.closes
  BY <1>2, KeepsParts DEF NpmFeed
<1>3. CASE c.block /\ ~ l.closes /\ changed /\ l.key # None
  <2>1. c.names \cup {l.key} \in SUBSET S /\ c.names \subseteq c.names \cup {l.key}
    BY <1>3 DEF Classifiers
  <2>2. NpmFeed(c, changed, l) = [c EXCEPT !.names = c.names \cup {l.key}]
    BY <1>3 DEF NpmFeed
  <2>3. Keeps(S, c, [c EXCEPT !.names = c.names \cup {l.key}])
    BY <2>1, KeepsParts, Zenon
  <2> QED BY <2>2, <2>3
<1>4. CASE c.block /\ ~ l.closes /\ ~ (changed /\ l.key # None)
  BY <1>4, KeepsParts DEF NpmFeed
<1> QED BY <1>1, <1>2, <1>3, <1>4

LEMMA PyprojectKeeps ==
  ASSUME NEW S, NEW c \in Classifiers(S), NEW changed \in BOOLEAN, NEW l, Canonical(l.quoted) \in SUBSET S,
         l.header \in {None, "project", "optional", "poetry", "tool"},
         l.key # None => NormalizePypiName(l.key) \in S
  PROVE  Keeps(S, c, PyprojectFeed(c, changed, l))
<1>1. PICK read \in SUBSET S : read = IF changed THEN Canonical(l.quoted) ELSE {}
  OBVIOUS
<1>2. PICK wanted \in BOOLEAN :
        wanted <=> ((l.array = "dependencies" /\ c.section \in {"", "project"}) \/ c.section = "optional")
  OBVIOUS
<1>3. c.names \in SUBSET S /\ c.array \in {"wanted", "other", None}
  BY DEF Classifiers
<1>4. CASE c.array # None
  <2>1. PICK ns, a : /\ ns = (IF c.array = "wanted" THEN c.names \cup read ELSE c.names)
                     /\ a = IF l.closes THEN None ELSE c.array
    OBVIOUS
  <2>2. PyprojectFeed(c, changed, l) = [c EXCEPT !.names = ns, !.array = a]
    BY <1>1, <1>4, <2>1 DEF PyprojectFeed
  <2>3. ns \in SUBSET S /\ c.names \subseteq ns /\ a \in {"wanted", "other", None}
    BY <1>3, <2>1
  <2>4. Keeps(S, c, [c EXCEPT !.names = ns, !.array = a])
    BY <2>3, KeepsParts, Zenon
  <2> QED BY <2>2, <2>4
<1>5. CASE c.array = None /\ l.header # None
  <2>1. PyprojectFeed(c, changed, l) = [c EXCEPT !.section = l.header]
    BY <1>5 DEF PyprojectFeed
  <2>2. l.header \in {"", "project", "optional", "poetry", "tool"}
    BY <1>5
  <2>3. Keeps(S, c, [c EXCEPT !.section = l.header])
    BY <2>2, KeepsParts, Zenon
  <2> QED BY <2>1, <2>3
<1>6. CASE c.array = None /\ l.header = None /\ l.array # None /\ l.closes
  <2>1. PICK ns : ns = IF wanted THEN c.names \cup read ELSE c.names
    OBVIOUS
  <2>2. PyprojectFeed(c, changed, l) = [c EXCEPT !.names = ns]
    BY <1>1, <1>2, <1>6, <2>1 DEF PyprojectFeed
  <2>3. ns \in SUBSET S /\ c.names \subseteq ns
    BY <1>3, <2>1
  <2>4. Keeps(S, c, [c EXCEPT !.names = ns])
    BY <2>3, KeepsParts, Zenon
  <2> QED BY <2>2, <2>4
<1>7. CASE c.array = None /\ l.header = None /\ l.array # None /\ ~ l.closes
  <2>1. PICK a \in {"wanted", "other"} : a = IF wanted THEN "wanted" ELSE "other"
    OBVIOUS
  <2>2. PyprojectFeed(c, changed, l) = [c EXCEPT !.array = a]
    BY <1>2, <1>7, <2>1 DEF PyprojectFeed
  <2>3. a \in {"wanted", "other", None}
    BY <2>1
  <2>4. Keeps(S, c, [c EXCEPT !.array = a])
    BY <2>3, KeepsParts, Zenon
  <2> QED BY <2>2, <2>4
<1>8. CASE c.array = None /\ l.header = None /\ l.array = None
  <2>1. PICK poetry \in BOOLEAN : poetry <=> (IsPoetrySection(c.section) /\ changed /\ l.key # None)
    OBVIOUS
  <2>2. CASE poetry
    <3>1. PyprojectFeed(c, changed, l) = [c EXCEPT !.names = c.names \cup {NormalizePypiName(l.key)}]
      BY <1>8, <2>1, <2>2 DEF PyprojectFeed
    <3>2. /\ c.names \cup {NormalizePypiName(l.key)} \in SUBSET S
          /\ c.names \subseteq c.names \cup {NormalizePypiName(l.key)}
      BY <1>3, <2>1, <2>2
    <3>3. Keeps(S, c, [c EXCEPT !.names = c.names \cup {NormalizePypiName(l.key)}])
      BY <1>3, <3>2, KeepsParts, Zenon
    <3> QED BY <3>1, <3>3
  <2>3. CASE ~ poetry
    <3>1. PyprojectFeed(c, changed, l) = c
      BY <1>8, <2>1, <2>3 DEF PyprojectFeed
    <3> QED BY <3>1, KeepsParts
  <2> QED BY <2>2, <2>3
<1> QED BY <1>4, <1>5, <1>6, <1>7, <1>8

LEMMA RowKeeps ==
  ASSUME NEW S, NEW c \in Classifiers(S), NEW changed, NEW l,
         l.name # None => l.name \in S /\ NormalizePypiName(l.name) \in S
  PROVE  Keeps(S, c, RequirementsFeed(c, changed, l)) /\ Keeps(S, c, GemFeed(c, changed, l))
<1>1. CASE changed /\ l.name # None
  <2>1. /\ c.names \cup {NormalizePypiName(l.name)} \in SUBSET S /\ c.names \cup {l.name} \in SUBSET S
        /\ c.names \subseteq c.names \cup {NormalizePypiName(l.name)} /\ c.names \subseteq c.names \cup {l.name}
    BY <1>1 DEF Classifiers
  <2>2. /\ RequirementsFeed(c, changed, l) = [c EXCEPT !.names = c.names \cup {NormalizePypiName(l.name)}]
        /\ GemFeed(c, changed, l) = [c EXCEPT !.names = c.names \cup {l.name}]
    BY <1>1 DEF RequirementsFeed, GemFeed
  <2>3. Keeps(S, c, [c EXCEPT !.names = c.names \cup {NormalizePypiName(l.name)}])
    BY <2>1, KeepsParts, Zenon
  <2>4. Keeps(S, c, [c EXCEPT !.names = c.names \cup {l.name}])
    BY <2>1, KeepsParts, Zenon
  <2> QED BY <2>2, <2>3, <2>4
<1>2. CASE ~ (changed /\ l.name # None)
  BY <1>2, KeepsParts DEF RequirementsFeed, GemFeed
<1> QED BY <1>1, <1>2

\* A classifier keeps the names it has, whatever the line.
LEMMA FeedKeepsNames ==
  ASSUME NEW c \in Classifiers(Spellings(Names)), c = walk.c, c.kind # "lock" => c.name = None,
         NEW r, NEW l, NEW to, NEW ds, SoundStep(r, l, to, ds), NEW changed \in BOOLEAN,
         NEW d, d = Feed(c, changed, l)
  PROVE  /\ d \in Classifiers(Spellings(Names)) /\ d.kind = c.kind /\ (d.kind # "lock" => d.name = None)
         /\ Flush(c).names \subseteq Flush(d).names
<1>1. /\ l.dep \in BOOLEAN /\ l.closes \in BOOLEAN /\ l.quoted \in SUBSET Names
      /\ l.key \in Spellings(Names) \cup {None} /\ l.name \in Spellings(Names) \cup {None}
      /\ c.kind = "pyproject.toml" => l.header \in {None, "project", "optional", "poetry", "tool"}
  BY DEF SoundStep
<1>2. /\ c.names \in SUBSET Spellings(Names) /\ c.name \in Spellings(Names) \cup {None} /\ c.touched \in BOOLEAN
      /\ c.kind \in {"package.json", "pyproject.toml", "requirements.txt", "lock", "Gemfile", "Gemfile.lock"}
  BY DEF Classifiers
<1>3. Canonical(l.quoted) \in SUBSET Spellings(Names)
  BY <1>1 DEF Canonical, Spellings
<1>4. /\ l.key # None => l.key \in Spellings(Names) /\ NormalizePypiName(l.key) \in Spellings(Names)
      /\ l.name # None => l.name \in Spellings(Names) /\ NormalizePypiName(l.name) \in Spellings(Names)
  BY <1>1, NormalizeStays
\* A file whose lines declare by themselves.
<1>5. ASSUME c.kind # "lock", Keeps(Spellings(Names), c, d)
      PROVE  /\ d \in Classifiers(Spellings(Names)) /\ d.kind = c.kind /\ d.name = None
             /\ Flush(c).names \subseteq Flush(d).names
  <2>1. d \in Classifiers(Spellings(Names)) /\ d.kind = c.kind /\ c.name = None /\ d.name = None /\ c.names \subseteq d.names
    BY <1>5 DEF Keeps
  <2>2. Flush(c).names = c.names /\ Flush(d).names = d.names
    BY <2>1, FlushOfNoName
  <2> QED BY <2>1, <2>2
<1>6. CASE c.kind = "package.json"
  <2>1. d = NpmFeed(c, changed, l)
    BY <1>6 DEF Feed
  <2> QED BY <1>1, <1>4, <1>5, <1>6, <2>1, NpmKeeps
<1>7. CASE c.kind = "pyproject.toml"
  <2>1. d = PyprojectFeed(c, changed, l)
    BY <1>7 DEF Feed
  <2>2. Keeps(Spellings(Names), c, PyprojectFeed(c, changed, l))
    BY <1>1, <1>3, <1>4, <1>7, PyprojectKeeps
  <2> QED BY <1>5, <1>7, <2>1, <2>2
<1>8. CASE c.kind \notin {"package.json", "pyproject.toml", "lock"}
  <2>1. d = RequirementsFeed(c, changed, l) \/ d = GemFeed(c, changed, l)
    BY <1>8 DEF Feed
  <2>2. Keeps(Spellings(Names), c, RequirementsFeed(c, changed, l)) /\ Keeps(Spellings(Names), c, GemFeed(c, changed, l))
    BY <1>4, RowKeeps
  <2> QED BY <1>5, <1>8, <2>1, <2>2
<1>9. CASE c.kind = "lock"
  <2>1. d = TomlLockFeed(c, changed, l)
    BY <1>9 DEF Feed
  <2>2. CASE l.header = "package"
    <3>1. d = [Flush(c) EXCEPT !.touched = changed]
      BY <2>1, <2>2 DEF TomlLockFeed
    <3>2. Flush(c) \in Classifiers(Spellings(Names)) /\ Flush(c).kind = "lock" /\ Flush(c).name = None
      BY <1>9, FlushIsSound
    <3>3. d \in Classifiers(Spellings(Names)) /\ d.kind = "lock" /\ d.name = None /\ d.names = Flush(c).names
      BY <3>1, <3>2 DEF Classifiers
    <3> QED BY <1>9, <3>3, FlushOfNoName
  <2>3. CASE l.header # "package"
    <3>1. PICK name, t : name = (IF c.name = None THEN l.name ELSE c.name) /\ t = (c.touched \/ changed)
      OBVIOUS
    <3>2. d = [c EXCEPT !.name = name, !.touched = t]
      BY <2>1, <2>3, <3>1 DEF TomlLockFeed
    <3>3. name \in Spellings(Names) \cup {None} /\ t \in BOOLEAN
      BY <1>1, <1>2, <3>1
    <3>4. /\ d \in Classifiers(Spellings(Names)) /\ d.kind = "lock" /\ d.name = name /\ d.touched = t
          /\ d.names = c.names
      BY <1>9, <3>2, <3>3 DEF Classifiers
    <3>5. /\ Flush(c).names = IF c.touched /\ c.name # None THEN c.names \cup {NormalizePypiName(c.name)} ELSE c.names
          /\ Flush(d).names = IF t /\ name # None THEN c.names \cup {NormalizePypiName(name)} ELSE c.names
      BY <3>4, FlushIsSound
    <3>6. c.touched /\ c.name # None => t /\ name = c.name
      BY <3>1
    <3> QED BY <1>9, <3>4, <3>5, <3>6
  <2> QED BY <2>2, <2>3
<1> QED BY <1>2, <1>6, <1>7, <1>8, <1>9

\* What the line declares.
LEMMA DeclaredIsSound ==
  ASSUME NEW r, IsPlace(r), NEW l, NEW to, NEW ds, SoundStep(r, l, to, ds), NEW changed \in BOOLEAN
  PROVE  /\ IsPlace(Declared(r, Step(l, to, ds), changed))
         /\ r.changed \subseteq Declared(r, Step(l, to, ds), changed).changed
         /\ r.hidden \subseteq Declared(r, Step(l, to, ds), changed).hidden
         /\ Declared(r, Step(l, to, ds), changed).doubt = to.doubt
<1>0. PICK q : q = Declared(r, Step(l, to, ds), changed)
  OBVIOUS
<1>1. PICK these, t, seen : /\ these = IF walk.c.kind = "lock" THEN IF to.touched \/ changed THEN to.block ELSE {}
                                       ELSE IF changed THEN ds ELSE {}
                            /\ t = (walk.c.kind = "lock" /\ (to.touched \/ changed))
                            /\ seen = (walk.c.kind \notin {"package.json", "pyproject.toml"} \/ r.shown \/ r.at = "project")
  OBVIOUS
<1>2. /\ IsPlace(to) /\ to.changed = r.changed /\ to.hidden = r.hidden /\ ds \in SUBSET Names
  BY DEF SoundStep
<1>3. these \in SUBSET Names /\ t \in BOOLEAN /\ to.changed \in SUBSET Names /\ to.hidden \in SUBSET Names
  BY <1>1, <1>2 DEF IsPlace
<1>4. PICK x, y : x = (IF seen THEN to.changed \cup these ELSE to.changed) /\ y = (IF seen THEN to.hidden ELSE to.hidden \cup these)
  OBVIOUS
<1>5. x \in SUBSET Names /\ y \in SUBSET Names /\ to.changed \subseteq x /\ to.hidden \subseteq y
  BY <1>3, <1>4
<1>6. q = [to EXCEPT !.touched = t, !.changed = x, !.hidden = y]
  BY <1>0, <1>1, <1>4 DEF Declared, Step
<1>7. IsPlace(q) /\ r.changed \subseteq q.changed /\ r.hidden \subseteq q.hidden /\ q.doubt = to.doubt
  BY <1>2, <1>3, <1>5, <1>6 DEF IsPlace
<1> QED BY <1>0, <1>7

\* A line from any place.
LEMMA StepIsSound ==
  ASSUME None \notin Names, walk.c \in Classifiers(Spellings(Names)), NEW r, IsPlace(r), NEW s \in Steps(r)
  PROVE  \E l, to, ds : s = Step(l, to, ds) /\ SoundStep(r, l, to, ds)
<1>1. walk.c.kind \in {"package.json", "pyproject.toml", "requirements.txt", "lock", "Gemfile", "Gemfile.lock"}
  BY DEF Classifiers
<1>2. CASE walk.c.kind = "package.json"
  BY <1>2, NpmStepIsSound DEF Steps
<1>3. CASE walk.c.kind = "pyproject.toml"
  BY <1>3, PyprojectStepIsSound DEF Steps
<1>4. CASE walk.c.kind = "lock"
  BY <1>4, LockStepIsSound DEF Steps
<1>5. CASE walk.c.kind \notin {"package.json", "pyproject.toml", "lock"}
  BY <1>5, RowStepIsSound DEF Steps
<1> QED BY <1>1, <1>2, <1>3, <1>4, <1>5

AtPlace == JobInv /\ IsPlace(real) /\ WalkInv /\ walk.c # None

\* Once the sides are out of step a classifier only keeps what it has.
LEMMA OutOfStep ==
  ASSUME AtPlace, NEW r, IsPlace(r), r.changed = real.changed, r.hidden = real.hidden, r.doubt = real.doubt,
         NEW s \in Steps(r), NEW changed \in BOOLEAN, NEW d, d = Feed(walk.c, changed, s.line),
         NEW q, IsPlace(q), "sides" \in q.doubt, real.doubt \subseteq q.doubt,
         Declared(r, s, changed).changed = q.changed, Declared(r, s, changed).hidden = q.hidden
  PROVE  LineReads(d, q)
<1>1. PICK c : c = walk.c
  OBVIOUS
<1>2. /\ c \in Classifiers(Spellings(Names)) /\ None \notin Names /\ (c.kind # "lock" => c.name = None)
  BY <1>1 DEF AtPlace, WalkInv, JobInv, Follows
<1>3. PICK l, to, ds : s = Step(l, to, ds) /\ SoundStep(r, l, to, ds)
  BY <1>1, <1>2, StepIsSound
<1>4. PICK p : p = Declared(r, s, changed)
  OBVIOUS
<1>5. r.changed \subseteq p.changed /\ r.hidden \subseteq p.hidden
  BY <1>3, <1>4, DeclaredIsSound
<1>6. d = Feed(c, changed, l)
  BY <1>1, <1>3 DEF Step
<1>7. /\ d \in Classifiers(Spellings(Names)) /\ d.kind = c.kind /\ (d.kind # "lock" => d.name = None)
      /\ Flush(c).names \subseteq Flush(d).names
  BY <1>1, <1>2, <1>3, <1>6, FeedKeepsNames
<1>8. Follows(d, q)
  BY <1>7 DEF Follows
<1> QED BY <1>1, <1>4, <1>5, <1>7, <1>8 DEF LineReads

\* A line from where the last one was.
LEMMA LeadingLine ==
  ASSUME AtPlace, NEW s \in Steps(real), NEW changed \in BOOLEAN
  PROVE  LineReads(Feed(walk.c, changed, s.line), Declared(real, s, changed))
<1>1. PICK d, q : d = Feed(walk.c, changed, s.line) /\ q = Declared(real, s, changed)
  OBVIOUS
<1>2. CASE "sides" \in real.doubt
  <2>1. IsPlace(real) /\ None \notin Names /\ walk.c \in Classifiers(Spellings(Names))
    BY DEF AtPlace, JobInv, WalkInv
  <2>2. PICK l, to, ds : s = Step(l, to, ds) /\ SoundStep(real, l, to, ds)
    BY <2>1, StepIsSound
  <2>3. IsPlace(q) /\ q.doubt = to.doubt
    BY <1>1, <2>1, <2>2, DeclaredIsSound
  <2>4. real.doubt \subseteq q.doubt
    BY <2>2, <2>3 DEF SoundStep
  <2> QED BY <1>1, <1>2, <2>1, <2>3, <2>4, OutOfStep
<1>3. CASE "sides" \notin real.doubt
  <2>1. AtLine
    BY <1>3 DEF AtPlace, AtLine
  <2>2. walk.c.kind \in {"package.json", "pyproject.toml", "requirements.txt", "lock", "Gemfile", "Gemfile.lock"}
    BY DEF AtPlace, WalkInv, Classifiers
  <2>3. CASE walk.c.kind = "package.json"
    BY <2>1, <2>3, NpmLine DEF Steps
  <2>4. CASE walk.c.kind = "pyproject.toml"
    BY <2>1, <2>4, PyprojectLine DEF Steps
  <2>5. CASE walk.c.kind = "lock"
    BY <2>1, <2>5, LockLine DEF Steps
  <2>6. CASE walk.c.kind \notin {"package.json", "pyproject.toml", "lock"}
    BY <2>1, <2>6, RowLine DEF Steps
  <2> QED BY <2>2, <2>3, <2>4, <2>5, <2>6
<1> QED BY <1>2, <1>3

\* A line that declares nothing.
LEMMA IdleLine ==
  ASSUME AtPlace, NEW d \in Classifiers(Spellings(Names)), NEW q, IsPlace(q),
         d.kind = walk.c.kind, d.kind # "lock" => d.name = None, Flush(d).names = Flush(walk.c).names,
         q.changed = real.changed, q.hidden = real.hidden, q.doubt = real.doubt, FollowsSide(d, q)
  PROVE  LineReads(d, q)
BY DEF LineReads, Follows

\* A line of the side that is away, when it brings the classifier back in step.
LEMMA ResumingLine ==
  ASSUME AtLine, NEW r, IsPlace(r), r.changed = real.changed, r.hidden = real.hidden, r.doubt = real.doubt,
         NEW s \in Steps(r), Resumes(s)
  PROVE  LineReads(Feed(walk.c, TRUE, s.line), Declared(r, s, TRUE))
<1>1. PICK c, d, q : c = walk.c /\ d = Feed(walk.c, TRUE, s.line) /\ q = Declared(r, s, TRUE)
  OBVIOUS
<1>2. /\ AtPlace /\ IsPlace(real) /\ None \notin Names /\ c \in Classifiers(Spellings(Names)) /\ FollowsSide(c, real)
      /\ c.kind # "lock" => c.name = None
  BY <1>1 DEF AtLine, AtPlace, JobInv, WalkInv, Follows
<1>3. PICK l, to, ds : s = Step(l, to, ds) /\ SoundStep(r, l, to, ds)
  BY <1>1, <1>2, StepIsSound
<1>4. IsPlace(q) /\ q.doubt = to.doubt /\ s.line = l /\ s.to = to /\ s.declares = ds
  <2>1. q = Declared(r, Step(l, to, ds), TRUE)
    BY <1>1, <1>3
  <2>2. IsPlace(q) /\ q.doubt = to.doubt
    <3>1. PICK changed \in BOOLEAN : changed = TRUE
      OBVIOUS
    <3>2. /\ IsPlace(Declared(r, Step(l, to, ds), changed))
          /\ Declared(r, Step(l, to, ds), changed).doubt = to.doubt
      BY <1>3, DeclaredIsSound
    <3> QED BY <2>1, <3>1, <3>2
  <2>3. s.line = l /\ s.to = to /\ s.declares = ds
    BY <1>3 DEF Step
  <2> QED BY <2>2, <2>3
<1>5. IsPlace(to) /\ to.changed = real.changed /\ to.hidden = real.hidden
  BY <1>3 DEF SoundStep
<1>6. ASSUME c.kind # "lock" => ds = {}, c.kind = "lock" => to.block = {}, to.doubt = r.doubt
      PROVE  /\ q.changed = real.changed /\ q.hidden = real.hidden /\ q.doubt = real.doubt
             /\ q.at = to.at /\ q.array = to.array /\ q.shown = to.shown /\ q.block = to.block
             /\ q.touched <=> c.kind = "lock"
  <2>1. PICK x : x = (walk.c.kind = "lock" /\ (to.touched \/ TRUE))
    OBVIOUS
  <2>2. q = [to EXCEPT !.touched = x, !.changed = to.changed, !.hidden = to.hidden]
    BY <1>1, <1>4, <1>6, <2>1 DEF Declared
  <2> QED BY <1>1, <1>4, <1>5, <1>6, <2>1, <2>2 DEF IsPlace
<1>7. CASE c.kind = "lock" /\ l.header = "package"
  <2>1. /\ to.block = {} /\ to.at = "block" /\ to.doubt = r.doubt
    BY <1>1, <1>4, <1>7, LockStepIsSound DEF Steps
  <2>2. d = [Flush(c) EXCEPT !.touched = TRUE]
    BY <1>1, <1>4, <1>7 DEF Feed, TomlLockFeed
  <2>3. Flush(c) \in Classifiers(Spellings(Names)) /\ Flush(c).kind = "lock" /\ Flush(c).name = None
    BY <1>2, <1>7, FlushIsSound
  <2>4. /\ d \in Classifiers(Spellings(Names)) /\ d.kind = "lock" /\ d.name = None /\ d.touched = TRUE
        /\ d.names = Flush(c).names
    BY <2>2, <2>3 DEF Classifiers
  <2>5. FollowsSide(d, q)
    <3>1. q.at = "block" /\ q.block = {} /\ q.touched
      BY <1>6, <1>7, <2>1
    <3> QED BY <2>4, <3>1 DEF FollowsSide
  <2> QED BY <1>1, <1>2, <1>4, <1>6, <1>7, <2>1, <2>4, <2>5, FlushOfNoName, IdleLine
<1>8. CASE c.kind = "pyproject.toml" /\ l.header # None /\ real.array = None
  <2>1. /\ ds = {} /\ to.array = None /\ to.doubt = r.doubt /\ to.shown /\ l = [Plain EXCEPT !.header = to.at]
        /\ to.at \in {"project", "optional", "poetry", "tool"}
    BY <1>1, <1>2, <1>4, <1>8, PyprojectStepIsSound DEF Steps
  <2>2. c.array = None /\ l.header = to.at
    BY <1>2, <1>8, <2>1 DEF FollowsSide, Plain
  <2>3. d = [c EXCEPT !.section = to.at]
    BY <1>1, <1>4, <1>8, <2>2 DEF Feed, PyprojectFeed
  <2>4. /\ d \in Classifiers(Spellings(Names)) /\ d.kind = "pyproject.toml" /\ d.name = None
        /\ d.names = c.names /\ d.section = to.at /\ d.array = None
    BY <1>2, <1>8, <2>1, <2>2, <2>3 DEF Classifiers
  <2>5. FollowsSide(d, q)
    <3>1. q.at = to.at /\ q.shown /\ q.array = None
      BY <1>6, <1>8, <2>1
    <3>2. d.array # "wanted" /\ q.array # "requirements"
      BY <2>4, <3>1, AuditAssumption
    <3> QED BY <2>4, <3>1, <3>2 DEF FollowsSide
  <2>6. Flush(d).names = Flush(c).names
    BY <1>2, <1>8, <2>4, FlushOfNoName
  <2>7. q.changed = real.changed /\ q.hidden = real.hidden /\ q.doubt = real.doubt
    BY <1>6, <1>8, <2>1
  <2>8. LineReads(d, q)
    BY <1>1, <1>2, <1>4, <1>8, <2>4, <2>5, <2>6, <2>7, IdleLine
  <2> QED BY <1>1, <2>8
<1>9. CASE c.kind # "lock" /\ l = ClosingLine /\ SamePlace(to, real)
  <2>1. /\ l.dep = FALSE /\ l.closes = TRUE /\ l.key = None /\ l.header = None /\ l.array = None
    BY <1>9 DEF ClosingLine, Plain
  <2>2. CASE c.kind = "package.json"
    <3>1. ds = {} /\ to.at = "top" /\ to.doubt = r.doubt
      BY <1>1, <1>4, <1>9, <2>2, NpmStepIsSound DEF Steps
    <3>2. q.at = "top" /\ q.shown = FALSE
      <4>1. real.at = "top" /\ real.shown = FALSE
        BY <1>2, <1>9, <2>2, <3>1 DEF SamePlace, FollowsSide, IsPlace
      <4> QED BY <1>6, <1>9, <3>1, <4>1 DEF SamePlace
    <3>3. d = [c EXCEPT !.block = FALSE]
      BY <1>1, <1>4, <2>1, <2>2 DEF Feed, NpmFeed
    <3>4. /\ d \in Classifiers(Spellings(Names)) /\ d.kind = "package.json" /\ d.name = None
          /\ d.names = c.names /\ d.block = FALSE
      BY <1>2, <2>2, <3>3 DEF Classifiers
    <3>5. FollowsSide(d, q)
      BY <3>2, <3>4 DEF FollowsSide
    <3> QED BY <1>1, <1>2, <1>4, <1>6, <2>2, <3>1, <3>4, <3>5, FlushOfNoName, IdleLine
  <2>3. CASE c.kind = "pyproject.toml"
    <3>1. ds = {} /\ to.array = None /\ to.doubt = r.doubt
      <4>1. s \in PyprojectSteps(r) /\ walk.c.kind = "pyproject.toml" /\ s.line = ClosingLine
        BY <1>1, <1>4, <1>9, <2>3 DEF Steps
      <4>2. s.declares = {} /\ s.to.array = None /\ s.to.doubt = r.doubt
        BY <1>2, <4>1, PyprojectStepIsSound
      <4> QED BY <1>4, <4>2
    <3>2. q.at = real.at /\ q.array = real.array /\ q.shown = real.shown /\ q.doubt = real.doubt /\ real.array = None
      BY <1>6, <1>9, <3>1 DEF SamePlace
    <3>3. d = c
      BY <1>1, <1>2, <1>4, <2>1, <2>3, <3>2 DEF Feed, PyprojectFeed, FollowsSide
    <3>4. FollowsSide(d, q)
      BY <1>2, <2>3, <3>2, <3>3 DEF FollowsSide
    <3> QED BY <1>1, <1>2, <1>4, <1>6, <2>3, <3>1, <3>3, <3>4, IdleLine
  <2>4. CASE c.kind \notin {"package.json", "pyproject.toml", "lock"}
    <3>1. s.line # ClosingLine
      BY <1>1, <2>4, RowStepIsSound DEF Steps
    <3> QED BY <1>4, <1>9, <3>1
  <2> QED BY <1>9, <2>2, <2>3, <2>4
<1> QED BY <1>1, <1>4, <1>7, <1>8, <1>9 DEF Resumes

LEMMA SideIsPlace ==
  ASSUME IsPlace(real), NEW m
  PROVE  /\ IsPlace(SideAt(m)) /\ SideAt(m).changed = real.changed /\ SideAt(m).hidden = real.hidden
         /\ SideAt(m).doubt = real.doubt
<1>1. CASE Leads(m)
  BY <1>1 DEF SideAt
<1>2. CASE ~ Leads(m)
  <2>1. PICK x : x = real.away
    OBVIOUS
  <2>2. /\ x.at \in Spots /\ x.array \in {None, "requirements", "other"} /\ x.shown \in BOOLEAN
        /\ x.block \in SUBSET Names /\ x.touched \in BOOLEAN
    BY <1>2, <2>1 DEF Leads, IsPlace, IsAway
  <2>3. SideAt(m) = [real EXCEPT !.at = x.at, !.array = x.array, !.shown = x.shown, !.block = x.block,
                                 !.touched = x.touched]
    BY <1>2, <2>1 DEF SideAt
  <2> QED BY <2>2, <2>3 DEF IsPlace
<1> QED BY <1>1, <1>2

\* Where the other side is has no part in what a classifier follows.
LEMMA ReadsApart ==
  ASSUME NEW d, NEW p, LineReads(d, p), NEW m \in {"-", "+"}, NEW q, IsPlace(q)
  PROVE  LineReads(d, Apart(p, m, q))
<1>1. PICK x : x = IF SamePlace(p, q) THEN None
                   ELSE [side |-> m, at |-> q.at, array |-> q.array, shown |-> q.shown, block |-> q.block,
                         touched |-> q.touched]
  OBVIOUS
<1>2. IsAway(x)
  BY <1>1 DEF IsAway, IsPlace
<1>3. PICK t : t = Apart(p, m, q)
  OBVIOUS
<1>4. t = [p EXCEPT !.away = x]
  BY <1>1, <1>3 DEF Apart
<1>5. /\ IsPlace(t) /\ t.at = p.at /\ t.array = p.array /\ t.shown = p.shown /\ t.block = p.block
      /\ t.touched = p.touched /\ t.changed = p.changed /\ t.hidden = p.hidden /\ t.doubt = p.doubt
  BY <1>2, <1>4 DEF LineReads, IsPlace
<1>6. Follows(d, t)
  BY <1>5 DEF LineReads, Follows, FollowsSide
<1>7. LineReads(d, t)
  BY <1>5, <1>6 DEF LineReads
<1> QED BY <1>3, <1>7

\* A line of one side.
LEMMA LineOfOne ==
  ASSUME AtPlace, NEW m \in {"-", "+"}, NEW s \in Steps(SideAt(m)), OnOne(m, s)
  PROVE  LineReads(Feed(walk.c, TRUE, s.line), real')
<1>1. PICK r, d, p : r = SideAt(m) /\ d = Feed(walk.c, TRUE, s.line) /\ p = Declared(r, s, TRUE)
  OBVIOUS
<1>2. /\ IsPlace(real) /\ None \notin Names /\ walk.c \in Classifiers(Spellings(Names))
      /\ IsPlace(r) /\ r.changed = real.changed /\ r.hidden = real.hidden /\ r.doubt = real.doubt
  BY <1>1, SideIsPlace DEF AtPlace, JobInv, WalkInv
<1>3. PICK l, to, ds : s = Step(l, to, ds) /\ SoundStep(r, l, to, ds)
  BY <1>1, <1>2, StepIsSound
<1>4. IsPlace(p) /\ p.doubt = to.doubt /\ real.doubt \subseteq to.doubt
  <2>1. p = Declared(r, Step(l, to, ds), TRUE)
    BY <1>1, <1>3
  <2>2. IsPlace(p) /\ p.doubt = to.doubt
    <3>1. PICK changed \in BOOLEAN : changed = TRUE
      OBVIOUS
    <3>2. /\ IsPlace(Declared(r, Step(l, to, ds), changed))
          /\ Declared(r, Step(l, to, ds), changed).doubt = to.doubt
      BY <1>2, <1>3, DeclaredIsSound
    <3> QED BY <2>1, <3>1, <3>2
  <2>3. real.doubt \subseteq to.doubt
    BY <1>2, <1>3 DEF SoundStep
  <2> QED BY <2>2, <2>3
<1>5. PICK doubt \in SUBSET {"sides"} : doubt = IF Leads(m) \/ Resumes(s) THEN {} ELSE {"sides"}
  OBVIOUS
<1>6. PICK q : q = [p EXCEPT !.doubt = @ \cup doubt]
  OBVIOUS
<1>7. OtherSide(m) \in {"-", "+"} /\ IsPlace(SideAt(OtherSide(m)))
  BY <1>2, SideIsPlace DEF OtherSide
<1>8. real' = Apart(q, OtherSide(m), SideAt(OtherSide(m)))
  BY <1>1, <1>5, <1>6 DEF OnOne
<1>9. /\ IsPlace(q) /\ q.doubt = p.doubt \cup doubt /\ q.changed = p.changed /\ q.hidden = p.hidden
      /\ doubt = {} => q = p
  BY <1>4, <1>5, <1>6 DEF IsPlace
<1>10. LineReads(d, q)
  <2>1. CASE Leads(m)
    <3>1. r = real /\ q = p
      BY <1>1, <1>5, <1>9, <2>1 DEF SideAt
    <3> QED BY <1>1, <3>1, LeadingLine
  <2>2. CASE ~ Leads(m) /\ "sides" \notin q.doubt
    <3>1. doubt = {} /\ Resumes(s) /\ q = p
      BY <1>5, <1>9, <2>2
    <3>2. AtLine
      BY <1>4, <1>9, <2>2 DEF AtPlace, AtLine
    <3> QED BY <1>1, <1>2, <3>1, <3>2, ResumingLine
  <2>3. CASE "sides" \in q.doubt
    BY <1>1, <1>2, <1>4, <1>9, <2>3, OutOfStep
  <2> QED BY <2>1, <2>2, <2>3
<1> QED BY <1>1, <1>7, <1>8, <1>10, ReadsApart

\* A line of context.
LEMMA LineOfBoth ==
  ASSUME AtPlace, NEW s \in Steps(real), OnBoth(s)
  PROVE  LineReads(Feed(walk.c, FALSE, s.line), real')
<1>1. LineReads(Feed(walk.c, FALSE, s.line), Declared(real, s, FALSE))
  BY LeadingLine
<1>2. CASE real' = Declared(real, s, FALSE)
  BY <1>1, <1>2
<1>3. CASE real.away # None /\ \E t \in Steps(SideAt(real.away.side)) :
                                 real' = Apart(Declared(real, s, FALSE), real.away.side, t.to)
  <2>1. PICK t \in Steps(SideAt(real.away.side)) : real' = Apart(Declared(real, s, FALSE), real.away.side, t.to)
    BY <1>3
  <2>2. /\ IsPlace(real) /\ None \notin Names /\ walk.c \in Classifiers(Spellings(Names))
        /\ IsPlace(SideAt(real.away.side)) /\ real.away.side \in {"-", "+"}
    BY <1>3, SideIsPlace DEF AtPlace, JobInv, WalkInv, IsPlace, IsAway
  <2>3. PICK l, to, ds : t = Step(l, to, ds) /\ SoundStep(SideAt(real.away.side), l, to, ds)
    BY <2>1, <2>2, StepIsSound
  <2>4. IsPlace(t.to)
    BY <2>3 DEF Step, SoundStep
  <2> QED BY <1>1, <2>1, <2>2, <2>4, ReadsApart
<1> QED BY <1>2, <1>3 DEF OnBoth

\* A line of any file.
LEMMA LineKeeps ==
  ASSUME AuditInv, Line
  PROVE  AuditInv'
<1>2. AtPlace /\ job' = job /\ names' = None
  BY DEF Line, ReadsDiff, AtPlace, AuditInv
<1>1. PICK s, changed :
        /\ changed \in BOOLEAN
        /\ walk' = [walk EXCEPT !.c = Feed(walk.c, changed, s.line), !.lines = @ + 1]
        /\ LineReads(Feed(walk.c, changed, s.line), real')
  <2>0. PICK m \in {" ", "-", "+"} : \E s \in Steps(SideAt(m)) :
          /\ walk' = [walk EXCEPT !.c = Feed(walk.c, m # " ", s.line), !.lines = @ + 1]
          /\ IF m = " " THEN OnBoth(s) ELSE OnOne(m, s)
    BY DEF Line
  <2>1. PICK s \in Steps(SideAt(m)) :
          /\ walk' = [walk EXCEPT !.c = Feed(walk.c, m # " ", s.line), !.lines = @ + 1]
          /\ IF m = " " THEN OnBoth(s) ELSE OnOne(m, s)
    BY <2>0
  <2>2. CASE m = " "
    <3>1. Leads(m)
      BY <1>2, <2>2 DEF Leads, AtPlace, IsPlace, IsAway
    <3>2. s \in Steps(real)
      BY <2>1, <3>1 DEF SideAt
    <3>3. OnBoth(s) /\ walk' = [walk EXCEPT !.c = Feed(walk.c, FALSE, s.line), !.lines = @ + 1]
      BY <2>1, <2>2
    <3>4. LineReads(Feed(walk.c, FALSE, s.line), real')
      BY <1>2, <3>2, <3>3, LineOfBoth
    <3> QED BY <3>3, <3>4
  <2>3. CASE m \in {"-", "+"}
    <3>1. OnOne(m, s) /\ walk' = [walk EXCEPT !.c = Feed(walk.c, TRUE, s.line), !.lines = @ + 1]
      BY <2>1, <2>3
    <3>2. LineReads(Feed(walk.c, TRUE, s.line), real')
      BY <1>2, <2>1, <2>3, <3>1, LineOfOne
    <3> QED BY <3>1, <3>2
  <2> QED BY <2>1, <2>2, <2>3
<1>3. PICK c, d, q : c = walk.c /\ d = Feed(walk.c, changed, s.line) /\ q = real'
  OBVIOUS
<1>4. LineReads(d, q)
  BY <1>1, <1>3
<1>5. /\ walk = [c |-> walk.c, found |-> walk.found, lines |-> walk.lines] /\ c # None
      /\ c \in Classifiers(Spellings(Names)) /\ c.kind \in KindsOf(job.eco) /\ None \notin Classifiers(Spellings(Names))
  BY <1>2, <1>3 DEF AtPlace, WalkInv, JobInv
<1>6. walk' = [c |-> d, found |-> walk.found, lines |-> walk.lines + 1] /\ real' = q
  BY <1>1, <1>3, <1>5
<1>7. walk'.c = d /\ walk'.found = walk.found /\ walk'.lines = walk.lines + 1
  BY <1>6
<1>8. /\ d # None /\ d \in Classifiers(Spellings(Names)) /\ d.kind = c.kind /\ IsPlace(q) /\ Follows(d, q)
      /\ real.doubt \subseteq q.doubt /\ real.changed \subseteq q.changed /\ real.hidden \subseteq q.hidden
      /\ Flush(c).names \subseteq Flush(d).names
  BY <1>3, <1>4, <1>5 DEF LineReads
<1>9. Names' = Names /\ Found = walk.found \cup Flush(c).names /\ Found' = walk.found \cup Flush(d).names
  <2>1. Found' = walk'.found \cup (IF walk'.c = None THEN {} ELSE Flush(walk'.c).names)
    BY DEF Found
  <2> QED BY <1>2, <1>3, <1>5, <1>7, <1>8, <2>1 DEF Names, Found
<1>10. JobInv'
  BY <1>2, <1>9 DEF JobInv, AtPlace
<1>11. IsPlace(real')
  BY <1>6, <1>8
<1>12. IsPlace(real)'
  BY <1>2, <1>9, <1>11 DEF IsPlace, IsAway, Spots
<1>13. WalkInv'
  BY <1>2, <1>5, <1>6, <1>7, <1>8, <1>9 DEF WalkInv
<1>14. "sides" \notin q.doubt => \A n \in q.changed : MatchName(job.eco, n) \in walk.found \cup Flush(d).names
  <2> SUFFICES ASSUME "sides" \notin q.doubt, NEW n \in q.changed
               PROVE  MatchName(job.eco, n) \in walk.found \cup Flush(d).names
    OBVIOUS
  <2>1. n \in real.changed \/ MatchName(job.eco, n) \in Flush(d).names
    BY <1>4 DEF LineReads
  <2>2. CASE n \in real.changed
    <3>1. Spelled(real.changed) \subseteq Found
      BY <1>8 DEF AuditInv, FoundInv
    <3>2. MatchName(job.eco, n) \in Found
      BY <2>2, <3>1 DEF Spelled
    <3> QED BY <1>8, <1>9, <3>2
  <2> QED BY <2>1, <2>2
<1>15. q.doubt = {} => \A x \in walk.found \cup Flush(d).names : \E n \in q.changed \cup q.hidden : x = MatchName(job.eco, n)
  <2> SUFFICES ASSUME q.doubt = {}, NEW x \in walk.found \cup Flush(d).names
               PROVE  \E n \in q.changed \cup q.hidden : x = MatchName(job.eco, n)
    OBVIOUS
  <2>1. real.doubt = {} /\ Found \subseteq Spelled(real.changed \cup real.hidden)
    BY <1>8 DEF AuditInv, FoundInv
  <2>2. x \in Found \/ \E n \in q.changed \cup q.hidden : x = MatchName(job.eco, n)
    BY <1>3, <1>4, <1>9 DEF LineReads
  <2>3. x \in Found => \E n \in real.changed \cup real.hidden : x = MatchName(job.eco, n)
    BY <2>1 DEF Spelled
  <2> QED BY <1>8, <2>2, <2>3
<1>16. FoundInv'
  BY <1>2, <1>6, <1>9, <1>14, <1>15 DEF FoundInv, Spelled
<1> QED BY <1>2, <1>10, <1>12, <1>13, <1>16 DEF AuditInv

\* A classifier at the beginning of a part of a file, and the place.
LEMMA Begins ==
  ASSUME NEW kind \in {"package.json", "pyproject.toml", "requirements.txt", "lock", "Gemfile", "Gemfile.lock"},
         NEW place \in Places(kind), NEW c \in Classifiers(Spellings(Names)), IsPlace(real),
         c.kind = kind, c.block = FALSE, c.section = "", c.array = None, c.name = None, c.touched = FALSE
  PROVE  /\ Follows(c, MovedTo(kind, place)) /\ IsPlace(MovedTo(kind, place)) /\ Flush(c).names = c.names
         /\ MovedTo(kind, place).changed = real.changed /\ MovedTo(kind, place).hidden = real.hidden
         /\ MovedTo(kind, place).doubt = real.doubt
<1>1. place \in {"top", "dependencies", "other", "project", "optional", "poetry", "tool"}
  BY DEF Places
<1>2. PICK r : r = MovedTo(kind, place)
  OBVIOUS
<1>3. /\ IsPlace(r) /\ r.at = place /\ r.array = None /\ r.shown = FALSE /\ r.block = {} /\ r.touched = FALSE
      /\ r.changed = real.changed /\ r.hidden = real.hidden /\ r.doubt = real.doubt
  BY <1>1, <1>2 DEF MovedTo, IsPlace, IsAway, Spots
<1>4. None \notin {"requirements", "wanted"}
  BY AuditAssumption
<1>5. Follows(c, r)
  BY <1>1, <1>3, <1>4 DEF Follows, FollowsSide
<1> QED BY <1>2, <1>3, <1>5, FlushOfNoName

\* A file, or a hunk of one, begins.
LEMMA PartBegins ==
  ASSUME AuditInv, UNCHANGED <<job, names>>, names = None,
         NEW c, c = None \/ (c \in Classifiers(Spellings(Names)) /\ c.kind \in KindsOf(job.eco) /\ Follows(c, real')),
         NEW found, NEW lines, walk' = [c |-> c, found |-> found, lines |-> lines],
         found \cup (IF c = None THEN {} ELSE Flush(c).names) = Found,
         IsPlace(real'), real'.changed = real.changed, real'.hidden = real.hidden, real'.doubt = real.doubt
  PROVE  AuditInv'
<1>1. walk'.c = c /\ walk'.found = found /\ walk'.lines = lines
  OBVIOUS
<1>2. Names' = Names
  BY DEF Names
<1>3. Found' = Found
  BY <1>1 DEF Found
<1>4. JobInv'
  BY <1>2 DEF AuditInv, JobInv
<1>5. IsPlace(real)'
  BY <1>2 DEF IsPlace, IsAway, Spots
<1>6. WalkInv'
  BY <1>1, <1>2 DEF WalkInv
<1>7. FoundInv'
  BY <1>3 DEF AuditInv, FoundInv, Spelled
<1> QED BY <1>4, <1>5, <1>6, <1>7 DEF AuditInv

LEMMA FileKeeps ==
  ASSUME AuditInv, NEW kind \in {"package.json", "pyproject.toml", "requirements.txt", "lock", "Gemfile", "Gemfile.lock"},
         File(kind)
  PROVE  AuditInv'
<1>1. PICK place \in Places(kind) : real' = MovedTo(kind, place)
  BY DEF File
<1>2. PICK c : c = Profile(job.eco, kind)
  OBVIOUS
<1>3. names = None /\ UNCHANGED <<job, names>> /\ walk' = [c |-> c, found |-> Found, lines |-> walk.lines + 1]
  BY <1>2 DEF File, ReadsDiff
<1>4. c = None \/ (c = Fresh(kind) /\ kind \in KindsOf(job.eco))
  BY <1>2 DEF Profile, KindsOf
<1>5. None \notin Classifiers(Spellings(Names)) /\ IsPlace(real)
  BY DEF AuditInv, JobInv
<1>6. PICK f : f = Fresh(kind)
  OBVIOUS
<1>7. /\ f \in Classifiers(Spellings(Names)) /\ f.kind = kind /\ f.block = FALSE /\ f.section = "" /\ f.array = None
      /\ f.name = None /\ f.touched = FALSE /\ f.names = {}
  BY <1>6 DEF Fresh, Classifiers
<1>8. /\ Follows(f, real') /\ IsPlace(real') /\ Flush(f).names = {}
      /\ real'.changed = real.changed /\ real'.hidden = real.hidden /\ real'.doubt = real.doubt
  BY <1>1, <1>5, <1>7, Begins
<1>9. c = None \/ (c \in Classifiers(Spellings(Names)) /\ c.kind \in KindsOf(job.eco) /\ Follows(c, real'))
  BY <1>4, <1>6, <1>7, <1>8
<1>10. Found \cup (IF c = None THEN {} ELSE Flush(c).names) = Found
  BY <1>4, <1>6, <1>8
<1> QED BY <1>3, <1>8, <1>9, <1>10, PartBegins

LEMMA HunkKeeps ==
  ASSUME AuditInv, Hunk
  PROVE  AuditInv'
<1>1. PICK c, h : c = walk.c /\ h = Reset(c)
  OBVIOUS
<1>2. /\ walk = [c |-> walk.c, found |-> walk.found, lines |-> walk.lines] /\ c # None
      /\ c \in Classifiers(Spellings(Names)) /\ c.kind \in KindsOf(job.eco) /\ None \notin Classifiers(Spellings(Names))
      /\ IsPlace(real)
  BY <1>1 DEF AuditInv, WalkInv, JobInv, Hunk
<1>3. PICK place \in Places(c.kind) : real' = MovedTo(c.kind, place)
  BY <1>1 DEF Hunk
<1>4. names = None /\ UNCHANGED <<job, names>> /\ walk' = [c |-> h, found |-> walk.found, lines |-> walk.lines + 1]
  BY <1>1, <1>2 DEF Hunk, ReadsDiff
<1>5. PICK ns : ns = Flush(c).names
  OBVIOUS
<1>6. ns \in SUBSET Spellings(Names)
  <2>1. c.name \in Spellings(Names) \cup {None} /\ c.names \in SUBSET Spellings(Names)
    BY <1>2 DEF Classifiers
  <2>2. c.name # None => NormalizePypiName(c.name) \in Spellings(Names)
    BY <2>1, NormalizeStays
  <2>3. ns = IF c.touched /\ c.name # None THEN c.names \cup {NormalizePypiName(c.name)} ELSE c.names
    BY <1>2, <1>5 DEF Flush, Classifiers
  <2> QED BY <2>1, <2>2, <2>3
<1>7. Flush(c) = [c EXCEPT !.names = ns, !.name = None, !.touched = FALSE]
  BY <1>2, <1>5 DEF Flush, Classifiers
<1>8. /\ h \in Classifiers(Spellings(Names)) /\ h.kind = c.kind /\ h.block = FALSE /\ h.section = "" /\ h.array = None
      /\ h.name = None /\ h.touched = FALSE /\ h.names = ns
  BY <1>1, <1>2, <1>6, <1>7 DEF Reset, Classifiers
<1>9. c.kind \in {"package.json", "pyproject.toml", "requirements.txt", "lock", "Gemfile", "Gemfile.lock"}
  BY <1>2 DEF Classifiers
<1>10. /\ Follows(h, real') /\ IsPlace(real') /\ Flush(h).names = ns
       /\ real'.changed = real.changed /\ real'.hidden = real.hidden /\ real'.doubt = real.doubt
  BY <1>2, <1>3, <1>8, <1>9, Begins
<1>11. walk.found \cup (IF h = None THEN {} ELSE Flush(h).names) = Found
  BY <1>1, <1>2, <1>5, <1>8, <1>10 DEF Found
<1> QED BY <1>2, <1>4, <1>8, <1>10, <1>11, PartBegins

\* The packages to audit are what was found, when anything was.
LEMMA ScopeKeeps ==
  ASSUME AuditInv, ScopeFound
  PROVE  AuditInv'
<1>1. job' = job /\ real' = real /\ names = None
  BY DEF ScopeFound, ReadsDiff
<1>2. walk' = [c |-> None, found |-> Found, lines |-> walk.lines]
  BY DEF ScopeFound, AuditInv, WalkInv
<1>3. walk'.c = None /\ walk'.found = Found
  BY <1>2
<1>4. Names' = Names /\ Found' = Found
  BY <1>1, <1>3 DEF Names, Found
<1>5. JobInv' /\ IsPlace(real)' /\ WalkInv' /\ FoundInv'
  BY <1>1, <1>2, <1>3, <1>4 DEF AuditInv, JobInv, IsPlace, IsAway, WalkInv, FoundInv, Spelled
<1>6. job.diff /\ "sides" \notin real.doubt => Spelled(real.changed) \subseteq names'
  <2> SUFFICES ASSUME job.diff, "sides" \notin real.doubt PROVE Spelled(real.changed) \subseteq names'
    OBVIOUS
  <2>1. job.surface \notin {"audit", "audit_dependency"} /\ Spelled(real.changed) \subseteq Found
    BY DEF AuditInv, JobInv, FoundInv
  <2>2. CASE Found # {} \/ job.surface = "library"
    BY <2>1, <2>2 DEF ScopeFound
  <2>3. CASE Found = {}
    BY <2>1, <2>3
  <2> QED BY <2>2, <2>3
<1>7. Spelled(real.changed)' = Spelled(real.changed)
  BY <1>1 DEF Spelled
<1> QED BY <1>1, <1>5, <1>6, <1>7 DEF AuditInv

LEMMA AuditStays ==
  ASSUME AuditInv, UNCHANGED <<job, walk, real, names>>
  PROVE  AuditInv'
<1>1. job' = job /\ walk' = walk /\ real' = real /\ names' = names
  OBVIOUS
<1>2. Names' = Names /\ Found' = Found
  BY <1>1 DEF Names, Found
<1>3. JobInv'
  BY <1>1, <1>2 DEF AuditInv, JobInv
<1>4. IsPlace(real)'
  BY <1>1, <1>2 DEF AuditInv, IsPlace, IsAway
<1>5. WalkInv'
  BY <1>1, <1>2 DEF AuditInv, WalkInv
<1>6. Spelled(real.changed)' = Spelled(real.changed) /\ Spelled(real.changed \cup real.hidden)' = Spelled(real.changed \cup real.hidden)
  BY <1>1 DEF Spelled
<1>7. FoundInv'
  BY <1>1, <1>2, <1>6 DEF AuditInv, FoundInv
<1> QED BY <1>1, <1>3, <1>4, <1>5, <1>6, <1>7 DEF AuditInv

LEMMA AuditNextKeeps ==
  ASSUME AuditInv, AuditNext
  PROVE  AuditInv'
<1>1. CASE UNCHANGED <<job, walk, real, names>>
  BY <1>1, AuditStays
<1>2. CASE \E kind \in {"package.json", "pyproject.toml", "requirements.txt", "lock", "Gemfile", "Gemfile.lock"} : File(kind)
  BY <1>2, FileKeeps
<1>3. SnapshotMissing \/ AuditOne \/ CmdAudit \/ CmdAuditProject \/ AuditDependencyTool \/ AuditProjectTool \/ VerifyDeps
        => UNCHANGED <<job, walk, real, names>>
  BY DEF SnapshotMissing, AuditOne, CmdAudit, CmdAuditProject, AuditDependencyTool, AuditProjectTool, VerifyDeps, Say
<1> QED BY <1>1, <1>2, <1>3, HunkKeeps, LineKeeps, ScopeKeeps DEF AuditNext

LEMMA AuditInitHolds == AuditInit => AuditInv
<1> SUFFICES ASSUME AuditInit PROVE AuditInv
  OBVIOUS
<1>1. PICK s \in AuditSuites : \E q \in s.questions, p \in s.projects, r \in s.registries, a \in s.databases :
        job = [surface |-> q.surface, eco |-> q.eco, diff |-> q.diff, snapshot |-> q.snapshot,
               version |-> q.version, package |-> q.package, includeDev |-> q.includeDev,
               project |-> p.versions, manifest |-> p.manifest, registry |-> r, advisories |-> a]
  BY Zenon DEF AuditInit
<1>2. PICK q \in s.questions, p \in s.projects, r \in s.registries, a \in s.databases :
        job = [surface |-> q.surface, eco |-> q.eco, diff |-> q.diff, snapshot |-> q.snapshot,
               version |-> q.version, package |-> q.package, includeDev |-> q.includeDev,
               project |-> p.versions, manifest |-> p.manifest, registry |-> r, advisories |-> a]
  BY <1>1
<1>3. Names = DOMAIN p.versions /\ job.surface = q.surface /\ job.diff = q.diff
  BY <1>2 DEF Names
<1>4. JobInv
  BY <1>3, AuditAssumption DEF JobInv
<1>5. walk = [c |-> None, found |-> {}, lines |-> 0] /\ real = Nowhere /\ names = None
  BY DEF AuditInit, Unread, Unaudited
<1>6. IsPlace(real) /\ real.changed = {} /\ real.hidden = {} /\ real.doubt = {}
  BY <1>5 DEF Nowhere, IsPlace, IsAway, Spots
<1>7. Found = {} /\ WalkInv
  BY <1>5 DEF Found, WalkInv
<1> QED BY <1>4, <1>5, <1>6, <1>7 DEF AuditInv, FoundInv, Spelled

\* The classifier keeps to the place of its lines, in every state of a reading.
THEOREM AuditPillarHolds == Spec => []AuditPillarInv
<1>1. Init => AuditPillarInv
  BY AuditInitHolds DEF Init, AuditRests, Unaudited, AuditPillarInv
<1>2. AuditPillarInv /\ [Next]_vars => AuditPillarInv'
  <2> SUFFICES ASSUME AuditPillarInv, [Next]_vars PROVE AuditPillarInv'
    OBVIOUS
  <2>1. CASE UNCHANGED avars
    <3>1. UNCHANGED <<job, walk, real, names>>
      BY <2>1 DEF avars
    <3> QED BY <3>1, AuditStays DEF AuditPillarInv, Unread
  <2>2. CASE job # None /\ AuditNext
    BY <2>2, AuditNextKeeps DEF AuditPillarInv
  <2> QED BY <2>1, <2>2 DEF Next, Finished, vars
<1> QED BY <1>1, <1>2, PTL DEF Spec

\* A dependency whose declaration a diff changes in sight is in the scope of the
\* audit (changed.ts): whatever the diff, the project and the surface.
THEOREM DiffChangesAreInScope == Spec => []ChangesAreInScope
<1>1. AuditPillarInv => ChangesAreInScope
  BY DEF AuditPillarInv, AuditInv, ChangesAreInScope
<1> QED BY <1>1, AuditPillarHolds, PTL

\* A diff read without doubt puts no package into the scope whose declaration it
\* leaves alone (changed.ts): whatever the diff and the project.
THEOREM DiffInventsNothing == Spec => []NothingIsInvented
<1>1. AuditPillarInv => NothingIsInvented
  BY DEF AuditPillarInv, Unread, AuditInv, FoundInv, Found, NothingIsInvented
<1> QED BY <1>1, AuditPillarHolds, PTL

-----------------------------------------------------------------------------
(* Mutation runs.                                                          *)

CallFields(r) ==
  [at |-> r.at, scope |-> r.scope, config |-> r.config, session |-> r.session,
   found |-> r.found, reused |-> r.reused, wrote |-> r.wrote, code |-> r.code, told |-> r.told]

Tool(c) == mutates[c].tool

DiskFields(d) == [report |-> d.report, incremental |-> d.incremental, cache |-> d.cache, config |-> d.config]

\* The project and the jobs are as the assumption on the suites says.
ProjectInv ==
  /\ disk = DiskFields(disk)
  /\ None \notin tree.exists
  /\ IsFiniteSet(tree.mutants)
  /\ \A m \in tree.mutants : m.fate \in {"killed", "survived", "uncovered", "invalid"}
  /\ \A c \in DOMAIN mcalls : mutates[c].diff # None => \A l \in mutates[c].diff : l = <<l[1], l[2]>>

\* A call that has not touched Stryker's report, and one that has it for itself.
Idle(o)  == Tool(o) # "stryker" \/ mcalls[o].at \in {"asked", "refused", "noop"}
Alone(c) == \A o \in DOMAIN mcalls \ {c} : Idle(o)

StrykerSession(ms) == {Entry(m, StrykerSays(m.fate)) : m \in ms}
MutmutSession(ms) == {Entry(m, MutmutSays(m.fate)) : m \in ms}
CosmicSession(ms) == {Entry(m, CosmicSays(m.fate)) : m \in ms}
Unchecked(ms)     == {Entry(m, "not checked") : m \in ms}

\* The files of the shared report are files with mutants.
ReportIsReal == \A f \in DOMAIN disk.report : \E m \in tree.mutants : m.file = f

\* What each tool has left when its run is over.
StrykerLeft(c) ==
  /\ \A m \in StrykerReach(c) : \E x \in mcalls[c].found \cup mcalls[c].reused : x.file = m.file
  /\ ReportIsReal
  /\ Alone(c) => disk.report = StrykerReport(mcalls[c].reused \cup StrykerSession(mcalls[c].found))

MutmutLeft(c) ==
  /\ \A m \in mcalls[c].found : m \in tree.mutants /\ m.file \in mcalls[c].scope
  /\ \/ mcalls[c].session = MutmutSession(mcalls[c].found)
     \/ \E new \in SUBSET tree.mutants : mcalls[c].session = Unchecked(new)

CosmicLeft(c) == mcalls[c].session = {} \/ mcalls[c].session = CosmicSession(mcalls[c].found)

\* The two properties, of one call that is done.
WasMutated(c) ==
  Answered(c) /\ mcalls[c].scope # None /\ (Tool(c) = "mutmut" => Distinct)
    => \A p \in mcalls[c].scope : \E x \in mcalls[c].found \cup mcalls[c].reused : x.file = p

ToldTheRuns(c) ==
  Answered(c) /\ (Tool(c) = "stryker" => Alone(c)) /\ (Tool(c) = "mutmut" => mcalls[c].scope # None)
    => mcalls[c].told.survivors = {Named(c, m) : m \in Survivors(c)}

\* Which tool a step is of, and what the run has selected and is given.
StageInv(c) ==
  /\ mcalls[c] = CallFields(mcalls[c])
  /\ mcalls[c].at = "stryker" => Tool(c) = "stryker"
  /\ mcalls[c].at \in {"run", "results"} => Tool(c) = "mutmut"
  /\ mcalls[c].at \in {"init", "exec", "dump"} => Tool(c) \notin {"stryker", "mutmut"}
  /\ mcalls[c].at = "asked" => mcalls[c].scope = None
  /\ mcalls[c].at \in {"asked", "run"} => mcalls[c].found = {}
  /\ Tool(c) # "stryker" \/ mcalls[c].at = "asked" => mcalls[c].reused = {}
  /\ mcalls[c].scope # None => \A p \in mcalls[c].scope : p \in tree.exists /\ Mutable(mutates[c], p)
  /\ mcalls[c].at = "run" /\ mcalls[c].scope # None => mcalls[c].config.roots = Files(mcalls[c].scope)

\* What it has left, once its code is 0.
LeftInv(c) ==
  /\ Tool(c) = "stryker" /\ mcalls[c].at = "finish" /\ mcalls[c].code = 0 /\ mcalls[c].wrote => StrykerLeft(c)
  /\ /\ Tool(c) = "mutmut" /\ mcalls[c].scope # None
     /\ mcalls[c].at = "results" \/ (mcalls[c].at = "finish" /\ mcalls[c].code = 0)
     => MutmutLeft(c)
  /\ Tool(c) \notin {"stryker", "mutmut"} /\ mcalls[c].at \in {"dump", "finish"} /\ mcalls[c].code = 0 => CosmicLeft(c)
  /\ mcalls[c].at = "done" /\ mcalls[c].code = 0 => WasMutated(c) /\ ToldTheRuns(c)

MutationInv == ProjectInv /\ \A c \in DOMAIN mcalls : StageInv(c) /\ LeftInv(c)

MutationPillarInv == mcalls = <<>> \/ MutationInv
-----------------------------------------------------------------------------
(* What is read in a report.                                               *)

Unnoticed == {"Survived", "NoCoverage"}

\* The survivors of a report are those of its pairs.
LEMMA SurvivorsOfPairs ==
  ASSUME NEW pairs
  PROVE  SummarizeMutation(Grouped(pairs)).survivors
           = {[file |-> p[1], line |-> p[2].from] : p \in {p \in pairs : p[2].status \in Unnoticed}}
<1> DEFINE R == Grouped(pairs)
           Left(f) == {[file |-> f, line |-> m.from] : m \in {m \in R[f] : m.status \in Unnoticed}}
           V == {[file |-> p[1], line |-> p[2].from] : p \in {p \in pairs : p[2].status \in Unnoticed}}
<1>1. SummarizeMutation(R).survivors = UNION {Left(f) : f \in DOMAIN R}
  BY DEF SummarizeMutation, Unnoticed
<1>2. DOMAIN R = {p[1] : p \in pairs}
  BY DEF Grouped
<1>3. \A f \in DOMAIN R : R[f] = {p[2] : p \in {q \in pairs : q[1] = f}}
  BY DEF Grouped
<1> HIDE DEF R
<1>4. \A v : v \in UNION {Left(f) : f \in DOMAIN R} <=> v \in V
  <2>1. ASSUME NEW v, v \in UNION {Left(f) : f \in DOMAIN R} PROVE v \in V
    <3>1. PICK f \in DOMAIN R : v \in Left(f)
      BY <2>1
    <3>2. PICK m \in R[f] : m.status \in Unnoticed /\ v = [file |-> f, line |-> m.from]
      BY <3>1
    <3>3. PICK p \in pairs : p[1] = f /\ p[2] = m
      BY <1>3, <3>2
    <3> QED BY <3>2, <3>3
  <2>2. ASSUME NEW v, v \in V PROVE v \in UNION {Left(f) : f \in DOMAIN R}
    <3>1. PICK p \in pairs : p[2].status \in Unnoticed /\ v = [file |-> p[1], line |-> p[2].from]
      BY <2>2
    <3>2. p[1] \in DOMAIN R /\ p[2] \in R[p[1]]
      BY <1>2, <1>3
    <3>3. v \in Left(p[1])
      BY <3>1, <3>2
    <3> QED BY <3>2, <3>3
  <2> QED BY <2>1, <2>2
<1> QED BY <1>1, <1>4 DEF R

\* Narrowed to changed lines, they are those with a changed line.
LEMMA SurvivorsOnChangedLines ==
  ASSUME NEW pairs, NEW diff, \A l \in diff : l = <<l[1], l[2]>>
  PROVE  SummarizeMutation(FilterToChangedLines(Grouped(pairs), ChangedLinesByFile(diff))).survivors
           = {[file |-> p[1], line |-> p[2].from] :
                p \in {p \in pairs : /\ p[2].status \in Unnoticed
                                     /\ \E n \in p[2].from .. p[2].to : <<p[1], n>> \in diff}}
<1> DEFINE C == ChangedLinesByFile(diff)
           G == Grouped(pairs)
           R == FilterToChangedLines(G, C)
           Left(f) == {[file |-> f, line |-> m.from] : m \in {m \in R[f] : m.status \in Unnoticed}}
           Hit(p) == \E n \in p[2].from .. p[2].to : <<p[1], n>> \in diff
           V == {[file |-> p[1], line |-> p[2].from] : p \in {p \in pairs : p[2].status \in Unnoticed /\ Hit(p)}}
<1>1. SummarizeMutation(R).survivors = UNION {Left(f) : f \in DOMAIN R}
  BY DEF SummarizeMutation, Unnoticed
<1>2. DOMAIN G = {p[1] : p \in pairs} /\ \A f \in DOMAIN G : G[f] = {p[2] : p \in {q \in pairs : q[1] = f}}
  BY DEF Grouped
<1>3. DOMAIN C = {l[1] : l \in diff} /\ \A f \in DOMAIN C : C[f] = {l[2] : l \in {l \in diff : l[1] = f}}
  BY DEF ChangedLinesByFile
<1>4. \A f \in DOMAIN C : \A n : n \in C[f] <=> <<f, n>> \in diff
  BY <1>3
<1>5. \A f, n : <<f, n>> \in diff => f \in DOMAIN C
  BY <1>3
<1>6. /\ DOMAIN R = {f \in DOMAIN G \cap DOMAIN C : \E m \in G[f] : SpanHitsChanged(m, C[f])}
      /\ \A f \in DOMAIN R : R[f] = {m \in G[f] : SpanHitsChanged(m, C[f])}
  <2> HIDE DEF G, C
  <2> QED BY DEF FilterToChangedLines
<1> HIDE DEF R, G, C
<1>7. \A v : v \in UNION {Left(f) : f \in DOMAIN R} <=> v \in V
  <2>1. ASSUME NEW v, v \in UNION {Left(f) : f \in DOMAIN R} PROVE v \in V
    <3>1. PICK f \in DOMAIN R : v \in Left(f)
      BY <2>1
    <3>2. PICK m \in R[f] : m.status \in Unnoticed /\ v = [file |-> f, line |-> m.from]
      BY <3>1
    <3>3. f \in DOMAIN G /\ f \in DOMAIN C /\ m \in G[f] /\ SpanHitsChanged(m, C[f])
      BY <1>6, <3>2
    <3>4. PICK p \in pairs : p[1] = f /\ p[2] = m
      BY <1>2, <3>3
    <3>5. Hit(p)
      BY <1>4, <3>3, <3>4 DEF SpanHitsChanged
    <3> QED BY <3>2, <3>4, <3>5
  <2>2. ASSUME NEW v, v \in V PROVE v \in UNION {Left(f) : f \in DOMAIN R}
    <3>1. PICK p \in pairs : p[2].status \in Unnoticed /\ Hit(p) /\ v = [file |-> p[1], line |-> p[2].from]
      BY <2>2
    <3>2. p[1] \in DOMAIN G /\ p[2] \in G[p[1]] /\ p[1] \in DOMAIN C
      BY <1>2, <1>5, <3>1
    <3>3. SpanHitsChanged(p[2], C[p[1]])
      BY <1>4, <3>1, <3>2 DEF SpanHitsChanged
    <3>4. p[1] \in DOMAIN R /\ p[2] \in R[p[1]]
      BY <1>6, <3>2, <3>3
    <3>5. v \in Left(p[1])
      BY <3>1, <3>4
    <3> QED BY <3>4, <3>5
  <2> QED BY <2>1, <2>2
<1> QED BY <1>1, <1>7 DEF R, G, C

\* A report of nothing has no mutants, and decides nothing.
LEMMA NothingIsIncomplete == ~ AssertComplete(SummarizeMutation(Grouped({})))
<1> DEFINE R == Grouped({})
           Each(s) == [f \in DOMAIN R |-> Tally(R[f])[s]]
           counts == [s \in Statuses |-> SumFunction(Each(s))]
<1>1. DOMAIN R = {}
  BY DEF Grouped
<1>2. \A s \in Statuses : counts[s] = 0
  <2> SUFFICES ASSUME NEW s \in Statuses PROVE SumFunction(Each(s)) = 0
    BY Zenon
  <2>1. SumFunction(Each(s)) = Sum(Each(s), {})
    BY <1>1 DEF SumFunction, Sum
  <2> QED BY <2>1, SumEmpty
<1>3. SummarizeMutation(R).metrics = MetricsFrom(counts)
  BY DEF SummarizeMutation
<1> HIDE DEF counts, R
<1>4. MetricsFrom(counts).total = 0
  BY <1>2 DEF MetricsFrom, Statuses
<1> QED BY <1>3, <1>4 DEF AssertComplete, R

\* A report with a pending mutant is not complete.
LEMMA PendingIsIncomplete ==
  ASSUME NEW pairs, IsFiniteSet(pairs), NEW p \in pairs, p[2].status = "Pending"
  PROVE  ~ AssertComplete(SummarizeMutation(Grouped(pairs)))
<1> DEFINE R == Grouped(pairs)
           each == [f \in DOMAIN R |-> Tally(R[f])["Pending"]]
           Waiting(f) == {m \in R[f] : m.status = "Pending"}
<1>1. DOMAIN R = {q[1] : q \in pairs} /\ \A f \in DOMAIN R : R[f] = {q[2] : q \in {q \in pairs : q[1] = f}}
  BY DEF Grouped
<1>2. SummarizeMutation(R).metrics.pending = Sum(each, DOMAIN R)
  <2>1. SummarizeMutation(R).metrics.pending = SumFunction(each)
    BY DEF SummarizeMutation, MetricsFrom, Statuses
  <2>2. SumFunction(each) = Sum(each, DOMAIN R)
    BY DEF SumFunction, Sum
  <2> QED BY <2>1, <2>2
<1> HIDE DEF R
<1>3. IsFiniteSet(DOMAIN R)
  <2>1. [q \in pairs |-> q[1]] \in Surjection(pairs, DOMAIN R)
    BY <1>1 DEF Surjection
  <2> QED BY <2>1, FS_Surjection
<1>4. \A f \in DOMAIN R : each[f] = Cardinality(Waiting(f)) /\ IsFiniteSet(Waiting(f))
  <2> TAKE f \in DOMAIN R
  <2>1. [q \in pairs |-> q[2]] \in Surjection(pairs, {q[2] : q \in pairs})
    BY DEF Surjection
  <2>2. IsFiniteSet({q[2] : q \in pairs})
    BY <2>1, FS_Surjection
  <2>3. Waiting(f) \subseteq {q[2] : q \in pairs}
    BY <1>1
  <2>4. IsFiniteSet(Waiting(f))
    BY <2>2, <2>3, FS_Subset
  <2>5. each[f] = Cardinality(Waiting(f))
    BY DEF Tally, Statuses
  <2> QED BY <2>4, <2>5
<1>5. \A f \in DOMAIN R : each[f] \in Nat
  BY <1>4, FS_CardinalityType
<1>6. p[1] \in DOMAIN R /\ Sum(each, DOMAIN R) = each[p[1]] + Sum(each, DOMAIN R \ {p[1]})
  <2>1. p[1] \in DOMAIN R
    BY <1>1
  <2> HIDE DEF each
  <2> QED BY <1>3, <1>5, <2>1, SumAny
<1>7. Sum(each, DOMAIN R \ {p[1]}) \in Nat
  <2>1. IsFiniteSet(DOMAIN R \ {p[1]}) /\ \A f \in DOMAIN R \ {p[1]} : each[f] \in Nat
    BY <1>3, <1>5, FS_Subset
  <2> HIDE DEF each
  <2> QED BY <2>1, SumType
<1>8. each[p[1]] # 0
  <2>1. p[2] \in Waiting(p[1])
    BY <1>1, <1>6
  <2>2. Cardinality(Waiting(p[1])) # 0
    BY <1>4, <1>6, <2>1, FS_EmptySet
  <2> QED BY <1>4, <1>6, <2>2
<1>9. each[p[1]] \in Nat
  BY <1>5, <1>6
<1>10. SummarizeMutation(R).metrics.pending # 0
  <2> HIDE DEF each
  <2> QED BY <1>2, <1>6, <1>7, <1>8, <1>9
<1> QED BY <1>10 DEF AssertComplete, R
-----------------------------------------------------------------------------
(* What a step of one call leaves of the others.                           *)

\* A step of c: the other calls stay, and Stryker's report is only written
\* by a run of Stryker.
StepOf(c) ==
  /\ tree' = tree /\ mutates' = mutates
  /\ disk' = DiskFields(disk')
  /\ DOMAIN mcalls' = DOMAIN mcalls
  /\ \A o \in DOMAIN mcalls \ {c} : mcalls'[o] = mcalls[o]
  /\ Idle(c)' => Idle(c)
  /\ disk'.report = disk.report \/ (~ Idle(c)' /\ ReportIsReal')

LEMMA AloneStays ==
  ASSUME NEW c \in DOMAIN mcalls, StepOf(c)
  PROVE  /\ Alone(c)' <=> Alone(c)
         /\ \A o \in DOMAIN mcalls \ {c} : Alone(o)' => Alone(o) /\ Idle(c)'
<1>1. \A x \in DOMAIN mcalls \ {c} : Idle(x)' <=> Idle(x)
  BY DEF StepOf, Idle, Tool
<1>2. Alone(c)' <=> Alone(c)
  BY <1>1 DEF StepOf, Alone
<1>3. ASSUME NEW o \in DOMAIN mcalls \ {c}, Alone(o)' PROVE Alone(o) /\ Idle(c)'
  <2>1. \A x \in DOMAIN mcalls \ {o} : Idle(x)'
    BY <1>3 DEF StepOf, Alone
  <2>2. Idle(c)'
    BY <2>1
  <2>3. \A x \in DOMAIN mcalls \ {o} : Idle(x)
    BY <1>1, <2>1, <2>2 DEF StepOf
  <2> QED BY <2>2, <2>3 DEF Alone
<1> QED BY <1>2, <1>3

LEMMA OtherCallsKeep ==
  ASSUME MutationInv, NEW c \in DOMAIN mcalls, StepOf(c), NEW o \in DOMAIN mcalls \ {c}
  PROVE  StageInv(o)' /\ LeftInv(o)'
<1>1. mcalls'[o] = mcalls[o] /\ tree' = tree /\ mutates' = mutates
  BY DEF StepOf
<1>2. StageInv(o) /\ LeftInv(o)
  BY DEF MutationInv
<1>3. Tool(o)' = Tool(o)
  BY <1>1 DEF Tool
<1>4. StageInv(o)'
  BY <1>1, <1>2, <1>3 DEF StageInv, CallFields, Mutable
<1>5. Alone(o)' => Alone(o) /\ disk'.report = disk.report
  BY AloneStays DEF StepOf
<1>6. StrykerLeft(o) => StrykerLeft(o)'
  <2>1. StrykerReach(o)' = StrykerReach(o)
    BY <1>1 DEF StrykerReach, Mutable
  <2>2. ReportIsReal => ReportIsReal'
    BY <1>1 DEF ReportIsReal, StepOf
  <2>3. StrykerReport(mcalls[o].reused \cup StrykerSession(mcalls[o].found))'
          = StrykerReport(mcalls[o].reused \cup StrykerSession(mcalls[o].found))
    BY <1>1 DEF StrykerSession
  <2> QED BY <1>1, <1>5, <2>1, <2>2, <2>3 DEF StrykerLeft
<1>7. MutmutLeft(o) => MutmutLeft(o)'
  BY <1>1 DEF MutmutLeft, MutmutSession, Unchecked, Entry, MutmutSays
<1>8. CosmicLeft(o) => CosmicLeft(o)'
  BY <1>1 DEF CosmicLeft, CosmicSession, Entry, CosmicSays
<1>9. WasMutated(o) => WasMutated(o)'
  <2>1. Distinct' <=> Distinct
    BY <1>1 DEF Distinct
  <2> QED BY <1>1, <1>3, <2>1 DEF WasMutated, Answered
<1>10. ToldTheRuns(o) => ToldTheRuns(o)'
  <2>1. Survivors(o)' = Survivors(o)
    BY <1>1 DEF Survivors, ChangedLines
  <2>2. {Named(o, m) : m \in Survivors(o)}' = {Named(o, m) : m \in Survivors(o)}
    BY <1>1, <2>1 DEF Named
  <2> QED BY <1>1, <1>3, <1>5, <2>2 DEF ToldTheRuns, Answered
<1>11. LeftInv(o)'
  BY <1>1, <1>2, <1>3, <1>6, <1>7, <1>8, <1>9, <1>10 DEF LeftInv
<1> QED BY <1>4, <1>11

\* So it is enough to look at the call that moves.
LEMMA CallMoves ==
  ASSUME MutationInv, NEW c \in DOMAIN mcalls, StepOf(c), StageInv(c)', LeftInv(c)'
  PROVE  MutationInv'
<1>1. \A o \in DOMAIN mcalls' : StageInv(o)' /\ LeftInv(o)'
  BY OtherCallsKeep DEF StepOf
<1>2. ProjectInv'
  BY DEF MutationInv, ProjectInv, StepOf
<1> QED BY <1>1, <1>2 DEF MutationInv

LEMMA MutationInitHolds == MutationInit => MutationInv
<1> SUFFICES ASSUME MutationInit PROVE MutationInv
  OBVIOUS
<1>1. PICK suite \in MutationSuites :
        \E project \in suite.projects, jobs \in [MutateCalls -> suite.jobs], left \in suite.left :
          Mutating(project, jobs, left)
  BY DEF MutationInit
<1>2. PICK project \in suite.projects, jobs \in [MutateCalls -> suite.jobs] : \E left \in suite.left : Mutating(project, jobs, left)
  BY <1>1
<1> PICK left \in suite.left : Mutating(project, jobs, left)
  BY <1>2
<1>3. /\ tree = project /\ mutates = jobs /\ disk = left
      /\ mcalls = [c \in MutateCalls |-> [at |-> "asked", scope |-> None, config |-> None, session |-> {},
                                          found |-> {}, reused |-> {}, wrote |-> FALSE, code |-> 0, told |-> None]]
  BY DEF Mutating
<1>4. ProjectInv
  BY <1>1, <1>2, <1>3, MutationAssumption DEF ProjectInv, DiskFields
<1>5. ASSUME NEW c \in DOMAIN mcalls PROVE StageInv(c) /\ LeftInv(c)
  <2>1. mcalls[c] = [at |-> "asked", scope |-> None, config |-> None, session |-> {}, found |-> {}, reused |-> {}, wrote |-> FALSE, code |-> 0, told |-> None]
    BY <1>3
  <2> QED BY <2>1 DEF StageInv, LeftInv, CallFields
<1> QED BY <1>4, <1>5 DEF MutationInv
-----------------------------------------------------------------------------
(* The steps before a tool runs.                                           *)

\* A call is over without an answer of its own processes.
LEMMA EndsUnrun ==
  ASSUME MutationInv, NEW c \in DOMAIN mcalls, StepOf(c),
         mcalls'[c] = CallFields(mcalls'[c]),
         mcalls'[c].at \in {"refused", "error", "noop", "read"},
         mcalls'[c].scope \in {mcalls[c].scope, {}}, mcalls'[c].reused = mcalls[c].reused
  PROVE  MutationInv'
<1>1. StageInv(c)
  BY DEF MutationInv
<1>2. StageInv(c)'
  BY <1>1 DEF StageInv, StepOf, Mutable, Tool
<1>3. LeftInv(c)'
  BY DEF LeftInv
<1> QED BY <1>2, <1>3, CallMoves

LEMMA SummarizesKeeps ==
  ASSUME MutationInv, NEW c \in DOMAIN mcalls, CmdSummarize(c) \/ MutateSummarize(c)
  PROVE  MutationInv'
<1>1. PICK report : Reads(c, report) /\ Summarizes(c)
  BY DEF CmdSummarize, MutateSummarize
<1>2. mcalls[c] = CallFields(mcalls[c])
  BY DEF MutationInv, StageInv
<1>3. /\ mcalls'[c] = CallFields(mcalls'[c])
      /\ mcalls'[c].at \in {"error", "read"} /\ mcalls'[c].scope = mcalls[c].scope /\ mcalls'[c].reused = mcalls[c].reused
      /\ DOMAIN mcalls' = DOMAIN mcalls /\ \A o \in DOMAIN mcalls \ {c} : mcalls'[o] = mcalls[o]
  BY <1>1, <1>2 DEF Reads, CallFields
<1>4. StepOf(c)
  BY <1>1, <1>3 DEF StepOf, Reads, Idle, Tool, Summarizes, Tools, MutationInv, ProjectInv
<1> QED BY <1>3, <1>4, EndsUnrun

LEMMA RefusedKeeps ==
  ASSUME MutationInv, NEW c \in DOMAIN mcalls, MutationRefused(c)
  PROVE  MutationInv'
<1>1. mcalls[c] = CallFields(mcalls[c])
  BY DEF MutationInv, StageInv
<1>2. /\ mcalls'[c] = CallFields(mcalls'[c])
      /\ mcalls'[c].at = "refused" /\ mcalls'[c].scope = mcalls[c].scope /\ mcalls'[c].reused = mcalls[c].reused
      /\ DOMAIN mcalls' = DOMAIN mcalls /\ \A o \in DOMAIN mcalls \ {c} : mcalls'[o] = mcalls[o]
  BY <1>1 DEF MutationRefused, CallFields
<1>3. StepOf(c)
  BY <1>2 DEF StepOf, MutationRefused, Idle, Tool, MutationInv, ProjectInv
<1> QED BY <1>2, <1>3, EndsUnrun

\* A call starts the first process of its tool.
LEMMA Starts ==
  ASSUME MutationInv, NEW c \in DOMAIN mcalls, StepOf(c), mcalls[c].at = "asked", ~ Summarizes(c),
         NEW scope, NEW config,
         mcalls'[c] = [at |-> FirstStep(Tool(c)), scope |-> scope, config |-> config, session |-> mcalls[c].session,
                       found |-> {}, reused |-> mcalls[c].reused, wrote |-> mcalls[c].wrote, code |-> mcalls[c].code, told |-> mcalls[c].told],
         scope # None => \A p \in scope : p \in tree.exists /\ Mutable(mutates[c], p),
         scope # None /\ Tool(c) = "mutmut" => config.roots = Files(scope)
  PROVE  MutationInv'
<1>1. StageInv(c)
  BY DEF MutationInv
<1>2. /\ mcalls'[c].scope = scope /\ mcalls'[c].config = config /\ mcalls'[c].found = {}
      /\ mcalls'[c].at = FirstStep(Tool(c))
  OBVIOUS
<1>3. /\ Tool(c)' = Tool(c) /\ mutates' = mutates /\ tree' = tree
      /\ Tool(c) = "stryker" => FirstStep(Tool(c)) = "stryker"
      /\ Tool(c) = "mutmut" => FirstStep(Tool(c)) = "run"
      /\ Tool(c) \notin {"stryker", "mutmut"} => FirstStep(Tool(c)) = "init"
  BY DEF StepOf, Tool, FirstStep
<1>4. mcalls'[c] = CallFields(mcalls'[c])
  BY DEF CallFields
<1>5. mcalls'[c].at = "stryker" \/ mcalls'[c].at = "run" \/ mcalls'[c].at = "init"
  BY <1>2, <1>3
<1>6. scope # None => \A p \in scope : p \in tree'.exists /\ Mutable(mutates'[c], p)
  BY <1>3
<1>7. StageInv(c)'
  <2>1. mcalls'[c].found = {} /\ mcalls'[c].reused = {}
    BY <1>1, <1>2 DEF StageInv
  <2>2. /\ mcalls'[c].at = "stryker" => Tool(c)' = "stryker"
        /\ mcalls'[c].at \in {"run", "results"} => Tool(c)' = "mutmut"
        /\ mcalls'[c].at \in {"init", "exec", "dump"} => Tool(c)' \notin {"stryker", "mutmut"}
        /\ mcalls'[c].at # "asked"
    BY <1>2, <1>3
  <2>3. mcalls'[c].scope # None => \A p \in mcalls'[c].scope : p \in tree'.exists /\ Mutable(mutates[c], p)'
    BY <1>2, <1>3 DEF Mutable
  <2>4. mcalls'[c].at = "run" /\ mcalls'[c].scope # None => mcalls'[c].config.roots = Files(mcalls'[c].scope)
    BY <1>2, <1>3, <2>2
  <2> QED BY <1>4, <2>1, <2>2, <2>3, <2>4 DEF StageInv
<1>8. LeftInv(c)'
  BY <1>3, <1>5 DEF LeftInv
<1> QED BY <1>7, <1>8, CallMoves

LEMMA StartWholeKeeps ==
  ASSUME MutationInv, NEW c \in DOMAIN mcalls, StartWhole(c)
  PROVE  MutationInv'
<1>1. StageInv(c) /\ mcalls[c].at = "asked" /\ mcalls[c].scope = None /\ ~ Summarizes(c)
  BY DEF MutationInv, StageInv, StartWhole
<1>2. /\ mcalls'[c] = [at |-> FirstStep(Tool(c)), scope |-> None, config |-> tree.base, session |-> mcalls[c].session,
                       found |-> {}, reused |-> mcalls[c].reused, wrote |-> mcalls[c].wrote, code |-> mcalls[c].code, told |-> mcalls[c].told]
      /\ DOMAIN mcalls' = DOMAIN mcalls /\ \A o \in DOMAIN mcalls \ {c} : mcalls'[o] = mcalls[o]
  BY <1>1 DEF StartWhole, StageInv, CallFields, Tool
<1>3. Idle(c) /\ tree' = tree /\ mutates' = mutates /\ disk' = disk /\ disk = DiskFields(disk)
  BY <1>1 DEF Idle, StartWhole, MutationInv, ProjectInv
<1>4. StepOf(c)
  BY <1>2, <1>3 DEF StepOf
<1> QED BY <1>1, <1>2, <1>4, Starts

LEMMA StartScopedKeeps ==
  ASSUME MutationInv, NEW c \in DOMAIN mcalls, StartScoped(c)
  PROVE  MutationInv'
<1> DEFINE j == mutates[c]
           selected == Selection(j)
           unreadable == j.tool = "cosmic-ray" /\ tree.base = None
<1>1. StageInv(c) /\ mcalls[c].at = "asked" /\ mcalls[c].scope = None /\ ~ Summarizes(c)
  BY DEF MutationInv, StageInv, StartScoped
<1>2. tree' = tree /\ mutates' = mutates /\ disk'.report = disk.report /\ disk' = DiskFields(disk')
  <2>1. \/ disk' = disk
        \/ disk' = [disk EXCEPT !.config = ScopedConfig(j, selected)]
    BY DEF StartScoped
  <2>2. tree' = tree /\ mutates' = mutates
    BY DEF StartScoped
  <2> HIDE DEF selected, j
  <2>3. disk = DiskFields(disk)
    BY DEF MutationInv, ProjectInv
  <2> QED BY <2>1, <2>2, <2>3 DEF DiskFields
<1>3. Idle(c)
  BY <1>1 DEF Idle
<1>4. \/ mcalls' = [mcalls EXCEPT ![c].at = "error"]
      \/ mcalls' = [mcalls EXCEPT ![c].at = "noop", ![c].scope = {}]
      \/ mcalls' = [mcalls EXCEPT ![c].at = FirstStep(Tool(c)), ![c].scope = selected,
                                  ![c].config = ScopedConfig(j, selected)]
  BY DEF StartScoped, Tool
<1>5. DOMAIN mcalls' = DOMAIN mcalls /\ \A o \in DOMAIN mcalls \ {c} : mcalls'[o] = mcalls[o]
  BY <1>4
<1>6. StepOf(c)
  BY <1>2, <1>3, <1>5 DEF StepOf
<1>7. CASE mcalls' = [mcalls EXCEPT ![c].at = "error"]
  <2>1. /\ mcalls'[c] = CallFields(mcalls'[c]) /\ mcalls'[c].at = "error"
        /\ mcalls'[c].scope = mcalls[c].scope /\ mcalls'[c].reused = mcalls[c].reused
    BY <1>1, <1>7 DEF StageInv, CallFields
  <2> QED BY <1>6, <2>1, EndsUnrun
<1>8. CASE mcalls' = [mcalls EXCEPT ![c].at = "noop", ![c].scope = {}]
  <2>1. /\ mcalls'[c] = CallFields(mcalls'[c]) /\ mcalls'[c].at = "noop"
        /\ mcalls'[c].scope = {} /\ mcalls'[c].reused = mcalls[c].reused
    BY <1>1, <1>8 DEF StageInv, CallFields
  <2> QED BY <1>6, <2>1, EndsUnrun
<1>9. CASE mcalls' = [mcalls EXCEPT ![c].at = FirstStep(Tool(c)), ![c].scope = selected,
                                    ![c].config = ScopedConfig(j, selected)]
  <2>1. mcalls'[c] = [at |-> FirstStep(Tool(c)), scope |-> selected, config |-> ScopedConfig(j, selected), session |-> mcalls[c].session,
                      found |-> {}, reused |-> mcalls[c].reused, wrote |-> mcalls[c].wrote, code |-> mcalls[c].code, told |-> mcalls[c].told]
    BY <1>1, <1>9 DEF StageInv, CallFields
  <2>2. \A p \in selected : p \in tree.exists /\ Mutable(mutates[c], p)
    BY DEF Selection, SelectMutationScope
  <2>3. Tool(c) = "mutmut" => ScopedConfig(j, selected).roots = Files(selected)
    BY DEF ScopedConfig, PlanMutmutScope, Tool
  <2> HIDE DEF selected, j
  <2> QED BY <1>1, <1>6, <2>1, <2>2, <2>3, Starts
<1> QED BY <1>4, <1>7, <1>8, <1>9
-----------------------------------------------------------------------------
(* The tools.                                                              *)

\* A step of a call's tool: its place, session, ghost and code change.
LEMMA ToolMoves ==
  ASSUME MutationInv, NEW c \in DOMAIN mcalls, NEW at, NEW session, NEW found, NEW reused, NEW wrote, NEW code,
         tree' = tree, mutates' = mutates, disk' = DiskFields(disk'),
         disk'.report = disk.report \/ (Tool(c) = "stryker" /\ ReportIsReal'),
         DOMAIN mcalls' = DOMAIN mcalls,
         \A o \in DOMAIN mcalls \ {c} : mcalls'[o] = mcalls[o],
         mcalls[c].at \in {"stryker", "run", "results", "init", "exec", "dump"},
         mcalls'[c] = [at |-> at, scope |-> mcalls[c].scope, config |-> mcalls[c].config, session |-> session,
                       found |-> found, reused |-> reused, wrote |-> wrote, code |-> code, told |-> mcalls[c].told],
         Tool(c) = "stryker" \/ reused = mcalls[c].reused,
         \/ at = "finish"
         \/ mcalls[c].at = "run" /\ at = "results"
         \/ mcalls[c].at \in {"init", "exec"} /\ at \in {"exec", "dump"},
         LeftInv(c)'
  PROVE  MutationInv'
<1>1. StageInv(c)
  BY DEF MutationInv
<1>2. /\ mcalls'[c].at = at /\ mcalls'[c].scope = mcalls[c].scope /\ mcalls'[c].config = mcalls[c].config
      /\ mcalls'[c].reused = reused /\ mcalls'[c] = CallFields(mcalls'[c])
  BY DEF CallFields
<1>3. Tool(c)' = Tool(c)
  BY DEF Tool
<1>4. at \notin {"asked", "refused", "noop", "stryker", "run", "init"}
  OBVIOUS
<1>5. ~ Idle(c)' \/ Tool(c) # "stryker"
  BY <1>2, <1>3, <1>4 DEF Idle
<1>6. StepOf(c)
  BY <1>5 DEF StepOf, Idle
<1>7. StageInv(c)'
  <2>1. /\ at \in {"run", "results"} => Tool(c) = "mutmut"
        /\ at \in {"init", "exec", "dump"} => Tool(c) \notin {"stryker", "mutmut"}
    BY <1>1 DEF StageInv
  <2>3. Tool(c) # "stryker" => mcalls'[c].reused = {}
    BY <1>1, <1>2 DEF StageInv
  <2>2. mcalls[c].scope # None => \A p \in mcalls[c].scope : p \in tree'.exists /\ Mutable(mutates[c], p)'
    BY <1>1 DEF StageInv, Mutable
  <2> QED BY <1>2, <1>3, <1>4, <2>1, <2>2, <2>3 DEF StageInv
<1> QED BY <1>6, <1>7, CallMoves

\* A run of Stryker that did not die.
StrykerEnds(c, code, wrote, reused) ==
  LET new     == {m \in StrykerReach(c) : \A e \in reused : e # Entry(m, e.said)}
      results == reused \cup {Entry(m, StrykerSays(m.fate)) : m \in new}
  IN  /\ mcalls' = [mcalls EXCEPT ![c].at = "finish", ![c].code = code, ![c].found = new,
                                  ![c].reused = reused, ![c].wrote = wrote]
      /\ disk' = [disk EXCEPT !.report = IF wrote THEN StrykerReport(results) ELSE @,
                              !.incremental = IF mutates[c].incremental THEN results ELSE @]

LEMMA StrykerRunsKeeps ==
  ASSUME MutationInv, NEW c \in DOMAIN mcalls, StrykerRuns(c)
  PROVE  MutationInv'
<1>1. StageInv(c) /\ Tool(c) = "stryker" /\ disk = DiskFields(disk)
  BY DEF MutationInv, ProjectInv, StageInv, StrykerRuns
<1>2. /\ tree' = tree /\ mutates' = mutates /\ Tool(c)' = Tool(c)
      /\ DOMAIN mcalls' = DOMAIN mcalls /\ \A o \in DOMAIN mcalls \ {c} : mcalls'[o] = mcalls[o]
  BY DEF StrykerRuns, Tool
<1>3. CASE mcalls' = [mcalls EXCEPT ![c].at = "finish", ![c].code = 1] /\ disk' = disk
  <2>1. mcalls'[c] = [at |-> "finish", scope |-> mcalls[c].scope, config |-> mcalls[c].config,
                      session |-> mcalls[c].session, found |-> mcalls[c].found, reused |-> mcalls[c].reused, wrote |-> mcalls[c].wrote, code |-> 1, told |-> mcalls[c].told]
    BY <1>1, <1>3 DEF StageInv, CallFields
  <2>2. LeftInv(c)'
    BY <1>1, <1>2, <2>1 DEF LeftInv
  <2>3. mcalls[c].at = "stryker" /\ disk' = DiskFields(disk') /\ disk'.report = disk.report
    BY <1>1, <1>3 DEF StrykerRuns
  <2> QED BY <1>2, <2>1, <2>2, <2>3, ToolMoves
<1>4. ASSUME NEW code \in {0, 1}, NEW wrote \in BOOLEAN, NEW reused \in SUBSET Remembered(c), NEW new, NEW results,
             new = {m \in StrykerReach(c) : \A e \in reused : e # Entry(m, e.said)},
             results = reused \cup StrykerSession(new),
             mcalls' = [mcalls EXCEPT ![c].at = "finish", ![c].code = code, ![c].found = new,
                                      ![c].reused = reused, ![c].wrote = wrote],
             disk' = [disk EXCEPT !.report = IF wrote THEN StrykerReport(results) ELSE @,
                                  !.incremental = IF mutates[c].incremental THEN results ELSE @]
      PROVE  MutationInv'
  <2>1. mcalls'[c] = [at |-> "finish", scope |-> mcalls[c].scope, config |-> mcalls[c].config,
                      session |-> mcalls[c].session, found |-> new, reused |-> reused, wrote |-> wrote,
                      code |-> code, told |-> mcalls[c].told]
    BY <1>1, <1>4 DEF StageInv, CallFields
  <2>2. /\ disk' = DiskFields(disk')
        /\ wrote => disk'.report = StrykerReport(results)
        /\ ~ wrote => disk'.report = disk.report
    BY <1>1, <1>4 DEF DiskFields
  <2>3. /\ mcalls'[c].found = new /\ mcalls'[c].reused = reused /\ mcalls'[c].wrote = wrote
        /\ mcalls'[c].at = "finish" /\ mcalls'[c].scope = mcalls[c].scope
    BY <2>1
  <2>4. StrykerReach(c)' = StrykerReach(c) /\ StrykerReach(c) \subseteq tree.mutants
    BY <1>2, <2>3 DEF StrykerReach, Mutable
  <2>5. \A e \in results : \E m \in tree.mutants : m.file = e.file
    <3>1. \A e \in reused : \E m \in tree.mutants : m.file = e.file
      BY DEF Remembered, Entry
    <3>2. \A e \in StrykerSession(new) : \E m \in tree.mutants : m.file = e.file
      BY <1>4, <2>4 DEF StrykerSession, Entry
    <3> QED BY <1>4, <3>1, <3>2
  <2>6. wrote => ReportIsReal'
    <3>1. \A f \in DOMAIN StrykerReport(results) : \E e \in results : e.file = f
      BY DEF StrykerReport, Grouped
    <3> QED BY <1>2, <2>2, <2>5, <3>1 DEF ReportIsReal
  <2>7. \A m \in StrykerReach(c) : \E x \in new \cup reused : x.file = m.file
    <3> SUFFICES ASSUME NEW m \in StrykerReach(c), m \notin new PROVE \E x \in reused : x.file = m.file
      OBVIOUS
    <3>1. PICK e \in reused : e = Entry(m, e.said)
      BY <1>4
    <3>2. e.file = m.file
      BY <3>1 DEF Entry
    <3> QED BY <3>2
  <2>8. wrote => StrykerLeft(c)'
    <3>1. (mcalls[c].reused \cup StrykerSession(mcalls[c].found))' = results
      BY <1>4, <2>3 DEF StrykerSession
    <3>2. wrote => (disk.report = StrykerReport(mcalls[c].reused \cup StrykerSession(mcalls[c].found)))'
      BY <2>2, <3>1
    <3> QED BY <2>3, <2>4, <2>6, <2>7, <3>2 DEF StrykerLeft
  <2>9. LeftInv(c)'
    BY <1>1, <1>2, <2>3, <2>8 DEF LeftInv
  <2>10. mcalls[c].at = "stryker" /\ (disk'.report = disk.report \/ (Tool(c) = "stryker" /\ ReportIsReal'))
    BY <1>1, <2>2, <2>6 DEF StrykerRuns
  <2> QED BY <1>1, <1>2, <2>1, <2>2, <2>9, <2>10, ToolMoves
<1>5. ASSUME NEW cd \in {0, 1}, NEW w \in BOOLEAN, NEW reused \in SUBSET Remembered(c), StrykerEnds(c, cd, w, reused)
      PROVE  MutationInv'
  <2>1. PICK new : new = {m \in StrykerReach(c) : \A e \in reused : e # Entry(m, e.said)}
    OBVIOUS
  <2>2. PICK results : results = reused \cup StrykerSession(new)
    OBVIOUS
  <2> QED BY <1>4, <1>5, <2>1, <2>2 DEF StrykerSession, StrykerEnds
<1>6. \/ mcalls' = [mcalls EXCEPT ![c].at = "finish", ![c].code = 1] /\ disk' = disk
      \/ \E cd \in {0, 1}, w \in BOOLEAN, reused \in SUBSET Remembered(c) : StrykerEnds(c, cd, w, reused)
  BY Zenon DEF StrykerRuns, StrykerEnds
<1> QED BY <1>3, <1>5, <1>6

LEMMA MutmutRunsKeeps ==
  ASSUME MutationInv, NEW c \in DOMAIN mcalls, MutmutRuns(c)
  PROVE  MutationInv'
<1> DEFINE reach == Reach(mcalls[c].config)
           kept  == IF mcalls[c].scope = None THEN disk.cache ELSE {}
           new   == {m \in reach : \A e \in kept : <<e.file, e.from, e.to>> # <<m.file, m.from, m.to>>}
           Left(results) == IF mcalls[c].scope = None THEN [disk EXCEPT !.cache = kept \cup results] ELSE disk
<1>1. StageInv(c) /\ mcalls[c].at = "run" /\ Tool(c) = "mutmut" /\ disk = DiskFields(disk) /\ mcalls[c].found = {}
  BY DEF MutationInv, ProjectInv, StageInv, MutmutRuns
<1>2. /\ tree' = tree /\ mutates' = mutates /\ Tool(c)' = Tool(c)
      /\ DOMAIN mcalls' = DOMAIN mcalls /\ \A o \in DOMAIN mcalls \ {c} : mcalls'[o] = mcalls[o]
  BY DEF MutmutRuns, Tool
<1>3. new \subseteq tree.mutants
  BY DEF Reach
<1>4. mcalls[c].scope # None => \A m \in new : m.file \in mcalls[c].scope
  <2> SUFFICES ASSUME mcalls[c].scope # None, NEW m \in new PROVE m.file \in mcalls[c].scope
    OBVIOUS
  <2>1. Under(m.file, mcalls[c].config.roots) /\ m.file \in tree.exists
    BY DEF Reach, InReach
  <2>2. mcalls[c].config.roots = Files(mcalls[c].scope)
    BY <1>1 DEF StageInv
  <2>3. PICK p \in mcalls[c].scope : Under(m.file, {[dir |-> <<>>, file |-> p]})
    BY <2>1, <2>2 DEF Files, Under
  <2>4. p # None
    BY <1>1 DEF StageInv, MutationInv, ProjectInv
  <2>5. m.file = p
    BY <2>3, <2>4 DEF Under
  <2> QED BY <2>5
<1> HIDE DEF new
<1>5. ASSUME NEW results, NEW found,
             (results = Unchecked(new) /\ found = {}) \/ (results = MutmutSession(new) /\ found = new),
             mcalls'[c] = [at |-> "results", scope |-> mcalls[c].scope, config |-> mcalls[c].config,
                           session |-> results, found |-> found, reused |-> mcalls[c].reused, wrote |-> mcalls[c].wrote, code |-> mcalls[c].code, told |-> mcalls[c].told],
             disk' = Left(results)
      PROVE  MutationInv'
  <2>1. disk' = DiskFields(disk') /\ disk'.report = disk.report
    BY <1>1, <1>5 DEF DiskFields
  <2>2. /\ mcalls'[c].scope = mcalls[c].scope /\ mcalls'[c].found = found /\ mcalls'[c].session = results
        /\ mcalls'[c].at = "results"
    BY <1>5
  <2>3. mcalls[c].scope # None => MutmutLeft(c)'
    <3>1. mcalls[c].scope # None => \A m \in found : m \in tree.mutants /\ m.file \in mcalls[c].scope
      BY <1>3, <1>4, <1>5
    <3>2. results = MutmutSession(found) \/ \E n \in SUBSET tree.mutants : results = Unchecked(n)
      BY <1>3, <1>5
    <3> QED BY <1>2, <2>2, <3>1, <3>2 DEF MutmutLeft, MutmutSession, Unchecked
  <2>4. LeftInv(c)'
    BY <1>1, <1>2, <2>2, <2>3 DEF LeftInv
  <2> HIDE DEF Left
  <2> QED BY <1>1, <1>2, <1>5, <2>1, <2>4, ToolMoves
<1>6. \/ /\ mcalls' = [mcalls EXCEPT ![c].at = "results", ![c].session = Unchecked(new)]
         /\ disk' = Left(Unchecked(new))
      \/ /\ mcalls' = [mcalls EXCEPT ![c].at = "results", ![c].session = MutmutSession(new), ![c].found = new]
         /\ disk' = Left(MutmutSession(new))
  BY Zenon DEF MutmutRuns, Unchecked, MutmutSession, new
<1>7. \/ /\ mcalls'[c] = [at |-> "results", scope |-> mcalls[c].scope, config |-> mcalls[c].config,
                          session |-> Unchecked(new), found |-> {}, reused |-> mcalls[c].reused, wrote |-> mcalls[c].wrote, code |-> mcalls[c].code, told |-> mcalls[c].told]
         /\ disk' = Left(Unchecked(new))
      \/ /\ mcalls'[c] = [at |-> "results", scope |-> mcalls[c].scope, config |-> mcalls[c].config,
                          session |-> MutmutSession(new), found |-> new, reused |-> mcalls[c].reused, wrote |-> mcalls[c].wrote, code |-> mcalls[c].code, told |-> mcalls[c].told]
         /\ disk' = Left(MutmutSession(new))
  <2> HIDE DEF Left
  <2> QED BY <1>1, <1>6 DEF StageInv, CallFields
<1> QED BY <1>5, <1>7
LEMMA MutmutResultsKeeps ==
  ASSUME MutationInv, NEW c \in DOMAIN mcalls, MutmutResults(c)
  PROVE  MutationInv'
<1>1. StageInv(c) /\ LeftInv(c) /\ mcalls[c].at = "results" /\ Tool(c) = "mutmut" /\ disk = DiskFields(disk)
  BY DEF MutationInv, ProjectInv, StageInv, MutmutResults
<1>2. /\ tree' = tree /\ mutates' = mutates /\ Tool(c)' = Tool(c) /\ disk' = disk
      /\ DOMAIN mcalls' = DOMAIN mcalls /\ \A o \in DOMAIN mcalls \ {c} : mcalls'[o] = mcalls[o]
  BY DEF MutmutResults, Tool
<1>3. PICK code, session :
        /\ code = 1 \/ mcalls[c].scope = None \/ session = mcalls[c].session
        /\ mcalls'[c] = [at |-> "finish", scope |-> mcalls[c].scope, config |-> mcalls[c].config, session |-> session,
                         found |-> mcalls[c].found, reused |-> mcalls[c].reused, wrote |-> mcalls[c].wrote, code |-> code, told |-> mcalls[c].told]
  <2>1. CASE mcalls' = [mcalls EXCEPT ![c].at = "finish", ![c].code = 1, ![c].session = {}]
    <3>1. mcalls'[c] = [at |-> "finish", scope |-> mcalls[c].scope, config |-> mcalls[c].config, session |-> {},
                        found |-> mcalls[c].found, reused |-> mcalls[c].reused, wrote |-> mcalls[c].wrote, code |-> 1, told |-> mcalls[c].told]
      BY <1>1, <2>1 DEF StageInv, CallFields
    <3> QED BY <3>1
  <2>2. CASE mcalls' = [mcalls EXCEPT ![c].at = "finish", ![c].code = 0,
                                      ![c].session = IF mcalls[c].scope = None THEN disk.cache ELSE @]
    <3> DEFINE session == IF mcalls[c].scope = None THEN disk.cache ELSE mcalls[c].session
    <3>1. mcalls'[c] = [at |-> "finish", scope |-> mcalls[c].scope, config |-> mcalls[c].config, session |-> session,
                        found |-> mcalls[c].found, reused |-> mcalls[c].reused, wrote |-> mcalls[c].wrote, code |-> 0, told |-> mcalls[c].told]
      BY <1>1, <2>2 DEF StageInv, CallFields
    <3> QED BY <3>1
  <2> QED BY <2>1, <2>2 DEF MutmutResults
<1>4. /\ mcalls'[c].scope = mcalls[c].scope /\ mcalls'[c].found = mcalls[c].found
      /\ mcalls'[c].session = session /\ mcalls'[c].code = code /\ mcalls'[c].at = "finish"
  BY <1>3
<1>5. mcalls[c].scope # None /\ code = 0 => MutmutLeft(c)'
  <2> SUFFICES ASSUME mcalls[c].scope # None, code = 0 PROVE MutmutLeft(c)'
    OBVIOUS
  <2>1. MutmutLeft(c) /\ session = mcalls[c].session
    BY <1>1, <1>3 DEF LeftInv
  <2> QED BY <1>2, <1>4, <2>1 DEF MutmutLeft, MutmutSession, Unchecked
<1>6. LeftInv(c)'
  BY <1>1, <1>2, <1>4, <1>5 DEF LeftInv
<1> QED BY <1>1, <1>2, <1>3, <1>6, ToolMoves

LEMMA CosmicInitKeeps ==
  ASSUME MutationInv, NEW c \in DOMAIN mcalls, CosmicInit(c)
  PROVE  MutationInv'
<1>1. StageInv(c) /\ mcalls[c].at = "init" /\ disk = DiskFields(disk)
  BY DEF MutationInv, ProjectInv, StageInv, CosmicInit
<1>2. /\ tree' = tree /\ mutates' = mutates /\ Tool(c)' = Tool(c) /\ disk' = disk
      /\ DOMAIN mcalls' = DOMAIN mcalls /\ \A o \in DOMAIN mcalls \ {c} : mcalls'[o] = mcalls[o]
  BY DEF CosmicInit, Tool
<1>3. PICK session :
        mcalls'[c] = [at |-> "exec", scope |-> mcalls[c].scope, config |-> mcalls[c].config, session |-> session,
                      found |-> mcalls[c].found, reused |-> mcalls[c].reused, wrote |-> mcalls[c].wrote, code |-> mcalls[c].code, told |-> mcalls[c].told]
  <2>1. CASE mcalls' = [mcalls EXCEPT ![c].at = "exec"]
    BY <1>1, <2>1 DEF StageInv, CallFields
  <2>2. ASSUME NEW s, mcalls' = [mcalls EXCEPT ![c].at = "exec", ![c].session = s]
        PROVE  mcalls'[c] = [at |-> "exec", scope |-> mcalls[c].scope, config |-> mcalls[c].config, session |-> s,
                             found |-> mcalls[c].found, reused |-> mcalls[c].reused, wrote |-> mcalls[c].wrote, code |-> mcalls[c].code, told |-> mcalls[c].told]
    BY <1>1, <2>2 DEF StageInv, CallFields
  <2> QED BY <2>1, <2>2 DEF CosmicInit
<1>4. Tool(c) # "mutmut"
  BY <1>1 DEF StageInv
<1>5. LeftInv(c)'
  BY <1>2, <1>3, <1>4 DEF LeftInv
<1> QED BY <1>1, <1>2, <1>3, <1>5, ToolMoves

LEMMA CosmicExecKeeps ==
  ASSUME MutationInv, NEW c \in DOMAIN mcalls, CosmicExec(c)
  PROVE  MutationInv'
<1> DEFINE Of(r) == CHOOSE m \in tree.mutants : Entry(m, Untried) = r
           tried(rs) == {Entry(Of(r), CosmicSays(Of(r).fate)) : r \in rs}
<1>1. StageInv(c) /\ mcalls[c].at = "exec" /\ disk = DiskFields(disk) /\ Tool(c) \notin {"stryker", "mutmut"}
  BY DEF MutationInv, ProjectInv, StageInv, CosmicExec
<1>2. /\ tree' = tree /\ mutates' = mutates /\ Tool(c)' = Tool(c) /\ disk' = disk
      /\ DOMAIN mcalls' = DOMAIN mcalls /\ \A o \in DOMAIN mcalls \ {c} : mcalls'[o] = mcalls[o]
  BY DEF CosmicExec, Tool
<1>3. \E code, session, found :
        /\ code = 1 \/ session = CosmicSession(found)
        /\ mcalls'[c] = [at |-> "dump", scope |-> mcalls[c].scope, config |-> mcalls[c].config, session |-> session,
                         found |-> found, reused |-> mcalls[c].reused, wrote |-> mcalls[c].wrote, code |-> code, told |-> mcalls[c].told]
  <2>1. CASE mcalls' = [mcalls EXCEPT ![c].at = "dump", ![c].code = 0, ![c].session = tried(mcalls[c].session),
                                      ![c].found = {Of(r) : r \in mcalls[c].session}]
    <3> DEFINE session == tried(mcalls[c].session)
               found   == {Of(r) : r \in mcalls[c].session}
    <3>1. session = CosmicSession(found)
      <4> HIDE DEF Of
      <4> QED BY DEF CosmicSession
    <3>2. mcalls' = [mcalls EXCEPT ![c].at = "dump", ![c].code = 0, ![c].session = session, ![c].found = found]
      BY <2>1
    <3> HIDE DEF session, found
    <3>3. mcalls'[c] = [at |-> "dump", scope |-> mcalls[c].scope, config |-> mcalls[c].config, session |-> session,
                        found |-> found, reused |-> mcalls[c].reused, wrote |-> mcalls[c].wrote, code |-> 0, told |-> mcalls[c].told]
      BY <1>1, <3>2 DEF StageInv, CallFields
    <3> QED BY <3>1, <3>3
  <2>2. ASSUME NEW left \in SUBSET mcalls[c].session,
               mcalls' = [mcalls EXCEPT ![c].at = "dump", ![c].code = 1,
                                        ![c].session = left \cup tried(mcalls[c].session \ left),
                                        ![c].found = {Of(r) : r \in mcalls[c].session \ left}]
        PROVE  \E session, found :
                 mcalls'[c] = [at |-> "dump", scope |-> mcalls[c].scope, config |-> mcalls[c].config, session |-> session,
                               found |-> found, reused |-> mcalls[c].reused, wrote |-> mcalls[c].wrote, code |-> 1, told |-> mcalls[c].told]
    <3> DEFINE session == left \cup tried(mcalls[c].session \ left)
               found   == {Of(r) : r \in mcalls[c].session \ left}
    <3>1. mcalls' = [mcalls EXCEPT ![c].at = "dump", ![c].code = 1, ![c].session = session, ![c].found = found]
      BY <2>2
    <3> HIDE DEF session, found
    <3>2. mcalls'[c] = [at |-> "dump", scope |-> mcalls[c].scope, config |-> mcalls[c].config, session |-> session,
                        found |-> found, reused |-> mcalls[c].reused, wrote |-> mcalls[c].wrote, code |-> 1, told |-> mcalls[c].told]
      BY <1>1, <3>1 DEF StageInv, CallFields
    <3> QED BY <3>2
  <2>3. \/ mcalls' = [mcalls EXCEPT ![c].at = "dump", ![c].code = 0, ![c].session = tried(mcalls[c].session),
                                    ![c].found = {Of(r) : r \in mcalls[c].session}]
        \/ \E left \in SUBSET mcalls[c].session :
             mcalls' = [mcalls EXCEPT ![c].at = "dump", ![c].code = 1,
                                      ![c].session = left \cup tried(mcalls[c].session \ left),
                                      ![c].found = {Of(r) : r \in mcalls[c].session \ left}]
    BY Zenon DEF CosmicExec
  <2>4. CASE \E left \in SUBSET mcalls[c].session :
               mcalls' = [mcalls EXCEPT ![c].at = "dump", ![c].code = 1,
                                        ![c].session = left \cup tried(mcalls[c].session \ left),
                                        ![c].found = {Of(r) : r \in mcalls[c].session \ left}]
    <3>1. PICK left \in SUBSET mcalls[c].session :
               mcalls' = [mcalls EXCEPT ![c].at = "dump", ![c].code = 1,
                                        ![c].session = left \cup tried(mcalls[c].session \ left),
                                        ![c].found = {Of(r) : r \in mcalls[c].session \ left}]
      BY <2>4
    <3>2. \E session, found :
            mcalls'[c] = [at |-> "dump", scope |-> mcalls[c].scope, config |-> mcalls[c].config, session |-> session,
                          found |-> found, reused |-> mcalls[c].reused, wrote |-> mcalls[c].wrote, code |-> 1, told |-> mcalls[c].told]
      BY Zenon, <2>2, <3>1
    <3> QED BY <3>2
  <2> QED BY Zenon, <2>1, <2>3, <2>4
<1>4. PICK code, session, found :
        /\ code = 1 \/ session = CosmicSession(found)
        /\ mcalls'[c] = [at |-> "dump", scope |-> mcalls[c].scope, config |-> mcalls[c].config, session |-> session,
                         found |-> found, reused |-> mcalls[c].reused, wrote |-> mcalls[c].wrote, code |-> code, told |-> mcalls[c].told]
  BY <1>3
<1>5. mcalls'[c].session = session /\ mcalls'[c].found = found /\ mcalls'[c].code = code /\ mcalls'[c].at = "dump"
  BY <1>4
<1>6. code = 0 => CosmicLeft(c)'
  BY <1>4, <1>5 DEF CosmicLeft, CosmicSession
<1>7. LeftInv(c)'
  BY <1>1, <1>2, <1>5, <1>6 DEF LeftInv
<1> QED BY <1>1, <1>2, <1>4, <1>7, ToolMoves

LEMMA CosmicDumpKeeps ==
  ASSUME MutationInv, NEW c \in DOMAIN mcalls, CosmicDump(c)
  PROVE  MutationInv'
<1>1. /\ StageInv(c) /\ LeftInv(c) /\ mcalls[c].at = "dump"
      /\ disk = DiskFields(disk) /\ Tool(c) \notin {"stryker", "mutmut"}
  BY DEF MutationInv, ProjectInv, StageInv, CosmicDump
<1>2. /\ tree' = tree /\ mutates' = mutates /\ Tool(c)' = Tool(c) /\ disk' = disk
      /\ DOMAIN mcalls' = DOMAIN mcalls /\ \A o \in DOMAIN mcalls \ {c} : mcalls'[o] = mcalls[o]
  BY DEF CosmicDump, Tool
<1>3. PICK session :
        /\ session = {} \/ session = mcalls[c].session
        /\ mcalls'[c] = [at |-> "finish", scope |-> mcalls[c].scope, config |-> mcalls[c].config, session |-> session,
                         found |-> mcalls[c].found, reused |-> mcalls[c].reused, wrote |-> mcalls[c].wrote, code |-> mcalls[c].code, told |-> mcalls[c].told]
  <2>1. CASE mcalls' = [mcalls EXCEPT ![c].at = "finish"]
    BY <1>1, <2>1 DEF StageInv, CallFields
  <2>2. CASE mcalls' = [mcalls EXCEPT ![c].at = "finish", ![c].session = {}]
    <3>1. mcalls'[c] = [at |-> "finish", scope |-> mcalls[c].scope, config |-> mcalls[c].config, session |-> {},
                        found |-> mcalls[c].found, reused |-> mcalls[c].reused, wrote |-> mcalls[c].wrote, code |-> mcalls[c].code, told |-> mcalls[c].told]
      BY <1>1, <2>2 DEF StageInv, CallFields
    <3> QED BY <3>1
  <2> QED BY <2>1, <2>2 DEF CosmicDump
<1>4. /\ mcalls'[c].session = session /\ mcalls'[c].found = mcalls[c].found /\ mcalls'[c].code = mcalls[c].code
      /\ mcalls'[c].at = "finish"
  BY <1>3
<1>5. mcalls[c].code = 0 => CosmicLeft(c)'
  <2>1. mcalls[c].code = 0 => CosmicLeft(c)
    BY <1>1 DEF LeftInv
  <2> QED BY <1>3, <1>4, <2>1 DEF CosmicLeft, CosmicSession
<1>6. LeftInv(c)'
  BY <1>1, <1>2, <1>4, <1>5 DEF LeftInv
<1> QED BY <1>1, <1>2, <1>3, <1>6, ToolMoves
-----------------------------------------------------------------------------
(* The answer.                                                             *)

LEMMA FilesOfReport ==
  ASSUME NEW report
  PROVE  DOMAIN SummarizeMutation(report).files = DOMAIN report
BY DEF SummarizeMutation

\* What the three tools say of a survivor, read in its report.
LEMMA StatusesOfFates ==
  /\ \A fate : StrykerSays(fate) \in Unnoticed <=> fate \in {"survived", "uncovered"}
  /\ \A fate : CosmicStatus(CosmicSays(fate)) \in Unnoticed <=> fate \in {"survived", "uncovered"}
  /\ \A fate \in {"killed", "survived", "uncovered", "invalid"} :
       MutmutStatus(MutmutSays(fate)) \in Unnoticed <=> fate \in {"survived", "uncovered"}
  /\ MutmutStatus("not checked") = "Pending"
<1>1. \A fate : StrykerSays(fate) \in Unnoticed <=> fate \in {"survived", "uncovered"}
  BY DEF StrykerSays, Unnoticed
<1>2. \A fate : CosmicStatus(CosmicSays(fate)) \in Unnoticed <=> fate \in {"survived", "uncovered"}
  <2> TAKE fate
  <2>1. /\ CosmicSays(fate).worker = "normal"
        /\ CosmicSays(fate).test = CASE fate = "uncovered" -> "survived" [] fate = "invalid" -> "incompetent" [] OTHER -> fate
    BY DEF CosmicSays
  <2> QED BY <2>1 DEF CosmicStatus, Unnoticed
<1>3. \A fate \in {"killed", "survived", "uncovered", "invalid"} :
        MutmutStatus(MutmutSays(fate)) \in Unnoticed <=> fate \in {"survived", "uncovered"}
  BY DEF MutmutSays, MutmutStatus, Unnoticed
<1>4. MutmutStatus("not checked") = "Pending"
  BY DEF MutmutStatus
<1> QED BY <1>1, <1>2, <1>3, <1>4

\* Stryker: the selected files are in the report, and those of a report are
\* files with mutants.
LEMMA StrykerAnswers ==
  ASSUME MutationInv, NEW c \in DOMAIN mcalls, Tool(c) = "stryker", StrykerLeft(c),
         Conclusive(c, disk.report)
  PROVE  /\ mcalls[c].scope # None => \A p \in mcalls[c].scope : \E x \in mcalls[c].found \cup mcalls[c].reused : x.file = p
         /\ Alone(c) => Reported(c, disk.report).survivors = {Named(c, m) : m \in Survivors(c)}
<1>1. ASSUME mcalls[c].scope # None, NEW p \in mcalls[c].scope
      PROVE  \E x \in mcalls[c].found \cup mcalls[c].reused : x.file = p
  <2>1. Reconciled(c, SummarizeMutation(disk.report)).missing = {}
    BY <1>1 DEF Conclusive
  <2>2. p \in DOMAIN disk.report
    BY <1>1, <2>1, FilesOfReport DEF Reconciled, ReconcileScope, Tool
  <2>3. PICK m \in tree.mutants : m.file = p
    BY <2>2 DEF StrykerLeft, ReportIsReal
  <2>4. m \in StrykerReach(c)
    BY <1>1, <2>3 DEF StrykerReach
  <2> QED BY <2>3, <2>4 DEF StrykerLeft
<1>2. ASSUME Alone(c) PROVE Reported(c, disk.report).survivors = {Named(c, m) : m \in Survivors(c)}
  <2> DEFINE results == mcalls[c].reused \cup StrykerSession(mcalls[c].found)
             pairs == {<<e.file, [from |-> e.from, to |-> e.to, status |-> e.said]>> : e \in results}
             V == {[file |-> p[1], line |-> p[2].from] : p \in {p \in pairs : p[2].status \in Unnoticed}}
  <2>1. ChangedLines(mutates[c]) = None
    BY DEF ChangedLines, Tool
  <2>2. Reported(c, disk.report) = SummarizeMutation(Grouped(pairs))
    BY <1>2, <2>1 DEF Reported, StrykerLeft, StrykerReport
  <2>3. SummarizeMutation(Grouped(pairs)).survivors = V
    <3> HIDE DEF pairs
    <3> QED BY SurvivorsOfPairs
  <2>4. \A m : Named(c, m) = [file |-> m.file, line |-> m.from]
    BY DEF Named, Tool
  <2>5. ASSUME NEW v \in V PROVE \E m \in Survivors(c) : v = Named(c, m)
    <3>1. PICK p \in pairs : p[2].status \in Unnoticed /\ v = [file |-> p[1], line |-> p[2].from]
      OBVIOUS
    <3>2. PICK e \in results : p = <<e.file, [from |-> e.from, to |-> e.to, status |-> e.said]>>
      BY <3>1
    <3>3. e.said \in Unnoticed /\ v = [file |-> e.file, line |-> e.from]
      BY <3>1, <3>2
    <3>4. CASE e \in mcalls[c].reused
      <4>1. e \in Survivors(c)
        BY <3>3, <3>4 DEF Survivors, Unnoticed
      <4> QED BY <2>4, <3>3, <4>1
    <3>5. CASE e \in StrykerSession(mcalls[c].found)
      <4>1. PICK m \in mcalls[c].found : e = Entry(m, StrykerSays(m.fate))
        BY <3>5 DEF StrykerSession
      <4>2. e.file = m.file /\ e.from = m.from /\ e.said = StrykerSays(m.fate)
        BY <4>1 DEF Entry
      <4>3. m \in Survivors(c)
        BY <2>1, <3>3, <4>2, StatusesOfFates DEF Survivors
      <4> QED BY <2>4, <3>3, <4>2, <4>3
    <3> QED BY <3>4, <3>5
  <2>6. ASSUME NEW m \in Survivors(c) PROVE Named(c, m) \in V
    <3> DEFINE Read(e) == <<e.file, [from |-> e.from, to |-> e.to, status |-> e.said]>>
    <3>1. PICK e \in results : e.file = m.file /\ e.from = m.from /\ e.said \in Unnoticed
      <4>1. CASE m \in mcalls[c].reused /\ m.said \in {"Survived", "NoCoverage"}
        BY <4>1 DEF Unnoticed
      <4>2. CASE m \in mcalls[c].found /\ m.fate \in {"survived", "uncovered"}
        <5>1. Entry(m, StrykerSays(m.fate)) \in StrykerSession(mcalls[c].found)
          BY <4>2 DEF StrykerSession
        <5>2. /\ Entry(m, StrykerSays(m.fate)).file = m.file /\ Entry(m, StrykerSays(m.fate)).from = m.from
              /\ Entry(m, StrykerSays(m.fate)).said \in Unnoticed
          BY <4>2, StatusesOfFates DEF Entry
        <5> QED BY <5>1, <5>2
      <4> QED BY <4>1, <4>2 DEF Survivors
    <3>2. Read(e) \in pairs
      OBVIOUS
    <3>3. Read(e)[2].status \in Unnoticed /\ Named(c, m) = [file |-> Read(e)[1], line |-> Read(e)[2].from]
      BY <2>4, <3>1
    <3> HIDE DEF pairs, Read
    <3> QED BY <3>2, <3>3
  <2>7. V = {Named(c, m) : m \in Survivors(c)}
    <3> HIDE DEF V
    <3> QED BY <2>5, <2>6
  <2> QED BY <2>2, <2>3, <2>7
<1> QED BY <1>1, <1>2

\* mutmut: a session that was not tried is incomplete, and of modules one of
\* which ends the other's name no two are in the project.
LEMMA MutmutAnswers ==
  ASSUME MutationInv, NEW c \in DOMAIN mcalls, Tool(c) = "mutmut", mcalls[c].scope # None, MutmutLeft(c),
         Conclusive(c, ParseMutmutResults(mcalls[c].session))
  PROVE  /\ Distinct => \A p \in mcalls[c].scope : \E m \in mcalls[c].found : m.file = p
         /\ Reported(c, ParseMutmutResults(mcalls[c].session)).survivors = {Named(c, m) : m \in Survivors(c)}
<1> DEFINE report == ParseMutmutResults(mcalls[c].session)
           found  == mcalls[c].found
           read(r) == <<PyPathToModule(r.file), [from |-> 0, to |-> r.from, status |-> MutmutStatus(r.said)]>>
<1>1. AssertComplete(SummarizeMutation(report)) /\ Reconciled(c, SummarizeMutation(report)).missing = {}
  BY DEF Conclusive, Tool
<1>2. report = Grouped({read(r) : r \in mcalls[c].session})
  BY DEF ParseMutmutResults
<1>3. mcalls[c].session = MutmutSession(found)
  <2> SUFFICES ASSUME NEW new \in SUBSET tree.mutants, mcalls[c].session = Unchecked(new) PROVE FALSE
    BY DEF MutmutLeft
  <2> DEFINE pairs == {read(r) : r \in mcalls[c].session}
  <2>1. CASE new = {}
    <3>1. pairs = {}
      BY <2>1 DEF Unchecked
    <3> HIDE DEF pairs
    <3> QED BY <1>1, <1>2, <3>1, NothingIsIncomplete DEF pairs
  <2>2. CASE new # {}
    <3>1. PICK m \in new : TRUE
      BY <2>2
    <3>2. IsFiniteSet(pairs)
      <4>1. IsFiniteSet(new)
        BY FS_Subset DEF MutationInv, ProjectInv
      <4>2. [x \in new |-> read(Entry(x, "not checked"))] \in Surjection(new, pairs)
        BY DEF Surjection, Unchecked
      <4> HIDE DEF pairs
      <4> QED BY <4>1, <4>2, FS_Surjection
    <3>3. read(Entry(m, "not checked")) \in pairs
      BY <3>1 DEF Unchecked
    <3>4. read(Entry(m, "not checked"))[2].status = "Pending"
      BY StatusesOfFates DEF Entry
    <3>5. report = Grouped(pairs)
      BY <1>2
    <3> HIDE DEF pairs, report
    <3> QED BY <1>1, <3>2, <3>3, <3>4, <3>5, PendingIsIncomplete
  <2> QED BY <2>1, <2>2
<1> DEFINE pairs == {<<PyPathToModule(m.file), [from |-> 0, to |-> m.from, status |-> MutmutStatus(MutmutSays(m.fate))]>> : m \in found}
<1>4. report = Grouped(pairs)
  <2>1. \A m : read(Entry(m, MutmutSays(m.fate)))
                = <<PyPathToModule(m.file), [from |-> 0, to |-> m.from, status |-> MutmutStatus(MutmutSays(m.fate))]>>
    BY DEF Entry
  <2>2. {read(r) : r \in MutmutSession(found)} = {read(Entry(m, MutmutSays(m.fate))) : m \in found}
    <3> HIDE DEF read
    <3> QED BY DEF MutmutSession
  <2>3. {read(r) : r \in MutmutSession(found)} = pairs
    BY <2>1, <2>2
  <2> QED BY <1>2, <1>3, <2>3
<1>5. ASSUME Distinct, NEW p \in mcalls[c].scope PROVE \E m \in found : m.file = p
  <2>1. PICK n \in DOMAIN report : IsSuffix(n, PyPathToModule(p)) \/ IsSuffix(PyPathToModule(p), n)
    <3> HIDE DEF report
    <3> QED BY <1>1, FilesOfReport DEF Reconciled, ReconcileMutmutScope, Tool
  <2>2. PICK m \in found : n = PyPathToModule(m.file)
    <3>1. DOMAIN Grouped(pairs) = {q[1] : q \in pairs}
      BY DEF Grouped
    <3> HIDE DEF report
    <3> QED BY <1>4, <2>1, <3>1
  <2>3. m.file \in mcalls[c].scope
    BY DEF MutmutLeft
  <2>4. \A q \in mcalls[c].scope : q \in tree.exists /\ IsPythonSource(q)
    BY DEF MutationInv, StageInv, Mutable, Tool
  <2> QED BY <1>5, <2>1, <2>2, <2>3, <2>4 DEF Distinct
<1>6. mcalls[c].reused = {}
  BY DEF MutationInv, StageInv
<1>7. Reported(c, report).survivors = {Named(c, m) : m \in Survivors(c)}
  <2> DEFINE alive == {m \in found : m.fate \in {"survived", "uncovered"}}
  <2>1. ChangedLines(mutates[c]) = None
    BY DEF ChangedLines, Tool
  <2>2. Reported(c, report) = SummarizeMutation(Grouped(pairs))
    <3> HIDE DEF report, pairs
    <3> QED BY <1>4, <2>1 DEF Reported
  <2>3. SummarizeMutation(Grouped(pairs)).survivors
          = {[file |-> p[1], line |-> p[2].from] : p \in {p \in pairs : p[2].status \in Unnoticed}}
    <3> HIDE DEF pairs
    <3> QED BY SurvivorsOfPairs
  <2>4. \A m \in found : m.fate \in {"killed", "survived", "uncovered", "invalid"}
    BY DEF MutmutLeft, MutationInv, ProjectInv
  <2>5. {[file |-> p[1], line |-> p[2].from] : p \in {p \in pairs : p[2].status \in Unnoticed}}
          = {[file |-> PyPathToModule(m.file), line |-> 0] : m \in alive}
    <3> DEFINE V == {[file |-> p[1], line |-> p[2].from] : p \in {p \in pairs : p[2].status \in Unnoticed}}
               W == {[file |-> PyPathToModule(m.file), line |-> 0] : m \in alive}
    <3>1. ASSUME NEW v \in V PROVE v \in W
      <4>1. PICK p \in pairs : p[2].status \in Unnoticed /\ v = [file |-> p[1], line |-> p[2].from]
        OBVIOUS
      <4>2. PICK m \in found : p = <<PyPathToModule(m.file), [from |-> 0, to |-> m.from, status |-> MutmutStatus(MutmutSays(m.fate))]>>
        BY <4>1
      <4>3. m \in alive /\ v = [file |-> PyPathToModule(m.file), line |-> 0]
        BY <2>4, <4>1, <4>2, StatusesOfFates
      <4> QED BY <4>3
    <3>2. ASSUME NEW v \in W PROVE v \in V
      <4>1. PICK m \in alive : v = [file |-> PyPathToModule(m.file), line |-> 0]
        OBVIOUS
      <4> DEFINE p == <<PyPathToModule(m.file), [from |-> 0, to |-> m.from, status |-> MutmutStatus(MutmutSays(m.fate))]>>
      <4>2. p \in pairs /\ p[2].status \in Unnoticed /\ v = [file |-> p[1], line |-> p[2].from]
        BY <2>4, <4>1, StatusesOfFates
      <4> HIDE DEF p
      <4> QED BY <4>2
    <3> QED BY <3>1, <3>2
  <2>6. Survivors(c) = alive
    BY <1>6, <2>1 DEF Survivors
  <2>7. \A m : Named(c, m) = [file |-> PyPathToModule(m.file), line |-> 0]
    BY DEF Named, Tool
  <2>8. {Named(c, m) : m \in Survivors(c)} = {[file |-> PyPathToModule(m.file), line |-> 0] : m \in alive}
    BY <2>6, <2>7
  <2> QED BY <2>2, <2>3, <2>5, <2>8
<1> QED BY <1>5, <1>7
\* cosmic-ray: the session is read whole, and then narrowed to the changed lines.
LEMMA CosmicAnswers ==
  ASSUME MutationInv, NEW c \in DOMAIN mcalls, Tool(c) \notin {"stryker", "mutmut"}, CosmicLeft(c),
         Conclusive(c, ParseCosmicRayDump(mcalls[c].session))
  PROVE  /\ mcalls[c].scope # None => \A p \in mcalls[c].scope : \E m \in mcalls[c].found : m.file = p
         /\ Reported(c, ParseCosmicRayDump(mcalls[c].session)).survivors = {Named(c, m) : m \in Survivors(c)}
<1> DEFINE report == ParseCosmicRayDump(mcalls[c].session)
           found  == mcalls[c].found
           read(r) == <<r.file, [from |-> r.from, to |-> r.to, status |-> CosmicStatus(r.said)]>>
           pairs  == {<<m.file, [from |-> m.from, to |-> m.to, status |-> CosmicStatus(CosmicSays(m.fate))]>> : m \in found}
           Hit(m) == \E n \in m.from .. m.to : <<m.file, n>> \in mutates[c].diff
           changed == ChangedLines(mutates[c])
           narrowed == mcalls[c].scope # None /\ changed # None
<1>1. AssertComplete(SummarizeMutation(report))
  BY DEF Conclusive, Tool
<1>2. report = Grouped({read(r) : r \in mcalls[c].session})
  BY DEF ParseCosmicRayDump
<1>3. mcalls[c].session = CosmicSession(found)
  <2> SUFFICES ASSUME mcalls[c].session = {} PROVE FALSE
    BY DEF CosmicLeft
  <2> DEFINE reads == {read(r) : r \in mcalls[c].session}
  <2>1. reads = {}
    OBVIOUS
  <2>2. report = Grouped(reads)
    BY <1>2
  <2> HIDE DEF reads, report
  <2> QED BY <1>1, <2>1, <2>2, NothingIsIncomplete
<1>4. report = Grouped(pairs)
  <2>1. \A m : read(Entry(m, CosmicSays(m.fate))) = <<m.file, [from |-> m.from, to |-> m.to, status |-> CosmicStatus(CosmicSays(m.fate))]>>
    BY DEF Entry
  <2>2. {read(r) : r \in CosmicSession(found)} = {read(Entry(m, CosmicSays(m.fate))) : m \in found}
    <3> HIDE DEF read
    <3> QED BY DEF CosmicSession
  <2>3. {read(r) : r \in CosmicSession(found)} = pairs
    BY <2>1, <2>2
  <2> QED BY <1>2, <1>3, <2>3
<1>5. ASSUME mcalls[c].scope # None, NEW p \in mcalls[c].scope PROVE \E m \in found : m.file = p
  <2>1. p \in DOMAIN report
    <3>1. Reconciled(c, SummarizeMutation(report)).missing = {}
      BY <1>5 DEF Conclusive
    <3> HIDE DEF report
    <3> QED BY <1>5, <3>1, FilesOfReport DEF Reconciled, ReconcileScope, Tool
  <2>2. DOMAIN Grouped(pairs) = {q[1] : q \in pairs}
    BY DEF Grouped
  <2> HIDE DEF report
  <2> QED BY <1>4, <2>1, <2>2
<1>6. (\A m : Named(c, m) = [file |-> m.file, line |-> m.from]) /\ mcalls[c].reused = {}
  BY DEF Named, Tool, MutationInv, StageInv
<1>7. ASSUME ~ narrowed PROVE Reported(c, report).survivors = {Named(c, m) : m \in Survivors(c)}
  <2> DEFINE alive == {m \in found : m.fate \in {"survived", "uncovered"}}
  <2>1. Survivors(c) = alive
    BY <1>6, <1>7 DEF Survivors
  <2>2. Reported(c, report) = SummarizeMutation(Grouped(pairs))
    <3> HIDE DEF report, pairs
    <3> QED BY <1>4, <1>7 DEF Reported
  <2>3. SummarizeMutation(Grouped(pairs)).survivors
          = {[file |-> p[1], line |-> p[2].from] : p \in {p \in pairs : p[2].status \in Unnoticed}}
    <3> HIDE DEF pairs
    <3> QED BY SurvivorsOfPairs
  <2>4. {[file |-> p[1], line |-> p[2].from] : p \in {p \in pairs : p[2].status \in Unnoticed}}
          = {[file |-> m.file, line |-> m.from] : m \in alive}
    <3> DEFINE V == {[file |-> p[1], line |-> p[2].from] : p \in {p \in pairs : p[2].status \in Unnoticed}}
               W == {[file |-> m.file, line |-> m.from] : m \in alive}
    <3>1. ASSUME NEW v \in V PROVE v \in W
      <4>1. PICK p \in pairs : p[2].status \in Unnoticed /\ v = [file |-> p[1], line |-> p[2].from]
        OBVIOUS
      <4>2. PICK m \in found : p = <<m.file, [from |-> m.from, to |-> m.to, status |-> CosmicStatus(CosmicSays(m.fate))]>>
        BY <4>1
      <4>3. m \in alive /\ v = [file |-> m.file, line |-> m.from]
        BY <4>1, <4>2, StatusesOfFates
      <4> QED BY <4>3
    <3>2. ASSUME NEW v \in W PROVE v \in V
      <4>1. PICK m \in alive : v = [file |-> m.file, line |-> m.from]
        OBVIOUS
      <4> DEFINE p == <<m.file, [from |-> m.from, to |-> m.to, status |-> CosmicStatus(CosmicSays(m.fate))]>>
      <4>2. p \in pairs /\ p[2].status \in Unnoticed /\ v = [file |-> p[1], line |-> p[2].from]
        BY <4>1, StatusesOfFates
      <4> HIDE DEF p
      <4> QED BY <4>2
    <3> QED BY <3>1, <3>2
  <2>5. {Named(c, m) : m \in Survivors(c)} = {[file |-> m.file, line |-> m.from] : m \in alive}
    BY <1>6, <2>1
  <2> QED BY <2>2, <2>3, <2>4, <2>5
<1>8. ASSUME narrowed PROVE Reported(c, report).survivors = {Named(c, m) : m \in Survivors(c)}
  <2> DEFINE diff == mutates[c].diff
             alive == {m \in found : m.fate \in {"survived", "uncovered"} /\ Hit(m)}
  <2>1. Survivors(c) = alive
    BY <1>6, <1>8 DEF Survivors
  <2>2. diff # None /\ changed = ChangedLinesByFile(diff)
    BY <1>8 DEF ChangedLines
  <2>3. Reported(c, report) = SummarizeMutation(FilterToChangedLines(Grouped(pairs), ChangedLinesByFile(diff)))
    <3>1. Reported(c, report) = SummarizeMutation(FilterToChangedLines(report, changed))
      <4> HIDE DEF report
      <4> QED BY <1>8 DEF Reported
    <3> QED BY <1>4, <2>2, <3>1
  <2>4. SummarizeMutation(FilterToChangedLines(Grouped(pairs), ChangedLinesByFile(diff))).survivors
          = {[file |-> p[1], line |-> p[2].from] :
                p \in {p \in pairs : /\ p[2].status \in Unnoticed
                                     /\ \E n \in p[2].from .. p[2].to : <<p[1], n>> \in diff}}
    <3>1. \A l \in diff : l = <<l[1], l[2]>>
      BY <2>2 DEF MutationInv, ProjectInv
    <3> HIDE DEF pairs, diff
    <3> QED BY <3>1, SurvivorsOnChangedLines
  <2>5. {[file |-> p[1], line |-> p[2].from] :
                p \in {p \in pairs : /\ p[2].status \in Unnoticed
                                     /\ \E n \in p[2].from .. p[2].to : <<p[1], n>> \in diff}}
          = {[file |-> m.file, line |-> m.from] : m \in alive}
    <3> DEFINE V == {[file |-> p[1], line |-> p[2].from] :
                p \in {p \in pairs : /\ p[2].status \in Unnoticed
                                     /\ \E n \in p[2].from .. p[2].to : <<p[1], n>> \in diff}}
               W == {[file |-> m.file, line |-> m.from] : m \in alive}
    <3>1. ASSUME NEW v \in V PROVE v \in W
      <4>1. PICK p \in pairs : /\ p[2].status \in Unnoticed /\ \E n \in p[2].from .. p[2].to : <<p[1], n>> \in diff
                             /\ v = [file |-> p[1], line |-> p[2].from]
        OBVIOUS
      <4>2. PICK m \in found : p = <<m.file, [from |-> m.from, to |-> m.to, status |-> CosmicStatus(CosmicSays(m.fate))]>>
        BY <4>1
      <4>3. m \in alive /\ v = [file |-> m.file, line |-> m.from]
        BY <4>1, <4>2, StatusesOfFates
      <4> QED BY <4>3
    <3>2. ASSUME NEW v \in W PROVE v \in V
      <4>1. PICK m \in alive : v = [file |-> m.file, line |-> m.from]
        OBVIOUS
      <4> DEFINE p == <<m.file, [from |-> m.from, to |-> m.to, status |-> CosmicStatus(CosmicSays(m.fate))]>>
      <4>2. /\ p \in pairs /\ p[2].status \in Unnoticed /\ \E n \in p[2].from .. p[2].to : <<p[1], n>> \in diff
            /\ v = [file |-> p[1], line |-> p[2].from]
        BY <4>1, StatusesOfFates
      <4> HIDE DEF p
      <4> QED BY <4>2
    <3> QED BY <3>1, <3>2
  <2>6. {Named(c, m) : m \in Survivors(c)} = {[file |-> m.file, line |-> m.from] : m \in alive}
    BY <1>6, <2>1
  <2> QED BY <2>3, <2>4, <2>5, <2>6
<1> QED BY <1>5, <1>7, <1>8
LEMMA FinishMutationKeeps ==
  ASSUME MutationInv, NEW c \in DOMAIN mcalls, FinishMutation(c)
  PROVE  MutationInv'
<1> DEFINE report == Report(c)
<1>1. StageInv(c) /\ LeftInv(c) /\ mcalls[c].at = "finish" /\ disk = DiskFields(disk)
  BY DEF MutationInv, ProjectInv, FinishMutation
<1> DEFINE answer == [survivors |-> Reported(c, report).survivors,
                      mutated   |-> IF mcalls[c].scope = None THEN {}
                                    ELSE Reconciled(c, SummarizeMutation(report)).mutated]
<1>2. /\ tree' = tree /\ mutates' = mutates /\ Tool(c)' = Tool(c)
      /\ DOMAIN mcalls' = DOMAIN mcalls /\ \A o \in DOMAIN mcalls \ {c} : mcalls'[o] = mcalls[o]
      /\ disk' = disk \/ disk' = [disk EXCEPT !.config = None]
  BY DEF FinishMutation, Tool
<1>3. disk' = DiskFields(disk') /\ disk'.report = disk.report
  BY <1>1, <1>2 DEF DiskFields
<1>4. CASE mcalls' = [mcalls EXCEPT ![c].at = "error"]
  <2>1. /\ mcalls'[c] = CallFields(mcalls'[c]) /\ mcalls'[c].at = "error"
        /\ mcalls'[c].scope = mcalls[c].scope /\ mcalls'[c].reused = mcalls[c].reused
    BY <1>1, <1>4 DEF StageInv, CallFields
  <2>2. StepOf(c)
    BY <1>1, <1>2, <1>3, <2>1 DEF StepOf, Idle
  <2> QED BY <2>1, <2>2, EndsUnrun
<1>5. CASE Conclusive(c, report) /\ mcalls' = [mcalls EXCEPT ![c].at = "done", ![c].told = answer]
  <2> HIDE DEF answer
  <2>1. mcalls'[c] = [at |-> "done", scope |-> mcalls[c].scope, config |-> mcalls[c].config,
                      session |-> mcalls[c].session, found |-> mcalls[c].found, reused |-> mcalls[c].reused, wrote |-> mcalls[c].wrote, code |-> mcalls[c].code, told |-> answer]
    BY <1>1, <1>5 DEF StageInv, CallFields
  <2>2. /\ mcalls'[c].at = "done" /\ mcalls'[c].scope = mcalls[c].scope /\ mcalls'[c].found = mcalls[c].found
        /\ mcalls'[c].reused = mcalls[c].reused /\ mcalls'[c].wrote = mcalls[c].wrote
        /\ mcalls'[c].code = mcalls[c].code /\ mcalls'[c].told = answer /\ mcalls'[c] = CallFields(mcalls'[c])
    BY <2>1 DEF CallFields
  <2>3. StepOf(c)
    BY <1>1, <1>2, <1>3, <2>2 DEF StepOf, Idle
  <2>4. StageInv(c)'
    BY <1>1, <1>2, <2>2 DEF StageInv, Mutable
  <2>5. mcalls[c].code = 0 =>
          /\ Answered(c) /\ mcalls[c].scope # None /\ (Tool(c) = "mutmut" => Distinct)
               => \A p \in mcalls[c].scope : \E x \in mcalls[c].found \cup mcalls[c].reused : x.file = p
          /\ Answered(c) /\ (Tool(c) = "stryker" => Alone(c)) /\ (Tool(c) = "mutmut" => mcalls[c].scope # None)
               => Reported(c, report).survivors = {Named(c, m) : m \in Survivors(c)}
    <3> SUFFICES ASSUME mcalls[c].code = 0
                 PROVE  /\ Answered(c) /\ mcalls[c].scope # None /\ (Tool(c) = "mutmut" => Distinct)
                             => \A p \in mcalls[c].scope : \E x \in mcalls[c].found \cup mcalls[c].reused : x.file = p
                        /\ Answered(c) /\ (Tool(c) = "stryker" => Alone(c)) /\ (Tool(c) = "mutmut" => mcalls[c].scope # None)
                             => Reported(c, report).survivors = {Named(c, m) : m \in Survivors(c)}
      OBVIOUS
    <3>1. CASE Tool(c) = "stryker"
      <4>1. report = disk.report /\ (Answered(c) => StrykerLeft(c))
        BY <1>1, <3>1 DEF LeftInv, Report, Tool, Answered
      <4> HIDE DEF report
      <4> QED BY <1>5, <3>1, <4>1, StrykerAnswers
    <3>2. CASE Tool(c) = "mutmut" /\ mcalls[c].scope # None
      <4>1. report = ParseMutmutResults(mcalls[c].session) /\ MutmutLeft(c)
        BY <1>1, <3>2 DEF LeftInv, Report, Tool
      <4> HIDE DEF report
      <4> QED BY <1>5, <3>2, <4>1, MutmutAnswers
    <3>3. CASE Tool(c) = "mutmut" /\ mcalls[c].scope = None
      BY <3>3
    <3>4. CASE Tool(c) \notin {"stryker", "mutmut"}
      <4>1. report = ParseCosmicRayDump(mcalls[c].session) /\ CosmicLeft(c)
        BY <1>1, <3>4 DEF LeftInv, Report, Tool
      <4> HIDE DEF report
      <4> QED BY <1>5, <3>4, <4>1, CosmicAnswers
    <3> QED BY <3>1, <3>2, <3>3, <3>4
  <2>6. mcalls[c].code = 0 => WasMutated(c)'
    <3>1. Distinct' <=> Distinct
      BY <1>2 DEF Distinct
    <3> QED BY <1>2, <2>2, <2>5, <3>1 DEF WasMutated, Answered
  <2>7. mcalls[c].code = 0 => ToldTheRuns(c)'
    <3>1. Alone(c)' <=> Alone(c)
      BY <2>3, AloneStays
    <3>2. Survivors(c)' = Survivors(c)
      BY <1>2, <2>2 DEF Survivors, ChangedLines
    <3>3. {Named(c, m) : m \in Survivors(c)}' = {Named(c, m) : m \in Survivors(c)}
      BY <1>2, <3>2 DEF Named
    <3>4. answer.survivors = Reported(c, report).survivors
      BY DEF answer
    <3> HIDE DEF report
    <3> QED BY <1>2, <2>2, <2>5, <3>1, <3>3, <3>4 DEF ToldTheRuns, Answered
  <2>8. LeftInv(c)'
    BY <2>2, <2>6, <2>7 DEF LeftInv
  <2> QED BY <2>3, <2>4, <2>8, CallMoves
<1>6. \/ Conclusive(c, report) /\ mcalls' = [mcalls EXCEPT ![c].at = "done", ![c].told = answer]
      \/ mcalls' = [mcalls EXCEPT ![c].at = "error"]
  BY Zenon DEF FinishMutation
<1> QED BY <1>4, <1>5, <1>6

-----------------------------------------------------------------------------

LEMMA MutationNextKeeps ==
  ASSUME MutationInv, MutationNext
  PROVE  MutationInv'
<1>1. PICK c \in DOMAIN mcalls :
        \/ CmdSummarize(c) \/ MutateSummarize(c) \/ MutationRefused(c) \/ StartWhole(c) \/ StartScoped(c)
        \/ StrykerRuns(c) \/ MutmutRuns(c) \/ MutmutResults(c)
        \/ CosmicInit(c) \/ CosmicExec(c) \/ CosmicDump(c) \/ FinishMutation(c)
  BY DEF MutationNext
<1> QED BY <1>1, SummarizesKeeps, RefusedKeeps, StartWholeKeeps, StartScopedKeeps, StrykerRunsKeeps, MutmutRunsKeeps,
           MutmutResultsKeeps, CosmicInitKeeps, CosmicExecKeeps, CosmicDumpKeeps, FinishMutationKeeps

LEMMA UnchangedMutation ==
  ASSUME MutationPillarInv, UNCHANGED mvars
  PROVE  MutationPillarInv'
<1>1. tree' = tree /\ mutates' = mutates /\ disk' = disk /\ mcalls' = mcalls
  BY DEF mvars
<1>2. CASE mcalls = <<>>
  BY <1>1, <1>2 DEF MutationPillarInv
<1>3. CASE MutationInv
  <2>1. \A c \in DOMAIN mcalls : StageInv(c)' <=> StageInv(c)
    BY <1>1 DEF StageInv, CallFields, Tool, Mutable
  <2>2. ASSUME NEW c \in DOMAIN mcalls PROVE LeftInv(c)' <=> LeftInv(c)
    <3>1. Alone(c)' <=> Alone(c)
      BY <1>1 DEF Alone, Idle, Tool
    <3>2. StrykerLeft(c)' <=> StrykerLeft(c)
      BY <1>1, <3>1 DEF StrykerLeft, ReportIsReal, StrykerSession, StrykerReach, Mutable
    <3>3. MutmutLeft(c)' <=> MutmutLeft(c)
      BY <1>1 DEF MutmutLeft, MutmutSession, Unchecked
    <3>4. CosmicLeft(c)' <=> CosmicLeft(c)
      BY <1>1 DEF CosmicLeft, CosmicSession
    <3>5. WasMutated(c)' <=> WasMutated(c)
      BY <1>1 DEF WasMutated, Answered, Distinct, Tool
    <3>6. ToldTheRuns(c)' <=> ToldTheRuns(c)
      BY <1>1, <3>1 DEF ToldTheRuns, Answered, Survivors, ChangedLines, Named, Tool
    <3> QED BY <1>1, <3>2, <3>3, <3>4, <3>5, <3>6 DEF LeftInv, Tool
  <2>3. ProjectInv' <=> ProjectInv
    BY <1>1 DEF ProjectInv, DiskFields
  <2> QED BY <1>1, <1>3, <2>1, <2>2, <2>3 DEF MutationPillarInv, MutationInv
<1> QED BY <1>2, <1>3 DEF MutationPillarInv

\* What the calls of a project know and share: the sessions and the shared
\* report hold what the tools say of the mutants the calls tried.
THEOREM MutationPillarHolds == Spec => []MutationPillarInv
<1>1. Init => MutationPillarInv
  BY MutationInitHolds DEF Init, MutationRests, MutationPillarInv
<1>2. MutationPillarInv /\ [Next]_vars => MutationPillarInv'
  <2> SUFFICES ASSUME MutationPillarInv, [Next]_vars PROVE MutationPillarInv'
    OBVIOUS
  <2>1. CASE MutationNext
    <3>1. mcalls # <<>>
      BY <2>1 DEF MutationNext
    <3> QED BY <2>1, <3>1, MutationNextKeeps DEF MutationPillarInv
  <2>2. CASE UNCHANGED mvars
    BY <2>2, UnchangedMutation
  <2> QED BY <2>1, <2>2 DEF Next, vars, Finished
<1> QED BY <1>1, <1>2, PTL DEF Spec

\* The tool of a scoped run that ends well tried a mutant of every file that
\* was selected (mutate/src/scope.ts, reconcileScope).
THEOREM MutationRunsCoverTheScope == Spec => []RequestedWasMutated
<1>1. MutationPillarInv => RequestedWasMutated
  BY DEF MutationPillarInv, MutationInv, LeftInv, WasMutated, RequestedWasMutated, Clean, CmdRunExit, Tool
<1> QED BY <1>1, MutationPillarHolds, PTL

\* The survivors a run that ends well tells are those its own processes left
\* (mutate/src/summarize.ts, summarizeMutation).
THEOREM MutationSurvivorsAreTheRuns == Spec => []SurvivorsAreTheRuns
<1>1. MutationPillarInv => SurvivorsAreTheRuns
  <2> SUFFICES ASSUME MutationPillarInv, NEW c \in DOMAIN mcalls, Clean(c), Answered(c),
                      mutates[c].tool = "stryker" =>
                        \A o \in DOMAIN mcalls \ {c} : mutates[o].tool # "stryker" \/ mcalls[o].at \in {"asked", "refused", "noop"},
                      mutates[c].tool = "mutmut" => mcalls[c].scope # None
               PROVE  mcalls[c].told.survivors = {Named(c, m) : m \in Survivors(c)}
    BY DEF SurvivorsAreTheRuns
  <2>1. LeftInv(c) /\ mcalls[c].at = "done" /\ mcalls[c].code = 0
    BY DEF MutationPillarInv, MutationInv, Clean, CmdRunExit
  <2>2. Tool(c) = "stryker" => Alone(c)
    BY DEF Alone, Idle, Tool
  <2> QED BY <2>1, <2>2 DEF LeftInv, ToldTheRuns, Tool
<1> QED BY <1>1, MutationPillarHolds, PTL

-----------------------------------------------------------------------------
(* A set in order.                                                         *)

\* L puts the members of S in a total order.
Orders(L, S) ==
  /\ \A x, y \in S : <<x, y>> \in L => x # y /\ <<y, x>> \notin L
  /\ \A x, y \in S : x # y => <<x, y>> \in L \/ <<y, x>> \in L
  /\ \A x, y, z \in S : <<x, y>> \in L /\ <<y, z>> \in L => <<x, z>> \in L

LEMMA SortedPlaces ==
  ASSUME NEW S, IsFiniteSet(S), NEW L, Orders(L, S)
  PROVE  /\ Cardinality(S) \in Nat
         /\ \A k \in 1 .. Cardinality(S) : Sorted(S, L)[k] \in S
         /\ \A x \in S : \E k \in 1 .. Cardinality(S) : Sorted(S, L)[k] = x
         /\ \A j, k \in 1 .. Cardinality(S) : j < k => <<Sorted(S, L)[j], Sorted(S, L)[k]>> \in L
<1>0. PICK n : n = Cardinality(S)
  OBVIOUS
<1>1. n \in Nat
  BY <1>0, FS_CardinalityType
<1> DEFINE Place(x) == Cardinality(AtOrBefore(S, L, x))
<1>2. \A x \in S : AtOrBefore(S, L, x) \in SUBSET S /\ IsFiniteSet(AtOrBefore(S, L, x)) /\ Place(x) \in 1 .. n
  <2> SUFFICES ASSUME NEW x \in S
               PROVE  AtOrBefore(S, L, x) \in SUBSET S /\ IsFiniteSet(AtOrBefore(S, L, x)) /\ Place(x) \in 1 .. n
    OBVIOUS
  <2>1. PICK U : U = AtOrBefore(S, L, x)
    OBVIOUS
  <2>2. U \in SUBSET S /\ x \in U
    BY <2>1 DEF AtOrBefore
  <2>3. IsFiniteSet(U) /\ Cardinality(U) <= n /\ Cardinality(U) \in Nat /\ Cardinality(U) # 0
    BY <2>2, <1>0, FS_Subset, FS_CardinalityType, FS_EmptySet
  <2> QED BY <2>1, <2>2, <2>3, <1>1
<1>3. \A x, y \in S : <<x, y>> \in L => Place(x) < Place(y)
  <2> SUFFICES ASSUME NEW x \in S, NEW y \in S, <<x, y>> \in L PROVE Place(x) < Place(y)
    OBVIOUS
  <2>1. PICK U, V : U = AtOrBefore(S, L, x) /\ V = AtOrBefore(S, L, y)
    OBVIOUS
  <2>2. U \in SUBSET V
    BY <2>1 DEF AtOrBefore, Orders
  <2>3. y \in V /\ y \notin U
    BY <2>1 DEF AtOrBefore, Orders
  <2>4. Cardinality(U) <= Cardinality(V) /\ Cardinality(U) # Cardinality(V)
    BY <2>1, <2>2, <2>3, <1>2, FS_Subset
  <2>5. Cardinality(U) \in 1 .. n /\ Cardinality(V) \in 1 .. n
    BY <2>1, <1>2
  <2> QED BY <2>1, <2>4, <2>5, <1>1
<1>4. PICK f : f = [x \in S |-> Place(x)]
  OBVIOUS
<1>5. f \in [S -> 1 .. n] /\ \A x \in S : f[x] = Place(x)
  BY <1>2, <1>4
<1> HIDE DEF Place
<1>6. \A x, y \in S : x # y => f[x] < f[y] \/ f[y] < f[x]
  <2>1. \A x, y \in S : <<x, y>> \in L => f[x] < f[y]
    BY <1>3, <1>5
  <2> QED BY <2>1 DEF Orders
<1>7. f \in Injection(S, 1 .. n)
  <2>1. \A x, y \in S : f[x] = f[y] => x = y
    <3> SUFFICES ASSUME NEW x \in S, NEW y \in S, x # y PROVE f[x] # f[y]
      OBVIOUS
    <3>1. f[x] \in 1 .. n /\ f[y] \in 1 .. n
      BY <1>5
    <3> QED BY <3>1, <1>1, <1>6
  <2> QED BY <1>5, <2>1 DEF Injection, IsInjective
<1>8. IsFiniteSet(1 .. n) /\ Cardinality(1 .. n) = n
  BY <1>1, FS_Interval
<1>9. f \in Surjection(S, 1 .. n)
  BY <1>0, <1>7, <1>8, FS_Injection
<1>10. \A k \in 1 .. n : \E x \in S : f[x] = k
  BY <1>9 DEF Surjection
<1>11. \A k \in 1 .. n : Sorted(S, L)[k] \in S /\ f[Sorted(S, L)[k]] = k
  <2> SUFFICES ASSUME NEW k \in 1 .. n PROVE Sorted(S, L)[k] \in S /\ f[Sorted(S, L)[k]] = k
    OBVIOUS
  <2>1. Sorted(S, L)[k] = CHOOSE x \in S : Place(x) = k
    BY <1>0 DEF Sorted, Place
  <2>2. \E x \in S : Place(x) = k
    BY <1>5, <1>10
  <2>3. Sorted(S, L)[k] \in S /\ Place(Sorted(S, L)[k]) = k
    BY <2>1, <2>2
  <2> QED BY <2>3, <1>5
<1>12. \A x \in S : \E k \in 1 .. n : Sorted(S, L)[k] = x
  <2> SUFFICES ASSUME NEW x \in S PROVE \E k \in 1 .. n : Sorted(S, L)[k] = x
    OBVIOUS
  <2>1. f[x] \in 1 .. n
    BY <1>5
  <2>2. Sorted(S, L)[f[x]] \in S /\ f[Sorted(S, L)[f[x]]] = f[x]
    BY <2>1, <1>11
  <2>3. Sorted(S, L)[f[x]] = x
    BY <2>2, <1>7 DEF Injection, IsInjective
  <2> QED BY <2>1, <2>3
<1>13. \A j, k \in 1 .. n : j < k => <<Sorted(S, L)[j], Sorted(S, L)[k]>> \in L
  <2> SUFFICES ASSUME NEW j \in 1 .. n, NEW k \in 1 .. n, j < k
               PROVE  <<Sorted(S, L)[j], Sorted(S, L)[k]>> \in L
    OBVIOUS
  <2>1. PICK x, y : x = Sorted(S, L)[j] /\ y = Sorted(S, L)[k]
    OBVIOUS
  <2>2. x \in S /\ y \in S /\ f[x] = j /\ f[y] = k
    BY <2>1, <1>11
  <2>3. x # y /\ ~ (k < j)
    BY <2>2, <1>1
  <2>4. <<y, x>> \notin L
    BY <2>2, <2>3, <1>3, <1>5
  <2> QED BY <2>1, <2>2, <2>3, <2>4 DEF Orders
<1> QED BY <1>0, <1>1, <1>11, <1>12, <1>13

\* What holds at the start and is kept by one more holds throughout.
LEMMA Throughout ==
  ASSUME NEW n \in Nat, NEW Good, 0 \in Good, \A i \in 1 .. n : i - 1 \in Good => i \in Good
  PROVE  \A i \in 0 .. n : i \in Good
<1> DEFINE Bad == {i \in 0 .. n : i \notin Good}
<1> SUFFICES ASSUME Bad # {} PROVE FALSE
  OBVIOUS
<1>1. PICK i \in Bad : \A k \in Bad : i <= k
  <2>1. Bad \in SUBSET Nat /\ Bad # {}
    OBVIOUS
  <2> HIDE DEF Bad
  <2> QED BY <2>1, MinimalNumber
<1>2. i \in 1 .. n /\ i - 1 \in 0 .. n /\ i - 1 \notin Bad
  BY <1>1
<1> QED BY <1>1, <1>2

-----------------------------------------------------------------------------
(* The advisories.  A version is as high as its number, and the beginning  *)
(* lower than all.                                                         *)

Points(eco) == {Zero} \cup {t \in Texts : IsValid(eco, t)}

Height(t) == IF t = Zero THEN -1 ELSE Number(t.v)

\* Two numbers written in NumberBase are compared digit by digit.
LEMMA DigitsInTurn ==
  ASSUME NEW x \in Nat, NEW y \in Nat, NEW r \in 0 .. NumberBase - 1, NEW s \in 0 .. NumberBase - 1
  PROVE  /\ NumberBase * x + r \in Nat
         /\ NumberBase * x + r < NumberBase * y + s <=> x < y \/ (x = y /\ r < s)
<1>0. NumberBase \in Nat /\ NumberBase > 0 /\ r \in Nat /\ s \in Nat /\ r < NumberBase /\ s < NumberBase
  BY BaseAssumption
<1>1. \A a, b \in Nat : NumberBase * a \in Nat /\ (a < b => NumberBase * b >= NumberBase * a + NumberBase)
  <2> TAKE a \in Nat, b \in Nat
  <2>1. NumberBase * a \in Nat
    BY <1>0
  <2>2. ASSUME a < b PROVE NumberBase * b >= NumberBase * a + NumberBase
    <3>1. PICK d \in Nat : b = a + 1 + d
      BY <2>2
    <3>2. NumberBase * b = NumberBase * a + NumberBase + NumberBase * d
      BY <1>0, <3>1
    <3>3. NumberBase * d \in Nat
      BY <1>0
    <3> QED BY <1>0, <2>1, <3>2, <3>3
  <2> QED BY <2>1, <2>2
<1>2. PICK p, q : p = NumberBase * x /\ q = NumberBase * y
  OBVIOUS
<1>3. p \in Nat /\ q \in Nat /\ (x < y => q >= p + NumberBase) /\ (y < x => p >= q + NumberBase) /\ (x = y => p = q)
  BY <1>1, <1>2
<1>4. p + r \in Nat /\ (p + r < q + s <=> x < y \/ (x = y /\ r < s))
  BY <1>0, <1>3
<1> QED BY <1>2, <1>4

ThreeBefore(a, b, c, d, e, f) == a < d \/ (a = d /\ (b < e \/ (b = e /\ c < f)))

LEMMA ThreeInTurn ==
  ASSUME NEW a \in Nat, NEW b \in 0 .. NumberBase - 1, NEW c \in 0 .. NumberBase - 1,
         NEW d \in Nat, NEW e \in 0 .. NumberBase - 1, NEW f \in 0 .. NumberBase - 1
  PROVE  /\ NumberBase * (NumberBase * a + b) + c \in Nat
         /\ NumberBase * (NumberBase * a + b) + c < NumberBase * (NumberBase * d + e) + f <=> ThreeBefore(a, b, c, d, e, f)
<1>1. NumberBase * a + b \in Nat /\ (NumberBase * a + b < NumberBase * d + e <=> a < d \/ (a = d /\ b < e))
  BY ONLY DigitsInTurn
<1>2. NumberBase * d + e \in Nat /\ (NumberBase * d + e < NumberBase * a + b <=> d < a \/ (d = a /\ e < b))
  BY ONLY DigitsInTurn
<1>3. PICK x, y : x = NumberBase * a + b /\ y = NumberBase * d + e
  OBVIOUS
<1>4. x \in Nat /\ y \in Nat
  BY <1>1, <1>2, <1>3
<1>5. NumberBase * x + c \in Nat /\ (NumberBase * x + c < NumberBase * y + f <=> x < y \/ (x = y /\ c < f))
  BY ONLY <1>4, DigitsInTurn
<1>6. PICK m, n : m = NumberBase * x + c /\ n = NumberBase * y + f
  OBVIOUS
<1>7. x < y <=> a < d \/ (a = d /\ b < e)
  BY <1>1, <1>3
<1>8. y < x <=> d < a \/ (d = a /\ e < b)
  BY <1>2, <1>3
<1>9. x = y <=> a = d /\ b = e
  BY ONLY <1>4, <1>7, <1>8
<1>10. m \in Nat /\ (m < n <=> x < y \/ (x = y /\ c < f))
  BY ONLY <1>5, <1>6
<1>11. m \in Nat /\ (m < n <=> ThreeBefore(a, b, c, d, e, f))
  BY ONLY <1>7, <1>9, <1>10 DEF ThreeBefore
<1> QED BY ONLY <1>3, <1>6, <1>11

LEMMA NumbersAreNatural ==
  ASSUME NEW v \in Versions
  PROVE  Number(v) \in Nat
<1>1. v.major \in Nat /\ v.minor \in 0 .. NumberBase - 1 /\ v.patch \in 0 .. NumberBase - 1
  BY DEF Versions
<1>2. PICK x : x = NumberBase * v.major + v.minor
  OBVIOUS
<1>3. x \in Nat
  BY <1>1, <1>2, DigitsInTurn
<1>4. PICK y : y = NumberBase * x + v.patch
  OBVIOUS
<1>5. y \in Nat
  BY <1>1, <1>3, <1>4, DigitsInTurn
<1>6. Number(v) = 2 * y + (IF v.stable THEN 1 ELSE 0)
  BY <1>2, <1>4 DEF Number
<1> QED BY <1>5, <1>6

\* What the audit calls newer is newer as semver has it: by the three numbers
\* in turn, and a release after its pre-release (Compare's use of semver.compare).
THEOREM NewerIsPrecedence ==
  ASSUME NEW a \in Texts, NEW b \in Texts
  PROVE  Newer(a, b) <=>
           \/ a.v.major > b.v.major
           \/ a.v.major = b.v.major /\ \/ a.v.minor > b.v.minor
                                       \/ a.v.minor = b.v.minor /\ \/ a.v.patch > b.v.patch
                                                                   \/ /\ a.v.patch = b.v.patch
                                                                      /\ a.v.stable /\ ~ b.v.stable
<1>1. PICK v, w : v = a.v /\ w = b.v
  OBVIOUS
<1>2. v \in Versions /\ w \in Versions
  BY <1>1 DEF Texts
<1>3. /\ v.major \in Nat /\ v.minor \in 0 .. NumberBase - 1 /\ v.patch \in 0 .. NumberBase - 1 /\ v.stable \in BOOLEAN
      /\ w.major \in Nat /\ w.minor \in 0 .. NumberBase - 1 /\ w.patch \in 0 .. NumberBase - 1 /\ w.stable \in BOOLEAN
  BY <1>2 DEF Versions
<1>4. PICK m, n : /\ m = NumberBase * (NumberBase * v.major + v.minor) + v.patch
                   /\ n = NumberBase * (NumberBase * w.major + w.minor) + w.patch
  OBVIOUS
<1>5. /\ m \in Nat /\ n \in Nat
      /\ m < n <=> ThreeBefore(v.major, v.minor, v.patch, w.major, w.minor, w.patch)
      /\ n < m <=> ThreeBefore(w.major, w.minor, w.patch, v.major, v.minor, v.patch)
  BY <1>3, <1>4, ThreeInTurn
<1>6. Newer(a, b) <=> 2 * m + (IF v.stable THEN 1 ELSE 0) > 2 * n + (IF w.stable THEN 1 ELSE 0)
  BY <1>1, <1>4 DEF Newer, Number
<1>7. Newer(a, b) <=> n < m \/ (~ m < n /\ v.stable /\ ~ w.stable)
  BY <1>3, <1>5, <1>6
<1>8. ~ m < n /\ ~ n < m <=> v.major = w.major /\ v.minor = w.minor /\ v.patch = w.patch
  BY <1>3, <1>5 DEF ThreeBefore
<1> QED BY <1>1, <1>3, <1>5, <1>7, <1>8 DEF ThreeBefore

LEMMA ComparesHeights ==
  ASSUME NEW eco, NEW a \in Points(eco), NEW b \in Points(eco)
  PROVE  /\ Height(a) \in Int /\ Height(b) \in Int /\ Compare(eco, a, b) \in Int
         /\ Compare(eco, a, b) < 0 <=> Height(a) < Height(b)
         /\ Compare(eco, a, b) > 0 <=> Height(a) > Height(b)
<1>1. Zero \notin Texts /\ None \notin Versions
  BY AuditAssumption
<1>2. \A t \in Points(eco) : t # Zero =>
        /\ t.v \in Versions /\ Number(t.v) \in Nat /\ Height(t) = Number(t.v) /\ Comparable(eco, t) = t.v
  <2> SUFFICES ASSUME NEW t \in Points(eco), t # Zero
               PROVE  /\ t.v \in Versions /\ Number(t.v) \in Nat
                      /\ Height(t) = Number(t.v) /\ Comparable(eco, t) = t.v
    OBVIOUS
  <2>1. t.v \in Versions /\ IsValid(eco, t)
    BY DEF Points, Texts
  <2>3. Number(t.v) \in Nat
    BY <2>1, NumbersAreNatural
  <2> QED BY <2>1, <2>3 DEF Height, Comparable
<1>3. CASE a = b
  BY <1>2, <1>3 DEF Compare, Height
<1>4. CASE a # b /\ b = Zero
  <2>1. Compare(eco, a, b) = 1 /\ Height(b) = -1 /\ Height(a) \in Nat
    BY <1>2, <1>4 DEF Compare, Height
  <2> QED BY <2>1
<1>5. CASE a # b /\ b # Zero /\ a = Zero
  <2>1. Compare(eco, a, b) = -1 /\ Height(a) = -1 /\ Height(b) \in Nat
    BY <1>2, <1>5 DEF Compare, Height
  <2> QED BY <2>1
<1>6. CASE a # b /\ a # Zero /\ b # Zero
  <2>1. PICK x, y : x = Number(a.v) /\ y = Number(b.v)
    OBVIOUS
  <2>2. x \in Nat /\ y \in Nat /\ Height(a) = x /\ Height(b) = y
    BY <1>2, <1>6, <2>1
  <2>3. Compare(eco, a, b) = Sign(x - y)
    BY <1>1, <1>2, <1>6, <2>1 DEF Compare
  <2>4. Sign(x - y) \in Int /\ (Sign(x - y) < 0 <=> x < y) /\ (Sign(x - y) > 0 <=> x > y)
    BY <2>2 DEF Sign
  <2> QED BY <2>2, <2>3, <2>4
<1> QED BY <1>3, <1>4, <1>5, <1>6

\* The key the events are ordered by.
Key(e) == 2 * Height(e.at) + (IF e.kind = "introduced" THEN 0 ELSE 1)

LEMMA BeforeIsByKey ==
  ASSUME NEW eco, NEW x, NEW y, x.at \in Points(eco), y.at \in Points(eco)
  PROVE  Key(x) \in Int /\ Key(y) \in Int /\ (Before(eco, x, y) <=> Key(x) < Key(y))
<1>1. PICK g, h, c : g = Height(x.at) /\ h = Height(y.at) /\ c = Compare(eco, x.at, y.at)
  OBVIOUS
<1>2. g \in Int /\ h \in Int /\ c \in Int /\ (c < 0 <=> g < h) /\ (c > 0 <=> g > h)
  BY <1>1, ComparesHeights
<1>3. c = 0 <=> g = h
  BY <1>2
<1>4. Before(eco, x, y) <=> g < h \/ (g = h /\ x.kind = "introduced" /\ y.kind # "introduced")
  BY <1>1, <1>2, <1>3 DEF Before
<1> QED BY <1>1, <1>2, <1>4 DEF Key

LEMMA EventsInTurn ==
  ASSUME NEW eco, NEW events, IsRange(eco, events), NEW n, n = Len(events)
  PROVE  /\ \A k \in 1 .. n : InTurn(eco, events)[k] \in 1 .. n
         /\ \A i \in 1 .. n : \E k \in 1 .. n : InTurn(eco, events)[k] = i
         /\ \A j, k \in 1 .. n : j < k => Key(events[InTurn(eco, events)[j]]) <= Key(events[InTurn(eco, events)[k]])
<1> DEFINE Pairs == {p \in (DOMAIN events) \X (DOMAIN events) :
                       \/ Before(eco, events[p[1]], events[p[2]])
                       \/ ~ Before(eco, events[p[2]], events[p[1]]) /\ p[1] < p[2]}
<1>1. n \in Nat /\ DOMAIN events = 1 .. n /\ \A i \in 1 .. n : events[i].at \in Points(eco)
  BY DEF IsRange, Points
<1>2. PICK key : key = [i \in 1 .. n |-> Key(events[i])]
  OBVIOUS
<1>3. \A i \in 1 .. n : key[i] \in Int /\ key[i] = Key(events[i])
  BY <1>1, <1>2, BeforeIsByKey
<1>4. \A i, j \in 1 .. n : Before(eco, events[i], events[j]) <=> key[i] < key[j]
  BY <1>1, <1>3, BeforeIsByKey
<1>5. PICK L : L = Pairs
  OBVIOUS
<1>6. \A i, j \in 1 .. n : <<i, j>> \in L <=> key[i] < key[j] \/ (~ (key[j] < key[i]) /\ i < j)
  BY <1>1, <1>4, <1>5
<1>7. InTurn(eco, events) = Sorted(1 .. n, L)
  BY <1>1, <1>5 DEF InTurn
<1> HIDE DEF Pairs
<1>8. \A i, j \in 1 .. n : <<i, j>> \in L => i # j /\ <<j, i>> \notin L
  BY <1>3, <1>6
<1>9. \A i, j \in 1 .. n : i # j => <<i, j>> \in L \/ <<j, i>> \in L
  BY <1>3, <1>6
<1>10. \A i, j, k \in 1 .. n : <<i, j>> \in L /\ <<j, k>> \in L => <<i, k>> \in L
  BY <1>3, <1>6
<1>11. IsFiniteSet(1 .. n) /\ Cardinality(1 .. n) = n
  <2>1. n \in Nat
    BY <1>1
  <2>2. 1 \in Int /\ n \in Int /\ ~ (1 > n /\ n # 0)
    BY <2>1
  <2>3. IsFiniteSet(1 .. n) /\ Cardinality(1 .. n) = IF 1 > n THEN 0 ELSE n - 1 + 1
    BY <2>2, FS_Interval
  <2> QED BY <2>1, <2>3
<1>12. PICK s, S : s = Sorted(S, L) /\ S = 1 .. n
  OBVIOUS
<1>13. /\ \A k \in 1 .. n : s[k] \in S
       /\ \A i \in S : \E k \in 1 .. n : s[k] = i
       /\ \A j, k \in 1 .. n : j < k => <<s[j], s[k]>> \in L
  <2>1. IsFiniteSet(S) /\ Cardinality(S) = n
    BY <1>11, <1>12
  <2>2. \A i, j \in S : <<i, j>> \in L => i # j /\ <<j, i>> \notin L
    BY <1>8, <1>12
  <2>3. \A i, j \in S : i # j => <<i, j>> \in L \/ <<j, i>> \in L
    BY <1>9, <1>12
  <2>4. \A i, j, k \in S : <<i, j>> \in L /\ <<j, k>> \in L => <<i, k>> \in L
    BY <1>10, <1>12
  <2>5. Orders(L, S)
    BY <2>2, <2>3, <2>4 DEF Orders
  <2>7. IsFiniteSet(S)
    BY <2>1
  <2>8. /\ \A k \in 1 .. Cardinality(S) : Sorted(S, L)[k] \in S
        /\ \A x \in S : \E k \in 1 .. Cardinality(S) : Sorted(S, L)[k] = x
        /\ \A j, k \in 1 .. Cardinality(S) : j < k => <<Sorted(S, L)[j], Sorted(S, L)[k]>> \in L
    BY <2>5, <2>7, SortedPlaces
  <2> QED BY <2>1, <2>8, <1>12
<1>14. \A j, k \in 1 .. n : j < k => key[s[j]] <= key[s[k]]
  <2> SUFFICES ASSUME NEW j \in 1 .. n, NEW k \in 1 .. n, j < k PROVE key[s[j]] <= key[s[k]]
    OBVIOUS
  <2>1. PICK x \in 1 .. n, y \in 1 .. n : x = s[j] /\ y = s[k]
    BY <1>12, <1>13
  <2>2. <<x, y>> \in L
    BY <1>13, <2>1
  <2>3. key[x] \in Int /\ key[y] \in Int /\ (key[x] < key[y] \/ ~ (key[y] < key[x]))
    BY <1>3, <1>6, <2>2
  <2> QED BY <2>1, <2>3
<1>15. s = InTurn(eco, events)
  BY <1>7, <1>12
<1>16. \A j, k \in 1 .. n : j < k => Key(events[s[j]]) <= Key(events[s[k]])
  <2>1. \A k \in 1 .. n : key[s[k]] = Key(events[s[k]])
    BY <1>3, <1>12, <1>13
  <2> QED BY <2>1, <1>14
<1> QED BY <1>12, <1>13, <1>15, <1>16

-----------------------------------------------------------------------------
(* The scan of a range's events.                                           *)

ScanFit(g, eco, t, events, n) ==
  g = [i \in 0 .. n |-> i > 0 /\ Turn(eco, t, g[i - 1], events[InTurn(eco, events)[i]])]

LEMMA ScansExist ==
  ASSUME NEW eco, NEW t, NEW events, NEW n \in Nat
  PROVE  \E g : ScanFit(g, eco, t, events, n)
<1> DEFINE Good == {k \in 0 .. n : \E g : ScanFit(g, eco, t, events, k)}
<1>0. PICK turn : turn = InTurn(eco, events)
  OBVIOUS
<1>1. 0 \in Good
  <2>1. PICK g : g = [i \in 0 .. 0 |-> FALSE]
    OBVIOUS
  <2>2. \A i \in 0 .. 0 : (i > 0 /\ Turn(eco, t, g[i - 1], events[turn[i]])) = FALSE
    OBVIOUS
  <2>3. g = [i \in 0 .. 0 |-> i > 0 /\ Turn(eco, t, g[i - 1], events[turn[i]])]
    BY <2>1, <2>2
  <2>4. ScanFit(g, eco, t, events, 0)
    BY <2>3, <1>0 DEF ScanFit
  <2> QED BY <2>4
<1>2. ASSUME NEW k \in 1 .. n, k - 1 \in Good
      PROVE  k \in Good
  <2>1. PICK g : ScanFit(g, eco, t, events, k - 1)
    BY <1>2
  <2> DEFINE h == [i \in 0 .. k |-> IF i = k THEN k > 0 /\ Turn(eco, t, g[k - 1], events[turn[k]]) ELSE g[i]]
  <2>2. \A i \in 0 .. k - 1 : h[i] = g[i]
    OBVIOUS
  <2>3. \A i \in 0 .. k - 1 : g[i] = (i > 0 /\ Turn(eco, t, g[i - 1], events[turn[i]]))
    BY <2>1, <1>0 DEF ScanFit
  <2>4. h[k] = (k > 0 /\ Turn(eco, t, h[k - 1], events[turn[k]]))
    BY <2>2
  <2>5. \A i \in 0 .. k - 1 : h[i] = (i > 0 /\ Turn(eco, t, h[i - 1], events[turn[i]]))
    <3> SUFFICES ASSUME NEW i \in 0 .. k - 1 PROVE h[i] = (i > 0 /\ Turn(eco, t, h[i - 1], events[turn[i]]))
      OBVIOUS
    <3>1. h[i] = g[i] /\ (i > 0 => h[i - 1] = g[i - 1])
      BY <2>2
    <3> HIDE DEF h
    <3> QED BY <3>1, <2>3
  <2>6. h = [i \in 0 .. k |-> h[i]]
    OBVIOUS
  <2> HIDE DEF h
  <2>7. \A i \in 0 .. k : h[i] = (i > 0 /\ Turn(eco, t, h[i - 1], events[turn[i]]))
    <3>1. \A i \in 0 .. k : i = k \/ i \in 0 .. k - 1
      OBVIOUS
    <3> QED BY <2>4, <2>5, <3>1
  <2>8. ScanFit(h, eco, t, events, k)
    BY <2>6, <2>7, <1>0 DEF ScanFit
  <2> QED BY <2>8
<1>3. n \in Good
  <2> HIDE DEF Good
  <2> QED BY <1>1, <1>2, Throughout
<1> QED BY <1>3

ScansRange(g, eco, t, events, n) ==
  /\ VersionInRange(eco, t, events) = g[n]
  /\ g[0] = FALSE
  /\ \A i \in 1 .. n : g[i] = Turn(eco, t, g[i - 1], events[InTurn(eco, events)[i]])

LEMMA ScanEquation ==
  ASSUME NEW eco, NEW t, NEW events, NEW n \in Nat, n = Len(events)
  PROVE  \E g : ScansRange(g, eco, t, events, n)
<1> DEFINE G == CHOOSE g : ScanFit(g, eco, t, events, n)
<1>1. VersionInRange(eco, t, events) = G[n]
  BY DEF VersionInRange, ScanFit
<1>2. PICK g : g = G
  OBVIOUS
<1>3. ScanFit(g, eco, t, events, n)
  BY <1>2, ScansExist
<1>4. PICK turn : turn = InTurn(eco, events)
  OBVIOUS
<1>5. \A i \in 0 .. n : g[i] = (i > 0 /\ Turn(eco, t, g[i - 1], events[turn[i]]))
  BY <1>3, <1>4 DEF ScanFit
<1>6. \A i \in 1 .. n : (i > 0 /\ Turn(eco, t, g[i - 1], events[turn[i]])) = Turn(eco, t, g[i - 1], events[turn[i]])
  BY DEF Turn
<1>7. g[0] = FALSE
  <2>1. 0 \in 0 .. n /\ ~ (0 > 0)
    OBVIOUS
  <2>2. g[0] = (0 > 0 /\ Turn(eco, t, g[0 - 1], events[turn[0]]))
    BY <1>5, <2>1
  <2> QED BY <2>1, <2>2
<1>8. \A i \in 1 .. n : g[i] = Turn(eco, t, g[i - 1], events[turn[i]])
  BY <1>5, <1>6
<1>9. ScansRange(g, eco, t, events, n)
  BY <1>1, <1>2, <1>4, <1>7, <1>8 DEF ScansRange
<1> QED BY <1>9

Opens(e, here) == e.kind = "introduced" /\ Height(e.at) <= here

Closes(e, here) ==
  \/ e.kind = "fixed" /\ Height(e.at) <= here
  \/ e.kind = "last_affected" /\ Height(e.at) < here

LEMMA TurnMeans ==
  ASSUME NEW eco, NEW t \in Points(eco), NEW e, e.at \in Points(eco), NEW on \in BOOLEAN,
         e.kind \in {"introduced", "fixed", "last_affected"}
  PROVE  /\ Turn(eco, t, on, e) \in BOOLEAN
         /\ e.kind = "introduced" => (Turn(eco, t, on, e) <=> on \/ Opens(e, Height(t)))
         /\ e.kind # "introduced" => (Turn(eco, t, on, e) <=> on /\ ~ Closes(e, Height(t)))
<1>1. PICK g, h, c : g = Height(t) /\ h = Height(e.at) /\ c = Compare(eco, t, e.at)
  OBVIOUS
<1>2. g \in Int /\ h \in Int /\ c \in Int /\ (c < 0 <=> g < h) /\ (c > 0 <=> g > h)
  BY <1>1, ComparesHeights
<1>3. CASE e.kind = "introduced"
  <2>1. Turn(eco, t, on, e) <=> on \/ c >= 0
    BY <1>1, <1>3 DEF Turn
  <2>2. Opens(e, Height(t)) <=> c >= 0
    BY <1>1, <1>2, <1>3 DEF Opens
  <2>3. Turn(eco, t, on, e) \in BOOLEAN
    BY <1>3 DEF Turn
  <2> QED BY <1>3, <2>1, <2>2, <2>3
<1>4. CASE e.kind = "fixed"
  <2>1. Turn(eco, t, on, e) <=> on /\ c < 0
    BY <1>1, <1>4 DEF Turn
  <2>2. Closes(e, Height(t)) <=> ~ (c < 0)
    BY <1>1, <1>2, <1>4 DEF Closes
  <2>3. Turn(eco, t, on, e) \in BOOLEAN
    BY <1>4 DEF Turn
  <2> QED BY <1>4, <2>1, <2>2, <2>3
<1>5. CASE e.kind = "last_affected"
  <2>1. Turn(eco, t, on, e) <=> on /\ c <= 0
    BY <1>1, <1>5 DEF Turn
  <2>2. Closes(e, Height(t)) <=> ~ (c <= 0)
    BY <1>1, <1>2, <1>5 DEF Closes
  <2>3. Turn(eco, t, on, e) \in BOOLEAN
    BY <1>5 DEF Turn
  <2> QED BY <1>5, <2>1, <2>2, <2>3
<1> QED BY <1>3, <1>4, <1>5

\* After so many events the window is open when one of them opened it and none
\* since closed it.
LEMMA ScanStands ==
  ASSUME NEW eco, NEW t \in Points(eco), NEW events, IsRange(eco, events), NEW n, n = Len(events)
  PROVE  VersionInRange(eco, t, events) <=>
           \E i \in 1 .. n : /\ Opens(events[InTurn(eco, events)[i]], Height(t))
                             /\ \A j \in i + 1 .. n : ~ Closes(events[InTurn(eco, events)[j]], Height(t))
<1>0. n \in Nat
  BY DEF IsRange
<1>10. PICK g : ScansRange(g, eco, t, events, n)
  BY <1>0, ScanEquation
<1>1. /\ VersionInRange(eco, t, events) = g[n]
      /\ g[0] = FALSE
      /\ \A i \in 1 .. n : g[i] = Turn(eco, t, g[i - 1], events[InTurn(eco, events)[i]])
  BY <1>10 DEF ScansRange
<1> DEFINE here == Height(t)
           e(k) == events[InTurn(eco, events)[k]]
<1>3. \A i \in 1 .. n : g[i] = Turn(eco, t, g[i - 1], e(i))
  BY <1>1
<1>4. \A k \in 1 .. n : e(k).at \in Points(eco) /\ e(k).kind \in {"introduced", "fixed", "last_affected"}
  <2>1. \A i \in 1 .. n : events[i].at \in Points(eco) /\ events[i].kind \in {"introduced", "fixed", "last_affected"}
    BY DEF IsRange, Points
  <2>2. \A k \in 1 .. n : InTurn(eco, events)[k] \in 1 .. n
    BY EventsInTurn
  <2> QED BY <2>1, <2>2
<1> HIDE DEF here, e
<1> DEFINE Open(k) == \E i \in 1 .. k : Opens(e(i), here) /\ \A j \in i + 1 .. k : ~ Closes(e(j), here)
           Good == {k \in 0 .. n : g[k] \in BOOLEAN /\ (g[k] <=> Open(k))}
<1>5. 0 \in Good
  <2>1. ~ Open(0)
    OBVIOUS
  <2>2. g[0] \in BOOLEAN /\ ~ g[0]
    BY <1>1
  <2>3. 0 \in 0 .. n
    BY <1>0
  <2> HIDE DEF Open
  <2> QED BY <2>1, <2>2, <2>3
<1>6. ASSUME NEW k \in 1 .. n, k - 1 \in Good
      PROVE  k \in Good
  <2>1. PICK on \in BOOLEAN : on = g[k - 1]
    BY <1>6
  <2>2. on <=> Open(k - 1)
    BY <1>6, <2>1
  <2>3. g[k] = Turn(eco, t, on, e(k))
    BY <1>3, <2>1
  <2>4. /\ g[k] \in BOOLEAN
        /\ e(k).kind = "introduced" => (g[k] <=> on \/ Opens(e(k), here))
        /\ e(k).kind # "introduced" => (g[k] <=> on /\ ~ Closes(e(k), here))
    BY <1>4, <2>3, TurnMeans DEF here
  <2>5. e(k).kind = "introduced" => ~ Closes(e(k), here)
    BY DEF Closes
  <2>6. e(k).kind # "introduced" => ~ Opens(e(k), here)
    BY DEF Opens
  <2>7. Open(k) <=> Opens(e(k), here) \/ (Open(k - 1) /\ ~ Closes(e(k), here))
    <3>1. ASSUME Open(k) PROVE Opens(e(k), here) \/ (Open(k - 1) /\ ~ Closes(e(k), here))
      <4>1. PICK i \in 1 .. k : Opens(e(i), here) /\ \A j \in i + 1 .. k : ~ Closes(e(j), here)
        BY <3>1
      <4>2. CASE i = k
        BY <4>1, <4>2
      <4>3. CASE i # k
        <5>1. i \in 1 .. k - 1 /\ k \in i + 1 .. k /\ \A j \in i + 1 .. k - 1 : j \in i + 1 .. k
          BY <4>3, <1>0
        <5> QED BY <4>1, <5>1
      <4> QED BY <4>2, <4>3
    <3>2. ASSUME Opens(e(k), here) PROVE Open(k)
      <4>1. k \in 1 .. k /\ \A j \in k + 1 .. k : FALSE
        BY <1>0
      <4> QED BY <3>2, <4>1
    <3>3. ASSUME Open(k - 1), ~ Closes(e(k), here) PROVE Open(k)
      <4>1. PICK i \in 1 .. k - 1 : Opens(e(i), here) /\ \A j \in i + 1 .. k - 1 : ~ Closes(e(j), here)
        BY <3>3
      <4>2. i \in 1 .. k /\ \A j \in i + 1 .. k : j = k \/ j \in i + 1 .. k - 1
        BY <1>0
      <4> QED BY <3>3, <4>1, <4>2
    <3> QED BY <3>1, <3>2, <3>3
  <2> HIDE DEF Open
  <2> QED BY <2>2, <2>4, <2>5, <2>6, <2>7
<1>7. n \in Good
  <2> HIDE DEF Good
  <2>1. \A i \in 0 .. n : i \in Good
    BY <1>0, <1>5, <1>6, Throughout
  <2> QED BY <1>0, <2>1
<1>8. VersionInRange(eco, t, events) <=> Open(n)
  <2> HIDE DEF Open
  <2> QED BY <1>1, <1>7
<1> QED BY <1>8 DEF e, here

\* The scan of a range finds the versions that its windows hold.
LEMMA ScanMeetsWindow ==
  ASSUME NEW eco, NEW t \in Texts, IsValid(eco, t), NEW events, IsRange(eco, events)
  PROVE  VersionInRange(eco, t, events) <=> InWindow(t, events)
<1>1. t \in Points(eco) /\ Zero \notin Texts
  BY AuditAssumption DEF Points
<1>2. PICK n, here : n = Len(events) /\ here = Height(t)
  OBVIOUS
<1>3. n \in Nat /\ DOMAIN events = 1 .. n
  BY <1>2 DEF IsRange
<1>4. here \in Int /\ here = Number(t.v)
  BY <1>1, <1>2, ComparesHeights DEF Height
<1>0. PICK s : s = InTurn(eco, events)
  OBVIOUS
<1> DEFINE E == {events[i] : i \in DOMAIN events}
           at(e) == IF e.at = Zero THEN -1 ELSE Number(e.at.v)
<1>5. /\ \A k \in 1 .. n : s[k] \in 1 .. n
      /\ \A i \in 1 .. n : \E k \in 1 .. n : s[k] = i
      /\ \A j, k \in 1 .. n : j < k => Key(events[s[j]]) <= Key(events[s[k]])
  <2>1. IsRange(eco, events) /\ n = Len(events)
    BY <1>2
  <2>2. \A k \in 1 .. n : InTurn(eco, events)[k] \in 1 .. n
    BY ONLY <2>1, EventsInTurn
  <2>3. \A i \in 1 .. n : \E k \in 1 .. n : InTurn(eco, events)[k] = i
    BY ONLY <2>1, EventsInTurn
  <2>4. \A j, k \in 1 .. n : j < k => Key(events[InTurn(eco, events)[j]]) <= Key(events[InTurn(eco, events)[k]])
    BY ONLY <2>1, EventsInTurn
  <2> QED BY <1>0, <2>2, <2>3, <2>4
<1>6. VersionInRange(eco, t, events) <=>
        \E i \in 1 .. n : Opens(events[s[i]], here) /\ \A j \in i + 1 .. n : ~ Closes(events[s[j]], here)
  BY <1>0, <1>1, <1>2, ScanStands
<1>7. InWindow(t, events) <=>
        \E i \in E : /\ i.kind = "introduced" /\ at(i) <= here
                     /\ \A o \in E : /\ o.kind = "fixed" => ~ (at(i) <= at(o) /\ at(o) <= here)
                                     /\ o.kind = "last_affected" => ~ (at(i) <= at(o) /\ at(o) < here)
  BY <1>4 DEF InWindow
<1>8. \A e : at(e) = Height(e.at)
  BY DEF Height
<1>9. \A e \in E : /\ e.kind \in {"introduced", "fixed", "last_affected"} /\ e.at \in Points(eco)
                   /\ Height(e.at) \in Int
                   /\ Key(e) = 2 * Height(e.at) + (IF e.kind = "introduced" THEN 0 ELSE 1)
  <2>1. \A i \in 1 .. n : events[i].kind \in {"introduced", "fixed", "last_affected"} /\ events[i].at \in Points(eco)
    BY <1>2 DEF IsRange, Points
  <2>2. \A p \in Points(eco) : Height(p) \in Int
    BY ComparesHeights
  <2> QED BY <1>3, <2>1, <2>2 DEF Key
<1>10. \A k \in 1 .. n : events[s[k]] \in E
  BY <1>3, <1>5
<1>11. \A e \in E : \E k \in 1 .. n : e = events[s[k]]
  <2> SUFFICES ASSUME NEW e \in E PROVE \E k \in 1 .. n : e = events[s[k]]
    OBVIOUS
  <2>1. PICK i \in 1 .. n : e = events[i]
    BY <1>3
  <2>2. PICK k \in 1 .. n : s[k] = i
    BY <1>5
  <2> QED BY <2>1, <2>2
<1> HIDE DEF E, at
<1>12. ASSUME VersionInRange(eco, t, events) PROVE InWindow(t, events)
  <2>1. PICK i \in 1 .. n : Opens(events[s[i]], here) /\ \A j \in i + 1 .. n : ~ Closes(events[s[j]], here)
    BY <1>6, <1>12
  <2>2. PICK x : x = events[s[i]]
    OBVIOUS
  <2>3. x \in E /\ x.kind = "introduced" /\ Height(x.at) <= here
    BY <1>10, <2>1, <2>2 DEF Opens
  <2>4. ASSUME NEW o \in E, Height(x.at) <= Height(o.at), o.kind # "introduced"
        PROVE  ~ Closes(o, here)
    <3>1. PICK j \in 1 .. n : o = events[s[j]]
      BY <1>11
    <3>2. Key(o) > Key(x)
      BY <1>9, <2>3, <2>4
    <3>3. Key(o) \in Int /\ Key(x) \in Int
      BY <1>9, <2>3
    <3>4. ~ (j < i)
      BY <1>5, <2>2, <3>1, <3>2, <3>3
    <3>5. j # i
      BY <2>2, <2>3, <2>4, <3>1
    <3>6. j \in i + 1 .. n
      BY <1>3, <3>4, <3>5
    <3> QED BY <2>1, <3>1, <3>6
  <2>5. \A o \in E : /\ o.kind = "fixed" => ~ (Height(x.at) <= Height(o.at) /\ Height(o.at) <= here)
                     /\ o.kind = "last_affected" => ~ (Height(x.at) <= Height(o.at) /\ Height(o.at) < here)
    BY <2>4 DEF Closes
  <2> QED BY <1>7, <1>8, <2>3, <2>5
<1>13. ASSUME InWindow(t, events) PROVE VersionInRange(eco, t, events)
  <2>1. PICK x \in E : /\ x.kind = "introduced" /\ Height(x.at) <= here
                       /\ \A o \in E : /\ o.kind = "fixed" => ~ (Height(x.at) <= Height(o.at) /\ Height(o.at) <= here)
                                       /\ o.kind = "last_affected" => ~ (Height(x.at) <= Height(o.at) /\ Height(o.at) < here)
    BY <1>7, <1>8, <1>13
  <2>2. PICK i \in 1 .. n : x = events[s[i]]
    BY <1>11
  <2>3. ASSUME NEW j \in i + 1 .. n PROVE ~ Closes(events[s[j]], here)
    <3>1. PICK o : o = events[s[j]]
      OBVIOUS
    <3>2. j \in 1 .. n /\ i < j
      BY <1>3
    <3>3. o \in E
      BY <1>10, <3>1, <3>2
    <3>4. Key(x) <= Key(o)
      BY <1>5, <2>2, <3>1, <3>2
    <3>5. o.kind # "introduced" => Height(x.at) <= Height(o.at)
      BY <1>9, <2>1, <3>3, <3>4
    <3> QED BY <1>4, <1>9, <2>1, <3>1, <3>3, <3>5 DEF Closes
  <2> QED BY <1>6, <2>1, <2>2, <2>3 DEF Opens
<1> QED BY <1>12, <1>13

-----------------------------------------------------------------------------
(* The audits.                                                             *)

Hit(advisory, eco, name, t) ==
  {e \in advisory.affected : e.ecosystem = eco /\ e.name = name /\ AffectedByEntry(eco, t, e)}

\* An entry affects a version when the version is listed or a window holds it.
LEMMA AffectedIsAffects ==
  ASSUME NEW n, NEW t \in Texts, IsValid(job.eco, t), NEW a, IsAdvisory(a)
  PROVE  Hit(a, job.eco, MatchName(job.eco, n), t) # {} <=> Affects(a, n, t)
<1>1. ASSUME NEW e \in a.affected, e.ecosystem = job.eco
      PROVE  AffectedByEntry(job.eco, t, e) <=> t \in e.versions \/ \E r \in e.ranges : r.type # "GIT" /\ InWindow(t, r.events)
  <2>1. ASSUME NEW r \in e.ranges, r.type # "GIT"
        PROVE  VersionInRange(job.eco, t, r.events) <=> InWindow(t, r.events)
    <3>1. IsRange(job.eco, r.events)
      BY <1>1, <2>1 DEF IsAdvisory
    <3> QED BY <3>1, ScanMeetsWindow
  <2> QED BY <2>1 DEF AffectedByEntry
<1> QED BY <1>1 DEF Hit, Affects

\* What is matched are the advisories that affect the version.
LEMMA MatchesAreAgainst ==
  ASSUME NEW n, NEW t \in Texts, IsValid(job.eco, t), \A a \in Advised : IsAdvisory(a),
         NEW M, M = MatchVulnerabilities(Advised, job.eco, MatchName(job.eco, n), t)
  PROVE  /\ {m.id : m \in M} = {x.id : x \in Against(n, t)}
         /\ M = {} <=> Against(n, t) = {}
<1> DEFINE hit(a) == Hit(a, job.eco, MatchName(job.eco, n), t)
           found(a) == [id |-> a.id, severity |-> ResolveSeverity(a, hit(a)),
                        fixedIn |-> UNION {FixedVersions(e) : e \in hit(a)}]
<1>1. M = {found(a) : a \in {a \in Advised : hit(a) # {}}}
  BY DEF MatchVulnerabilities, Hit
<1>2. \A a \in Advised : hit(a) # {} <=> Affects(a, n, t)
  BY AffectedIsAffects
<1>3. \A a : found(a).id = a.id
  OBVIOUS
<1> HIDE DEF hit, found
<1>4. M = {found(a) : a \in Against(n, t)}
  BY <1>1, <1>2 DEF Against
<1> QED BY <1>3, <1>4

LEMMA GreatestOfFew ==
  ASSUME NEW S \in SUBSET (0 .. 4), S # {}
  PROVE  \E m \in S : \A o \in S : m >= o
<1> DEFINE Gaps == {4 - s : s \in S}
<1>0. \A s \in S : s \in 0 .. 4 /\ 4 - s \in Nat
  OBVIOUS
<1>1. Gaps \in SUBSET Nat /\ Gaps # {}
  BY <1>0
<1>2. PICK g \in Gaps : \A k \in Gaps : g <= k
  <2> HIDE DEF Gaps
  <2> QED BY <1>1, MinimalNumber
<1>3. PICK m \in S : g = 4 - m
  OBVIOUS
<1>4. ASSUME NEW o \in S PROVE m >= o
  <2>1. g <= 4 - o
    BY <1>2
  <2> QED BY <1>0, <1>3, <2>1
<1> QED BY <1>4

LEMMA SeverityIsOneOf ==
  ASSUME NEW a, IsAdvisory(a), NEW hit, hit \in SUBSET a.affected
  PROVE  ResolveSeverity(a, hit) \in 0 .. 4
<1> DEFINE words == {e.word : e \in hit} \ {0}
           scores == {SeverityFromScore(s) : s \in UNION {e.scores : e \in hit} \cup a.scores}
<1>1. words \subseteq 0 .. 4 /\ a.word \in 0 .. 4
  BY DEF IsAdvisory
<1>2. scores \cup {0} \in SUBSET (0 .. 4)
  BY DEF SeverityFromScore
<1>3. ResolveSeverity(a, hit) =
        IF words # {} THEN CHOOSE w \in words : TRUE
        ELSE IF a.word # 0 THEN a.word
        ELSE CHOOSE s \in scores \cup {0} : \A o \in scores : s >= o
  BY DEF ResolveSeverity
<1> HIDE DEF words, scores
<1>4. \E s \in scores \cup {0} : \A o \in scores : s >= o
  <2>1. \E s \in scores \cup {0} : \A o \in scores \cup {0} : s >= o
    BY <1>2, GreatestOfFew
  <2> QED BY <2>1
<1>5. (CHOOSE s \in scores \cup {0} : \A o \in scores : s >= o) \in scores \cup {0}
  BY <1>4
<1>6. words # {} => (CHOOSE w \in words : TRUE) \in words
  OBVIOUS
<1> QED BY <1>1, <1>2, <1>3, <1>5, <1>6

\* The worst of some matches is the severity of one.
LEMMA WorstIsKnown ==
  ASSUME NEW D, \A a \in D : IsAdvisory(a), NEW eco, NEW name, NEW t,
         NEW M, M = MatchVulnerabilities(D, eco, name, t)
  PROVE  WorstOf(M) = -1 <=> M = {}
<1>1. \A m \in M : m.severity \in 0 .. 4
  <2> SUFFICES ASSUME NEW m \in M PROVE m.severity \in 0 .. 4
    OBVIOUS
  <2>1. PICK a \in D : m = [id |-> a.id, severity |-> ResolveSeverity(a, Hit(a, eco, name, t)),
                            fixedIn |-> UNION {FixedVersions(e) : e \in Hit(a, eco, name, t)}]
    BY DEF MatchVulnerabilities, Hit
  <2>2. Hit(a, eco, name, t) \in SUBSET a.affected
    BY DEF Hit
  <2> QED BY <2>1, <2>2, SeverityIsOneOf
<1>2. CASE M = {}
  BY <1>2 DEF WorstOf
<1>3. CASE M # {}
  <2>1. \E m \in M : \A o \in M : m.severity >= o.severity
    <3>1. {m.severity : m \in M} \in SUBSET (0 .. 4) /\ {m.severity : m \in M} # {}
      BY <1>1, <1>3
    <3>2. PICK s \in {m.severity : m \in M} : \A o \in {m.severity : m \in M} : s >= o
      BY <3>1, GreatestOfFew
    <3> QED BY <3>2
  <2>2. PICK w : w = CHOOSE m \in M : \A o \in M : m.severity >= o.severity
    OBVIOUS
  <2>3. w \in M
    BY <2>1, <2>2
  <2>4. WorstOf(M) = w.severity
    BY <1>3, <2>2 DEF WorstOf
  <2> QED BY <1>1, <1>3, <2>3, <2>4
<1> QED BY <1>2, <1>3

\* Of some versions one is the lowest.
LEMMA LowestExists ==
  ASSUME NEW S \in SUBSET Texts, S # {}
  PROVE  \E c \in S : \A o \in S : ~ Newer(c, o)
<1> DEFINE Levels == {Number(c.v) : c \in S}
<1>1. \A c \in Texts : Number(c.v) \in Nat
  BY NumbersAreNatural DEF Texts
<1>2. Levels \in SUBSET Nat /\ Levels # {}
  BY <1>1
<1>3. PICK g \in Levels : \A k \in Levels : g <= k
  <2> HIDE DEF Levels
  <2> QED BY <1>2, MinimalNumber
<1>4. PICK c \in S : g = Number(c.v)
  OBVIOUS
<1>5. ASSUME NEW o \in S PROVE ~ Newer(c, o)
  <2>1. g <= Number(o.v)
    BY <1>3
  <2> QED BY <1>1, <1>4, <2>1 DEF Newer
<1> QED BY <1>5

JobFit ==
  /\ \A a \in job.advisories : IsAdvisory(a)
  /\ IsRegistry(job.registry)
  /\ job.version \in Texts \cup {None}
  /\ \A n \in Names : SaidVersions(job.project[n]) \subseteq Texts

VerdictOf(n, t) == AuditDependency(AuditedName(n), job.eco, t, FetchPackument(job.registry), Advised)

\* Every audit is of the advisories and of the registry, and what was told is
\* told of all of them.
DepsInv ==
  /\ JobFit
  /\ audits # {} => job.registry # None
  /\ \A a \in audits : \E t \in Texts : a.verdict = VerdictOf(a.of, t)
  /\ Quiet => names = {a.of : a \in audits} \cup errors /\ WithFindings = {}

DepsPillarInv == (job = None /\ audits = {} /\ told = None) \/ DepsInv

LEMMA DetectsText ==
  ASSUME JobFit, NEW n, Detect(n) # None
  PROVE  Detect(n) \in Texts
<1> DEFINE who == {m \in Names : IF job.eco = "PyPI" THEN m[1] = n[1] ELSE m = n}
<1>1. who # {}
  BY DEF Detect
<1>2. PICK m : m = CHOOSE x \in who : TRUE
  OBVIOUS
<1>3. m \in Names
  <2>1. m \in who
    <3> HIDE DEF who
    <3> QED BY <1>1, <1>2
  <2> QED BY <2>1
<1>4. PICK said : said = job.project[m]
  OBVIOUS
<1>5. SaidVersions(said) \subseteq Texts
  BY <1>3, <1>4 DEF JobFit
<1>6. Detect(n) = CASE job.eco = "npm"  -> DetectNode(said)
                    [] job.eco = "PyPI" -> DetectPython(said)
                    [] OTHER            -> DetectRuby(said)
  BY <1>1, <1>2, <1>4 DEF Detect
<1>7. /\ DetectNode(said) \in SaidVersions(said) \cup {None}
      /\ DetectPython(said) \in SaidVersions(said) \cup {None}
      /\ DetectRuby(said) \in SaidVersions(said) \cup {None}
  BY DEF DetectNode, DetectPython, DetectRuby, SaidVersions
<1>8. Detect(n) \in SaidVersions(said) \cup {None}
  BY <1>6, <1>7
<1> QED BY <1>5, <1>8

LEMMA DepsInitHolds ==
  ASSUME AuditInit
  PROVE  DepsInv
<1>1. PICK s \in AuditSuites : \E q \in s.questions, p \in s.projects, r \in s.registries, a \in s.databases :
        job = [surface |-> q.surface, eco |-> q.eco, diff |-> q.diff, snapshot |-> q.snapshot,
               version |-> q.version, package |-> q.package, includeDev |-> q.includeDev,
               project |-> p.versions, manifest |-> p.manifest, registry |-> r, advisories |-> a]
  BY Zenon DEF AuditInit
<1>2. PICK q \in s.questions, p \in s.projects, r \in s.registries, a \in s.databases :
        job = [surface |-> q.surface, eco |-> q.eco, diff |-> q.diff, snapshot |-> q.snapshot,
               version |-> q.version, package |-> q.package, includeDev |-> q.includeDev,
               project |-> p.versions, manifest |-> p.manifest, registry |-> r, advisories |-> a]
  BY <1>1
<1>3. job.advisories = a /\ job.registry = r /\ job.version = q.version /\ job.project = p.versions
  BY <1>2
<1>4. /\ q.version \in Texts \cup {None} /\ \A n \in DOMAIN p.versions : SaidVersions(p.versions[n]) \subseteq Texts
      /\ IsRegistry(r) /\ \A x \in a : IsAdvisory(x)
  BY AuditAssumption
<1>5. JobFit
  BY <1>3, <1>4 DEF JobFit, Names
<1>6. audits = {} /\ told = None /\ ~ Quiet
  BY AuditAssumption DEF AuditInit, Unaudited, Quiet
<1> QED BY <1>5, <1>6 DEF DepsInv

LEMMA JobFitStays ==
  ASSUME JobFit, job' = job
  PROVE  JobFit' /\ Advised' = Advised /\ \A n, t : VerdictOf(n, t)' = VerdictOf(n, t)
<1>1. Advised' = Advised
  BY DEF Advised
<1>2. \A n : AuditedName(n)' = AuditedName(n)
  BY DEF AuditedName
<1>3. FetchPackument(job.registry)' = FetchPackument(job.registry)
  BY DEF FetchPackument
<1>4. JobFit'
  BY DEF JobFit, Names
<1> QED BY <1>1, <1>2, <1>3, <1>4 DEF VerdictOf

LEMMA DepsStays ==
  ASSUME DepsInv, UNCHANGED <<job, audits, told>>,
         told = None \/ UNCHANGED <<names, errors>>
  PROVE  DepsInv'
<1>1. JobFit' /\ \A n, t : VerdictOf(n, t)' = VerdictOf(n, t)
  BY JobFitStays DEF DepsInv
<1>2. \A a \in audits : \E t \in Texts : a.verdict = VerdictOf(a.of, t)'
  BY <1>1 DEF DepsInv
<1>3. Quiet' => Quiet /\ told # None
  BY AuditAssumption DEF Quiet
<1>4. WithFindings' = WithFindings
  BY DEF WithFindings
<1>5. Quiet' => names' = {a.of : a \in audits'} \cup errors' /\ WithFindings' = {}
  BY <1>3, <1>4 DEF DepsInv
<1> QED BY <1>1, <1>2, <1>5 DEF DepsInv

LEMMA AuditOneKeeps ==
  ASSUME DepsInv, AuditOne
  PROVE  DepsInv'
<1>1. job' = job /\ told' = None /\ told = None
  BY DEF AuditOne, Auditing
<1>2. JobFit' /\ \A n, t : VerdictOf(n, t)' = VerdictOf(n, t)
  BY <1>1, JobFitStays DEF DepsInv
<1>3. ~ Quiet'
  BY <1>1, AuditAssumption DEF Quiet
<1>4. \/ UNCHANGED audits
      \/ \E n : \E t \in Texts : /\ job.registry # None
                             /\ audits' = audits \cup {[of |-> n, verdict |-> VerdictOf(n, t)]}
  <2> SUFFICES ASSUME ~ UNCHANGED audits
               PROVE  \E n : \E t \in Texts : /\ job.registry # None
                                          /\ audits' = audits \cup {[of |-> n, verdict |-> VerdictOf(n, t)]}
    OBVIOUS
  <2>1. PICK n \in names \ ({a.of : a \in audits} \cup errors) :
          LET t == IF job.version # None THEN job.version ELSE Detect(n)
          IN  /\ t # None /\ job.registry # None
              /\ audits' = audits \cup
                   {[of |-> n, verdict |-> AuditDependency(AuditedName(n), job.eco, t, FetchPackument(job.registry), Advised)]}
    BY DEF AuditOne
  <2>2. PICK t : t = IF job.version # None THEN job.version ELSE Detect(n)
    OBVIOUS
  <2>3. t # None /\ job.registry # None /\ audits' = audits \cup {[of |-> n, verdict |-> VerdictOf(n, t)]}
    BY <2>1, <2>2 DEF VerdictOf
  <2>4. t \in Texts
    BY <2>2, <2>3, DetectsText DEF DepsInv, JobFit
  <2> QED BY <2>3, <2>4
<1>5. /\ audits' # {} => job.registry # None
      /\ \A a \in audits' : \E t \in Texts : a.verdict = VerdictOf(a.of, t)
  BY <1>4 DEF DepsInv
<1> QED BY <1>1, <1>2, <1>3, <1>5 DEF DepsInv

\* What is told is told when every package of the scope was audited, or failed.
LEMMA SayKeeps ==
  ASSUME DepsInv, Ended, NEW what, Say(what), what \in {[exit |-> 0], [findings |-> {}, failed |-> {}]} => WithFindings = {}
  PROVE  DepsInv'
<1>1. told' = what /\ UNCHANGED <<job, names, audits, errors>>
  BY DEF Say
<1>2. JobFit' /\ \A n, t : VerdictOf(n, t)' = VerdictOf(n, t)
  BY <1>1, JobFitStays DEF DepsInv
<1>3. \A a \in audits : \E t \in Texts : a.verdict = VerdictOf(a.of, t)'
  BY <1>2 DEF DepsInv
<1>4. WithFindings' = WithFindings
  BY <1>1 DEF WithFindings
<1>5. Quiet' => names' = {a.of : a \in audits'} \cup errors' /\ WithFindings' = {}
  BY <1>1, <1>4 DEF Quiet, Ended
<1> QED BY <1>1, <1>2, <1>3, <1>5 DEF DepsInv

LEMMA SurfacesKeep ==
  ASSUME DepsInv, CmdAudit \/ CmdAuditProject \/ AuditDependencyTool \/ AuditProjectTool \/ VerifyDeps
  PROVE  DepsInv'
<1>1. /\ [exit |-> 1] \notin {[exit |-> 0], [findings |-> {}, failed |-> {}]}
      /\ [error |-> TRUE] \notin {[exit |-> 0], [findings |-> {}, failed |-> {}]}
      /\ [exit |-> 0] # [findings |-> {}, failed |-> {}]
  <2>1. DOMAIN [exit |-> 1] = {"exit"} /\ DOMAIN [exit |-> 0] = {"exit"} /\ DOMAIN [error |-> TRUE] = {"error"}
        /\ DOMAIN [findings |-> {}, failed |-> {}] = {"findings", "failed"}
    OBVIOUS
  <2>2. [exit |-> 1].exit = 1 /\ [exit |-> 0].exit = 0
    OBVIOUS
  <2>3. "exit" \notin {"error", "findings", "failed"} /\ "error" \notin {"findings", "failed"}
    OBVIOUS
  <2>4. [exit |-> 1] # [exit |-> 0]
    BY <2>2
  <2>5. [exit |-> 1] # [findings |-> {}, failed |-> {}] /\ [exit |-> 0] # [findings |-> {}, failed |-> {}]
    BY <2>1, <2>3
  <2>6. [error |-> TRUE] # [exit |-> 0]
    BY <2>1, <2>3
  <2>7. [error |-> TRUE] # [findings |-> {}, failed |-> {}]
    BY <2>1, <2>3
  <2> QED BY <2>4, <2>5, <2>6, <2>7
<1>2. \A F, G : [findings |-> F, failed |-> G] \in {[exit |-> 0], [findings |-> {}, failed |-> {}]} => F = {}
  <2> SUFFICES ASSUME NEW F, NEW G, [findings |-> F, failed |-> G] \in {[exit |-> 0], [findings |-> {}, failed |-> {}]}
               PROVE  F = {}
    OBVIOUS
  <2>1. DOMAIN [exit |-> 0] = {"exit"} /\ "findings" \in DOMAIN [findings |-> F, failed |-> G]
    OBVIOUS
  <2>2. [findings |-> F, failed |-> G] # [exit |-> 0]
    BY <2>1
  <2>3. [findings |-> F, failed |-> G] = [findings |-> {}, failed |-> {}]
    BY <2>2
  <2>4. [findings |-> F, failed |-> G].findings = F /\ [findings |-> {}, failed |-> {}].findings = {}
    OBVIOUS
  <2> QED BY <2>3, <2>4
<1>3. CASE CmdAudit
  <2>1. PICK w : w = [exit |-> IF errors # {} \/ WithFindings # {} THEN 1 ELSE 0] /\ Say(w) /\ Ended
    BY <1>3 DEF CmdAudit
  <2>2. WithFindings # {} => w = [exit |-> 1]
    BY <2>1
  <2> QED BY <1>1, <2>1, <2>2, SayKeeps
<1>4. CASE CmdAuditProject
  <2>1. PICK w : w = [exit |-> IF WithFindings # {} THEN 1 ELSE 0] /\ Say(w) /\ Ended
    BY <1>4 DEF CmdAuditProject
  <2>2. WithFindings # {} => w = [exit |-> 1]
    BY <2>1
  <2> QED BY <1>1, <2>1, <2>2, SayKeeps
<1>5. CASE AuditDependencyTool
  <2>1. PICK w : w = (IF errors # {} THEN [error |-> TRUE] ELSE [findings |-> WithFindings, failed |-> {}]) /\ Say(w) /\ Ended
    BY <1>5 DEF AuditDependencyTool
  <2> QED BY <1>1, <1>2, <2>1, SayKeeps
<1>6. CASE AuditProjectTool
  <2>1. PICK w : w = [findings |-> WithFindings, failed |-> errors] /\ Say(w) /\ Ended
    BY <1>6 DEF AuditProjectTool
  <2> QED BY <1>2, <2>1, SayKeeps
<1>7. CASE VerifyDeps
  <2>1. PICK w : w = [findings |-> WithFindings, failed |-> {}] /\ Say(w) /\ Ended
    BY <1>7 DEF VerifyDeps
  <2> QED BY <1>2, <2>1, SayKeeps
<1> QED BY <1>3, <1>4, <1>5, <1>6, <1>7

LEMMA DepsNextKeeps ==
  ASSUME DepsInv, AuditNext
  PROVE  DepsInv'
<1>1. CASE ScopeFound \/ Hunk \/ Line
  <2>1. told = None /\ UNCHANGED <<job, audits, told>>
    BY <1>1 DEF ScopeFound, Hunk, Line, ReadsDiff
  <2> QED BY <2>1, DepsStays
<1>2. CASE \E kind \in {"package.json", "pyproject.toml", "requirements.txt", "lock", "Gemfile", "Gemfile.lock"} : File(kind)
  <2>1. told = None /\ UNCHANGED <<job, audits, told>>
    BY <1>2 DEF File, ReadsDiff
  <2> QED BY <2>1, DepsStays
<1>3. CASE SnapshotMissing
  <2>1. told' = [error |-> TRUE] /\ UNCHANGED <<job, names, audits, errors>>
    BY <1>3 DEF SnapshotMissing
  <2>2. ~ Quiet'
    <3>1. DOMAIN [error |-> TRUE] = {"error"} /\ "exit" \in DOMAIN [exit |-> 0]
          /\ "findings" \in DOMAIN [findings |-> {}, failed |-> {}]
      OBVIOUS
    <3>2. [error |-> TRUE] # [exit |-> 0] /\ [error |-> TRUE] # [findings |-> {}, failed |-> {}]
      BY <3>1
    <3> QED BY <2>1, <3>2 DEF Quiet
  <2>3. JobFit' /\ \A n, t : VerdictOf(n, t)' = VerdictOf(n, t)
    BY <2>1, JobFitStays DEF DepsInv
  <2>4. \A a \in audits : \E t \in Texts : a.verdict = VerdictOf(a.of, t)'
    BY <2>3 DEF DepsInv
  <2> QED BY <2>1, <2>2, <2>3, <2>4 DEF DepsInv
<1> QED BY <1>1, <1>2, <1>3, AuditOneKeeps, SurfacesKeep DEF AuditNext

\* Every audit is made of the advisories, in every state of an audit.
THEOREM DepsPillarHolds == Spec => []DepsPillarInv
<1>1. Init => DepsPillarInv
  BY DepsInitHolds DEF Init, AuditRests, Unaudited, DepsPillarInv
<1>2. DepsPillarInv /\ [Next]_vars => DepsPillarInv'
  <2> SUFFICES ASSUME DepsPillarInv, [Next]_vars PROVE DepsPillarInv'
    OBVIOUS
  <2>1. CASE UNCHANGED avars
    <3>1. UNCHANGED <<job, names, audits, errors, told>>
      BY <2>1 DEF avars
    <3> QED BY <3>1, DepsStays DEF DepsPillarInv
  <2>2. CASE job # None /\ AuditNext
    BY <2>2, DepsNextKeeps DEF DepsPillarInv
  <2> QED BY <2>1, <2>2 DEF Next, Finished, vars
<1> QED BY <1>1, <1>2, PTL DEF Spec

LEMMA AdvisedAreAdvisories ==
  ASSUME JobFit
  PROVE  \A a \in Advised : IsAdvisory(a)
BY DEF JobFit, Advised

\* The upgrade an audit names is the lowest of the releases no advisory affects.
LEMMA LowestIsSafe ==
  ASSUME JobFit, job.registry # None, NEW n, NEW t \in Texts, NEW safe, NEW low,
         safe = {c \in job.registry.versions \ (IF job.eco = "PyPI" THEN job.registry.yanked ELSE {}) :
                   IsValid(job.eco, c) /\ c.v.stable /\ Newer(c, t) /\ Against(n, c) = {}},
         low = LowestSafeVersion(FetchPackument(job.registry), Advised, job.eco, AuditedName(n), t)
  PROVE  /\ low # None => low \in safe /\ \A c \in safe : ~ Newer(low, c)
         /\ low = None => safe = {}
<1> DEFINE Safe == {c \in StableVersions(job.eco, FetchPackument(job.registry)) :
                      Newer(c, t) /\ MatchVulnerabilities(Advised, job.eco, AuditedName(n), c) = {}}
           offered == job.registry.versions \ (IF job.eco = "PyPI" THEN job.registry.yanked ELSE {})
<1>1. FetchPackument(job.registry).versions = offered
  BY DEF FetchPackument, PypiJsonToPackument, RubygemsToPackument
<1>2. StableVersions(job.eco, FetchPackument(job.registry)) = {c \in offered : IsValid(job.eco, c) /\ c.v.stable}
  BY <1>1 DEF StableVersions
<1>3. offered \in SUBSET Texts
  BY DEF JobFit, IsRegistry
<1>4. ASSUME NEW c \in offered, IsValid(job.eco, c)
      PROVE  MatchVulnerabilities(Advised, job.eco, AuditedName(n), c) = {} <=> Against(n, c) = {}
  <2>1. c \in Texts
    BY <1>3, <1>4
  <2> QED BY <1>4, <2>1, AdvisedAreAdvisories, MatchesAreAgainst DEF AuditedName
<1>5. Safe = safe
  BY <1>2, <1>4
<1>6. safe \in SUBSET Texts
  BY <1>3
<1>7. low = IF Safe = {} THEN None ELSE CHOOSE c \in Safe : \A o \in Safe : ~ Newer(c, o)
  BY DEF LowestSafeVersion
<1> HIDE DEF Safe
<1>8. safe # {} => low \in safe /\ \A c \in safe : ~ Newer(low, c)
  <2> SUFFICES ASSUME safe # {} PROVE low \in safe /\ \A c \in safe : ~ Newer(low, c)
    OBVIOUS
  <2>1. \E c \in safe : \A o \in safe : ~ Newer(c, o)
    BY <1>6, LowestExists
  <2>2. low = CHOOSE c \in safe : \A o \in safe : ~ Newer(c, o)
    BY <1>5, <1>7
  <2> QED BY <2>1, <2>2
<1>9. safe = {} => low = None
  BY <1>5, <1>7
<1>10. None \notin Texts
  BY AuditAssumption
<1> QED BY <1>6, <1>8, <1>9, <1>10

\* The advisories an audit reports are those whose windows hold the installed
\* version, and the upgrade it names is the first release none affects (osv.ts,
\* audit.ts): whatever the advisories, the order of their events and the registry.
THEOREM AuditsSayWhatAdvisoriesSay == Spec => []AuditsMatchAdvisories
<1>1. DepsPillarInv => AuditsMatchAdvisories
  <2> DEFINE safe(a) == {c \in job.registry.versions \ (IF job.eco = "PyPI" THEN job.registry.yanked ELSE {}) :
                           IsValid(job.eco, c) /\ c.v.stable /\ Newer(c, a.verdict.installed) /\ Against(a.of, c) = {}}
             Says(a) == /\ {m.id : m \in a.verdict.vulnerabilities} = {x.id : x \in Against(a.of, a.verdict.installed)}
                        /\ a.verdict.minimumSafeUpgrade # None =>
                             /\ a.verdict.minimumSafeUpgrade \in safe(a)
                             /\ \A c \in safe(a) : ~ Newer(a.verdict.minimumSafeUpgrade, c)
                        /\ a.verdict.minimumSafeUpgrade = None => a.verdict.vulnerabilities = {} \/ safe(a) = {}
  <2>0. AuditsMatchAdvisories <=> \A a \in audits : Readable(a.verdict.installed) => Says(a)
    BY DEF AuditsMatchAdvisories
  <2> SUFFICES ASSUME DepsInv, NEW a \in audits, Readable(a.verdict.installed) PROVE Says(a)
    BY <2>0 DEF DepsPillarInv
  <2>1. PICK t \in Texts : a.verdict = VerdictOf(a.of, t)
    BY DEF DepsInv
  <2>2. PICK M, low : /\ M = MatchVulnerabilities(Advised, job.eco, AuditedName(a.of), t)
                      /\ low = LowestSafeVersion(FetchPackument(job.registry), Advised, job.eco, AuditedName(a.of), t)
    OBVIOUS
  <2>3. /\ a.verdict.installed = t /\ a.verdict.vulnerabilities = M
        /\ a.verdict.minimumSafeUpgrade = IF M # {} /\ IsValid(job.eco, t) THEN low ELSE None
    BY <2>1, <2>2 DEF VerdictOf, AuditDependency
  <2>4. JobFit /\ job.registry # None /\ IsValid(job.eco, t)
    BY <2>3 DEF DepsInv, Readable
  <2>5. {m.id : m \in M} = {x.id : x \in Against(a.of, t)}
    BY <2>2, <2>4, AdvisedAreAdvisories, MatchesAreAgainst DEF AuditedName
  <2>6. PICK S : S = {c \in job.registry.versions \ (IF job.eco = "PyPI" THEN job.registry.yanked ELSE {}) :
                        IsValid(job.eco, c) /\ c.v.stable /\ Newer(c, t) /\ Against(a.of, c) = {}}
    OBVIOUS
  <2>7. (low # None => low \in S /\ \A c \in S : ~ Newer(low, c)) /\ (low = None => S = {})
    BY ONLY <2>2, <2>4, <2>6, LowestIsSafe
  <2>8. safe(a) = S
    BY <2>3, <2>6
  <2> HIDE DEF safe
  <2> QED BY <2>3, <2>4, <2>5, <2>7, <2>8
<1> QED BY <1>1, DepsPillarHolds, PTL

\* When nothing is to be said, every package of the scope was audited or failed,
\* and no advisory affects an audited one whose version can be read (audit.ts,
\* deps.ts): whatever the advisories, the project and the surface.
THEOREM QuietIsUnaffected == Spec => []QuietMeansUnaffected
<1>1. DepsPillarInv => QuietMeansUnaffected
  <2> SUFFICES ASSUME DepsPillarInv, Quiet, NEW n \in names \ errors
               PROVE  \E a \in audits : a.of = n /\ (Readable(a.verdict.installed) => Against(n, a.verdict.installed) = {})
    BY DEF QuietMeansUnaffected
  <2>1. DepsInv
    BY AuditAssumption DEF DepsPillarInv, Quiet
  <2>2. PICK a \in audits : a.of = n
    BY <2>1 DEF DepsInv
  <2>3. ~ IsActionable(a.verdict)
    BY <2>1 DEF DepsInv, WithFindings
  <2>4. PICK t \in Texts : a.verdict = VerdictOf(n, t)
    BY <2>1, <2>2 DEF DepsInv
  <2>5. PICK M : M = MatchVulnerabilities(Advised, job.eco, AuditedName(n), t)
    OBVIOUS
  <2>6. a.verdict.installed = t /\ a.verdict.worstSeverity = WorstOf(M)
    BY <2>4, <2>5 DEF VerdictOf, AuditDependency
  <2>7. \A x \in Advised : IsAdvisory(x)
    BY <2>1, AdvisedAreAdvisories DEF DepsInv
  <2>8. M = {}
    BY <2>3, <2>5, <2>6, <2>7, WorstIsKnown DEF IsActionable
  <2>9. IsValid(job.eco, t) => Against(n, t) = {}
    BY <2>5, <2>7, <2>8, MatchesAreAgainst DEF AuditedName
  <2> QED BY <2>2, <2>6, <2>9 DEF Readable
<1> QED BY <1>1, DepsPillarHolds, PTL

-----------------------------------------------------------------------------
(* The history of test runs.                                               *)

TestIds == [title : STRING, file : {"relative", "absolute"}]

TestRuns == [id : TestIds, passed : BOOLEAN, at : Times]

RunOf(framework, r, opts) ==
  [id     |-> TestId(framework, r.test, opts.rooted),
   passed |-> Outcome(framework, r.status) = "pass",
   at     |-> opts.at]

\* What a report makes, one entry after another.
RunsFit(g, framework, report, opts, n) ==
  g = [i \in 0 .. n |->
         IF i = 0 THEN <<>>
         ELSE IF Outcome(framework, report[i].status) = "none" THEN g[i - 1]
         ELSE Append(g[i - 1], RunOf(framework, report[i], opts))]

LEMMA RunsExist ==
  ASSUME NEW framework, NEW report, NEW opts, NEW n \in Nat
  PROVE  \E g : RunsFit(g, framework, report, opts, n)
<1> DEFINE Good == {k \in 0 .. n : \E g : RunsFit(g, framework, report, opts, k)}
           Of(i, before) == IF i = 0 THEN <<>>
                            ELSE IF Outcome(framework, report[i].status) = "none" THEN before
                            ELSE Append(before, RunOf(framework, report[i], opts))
<1>0. \A g, k : RunsFit(g, framework, report, opts, k) <=> g = [i \in 0 .. k |-> Of(i, g[i - 1])]
  BY DEF RunsFit
<1>1. 0 \in Good
  <2>1. PICK g : g = [i \in 0 .. 0 |-> <<>>]
    OBVIOUS
  <2>2. \A i \in 0 .. 0 : Of(i, g[i - 1]) = <<>>
    OBVIOUS
  <2> HIDE DEF Of
  <2>3. g = [i \in 0 .. 0 |-> Of(i, g[i - 1])]
    BY <2>1, <2>2
  <2>4. RunsFit(g, framework, report, opts, 0)
    BY <2>3, <1>0
  <2> QED BY <2>4
<1> HIDE DEF Of
<1>2. ASSUME NEW k \in 1 .. n, k - 1 \in Good
      PROVE  k \in Good
  <2>1. PICK g : RunsFit(g, framework, report, opts, k - 1)
    BY <1>2
  <2> DEFINE h == [i \in 0 .. k |-> IF i = k THEN Of(k, g[k - 1]) ELSE g[i]]
  <2>2. \A i \in 0 .. k - 1 : h[i] = g[i]
    OBVIOUS
  <2>3. \A i \in 0 .. k - 1 : g[i] = Of(i, g[i - 1])
    BY <2>1, <1>0
  <2>4. h[k] = Of(k, h[k - 1])
    BY <2>2
  <2>5. \A i \in 0 .. k - 1 : h[i] = Of(i, h[i - 1])
    <3> SUFFICES ASSUME NEW i \in 0 .. k - 1 PROVE h[i] = Of(i, h[i - 1])
      OBVIOUS
    <3>1. h[i] = g[i] /\ (i > 0 => h[i - 1] = g[i - 1])
      BY <2>2
    <3>2. \A x, y : Of(0, x) = Of(0, y)
      BY DEF Of
    <3> HIDE DEF h
    <3> QED BY <3>1, <3>2, <2>3
  <2>6. h = [i \in 0 .. k |-> h[i]]
    OBVIOUS
  <2> HIDE DEF h
  <2>7. \A i \in 0 .. k : h[i] = Of(i, h[i - 1])
    <3>1. \A i \in 0 .. k : i = k \/ i \in 0 .. k - 1
      OBVIOUS
    <3> QED BY <2>4, <2>5, <3>1
  <2>8. [i \in 0 .. k |-> h[i]] = [i \in 0 .. k |-> Of(i, h[i - 1])]
    BY <2>7
  <2>9. h = [i \in 0 .. k |-> Of(i, h[i - 1])]
    BY ONLY <2>6, <2>8
  <2>10. RunsFit(h, framework, report, opts, k)
    BY <1>0, <2>9
  <2> QED BY <2>10
<1>3. n \in Good
  <2> HIDE DEF Good
  <2> QED BY <1>1, <1>2, Throughout
<1> QED BY <1>3

\* What is recorded of a report is a run of every test that passed or failed.
Records(R, framework, report, opts, n) ==
  \A r \in TestRuns :
    (\E j \in DOMAIN R : R[j] = r)
      <=> \E i \in 1 .. n : Outcome(framework, report[i].status) # "none" /\ r = RunOf(framework, report[i], opts)

LEMMA ReportsNameTests ==
  ASSUME NEW report \in TestReports, NEW n, n = Len(report)
  PROVE  n \in Nat /\ DOMAIN report = 1 .. n /\ \A i \in 1 .. n : report[i].test.title \in STRING
<1> DEFINE Tested == [test : [title : STRING, n : Nat], status : STRING]
<1>1. report \in Seq(Tested)
  BY DEF TestReports
<1>2. n \in Nat /\ DOMAIN report = 1 .. n /\ \A i \in 1 .. n : report[i] \in Tested
  <2> HIDE DEF Tested
  <2> QED BY <1>1
<1>3. \A r \in Tested : r.test.title \in STRING
  OBVIOUS
<1> QED BY <1>2, <1>3

LEMMA RecordedRunsSay ==
  ASSUME NEW framework, NEW report \in TestReports, NEW opts, opts.at \in Times, NEW n, n = Len(report),
         NEW R, R = RecordedRuns(framework, report, opts)
  PROVE  R \in Seq(TestRuns) /\ Records(R, framework, report, opts, n)
<1>0. n \in Nat /\ \A i \in 1 .. n : report[i].test.title \in STRING
  BY ReportsNameTests
<1> DEFINE G == CHOOSE g : RunsFit(g, framework, report, opts, n)
<1>1. RecordedRuns(framework, report, opts) = G[n]
  BY DEF RecordedRuns, RunsFit, RunOf
<1>2. PICK g : g = G
  OBVIOUS
<1>3. RunsFit(g, framework, report, opts, n)
  BY <1>0, <1>2, RunsExist
<1> DEFINE said(i) == Outcome(framework, report[i].status) # "none"
           run(i) == RunOf(framework, report[i], opts)
<1>4. g[0] = <<>> /\ \A i \in 1 .. n : g[i] = IF said(i) THEN Append(g[i - 1], run(i)) ELSE g[i - 1]
  <2>1. \A i \in 0 .. n : g[i] = IF i = 0 THEN <<>>
                                 ELSE IF Outcome(framework, report[i].status) = "none" THEN g[i - 1]
                                 ELSE Append(g[i - 1], RunOf(framework, report[i], opts))
    BY <1>3 DEF RunsFit
  <2> QED BY <1>0, <2>1
<1>5. \A i \in 1 .. n : run(i) \in TestRuns
  BY <1>0 DEF RunOf, TestId, TestRuns, TestIds
<1> HIDE DEF said, run
<1> DEFINE Tells(s, k) == \A r \in TestRuns : (\E j \in DOMAIN s : s[j] = r) <=> \E i \in 1 .. k : said(i) /\ r = run(i)
           Good == {k \in 0 .. n : g[k] \in Seq(TestRuns) /\ Tells(g[k], k)}
<1>6. 0 \in Good
  <2>1. <<>> \in Seq(TestRuns) /\ DOMAIN <<>> = {} /\ 1 .. 0 = {}
    OBVIOUS
  <2>2. Tells(<<>>, 0)
    BY <2>1
  <2>3. g[0] \in Seq(TestRuns) /\ Tells(g[0], 0) /\ 0 \in 0 .. n
    <3> HIDE DEF Tells
    <3> QED BY <1>0, <1>4, <2>1, <2>2
  <2> QED BY <2>3
<1>7. ASSUME NEW k \in 1 .. n, k - 1 \in Good
      PROVE  k \in Good
  <2>1. PICK s : s = g[k - 1]
    OBVIOUS
  <2>2. s \in Seq(TestRuns) /\ Tells(s, k - 1) /\ k \in 0 .. n
    BY <1>0, <1>7, <2>1
  <2>3. \A i \in 1 .. k : i = k \/ i \in 1 .. k - 1
    BY <1>0
  <2>4. CASE ~ said(k)
    <3>1. g[k] = s
      BY <1>4, <2>1, <2>4
    <3>2. Tells(s, k)
      BY <2>2, <2>3, <2>4
    <3> HIDE DEF Tells
    <3> QED BY <2>2, <3>1, <3>2
  <2>5. CASE said(k)
    <3>1. PICK x \in TestRuns : x = run(k)
      BY <1>5
    <3>2. g[k] = Append(s, x)
      BY <1>4, <2>1, <2>5, <3>1
    <3>3. Append(s, x) \in Seq(TestRuns)
      BY <2>2, <3>1
    <3>4. \A r : (\E j \in DOMAIN Append(s, x) : Append(s, x)[j] = r) <=> r = x \/ \E j \in DOMAIN s : s[j] = r
      <4>1. DOMAIN s = 1 .. Len(s) /\ Len(s) \in Nat /\ DOMAIN Append(s, x) = 1 .. Len(s) + 1
        BY <2>2
      <4>2. Append(s, x)[Len(s) + 1] = x /\ \A j \in 1 .. Len(s) : Append(s, x)[j] = s[j]
        BY <2>2
      <4>3. \A j \in 1 .. Len(s) + 1 : j = Len(s) + 1 \/ j \in 1 .. Len(s)
        BY <4>1
      <4>4. Len(s) + 1 \in 1 .. Len(s) + 1 /\ \A j \in 1 .. Len(s) : j \in 1 .. Len(s) + 1
        BY <4>1
      <4> QED BY <4>1, <4>2, <4>3, <4>4
    <3>5. \A r : (\E i \in 1 .. k : said(i) /\ r = run(i)) <=> r = x \/ \E i \in 1 .. k - 1 : said(i) /\ r = run(i)
      BY <2>3, <2>5, <3>1
    <3>6. Tells(Append(s, x), k)
      BY <2>2, <3>4, <3>5
    <3> HIDE DEF Tells
    <3> QED BY <2>2, <3>2, <3>3, <3>6
  <2> QED BY <2>4, <2>5
<1>8. n \in Good
  <2> HIDE DEF Good
  <2>1. \A i \in 0 .. n : i \in Good
    BY <1>0, <1>6, <1>7, Throughout
  <2> QED BY <1>0, <2>1
<1>9. R = g[n]
  BY <1>1, <1>2
<1>10. g[n] \in Seq(TestRuns) /\ Tells(g[n], n)
  BY <1>8
<1>11. \A r \in TestRuns : (\E j \in DOMAIN g[n] : g[n][j] = r) <=> \E i \in 1 .. n : said(i) /\ r = run(i)
  BY <1>10
<1> HIDE DEF G, Good
<1> QED BY <1>9, <1>10, <1>11 DEF said, run, Records

\* Some row says of the test that it passed, or that it failed.
RowSays(history, id, passed) == \E i \in DOMAIN history : history[i].id = id /\ history[i].passed = passed

\* The history of a test says what its rows say.
LEMMA HistorySays ==
  ASSUME NEW history \in Seq(TestRuns), NEW id, NEW h, h = History(history, id, None), NEW b
  PROVE  (\E k \in DOMAIN h : h[k] = b) <=> RowSays(history, id, b)
<1> DEFINE mine == {i \in DOMAIN history : history[i].id = id}
           when(i) == Shown(history[i].at)
           L == {p \in mine \X mine : \/ when(p[1]) < when(p[2])
                                      \/ when(p[1]) = when(p[2]) /\ p[1] < p[2]}
<1>1. DOMAIN history = 1 .. Len(history) /\ Len(history) \in Nat
  OBVIOUS
<1>2. \A i \in mine : i \in Nat /\ when(i) \in Int
  <2>1. \A i \in 1 .. Len(history) : history[i] \in TestRuns
    BY <1>1
  <2>2. \A r \in TestRuns : r.at \in Times
    BY DEF TestRuns
  <2>3. \A t \in Times : Shown(t) \in Int
    BY DEF Times, Shown
  <2> QED BY <1>1, <2>1, <2>2, <2>3
<1>3. IsFiniteSet(mine)
  <2>1. IsFiniteSet(1 .. Len(history))
    BY <1>1, FS_Interval
  <2> QED BY <1>1, <2>1, FS_Subset
<1>4. PICK s : s = Sorted(mine, L)
  OBVIOUS
<1>5. h = [k \in DOMAIN s |-> history[s[k]].passed]
  BY <1>4 DEF History
<1> HIDE DEF when, mine
<1>6. Orders(L, mine)
  <2>1. \A x, y \in mine : <<x, y>> \in L <=> when(x) < when(y) \/ (when(x) = when(y) /\ x < y)
    OBVIOUS
  <2> HIDE DEF L
  <2> QED BY <1>2, <2>1 DEF Orders
<1> HIDE DEF L
<1>7. /\ \A k \in 1 .. Cardinality(mine) : s[k] \in mine
      /\ \A x \in mine : \E k \in 1 .. Cardinality(mine) : s[k] = x
  BY <1>3, <1>4, <1>6, SortedPlaces
<1>8. DOMAIN s = 1 .. Cardinality(mine)
  BY <1>4 DEF Sorted
<1>9. (\E k \in DOMAIN h : h[k] = b) <=> \E i \in mine : history[i].passed = b
  BY <1>5, <1>7, <1>8
<1> QED BY <1>9 DEF mine, RowSays

RowsTell ==
  /\ rows \in Seq(TestRuns)
  /\ \A id : /\ RowSays(rows, id, TRUE) <=> Did(id, {"passed"})
             /\ RowSays(rows, id, FALSE) <=> Did(id, {"failed", "error"})

ErrorsArePytests(framework, report) ==
  framework = "pytest" \/ \A i \in DOMAIN report : report[i].status # "error"

\* The report shows the test in such a status.
Saw(report, framework, opts, id, statuses) ==
  \E i \in DOMAIN report : id = TestId(framework, report[i].test, opts.rooted) /\ report[i].status \in statuses

LEMMA RowSaysOfBoth ==
  ASSUME NEW s \in Seq(TestRuns), NEW r \in Seq(TestRuns), NEW id, NEW b
  PROVE  RowSays(s \o r, id, b) <=> RowSays(s, id, b) \/ RowSays(r, id, b)
<1>1. /\ DOMAIN s = 1 .. Len(s) /\ Len(s) \in Nat /\ DOMAIN r = 1 .. Len(r) /\ Len(r) \in Nat
      /\ DOMAIN (s \o r) = 1 .. Len(s) + Len(r)
  OBVIOUS
<1>2. \A i \in 1 .. Len(s) : i \in DOMAIN (s \o r) /\ (s \o r)[i] = s[i]
  BY <1>1
<1>3. \A i \in 1 .. Len(r) : Len(s) + i \in DOMAIN (s \o r) /\ (s \o r)[Len(s) + i] = r[i]
  BY <1>1
<1>4. \A k \in DOMAIN (s \o r) : k \in 1 .. Len(s) \/ \E i \in 1 .. Len(r) : k = Len(s) + i
  <2> SUFFICES ASSUME NEW k \in 1 .. Len(s) + Len(r), k \notin 1 .. Len(s) PROVE \E i \in 1 .. Len(r) : k = Len(s) + i
    BY <1>1
  <2>1. k - Len(s) \in 1 .. Len(r) /\ k = Len(s) + (k - Len(s))
    BY <1>1
  <2> QED BY <2>1
<1>5. ASSUME RowSays(s \o r, id, b) PROVE RowSays(s, id, b) \/ RowSays(r, id, b)
  <2>1. PICK k \in DOMAIN (s \o r) : (s \o r)[k].id = id /\ (s \o r)[k].passed = b
    BY <1>5 DEF RowSays
  <2>2. CASE k \in 1 .. Len(s)
    BY <1>1, <1>2, <2>1, <2>2 DEF RowSays
  <2>3. CASE \E i \in 1 .. Len(r) : k = Len(s) + i
    BY <1>1, <1>3, <2>1, <2>3 DEF RowSays
  <2> QED BY <1>4, <2>2, <2>3
<1>6. ASSUME RowSays(s, id, b) PROVE RowSays(s \o r, id, b)
  <2>1. PICK i \in 1 .. Len(s) : s[i].id = id /\ s[i].passed = b
    BY <1>1, <1>6 DEF RowSays
  <2>2. i \in DOMAIN (s \o r) /\ (s \o r)[i] = s[i]
    BY <1>2
  <2> QED BY <2>1, <2>2 DEF RowSays
<1>7. ASSUME RowSays(r, id, b) PROVE RowSays(s \o r, id, b)
  <2>1. PICK i \in 1 .. Len(r) : r[i].id = id /\ r[i].passed = b
    BY <1>1, <1>7 DEF RowSays
  <2>2. Len(s) + i \in DOMAIN (s \o r) /\ (s \o r)[Len(s) + i] = r[i]
    BY <1>3
  <2> QED BY <2>1, <2>2 DEF RowSays
<1> QED BY <1>5, <1>6, <1>7

\* What is recorded of a report says what its tests did.
LEMMA RecordedSay ==
  ASSUME NEW framework, NEW report \in TestReports, NEW opts, opts.at \in Times, ErrorsArePytests(framework, report),
         NEW id, NEW R, R = RecordedRuns(framework, report, opts)
  PROVE  /\ RowSays(R, id, TRUE) <=> Saw(report, framework, opts, id, {"passed"})
         /\ RowSays(R, id, FALSE) <=> Saw(report, framework, opts, id, {"failed", "error"})
<1>1. PICK n : n = Len(report)
  OBVIOUS
<1>2. DOMAIN report = 1 .. n /\ \A i \in 1 .. n : report[i].test.title \in STRING
  BY <1>1, ReportsNameTests
<1>3. R \in Seq(TestRuns) /\ Records(R, framework, report, opts, n)
  BY <1>1, RecordedRunsSay
<1>4. \A j \in DOMAIN R : R[j] \in TestRuns
  BY <1>3
<1>5. \A i \in 1 .. n : RunOf(framework, report[i], opts) \in TestRuns
  BY <1>2 DEF RunOf, TestId, TestRuns, TestIds
<1>6. \A b : RowSays(R, id, b) <=>
        \E i \in 1 .. n : /\ Outcome(framework, report[i].status) # "none"
                          /\ RunOf(framework, report[i], opts).id = id /\ RunOf(framework, report[i], opts).passed = b
  <2> TAKE b
  <2>1. ASSUME RowSays(R, id, b)
        PROVE  \E i \in 1 .. n : /\ Outcome(framework, report[i].status) # "none"
                                 /\ RunOf(framework, report[i], opts).id = id /\ RunOf(framework, report[i], opts).passed = b
    <3>1. PICK j \in DOMAIN R : R[j].id = id /\ R[j].passed = b
      BY <2>1 DEF RowSays
    <3>2. PICK i \in 1 .. n : Outcome(framework, report[i].status) # "none" /\ R[j] = RunOf(framework, report[i], opts)
      BY <1>3, <1>4 DEF Records
    <3> QED BY <3>1, <3>2
  <2>2. ASSUME NEW i \in 1 .. n, Outcome(framework, report[i].status) # "none",
               RunOf(framework, report[i], opts).id = id, RunOf(framework, report[i], opts).passed = b
        PROVE  RowSays(R, id, b)
    <3>1. PICK j \in DOMAIN R : R[j] = RunOf(framework, report[i], opts)
      BY <1>3, <1>5, <2>2 DEF Records
    <3> QED BY <2>2, <3>1 DEF RowSays
  <2> QED BY <2>1, <2>2
<1>7. \A i \in 1 .. n : /\ RunOf(framework, report[i], opts).id = TestId(framework, report[i].test, opts.rooted)
                        /\ RunOf(framework, report[i], opts).passed = TRUE <=> Outcome(framework, report[i].status) = "pass"
                        /\ RunOf(framework, report[i], opts).passed = FALSE <=> Outcome(framework, report[i].status) # "pass"
  BY DEF RunOf
<1>8. \A i \in 1 .. n : /\ Outcome(framework, report[i].status) = "pass" <=> report[i].status = "passed"
                        /\ Outcome(framework, report[i].status) = "pass" => Outcome(framework, report[i].status) # "none"
                        /\ (Outcome(framework, report[i].status) # "none" /\ Outcome(framework, report[i].status) # "pass")
                             <=> report[i].status \in {"failed", "error"}
  BY <1>2 DEF Outcome, ErrorsArePytests
<1>9. RowSays(R, id, TRUE) <=> \E i \in 1 .. n : id = TestId(framework, report[i].test, opts.rooted) /\ report[i].status = "passed"
  <2>1. \A i \in 1 .. n :
          (/\ Outcome(framework, report[i].status) # "none"
           /\ RunOf(framework, report[i], opts).id = id /\ RunOf(framework, report[i], opts).passed = TRUE)
            <=> id = TestId(framework, report[i].test, opts.rooted) /\ report[i].status = "passed"
    BY <1>7, <1>8
  <2> QED BY <1>6, <2>1
<1>10. RowSays(R, id, FALSE) <=> \E i \in 1 .. n : id = TestId(framework, report[i].test, opts.rooted) /\ report[i].status \in {"failed", "error"}
  <2>1. \A i \in 1 .. n :
          (/\ Outcome(framework, report[i].status) # "none"
           /\ RunOf(framework, report[i], opts).id = id /\ RunOf(framework, report[i], opts).passed = FALSE)
            <=> id = TestId(framework, report[i].test, opts.rooted) /\ report[i].status \in {"failed", "error"}
    BY <1>7, <1>8
  <2> QED BY <1>6, <2>1
<1> QED BY <1>2, <1>9, <1>10 DEF Saw

LEMMA RecordKeeps ==
  ASSUME RowsTell, NEW framework, NEW report \in TestReports, NEW opts, opts.at \in Times,
         ErrorsArePytests(framework, report), Record(framework, report, opts)
  PROVE  RowsTell'
<1>1. PICK R : R = RecordedRuns(framework, report, opts)
  OBVIOUS
<1>2. R \in Seq(TestRuns)
  BY <1>1, RecordedRunsSay
<1>3. rows' = rows \o R /\ rows \in Seq(TestRuns)
  BY <1>1 DEF Record, RowsTell
<1>4. rows' \in Seq(TestRuns)
  BY <1>2, <1>3
<1>5. \A x : x \in executed' <=> \/ x \in executed
                                 \/ \E i \in DOMAIN report : x = <<TestId(framework, report[i].test, opts.rooted), report[i].status>>
  BY DEF Record
<1>6. \A id, s : <<id, s>> \in executed' <=>
                   \/ <<id, s>> \in executed
                   \/ \E i \in DOMAIN report : id = TestId(framework, report[i].test, opts.rooted) /\ report[i].status = s
  BY <1>5
<1>7. ASSUME NEW id
      PROVE  /\ RowSays(rows', id, TRUE) <=> Did(id, {"passed"})'
             /\ RowSays(rows', id, FALSE) <=> Did(id, {"failed", "error"})'
  <2>1. /\ RowSays(rows, id, TRUE) <=> <<id, "passed">> \in executed
        /\ RowSays(rows, id, FALSE) <=> <<id, "failed">> \in executed \/ <<id, "error">> \in executed
    BY DEF RowsTell, Did
  <2>2. \A b : RowSays(rows', id, b) <=> RowSays(rows, id, b) \/ RowSays(R, id, b)
    BY <1>2, <1>3, RowSaysOfBoth
  <2>3. /\ RowSays(R, id, TRUE) <=> Saw(report, framework, opts, id, {"passed"})
        /\ RowSays(R, id, FALSE) <=> Saw(report, framework, opts, id, {"failed", "error"})
    BY <1>1, RecordedSay
  <2>4. /\ Saw(report, framework, opts, id, {"passed"}) <=>
             \E i \in DOMAIN report : id = TestId(framework, report[i].test, opts.rooted) /\ report[i].status = "passed"
        /\ Saw(report, framework, opts, id, {"failed", "error"}) <=>
             \/ \E i \in DOMAIN report : id = TestId(framework, report[i].test, opts.rooted) /\ report[i].status = "failed"
             \/ \E i \in DOMAIN report : id = TestId(framework, report[i].test, opts.rooted) /\ report[i].status = "error"
    BY DEF Saw
  <2>5. RowSays(rows', id, TRUE) <=> <<id, "passed">> \in executed'
    BY <1>6, <2>1, <2>2, <2>3, <2>4
  <2>6. RowSays(rows', id, FALSE) <=> <<id, "failed">> \in executed' \/ <<id, "error">> \in executed'
    BY <1>6, <2>1, <2>2, <2>3, <2>4
  <2> QED BY <2>5, <2>6 DEF Did
<1> QED BY <1>4, <1>7 DEF RowsTell

-----------------------------------------------------------------------------

IsAsk(c) ==
  /\ flakes[c].op = "ingest" => flakes[c].time \in Times \cup {None}
  /\ flakes[c].op \in {"run", "ingest"} =>
       \A report \in reports : ErrorsArePytests(flakes[c].framework, report)

FlakeInv ==
  /\ now \in Nat /\ reports \subseteq TestReports /\ RowsTell
  /\ \A c \in DOMAIN fcalls : /\ IsAsk(c) /\ "at" \in DOMAIN fcalls[c]
                              /\ fcalls[c].at = "running" => flakes[c].op = "run"

\* A call comes to where it is no run, or is one.
FlakeComesTo(c, at) ==
  /\ DOMAIN fcalls' = DOMAIN fcalls /\ \A d \in DOMAIN fcalls : d # c => fcalls'[d] = fcalls[d]
  /\ "at" \in DOMAIN fcalls'[c] /\ fcalls'[c].at = at

LEMMA FlakeCallMoves ==
  ASSUME FlakeInv, NEW c \in DOMAIN fcalls, NEW at, FlakeComesTo(c, at), at = "running" => flakes[c].op = "run",
         UNCHANGED <<flakes, reports, now>>, RowsTell'
  PROVE  FlakeInv'
<1>1. \A d \in DOMAIN fcalls' : IsAsk(d)'
  BY DEF FlakeInv, IsAsk, FlakeComesTo
<1>2. \A d \in DOMAIN fcalls' : "at" \in DOMAIN fcalls'[d] /\ (fcalls'[d].at = "running" => flakes'[d].op = "run")
  BY DEF FlakeInv, FlakeComesTo
<1> QED BY <1>1, <1>2 DEF FlakeInv

LEMMA RowsStay ==
  ASSUME RowsTell, UNCHANGED <<rows, executed>>
  PROVE  RowsTell'
BY DEF RowsTell, Did

\* A call that records nothing.
LEMMA QuietCallKeeps ==
  ASSUME FlakeInv, NEW c \in DOMAIN fcalls,
         \/ FlakeRefused(c) \/ FlakeNoop(c) \/ StartRepeats(c) \/ EndRepeats(c)
         \/ CmdStatus(c) \/ FlakeStatus(c) \/ CmdCandidates(c) \/ FlakeCandidates(c)
         \/ CmdQuarantine(c) \/ FlakeQuarantine(c) \/ QuarantineUnavailable(c) \/ CmdRelease(c) \/ FlakeRelease(c)
  PROVE  FlakeInv'
<1>1. UNCHANGED <<rows, executed>> /\ UNCHANGED <<flakes, reports, now>>
  BY DEF FlakeRefused, FlakeNoop, StartRepeats, EndRepeats, CmdStatus, FlakeStatus, CmdCandidates, FlakeCandidates,
         CmdQuarantine, FlakeQuarantine, QuarantineUnavailable, CmdRelease, FlakeRelease,
         OnlyTheStoreMoves, OnlyTheQuarantineMoves, Reading, Quarantining, Releasing
<1>2. RowsTell'
  BY <1>1, RowsStay DEF FlakeInv
<1>3. "at" \in DOMAIN fcalls[c]
  BY DEF FlakeInv
<1>5. \/ \E at \in {"refused", "done"} : fcalls' = [fcalls EXCEPT ![c].at = at]
      \/ \E what : Answers(c, what)
      \/ \E operands : flakes[c].op = "run" /\ fcalls' = [fcalls EXCEPT ![c].at = "running", ![c].operands = operands]
  <2>1. CASE FlakeRefused(c) \/ QuarantineUnavailable(c) \/ CmdQuarantine(c) \/ FlakeQuarantine(c) \/ CmdRelease(c) \/ FlakeRelease(c)
    BY <2>1 DEF FlakeRefused, QuarantineUnavailable, CmdQuarantine, FlakeQuarantine, CmdRelease, FlakeRelease, Quarantining, Releasing
  <2>2. CASE FlakeNoop(c) \/ EndRepeats(c) \/ CmdStatus(c) \/ FlakeStatus(c) \/ CmdCandidates(c) \/ FlakeCandidates(c)
    BY <2>2 DEF FlakeNoop, EndRepeats, CmdStatus, FlakeStatus, CmdCandidates, FlakeCandidates, Reading
  <2>3. CASE StartRepeats(c)
    BY <2>3 DEF StartRepeats
  <2> QED BY <2>1, <2>2, <2>3
<1>6. CASE \E at \in {"refused", "done"} : fcalls' = [fcalls EXCEPT ![c].at = at]
  <2>1. PICK at \in {"refused", "done"} : fcalls' = [fcalls EXCEPT ![c].at = at]
    BY <1>6
  <2>2. FlakeComesTo(c, at) /\ at # "running"
    BY <1>3, <2>1 DEF FlakeComesTo
  <2> QED BY <1>1, <1>2, <2>2, FlakeCallMoves
<1>7. CASE \E what : Answers(c, what)
  <2>1. FlakeComesTo(c, "done")
    BY <1>3, <1>7 DEF FlakeComesTo, Answers
  <2> QED BY <1>1, <1>2, <2>1, FlakeCallMoves
<1>8. CASE \E operands : flakes[c].op = "run" /\ fcalls' = [fcalls EXCEPT ![c].at = "running", ![c].operands = operands]
  <2>1. FlakeComesTo(c, "running")
    BY <1>3, <1>8 DEF FlakeComesTo
  <2> QED BY <1>1, <1>2, <1>8, <2>1, FlakeCallMoves
<1> QED BY <1>5, <1>6, <1>7, <1>8

LEMMA RepeatKeeps ==
  ASSUME FlakeInv, NEW c \in DOMAIN fcalls, Repeat(c)
  PROVE  FlakeInv'
<1>1. UNCHANGED <<flakes, reports, now>> /\ fcalls[c].at = "running" /\ flakes[c].op = "run" /\ "at" \in DOMAIN fcalls[c]
  BY DEF Repeat, OnlyTheStoreMoves, FlakeInv
<1>2. CASE \E report \in reports : /\ Record(flakes[c].framework, report, [at |-> Now, rooted |-> TRUE])
                                   /\ fcalls' = [fcalls EXCEPT ![c].done = @ + 1]
  <2>1. PICK report \in reports : /\ Record(flakes[c].framework, report, [at |-> Now, rooted |-> TRUE])
                                  /\ fcalls' = [fcalls EXCEPT ![c].done = @ + 1]
    BY <1>2
  <2>2. PICK opts : opts = [at |-> Now, rooted |-> TRUE]
    OBVIOUS
  <2>3. opts.at \in Times /\ report \in TestReports /\ ErrorsArePytests(flakes[c].framework, report) /\ RowsTell
    BY <1>1, <2>2 DEF Now, Times, FlakeInv, IsAsk
  <2>4. RowsTell'
    BY <2>1, <2>2, <2>3, RecordKeeps
  <2>5. FlakeComesTo(c, "running")
    BY <1>1, <2>1 DEF FlakeComesTo
  <2> QED BY <1>1, <2>4, <2>5, FlakeCallMoves
<1>3. CASE fcalls' = [fcalls EXCEPT ![c].at = "error"] /\ UNCHANGED <<rows, executed>>
  <2>1. RowsTell'
    BY <1>3, RowsStay DEF FlakeInv
  <2>2. FlakeComesTo(c, "error")
    BY <1>1, <1>3 DEF FlakeComesTo
  <2> QED BY <1>1, <2>1, <2>2, FlakeCallMoves
<1> QED BY <1>2, <1>3 DEF Repeat

LEMMA IngestKeeps ==
  ASSUME FlakeInv, NEW c \in DOMAIN fcalls, CmdIngest(c) \/ FlakeIngest(c)
  PROVE  FlakeInv'
<1>1. UNCHANGED <<flakes, reports, now>> /\ flakes[c].op = "ingest" /\ "at" \in DOMAIN fcalls[c]
  BY DEF CmdIngest, FlakeIngest, OnlyTheStoreMoves, Asks, FlakeInv
<1>2. PICK report \in reports : Ingested(c, report) /\ \E what : Answers(c, what)
  BY DEF CmdIngest, FlakeIngest
<1>3. PICK opts : opts = [at |-> IF flakes[c].time = None THEN Now ELSE flakes[c].time, rooted |-> flakes[c].rooted]
  OBVIOUS
<1>4. Record(flakes[c].framework, report, opts)
  BY <1>2, <1>3 DEF Ingested
<1>5. opts.at \in Times
  <2>1. Now \in Times
    BY DEF Now, Times, FlakeInv
  <2> QED BY <1>1, <1>3, <2>1 DEF FlakeInv, IsAsk
<1>6. report \in TestReports /\ ErrorsArePytests(flakes[c].framework, report) /\ RowsTell
  BY <1>1 DEF FlakeInv, IsAsk
<1>7. RowsTell'
  BY <1>4, <1>5, <1>6, RecordKeeps
<1>8. FlakeComesTo(c, "done")
  BY <1>1, <1>2 DEF FlakeComesTo, Answers
<1> QED BY <1>1, <1>7, <1>8, FlakeCallMoves

LEMMA FlakeStays ==
  ASSUME FlakeInv, UNCHANGED <<flakes, reports, rows, fcalls, executed>>, now' \in Nat
  PROVE  FlakeInv'
<1>1. RowsTell'
  BY RowsStay DEF FlakeInv
<1>2. \A c \in DOMAIN fcalls' : IsAsk(c)'
  BY DEF FlakeInv, IsAsk
<1> QED BY <1>1, <1>2 DEF FlakeInv

LEMMA NothingRecorded ==
  ASSUME rows = <<>>, executed = {}
  PROVE  RowsTell
<1>1. rows \in Seq(TestRuns) /\ DOMAIN rows = {}
  OBVIOUS
<1> QED BY <1>1 DEF RowsTell, RowSays, Did

LEMMA FlakeInitHolds ==
  ASSUME FlakeInit
  PROVE  FlakeInv
<1>1. PICK suite \in FlakeSuites : \E jobs \in [FlakeCalls -> suite.jobs] : Opening(jobs, suite.reports)
  BY DEF FlakeInit
<1>2. flakes \in [FlakeCalls -> suite.jobs] /\ reports = suite.reports /\ rows = <<>> /\ now = 0 /\ executed = {}
      /\ fcalls = [c \in FlakeCalls |-> [at |-> "asked", operands |-> {}, done |-> 0, told |-> None]]
  BY <1>1 DEF Opening
<1>3. reports \subseteq TestReports
  BY <1>2, FlakeAssumption
<1>4. ASSUME NEW c \in FlakeCalls PROVE IsAsk(c)
  <2>1. PICK j \in suite.jobs : j = flakes[c]
    BY <1>2
  <2>2. /\ j.op = "ingest" => j.time \in Times \cup {None}
        /\ j.op \in {"run", "ingest"} /\ j.framework # "pytest" =>
             \A report \in suite.reports : \A i \in DOMAIN report : report[i].status # "error"
    BY FlakeAssumption
  <2> QED BY <1>2, <2>1, <2>2 DEF IsAsk, ErrorsArePytests
<1>5. RowsTell
  BY <1>2, NothingRecorded
<1>6. DOMAIN fcalls = FlakeCalls
      /\ \A c \in FlakeCalls : fcalls[c] = [at |-> "asked", operands |-> {}, done |-> 0, told |-> None]
  BY <1>2
<1> QED BY <1>2, <1>3, <1>4, <1>5, <1>6 DEF FlakeInv

\* The rows of the history tell what the reports did, in every state of the calls.
THEOREM FlakePillarHolds == Spec => []FlakeInv
<1>1. Init => FlakeInv
  <2>1. FlakeRests => FlakeInv
    <3> SUFFICES ASSUME FlakeRests PROVE FlakeInv
      OBVIOUS
    <3>1. RowsTell
      BY NothingRecorded DEF FlakeRests
    <3>2. fcalls = <<>> /\ DOMAIN fcalls = {} /\ reports = {} /\ now \in Nat
      BY FlakeAssumption DEF FlakeRests
    <3> QED BY <3>1, <3>2 DEF FlakeInv
  <2> QED BY <2>1, FlakeInitHolds DEF Init
<1>2. FlakeInv /\ [Next]_vars => FlakeInv'
  <2> SUFFICES ASSUME FlakeInv, [Next]_vars PROVE FlakeInv'
    OBVIOUS
  <2>1. CASE UNCHANGED fvars
    <3>1. UNCHANGED <<flakes, reports, rows, fcalls, executed>> /\ now' \in Nat
      BY <2>1 DEF fvars, FlakeInv
    <3> QED BY <3>1, FlakeStays
  <2>2. CASE TimePasses
    <3>1. UNCHANGED <<flakes, reports, rows, fcalls, executed>> /\ now' \in Nat
      BY <2>2 DEF TimePasses, FlakeInv
    <3> QED BY <3>1, FlakeStays
  <2>3. CASE \E c \in DOMAIN fcalls :
               \/ FlakeRefused(c) \/ FlakeNoop(c) \/ StartRepeats(c) \/ Repeat(c) \/ EndRepeats(c)
               \/ CmdIngest(c) \/ FlakeIngest(c) \/ CmdStatus(c) \/ FlakeStatus(c)
               \/ CmdCandidates(c) \/ FlakeCandidates(c)
               \/ CmdQuarantine(c) \/ FlakeQuarantine(c) \/ QuarantineUnavailable(c)
               \/ CmdRelease(c) \/ FlakeRelease(c)
    BY <2>3, QuietCallKeeps, RepeatKeeps, IngestKeeps
  <2> QED BY <2>1, <2>2, <2>3 DEF Next, Finished, vars, FlakeNext
<1> QED BY <1>1, <1>2, PTL DEF Spec

\* What a classification of the whole history says of a test is what the
\* recorded reports saw it do (store.ts, classify.ts, report.ts): whatever the
\* reports, their times and who recorded them.
THEOREM VerdictsSayWhatRan == Spec => []VerdictsMatchExecutions
<1>1. FlakeInv => VerdictsMatchExecutions
  <2> SUFFICES ASSUME FlakeInv, NEW id \in DOMAIN Classify(rows, Everything), NEW v, v = Classify(rows, Everything)[id]
               PROVE  /\ v = "flaky" <=> Did(id, {"passed"}) /\ Did(id, {"failed", "error"})
                      /\ v = "reliable" => ~ Did(id, {"failed", "error"})
                      /\ v = "broken" => ~ Did(id, {"passed"})
    BY DEF VerdictsMatchExecutions
  <2>1. PICK h : h = History(rows, id, None)
    OBVIOUS
  <2>2. \A b : (\E k \in DOMAIN h : h[k] = b) <=> RowSays(rows, id, b)
    BY <2>1, HistorySays DEF FlakeInv, RowsTell
  <2>3. v = ClassifyHistory(h, DefaultMinRuns)
    BY <2>1 DEF Classify, Everything, Limited
  <2>4. \A k \in DOMAIN h : h[k] \in BOOLEAN
    <3>1. \A i \in DOMAIN rows : rows[i].passed \in BOOLEAN
      <4>1. \A i \in DOMAIN rows : rows[i] \in TestRuns
        BY DEF FlakeInv, RowsTell
      <4> QED BY <4>1 DEF TestRuns
    <3>2. \A k \in DOMAIN h : RowSays(rows, id, h[k])
      BY <2>2
    <3> QED BY <3>1, <3>2 DEF RowSays
  <2>5. /\ (\E k \in DOMAIN h : h[k]) <=> Did(id, {"passed"})
        /\ (\E k \in DOMAIN h : ~ h[k]) <=> Did(id, {"failed", "error"})
    BY <2>2, <2>4 DEF FlakeInv, RowsTell
  <2> QED BY <2>3, <2>5 DEF ClassifyHistory
<1> QED BY <1>1, FlakePillarHolds, PTL
=============================================================================
