----------------------------- MODULE LspRename -----------------------------
(***************************************************************************)
(* LspRenameEngine (packages/lsp/src/rename.ts): a rename is computed by   *)
(* the language server, checked, and -- behind the operator's gates --     *)
(* applied to the disk: the server's operations are replayed, in           *)
(* documentChanges order, over the projected fate of each file; a plan of  *)
(* physical operations is built from the fates, committed, and the open    *)
(* buffers of the server are brought in line with what landed.             *)
(*                                                                         *)
(* The replay, the commit and the resynchronisation run in one turn of     *)
(* the event loop under the locks of every document they touch, so they    *)
(* are one action; between the computation and that turn anyone may write  *)
(* to the disk.                                                            *)
(*                                                                         *)
(* A text is the file it came from, what its edit site reads, the edits    *)
(* applied to it and whether somebody else wrote it since.  A URI stands   *)
(* for the absolute path it is confined to.                                *)
(***************************************************************************)
EXTENDS LspDocuments, Sequences, FiniteSets, SequencesExt

CONSTANTS
  File,      \* documents under the allowlisted roots
  Queried,   \* the document the rename was asked in
  Outside,   \* a document outside every root, or of another scheme
  MaxOps,    \* bound: operations in one workspace edit
  MaxWeight  \* bound: operations plus unusual circumstances of a behaviour

ASSUME FilesAssumption == Queried \in File /\ (File \cap {Outside, "missing", "blank"} = {})

VARIABLES
  gates,     \* the operator's options
  disk,      \* the file system
  docs,      \* the session's documents
  edit,      \* the normalized operations, in order
  verdict,   \* of the partial-rename guard
  base,      \* the disk before the edit is applied
  phase,     \* idle, computed, done
  result     \* what rename() returns

vars == <<gates, disk, docs, edit, verdict, base, phase, result>>

Missing == [of |-> "missing", site |-> "", drift |-> FALSE, edits |-> 0]
Blank   == [Missing EXCEPT !.of = "blank"]

Absent    == [kind |-> "absent", text |-> Missing]
Holds(t)  == [kind |-> "file",   text |-> t]
Original(u) == [of |-> u, site |-> "sym", drift |-> FALSE, edits |-> 0]

Kinds == {"edit", "create", "rename", "delete"}

\* One operation: the document it names first, a rename's target, its options
\* and, of an edit, whether it is annotated needsConfirmation or malformed.
Operation == [kind : Kinds, uri : File \cup {Outside}, to : File \cup {Outside},
              overwrite : BOOLEAN, ignore : BOOLEAN, recursive : BOOLEAN,
              site : {"plain", "confirm", "overlap"}]

Plain(kind, u, to) ==
  [kind |-> kind, uri |-> u, to |-> to,
   overwrite |-> FALSE, ignore |-> FALSE, recursive |-> FALSE, site |-> "plain"]

NotApplied == [applied |-> FALSE, refused |-> "", partial |-> FALSE,
               rows |-> {}, overwritten |-> {}]

Refused(why) == [NotApplied EXCEPT !.refused = why]

Read(d, u) == d[u].text

-----------------------------------------------------------------------------
(* Gates and confinement, before any read.                                 *)

Endpoints(op) == IF op.kind = "rename" THEN {op.uri, op.to} ELSE {op.uri}
Touched       == UNION {Endpoints(edit[i]) : i \in DOMAIN edit}
Confined      == Touched \subseteq File

DestructiveAllowed == gates.write /\ gates.destructive

\* A rename's overwrite is not gated.
BugBadOption(op) ==
  \/ op.kind = "delete" /\ (op.recursive \/ op.overwrite)
  \/ op.kind = "create" /\ op.overwrite /\ ~ DestructiveAllowed

\* The options refused for their own sake.
BadOption(op) ==
  \/ op.kind = "delete" /\ (op.recursive \/ op.overwrite)
  \/ op.kind \in {"create", "rename"} /\ op.overwrite /\ ~ DestructiveAllowed

DestructiveBatch == \E i \in DOMAIN edit : edit[i].kind # "edit" /\ edit[i].overwrite

BlockedByGuard ==
  /\ \/ verdict = "suspect"
     \/ verdict = "unknown" /\ DestructiveBatch
  /\ ~ gates.incomplete

-----------------------------------------------------------------------------
(* The partial-rename guard.                                               *)

Mentions(t)  == t.site = "sym"
Suspects(ops, d) ==
  {u \in File : /\ d[u].kind = "file"
                /\ Mentions(Read(d, u))
                /\ \A i \in DOMAIN ops : u \notin Endpoints(ops[i])}

\* How far a scan gets: nothing to look for where no identifier stands.
Scans == {"whole", "truncated", "unnamed"}

\* With no lister wired there is no verdict.
Assess(ops, d, scan) ==
  IF ~ gates.lister THEN "none"
  ELSE IF scan = "unnamed" THEN "complete"
  ELSE IF Suspects(ops, d) # {} THEN "suspect"
  ELSE IF scan = "truncated" THEN "unknown" ELSE "complete"

-----------------------------------------------------------------------------
(* The replay: the operations one by one over the fates of the files.      *)

Live(at, text) == [live |-> TRUE, at |-> at, text |-> text]
Deleted        == [live |-> FALSE, at |-> "deleted", text |-> Missing]
NoFate         == [live |-> FALSE, at |-> "nowhere", text |-> Missing]

Untouched ==
  [fate       |-> [u \in File |-> NoFate],  \* vfs, by original document
   order      |-> <<>>,                     \* first-touch order
   alias      |-> [u \in File |-> u],       \* a rename's target -> its origin
   created    |-> {},
   replaced   |-> {},                       \* overwroteExisting
   renamedOld |-> {},
   clobbered  |-> {},                       \* destinations an overwrite destroys
   overwrites |-> {},
   expected   |-> None,                     \* expectedOld
   refused    |-> ""]

Touch(r, o) == IF Contains(r.order, o) THEN r ELSE [r EXCEPT !.order = Append(@, o)]

Refuse(r, why) == [r EXCEPT !.refused = why]

ContentOf(r, d, u) ==
  LET f == r.fate[r.alias[u]]
  IN  IF f = NoFate THEN Read(d, u) ELSE f.text

LiveOccupied(r, d, u) ==
  LET f == r.fate[r.alias[u]]
  IN  IF f = NoFate THEN Read(d, u) # Missing ELSE f.live

\* The queried file is no longer what the rename was computed from.
Drifted(d, u) == u = Queried /\ Read(d, u) # Original(Queried)

ReplayCreate(r, d, op) ==
  LET u == op.uri
  IN  IF r.alias[u] # u THEN Refuse(r, "conflict")
      ELSE IF ~ LiveOccupied(r, d, u) THEN
        [Touch(r, u) EXCEPT !.fate[u] = Live(u, Blank), !.created = @ \cup {u}]
      ELSE IF op.overwrite THEN
        IF d[u].kind # "file" THEN Refuse(r, "not a regular file")
        ELSE IF Drifted(d, u) THEN Refuse(r, "changed")
        ELSE [Touch(r, u) EXCEPT !.fate[u]    = Live(u, Blank),
                                 !.replaced   = @ \cup {u},
                                 !.overwrites = @ \cup {u}]
      ELSE IF op.ignore THEN r ELSE Refuse(r, "exists")

ReplayDelete(r, d, op) ==
  LET o == r.alias[op.uri]
  IN  IF ContentOf(r, d, op.uri) = Missing
      THEN IF op.ignore THEN r ELSE Refuse(r, "does not exist")
      ELSE IF o \notin r.created /\ d[o].kind \notin {"file", "link"}
      THEN Refuse(r, "not a regular file")
      ELSE [Touch(r, o) EXCEPT !.fate[o] = Deleted]

\* The move itself, once its target is known to be free or expendable.
Moved(r, d, op) ==
  LET o == r.alias[op.uri]
  IN  [Touch(r, o) EXCEPT !.fate[o]      = Live(op.to, ContentOf(r, d, op.uri)),
                          !.alias[op.to] = o,
                          !.renamedOld   = @ \cup {op.uri}]

ReplayRename(r, d, op) ==
  LET o == r.alias[op.uri]
      n == op.to
  IN  IF ContentOf(r, d, op.uri) = Missing THEN Refuse(r, "does not exist")
      ELSE IF n \in r.renamedOld \/ r.alias[n] = o THEN Refuse(r, "cycle")
      ELSE IF r.alias[n] # n THEN Refuse(r, "already a target")
      ELSE IF op.overwrite /\ (LiveOccupied(r, d, n) \/ d[n].kind # "absent") THEN
        IF r.fate[n].live THEN Refuse(r, "created or edited in this edit")
        ELSE IF d[n].kind # "file" THEN Refuse(r, "not a regular file")
        ELSE IF Drifted(d, n) THEN Refuse(r, "changed")
        ELSE Moved([r EXCEPT !.clobbered  = @ \cup {n},
                             !.overwrites = @ \cup {n}], d, op)
      ELSE IF LiveOccupied(r, d, n) THEN
        IF op.ignore THEN r ELSE Refuse(r, "exists")
      ELSE Moved(r, d, op)

\* applyTextEdits: a malformed set of edits throws.
Edited(t) == [t EXCEPT !.site = "new", !.edits = @ + 1]

ReplayEdit(r, d, op) ==
  LET u == op.uri
      t == ContentOf(r, d, u)
      o == r.alias[u]
  IN  IF u \in r.renamedOld THEN Refuse(r, "was renamed")
      ELSE IF t = Missing THEN Refuse(r, "unreadable")
      ELSE IF u = Queried /\ t # Original(Queried) THEN Refuse(r, "changed")
      ELSE IF op.site = "overlap" THEN Refuse(r, "throws")
      ELSE [Touch(r, o) EXCEPT
              !.fate[o]  = Live(IF r.fate[o].live THEN r.fate[o].at ELSE u, Edited(t)),
              !.expected = IF u = Queried THEN t.site ELSE @]

Replayed(r, d, op) ==
  IF r.refused # "" THEN r
  ELSE CASE op.kind = "create" -> ReplayCreate(r, d, op)
         [] op.kind = "delete" -> ReplayDelete(r, d, op)
         [] op.kind = "rename" -> ReplayRename(r, d, op)
         [] op.kind = "edit"   -> ReplayEdit(r, d, op)

\* The state after so many operations.
Replays(d, ops) ==
  LET after[i \in 0 .. Len(ops)] ==
        IF i = 0 THEN Untouched ELSE Replayed(after[i - 1], d, ops[i])
  IN  after

Replay(d, ops) == Replays(d, ops)[Len(ops)]

\* An edit site that no longer reads the renamed symbol.
StaleSite(r, d, ops) ==
  /\ r.expected # None
  /\ \E i \in DOMAIN ops :
       LET op == ops[i] IN
         /\ op.kind = "edit"
         /\ r.alias[op.uri] \notin r.created \cup r.replaced
         /\ Read(d, op.uri) # Missing
         /\ Read(d, op.uri).site # r.expected

Finals(r)  == {r.fate[u].at : u \in {v \in File : r.fate[v].live}}
Doomed(r)  == {u \in File : r.fate[u] = Deleted} \ r.created

\* A path that is deleted and also the target of a live file.
BugCollision(r) == FALSE

Collision(r) == Doomed(r) \cap Finals(r) # {}

-----------------------------------------------------------------------------
(* The physical plan.  A row is the audit entry an operation carries.      *)

Row(files, before, after) == [files |-> files, before |-> before, after |-> after]
Write(u, t, rows) == [kind |-> "write",  at |-> u, from |-> u, text |-> t, rows |-> rows]
Move(o, n, rows)  == [kind |-> "rename", at |-> n, from |-> o, text |-> Missing, rows |-> rows]
Unlink(u, rows)   == [kind |-> "delete", at |-> u, from |-> u, text |-> Missing, rows |-> rows]

Clobbers(r, d, n) ==
  IF n \in r.clobbered THEN {Row({n}, Read(d, n), Missing)} ELSE {}

PlanOf(r, d, o) ==
  LET f       == r.fate[o]
      changed == o \in r.created \cup r.replaced \/ f.text # Read(d, o)
      row     == Row({o, f.at}, Read(d, o), f.text)
  IN  IF ~ f.live THEN <<>>
      ELSE IF f.at = o THEN IF changed THEN <<Write(o, f.text, {row})>> ELSE <<>>
      ELSE IF o \in r.created
           THEN <<Write(f.at, f.text, {Row({f.at}, Read(d, o), f.text)})>>
      ELSE IF changed
           THEN <<Move(o, f.at, {row} \cup Clobbers(r, d, f.at)), Write(f.at, f.text, {row})>>
      ELSE <<Move(o, f.at, {row} \cup Clobbers(r, d, f.at))>>

RemovalOf(r, d, o) ==
  IF o \in Doomed(r) THEN <<Unlink(o, {Row({o}, Read(d, o), Missing)})>> ELSE <<>>

Plan(r, d) ==
  FlattenSeq([i \in DOMAIN r.order |-> PlanOf(r, d, r.order[i])])
    \o FlattenSeq([i \in DOMAIN r.order |-> RemovalOf(r, d, r.order[i])])

-----------------------------------------------------------------------------
(* defaultRenameWriter: stage every write, then execute in order.          *)

Possible(d, op) ==
  CASE op.kind = "write"  -> d[op.at].kind # "dir"
    [] op.kind = "rename" -> d[op.from].kind # "absent" /\ d[op.at].kind # "dir"
    [] op.kind = "delete" -> d[op.at].kind \in {"file", "link"}

Execute(d, op) ==
  CASE op.kind = "write"  -> [d EXCEPT ![op.at] = Holds(op.text)]
    [] op.kind = "rename" -> [d EXCEPT ![op.at] = d[op.from], ![op.from] = Absent]
    [] op.kind = "delete" -> [d EXCEPT ![op.at] = Absent]

\* The disk after so many operations of the plan.
Disks(d, plan) ==
  LET after[k \in 0 .. Len(plan)] ==
        IF k = 0 THEN d ELSE Execute(after[k - 1], plan[k])
  IN  after

\* The commit may get through n operations: it stops at an impossible one.
Committed(d, plan, n) == \A k \in 1 .. n : Possible(Disks(d, plan)[k - 1], plan[k])

Landed(plan, n, kind, u) ==
  \E i \in 1 .. n : plan[i].kind = kind /\ plan[i].at = u

-----------------------------------------------------------------------------
(* Resynchronisation of the server's buffers with what landed.             *)

\* The projected text, whether or not the write behind it landed.
BugResync(ds, r, d, plan, n, o) ==
  LET f == r.fate[o]
  IN  IF f.live /\ f.at # o /\ Landed(plan, n, "rename", f.at)
      THEN DidFileRename(ds, o, f.at, f.text)
      ELSE IF f.live /\ f.at = o /\ Landed(plan, n, "write", o)
      THEN ApplyEdited(ds, o, f.text)
      ELSE ds

Resync(ds, r, d, plan, n, o) ==
  LET f       == r.fate[o]
      written == Landed(plan, n, "write", f.at)
      cleared == IF f.at \in r.clobbered THEN DidFileDelete(ds, f.at) ELSE ds
  IN  IF ~ f.live THEN ds
      ELSE IF o \in r.created THEN
        IF ~ written THEN ds
        ELSE IF o = Queried /\ f.at # o THEN DidFileRename(ds, o, f.at, f.text)
        ELSE ApplyEdited(ds, f.at, f.text)
      ELSE IF f.at # o THEN
        IF Landed(plan, n, "rename", f.at)
        THEN DidFileRename(cleared, o, f.at, IF written THEN f.text ELSE Read(d, o))
        ELSE ds
      ELSE IF written THEN ApplyEdited(ds, o, f.text) ELSE ds

ResyncRemoved(ds, r, plan, n, o) ==
  IF o \in Doomed(r) /\ Landed(plan, n, "delete", o) THEN DidFileDelete(ds, o) ELSE ds

ResyncedLive(ds, r, d, plan, n) ==
  LET after[i \in 0 .. Len(r.order)] ==
        IF i = 0 THEN ds ELSE Resync(after[i - 1], r, d, plan, n, r.order[i])
  IN  after

ResyncedRemoved(ds, r, plan, n) ==
  LET after[i \in 0 .. Len(r.order)] ==
        IF i = 0 THEN ds ELSE ResyncRemoved(after[i - 1], r, plan, n, r.order[i])
  IN  after

Resynced(ds, r, d, plan, n) ==
  LET live == ResyncedLive(ds, r, d, plan, n)[Len(r.order)]
  IN  ResyncedRemoved(live, r, plan, n)[Len(r.order)]

\* Every row of the plan, whatever of it was committed.
BugApplied(r, plan, n) ==
  [applied     |-> TRUE,
   refused     |-> "",
   partial     |-> n < Len(plan),
   rows        |-> UNION {op.rows : op \in Range(plan)},
   overwritten |-> {}]

Applied(r, plan, n) ==
  [applied     |-> TRUE,
   refused     |-> "",
   partial     |-> n < Len(plan),
   rows        |-> UNION {plan[i].rows : i \in 1 .. n},
   overwritten |-> {u \in r.overwrites : \/ Landed(plan, n, "write", u)
                                         \/ Landed(plan, n, "rename", u)}]

-----------------------------------------------------------------------------
(* The steps.                                                              *)

Odd(op) ==
  op.overwrite \/ op.ignore \/ op.recursive \/ op.site # "plain" \/ op.uri = Outside

AllGates == [write |-> TRUE, destructive |-> TRUE, incomplete |-> TRUE, lister |-> TRUE]

Oddities(ops) == Cardinality({i \in DOMAIN ops : Odd(ops[i])})

Peculiar == Cardinality({u \in File : disk[u].kind \in {"link", "dir"}})
              + Cardinality({u \in File \ {Queried} : docs[u].open})
              + Cardinality({g \in DOMAIN gates : ~ gates[g]})

\* The plain ones, and some refused or flagged for a reason of their own.
Usual(op) ==
  /\ op.uri # Outside /\ ~ op.recursive /\ op.site = "plain"
  /\ op.to \in (IF op.kind = "rename" THEN File \ {op.uri} ELSE {Queried})
  /\ ~ (op.overwrite /\ op.ignore)
  /\ op.kind = "edit" => ~ op.overwrite /\ ~ op.ignore

Unusual == {[Plain("delete", Queried, Queried) EXCEPT !.recursive = TRUE],
            [Plain("edit", Queried, Queried) EXCEPT !.site = "confirm"],
            [Plain("edit", Queried, Queried) EXCEPT !.site = "overlap"],
            Plain("edit", Outside, Queried)}

Operations == {op \in Operation : Usual(op)} \cup Unusual

Batches == {b \in UNION {[1 .. n -> Operations] : n \in 0 .. MaxOps} :
              Len(b) + Oddities(b) <= MaxWeight}

Inodes(u) == {Absent, Holds(Original(u)),
              [kind |-> "link", text |-> Original(u)], [kind |-> "dir", text |-> Missing]}

Init ==
  /\ gates \in [write : BOOLEAN, destructive : BOOLEAN, incomplete : BOOLEAN, lister : BOOLEAN]
  /\ \E d \in [File -> UNION {Inodes(u) : u \in File}] :
       /\ d[Queried] = Holds(Original(Queried))
       /\ \A u \in File : d[u] \in Inodes(u)
       /\ disk = d
       /\ \E S \in SUBSET {u \in File : Read(d, u) # Missing} :
            docs = [u \in File |->
                      IF u \in S THEN [DidOpen(FreshlyOpen(Closed, 1), Read(d, u))
                                         EXCEPT !.awaiting = FALSE, !.cached = u]
                      ELSE Closed]
  /\ base    = disk
  /\ edit    = <<>>
  /\ verdict = "none"
  /\ phase   = "idle"
  /\ result  = NotApplied
  /\ Peculiar < MaxWeight

\* manager.run: open the document, ask prepareRename and rename, then scan.
Compute(ops, scan) ==
  /\ phase = "idle"
  /\ Len(ops) + Oddities(ops) + Peculiar <= MaxWeight
  /\ scan # "whole" => gates.lister
  /\ docs'    = EnsureOpen(docs, Queried, Read(disk, Queried))
  /\ edit'    = ops
  /\ verdict' = Assess(ops, disk, scan)
  /\ phase'   = "computed"
  /\ UNCHANGED <<gates, disk, base, result>>

\* prepareRename or rename answers not_ready, or null: no edit to apply.
ComputeNothing ==
  /\ phase = "idle"
  /\ docs'   = EnsureOpen(docs, Queried, Read(disk, Queried))
  /\ phase'  = "done"
  /\ UNCHANGED <<gates, disk, edit, verdict, base, result>>

\* Somebody writes to a file, elsewhere or at the edit site, or creates it.
Drift(u, site) ==
  /\ phase = "computed"
  /\ \A v \in File : ~ Read(disk, v).drift
  /\ Len(edit) + Oddities(edit) + Peculiar < MaxWeight
  /\ disk[u].kind \in {"file", "absent"}
  /\ disk' = [disk EXCEPT ![u] = Holds([Original(u) EXCEPT !.site = site, !.drift = TRUE])]
  /\ base' = disk'
  /\ UNCHANGED <<gates, docs, edit, verdict, phase, result>>

DryRun ==
  /\ phase = "computed"
  /\ ~ gates.write \/ BlockedByGuard \/ edit = <<>>
  /\ phase'  = "done"
  /\ result' = IF gates.write /\ BlockedByGuard THEN Refused("incomplete") ELSE NotApplied
  /\ UNCHANGED <<gates, disk, docs, edit, verdict, base>>

RefuseEarly ==
  /\ phase = "computed"
  /\ gates.write /\ ~ BlockedByGuard /\ edit # <<>>
  /\ \/ ~ Confined
     \/ \E i \in DOMAIN edit : BadOption(edit[i])
  /\ phase'  = "done"
  /\ result' = Refused(IF ~ Confined THEN "outside" ELSE "option")
  /\ UNCHANGED <<gates, disk, docs, edit, verdict, base>>

WhyNot(r, d, ops) ==
  IF r.refused # "" THEN r.refused
  ELSE IF StaleSite(r, d, ops) THEN "stale site"
  ELSE IF Collision(r) THEN "collision" ELSE ""

\* applyEdit under the locks.  It refuses or finds nothing to do; or a
\* temporary file cannot be written and the call rejects; or the commit gets
\* through n operations.
Apply ==
  /\ phase = "computed"
  /\ gates.write /\ ~ BlockedByGuard /\ edit # <<>>
  /\ Confined
  /\ \A i \in DOMAIN edit : ~ BadOption(edit[i])
  /\ LET r    == Replay(disk, edit)
         why  == WhyNot(r, disk, edit)
         plan == Plan(r, disk)
     IN  \/ /\ why # "" \/ plan = <<>>
            /\ result' = Refused(why)
            /\ UNCHANGED <<disk, docs>>
         \/ /\ why = ""
            /\ \E op \in Range(plan) : op.kind = "write"
            /\ result' = Refused("throws")
            /\ UNCHANGED <<disk, docs>>
         \/ /\ why = "" /\ plan # <<>>
            /\ \E n \in 0 .. Len(plan) :
                 /\ Committed(disk, plan, n)
                 /\ disk'   = Disks(disk, plan)[n]
                 /\ docs'   = Resynced(docs, r, disk, plan, n)
                 /\ result' = Applied(r, plan, n)
  /\ phase' = "done"
  /\ UNCHANGED <<gates, edit, verdict, base>>

Next ==
  \/ \E ops \in Batches, scan \in Scans : Compute(ops, scan)
  \/ ComputeNothing
  \/ \E u \in File, site \in {"sym", "other"} : Drift(u, site)
  \/ DryRun
  \/ RefuseEarly
  \/ Apply

Spec == Init /\ [][Next]_vars

-----------------------------------------------------------------------------
(* What the batch means: its operations one after the other.  An edit that *)
(* awaits the user's confirmation is "preview-only, excluded from apply"   *)
(* (normalize.ts:466); ReplayEdit applies it all the same, as the code     *)
(* does, so that only batches without one can be compared.                 *)

AtFirst(d) == [ok |-> TRUE, disk |-> d]

Meaning(m, op) ==
  LET d    == m.disk
      Is(u) == Read(d, u) # Missing
      Put(u, t) == [m EXCEPT !.disk[u] = Holds(t)]
      fails == [m EXCEPT !.ok = FALSE]
  IN  IF ~ m.ok THEN m
      ELSE CASE op.kind = "edit" ->
                  IF op.site = "confirm" THEN m
                  ELSE IF Read(d, op.uri) # Missing THEN Put(op.uri, Edited(Read(d, op.uri)))
                  ELSE fails
             [] op.kind = "create" ->
                  IF ~ Is(op.uri) \/ op.overwrite THEN Put(op.uri, Blank)
                  ELSE IF op.ignore THEN m ELSE fails
             [] op.kind = "rename" ->
                  IF ~ Is(op.uri) THEN fails
                  ELSE IF ~ Is(op.to) \/ op.overwrite
                  THEN [m EXCEPT !.disk[op.to] = d[op.uri], !.disk[op.uri] = Absent]
                  ELSE IF op.ignore THEN m ELSE fails
             [] op.kind = "delete" ->
                  IF Is(op.uri) THEN [m EXCEPT !.disk[op.uri] = Absent]
                  ELSE IF op.ignore THEN m ELSE fails

Meanings(d, ops) ==
  LET after[i \in 0 .. Len(ops)] ==
        IF i = 0 THEN AtFirst(d) ELSE Meaning(after[i - 1], ops[i])
  IN  after

InOrder(d, ops) == Meanings(d, ops)[Len(ops)]

AsksNothing(ops) == \A i \in DOMAIN ops : ops[i].site # "confirm"

(* The batches the replay gets right: no operation takes a file away from  *)
(* a path that an earlier one renamed, revived or overwrote.               *)

Vacated(ops, i) ==
  \E j \in 1 .. i - 1 : ops[j].kind = "rename" /\ ops[j].uri = ops[i].uri

Revived(ops, i) ==
  \E j, k \in 1 .. i - 1 :
    /\ j < k
    /\ ops[j].kind = "delete" /\ ops[k].kind = "create"
    /\ ops[j].uri = ops[i].uri /\ ops[k].uri = ops[i].uri

Overwritten(ops, i) ==
  \E j \in 1 .. i - 1 :
    ops[j].kind = "rename" /\ ops[j].overwrite /\ ops[j].to = ops[i].uri

Straight(ops) ==
  \A i \in DOMAIN ops :
    /\ ~ Vacated(ops, i)
    /\ ops[i].kind \in {"delete", "rename"} => ~ Revived(ops, i) /\ ~ Overwritten(ops, i)

-----------------------------------------------------------------------------
(* Properties.                                                             *)

Completed == phase = "done" /\ result.applied /\ ~ result.partial

ReplayedInOrder ==
  LET meant == InOrder(base, edit)
  IN  meant.ok /\ \A u \in File : Read(disk, u) = Read(meant.disk, u)

\* "Resource operations APPLY in documentChanges order interleaved with text
\* edits" (rename.ts:13), of every batch that applies completely and has no
\* edit awaiting confirmation.
AppliedInOrder == Completed /\ AsksNothing(edit) => ReplayedInOrder

\* The same of those batches that take no path's file away twice.
StraightAppliedInOrder ==
  Completed /\ AsksNothing(edit) /\ Straight(edit) => ReplayedInOrder

\* However far the commit of such a batch got, a document the session has open
\* is the server's with the text on the disk, opened once, and a document it
\* closed is closed at the server too: later queries are answered from what
\* the disk holds.
BuffersFollowTheDisk ==
  phase = "done" /\ result.applied /\ Straight(edit) =>
    \A u \in File :
      /\ ~ docs[u].confused
      /\ docs[u].open <=> docs[u].buffer.open
      /\ docs[u].open /\ disk[u] # base[u] => docs[u].buffer.text = Read(disk, u)
      /\ ~ docs[u].open => docs[u].cached = None

\* The audit rows name exactly the documents whose text changed on the disk,
\* however far the commit got.
AuditNamesWhatLanded ==
  phase = "done" =>
    /\ \A u \in File : Read(disk, u) # Read(base, u) =>
         \E row \in result.rows : u \in row.files
    /\ \A row \in result.rows : \E u \in row.files : Read(disk, u) # Read(base, u)

Surrendered(u) ==
  \E i \in DOMAIN edit : edit[i].uri = u /\ edit[i].kind \in {"rename", "delete"}

Deletes == \E i \in DOMAIN edit : edit[i].kind = "delete"

\* What somebody wrote to the queried document after the rename was computed is
\* neither edited nor replaced unless the batch itself moves the document away
\* or deletes it. Nor is any document replaced without the operator's
\* destructive gate, or changed past the partial-rename guard.
NothingIsClobbered ==
  phase = "done" =>
    /\ Read(base, Queried).drift /\ ~ Surrendered(Queried) =>
         Read(disk, Queried) = Read(base, Queried)
    /\ ~ (gates.write /\ gates.destructive) =>
         \A u \in File : Read(base, u) = Missing
                           \/ \E v \in File : Read(disk, v).of = u
                           \/ Deletes
    /\ verdict = "suspect" /\ ~ gates.incomplete => disk = base
    /\ verdict = "unknown" /\ ~ gates.incomplete => result.overwritten = {}

=============================================================================
